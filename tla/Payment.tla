------------------------------- MODULE Payment -------------------------------
(***************************************************************************)
(* The payment service (src/payment/pkg/service/service.go).               *)
(*                                                                         *)
(* The service keeps no map of the orders it has charged.  What it leaves  *)
(* behind is one log line per payment, with the order and the transaction  *)
(* it minted: the ledger is the set of those lines.  Nothing of the        *)
(* service reads it, so a second request for the same order is a second    *)
(* charge.                                                                 *)
(***************************************************************************)
EXTENDS Naturals, Uuids

VARIABLE ledger      \* {[txn, order, method]}: the payments that went through

(* The protobuf enum PaymentMethod: its numbers, 0 is UNSPECIFIED.         *)
Unspecified == 0
MethodCodes == 0..4

PaymentInit == ledger = {}

\* The checks of PayOrder, in the order of the code: an empty identifier,
\* an unspecified method, an identifier that does not parse.  All three have
\* the same status.
Accepts(order, method) ==
    /\ order # ""
    /\ method # Unspecified
    /\ Parses(order)

\* uuid.New never repeats a version 4 UUID it returned before.
Fresh(txn) == txn \notin {e.txn : e \in ledger}

\* PayOrder of the payment service: a request that passes the checks is
\* charged under a fresh transaction, any other one leaves no trace.
PayOrder(order, method, txn) ==
    /\ Fresh(txn)
    /\ ledger' = IF Accepts(order, method)
                 THEN ledger \cup {[txn |-> txn, order |-> order, method |-> method]}
                 ELSE ledger
=============================================================================
