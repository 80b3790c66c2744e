---------------------------- MODULE PaymentCalls ----------------------------
(***************************************************************************)
(* What RocketLab takes for granted of a call to the payment service: it   *)
(* is served at most once, in one step, at any time or never; a caller is  *)
(* told of success only with the transaction of that payment, and of       *)
(* failure whatever became of the call (RocketLab!ServePayment,            *)
(* OrderService!PayCommit, OrderService!PayFail).                          *)
(***************************************************************************)
EXTENDS Payment

CONSTANTS Calls, Asks    \* the calls, and what they may ask for

VARIABLES
    call,       \* [ask, state, txn]: as rpc in OrderService
    outcome     \* what the caller was told

callVars == <<call, outcome, ledger>>

NoAsk == [order |-> None, method |-> 0]
Call(ask, state, txn) == [ask |-> ask, state |-> state, txn |-> txn]
Unsent == Call(NoAsk, "none", None)
Told(code, txn) == [code |-> code, txn |-> txn]
Untold == Told("none", None)

CallsInit ==
    /\ PaymentInit
    /\ call = [c \in Calls |-> Unsent]
    /\ outcome = [c \in Calls |-> Untold]

Send(c, ask) ==
    /\ call[c] = Unsent
    /\ call' = [call EXCEPT ![c] = Call(ask, "sent", None)]
    /\ UNCHANGED <<outcome, ledger>>

ServeCall(c, txn) ==
    LET ask == call[c].ask IN
    /\ call[c].state = "sent"
    /\ PayOrder(ask.order, ask.method, txn)
    /\ call' = [call EXCEPT ![c] = IF Accepts(ask.order, ask.method)
                                   THEN Call(ask, "ok", txn)
                                   ELSE Call(ask, "error", None)]
    /\ UNCHANGED outcome

Succeed(c) ==
    /\ call[c].state = "ok" /\ outcome[c] = Untold
    /\ outcome' = [outcome EXCEPT ![c] = Told("OK", call[c].txn)]
    /\ UNCHANGED <<call, ledger>>

Fail(c) ==
    /\ call[c].state # "none" /\ outcome[c] = Untold
    /\ outcome' = [outcome EXCEPT ![c] = Told("error", None)]
    /\ UNCHANGED <<call, ledger>>

CallsNext ==
    \E c \in Calls :
        \/ \E ask \in Asks : Send(c, ask)
        \/ \E txn \in Txns : ServeCall(c, txn)
        \/ Succeed(c) \/ Fail(c)

CallsSpec == CallsInit /\ [][CallsNext]_callVars
=============================================================================
