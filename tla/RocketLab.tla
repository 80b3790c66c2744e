------------------------------ MODULE RocketLab ------------------------------
(***************************************************************************)
(* The whole system: clients, the order service, the inventory it reads    *)
(* and the payment service it calls.  The services share no memory; the    *)
(* only thing that travels is the call rpc[r] of a PayOrder handler.       *)
(***************************************************************************)
EXTENDS OrderService, Payment

allVars == <<vars, ledger>>

(***************************************************************************)
(* The payment service takes up a call that was sent and answers it.  gRPC *)
(* delivers a call at most once, perhaps never.  The handler that sent it  *)
(* may have given up by then, or be gone with its process: the service     *)
(* does not look at the deadline.                                          *)
(***************************************************************************)
ServePayment(r, txn) ==
    LET method == MethodCode[req[r].method] IN
    /\ rpc[r].state = "sent"
    /\ PayOrder(req[r].order, method, txn)
    /\ rpc' = [rpc EXCEPT ![r] = IF Accepts(req[r].order, method)
                                THEN [state |-> "ok", txn |-> txn]
                                ELSE [state |-> "error", txn |-> None]]
    /\ UNCHANGED <<proc, orders, pc, req, snap, reply>>

Init == OrderInit /\ PaymentInit

Next ==
    \/ OrderNext /\ UNCHANGED ledger
    \/ \E r \in Requests, t \in Txns : ServePayment(r, t)

Spec == Init /\ [][Next]_allVars

-----------------------------------------------------------------------------
(* What the state is made of.                                              *)
TypeOK ==
    /\ proc \in {"up", "draining", "down"}
    /\ orders \in [OrderIds -> Order \cup {None}]
    /\ pc \in [Requests -> Stages]
    /\ req \in [Requests -> Inputs \cup {NoRequest}]
    /\ snap \in [Requests -> Order \cup {None}]
    /\ rpc \in [Requests -> Calls]
    /\ reply \in [Requests -> Replies]
    /\ ledger \subseteq [txn : Txns, order : OrderIds, method : MethodCodes]

-----------------------------------------------------------------------------
(* Safety                                                                  *)

\* Requests that were answered: op on order o with a status code.
Answered(r, op, o, code) ==
    /\ pc[r] = "done"
    /\ req[r].op = op /\ req[r].order = o
    /\ reply[r].code = code

\* An order and the ledger: what it says of its payment is true.
BooksAgree(o, order) ==
    IF order.status = "PAID"
    THEN \E e \in ledger :
            /\ e.txn = order.txn
            /\ e.order = o
            /\ e.method = MethodCode[order.method]
    ELSE order.txn = None /\ order.method = None

\* A paid order was charged: the transaction and the method it shows are
\* those of a payment of that very order, and one that is not paid shows
\* neither.  PayOrder takes the transaction from the answer and turns
\* the method into the enum and back (handler.go:256-294).
PaidMeansCharged ==
    \A o \in OrderIds : orders[o] # None => BooksAgree(o, orders[o])

\* A payment and the one request that caused it.
BelongsTo(e, r) ==
    /\ rpc[r].txn = e.txn
    /\ \A q \in Requests : rpc[q].txn = e.txn => q = r
    /\ req[r].op = "pay" /\ req[r].order = e.order
    /\ e.method = MethodCode[req[r].method]
    /\ pc[r] = "done" => \/ reply[r].code = 500
                         \/ reply[r].code = 200 /\ reply[r].txn = e.txn

\* Nobody is charged for a request that was refused: each payment belongs to
\* one request to pay that order by that method, and that request was either
\* answered 200 with this transaction, or 500, or is not answered at all.
\* The call comes after the status check (handler.go:235-281).
ChargesAccountedFor ==
    \A e \in ledger : \E r \in Requests : BelongsTo(e, r)

\* The store and the answers of CreateOrder agree: an order in the map was
\* announced to exactly one client, whose parts and price it keeps whatever
\* was done to it since; every part was known and in stock, and the price is
\* the sum over the places of the ship, a part used twice paid twice
\* (handler.go:176-213).
Announced(o, order) ==
    \E r \in Requests :
        /\ reply[r].code = 201 /\ reply[r].order = o
        /\ req[r].parts = order.parts /\ reply[r].price = order.price
        /\ \A q \in Requests : reply[q].order = o => q = r

OrdersAnnounced ==
    \A o \in OrderIds : orders[o] # None => Announced(o, orders[o])

PriceOf(id) == IF id = None THEN 0 ELSE Catalog[id].price

Sold(ship, price) ==
    /\ price = PriceOf(ship.hull) + PriceOf(ship.engine)
                  + PriceOf(ship.shield) + PriceOf(ship.weapon)
    /\ \A id \in {ship.hull, ship.engine, ship.shield, ship.weapon} \ {None} :
          id \in DOMAIN Catalog /\ Catalog[id].stock > 0

OrdersSold ==
    \A o \in OrderIds : orders[o] # None => Sold(orders[o].parts, orders[o].price)

StoreMatchesAnswers == OrdersAnnounced /\ OrdersSold

\* An order that is settled was settled by an answer: a paid one shows the
\* transaction a client was given, a cancelled one was reported cancelled.
\* And a client told so never sees the order pending again while the process
\* lives: the copies PayOrder and CancelOrder assign late are never pending
\* (handler.go:292-301, 336-342).
SettledMeansAnswered ==
    \A o \in OrderIds : orders[o] # None =>
        /\ orders[o].status = "PAID" =>
              \E r \in Requests : Answered(r, "pay", o, 200) /\ reply[r].txn = orders[o].txn
        /\ orders[o].status = "CANCELLED" =>
              \E r \in Requests : Answered(r, "cancel", o, 200)
        /\ orders[o].status = "PENDING_PAYMENT" =>
              ~\E r \in Requests : Answered(r, "pay", o, 200) \/ Answered(r, "cancel", o, 200)

\* The payment service never refuses what the order service sends: the
\* identifier comes from the map and the method from the generated decoder
\* (handler.go:256-281, payment service.go:27-36).
PaymentAcceptsOurCalls ==
    \A r \in Requests : rpc[r].state # "error"

-----------------------------------------------------------------------------
(* Why they hold: what the handlers know while the lock is not held.       *)

\* The copy a handler will assign is that of its order, and it was pending:
\* nothing in it says paid.
CopiesArePending ==
    \A r \in Requests : pc[r] \in {"paying", "cancelling"} =>
        /\ snap[r] \in Order
        /\ snap[r].status = "PENDING_PAYMENT"
        /\ snap[r].txn = None /\ snap[r].method = None

\* A call was sent by a handler that then waited, and what it was answered
\* is on the ledger, under a transaction no other call was answered with.
CallIsTracked(r) ==
    /\ rpc[r].state # "none" =>
          /\ req[r].op = "pay"
          /\ pc[r] \in {"paying", "done", "dead"}
          /\ pc[r] = "done" => \/ reply[r].code = 500
                               \/ /\ reply[r].code = 200 /\ rpc[r].state = "ok"
                                  /\ reply[r].txn = rpc[r].txn
    /\ rpc[r].txn # None <=> rpc[r].state = "ok"
    /\ rpc[r].state = "ok" =>
          /\ \E e \in ledger :
                /\ e.txn = rpc[r].txn
                /\ e.order = req[r].order
                /\ e.method = MethodCode[req[r].method]
          /\ \A q \in Requests : rpc[q].txn = rpc[r].txn => q = r

CallsAreTracked == \A r \in Requests : CallIsTracked(r)

\* The inductive invariant: the type, what the handlers rely on while they
\* wait, and the safety properties that follow from it step by step.
IInv ==
    /\ TypeOK
    /\ CopiesArePending
    /\ CallsAreTracked
    /\ PaidMeansCharged
    /\ ChargesAccountedFor
    /\ PaymentAcceptsOurCalls

\* Nothing was said for a handler that has not returned.
NothingSaidYet ==
    \A r \in Requests : pc[r] # "done" => reply[r] = NoReply

\* The copy a handler will assign is that of an order still in the map, whose
\* parts and price it has: assigning it late changes neither.
CopiesAgree ==
    \A r \in Requests : pc[r] \in {"paying", "cancelling"} =>
        LET order == orders[req[r].order] IN
        /\ req[r].order \in OrderIds /\ order # None
        /\ order.parts = snap[r].parts /\ order.price = snap[r].price

\* An identifier that was settled was handed out before: CreateOrder will not
\* use it again for a pending order.
SettledWereMinted ==
    \A r \in Requests, o \in OrderIds :
        Answered(r, "pay", o, 200) \/ Answered(r, "cancel", o, 200) => o \in Minted

\* The inductive invariant of what was said, on top of IInv.
SaidInv ==
    /\ NothingSaidYet
    /\ OrdersAnnounced
    /\ CopiesAgree
    /\ SettledWereMinted
    /\ SettledMeansAnswered

-----------------------------------------------------------------------------
(* Steps                                                                   *)

\* While the process lives an order does not leave the map, keeps its parts
\* and its price, and once settled is never pending again, however late the
\* copy is that a handler assigns (handler.go:205, 296, 338).
OrdersKept ==
    [][\A o \in OrderIds : orders[o] # None /\ proc' # "down" =>
          /\ orders'[o] # None
          /\ orders'[o].parts = orders[o].parts
          /\ orders'[o].price = orders[o].price
          /\ orders[o].status # "PENDING_PAYMENT" =>
                orders'[o].status # "PENDING_PAYMENT"]_allVars

-----------------------------------------------------------------------------
(* What the API description and the tests say, and concurrent requests     *)
(* refute.                                                                 *)

\* "Cancels an order that has not been paid yet" (order_cancel.yaml:3): a
\* cancellation never takes a paid order.
PaidIsNotCancelled ==
    [][\A o \in OrderIds : orders[o] # None /\ orders'[o] # None =>
          ~(orders[o].status = "PAID" /\ orders'[o].status = "CANCELLED")]_allVars

\* A cancelled order is not paid: paying it is a conflict (api_test.go:824).
CancelledIsNotPaid ==
    [][\A o \in OrderIds : orders[o] # None /\ orders'[o] # None =>
          ~(orders[o].status = "CANCELLED" /\ orders'[o].status = "PAID")]_allVars

\* An order is paid once: paying it again is a conflict (api_test.go:803).
PaidOnce ==
    \A r, q \in Requests : \A o \in OrderIds :
        Answered(r, "pay", o, 200) /\ Answered(q, "pay", o, 200) => r = q

\* "Component not found" (orders.yaml:27): creating an order is answered 404
\* when a part of it is not in the catalog.
NotFoundMeansMissing ==
    \A r \in Requests :
        pc[r] = "done" /\ req[r].op = "create" /\ reply[r].code = 404 =>
            \E id \in ToSet(PartIds(req[r].parts)) : id \notin DOMAIN Catalog
=============================================================================
