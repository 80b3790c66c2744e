---------------------------- MODULE SerialClients ----------------------------
(***************************************************************************)
(* The system under the clients its tests are written for: nobody sends a  *)
(* request about an order while another one about it is being handled      *)
(* (src/order/tests/api_test.go sends one request after the other).  The   *)
(* service does not enforce this.  Requests about different orders, and    *)
(* calls the payment service takes up late, still interleave.              *)
(***************************************************************************)
EXTENDS RocketLab

Alone(q) == \A r \in Requests : InFlight(r) /\ q.order # None => req[r].order # q.order

SerialNext ==
    \/ /\ \/ \E r \in Requests :
                 HandlerStep(r) \/ \E q \in Inputs : Alone(q) /\ Arrive(r, q)
          \/ ProcessStep
       /\ UNCHANGED ledger
    \/ \E r \in Requests, t \in Txns : ServePayment(r, t)

SerialSpec == Init /\ [][SerialNext]_allVars

-----------------------------------------------------------------------------
(* The promise of the API, for these clients.  An order is what the map    *)
(* holds; the answer of a GetOrder is the transaction of the copy shown.   *)

bookOf ==
    [o \in OrderIds |->
        IF orders[o] = None THEN [status |-> "absent", txn |-> None]
        ELSE [status |-> orders[o].status, txn |-> orders[o].txn]]

wantsOf == [r \in Requests |-> [op |-> req[r].op, order |-> req[r].order]]

answerOf ==
    [r \in Requests |->
        [code |-> reply[r].code, order |-> reply[r].order,
         txn |-> IF reply[r].view = None THEN reply[r].txn ELSE reply[r].view.txn]]

Api == INSTANCE OrderApi
    WITH Clients <- Requests, Orders <- OrderIds, Payments <- Txns,
         Nothing <- None, book <- bookOf, wants <- wantsOf, answer <- answerOf

\* Every request takes effect in one indivisible step, on an order it may
\* take effect on, though PayOrder and CancelOrder look the order up and
\* assign it in two (handler.go:222-301, 310-342).
KeepsPromise == Api!Promise

-----------------------------------------------------------------------------
(* Why it does: what is true of these clients only.                        *)

\* No two requests about one order are handled at a time.
OneAtATime ==
    \A r, q \in Requests :
        InFlight(r) /\ InFlight(q) /\ req[r].order = req[q].order
            /\ req[r].order # None => r = q

\* So the copy a handler holds is what the map holds.
CopiesAreCurrent ==
    \A r \in Requests : pc[r] \in {"paying", "cancelling"} =>
        orders[req[r].order] = snap[r]

\* A transaction that anybody was told, or saw, was first told to the client
\* whose call it answers.
TxnsWereTold ==
    \A r \in Requests :
        /\ reply[r].txn # None => rpc[r].txn = reply[r].txn
        /\ reply[r].view # None => \/ reply[r].view.txn = None
                                  \/ \E q \in Requests : reply[q].txn = reply[r].view.txn

NotAskedYet == \A r \in Requests : pc[r] = "idle" => req[r] = NoRequest

\* The inductive invariant of these clients, on top of IInv and SaidInv.
SerialInv ==
    NotAskedYet /\ OneAtATime /\ CopiesAreCurrent /\ TxnsWereTold /\ PaidOnce
=============================================================================
