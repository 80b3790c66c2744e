----------------------------- MODULE OrderService -----------------------------
(***************************************************************************)
(* The order service: the handlers of src/order/pkg/handler/handler.go and *)
(* the life of the process they run in, src/order/cmd/main.go.             *)
(*                                                                         *)
(* Every HTTP request is a goroutine of its own.  The handlers share the   *)
(* OrderStore, a map under a RWMutex, and hold the lock for one map        *)
(* operation at a time: a lookup under RLock or an assignment under Lock.  *)
(* Such a critical section is one step here, and everything between two of *)
(* them may interleave with the other handlers.  PayOrder and CancelOrder  *)
(* look an order up, let the lock go, and later assign the copy they hold. *)
(*                                                                         *)
(* The calls to the inventory are reads of a constant and are folded into  *)
(* the step that uses their result.  A call to the payment service is the  *)
(* record rpc[r]: this module sends it and waits, the composition serves   *)
(* it.                                                                     *)
(***************************************************************************)
EXTENDS Inventory, Naturals, Sequences, SequencesExt

CONSTANTS
    Requests,    \* the HTTP requests a run handles, a goroutine each
    Inputs       \* the requests clients send

VARIABLES
    proc,        \* the process: "up", "draining" after a signal, "down"
    orders,      \* OrderStore.orders: identifier -> order, or None
    pc,          \* where the handler of each request stands
    req,         \* the decoded request it handles
    snap,        \* the copy of the order it took under RLock
    rpc,         \* its call to the payment service
    reply        \* what it returned

vars == <<proc, orders, pc, req, snap, rpc, reply>>

(* The values of the API.                                                  *)
Methods == {"CARD", "SBP", "CREDIT_CARD", "INVESTOR_MONEY"}
Statuses == {"PENDING_PAYMENT", "PAID", "CANCELLED"}
Ops == {"create", "pay", "cancel", "get"}

\* A request: the operation and its parameters, None where it has none.
Request(op, order, method, parts) ==
    [op |-> op, order |-> order, method |-> method, parts |-> parts]

CreateRequest(parts) == Request("create", None, None, parts)
PayRequest(order, method) == Request("pay", order, method, None)
CancelRequest(order) == Request("cancel", order, None, None)
GetRequest(order) == Request("get", order, None, None)
NoRequest == Request(None, None, None, None)

\* The parts of a ship; the shield and the weapon may be None.
Ship(hull, engine, shield, weapon) ==
    [hull |-> hull, engine |-> engine, shield |-> shield, weapon |-> weapon]

ASSUME NoneAssumption == None \notin Methods \cup Ops

\* What the generated decoder and its Validate let through to the handlers.
ASSUME InputsAssumption ==
    \A q \in Inputs :
        /\ q = Request(q.op, q.order, q.method, q.parts)
        /\ q.op \in Ops
        /\ IF q.op = "create"
           THEN /\ q.order = None
                /\ q.parts = Ship(q.parts.hull, q.parts.engine, q.parts.shield, q.parts.weapon)
           ELSE q.order \in OrderIds /\ q.parts = None
        /\ IF q.op = "pay" THEN q.method \in Methods ELSE q.method = None

-----------------------------------------------------------------------------
(* CreateOrder: what it asks the inventory and what it makes of the answer *)

Optional(id) == IF id = None THEN <<>> ELSE <<id>>

\* The identifiers of the call, in the order the handler appends them.
PartIds(ship) ==
    <<ship.hull, ship.engine>> \o Optional(ship.shield) \o Optional(ship.weapon)

Answer(ship) == ListParts(PartIds(ship), "UNSPECIFIED")

\* partsMap: the parts of the answer, by identifier.
PartsMap(ship) ==
    [id \in {p.uuid : p \in ToSet(Answer(ship).parts)} |->
        CHOOSE p \in ToSet(Answer(ship).parts) : p.uuid = id]

InStock(ship) ==
    /\ Len(Answer(ship).parts) = Len(PartIds(ship))
    /\ \A id \in ToSet(PartIds(ship)) :
          id \in DOMAIN PartsMap(ship) /\ PartsMap(ship)[id].stock > 0

\* Mutant of TotalPrice: the sum runs over the map, a part used twice once.
TotalPriceOfParts(ship) ==
    MapThenSumSet(LAMBDA id : PartsMap(ship)[id].price, DOMAIN PartsMap(ship))

\* The loop over the identifiers, duplicates included.  int64: a ship costs
\* a few million kopecks, far from the width.
TotalPrice(ship) ==
    FoldSeq(LAMBDA id, sum : sum + PartsMap(ship)[id].price, 0, PartIds(ship))

-----------------------------------------------------------------------------
(* Conversions of the payment method                                       *)

\* Mutant of MethodCode: a case has lost its assignment, and the variable keeps
\* its zero.
MethodCodeWithoutSbp ==
    [CARD |-> 1, SBP |-> 0, CREDIT_CARD |-> 3, INVESTOR_MONEY |-> 4]

\* Mutant of MethodCode: a case is copied and its number with it.
MethodCodeCopied ==
    [CARD |-> 1, SBP |-> 1, CREDIT_CARD |-> 3, INVESTOR_MONEY |-> 4]

\* PaymentMethod of the API to the enum of the payment service.
MethodCode ==
    [CARD |-> 1, SBP |-> 2, CREDIT_CARD |-> 3, INVESTOR_MONEY |-> 4]

\* The enum back to a name, PAYMENT_METHOD_ trimmed, as it is stored.
MethodName == <<"CARD", "SBP", "CREDIT_CARD", "INVESTOR_MONEY">>

-----------------------------------------------------------------------------
(* Orders, replies and calls                                               *)

Ships == {q.parts : q \in {q \in Inputs : q.op = "create"}}
Prices == {TotalPrice(s) : s \in {s \in Ships : Answer(s).code = "OK"}}

Order == [uuid : OrderIds, parts : Ships, price : Prices, status : Statuses,
          txn : Txns \cup {None}, method : Methods \cup {None}]

\* What a lookup does not find is told from every order it finds.
ASSUME OrderAssumption == None \notin Order

\* A call to the payment service: sent, then answered with a transaction or
\* an error; "none" if the handler made no call.
Calls == [state : {"none", "sent", "ok", "error"}, txn : Txns \cup {None}]
NoCall == [state |-> "none", txn |-> None]

\* A reply: the HTTP status and, by operation, the order created and its
\* price, the transaction, or the order that was read.
Reply(code, order, price, txn, view) ==
    [code |-> code, order |-> order, price |-> price, txn |-> txn, view |-> view]

Status(code) == Reply(code, None, None, None, None)
NoReply == Status(0)

Codes == {0, 200, 201, 404, 409, 500}
Replies == [code : Codes, order : OrderIds \cup {None}, price : Prices \cup {None},
            txn : Txns \cup {None}, view : Order \cup {None}]

Stages == {"idle", "accepted", "listing", "paying", "cancelling", "done", "dead"}
InFlight(r) == pc[r] \in {"accepted", "listing", "paying", "cancelling"}

\* The identifiers handed out so far: uuid.New repeats none of them, in this
\* life of the process or a later one.
Minted == {reply[r].order : r \in Requests} \ {None}

-----------------------------------------------------------------------------
(* The handlers                                                            *)

OrderInit ==
    /\ proc = "up"
    /\ orders = [o \in OrderIds |-> None]
    /\ pc = [r \in Requests |-> "idle"]
    /\ req = [r \in Requests |-> NoRequest]
    /\ snap = [r \in Requests |-> None]
    /\ rpc = [r \in Requests |-> NoCall]
    /\ reply = [r \in Requests |-> NoReply]

\* r handles an operation op and stands at a stage of it.
At(r, op, stage) == pc[r] = stage /\ req[r].op = op

\* The handler moves on; it returns, which drops its copy of the order.
Goto(r, stage) == pc' = [pc EXCEPT ![r] = stage]

Return(r, answer) ==
    /\ reply' = [reply EXCEPT ![r] = answer]
    /\ snap' = [snap EXCEPT ![r] = None]
    /\ Goto(r, "done")

\* h.store.orders[o] = order, under Lock.
Write(o, order) == orders' = [orders EXCEPT ![o] = order]

\* A client opens a connection while the listener is open.
Arrive(r, q) ==
    /\ proc = "up"
    /\ pc[r] = "idle"
    /\ req' = [req EXCEPT ![r] = q]
    /\ Goto(r, "accepted")
    /\ UNCHANGED <<proc, orders, snap, rpc, reply>>

\* The request is not read in ReadTimeout, or the client goes away first:
\* no handler runs.
Abandon(r) ==
    /\ pc[r] = "accepted"
    /\ Goto(r, "dead")
    /\ UNCHANGED <<proc, orders, req, snap, rpc, reply>>

\* GetOrder: one lookup; the rest of the handler copies its result out.
GetOrder(r) ==
    /\ At(r, "get", "accepted")
    /\ LET order == orders[req[r].order] IN
          Return(r, IF order = None THEN Status(404)
                    ELSE Reply(200, None, None, None, order))
    /\ UNCHANGED <<proc, orders, req, rpc>>

\* CreateOrder, up to its call of the inventory.
CreateCall(r) ==
    /\ At(r, "create", "accepted")
    /\ Goto(r, "listing")
    /\ UNCHANGED <<proc, orders, req, snap, rpc, reply>>

\* The call fails: the inventory knows a part less than the request names,
\* or is not reached, or does not answer in 5 seconds.  Every error is 404.
CreateFail(r) ==
    /\ At(r, "create", "listing")
    /\ Return(r, Status(404))
    /\ UNCHANGED <<proc, orders, req, rpc>>

\* The parts are known and one is not in stock.
CreateConflict(r) ==
    /\ At(r, "create", "listing")
    /\ Answer(req[r].parts).code = "OK"
    /\ ~InStock(req[r].parts)
    /\ Return(r, Status(409))
    /\ UNCHANGED <<proc, orders, req, rpc>>

NewOrder(o, ship) ==
    [uuid |-> o, parts |-> ship, price |-> TotalPrice(ship),
     status |-> "PENDING_PAYMENT", txn |-> None, method |-> None]

\* The parts are in stock: the order is made under a fresh identifier,
\* stored and answered.  No part is reserved.
CreateStore(r, o) ==
    /\ At(r, "create", "listing")
    /\ Answer(req[r].parts).code = "OK"
    /\ InStock(req[r].parts)
    /\ o \notin Minted
    /\ Write(o, NewOrder(o, req[r].parts))
    /\ Return(r, Reply(201, o, TotalPrice(req[r].parts), None, None))
    /\ UNCHANGED <<proc, req, rpc>>

\* The lookup that PayOrder and CancelOrder begin with, when it ends them:
\* no such order, or one whose status is not among those the handler takes.
Refuse404(r, op) ==
    /\ At(r, op, "accepted")
    /\ orders[req[r].order] = None
    /\ Return(r, Status(404))
    /\ UNCHANGED <<proc, orders, req, rpc>>

\* Mutant of Refuse409: the payment is asked for before the status is known.
Refuse409AfterCall(r, op) ==
    /\ At(r, op, "accepted")
    /\ orders[req[r].order] # None
    /\ orders[req[r].order].status # "PENDING_PAYMENT"
    /\ rpc' = IF op = "pay" THEN [rpc EXCEPT ![r].state = "sent"] ELSE rpc
    /\ Return(r, Status(409))
    /\ UNCHANGED <<proc, orders, req>>

Refuse409(r, op) ==
    /\ At(r, op, "accepted")
    /\ orders[req[r].order] # None
    /\ orders[req[r].order].status # "PENDING_PAYMENT"
    /\ Return(r, Status(409))
    /\ UNCHANGED <<proc, orders, req, rpc>>

\* Mutant of PayCall: the status is not looked at.
PayCallUnchecked(r) ==
    /\ At(r, "pay", "accepted")
    /\ orders[req[r].order] # None
    /\ snap' = [snap EXCEPT ![r] = orders[req[r].order]]
    /\ rpc' = [rpc EXCEPT ![r].state = "sent"]
    /\ Goto(r, "paying")
    /\ UNCHANGED <<proc, orders, req, reply>>

\* PayOrder finds the order pending, keeps a copy of it and calls the
\* payment service, with no lock held and 5 seconds to wait.
PayCall(r) ==
    /\ At(r, "pay", "accepted")
    /\ orders[req[r].order] # None
    /\ orders[req[r].order].status = "PENDING_PAYMENT"
    /\ snap' = [snap EXCEPT ![r] = orders[req[r].order]]
    /\ rpc' = [rpc EXCEPT ![r].state = "sent"]
    /\ Goto(r, "paying")
    /\ UNCHANGED <<proc, orders, req, reply>>

\* Mutant of Settled: the prefix of the enum's name is not trimmed.
SettledUntrimmed(r) ==
    [snap[r] EXCEPT !.status = "PAID", !.txn = rpc[r].txn,
                    !.method = "PAYMENT_METHOD_" \o MethodName[MethodCode[req[r].method]]]

\* The copy, paid: what PayOrder makes of it once it has a transaction.
Settled(r) ==
    [snap[r] EXCEPT !.status = "PAID", !.txn = rpc[r].txn,
                    !.method = MethodName[MethodCode[req[r].method]]]

\* Mutant of PayCommit: the error of the call is not looked at.
PayCommitAnyway(r) ==
    /\ At(r, "pay", "paying")
    /\ Write(req[r].order, Settled(r))
    /\ Return(r, Reply(200, None, None, rpc[r].txn, None))
    /\ UNCHANGED <<proc, req, rpc>>

\* The call succeeded: the paid copy is assigned, whatever the map holds by
\* now, and the transaction is the answer.
PayCommit(r) ==
    /\ At(r, "pay", "paying")
    /\ rpc[r].state = "ok"
    /\ Write(req[r].order, Settled(r))
    /\ Return(r, Reply(200, None, None, rpc[r].txn, None))
    /\ UNCHANGED <<proc, req, rpc>>

\* Mutant of PayFail: the handler rolls the order back to its copy.
PayFailRollsBack(r) ==
    /\ At(r, "pay", "paying")
    /\ Write(req[r].order, snap[r])
    /\ Return(r, Status(500))
    /\ UNCHANGED <<proc, req, rpc>>

\* Mutant of PayFail: the call has no deadline.
PayFailOnAnswer(r) ==
    /\ At(r, "pay", "paying")
    /\ rpc[r].state = "error"
    /\ Return(r, Status(500))
    /\ UNCHANGED <<proc, orders, req, rpc>>

\* The call failed: refused by the service, not delivered, or not answered
\* in time.  The last may be true of a call the service has served or will.
PayFail(r) ==
    /\ At(r, "pay", "paying")
    /\ Return(r, Status(500))
    /\ UNCHANGED <<proc, orders, req, rpc>>

\* Mutant of CancelRead: only a cancelled order is refused.
CancelReadPaid(r) ==
    /\ At(r, "cancel", "accepted")
    /\ orders[req[r].order] # None
    /\ orders[req[r].order].status # "CANCELLED"
    /\ snap' = [snap EXCEPT ![r] = orders[req[r].order]]
    /\ Goto(r, "cancelling")
    /\ UNCHANGED <<proc, orders, req, rpc, reply>>

\* CancelOrder finds an order it may cancel and keeps a copy of it.
CancelRead(r) ==
    /\ At(r, "cancel", "accepted")
    /\ orders[req[r].order] # None
    /\ orders[req[r].order].status \notin {"PAID", "CANCELLED"}
    /\ snap' = [snap EXCEPT ![r] = orders[req[r].order]]
    /\ Goto(r, "cancelling")
    /\ UNCHANGED <<proc, orders, req, rpc, reply>>

\* Mutant of CancelWrite: the order is deleted from the map.
CancelDelete(r) ==
    /\ At(r, "cancel", "cancelling")
    /\ Write(req[r].order, None)
    /\ Return(r, Status(200))
    /\ UNCHANGED <<proc, req, rpc>>

\* The cancelled copy is assigned, whatever the map holds by now.
CancelWrite(r) ==
    /\ At(r, "cancel", "cancelling")
    /\ Write(req[r].order, [snap[r] EXCEPT !.status = "CANCELLED"])
    /\ Return(r, Status(200))
    /\ UNCHANGED <<proc, req, rpc>>

-----------------------------------------------------------------------------
(* The process                                                             *)

\* SIGINT, SIGTERM or the failure of the listener wakes main up, which
\* begins Shutdown: no connection is accepted, the handlers go on.
Signal ==
    /\ proc = "up"
    /\ proc' = "draining"
    /\ UNCHANGED <<orders, pc, req, snap, rpc, reply>>

\* The process is gone, and with it the map and the handlers that had not
\* returned.
Gone ==
    /\ proc' = "down"
    /\ orders' = [o \in OrderIds |-> None]
    /\ pc' = [r \in Requests |-> IF InFlight(r) THEN "dead" ELSE pc[r]]
    /\ snap' = [r \in Requests |-> None]
    /\ UNCHANGED <<req, rpc, reply>>

\* Shutdown returns when every handler has, or when shutdownTimeout is over;
\* main returns then, whatever the handlers still wait for.
Exit ==
    /\ proc = "draining"
    /\ Gone

\* The process is killed.
Crash ==
    /\ proc # "down"
    /\ Gone

\* main starts again, with NewOrderStore.
Start ==
    /\ proc = "down"
    /\ proc' = "up"
    /\ UNCHANGED <<orders, pc, req, snap, rpc, reply>>

-----------------------------------------------------------------------------
\* One step of the handler of r.
HandlerStep(r) ==
    \/ Abandon(r)
    \/ GetOrder(r)
    \/ CreateCall(r) \/ CreateFail(r) \/ CreateConflict(r)
    \/ \E o \in OrderIds : CreateStore(r, o)
    \/ \E op \in {"pay", "cancel"} : Refuse404(r, op) \/ Refuse409(r, op)
    \/ PayCall(r) \/ PayCommit(r) \/ PayFail(r)
    \/ CancelRead(r) \/ CancelWrite(r)

ProcessStep == Signal \/ Exit \/ Crash \/ Start

OrderNext ==
    \/ \E r \in Requests : HandlerStep(r) \/ \E q \in Inputs : Arrive(r, q)
    \/ ProcessStep
=============================================================================
