-------------------------- MODULE SerialClientsProofs --------------------------
(***************************************************************************)
(* Proofs about clients that send one request about an order at a time:    *)
(* an order is paid once, and every request takes effect in one step, as   *)
(* OrderApi promises.                                                      *)
(***************************************************************************)
EXTENDS SerialClients, RocketLabProofs

\* Everything the steps below rely on.
SerialKnown == Known /\ SerialInv

LEMMA SerialParts ==
    ASSUME SerialKnown
    PROVE  /\ Known /\ TypeOK /\ CopiesArePending /\ CallsAreTracked /\ PaidMeansCharged
           /\ NothingSaidYet /\ CopiesAgree /\ SettledMeansAnswered
           /\ NotAskedYet /\ OneAtATime /\ CopiesAreCurrent /\ TxnsWereTold /\ PaidOnce
  BY DEF SerialKnown, Known, IInv, SaidInv, SerialInv

\* These clients are clients of the system.
LEMMA SerialIsNext == [SerialNext]_allVars => [Next]_allVars
  BY DEF SerialNext, Next, OrderNext

-----------------------------------------------------------------------------
(* Steps in which nobody returns.                                          *)

\* Nobody returns and no copy is made; the map stays, or goes with the
\* process and all copies; a call may be answered.
LEMMA SerialMove ==
    ASSUME SerialKnown, UNCHANGED reply,
           \A q \in Requests : /\ pc'[q] = "done" <=> pc[q] = "done"
                               /\ pc'[q] = "idle" => pc[q] = "idle" /\ req'[q] = req[q]
                               /\ req'[q] = req[q] \/ pc[q] = "idle"
                               /\ pc'[q] \in {"paying", "cancelling"} =>
                                     pc'[q] = pc[q] /\ snap'[q] = snap[q] /\ orders' = orders
                               /\ rpc'[q] = rpc[q] \/ rpc[q].txn = None,
           OneAtATime'
    PROVE  SerialInv'
  <1>1. /\ TypeOK /\ NothingSaidYet
        /\ NotAskedYet /\ CopiesAreCurrent /\ TxnsWereTold /\ PaidOnce
    BY SerialParts
  <1>2. \A q \in Requests : \A op, o, code : Answered(q, op, o, code)' <=> Answered(q, op, o, code)
    BY AnsweredStays
  <1>3. NotAskedYet'
    BY <1>1 DEF NotAskedYet
  <1>4. CopiesAreCurrent'
    BY <1>1 DEF CopiesAreCurrent
  <1>5. TxnsWereTold'
    BY <1>1 DEF TxnsWereTold
  <1>6. PaidOnce'
    BY <1>1, <1>2 DEF PaidOnce
  <1>. QED  BY <1>3, <1>4, <1>5, <1>6 DEF SerialInv

\* Nobody comes, so there is still one at a time.
LEMMA AloneStays ==
    ASSUME SerialKnown,
           \A q \in Requests : pc'[q] \in {"accepted", "listing", "paying", "cancelling"} =>
              InFlight(q) /\ req'[q] = req[q]
    PROVE  OneAtATime'
  <1>1. OneAtATime
    BY SerialParts
  <1>. QED  BY <1>1 DEF OneAtATime, InFlight

\* A client comes, with no other request about its order under way.
LEMMA SerialArrive ==
    ASSUME SerialKnown, NEW r \in Requests, NEW q \in Inputs, Alone(q), Arrive(r, q)
    PROVE  SerialInv'
  <1>1. TypeOK /\ NotAskedYet /\ OneAtATime
    BY SerialParts
  <1>2. /\ UNCHANGED <<orders, snap, rpc, reply>> /\ pc[r] = "idle"
        /\ pc'[r] = "accepted" /\ req'[r] = q
        /\ \A p \in Requests : p # r => pc'[p] = pc[p] /\ req'[p] = req[p]
    BY <1>1 DEF Arrive, Goto, TypeOK
  <1>3. OneAtATime'
    BY <1>1, <1>2 DEF OneAtATime, InFlight, Alone
  <1>. QED  BY <1>1, <1>2, <1>3, SerialMove

\* The other steps in which nobody returns and nobody takes a copy.
LEMMA SerialMoves ==
    ASSUME SerialKnown,
           \/ \E r \in Requests : Abandon(r) \/ CreateCall(r)
           \/ \E r \in Requests, t \in Txns : ServePayment(r, t)
           \/ ProcessStep \/ UNCHANGED allVars
    PROVE  SerialInv' /\ UNCHANGED <<req, reply>>
  <1>1. TypeOK /\ CallsAreTracked
    BY SerialParts
  <1>2. ASSUME NEW r \in Requests, Abandon(r) \/ CreateCall(r)
        PROVE  SerialInv' /\ UNCHANGED <<req, reply>>
    <2>1. /\ UNCHANGED <<orders, snap, reply, rpc, req>>
          /\ pc[r] = "accepted" /\ pc'[r] \in {"dead", "listing"}
          /\ \A q \in Requests : q # r => pc'[q] = pc[q]
      BY <1>1, <1>2 DEF Abandon, CreateCall, At, Goto, TypeOK
    <2>2. OneAtATime'
      BY <2>1, AloneStays DEF InFlight
    <2>. QED  BY <2>1, <2>2, SerialMove
  <1>3. ASSUME NEW r \in Requests, NEW t \in Txns, ServePayment(r, t)
        PROVE  SerialInv' /\ UNCHANGED <<req, reply>>
    <2>1. UNCHANGED <<orders, pc, req, snap, reply>> /\ rpc[r].state = "sent"
      BY <1>3 DEF ServePayment
    <2>2. \A q \in Requests : q # r => rpc'[q] = rpc[q]
      BY <1>1, <1>3 DEF ServePayment, TypeOK
    <2>3. rpc[r].txn = None
      BY <1>1, <2>1 DEF CallsAreTracked, CallIsTracked
    <2>4. OneAtATime'
      BY <2>1, AloneStays DEF InFlight
    <2>. QED  BY <2>1, <2>2, <2>3, <2>4, SerialMove
  <1>4. ASSUME Signal \/ Start \/ UNCHANGED allVars
        PROVE  SerialInv' /\ UNCHANGED <<req, reply>>
    <2>1. UNCHANGED <<orders, pc, req, snap, rpc, reply>>
      BY <1>4 DEF Signal, Start, allVars, vars
    <2>2. OneAtATime'
      BY <2>1, AloneStays DEF InFlight
    <2>. QED  BY <2>1, <2>2, SerialMove
  <1>5. ASSUME Gone
        PROVE  SerialInv' /\ UNCHANGED <<req, reply>>
    <2>1. /\ UNCHANGED <<req, rpc, reply>>
          /\ \A q \in Requests : pc'[q] = IF InFlight(q) THEN "dead" ELSE pc[q]
      BY <1>5 DEF Gone
    <2>2. \A q \in Requests : /\ (pc'[q] = "done" <=> pc[q] = "done")
                             /\ (pc'[q] = "idle" => pc[q] = "idle")
                             /\ pc'[q] # "accepted" /\ pc'[q] # "listing"
                             /\ pc'[q] # "paying" /\ pc'[q] # "cancelling"
      BY <2>1 DEF InFlight
    <2>3. OneAtATime'
      BY <2>1, <2>2, AloneStays
    <2>. QED  BY <2>1, <2>2, <2>3, SerialMove
  <1>. QED  BY <1>2, <1>3, <1>4, <1>5 DEF ProcessStep, Exit, Crash

\* PayOrder and CancelOrder take their copy.
LEMMA SerialCopy ==
    ASSUME SerialKnown, NEW r \in Requests, PayCall(r) \/ CancelRead(r)
    PROVE  SerialInv' /\ UNCHANGED <<orders, req, reply>>
  <1>1. /\ TypeOK /\ IInv /\ NotAskedYet /\ CopiesAreCurrent /\ TxnsWereTold /\ PaidOnce
    BY SerialParts DEF Known
  <1>2. /\ pc[r] = "accepted"
        /\ snap' = [snap EXCEPT ![r] = orders[req[r].order]]
        /\ UNCHANGED <<orders, req, reply>>
    BY DEF PayCall, CancelRead, At
  <1>3. pc' = [pc EXCEPT ![r] = "paying"] \/ pc' = [pc EXCEPT ![r] = "cancelling"]
    BY DEF PayCall, CancelRead, Goto
  <1>4. /\ pc'[r] \in {"paying", "cancelling"} /\ snap'[r] = orders[req[r].order]
        /\ \A q \in Requests : q # r => pc'[q] = pc[q] /\ snap'[q] = snap[q]
    BY <1>1, <1>2, <1>3 DEF TypeOK
  <1>5. rpc[r].txn = None
    BY <1>1, <1>2, NoCallYet
  <1>6. \A q \in Requests : q # r => rpc'[q] = rpc[q]
    BY <1>1 DEF PayCall, CancelRead, TypeOK
  <1>7. \A q \in Requests : \A op, o, code : Answered(q, op, o, code)' <=> Answered(q, op, o, code)
    BY <1>2, <1>4, AnsweredStays
  <1>8. NotAskedYet'
    BY <1>1, <1>2, <1>4 DEF NotAskedYet
  <1>9. OneAtATime'
    BY <1>2, <1>4, AloneStays DEF InFlight
  <1>10. CopiesAreCurrent'
    BY <1>1, <1>2, <1>4 DEF CopiesAreCurrent
  <1>11. TxnsWereTold'
    BY <1>1, <1>2, <1>5, <1>6 DEF TxnsWereTold
  <1>12. PaidOnce'
    BY <1>1, <1>7 DEF PaidOnce
  <1>. QED  BY <1>2, <1>8, <1>9, <1>10, <1>11, <1>12 DEF SerialInv

-----------------------------------------------------------------------------
(* Steps in which a handler returns.                                       *)

\* Whoever sees a transaction sees one that was told.
LEMMA ShownWasTold ==
    ASSUME SerialKnown, NEW o \in OrderIds, orders[o] # None
    PROVE  orders[o].txn = None \/ \E q \in Requests : reply[q].txn = orders[o].txn
  <1>1. PaidMeansCharged /\ SettledMeansAnswered
    BY SerialParts
  <1>2. CASE orders[o].status = "PAID"
    BY <1>1, <1>2 DEF SettledMeansAnswered
  <1>3. CASE orders[o].status # "PAID"
    BY <1>1, <1>3 DEF PaidMeansCharged, BooksAgree
  <1>. QED  BY <1>2, <1>3

\* A handler returns; what it assigns is no other handler's order, and a
\* payment is answered by one that held a copy.
LEMMA SerialReturn ==
    ASSUME SerialKnown, NEW r \in Requests, NEW answer, InFlight(r), Return(r, answer),
           UNCHANGED <<req, rpc>>,
           answer.txn # None => rpc[r].txn = answer.txn,
           answer.view # None => \/ answer.view.txn = None
                                 \/ \E q \in Requests : reply[q].txn = answer.view.txn,
           \A q \in Requests : q # r /\ pc[q] \in {"paying", "cancelling"} =>
              orders'[req[q].order] = orders[req[q].order],
           req[r].op = "pay" /\ answer.code = 200 => pc[r] = "paying"
    PROVE  SerialInv'
  <1>1. /\ Known /\ TypeOK /\ CopiesArePending /\ CopiesAgree /\ SettledMeansAnswered
        /\ NotAskedYet /\ CopiesAreCurrent /\ TxnsWereTold /\ PaidOnce
    BY SerialParts
  <1>2. /\ reply[r] = NoReply /\ reply'[r] = answer /\ pc'[r] = "done"
        /\ \A q \in Requests : q # r =>
              pc'[q] = pc[q] /\ snap'[q] = snap[q] /\ reply'[q] = reply[q]
    BY <1>1, ReturnFrame
  <1>3. reply[r].txn = None
    BY <1>2 DEF NoReply, Status, Reply
  <1>4. \A t : t # None /\ (\E q \in Requests : reply[q].txn = t)
               => \E q \in Requests : reply'[q].txn = t
    BY <1>2, <1>3
  <1>5. NotAskedYet'
    BY <1>1, <1>2 DEF NotAskedYet
  <1>6. OneAtATime'
    BY <1>2, AloneStays DEF InFlight
  <1>7. CopiesAreCurrent'
    BY <1>1, <1>2 DEF CopiesAreCurrent
  <1>8. TxnsWereTold'
    <2>. SUFFICES ASSUME NEW q \in Requests
                  PROVE
        /\ reply'[q].txn # None => rpc'[q].txn = reply'[q].txn
        /\ reply'[q].view # None =>
              \/ reply'[q].view.txn = None
              \/ \E w \in Requests : reply'[w].txn = reply'[q].view.txn
      BY DEF TxnsWereTold
    <2>1. CASE q = r
      <3>1. reply'[q] = answer /\ rpc'[q] = rpc[r]
        BY <1>2, <2>1
      <3>2. answer.view # None /\ answer.view.txn # None =>
               \E w \in Requests : reply'[w].txn = answer.view.txn
        BY <1>4
      <3>. QED  BY <3>1, <3>2
    <2>2. CASE q # r
      <3>1. reply'[q] = reply[q] /\ rpc'[q] = rpc[q]
        BY <1>2, <2>2
      <3>2. /\ reply[q].txn # None => rpc[q].txn = reply[q].txn
            /\ reply[q].view # None =>
                  \/ reply[q].view.txn = None
                  \/ \E w \in Requests : reply[w].txn = reply[q].view.txn
        BY <1>1 DEF TxnsWereTold
      <3>3. reply[q].view # None /\ reply[q].view.txn # None =>
               \E w \in Requests : reply'[w].txn = reply[q].view.txn
        BY <1>4, <3>2
      <3>. QED  BY <3>1, <3>2, <3>3
    <2>. QED  BY <2>1, <2>2
  <1>9. PaidOnce'
    <2>. SUFFICES ASSUME NEW p \in Requests, NEW q \in Requests, NEW o \in OrderIds,
                         Answered(p, "pay", o, 200)', Answered(q, "pay", o, 200)'
                  PROVE  p = q
      BY DEF PaidOnce
    <2>1. \A w \in Requests : w # r =>
             (Answered(w, "pay", o, 200)' <=> Answered(w, "pay", o, 200))
      BY <1>1, ReturnFrame
    <2>2. ASSUME Answered(r, "pay", o, 200)'
          PROVE  \A w \in Requests : ~Answered(w, "pay", o, 200)
      <3>1. pc[r] = "paying" /\ req[r].order = o
        BY <1>2, <2>2 DEF Answered
      <3>2. orders[o] = snap[r] /\ orders[o] # None /\ snap[r].status = "PENDING_PAYMENT"
        BY <1>1, <3>1 DEF CopiesAreCurrent, CopiesAgree, CopiesArePending
      <3>. QED  BY <1>1, <3>2 DEF SettledMeansAnswered
    <2>3. CASE p = r \/ q = r
      BY <2>1, <2>2, <2>3
    <2>4. CASE p # r /\ q # r
      BY <1>1, <2>1, <2>4 DEF PaidOnce
    <2>. QED  BY <2>3, <2>4
  <1>. QED  BY <1>5, <1>6, <1>7, <1>8, <1>9 DEF SerialInv

\* The handlers that end without assigning.
LEMMA SerialAnswers ==
    ASSUME SerialKnown, NEW r \in Requests,
           \/ GetOrder(r) \/ CreateFail(r) \/ CreateConflict(r) \/ PayFail(r)
           \/ \E op \in {"pay", "cancel"} : Refuse404(r, op) \/ Refuse409(r, op)
    PROVE  SerialInv'
  <1>1. UNCHANGED <<orders, req, rpc>> /\ InFlight(r)
    BY DEF GetOrder, CreateFail, CreateConflict, PayFail, Refuse404, Refuse409, At, InFlight
  <1>2. CASE GetOrder(r)
    <2>. DEFINE order == orders[req[r].order]
                answer == IF order = None THEN Status(404)
                          ELSE Reply(200, None, None, None, order)
    <2>1. Return(r, answer) /\ req[r].op = "get"
      BY <1>2 DEF GetOrder, At
    <2>2. req[r].order \in OrderIds
      BY <2>1, SerialParts, RequestsAreInputs DEF Ops
    <2>3. order # None =>
             order.txn = None \/ \E q \in Requests : reply[q].txn = order.txn
      BY <2>2, ShownWasTold
    <2>4. answer.txn = None /\ (answer.view # None => answer.view = order /\ order # None)
      BY DEF Status, Reply
    <2>. HIDE DEF answer, order
    <2>. QED  BY <1>1, <2>1, <2>3, <2>4, SerialReturn
  <1>3. CASE ~GetOrder(r)
    <2>1. PICK code \in {404, 409, 500} : Return(r, Status(code))
      BY <1>3 DEF CreateFail, CreateConflict, PayFail, Refuse404, Refuse409
    <2>2. /\ Status(code).txn = None /\ Status(code).view = None
          /\ Status(code).code # 200
      BY DEF Status, Reply
    <2>. QED  BY <1>1, <2>1, <2>2, SerialReturn
  <1>. QED  BY <1>2, <1>3

LEMMA SerialCreate ==
    ASSUME SerialKnown, NEW r \in Requests, NEW o \in OrderIds, CreateStore(r, o)
    PROVE  SerialInv'
  <1>. DEFINE answer == Reply(201, o, TotalPrice(req[r].parts), None, None)
  <1>1. /\ Known /\ TypeOK /\ CopiesAgree /\ orders[o] = None
    BY SerialParts, CreateSays
  <1>2. /\ InFlight(r) /\ Return(r, answer) /\ req[r].op = "create"
        /\ UNCHANGED <<req, rpc>>
        /\ \E order : orders' = [orders EXCEPT ![o] = order]
    BY DEF CreateStore, At, InFlight, Write
  <1>3. answer.txn = None /\ answer.view = None
    BY DEF Reply
  <1>. HIDE DEF answer
  <1>4. \A p \in OrderIds : p # o => orders'[p] = orders[p]
    BY <1>1, <1>2 DEF TypeOK
  <1>5. \A q \in Requests : pc[q] \in {"paying", "cancelling"} =>
            orders'[req[q].order] = orders[req[q].order]
    BY <1>1, <1>4 DEF CopiesAgree
  <1>. QED  BY <1>2, <1>3, <1>5, SerialReturn

LEMMA SerialSettle ==
    ASSUME SerialKnown, NEW r \in Requests, PayCommit(r) \/ CancelWrite(r)
    PROVE  SerialInv'
  <1>1. TypeOK /\ CopiesAgree /\ OneAtATime
    BY SerialParts
  <1>2. /\ pc[r] \in {"paying", "cancelling"} /\ UNCHANGED <<req, rpc>>
        /\ \E order : orders' = [orders EXCEPT ![req[r].order] = order]
    BY DEF PayCommit, CancelWrite, At, Write
  <1>3. PICK answer : /\ Return(r, answer) /\ answer.view = None
                      /\ answer.txn # None => answer.txn = rpc[r].txn
                      /\ req[r].op = "pay" => pc[r] = "paying"
    <2>1. Reply(200, None, None, rpc[r].txn, None).view = None
          /\ Reply(200, None, None, rpc[r].txn, None).txn = rpc[r].txn
      BY DEF Reply
    <2>2. Status(200).view = None /\ Status(200).txn = None
      BY DEF Status, Reply
    <2>. QED  BY <2>1, <2>2 DEF PayCommit, CancelWrite, At
  <1>4. InFlight(r) /\ req[r].order \in OrderIds
    BY <1>1, <1>2, IdentifiersAreSomething DEF InFlight, CopiesAgree
  <1>5. \A q \in Requests : q # r /\ pc[q] \in {"paying", "cancelling"} =>
            req[q].order \in OrderIds /\ req[q].order # req[r].order
    BY <1>1, <1>4, IdentifiersAreSomething DEF InFlight, CopiesAgree, OneAtATime
  <1>6. \A q \in Requests : q # r /\ pc[q] \in {"paying", "cancelling"} =>
            orders'[req[q].order] = orders[req[q].order]
    BY <1>1, <1>2, <1>5 DEF TypeOK
  <1>. QED  BY <1>2, <1>3, <1>4, <1>6, SerialReturn

-----------------------------------------------------------------------------
(* The invariant.                                                          *)

LEMMA SerialStep ==
    ASSUME SerialKnown, [SerialNext]_allVars
    PROVE  SerialInv'
  <1>1. ASSUME NEW r \in Requests, HandlerStep(r)
        PROVE  SerialInv'
    <2>1. CASE \/ GetOrder(r) \/ CreateFail(r) \/ CreateConflict(r) \/ PayFail(r)
               \/ \E op \in {"pay", "cancel"} : Refuse404(r, op) \/ Refuse409(r, op)
      BY <2>1, SerialAnswers
    <2>2. CASE PayCall(r) \/ CancelRead(r)
      BY <2>2, SerialCopy
    <2>3. CASE PayCommit(r) \/ CancelWrite(r)
      BY <2>3, SerialSettle
    <2>4. CASE \E o \in OrderIds : CreateStore(r, o)
      BY <2>4, SerialCreate
    <2>5. CASE Abandon(r) \/ CreateCall(r)
      BY <2>5, SerialMoves
    <2>. QED  BY <1>1, <2>1, <2>2, <2>3, <2>4, <2>5 DEF HandlerStep
  <1>. QED  BY <1>1, SerialArrive, SerialMoves DEF SerialNext

LEMMA InitSerialInv == Init => SerialInv
  BY DEF Init, OrderInit, PaymentInit, SerialInv, NotAskedYet, OneAtATime, InFlight,
         CopiesAreCurrent, TxnsWereTold, PaidOnce, Answered, NoReply, Status, Reply

\* For these clients all three invariants hold together.
LEMMA SerialAlways == SerialSpec => []SerialKnown
  <1>1. Init => SerialKnown
    BY InitIInv, InitSaidInv, InitSerialInv DEF SerialKnown, Known
  <1>2. SerialKnown /\ [SerialNext]_allVars => SerialKnown'
    <2>. SUFFICES ASSUME SerialKnown, [SerialNext]_allVars PROVE SerialKnown'
      OBVIOUS
    <2>1. Known /\ IInv /\ [Next]_allVars
      BY SerialParts, SerialIsNext DEF Known
    <2>2. IInv'
      BY <2>1, HandlerPreserves, ArrivePreserves, ProcessPreserves, ServePreserves,
         StutterPreserves DEF Next, OrderNext
    <2>3. SaidInv'
      BY <2>1, StepsSay
    <2>4. SerialInv'
      BY SerialStep
    <2>. QED  BY <2>2, <2>3, <2>4 DEF SerialKnown, Known
  <1>. QED  BY <1>1, <1>2, PTL DEF SerialSpec

\* What is true of clients that ask about an order one at a time, for any
\* number of them: the copy a handler assigns late is what the map holds, and
\* a transaction is told to the client whose call it answers before anybody
\* else sees it (handler.go:222-342).
THEOREM SerialInvariance == SerialSpec => []SerialInv
  <1>1. SerialKnown => SerialInv
    BY DEF SerialKnown
  <1>. QED  BY <1>1, SerialAlways, PTL

\* An order is paid once when nobody asks about it while it is being paid,
\* whatever happens to the process and however late the payment service
\* answers (handler.go:222-301).
THEOREM SerialClientsPayOnce == SerialSpec => []PaidOnce
  <1>1. SerialKnown => PaidOnce
    BY SerialParts
  <1>. QED  BY <1>1, SerialAlways, PTL

-----------------------------------------------------------------------------
(* The promise: what a step of the handlers is to their clients.           *)

LEMMA MapsInit == Init => Api!ApiInit
  BY DEF Init, OrderInit, Api!ApiInit, Api!Absent, Api!Entry, Api!Idle, Api!Unanswered,
         Api!Told, bookOf, wantsOf, answerOf, NoRequest, Request, NoReply, Status, Reply

\* A client without an answer waits for the one of its request.
LEMMA Waits ==
    ASSUME SerialKnown, NEW r \in Requests, InFlight(r)
    PROVE  /\ answerOf[r] = Api!Unanswered
           /\ wantsOf[r].op = req[r].op /\ wantsOf[r].order = req[r].order
  <1>1. reply[r] = NoReply
    BY SerialParts DEF NothingSaidYet, InFlight
  <1>. QED  BY <1>1 DEF answerOf, wantsOf, Api!Unanswered, Api!Told, NoReply, Status, Reply

LEMMA WaitsFor ==
    ASSUME SerialKnown, NEW r \in Requests, InFlight(r)
    PROVE  Api!Pending(r, req[r].op)
  <1>1. answerOf[r] = Api!Unanswered /\ wantsOf[r].op = req[r].op
    BY Waits
  <1>. QED  BY <1>1 DEF Api!Pending

\* What a client is told by a return.
LEMMA Tells ==
    ASSUME SerialKnown, NEW r \in Requests, NEW answer, Return(r, answer), UNCHANGED req,
           NEW txn, txn = IF answer.view = None THEN answer.txn ELSE answer.view.txn
    PROVE  Api!Tell(r, Api!Told(answer.code, answer.order, txn))
  <1>1. reply' = [reply EXCEPT ![r] = answer] /\ reply \in [Requests -> Replies]
    BY SerialParts DEF Return, TypeOK
  <1>2. reply'[r] = answer /\ \A q \in Requests : q # r => reply'[q] = reply[q]
    BY <1>1
  <1>3. answerOf' = [answerOf EXCEPT ![r] = Api!Told(answer.code, answer.order, txn)]
    BY <1>2 DEF answerOf, Api!Told
  <1>4. UNCHANGED wantsOf
    BY DEF wantsOf
  <1>. QED  BY <1>3, <1>4 DEF Api!Tell

\* The book of a map with one more assignment.
LEMMA Turns ==
    ASSUME SerialKnown, NEW o \in OrderIds, NEW order, Write(o, order), order # None
    PROVE  Api!Turn(o, Api!Entry(order.status, order.txn))
  <1>1. orders'[o] = order /\ \A p \in OrderIds : p # o => orders'[p] = orders[p]
    BY SerialParts DEF Write, TypeOK
  <1>. QED  BY <1>1 DEF Api!Turn, Api!Entry, bookOf

\* How the book tells what the map holds.
LEMMA BookReads ==
    ASSUME NEW o \in OrderIds
    PROVE  /\ orders[o] = None => bookOf[o] = Api!Absent
           /\ orders[o] # None => /\ bookOf[o].status = orders[o].status
                                  /\ bookOf[o].txn = orders[o].txn
  BY DEF bookOf, Api!Absent, Api!Entry

LEMMA BookHolds ==
    ASSUME SerialKnown, NEW o \in OrderIds, orders[o] # None
    PROVE  /\ bookOf[o] # Api!Absent
           /\ orders[o].status \in {"PENDING_PAYMENT", "PAID", "CANCELLED"}
  <1>1. orders[o].status \in {"PENDING_PAYMENT", "PAID", "CANCELLED"}
    BY SerialParts DEF TypeOK, Order, Statuses
  <1>2. bookOf[o].status # "absent" /\ Api!Absent.status = "absent"
    BY <1>1, BookReads DEF Api!Absent, Api!Entry
  <1>. QED  BY <1>1, <1>2

\* What leaves map, requests and answers alone is nothing to the clients.
LEMMA Unseen ==
    ASSUME UNCHANGED <<orders, req, reply>>
    PROVE  UNCHANGED Api!apiVars
  BY DEF Api!apiVars, bookOf, wantsOf, answerOf

LEMMA MapsArrive ==
    ASSUME SerialKnown, NEW r \in Requests, NEW q \in Inputs, Arrive(r, q)
    PROVE  \E ask \in Api!Asks : Api!Ask(r, ask)
  <1>. DEFINE ask == [op |-> q.op, order |-> q.order]
  <1>1. /\ NotAskedYet /\ TypeOK
    BY SerialParts
  <1>2. /\ pc[r] = "idle" /\ req' = [req EXCEPT ![r] = q]
        /\ UNCHANGED <<orders, reply>>
    BY DEF Arrive
  <1>3. wantsOf[r] = Api!Idle
    BY <1>1, <1>2 DEF NotAskedYet, wantsOf, Api!Idle, NoRequest, Request
  <1>4. /\ q.op \in Ops
        /\ IF q.op = "create" THEN q.order = None ELSE q.order \in OrderIds
    BY InputsAssumption
  <1>5. ask \in Api!Asks
    BY <1>4 DEF Api!Asks, Ops
  <1>6. req'[r] = q /\ \A p \in Requests : p # r => req'[p] = req[p]
    BY <1>1, <1>2 DEF TypeOK
  <1>7. wantsOf' = [wantsOf EXCEPT ![r] = ask]
    BY <1>6 DEF wantsOf
  <1>8. UNCHANGED <<bookOf, answerOf>>
    BY <1>2 DEF bookOf, answerOf
  <1>. HIDE DEF ask
  <1>9. Api!Ask(r, ask)
    BY <1>3, <1>7, <1>8 DEF Api!Ask
  <1>. QED  BY <1>5, <1>9

LEMMA MapsGet ==
    ASSUME SerialKnown, NEW r \in Requests, GetOrder(r)
    PROVE  Api!Show(r) \/ Api!NotFound(r)
  <1>. DEFINE o == req[r].order
              order == orders[o]
              answer == IF order = None THEN Status(404)
                        ELSE Reply(200, None, None, None, order)
  <1>1. /\ InFlight(r) /\ Return(r, answer) /\ req[r].op = "get"
        /\ UNCHANGED <<orders, req>>
    BY DEF GetOrder, At, InFlight
  <1>2. o \in OrderIds
    BY <1>1, SerialParts, RequestsAreInputs DEF Ops
  <1>3. Api!Pending(r, "get") /\ wantsOf[r].order = o
    BY <1>1, Waits, WaitsFor
  <1>4. UNCHANGED bookOf
    BY <1>1 DEF bookOf
  <1>5. CASE order = None
    <2>1. answer.code = 404 /\ answer.order = None /\ answer.txn = None /\ answer.view = None
      BY <1>5 DEF Status, Reply
    <2>. HIDE DEF answer
    <2>2. Api!Tell(r, Api!Told(404, None, None))
      BY <1>1, <2>1, Tells
    <2>3. bookOf[o] = Api!Absent
      BY <1>2, <1>5, BookReads
    <2>. HIDE DEF o, order
    <2>. QED  BY <1>3, <1>4, <2>2, <2>3 DEF Api!NotFound
  <1>6. CASE order # None
    <2>1. answer.code = 200 /\ answer.order = None /\ answer.view = order
      BY <1>6 DEF Reply
    <2>. HIDE DEF answer
    <2>2. bookOf[o] # Api!Absent /\ bookOf[o].txn = order.txn
      BY <1>2, <1>6, BookReads, BookHolds
    <2>3. Api!Tell(r, Api!Told(200, None, order.txn))
      BY <1>1, <1>6, <2>1, Tells
    <2>. HIDE DEF o, order
    <2>. QED  BY <1>3, <1>4, <2>2, <2>3 DEF Api!Show
  <1>. QED  BY <1>5, <1>6

\* Refusals: nothing is assigned.
LEMMA MapsRefusal ==
    ASSUME SerialKnown, NEW r \in Requests,
           \/ CreateFail(r) \/ CreateConflict(r) \/ PayFail(r)
           \/ \E op \in {"pay", "cancel"} : Refuse404(r, op) \/ Refuse409(r, op)
    PROVE  Api!NotPlaced(r) \/ Api!NotPaid(r) \/ Api!NotFound(r) \/ Api!Conflict(r)
  <1>. DEFINE o == req[r].order
  <1>1. UNCHANGED <<orders, req>> /\ InFlight(r)
    BY DEF CreateFail, CreateConflict, PayFail, Refuse404, Refuse409, At, InFlight
  <1>2. \A code \in Nat : Return(r, Status(code)) => Api!Tell(r, Api!Told(code, None, None))
    <2>. SUFFICES ASSUME NEW code \in Nat, Return(r, Status(code))
                  PROVE  Api!Tell(r, Api!Told(code, None, None))
      OBVIOUS
    <2>1. /\ Status(code).code = code /\ Status(code).order = None
          /\ Status(code).txn = None /\ Status(code).view = None
      BY DEF Status, Reply
    <2>. QED  BY <1>1, <2>1, Tells
  <1>3. /\ UNCHANGED bookOf
        /\ Api!Pending(r, req[r].op) /\ wantsOf[r].order = o
    BY <1>1, Waits, WaitsFor DEF bookOf
  <1>4. req[r].op \in {"pay", "cancel"} => o \in OrderIds
    BY SerialParts, RequestsAreInputs DEF Ops
  <1>. HIDE DEF o
  <1>5. CASE CreateFail(r) \/ CreateConflict(r)
    <2>1. req[r].op = "create" /\ \E code \in {404, 409} : Return(r, Status(code))
      BY <1>5 DEF CreateFail, CreateConflict, At
    <2>2. \E code \in {404, 409} : Api!Tell(r, Api!Told(code, None, None))
      BY <1>2, <2>1
    <2>. QED  BY <1>3, <2>1, <2>2 DEF Api!NotPlaced
  <1>6. CASE PayFail(r)
    <2>1. req[r].op = "pay" /\ Return(r, Status(500)) /\ pc[r] = "paying"
      BY <1>6 DEF PayFail, At
    <2>2. orders[o] # None /\ orders[o].status = "PENDING_PAYMENT"
      BY <2>1, SerialParts
         DEF CopiesAgree, CopiesAreCurrent, CopiesArePending, o
    <2>3. bookOf[o].status = "PENDING_PAYMENT"
      BY <1>4, <2>1, <2>2, BookReads
    <2>4. Api!Tell(r, Api!Told(500, None, None))
      BY <1>2, <2>1
    <2>. QED  BY <1>3, <2>1, <2>3, <2>4 DEF Api!NotPaid
  <1>7. ASSUME NEW op \in {"pay", "cancel"}, Refuse404(r, op)
        PROVE  Api!NotFound(r)
    <2>1. req[r].op = op /\ Return(r, Status(404)) /\ orders[o] = None
      BY <1>7 DEF Refuse404, At, o
    <2>2. bookOf[o] = Api!Absent
      BY <1>4, <2>1, BookReads
    <2>3. Api!Tell(r, Api!Told(404, None, None))
      BY <1>2, <2>1
    <2>. QED  BY <1>3, <2>1, <2>2, <2>3 DEF Api!NotFound
  <1>8. ASSUME NEW op \in {"pay", "cancel"}, Refuse409(r, op)
        PROVE  Api!Conflict(r)
    <2>1. /\ req[r].op = op /\ Return(r, Status(409))
          /\ orders[o] # None /\ orders[o].status # "PENDING_PAYMENT"
      BY <1>8 DEF Refuse409, At, o
    <2>2. bookOf[o].status \in {"PAID", "CANCELLED"}
      BY <1>4, <2>1, BookReads, BookHolds
    <2>3. Api!Tell(r, Api!Told(409, None, None))
      BY <1>2, <2>1
    <2>. QED  BY <1>3, <2>1, <2>2, <2>3 DEF Api!Conflict
  <1>. QED  BY <1>5, <1>6, <1>7, <1>8

LEMMA MapsCreate ==
    ASSUME SerialKnown, NEW r \in Requests, NEW o \in OrderIds, CreateStore(r, o)
    PROVE  Api!Place(r, o)
  <1>. DEFINE ship == req[r].parts
              order == NewOrder(o, ship)
              answer == Reply(201, o, TotalPrice(ship), None, None)
  <1>1. /\ InFlight(r) /\ Return(r, answer) /\ Write(o, order)
        /\ req[r].op = "create" /\ o \notin Minted /\ UNCHANGED req
    BY DEF CreateStore, At, InFlight
  <1>2. /\ answer.code = 201 /\ answer.order = o /\ answer.txn = None /\ answer.view = None
        /\ order.status = "PENDING_PAYMENT" /\ order.txn = None
    BY DEF Reply, NewOrder
  <1>3. order # None
    <2>1. ship \in Ships /\ TotalPrice(ship) \in Prices
      BY <1>1, SerialParts, RequestsAreInputs DEF Ships, Prices, Ops, CreateStore
    <2>2. order \in Order
      BY <2>1 DEF NewOrder, Order, Statuses
    <2>. QED  BY <2>2, OrderAssumption
  <1>. HIDE DEF order, answer
  <1>4. Api!Pending(r, "create")
    BY <1>1, WaitsFor
  <1>5. Api!Tell(r, Api!Told(201, o, None))
    BY <1>1, <1>2, Tells
  <1>6. Api!Turn(o, Api!Entry("PENDING_PAYMENT", None))
    BY <1>1, <1>2, <1>3, Turns
  <1>7. o \notin {answerOf[d].order : d \in Requests}
    BY <1>1, IdentifiersAreSomething DEF Minted, answerOf
  <1>. QED  BY <1>4, <1>5, <1>6, <1>7 DEF Api!Place

\* The copy of a handler is of a pending order, as the book has it.
LEMMA CopyIsBooked ==
    ASSUME SerialKnown, NEW r \in Requests, pc[r] \in {"paying", "cancelling"}
    PROVE  /\ snap[r] \in Order /\ snap[r].txn = None
           /\ req[r].order \in OrderIds
           /\ bookOf[req[r].order].status = "PENDING_PAYMENT"
           /\ wantsOf[r].order = req[r].order
           /\ Api!Pending(r, req[r].op)
  <1>1. /\ snap[r] \in Order /\ snap[r].status = "PENDING_PAYMENT" /\ snap[r].txn = None
        /\ req[r].order \in OrderIds /\ orders[req[r].order] # None
        /\ orders[req[r].order] = snap[r]
    BY SerialParts DEF CopiesArePending, CopiesAgree, CopiesAreCurrent
  <1>2. bookOf[req[r].order].status = "PENDING_PAYMENT"
    BY <1>1, BookReads
  <1>3. InFlight(r)
    BY DEF InFlight
  <1>. QED  BY <1>1, <1>2, <1>3, Waits, WaitsFor

\* The transaction of a call under way was not told to anybody.
LEMMA TxnIsNews ==
    ASSUME SerialKnown, NEW r \in Requests, InFlight(r), rpc[r].state = "ok"
    PROVE  rpc[r].txn \notin {answerOf[d].txn : d \in Requests}
  <1>1. /\ TypeOK /\ CallsAreTracked /\ TxnsWereTold /\ reply[r] = NoReply
    BY SerialParts DEF NothingSaidYet, InFlight
  <1>2. /\ rpc[r].txn # None
        /\ \A q \in Requests : rpc[q].txn = rpc[r].txn => q = r
    BY <1>1 DEF CallsAreTracked, CallIsTracked
  <1>3. \A q \in Requests : reply[q].txn # rpc[r].txn
    <2>1. reply[r].txn = None
      BY <1>1 DEF NoReply, Status, Reply
    <2>. QED  BY <1>1, <1>2, <2>1 DEF TxnsWereTold
  <1>4. ASSUME NEW d \in Requests, answerOf[d].txn = rpc[r].txn
        PROVE  FALSE
    <2>1. CASE reply[d].view = None
      BY <1>3, <1>4, <2>1 DEF answerOf
    <2>2. CASE reply[d].view # None
      <3>1. reply[d].view.txn = rpc[r].txn
        BY <1>4, <2>2 DEF answerOf
      <3>. QED  BY <1>1, <1>2, <1>3, <2>2, <3>1 DEF TxnsWereTold
    <2>. QED  BY <2>1, <2>2
  <1>. QED  BY <1>4

LEMMA MapsPay ==
    ASSUME SerialKnown, NEW r \in Requests, PayCommit(r)
    PROVE  \E t \in Txns : Api!Pay(r, t)
  <1>. DEFINE o == req[r].order
              t == rpc[r].txn
              order == Settled(r)
              answer == Reply(200, None, None, t, None)
  <1>1. /\ pc[r] = "paying" /\ InFlight(r) /\ req[r].op = "pay" /\ rpc[r].state = "ok"
        /\ Return(r, answer) /\ Write(o, order) /\ UNCHANGED req
    BY DEF PayCommit, At, InFlight
  <1>2. /\ TypeOK /\ snap[r] \in Order /\ o \in OrderIds
        /\ bookOf[o].status = "PENDING_PAYMENT" /\ wantsOf[r].order = o
        /\ Api!Pending(r, "pay")
    BY <1>1, SerialParts, CopyIsBooked
  <1>3. t \in Txns
    BY <1>1, <1>2, SerialParts DEF TypeOK, Calls, CallsAreTracked, CallIsTracked
  <1>4. order \in Order
    <2>1. req[r].method \in Methods
      BY <1>1, <1>2, RequestsAreInputs DEF Ops
    <2>. QED  BY <1>2, <1>3, <2>1, MethodsConvert DEF Settled, Order, Statuses
  <1>5. order.status = "PAID" /\ order.txn = t
    BY <1>2 DEF Settled, Order
  <1>6. answer.code = 200 /\ answer.order = None /\ answer.txn = t /\ answer.view = None
    BY DEF Reply
  <1>7. t \notin {answerOf[d].txn : d \in Requests}
    BY <1>1, TxnIsNews
  <1>8. order # None
    BY <1>4, OrderAssumption
  <1>. HIDE DEF o, t, order, answer
  <1>9. Api!Tell(r, Api!Told(200, None, t))
    BY <1>1, <1>6, Tells
  <1>10. Api!Turn(o, Api!Entry("PAID", t))
    BY <1>1, <1>2, <1>5, <1>8, Turns
  <1>11. Api!Pay(r, t)
    BY <1>2, <1>7, <1>9, <1>10 DEF Api!Pay
  <1>. QED  BY <1>3, <1>11

LEMMA MapsCancel ==
    ASSUME SerialKnown, NEW r \in Requests, CancelWrite(r)
    PROVE  Api!Cancel(r)
  <1>. DEFINE o == req[r].order
              order == [snap[r] EXCEPT !.status = "CANCELLED"]
              answer == Status(200)
  <1>1. /\ pc[r] = "cancelling" /\ req[r].op = "cancel"
        /\ Return(r, answer) /\ Write(o, order) /\ UNCHANGED req
    BY DEF CancelWrite, At
  <1>2. /\ snap[r] \in Order /\ snap[r].txn = None /\ o \in OrderIds
        /\ bookOf[o].status = "PENDING_PAYMENT" /\ wantsOf[r].order = o
        /\ Api!Pending(r, "cancel")
    BY <1>1, CopyIsBooked
  <1>3. order \in Order /\ order.status = "CANCELLED" /\ order.txn = None
    BY <1>2 DEF Order, Statuses
  <1>4. answer.code = 200 /\ answer.order = None /\ answer.txn = None /\ answer.view = None
    BY DEF Status, Reply
  <1>5. order # None
    BY <1>3, OrderAssumption
  <1>. HIDE DEF o, order, answer
  <1>6. Api!Tell(r, Api!Told(200, None, None))
    BY <1>1, <1>4, Tells
  <1>7. Api!Turn(o, Api!Entry("CANCELLED", None))
    BY <1>1, <1>2, <1>3, <1>5, Turns
  <1>. QED  BY <1>2, <1>6, <1>7 DEF Api!Cancel

LEMMA MapsGone == Gone => Api!Forget
  BY DEF Gone, Api!Forget, bookOf, wantsOf, answerOf, Api!Absent, Api!Entry

LEMMA MapsStep ==
    ASSUME SerialKnown, [SerialNext]_allVars
    PROVE  Api!ApiNext \/ UNCHANGED Api!apiVars
  <1>1. ASSUME NEW r \in Requests, HandlerStep(r)
        PROVE  Api!ApiNext \/ UNCHANGED Api!apiVars
    <2>1. CASE GetOrder(r)
      BY <2>1, MapsGet DEF Api!ApiNext
    <2>2. CASE \/ CreateFail(r) \/ CreateConflict(r) \/ PayFail(r)
               \/ \E op \in {"pay", "cancel"} : Refuse404(r, op) \/ Refuse409(r, op)
      BY <2>2, MapsRefusal DEF Api!ApiNext
    <2>3. CASE PayCall(r) \/ CancelRead(r)
      BY <2>3, Unseen DEF PayCall, CancelRead
    <2>4. CASE PayCommit(r)
      BY <2>4, MapsPay DEF Api!ApiNext
    <2>5. CASE CancelWrite(r)
      BY <2>5, MapsCancel DEF Api!ApiNext
    <2>6. CASE \E o \in OrderIds : CreateStore(r, o)
      BY <2>6, MapsCreate DEF Api!ApiNext
    <2>7. CASE Abandon(r) \/ CreateCall(r)
      BY <2>7, Unseen DEF Abandon, CreateCall
    <2>. QED  BY <1>1, <2>1, <2>2, <2>3, <2>4, <2>5, <2>6, <2>7 DEF HandlerStep
  <1>2. ASSUME NEW r \in Requests, NEW q \in Inputs, Arrive(r, q)
        PROVE  Api!ApiNext
    BY <1>2, MapsArrive DEF Api!ApiNext
  <1>3. ASSUME ProcessStep
        PROVE  Api!ApiNext \/ UNCHANGED Api!apiVars
    <2>1. CASE Exit \/ Crash
      BY <2>1, MapsGone DEF Exit, Crash, Api!ApiNext
    <2>2. CASE Signal \/ Start
      BY <2>2, Unseen DEF Signal, Start
    <2>. QED  BY <1>3, <2>1, <2>2 DEF ProcessStep
  <1>4. ASSUME NEW r \in Requests, NEW t \in Txns, ServePayment(r, t)
        PROVE  UNCHANGED Api!apiVars
    BY <1>4, Unseen DEF ServePayment
  <1>5. CASE UNCHANGED allVars
    BY <1>5, Unseen DEF allVars, vars
  <1>. QED  BY <1>1, <1>2, <1>3, <1>4, <1>5 DEF SerialNext

\* To clients that ask about an order one at a time, the handlers keep the
\* promise of the API: every request takes effect in one step, on an order it
\* may take effect on, and no transaction is told twice (handler.go:176-342).
THEOREM SerialClientsGetThePromise == SerialSpec => KeepsPromise
  <1>1. Init => Api!ApiInit
    BY MapsInit
  <1>2. SerialKnown /\ [SerialNext]_allVars => [Api!ApiNext]_(Api!apiVars)
    BY MapsStep
  <1>. QED  BY <1>1, <1>2, SerialAlways, PTL DEF SerialSpec, KeepsPromise, Api!Promise
=============================================================================
