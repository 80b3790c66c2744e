--------------------------- MODULE RocketLabProofs ---------------------------
(***************************************************************************)
(* Proofs about RocketLab, for every catalog, every set of requests and of *)
(* identifiers, and every set of inputs the assumptions allow.             *)
(***************************************************************************)
EXTENDS RocketLab, FiniteSetTheorems, TLAPS

(* Facts about the constants and the conversions.                          *)

\* The enum of the payment service has a number for each method, never the
\* unspecified one, and the stored name converts back to it.
LEMMA MethodsConvert ==
    ASSUME NEW m \in Methods
    PROVE  /\ MethodCode[m] \in MethodCodes \ {Unspecified}
           /\ MethodName[MethodCode[m]] \in Methods
           /\ MethodCode[MethodName[MethodCode[m]]] = MethodCode[m]
  <1>1. CASE m = "CARD"
    BY <1>1 DEF Methods, MethodCode, MethodName, MethodCodes, Unspecified
  <1>2. CASE m = "SBP"
    BY <1>2 DEF Methods, MethodCode, MethodName, MethodCodes, Unspecified
  <1>3. CASE m = "CREDIT_CARD"
    BY <1>3 DEF Methods, MethodCode, MethodName, MethodCodes, Unspecified
  <1>4. CASE m = "INVESTOR_MONEY"
    BY <1>4 DEF Methods, MethodCode, MethodName, MethodCodes, Unspecified
  <1>. QED  BY <1>1, <1>2, <1>3, <1>4 DEF Methods

\* A request that is being handled is one of the inputs, and has the
\* parameters its operation needs.
LEMMA RequestsAreInputs ==
    ASSUME TypeOK, NEW r \in Requests, req[r].op \in Ops
    PROVE  /\ req[r] \in Inputs
           /\ req[r].op # "create" => req[r].order \in OrderIds
           /\ req[r].op = "pay" => req[r].method \in Methods
  <1>1. req[r] # NoRequest
    BY NoneAssumption DEF NoRequest, Request
  <1>2. req[r] \in Inputs
    BY <1>1 DEF TypeOK
  <1>. QED  BY <1>2, InputsAssumption

\* Absent values are no identifiers.
LEMMA IdentifiersAreSomething ==
    /\ None \notin OrderIds /\ None \notin Txns
    /\ \A o \in OrderIds : Parses(o) /\ o # ""
  BY UuidAssumption DEF Parses

\* What a payment on the ledger is made of.
LEMMA PaymentsHaveType ==
    ASSUME TypeOK, NEW e \in ledger
    PROVE  /\ e.txn \in Txns /\ e.order \in OrderIds
           /\ e.txn # None
  <1>1. ledger \subseteq [txn : Txns, order : OrderIds, method : MethodCodes]
    BY DEF TypeOK
  <1>2. e.txn \in Txns /\ e.order \in OrderIds
    BY <1>1
  <1>. QED  BY <1>2, IdentifiersAreSomething

\* What the handlers answer is a reply.
LEMMA RepliesHaveType ==
    /\ \A c \in Codes : Status(c) \in Replies
    /\ \A order \in Order : Reply(200, None, None, None, order) \in Replies
    /\ \A t \in Txns \cup {None} : Reply(200, None, None, t, None) \in Replies
    /\ \A o \in OrderIds, p \in Prices : Reply(201, o, p, None, None) \in Replies
  BY DEF Status, Reply, Replies, Codes

-----------------------------------------------------------------------------
(* The inductive invariant holds at first.                                 *)
LEMMA InitIInv == Init => IInv
  <1>. SUFFICES ASSUME Init PROVE IInv
    OBVIOUS
  <1>. USE DEF Init, OrderInit, PaymentInit
  <1>1. TypeOK
    BY DEF TypeOK, Stages, Calls, NoCall, NoReply, Status, Reply, Replies, Codes
  <1>2. CopiesArePending /\ PaymentAcceptsOurCalls
    BY DEF CopiesArePending, PaymentAcceptsOurCalls, NoCall
  <1>3. CallsAreTracked
    BY DEF CallsAreTracked, CallIsTracked, NoCall
  <1>4. PaidMeansCharged /\ ChargesAccountedFor
    BY DEF PaidMeansCharged, ChargesAccountedFor
  <1>. QED  BY <1>1, <1>2, <1>3, <1>4 DEF IInv

-----------------------------------------------------------------------------
(* The steps, by what they have in common.                                 *)

\* A handler that returns preserves the invariant, if what it assigned to
\* the map agrees with the ledger, and if, having made a call, it answers
\* the transaction of that call, or 500.
LEMMA ReturnPreserves ==
    ASSUME IInv, NEW r \in Requests, NEW answer \in Replies,
           InFlight(r), Return(r, answer),
           rpc[r].state # "none" =>
              \/ answer.code = 500
              \/ /\ answer.code = 200 /\ rpc[r].state = "ok"
                 /\ answer.txn = rpc[r].txn,
           orders' \in [OrderIds -> Order \cup {None}],
           \A o \in OrderIds : orders'[o] = orders[o] \/ BooksAgree(o, orders'[o]),
           UNCHANGED <<proc, req, rpc, ledger>>
    PROVE  IInv'
  <1>1. /\ TypeOK /\ CopiesArePending /\ CallsAreTracked
        /\ PaidMeansCharged /\ ChargesAccountedFor /\ PaymentAcceptsOurCalls
    BY DEF IInv
  <1>2. /\ pc' = [pc EXCEPT ![r] = "done"]
        /\ reply' = [reply EXCEPT ![r] = answer]
        /\ snap' = [snap EXCEPT ![r] = None]
    BY DEF Return, Goto
  <1>3. TypeOK'
    BY <1>1, <1>2 DEF TypeOK, Stages
  <1>4. CopiesArePending'
    BY <1>1, <1>2 DEF CopiesArePending, TypeOK
  <1>5. CallsAreTracked'
    BY <1>1, <1>2 DEF CallsAreTracked, CallIsTracked, TypeOK
  <1>6. PaidMeansCharged'
    BY <1>1 DEF PaidMeansCharged, BooksAgree
  <1>7. ChargesAccountedFor'
    <2>. SUFFICES ASSUME NEW e \in ledger
                  PROVE \E q \in Requests : BelongsTo(e, q)'
      BY DEF ChargesAccountedFor
    <2>1. PICK q \in Requests : BelongsTo(e, q)
      BY <1>1 DEF ChargesAccountedFor
    <2>2. rpc[q].state = "ok"
      BY <1>1, <2>1, PaymentsHaveType DEF CallsAreTracked, CallIsTracked, BelongsTo
    <2>. QED  BY <1>1, <1>2, <2>1, <2>2 DEF TypeOK, BelongsTo
  <1>8. PaymentAcceptsOurCalls'
    BY <1>1 DEF PaymentAcceptsOurCalls
  <1>. QED  BY <1>3, <1>4, <1>5, <1>6, <1>7, <1>8 DEF IInv

\* A step that only moves a handler on, before it has made a call, or ends
\* handlers with their connection or process, preserves the invariant.
LEMMA MovePreserves ==
    ASSUME IInv, proc' \in {"up", "draining", "down"},
           pc' \in [Requests -> Stages],
           \A q \in Requests : pc'[q] = pc[q] \/ pc'[q] = "dead"
                                  \/ (pc'[q] = "listing" /\ rpc[q].state = "none"),
           snap' \in [Requests -> Order \cup {None}],
           \A q \in Requests : snap'[q] = snap[q] \/ pc'[q] \notin {"paying", "cancelling"},
           orders' \in [OrderIds -> Order \cup {None}],
           \A o \in OrderIds : orders'[o] = orders[o] \/ orders'[o] = None,
           UNCHANGED <<req, rpc, reply, ledger>>
    PROVE  IInv'
  <1>1. /\ TypeOK /\ CopiesArePending /\ CallsAreTracked
        /\ PaidMeansCharged /\ ChargesAccountedFor /\ PaymentAcceptsOurCalls
    BY DEF IInv
  <1>2. TypeOK'
    BY <1>1 DEF TypeOK
  <1>3. CopiesArePending'
    BY <1>1 DEF CopiesArePending
  <1>4. CallsAreTracked'
    BY <1>1 DEF CallsAreTracked, CallIsTracked
  <1>5. PaidMeansCharged'
    BY <1>1 DEF PaidMeansCharged, BooksAgree
  <1>6. ChargesAccountedFor'
    BY <1>1 DEF ChargesAccountedFor, BelongsTo
  <1>7. PaymentAcceptsOurCalls'
    BY <1>1 DEF PaymentAcceptsOurCalls
  <1>. QED  BY <1>2, <1>3, <1>4, <1>5, <1>6, <1>7 DEF IInv

-----------------------------------------------------------------------------
(* The steps, action by action.                                            *)

\* The steps of the process and of a connection.
LEMMA ProcessPreserves ==
    ASSUME IInv, ProcessStep, UNCHANGED ledger
    PROVE  IInv'
  <1>1. TypeOK
    BY DEF IInv
  <1>2. CASE Signal
    BY <1>1, <1>2, MovePreserves DEF Signal, TypeOK
  <1>3. CASE Start
    BY <1>1, <1>3, MovePreserves DEF Start, TypeOK
  <1>4. ASSUME Gone PROVE IInv'
    <2>. USE <1>4 DEF Gone
    <2>1. pc' \in [Requests -> Stages]
      BY <1>1 DEF TypeOK, Stages
    <2>2. \A q \in Requests : pc'[q] = pc[q] \/ pc'[q] = "dead"
      OBVIOUS
    <2>3. \A q \in Requests : pc'[q] \notin {"paying", "cancelling"}
      BY DEF InFlight
    <2>4. /\ snap' \in [Requests -> Order \cup {None}]
          /\ orders' \in [OrderIds -> Order \cup {None}]
          /\ \A o \in OrderIds : orders'[o] = None
      OBVIOUS
    <2>. QED  BY <2>1, <2>2, <2>3, <2>4, MovePreserves
  <1>. QED  BY <1>2, <1>3, <1>4 DEF ProcessStep, Exit, Crash

LEMMA AbandonPreserves ==
    ASSUME IInv, NEW r \in Requests, Abandon(r), UNCHANGED ledger
    PROVE  IInv'
  <1>1. TypeOK
    BY DEF IInv
  <1>2. /\ pc' \in [Requests -> Stages]
        /\ \A q \in Requests : pc'[q] = pc[q] \/ pc'[q] = "dead"
    BY <1>1 DEF Abandon, Goto, TypeOK, Stages
  <1>. QED  BY <1>1, <1>2, MovePreserves DEF Abandon, TypeOK

\* A handler that has not come to its call has made none.
LEMMA NoCallYet ==
    ASSUME IInv, NEW r \in Requests, pc[r] \notin {"paying", "done", "dead"}
    PROVE  rpc[r].state = "none" /\ rpc[r].txn = None
  BY DEF IInv, CallsAreTracked, CallIsTracked

LEMMA ArrivePreserves ==
    ASSUME IInv, NEW r \in Requests, NEW q \in Inputs, Arrive(r, q), UNCHANGED ledger
    PROVE  IInv'
  <1>1. /\ TypeOK /\ CopiesArePending /\ CallsAreTracked
        /\ PaidMeansCharged /\ ChargesAccountedFor /\ PaymentAcceptsOurCalls
    BY DEF IInv
  <1>2. /\ req' = [req EXCEPT ![r] = q]
        /\ pc' = [pc EXCEPT ![r] = "accepted"]
        /\ UNCHANGED <<proc, orders, snap, rpc, reply, ledger>>
    BY DEF Arrive, Goto
  <1>3. rpc[r].state = "none" /\ rpc[r].txn = None
    BY NoCallYet DEF Arrive
  <1>4. TypeOK'
    BY <1>1, <1>2 DEF TypeOK, Stages
  <1>5. CopiesArePending'
    BY <1>1, <1>2 DEF CopiesArePending, TypeOK
  <1>6. CallsAreTracked'
    BY <1>1, <1>2, <1>3 DEF CallsAreTracked, CallIsTracked, TypeOK
  <1>7. PaidMeansCharged' /\ PaymentAcceptsOurCalls'
    BY <1>1, <1>2 DEF PaidMeansCharged, BooksAgree, PaymentAcceptsOurCalls
  <1>8. ChargesAccountedFor'
    <2>. SUFFICES ASSUME NEW e \in ledger
                  PROVE \E p \in Requests : BelongsTo(e, p)'
      BY <1>2 DEF ChargesAccountedFor
    <2>1. PICK p \in Requests : BelongsTo(e, p)
      BY <1>1 DEF ChargesAccountedFor
    <2>2. p # r
      BY <1>1, <1>3, <2>1, PaymentsHaveType DEF BelongsTo
    <2>. QED  BY <1>1, <1>2, <2>1, <2>2 DEF TypeOK, BelongsTo
  <1>. QED  BY <1>4, <1>5, <1>6, <1>7, <1>8 DEF IInv

\* The handlers that end without a call and without touching the map.
LEMMA AnswersPreserve ==
    ASSUME IInv, NEW r \in Requests, UNCHANGED ledger,
           \/ GetOrder(r) \/ CreateFail(r) \/ CreateConflict(r)
           \/ \E op \in {"pay", "cancel"} : Refuse404(r, op) \/ Refuse409(r, op)
    PROVE  IInv'
  <1>1. TypeOK
    BY DEF IInv
  <1>2. /\ pc[r] \in {"accepted", "listing"}
        /\ UNCHANGED <<proc, orders, req, rpc>>
    BY DEF GetOrder, CreateFail, CreateConflict, Refuse404, Refuse409, At
  <1>3. rpc[r].state = "none"
    BY <1>2, NoCallYet
  <1>4. /\ orders' \in [OrderIds -> Order \cup {None}]
        /\ \A o \in OrderIds : orders'[o] = orders[o] \/ BooksAgree(o, orders'[o])
    BY <1>1, <1>2 DEF TypeOK
  <1>5. \E answer \in Replies : Return(r, answer)
    <2>1. CASE GetOrder(r)
      <3>. DEFINE order == orders[req[r].order]
      <3>1. order \in Order \cup {None}
        BY <1>1, <2>1, RequestsAreInputs DEF GetOrder, At, Ops, TypeOK
      <3>2. CASE order = None
        BY <2>1, <3>2, RepliesHaveType DEF GetOrder, Codes
      <3>3. CASE order # None
        BY <2>1, <3>1, <3>3, RepliesHaveType DEF GetOrder
      <3>. QED  BY <3>2, <3>3
    <2>2. CASE ~GetOrder(r)
      BY <2>2, RepliesHaveType
      DEF CreateFail, CreateConflict, Refuse404, Refuse409, Codes
    <2>. QED  BY <2>1, <2>2
  <1>. QED  BY <1>2, <1>3, <1>4, <1>5, ReturnPreserves DEF InFlight

LEMMA CreateCallPreserves ==
    ASSUME IInv, NEW r \in Requests, CreateCall(r), UNCHANGED ledger
    PROVE  IInv'
  <1>1. TypeOK
    BY DEF IInv
  <1>2. pc' = [pc EXCEPT ![r] = "listing"] /\ rpc[r].state = "none"
    BY NoCallYet DEF CreateCall, At, Goto
  <1>. QED  BY <1>1, <1>2, MovePreserves DEF CreateCall, TypeOK, Stages

\* PayOrder and CancelOrder, up to where they let go of the lock: the order
\* they copy agrees with the ledger and is pending, so its copy says nothing
\* of a payment.
LEMMA CopyIsPending ==
    ASSUME IInv, NEW o \in OrderIds, orders[o] # None,
           orders[o].status = "PENDING_PAYMENT"
    PROVE  orders[o] \in Order /\ orders[o].txn = None /\ orders[o].method = None
  BY DEF IInv, TypeOK, PaidMeansCharged, BooksAgree

LEMMA CopyPreserves ==
    ASSUME IInv, NEW r \in Requests, PayCall(r) \/ CancelRead(r), UNCHANGED ledger
    PROVE  IInv'
  <1>1. /\ TypeOK /\ CopiesArePending /\ CallsAreTracked
        /\ PaidMeansCharged /\ ChargesAccountedFor /\ PaymentAcceptsOurCalls
    BY DEF IInv
  <1>. DEFINE order == orders[req[r].order]
  <1>2. /\ pc[r] = "accepted" /\ req[r].op \in {"pay", "cancel"}
        /\ order # None /\ order.status \notin {"PAID", "CANCELLED"}
        /\ snap' = [snap EXCEPT ![r] = order]
        /\ UNCHANGED <<proc, orders, req, reply, ledger>>
    BY DEF PayCall, CancelRead, At
  <1>3. req[r].order \in OrderIds
    BY <1>1, <1>2, RequestsAreInputs DEF Ops
  <1>4. order \in Order /\ order.status = "PENDING_PAYMENT"
    BY <1>1, <1>2, <1>3 DEF TypeOK, Order, Statuses
  <1>5. order.txn = None /\ order.method = None
    BY <1>2, <1>3, <1>4, CopyIsPending
  <1>6. rpc[r].state = "none" /\ rpc[r].txn = None
    BY <1>2, NoCallYet
  <1>7. \/ /\ req[r].op = "pay" /\ pc' = [pc EXCEPT ![r] = "paying"]
           /\ rpc' = [rpc EXCEPT ![r].state = "sent"]
        \/ pc' = [pc EXCEPT ![r] = "cancelling"] /\ rpc' = rpc
    BY DEF PayCall, CancelRead, At, Goto
  <1>. HIDE DEF order
  <1>8. \A q \in Requests : rpc'[q].txn = rpc[q].txn
    BY <1>1, <1>7 DEF TypeOK, Calls
  <1>9. \A q \in Requests : q # r => pc'[q] = pc[q] /\ rpc'[q] = rpc[q]
    BY <1>1, <1>7 DEF TypeOK
  <1>10. TypeOK'
    <2>1. pc' \in [Requests -> Stages]
      BY <1>1, <1>7 DEF TypeOK, Stages
    <2>2. rpc' \in [Requests -> Calls]
      BY <1>1, <1>7 DEF TypeOK, Calls
    <2>3. snap' \in [Requests -> Order \cup {None}]
      BY <1>1, <1>2, <1>4 DEF TypeOK
    <2>. QED  BY <1>1, <1>2, <2>1, <2>2, <2>3 DEF TypeOK
  <1>11. CopiesArePending'
    BY <1>1, <1>2, <1>4, <1>5, <1>9 DEF CopiesArePending, TypeOK
  <1>12. CallsAreTracked'
    <2>. SUFFICES ASSUME NEW q \in Requests
                  PROVE CallIsTracked(q)'
      BY DEF CallsAreTracked
    <2>1. CASE q = r
      BY <1>1, <1>2, <1>6, <1>7, <1>8, <2>1 DEF CallIsTracked, TypeOK, Calls
    <2>2. CASE q # r
      BY <1>1, <1>2, <1>8, <1>9, <2>2 DEF CallsAreTracked, CallIsTracked
    <2>. QED  BY <2>1, <2>2
  <1>13. PaidMeansCharged'
    BY <1>1, <1>2 DEF PaidMeansCharged, BooksAgree
  <1>14. ChargesAccountedFor'
    <2>. SUFFICES ASSUME NEW e \in ledger
                  PROVE \E p \in Requests : BelongsTo(e, p)'
      BY <1>2 DEF ChargesAccountedFor
    <2>1. PICK p \in Requests : BelongsTo(e, p)
      BY <1>1 DEF ChargesAccountedFor
    <2>2. p # r
      BY <1>1, <1>6, <2>1, PaymentsHaveType DEF BelongsTo
    <2>. QED  BY <1>2, <1>8, <1>9, <2>1, <2>2 DEF BelongsTo
  <1>15. PaymentAcceptsOurCalls'
    BY <1>1, <1>7 DEF PaymentAcceptsOurCalls, TypeOK, Calls
  <1>. QED  BY <1>10, <1>11, <1>12, <1>13, <1>14, <1>15 DEF IInv

\* PayFail: the handler gives up, and answers 500.
LEMMA PayFailPreserves ==
    ASSUME IInv, NEW r \in Requests, PayFail(r), UNCHANGED ledger
    PROVE  IInv'
  <1>1. TypeOK
    BY DEF IInv
  <1>2. /\ InFlight(r) /\ Return(r, Status(500))
        /\ UNCHANGED <<proc, orders, req, rpc, ledger>>
    BY DEF PayFail, At, InFlight
  <1>3. Status(500) \in Replies /\ Status(500).code = 500
    BY RepliesHaveType DEF Codes, Status, Reply
  <1>4. /\ orders' \in [OrderIds -> Order \cup {None}]
        /\ \A o \in OrderIds : orders'[o] = orders[o] \/ BooksAgree(o, orders'[o])
    BY <1>1, <1>2 DEF TypeOK
  <1>. QED  BY <1>2, <1>3, <1>4, ReturnPreserves

\* The steps that assign to the map return as well: what they assign is an
\* order that agrees with the ledger.
LEMMA WritePreserves ==
    ASSUME IInv, NEW r \in Requests, NEW answer \in Replies,
           NEW o \in OrderIds, NEW order \in Order,
           InFlight(r), Return(r, answer), Write(o, order), BooksAgree(o, order),
           rpc[r].state # "none" =>
              /\ answer.code = 200 /\ rpc[r].state = "ok"
              /\ answer.txn = rpc[r].txn,
           UNCHANGED <<proc, req, rpc, ledger>>
    PROVE  IInv'
  <1>1. TypeOK
    BY DEF IInv
  <1>2. /\ orders' \in [OrderIds -> Order \cup {None}]
        /\ \A p \in OrderIds : orders'[p] = orders[p] \/ BooksAgree(p, orders'[p])
    BY <1>1 DEF TypeOK, Write
  <1>. QED  BY <1>2, ReturnPreserves

LEMMA CreateStorePreserves ==
    ASSUME IInv, NEW r \in Requests, NEW o \in OrderIds, CreateStore(r, o),
           UNCHANGED ledger
    PROVE  IInv'
  <1>1. TypeOK
    BY DEF IInv
  <1>. DEFINE ship == req[r].parts
              order == NewOrder(o, ship)
              answer == Reply(201, o, TotalPrice(ship), None, None)
  <1>2. /\ InFlight(r) /\ Return(r, answer) /\ Write(o, order)
        /\ UNCHANGED <<proc, req, rpc, ledger>>
        /\ Answer(ship).code = "OK" /\ req[r].op = "create"
    BY DEF CreateStore, At, InFlight
  <1>3. rpc[r].state = "none"
    BY NoCallYet DEF CreateStore, At
  <1>4. ship \in Ships /\ TotalPrice(ship) \in Prices
    BY <1>1, <1>2, RequestsAreInputs DEF Ships, Prices, Ops
  <1>5. order \in Order /\ BooksAgree(o, order)
    BY <1>4 DEF NewOrder, Order, Statuses, BooksAgree
  <1>6. answer \in Replies
    BY <1>4, RepliesHaveType
  <1>. HIDE DEF order, answer
  <1>. QED  BY <1>2, <1>3, <1>5, <1>6, WritePreserves

LEMMA CancelWritePreserves ==
    ASSUME IInv, NEW r \in Requests, CancelWrite(r), UNCHANGED ledger
    PROVE  IInv'
  <1>1. TypeOK /\ CopiesArePending
    BY DEF IInv
  <1>. DEFINE o == req[r].order
              order == [snap[r] EXCEPT !.status = "CANCELLED"]
  <1>2. /\ InFlight(r) /\ Return(r, Status(200)) /\ Write(o, order)
        /\ UNCHANGED <<proc, req, rpc, ledger>>
        /\ pc[r] = "cancelling" /\ req[r].op = "cancel"
    BY DEF CancelWrite, At, InFlight
  <1>3. rpc[r].state = "none"
    BY <1>2, NoCallYet
  <1>4. o \in OrderIds
    BY <1>1, <1>2, RequestsAreInputs DEF Ops
  <1>5. order \in Order /\ BooksAgree(o, order)
    BY <1>1, <1>2 DEF CopiesArePending, Order, Statuses, BooksAgree
  <1>6. Status(200) \in Replies
    BY RepliesHaveType DEF Codes
  <1>. HIDE DEF o, order
  <1>. QED  BY <1>2, <1>3, <1>4, <1>5, <1>6, WritePreserves

LEMMA PayCommitPreserves ==
    ASSUME IInv, NEW r \in Requests, PayCommit(r), UNCHANGED ledger
    PROVE  IInv'
  <1>1. TypeOK /\ CopiesArePending /\ CallsAreTracked
    BY DEF IInv
  <1>. DEFINE o == req[r].order
              answer == Reply(200, None, None, rpc[r].txn, None)
  <1>2. /\ InFlight(r) /\ Return(r, answer) /\ Write(o, Settled(r))
        /\ UNCHANGED <<proc, req, rpc, ledger>>
        /\ pc[r] = "paying" /\ req[r].op = "pay" /\ rpc[r].state = "ok"
    BY DEF PayCommit, At, InFlight
  <1>3. o \in OrderIds /\ req[r].method \in Methods
    BY <1>1, <1>2, RequestsAreInputs DEF Ops
  <1>4. rpc[r].txn \in Txns \cup {None}
    BY <1>1 DEF TypeOK, Calls
  <1>5. /\ Settled(r) \in Order /\ Settled(r).status = "PAID"
        /\ Settled(r).txn = rpc[r].txn
        /\ MethodCode[Settled(r).method] = MethodCode[req[r].method]
    BY <1>1, <1>2, <1>3, <1>4, MethodsConvert
    DEF CopiesArePending, Settled, Order, Statuses
  <1>6. BooksAgree(o, Settled(r))
    BY <1>1, <1>2, <1>5 DEF CallsAreTracked, CallIsTracked, BooksAgree
  <1>7. answer \in Replies /\ answer.code = 200 /\ answer.txn = rpc[r].txn
    BY <1>4, RepliesHaveType DEF Reply
  <1>. HIDE DEF o, answer
  <1>. QED  BY <1>2, <1>3, <1>5, <1>6, <1>7, WritePreserves

\* The payment service answers a call: it accepts it, and the transaction is
\* that of no other call, since every answered call is on the ledger.
LEMMA ServePreserves ==
    ASSUME IInv, NEW r \in Requests, NEW t \in Txns, ServePayment(r, t)
    PROVE  IInv'
  <1>1. /\ TypeOK /\ CopiesArePending /\ CallsAreTracked
        /\ PaidMeansCharged /\ ChargesAccountedFor /\ PaymentAcceptsOurCalls
    BY DEF IInv
  <1>. DEFINE code == MethodCode[req[r].method]
              payment == [txn |-> t, order |-> req[r].order, method |-> code]
  <1>2. rpc[r].state = "sent" /\ req[r].op = "pay" /\ rpc[r].txn = None
    BY <1>1 DEF ServePayment, CallsAreTracked, CallIsTracked
  <1>3. req[r].order \in OrderIds /\ req[r].method \in Methods
    BY <1>1, <1>2, RequestsAreInputs DEF Ops
  <1>4. Accepts(req[r].order, code) /\ code \in MethodCodes
    BY <1>3, MethodsConvert, IdentifiersAreSomething DEF Accepts
  <1>5. /\ ledger' = ledger \cup {payment}
        /\ rpc' = [rpc EXCEPT ![r] = [state |-> "ok", txn |-> t]]
        /\ UNCHANGED <<proc, orders, pc, req, snap, reply>>
        /\ \A e \in ledger : e.txn # t
    BY <1>4 DEF ServePayment, PayOrder, Fresh
  <1>6. t # None
    BY IdentifiersAreSomething
  <1>7. \A q \in Requests : rpc[q].txn # t
    BY <1>1, <1>5, <1>6 DEF CallsAreTracked, CallIsTracked
  <1>8. /\ payment.txn = t /\ payment.order = req[r].order /\ payment.method = code
        /\ payment \in [txn : Txns, order : OrderIds, method : MethodCodes]
    BY <1>3, <1>4
  <1>. HIDE DEF payment
  <1>9. /\ rpc'[r] = [state |-> "ok", txn |-> t]
        /\ \A q \in Requests : q # r => rpc'[q] = rpc[q]
    BY <1>1, <1>5 DEF TypeOK
  <1>10. TypeOK'
    <2>1. rpc' \in [Requests -> Calls]
      BY <1>1, <1>5 DEF TypeOK, Calls
    <2>2. ledger' \subseteq [txn : Txns, order : OrderIds, method : MethodCodes]
      BY <1>1, <1>5, <1>8 DEF TypeOK
    <2>. QED  BY <1>1, <1>5, <2>1, <2>2 DEF TypeOK
  <1>11. CopiesArePending'
    BY <1>1, <1>5 DEF CopiesArePending
  <1>12. CallsAreTracked'
    <2>. SUFFICES ASSUME NEW q \in Requests
                  PROVE CallIsTracked(q)'
      BY DEF CallsAreTracked
    <2>1. CASE q = r
      <3>1. pc[r] \in {"paying", "done", "dead"} /\ (pc[r] = "done" => reply[r].code = 500)
        BY <1>1, <1>2 DEF CallsAreTracked, CallIsTracked
      <3>2. \A p \in Requests : rpc'[p].txn = t => p = r
        BY <1>7, <1>9
      <3>. QED  BY <1>2, <1>5, <1>6, <1>8, <1>9, <2>1, <3>1, <3>2 DEF CallIsTracked
    <2>2. CASE q # r
      <3>1. CallIsTracked(q) /\ rpc'[q] = rpc[q]
        BY <1>1, <1>9, <2>2 DEF CallsAreTracked
      <3>2. rpc[q].txn # t
        BY <1>7
      <3>. QED  BY <1>5, <1>9, <3>1, <3>2 DEF CallIsTracked
    <2>. QED  BY <2>1, <2>2
  <1>13. PaidMeansCharged'
    BY <1>1, <1>5 DEF PaidMeansCharged, BooksAgree
  <1>14. ChargesAccountedFor'
    <2>. SUFFICES ASSUME NEW e \in ledger'
                  PROVE \E p \in Requests : BelongsTo(e, p)'
      BY DEF ChargesAccountedFor
    <2>1. CASE e = payment
      <3>1. \A p \in Requests : rpc'[p].txn = t => p = r
        BY <1>7, <1>9
      <3>2. pc[r] = "done" => reply[r].code = 500
        BY <1>1, <1>2 DEF CallsAreTracked, CallIsTracked
      <3>. QED  BY <1>2, <1>5, <1>8, <1>9, <2>1, <3>1, <3>2 DEF BelongsTo
    <2>2. CASE e \in ledger
      <3>1. PICK p \in Requests : BelongsTo(e, p)
        BY <1>1, <2>2 DEF ChargesAccountedFor
      <3>2. e.txn # t /\ e.txn # None
        BY <1>1, <1>5, <2>2, PaymentsHaveType
      <3>3. p # r
        BY <1>2, <3>1, <3>2 DEF BelongsTo
      <3>. QED  BY <1>5, <1>9, <3>1, <3>2, <3>3 DEF BelongsTo
    <2>. QED  BY <1>5, <2>1, <2>2
  <1>15. PaymentAcceptsOurCalls'
    BY <1>1, <1>9 DEF PaymentAcceptsOurCalls
  <1>. QED  BY <1>10, <1>11, <1>12, <1>13, <1>14, <1>15 DEF IInv

-----------------------------------------------------------------------------
(* The invariant and what it gives.                                        *)

LEMMA HandlerPreserves ==
    ASSUME IInv, NEW r \in Requests, HandlerStep(r), UNCHANGED ledger
    PROVE  IInv'
  <1>1. CASE Abandon(r)
    BY <1>1, AbandonPreserves
  <1>2. CASE \/ GetOrder(r) \/ CreateFail(r) \/ CreateConflict(r)
             \/ \E op \in {"pay", "cancel"} : Refuse404(r, op) \/ Refuse409(r, op)
    BY <1>2, AnswersPreserve
  <1>3. CASE CreateCall(r)
    BY <1>3, CreateCallPreserves
  <1>4. CASE \E o \in OrderIds : CreateStore(r, o)
    BY <1>4, CreateStorePreserves
  <1>5. CASE PayCall(r) \/ CancelRead(r)
    BY <1>5, CopyPreserves
  <1>6. CASE PayCommit(r)
    BY <1>6, PayCommitPreserves
  <1>7. CASE PayFail(r)
    BY <1>7, PayFailPreserves
  <1>8. CASE CancelWrite(r)
    BY <1>8, CancelWritePreserves
  <1>. QED
    BY <1>1, <1>2, <1>3, <1>4, <1>5, <1>6, <1>7, <1>8 DEF HandlerStep

LEMMA StutterPreserves ==
    ASSUME IInv, UNCHANGED allVars
    PROVE  IInv'
  BY DEF allVars, vars, IInv, TypeOK, CopiesArePending, CallsAreTracked,
         CallIsTracked, PaidMeansCharged, BooksAgree, ChargesAccountedFor,
         BelongsTo, PaymentAcceptsOurCalls

\* The invariant is inductive, so every reachable state satisfies it.
THEOREM Invariance == Spec => []IInv
  <1>1. Init => IInv
    BY InitIInv
  <1>2. IInv /\ [Next]_allVars => IInv'
    <2>. SUFFICES ASSUME IInv, [Next]_allVars PROVE IInv'
      OBVIOUS
    <2>1. CASE OrderNext /\ UNCHANGED ledger
      BY <2>1, HandlerPreserves, ArrivePreserves, ProcessPreserves DEF OrderNext
    <2>2. CASE \E r \in Requests, t \in Txns : ServePayment(r, t)
      BY <2>2, ServePreserves
    <2>3. CASE UNCHANGED allVars
      BY <2>3, StutterPreserves
    <2>. QED  BY <2>1, <2>2, <2>3 DEF Next
  <1>. QED  BY <1>1, <1>2, PTL DEF Spec

\* Type correctness: no handler assigns to the map, or answers, anything that
\* is not an order or a reply; the copy PayOrder completes was a real one.
THEOREM TypeCorrect == Spec => []TypeOK
  <1>1. IInv => TypeOK
    BY DEF IInv
  <1>. QED  BY <1>1, Invariance, PTL

\* However many handlers race for an order and however late the payment
\* service answers, an order that shows as paid was charged under the
\* transaction and the method it shows (handler.go:281-298).
THEOREM PaidOrdersWereCharged == Spec => []PaidMeansCharged
  <1>1. IInv => PaidMeansCharged
    BY DEF IInv
  <1>. QED  BY <1>1, Invariance, PTL

\* Every payment belongs to one request to pay that order, which was not
\* refused: it was answered 200 with that transaction, or 500, or is still,
\* or for ever, without an answer (handler.go:235-301).
THEOREM ChargesBelongToRequests == Spec => []ChargesAccountedFor
  <1>1. IInv => ChargesAccountedFor
    BY DEF IInv
  <1>. QED  BY <1>1, Invariance, PTL

\* The payment service accepts every call the order service makes, whatever
\* the order and whichever the method (payment service.go:27-36).
THEOREM CallsAreAccepted == Spec => []PaymentAcceptsOurCalls
  <1>1. IInv => PaymentAcceptsOurCalls
    BY DEF IInv
  <1>. QED  BY <1>1, Invariance, PTL

-----------------------------------------------------------------------------
(* What clients were told and what the map holds: an order keeps what was  *)
(* announced of it, and its settlement, however late the copies are that   *)
(* PayOrder and CancelOrder assign.                                        *)

\* Everything the steps below rely on.
Known == IInv /\ SaidInv

LEMMA KnownParts ==
    ASSUME Known
    PROVE  /\ TypeOK /\ CopiesArePending /\ NothingSaidYet /\ OrdersAnnounced
           /\ CopiesAgree /\ SettledWereMinted /\ SettledMeansAnswered
  BY DEF Known, IInv, SaidInv

\* An order in the map was announced, so its identifier was handed out.
LEMMA StoredWereMinted ==
    ASSUME Known, NEW o \in OrderIds, orders[o] # None
    PROVE  o \in Minted
  <1>1. PICK r \in Requests : reply[r].order = o
    BY KnownParts DEF OrdersAnnounced, Announced
  <1>. QED  BY <1>1, IdentifiersAreSomething DEF Minted

\* A handler that has returned stays as it is, in all that was said of it,
\* if only others move on and nobody returns.
LEMMA AnsweredStays ==
    ASSUME NEW r \in Requests, NEW op, NEW o, NEW code,
           pc'[r] = "done" <=> pc[r] = "done",
           pc[r] = "done" => req'[r] = req[r],
           reply' = reply
    PROVE  Answered(r, op, o, code)' <=> Answered(r, op, o, code)
  BY DEF Answered

LEMMA InitSaidInv == Init => SaidInv
  BY DEF Init, OrderInit, PaymentInit, SaidInv, NothingSaidYet, OrdersAnnounced,
         CopiesAgree, SettledWereMinted, SettledMeansAnswered, Answered

-----------------------------------------------------------------------------
(* Steps in which nobody returns.                                          *)

\* Nobody returns and nobody takes or assigns a copy; the map stays, or goes
\* with the process and all copies.
LEMMA MoveSays ==
    ASSUME Known, UNCHANGED reply,
           \A q \in Requests : pc'[q] = "done" <=> pc[q] = "done",
           \A q \in Requests : pc'[q] \in {"paying", "cancelling"} =>
              pc'[q] = pc[q] /\ snap'[q] = snap[q] /\ orders' = orders,
           \A q \in Requests : req'[q] = req[q] \/ pc[q] = "idle",
           orders' = orders \/ \A o \in OrderIds : orders'[o] = None
    PROVE  SaidInv'
  <1>1. /\ TypeOK /\ NothingSaidYet /\ OrdersAnnounced
        /\ CopiesAgree /\ SettledWereMinted /\ SettledMeansAnswered
    BY KnownParts
  <1>2. \A q \in Requests : \A op, o, code : Answered(q, op, o, code)' <=> Answered(q, op, o, code)
    BY AnsweredStays
  <1>3. NothingSaidYet'
    BY <1>1 DEF NothingSaidYet
  <1>4. OrdersAnnounced'
    <2>. SUFFICES ASSUME NEW o \in OrderIds, orders'[o] # None
                  PROVE  Announced(o, orders[o])'
      BY DEF OrdersAnnounced
    <2>1. orders'[o] = orders[o] /\ Announced(o, orders[o])
      BY <1>1 DEF OrdersAnnounced
    <2>2. PICK r \in Requests :
              /\ reply[r].code = 201 /\ reply[r].order = o
              /\ req[r].parts = orders[o].parts /\ reply[r].price = orders[o].price
              /\ \A q \in Requests : reply[q].order = o => q = r
      BY <2>1 DEF Announced
    <2>3. req'[r] = req[r]
      BY <1>1, <2>2 DEF NothingSaidYet, NoReply, Status, Reply
    <2>. QED  BY <2>1, <2>2, <2>3 DEF Announced
  <1>5. CopiesAgree'
    BY <1>1 DEF CopiesAgree
  <1>6. SettledWereMinted'
    BY <1>1, <1>2 DEF SettledWereMinted, Minted
  <1>7. SettledMeansAnswered'
    BY <1>1, <1>2 DEF SettledMeansAnswered
  <1>. QED  BY <1>3, <1>4, <1>5, <1>6, <1>7 DEF SaidInv

\* PayOrder and CancelOrder take their copy.
LEMMA CopySays ==
    ASSUME Known, NEW r \in Requests, PayCall(r) \/ CancelRead(r)
    PROVE  SaidInv'
  <1>1. /\ TypeOK /\ NothingSaidYet /\ OrdersAnnounced
        /\ CopiesAgree /\ SettledWereMinted /\ SettledMeansAnswered
    BY KnownParts
  <1>2. /\ pc[r] = "accepted" /\ orders[req[r].order] # None
        /\ snap' = [snap EXCEPT ![r] = orders[req[r].order]]
        /\ UNCHANGED <<orders, req, reply>>
        /\ req[r].op \in {"pay", "cancel"}
    BY DEF PayCall, CancelRead, At
  <1>3. req[r].order \in OrderIds
    BY <1>1, <1>2, RequestsAreInputs DEF Ops
  <1>4. pc' = [pc EXCEPT ![r] = "paying"] \/ pc' = [pc EXCEPT ![r] = "cancelling"]
    BY DEF PayCall, CancelRead, Goto
  <1>5. /\ pc'[r] \in {"paying", "cancelling"} /\ snap'[r] = orders[req[r].order]
        /\ \A q \in Requests : q # r => pc'[q] = pc[q] /\ snap'[q] = snap[q]
    BY <1>1, <1>2, <1>4 DEF TypeOK
  <1>6. \A q \in Requests : pc'[q] = "done" <=> pc[q] = "done"
    BY <1>2, <1>5
  <1>7. \A q \in Requests : \A op, o, code : Answered(q, op, o, code)' <=> Answered(q, op, o, code)
    BY <1>2, <1>6, AnsweredStays
  <1>8. NothingSaidYet'
    BY <1>1, <1>2, <1>6 DEF NothingSaidYet
  <1>9. OrdersAnnounced'
    BY <1>1, <1>2 DEF OrdersAnnounced, Announced
  <1>10. CopiesAgree'
    BY <1>1, <1>2, <1>5, <1>3 DEF CopiesAgree
  <1>11. SettledWereMinted'
    BY <1>1, <1>2, <1>7 DEF SettledWereMinted, Minted
  <1>12. SettledMeansAnswered'
    BY <1>1, <1>2, <1>7 DEF SettledMeansAnswered
  <1>. QED  BY <1>8, <1>9, <1>10, <1>11, <1>12 DEF SaidInv

-----------------------------------------------------------------------------
(* Steps in which a handler returns.                                       *)

\* What a return leaves alone.
LEMMA ReturnFrame ==
    ASSUME Known, NEW r \in Requests, NEW answer, InFlight(r), Return(r, answer),
           UNCHANGED req
    PROVE  /\ reply[r] = NoReply /\ reply'[r] = answer
           /\ pc'[r] = "done" /\ pc[r] # "done"
           /\ \A q \in Requests : q # r =>
                 pc'[q] = pc[q] /\ snap'[q] = snap[q] /\ reply'[q] = reply[q]
           /\ NothingSaidYet'
           /\ \A q \in Requests : \A op, o, code : q # r =>
                 (Answered(q, op, o, code)' <=> Answered(q, op, o, code))
           /\ \A op, o, code : ~Answered(r, op, o, code)
           /\ \A op, o, code :
                 Answered(r, op, o, code)' <=>
                    req[r].op = op /\ req[r].order = o /\ answer.code = code
  <1>1. TypeOK /\ NothingSaidYet
    BY KnownParts
  <1>2. pc[r] # "done" /\ reply[r] = NoReply
    BY <1>1 DEF InFlight, NothingSaidYet
  <1>3. pc'[r] = "done" /\ reply'[r] = answer
    BY <1>1 DEF Return, Goto, TypeOK
  <1>4. \A q \in Requests : q # r =>
            pc'[q] = pc[q] /\ snap'[q] = snap[q] /\ reply'[q] = reply[q]
    BY <1>1 DEF Return, Goto, TypeOK
  <1>5. NothingSaidYet'
    BY <1>1, <1>3, <1>4 DEF NothingSaidYet
  <1>6. \A q \in Requests : \A op, o, code : q # r =>
            (Answered(q, op, o, code)' <=> Answered(q, op, o, code))
    BY <1>4 DEF Answered
  <1>7. \A op, o, code : ~Answered(r, op, o, code)
    BY <1>2 DEF Answered
  <1>8. \A op, o, code : Answered(r, op, o, code)' <=>
            req[r].op = op /\ req[r].order = o /\ answer.code = code
    BY <1>3 DEF Answered
  <1>. QED  BY <1>2, <1>3, <1>4, <1>5, <1>6, <1>7, <1>8

\* An announcement stays one while others return without announcing the same
\* order, and the order keeps its parts and price.
LEMMA AnnouncementStays ==
    ASSUME Known, NEW r \in Requests, NEW answer, InFlight(r), Return(r, answer),
           UNCHANGED req, NEW o \in OrderIds, answer.order # o, orders[o] # None,
           orders'[o].parts = orders[o].parts, orders'[o].price = orders[o].price
    PROVE  Announced(o, orders[o])'
  <1>1. PICK p \in Requests :
            /\ reply[p].code = 201 /\ reply[p].order = o
            /\ req[p].parts = orders[o].parts /\ reply[p].price = orders[o].price
            /\ \A q \in Requests : reply[q].order = o => q = p
    BY KnownParts DEF OrdersAnnounced, Announced
  <1>2. p # r
    BY <1>1, ReturnFrame DEF NoReply, Status, Reply
  <1>3. reply'[p] = reply[p] /\ reply'[r] = answer
    BY <1>2, ReturnFrame
  <1>4. \A q \in Requests : q # r => reply'[q] = reply[q]
    BY ReturnFrame
  <1>5. \A q \in Requests : reply'[q].order = o => q = p
    BY <1>1, <1>3, <1>4
  <1>. QED  BY <1>1, <1>3, <1>5 DEF Announced

\* What was handed out stays handed out.
LEMMA MintedGrows ==
    ASSUME Known, NEW r \in Requests, NEW answer, InFlight(r), Return(r, answer),
           UNCHANGED req
    PROVE  Minted \subseteq Minted'
  <1>. SUFFICES ASSUME NEW q \in Requests, reply[q].order # None
                PROVE  reply[q].order \in Minted'
    BY DEF Minted
  <1>1. q # r
    BY ReturnFrame DEF NoReply, Status, Reply
  <1>2. reply'[q] = reply[q]
    BY <1>1, ReturnFrame
  <1>. QED  BY <1>2 DEF Minted

\* A handler returns without touching the map, and settles nothing.
LEMMA AnswerSays ==
    ASSUME Known, NEW r \in Requests, NEW answer, InFlight(r), Return(r, answer),
           UNCHANGED <<orders, req>>, answer.order = None,
           answer.code # 200 \/ req[r].op = "get"
    PROVE  SaidInv'
  <1>1. /\ TypeOK /\ OrdersAnnounced
        /\ CopiesAgree /\ SettledWereMinted /\ SettledMeansAnswered
    BY KnownParts
  <1>2. /\ NothingSaidYet' /\ pc'[r] = "done"
        /\ \A q \in Requests : q # r => pc'[q] = pc[q] /\ snap'[q] = snap[q]
    BY ReturnFrame
  <1>3. \A q \in Requests, o \in OrderIds, op \in {"pay", "cancel"} :
            Answered(q, op, o, 200)' <=> Answered(q, op, o, 200)
    BY ReturnFrame
  <1>4. \A q \in Requests, o \in OrderIds :
            Answered(q, "pay", o, 200) => reply'[q] = reply[q]
    BY ReturnFrame
  <1>5. OrdersAnnounced'
    BY <1>1, AnnouncementStays, IdentifiersAreSomething DEF OrdersAnnounced
  <1>6. CopiesAgree'
    BY <1>1, <1>2 DEF CopiesAgree
  <1>7. SettledWereMinted'
    BY <1>1, <1>3, MintedGrows DEF SettledWereMinted
  <1>8. SettledMeansAnswered'
    BY <1>1, <1>3, <1>4 DEF SettledMeansAnswered
  <1>. QED  BY <1>2, <1>5, <1>6, <1>7, <1>8 DEF SaidInv

\* CreateOrder: the identifier is fresh, so nothing was ever said of it.
LEMMA CreateSays ==
    ASSUME Known, NEW r \in Requests, NEW o \in OrderIds, CreateStore(r, o)
    PROVE  SaidInv' /\ orders[o] = None
  <1>. DEFINE ship == req[r].parts
              order == NewOrder(o, ship)
              answer == Reply(201, o, TotalPrice(ship), None, None)
  <1>1. /\ TypeOK /\ OrdersAnnounced
        /\ CopiesAgree /\ SettledWereMinted /\ SettledMeansAnswered
    BY KnownParts
  <1>2. /\ InFlight(r) /\ Return(r, answer) /\ orders' = [orders EXCEPT ![o] = order]
        /\ UNCHANGED <<proc, req, rpc>> /\ o \notin Minted /\ req[r].op = "create"
    BY DEF CreateStore, At, InFlight, Write
  <1>3. /\ order.parts = ship /\ order.price = TotalPrice(ship)
        /\ order.status = "PENDING_PAYMENT" /\ order # None
        /\ answer.code = 201 /\ answer.order = o /\ answer.price = TotalPrice(ship)
    <2>1. order \in Order
      <3>1. ship \in Ships /\ TotalPrice(ship) \in Prices
        BY <1>1, <1>2, RequestsAreInputs DEF Ships, Prices, Ops, CreateStore
      <3>. QED  BY <3>1 DEF NewOrder, Order, Statuses
    <2>. QED  BY <2>1, OrderAssumption DEF NewOrder, Reply
  <1>. HIDE DEF order, answer
  <1>4. orders[o] = None
    BY <1>2, StoredWereMinted
  <1>5. /\ orders'[o] = order
        /\ \A p \in OrderIds : p # o => orders'[p] = orders[p]
    BY <1>1, <1>2 DEF TypeOK
  <1>6. /\ NothingSaidYet' /\ pc'[r] = "done" /\ reply'[r] = answer
        /\ \A q \in Requests : q # r =>
              pc'[q] = pc[q] /\ snap'[q] = snap[q] /\ reply'[q] = reply[q]
    BY <1>2, ReturnFrame
  <1>7. \A q \in Requests, p \in OrderIds, op \in {"pay", "cancel"} :
            Answered(q, op, p, 200)' <=> Answered(q, op, p, 200)
    BY <1>2, <1>3, ReturnFrame
  <1>8. OrdersAnnounced'
    <2>. SUFFICES ASSUME NEW p \in OrderIds, orders'[p] # None
                  PROVE  Announced(p, orders[p])'
      BY DEF OrdersAnnounced
    <2>1. CASE p = o
      <3>1. \A q \in Requests : reply'[q].order = o => q = r
        BY <1>2, <1>6, IdentifiersAreSomething DEF Minted
      <3>. QED  BY <1>2, <1>3, <1>5, <1>6, <2>1, <3>1 DEF Announced
    <2>2. CASE p # o
      BY <1>2, <1>3, <1>5, <2>2, AnnouncementStays
    <2>. QED  BY <2>1, <2>2
  <1>9. CopiesAgree'
    BY <1>1, <1>2, <1>4, <1>5, <1>6 DEF CopiesAgree
  <1>10. SettledWereMinted'
    BY <1>1, <1>2, <1>7, MintedGrows DEF SettledWereMinted
  <1>11. SettledMeansAnswered'
    <2>. SUFFICES ASSUME NEW p \in OrderIds, orders'[p] # None
                  PROVE
        /\ orders'[p].status = "PAID" =>
              \E q \in Requests : Answered(q, "pay", p, 200)' /\ reply'[q].txn = orders'[p].txn
        /\ orders'[p].status = "CANCELLED" =>
              \E q \in Requests : Answered(q, "cancel", p, 200)'
        /\ orders'[p].status = "PENDING_PAYMENT" =>
              ~\E q \in Requests : Answered(q, "pay", p, 200)' \/ Answered(q, "cancel", p, 200)'
      BY DEF SettledMeansAnswered
    <2>1. CASE p = o
      <3>1. \A q \in Requests : ~Answered(q, "pay", o, 200) /\ ~Answered(q, "cancel", o, 200)
        BY <1>1, <1>2 DEF SettledWereMinted
      <3>. QED  BY <1>3, <1>5, <1>7, <2>1, <3>1
    <2>2. CASE p # o
      <3>1. orders'[p] = orders[p]
        BY <1>5, <2>2
      <3>2. \A q \in Requests : Answered(q, "pay", p, 200) => reply'[q] = reply[q]
        BY <1>2, <1>6, ReturnFrame
      <3>. QED  BY <1>1, <1>7, <3>1, <3>2 DEF SettledMeansAnswered
    <2>. QED  BY <2>1, <2>2
  <1>. QED  BY <1>4, <1>6, <1>8, <1>9, <1>10, <1>11 DEF SaidInv

\* PayOrder and CancelOrder assign their copy, settled, and say so.
LEMMA SettleSays ==
    ASSUME Known, NEW r \in Requests, NEW answer, NEW order,
           pc[r] \in {"paying", "cancelling"}, Return(r, answer),
           Write(req[r].order, order), order # None,
           order.parts = snap[r].parts, order.price = snap[r].price,
           answer.code = 200, answer.order = None, UNCHANGED req,
           \/ req[r].op = "pay" /\ order.status = "PAID" /\ order.txn = answer.txn
           \/ req[r].op = "cancel" /\ order.status = "CANCELLED"
    PROVE  /\ SaidInv'
           /\ orders[req[r].order].parts = order.parts
           /\ orders[req[r].order].price = order.price
  <1>. DEFINE o == req[r].order
  <1>1. /\ TypeOK /\ OrdersAnnounced
        /\ CopiesAgree /\ SettledWereMinted /\ SettledMeansAnswered
    BY KnownParts
  <1>2. o \in OrderIds /\ InFlight(r)
    BY <1>1, RequestsAreInputs DEF Ops, InFlight
  <1>3. orders[o] # None /\ order.parts = orders[o].parts /\ order.price = orders[o].price
    BY <1>1 DEF CopiesAgree
  <1>. HIDE DEF o
  <1>4. /\ orders'[o] = order
        /\ \A p \in OrderIds : p # o => orders'[p] = orders[p]
    BY <1>1, <1>2 DEF TypeOK, Write, o
  <1>5. /\ NothingSaidYet' /\ pc'[r] = "done" /\ reply'[r] = answer
        /\ \A q \in Requests : q # r =>
              pc'[q] = pc[q] /\ snap'[q] = snap[q] /\ reply'[q] = reply[q]
    BY <1>2, ReturnFrame
  <1>6. \A q \in Requests, p \in OrderIds, op \in {"pay", "cancel"} :
            Answered(q, op, p, 200) => Answered(q, op, p, 200)' /\ reply'[q] = reply[q]
    BY <1>2, ReturnFrame
  <1>7. \A q \in Requests, p \in OrderIds, op \in {"pay", "cancel"} :
            Answered(q, op, p, 200)' => Answered(q, op, p, 200) \/ p = o
    BY <1>2, ReturnFrame DEF o
  <1>8. \A op, p : op = req[r].op /\ p = o => Answered(r, op, p, 200)'
    BY <1>2, ReturnFrame DEF o
  <1>9. OrdersAnnounced'
    <2>. SUFFICES ASSUME NEW p \in OrderIds, orders'[p] # None
                  PROVE  Announced(p, orders[p])'
      BY DEF OrdersAnnounced
    <2>1. /\ orders[p] # None /\ orders'[p].parts = orders[p].parts
          /\ orders'[p].price = orders[p].price
      BY <1>3, <1>4
    <2>2. answer.order # p
      BY IdentifiersAreSomething
    <2>. QED  BY <1>2, <2>1, <2>2, AnnouncementStays
  <1>10. CopiesAgree'
    <2>. SUFFICES ASSUME NEW q \in Requests, pc'[q] \in {"paying", "cancelling"}
                  PROVE  /\ req[q].order \in OrderIds
                         /\ orders'[req[q].order] # None
                         /\ orders'[req[q].order].parts = snap'[q].parts
                         /\ orders'[req[q].order].price = snap'[q].price
      BY DEF CopiesAgree
    <2>1. q # r /\ pc'[q] = pc[q] /\ snap'[q] = snap[q]
      BY <1>5
    <2>2. /\ req[q].order \in OrderIds
          /\ orders[req[q].order] # None
          /\ orders[req[q].order].parts = snap[q].parts
          /\ orders[req[q].order].price = snap[q].price
      BY <1>1, <2>1 DEF CopiesAgree
    <2>. QED  BY <1>3, <1>4, <2>1, <2>2
  <1>11. SettledWereMinted'
    <2>1. o \in Minted
      BY <1>2, <1>3, StoredWereMinted
    <2>. QED  BY <1>1, <1>2, <1>7, <2>1, MintedGrows DEF SettledWereMinted
  <1>12. SettledMeansAnswered'
    <2>. SUFFICES ASSUME NEW p \in OrderIds, orders'[p] # None
                  PROVE
        /\ orders'[p].status = "PAID" =>
              \E q \in Requests : Answered(q, "pay", p, 200)' /\ reply'[q].txn = orders'[p].txn
        /\ orders'[p].status = "CANCELLED" =>
              \E q \in Requests : Answered(q, "cancel", p, 200)'
        /\ orders'[p].status = "PENDING_PAYMENT" =>
              ~\E q \in Requests : Answered(q, "pay", p, 200)' \/ Answered(q, "cancel", p, 200)'
      BY DEF SettledMeansAnswered
    <2>1. CASE p = o
      <3>1. orders'[p] = order /\ reply'[r] = answer
        BY <1>4, <1>5, <2>1
      <3>2. CASE req[r].op = "pay" /\ order.status = "PAID" /\ order.txn = answer.txn
        <4>1. Answered(r, "pay", p, 200)'
          BY <1>8, <2>1, <3>2
        <4>2. order.status # "CANCELLED" /\ order.status # "PENDING_PAYMENT"
          BY <3>2
        <4>. QED  BY <3>1, <3>2, <4>1, <4>2
      <3>3. CASE req[r].op = "cancel" /\ order.status = "CANCELLED"
        <4>1. Answered(r, "cancel", p, 200)'
          BY <1>8, <2>1, <3>3
        <4>2. order.status # "PAID" /\ order.status # "PENDING_PAYMENT"
          BY <3>3
        <4>. QED  BY <3>1, <4>1, <4>2
      <3>. QED  BY <3>2, <3>3
    <2>2. CASE p # o
      BY <1>1, <1>4, <1>6, <1>7, <2>2 DEF SettledMeansAnswered
    <2>. QED  BY <2>1, <2>2
  <1>. QED  BY <1>3, <1>5, <1>9, <1>10, <1>11, <1>12 DEF SaidInv, o
-----------------------------------------------------------------------------
(* The steps, action by action.                                            *)

\* What a step does to an order: it is kept, as OrdersKept says, and one in
\* the map was there before, the same ship at the same price, or is made now.
Keeps(o) ==
  /\ orders'[o] # None =>
        \/ /\ orders[o] # None
           /\ orders'[o].parts = orders[o].parts
           /\ orders'[o].price = orders[o].price
        \/ \E r \in Requests : CreateStore(r, o)
  /\ orders[o] # None /\ proc' # "down" =>
        /\ orders'[o] # None
        /\ orders'[o].parts = orders[o].parts
        /\ orders'[o].price = orders[o].price
        /\ orders[o].status # "PENDING_PAYMENT" => orders'[o].status # "PENDING_PAYMENT"

\* The handlers that end without assigning.
LEMMA AnswersSay ==
    ASSUME Known, NEW r \in Requests,
           \/ GetOrder(r) \/ CreateFail(r) \/ CreateConflict(r) \/ PayFail(r)
           \/ \E op \in {"pay", "cancel"} : Refuse404(r, op) \/ Refuse409(r, op)
    PROVE  SaidInv' /\ UNCHANGED orders
  <1>1. UNCHANGED <<orders, req>> /\ InFlight(r)
    BY DEF GetOrder, CreateFail, CreateConflict, PayFail, Refuse404, Refuse409, At, InFlight
  <1>2. CASE GetOrder(r)
    <2>. DEFINE order == orders[req[r].order]
                answer == IF order = None THEN Status(404)
                          ELSE Reply(200, None, None, None, order)
    <2>1. Return(r, answer) /\ req[r].op = "get"
      BY <1>2 DEF GetOrder, At
    <2>2. answer.order = None
      BY DEF Status, Reply
    <2>. HIDE DEF answer
    <2>. QED  BY <1>1, <2>1, <2>2, AnswerSays
  <1>3. CASE ~GetOrder(r)
    <2>1. PICK code \in {404, 409, 500} : Return(r, Status(code))
      BY <1>3 DEF CreateFail, CreateConflict, PayFail, Refuse404, Refuse409
    <2>2. Status(code).order = None /\ Status(code).code # 200
      BY DEF Status, Reply
    <2>. QED  BY <1>1, <2>1, <2>2, AnswerSays
  <1>. QED  BY <1>1, <1>2, <1>3

\* The handlers that assign their copy.
LEMMA SettlingSays ==
    ASSUME Known, NEW r \in Requests, PayCommit(r) \/ CancelWrite(r)
    PROVE  SaidInv' /\ \A o \in OrderIds : Keeps(o)
  <1>. DEFINE o == req[r].order
  <1>1. /\ TypeOK /\ CopiesArePending /\ CopiesAgree
    BY KnownParts
  <1>2. UNCHANGED <<proc, req>> /\ pc[r] \in {"paying", "cancelling"}
    BY DEF PayCommit, CancelWrite, At
  <1>3. snap[r] \in Order /\ o \in OrderIds /\ orders[o] # None
    BY <1>1, <1>2 DEF CopiesArePending, CopiesAgree
  <1>4. PICK order, answer :
           /\ Return(r, answer) /\ Write(o, order)
           /\ order # None /\ order.status \in {"PAID", "CANCELLED"}
           /\ order.parts = snap[r].parts /\ order.price = snap[r].price
           /\ answer.code = 200 /\ answer.order = None
           /\ \/ req[r].op = "pay" /\ order.status = "PAID" /\ order.txn = answer.txn
              \/ req[r].op = "cancel" /\ order.status = "CANCELLED"
    <2>1. CASE PayCommit(r)
      <3>. DEFINE order == Settled(r)
                  answer == Reply(200, None, None, rpc[r].txn, None)
      <3>1. Return(r, answer) /\ Write(o, order) /\ req[r].op = "pay"
        BY <2>1 DEF PayCommit, At
      <3>2. rpc[r].txn \in Txns \cup {None} /\ req[r].method \in Methods
        BY <1>1, <3>1, RequestsAreInputs DEF TypeOK, Calls, Ops
      <3>3. order \in Order
        BY <1>3, <3>2, MethodsConvert DEF Settled, Order, Statuses
      <3>4. /\ order.status = "PAID" /\ order.txn = rpc[r].txn
            /\ order.parts = snap[r].parts /\ order.price = snap[r].price
        BY <1>3 DEF Settled, Order
      <3>5. answer.code = 200 /\ answer.order = None /\ answer.txn = rpc[r].txn
        BY DEF Reply
      <3>6. order # None
        BY <3>3, OrderAssumption
      <3>. HIDE DEF order, answer
      <3>. QED  BY <3>1, <3>4, <3>5, <3>6
    <2>2. CASE CancelWrite(r)
      <3>. DEFINE order == [snap[r] EXCEPT !.status = "CANCELLED"]
      <3>1. Return(r, Status(200)) /\ Write(o, order) /\ req[r].op = "cancel"
        BY <2>2 DEF CancelWrite, At
      <3>2. order \in Order
        BY <1>3 DEF Order, Statuses
      <3>3. /\ order.status = "CANCELLED"
            /\ order.parts = snap[r].parts /\ order.price = snap[r].price
        BY <1>3 DEF Order
      <3>4. Status(200).code = 200 /\ Status(200).order = None
        BY DEF Status, Reply
      <3>5. order # None
        BY <3>2, OrderAssumption
      <3>. HIDE DEF order
      <3>. QED  BY <3>1, <3>3, <3>4, <3>5
    <2>. QED  BY <2>1, <2>2
  <1>5. SaidInv' /\ orders[o].parts = order.parts /\ orders[o].price = order.price
    BY <1>2, <1>4, SettleSays
  <1>6. orders' = [orders EXCEPT ![o] = order]
    BY <1>4 DEF Write
  <1>. HIDE DEF o
  <1>7. \A p \in OrderIds : Keeps(p)
    BY <1>1, <1>3, <1>4, <1>5, <1>6 DEF Keeps, TypeOK
  <1>. QED  BY <1>5, <1>7

LEMMA CreateKeeps ==
    ASSUME Known, NEW r \in Requests, NEW o \in OrderIds, CreateStore(r, o)
    PROVE  SaidInv' /\ \A p \in OrderIds : Keeps(p)
  <1>1. SaidInv' /\ orders[o] = None /\ TypeOK
    BY CreateSays, KnownParts
  <1>2. orders' = [orders EXCEPT ![o] = NewOrder(o, req[r].parts)]
    BY DEF CreateStore, Write
  <1>. QED  BY <1>1, <1>2 DEF Keeps, TypeOK

\* Steps that only move a handler on, or end handlers or the process.
LEMMA MovesKeep ==
    ASSUME Known,
           \/ \E r \in Requests : Abandon(r) \/ CreateCall(r) \/ \E q \in Inputs : Arrive(r, q)
           \/ \E r \in Requests, t \in Txns : ServePayment(r, t)
           \/ ProcessStep \/ UNCHANGED allVars
    PROVE  SaidInv' /\ \A o \in OrderIds : Keeps(o)
  <1>1. TypeOK
    BY KnownParts
  <1>2. ASSUME NEW r \in Requests, Abandon(r) \/ CreateCall(r) \/ \E q \in Inputs : Arrive(r, q)
        PROVE  SaidInv' /\ UNCHANGED orders
    <2>1. /\ UNCHANGED <<orders, snap, reply>>
          /\ pc[r] \in {"idle", "accepted"}
          /\ \E stage \in {"dead", "listing", "accepted"} : pc' = [pc EXCEPT ![r] = stage]
          /\ req' = req \/ (pc[r] = "idle" /\ \E q \in Inputs : req' = [req EXCEPT ![r] = q])
      BY <1>2 DEF Abandon, CreateCall, Arrive, At, Goto
    <2>2. \A q \in Requests : q # r => pc'[q] = pc[q]
      BY <1>1, <2>1 DEF TypeOK
    <2>3. pc'[r] \in {"dead", "listing", "accepted"}
      BY <1>1, <2>1 DEF TypeOK
    <2>4. \A q \in Requests : req'[q] = req[q] \/ pc[q] = "idle"
      BY <1>1, <2>1 DEF TypeOK
    <2>. QED  BY <2>1, <2>2, <2>3, <2>4, MoveSays
  <1>3. ASSUME \/ \E r \in Requests, t \in Txns : ServePayment(r, t)
               \/ Signal \/ Start \/ UNCHANGED allVars
        PROVE  SaidInv' /\ UNCHANGED orders
    <2>1. UNCHANGED <<orders, pc, req, snap, reply>>
      BY <1>3 DEF ServePayment, Signal, Start, allVars, vars
    <2>. QED  BY <2>1, MoveSays
  <1>4. ASSUME Gone
        PROVE  SaidInv' /\ proc' = "down" /\ \A o \in OrderIds : orders'[o] = None
    <2>1. /\ UNCHANGED <<req, reply>> /\ proc' = "down"
          /\ \A o \in OrderIds : orders'[o] = None
          /\ \A q \in Requests : pc'[q] = IF InFlight(q) THEN "dead" ELSE pc[q]
      BY <1>4 DEF Gone
    <2>2. \A q \in Requests : /\ pc'[q] = "done" <=> pc[q] = "done"
                             /\ pc'[q] \notin {"paying", "cancelling"}
      BY <2>1 DEF InFlight
    <2>. QED  BY <2>1, <2>2, MoveSays
  <1>. QED  BY <1>2, <1>3, <1>4 DEF Keeps, ProcessStep, Exit, Crash

LEMMA StepsSay ==
    ASSUME Known, [Next]_allVars
    PROVE  SaidInv' /\ \A o \in OrderIds : Keeps(o)
  <1>1. ASSUME NEW r \in Requests, HandlerStep(r)
        PROVE  SaidInv' /\ \A o \in OrderIds : Keeps(o)
    <2>1. CASE \/ GetOrder(r) \/ CreateFail(r) \/ CreateConflict(r) \/ PayFail(r)
               \/ \E op \in {"pay", "cancel"} : Refuse404(r, op) \/ Refuse409(r, op)
      BY <2>1, AnswersSay DEF Keeps
    <2>2. CASE PayCall(r) \/ CancelRead(r)
      BY <2>2, CopySays DEF Keeps, PayCall, CancelRead
    <2>3. CASE PayCommit(r) \/ CancelWrite(r)
      BY <2>3, SettlingSays
    <2>4. CASE \E o \in OrderIds : CreateStore(r, o)
      BY <2>4, CreateKeeps
    <2>5. CASE Abandon(r) \/ CreateCall(r)
      BY <2>5, MovesKeep
    <2>. QED  BY <1>1, <2>1, <2>2, <2>3, <2>4, <2>5 DEF HandlerStep
  <1>. QED  BY <1>1, MovesKeep DEF Next, OrderNext

\* What clients were told is true of every reachable state, for any set of
\* requests, identifiers and inputs.
THEOREM SaidInvariance == Spec => [](IInv /\ SaidInv)
  <1>1. Init => SaidInv
    BY InitSaidInv
  <1>2. IInv /\ SaidInv /\ [Next]_allVars => SaidInv'
    BY StepsSay DEF Known
  <1>. QED  BY <1>1, <1>2, Invariance, PTL DEF Spec

\* A settled order was settled by an answer, and a client that was answered
\* never sees the order pending again while the process lives
\* (handler.go:292-301, 336-342).
THEOREM SettledOrdersWereAnswered == Spec => []SettledMeansAnswered
  <1>1. SaidInv => SettledMeansAnswered
    BY DEF SaidInv
  <1>. QED  BY <1>1, SaidInvariance, PTL

\* Late assignments lose no order, no part and no price of one, and never a
\* settlement altogether (handler.go:205, 296, 338).
THEOREM LateCopiesKeepOrders == Spec => OrdersKept
  <1>1. IInv /\ SaidInv /\ [Next]_allVars =>
           [\A o \in OrderIds : orders[o] # None /\ proc' # "down" =>
              /\ orders'[o] # None
              /\ orders'[o].parts = orders[o].parts
              /\ orders'[o].price = orders[o].price
              /\ orders[o].status # "PENDING_PAYMENT" =>
                    orders'[o].status # "PENDING_PAYMENT"]_allVars
    BY StepsSay DEF Known, Keeps
  <1>. QED  BY <1>1, SaidInvariance, PTL DEF Spec, OrdersKept

-----------------------------------------------------------------------------
(* What an order costs: the loop of CreateOrder over the identifiers adds  *)
(* up the prices of the catalog, place by place.                           *)

\* The call names two parts, and those of the optional places that are not
\* empty, in their order.
LEMMA PartIdsAre ==
    ASSUME NEW ship, NEW ids, ids = PartIds(ship)
    PROVE  /\ Len(ids) \in 2..4 /\ DOMAIN ids = 1..Len(ids)
           /\ ids[1] = ship.hull /\ ids[2] = ship.engine
           /\ ship.shield = None /\ ship.weapon = None => Len(ids) = 2
           /\ ship.shield # None /\ ship.weapon = None => Len(ids) = 3 /\ ids[3] = ship.shield
           /\ ship.shield = None /\ ship.weapon # None => Len(ids) = 3 /\ ids[3] = ship.weapon
           /\ ship.shield # None /\ ship.weapon # None =>
                 Len(ids) = 4 /\ ids[3] = ship.shield /\ ids[4] = ship.weapon
  <1>1. PICK x, y : x = ship.shield /\ y = ship.weapon
    OBVIOUS
  <1>2. PICK A : A = {ship.hull, ship.engine, x, y}
    OBVIOUS
  <1>3. PICK two : two = <<ship.hull, ship.engine>>
    OBVIOUS
  <1>4. PICK three : three = two \o Optional(x)
    OBVIOUS
  <1>5. ids = three \o Optional(y)
    BY <1>1, <1>3, <1>4 DEF PartIds
  <1>6. two \in Seq(A) /\ Len(two) = 2 /\ two[1] = ship.hull /\ two[2] = ship.engine
    BY <1>2, <1>3
  <1>7. x \in A /\ y \in A
    BY <1>2
  <1>8. CASE x = None
    <2>1. three = two
      BY <1>4, <1>6, <1>8 DEF Optional
    <2>2. CASE y = None
      <3>1. ids = two
        BY <1>5, <1>6, <2>1, <2>2 DEF Optional
      <3>2. Len(ids) = 2 /\ DOMAIN ids = 1..2
        BY <1>6, <3>1
      <3>3. ids[1] = ship.hull /\ ids[2] = ship.engine
        BY <1>6, <3>1
      <3>. QED  BY <1>1, <1>8, <2>2, <3>2, <3>3
    <2>3. CASE y # None
      <3>1. ids = two \o <<y>>
        BY <1>5, <2>1, <2>3 DEF Optional
      <3>2. /\ ids \in Seq(A) /\ Len(ids) = Len(two) + 1 /\ ids[Len(two) + 1] = y
            /\ \A i \in 1..Len(two) : ids[i] = two[i]
        <4>1. y \in A /\ two \in Seq(A)
          BY <1>6, <1>7
        <4>. QED  BY <3>1, <4>1
      <3>3. Len(ids) = 3 /\ DOMAIN ids = 1..3 /\ ids[3] = y
        BY <1>6, <3>2
      <3>4. ids[1] = ship.hull /\ ids[2] = ship.engine
        BY <1>6, <3>2
      <3>. QED  BY <1>1, <1>8, <2>3, <3>3, <3>4
    <2>. QED  BY <2>2, <2>3
  <1>9. CASE x # None
    <2>1. three = two \o <<x>>
      BY <1>4, <1>9 DEF Optional
    <2>2. /\ three \in Seq(A) /\ Len(three) = Len(two) + 1 /\ three[Len(two) + 1] = x
          /\ \A i \in 1..Len(two) : three[i] = two[i]
      <3>1. x \in A /\ two \in Seq(A)
        BY <1>6, <1>7
      <3>. QED  BY <2>1, <3>1
    <2>3. three \in Seq(A) /\ Len(three) = 3 /\ DOMAIN three = 1..3 /\ three[3] = x
      BY <1>6, <2>2
    <2>4. three[1] = ship.hull /\ three[2] = ship.engine
      BY <1>6, <2>2
    <2>5. CASE y = None
      <3>1. ids = three
        BY <1>5, <2>3, <2>5 DEF Optional
      <3>2. Len(ids) = 3 /\ DOMAIN ids = 1..3 /\ ids[3] = x
        BY <2>3, <3>1
      <3>3. ids[1] = ship.hull /\ ids[2] = ship.engine
        BY <2>4, <3>1
      <3>. QED  BY <1>1, <1>9, <2>5, <3>2, <3>3
    <2>6. CASE y # None
      <3>1. ids = three \o <<y>>
        BY <1>5, <2>6 DEF Optional
      <3>2. /\ ids \in Seq(A) /\ Len(ids) = Len(three) + 1 /\ ids[Len(three) + 1] = y
            /\ \A i \in 1..Len(three) : ids[i] = three[i]
        <4>1. y \in A /\ three \in Seq(A)
          BY <1>7, <2>3
        <4>. QED  BY <3>1, <4>1
      <3>3. Len(ids) = 4 /\ DOMAIN ids = 1..4 /\ ids[4] = y
        BY <2>3, <3>2
      <3>4. ids[1] = ship.hull /\ ids[2] = ship.engine /\ ids[3] = x
        BY <2>3, <2>4, <3>2
      <3>. QED  BY <1>1, <1>9, <2>6, <3>3, <3>4
    <2>. QED  BY <2>5, <2>6
  <1>. QED  BY <1>8, <1>9

LEMMA PartIdsFew ==
    ASSUME NEW ship
    PROVE  /\ Len(PartIds(ship)) \in 2..4
           /\ DOMAIN PartIds(ship) = 1..Len(PartIds(ship))
  BY PartIdsAre

\* An answer that is OK has the part of the catalog for each identifier.
LEMMA AnswerHasParts ==
    ASSUME NEW ship, Answer(ship).code = "OK"
    PROVE  LET ids == PartIds(ship) IN
           /\ \A i \in DOMAIN ids : ids[i] \in DOMAIN Catalog
           /\ Answer(ship).parts = [i \in DOMAIN ids |-> Catalog[ids[i]]]
  <1>. DEFINE ids == PartIds(ship)
              bad == {i \in DOMAIN ids : Lookup(ids[i]) # "OK"}
              first == CHOOSE i \in bad : \A j \in bad : i <= j
  <1>1. Len(ids) \in 2..4 /\ DOMAIN ids = 1..Len(ids)
    BY PartIdsFew
  <1>. HIDE DEF ids
  <1>2. Answer(ship) = IF bad = {} THEN Listed([i \in DOMAIN ids |-> Catalog[ids[i]]])
                       ELSE Failed(Lookup(ids[first]))
    BY <1>1 DEF Answer, ListParts, ListByUuids, ids
  <1>3. bad = {}
    <2>1. SUFFICES ASSUME bad # {} PROVE FALSE
      OBVIOUS
    <2>2. \E i \in bad : \A j \in bad : i <= j
      <3>1. bad \subseteq 1..4
        BY <1>1
      <3>. HIDE DEF bad
      <3>2. CASE 1 \in bad
        BY <3>1, <3>2
      <3>3. CASE 1 \notin bad /\ 2 \in bad
        BY <3>1, <3>3
      <3>4. CASE 1 \notin bad /\ 2 \notin bad /\ 3 \in bad
        BY <3>1, <3>4
      <3>5. CASE 1 \notin bad /\ 2 \notin bad /\ 3 \notin bad
        <4>1. \A i \in bad : i = 4
          BY <3>1, <3>5
        <4>2. 4 \in bad
          BY <2>1, <4>1
        <4>3. \A i \in bad : 4 <= i
          BY <4>1
        <4>. QED  BY <4>2, <4>3
      <3>. QED  BY <3>2, <3>3, <3>4, <3>5
    <2>3. first \in bad
      <3>. HIDE DEF bad
      <3>. QED  BY <2>2
    <2>4. Lookup(ids[first]) # "OK"
      BY <2>3
    <2>5. Answer(ship).code = Lookup(ids[first])
      BY <1>2, <2>1 DEF Failed
    <2>. QED  BY <2>4, <2>5
  <1>4. \A i \in DOMAIN ids : ids[i] \in DOMAIN Catalog
    BY <1>3 DEF Lookup
  <1>. QED  BY <1>2, <1>3, <1>4 DEF Listed, ids

\* The map the handler makes of the answer is the catalog, for those parts.
LEMMA PartsMapIsCatalog ==
    ASSUME NEW ship, Answer(ship).code = "OK", NEW i \in DOMAIN PartIds(ship)
    PROVE  LET id == PartIds(ship)[i] IN
           /\ id \in DOMAIN Catalog /\ PartsMap(ship)[id] = Catalog[id]
           /\ Catalog[id].price \in Nat /\ Catalog[id].stock \in Nat
  <1>. DEFINE ids == PartIds(ship)
              parts == Answer(ship).parts
  <1>1. /\ \A j \in DOMAIN ids : ids[j] \in DOMAIN Catalog
        /\ DOMAIN parts = DOMAIN ids
        /\ \A j \in DOMAIN ids : parts[j] = Catalog[ids[j]]
    <2>1. parts = [j \in DOMAIN ids |-> Catalog[ids[j]]]
      BY AnswerHasParts, Zenon
    <2>2. \A j \in DOMAIN ids : ids[j] \in DOMAIN Catalog
      BY AnswerHasParts, Zenon
    <2>. HIDE DEF ids, parts
    <2>. QED  BY <2>1, <2>2
  <1>2. \A id \in DOMAIN Catalog :
           Catalog[id].uuid = id /\ Catalog[id].price \in Nat /\ Catalog[id].stock \in Nat
    BY CatalogAssumption DEF IsPart
  <1>. HIDE DEF ids, parts
  <1>3. i \in DOMAIN ids
    BY DEF ids
  <1>4. Catalog[ids[i]] \in ToSet(parts)
    BY <1>1, <1>3 DEF ToSet
  <1>5. \A p \in ToSet(parts) : p.uuid = ids[i] => p = Catalog[ids[i]]
    BY <1>1, <1>2, <1>3 DEF ToSet
  <1>6. ids[i] \in {p.uuid : p \in ToSet(parts)}
    BY <1>1, <1>2, <1>3, <1>4
  <1>7. (CHOOSE p \in ToSet(parts) : p.uuid = ids[i]) = Catalog[ids[i]]
    BY <1>1, <1>2, <1>3, <1>4, <1>5
  <1>8. PartsMap(ship)[ids[i]] = Catalog[ids[i]]
    BY <1>6, <1>7 DEF PartsMap, parts
  <1>. QED  BY <1>1, <1>2, <1>3, <1>8 DEF ids

\* A fold over at most four places adds up the terms, in any order.
AtMostFour(n, f, s) ==
    (IF 1 \in s THEN f[1] ELSE 0) + (IF 2 \in s THEN f[2] ELSE 0)
        + (IF n > 2 /\ 3 \in s THEN f[3] ELSE 0) + (IF n > 3 /\ 4 \in s THEN f[4] ELSE 0)

LEMMA TermTakenOut ==
    ASSUME NEW n \in 2..4, NEW f \in [1..n -> Nat], NEW s \in SUBSET (1..n), NEW x \in s
    PROVE  AtMostFour(n, f, s) = AtMostFour(n, f, s \ {x}) + f[x]
  <1>1. \A i \in 1..n : f[i] \in Nat
    OBVIOUS
  <1>2. 1 \in 1..n /\ 2 \in 1..n /\ (n > 2 => 3 \in 1..n) /\ (n > 3 => 4 \in 1..n)
    OBVIOUS
  <1>3. x = 1 \/ x = 2 \/ (x = 3 /\ n > 2) \/ (x = 4 /\ n > 3)
    OBVIOUS
  <1>4. \A i : i \in s \ {x} <=> i \in s /\ i # x
    OBVIOUS
  <1>. DEFINE t == s \ {x}
  <1>. HIDE DEF t
  <1>5. \A i : i \in t <=> i \in s /\ i # x
    BY <1>4 DEF t
  <1>6. CASE x = 1
    BY <1>1, <1>2, <1>5, <1>6 DEF AtMostFour, t
  <1>7. CASE x = 2
    BY <1>1, <1>2, <1>5, <1>7 DEF AtMostFour, t
  <1>8. CASE x = 3 /\ n > 2
    BY <1>1, <1>2, <1>5, <1>8 DEF AtMostFour, t
  <1>9. CASE x = 4 /\ n > 3
    BY <1>1, <1>2, <1>5, <1>9 DEF AtMostFour, t
  <1>. QED  BY <1>3, <1>6, <1>7, <1>8, <1>9

LEMMA PriceOfPlaces ==
    ASSUME NEW ship, Answer(ship).code = "OK"
    PROVE  TotalPrice(ship) = PriceOf(ship.hull) + PriceOf(ship.engine)
                                 + PriceOf(ship.shield) + PriceOf(ship.weapon)
  <1>. DEFINE ids == PartIds(ship)
              n == Len(ids)
              f == [i \in 1..n |-> PartsMap(ship)[ids[i]].price]
              Loop(h) == h = [s \in SUBSET (DOMAIN ids) |->
                               IF s = {} THEN 0
                               ELSE h[s \ {CHOOSE x \in s : TRUE}]
                                      + PartsMap(ship)[ids[CHOOSE x \in s : TRUE]].price]
  <1>1. TotalPrice(ship) = (CHOOSE h : Loop(h))[DOMAIN ids]
    BY DEF TotalPrice, FoldSeq, FoldFunction, FoldFunctionOnSet, MapThenFoldSet
  <1>2. /\ n \in 2..4 /\ DOMAIN ids = 1..n
        /\ \A i \in 1..n : /\ ids[i] \in DOMAIN Catalog
                           /\ PartsMap(ship)[ids[i]] = Catalog[ids[i]]
                           /\ Catalog[ids[i]].price \in Nat
    BY PartIdsFew, PartsMapIsCatalog
  <1>3. f \in [1..n -> Nat] /\ \A i \in 1..n : f[i] = PartsMap(ship)[ids[i]].price
    BY <1>2
  <1>. HIDE DEF ids, n, f
  <1>4. \E h : Loop(h)
    <2>. DEFINE h == [s \in SUBSET (DOMAIN ids) |-> AtMostFour(n, f, s)]
    <2>1. ASSUME NEW s \in SUBSET (DOMAIN ids)
          PROVE  h[s] = IF s = {} THEN 0
                        ELSE h[s \ {CHOOSE x \in s : TRUE}]
                               + PartsMap(ship)[ids[CHOOSE x \in s : TRUE]].price
      <3>1. CASE s = {}
        BY <3>1 DEF AtMostFour
      <3>2. CASE s # {}
        <4>. DEFINE x == CHOOSE x \in s : TRUE
        <4>1. x \in s
          BY <3>2
        <4>. HIDE DEF x
        <4>2. s \ {x} \in SUBSET (DOMAIN ids) /\ x \in 1..n /\ s \in SUBSET (1..n)
          BY <1>2, <4>1
        <4>3. AtMostFour(n, f, s) = AtMostFour(n, f, s \ {x}) + f[x]
          BY <1>2, <1>3, <4>1, <4>2, TermTakenOut
        <4>4. h[s] = h[s \ {x}] + PartsMap(ship)[ids[x]].price
          BY <1>3, <4>2, <4>3
        <4>. QED  BY <3>2, <4>4 DEF x
      <3>. QED  BY <3>1, <3>2
    <2>2. h = [s \in SUBSET (DOMAIN ids) |-> h[s]]
      OBVIOUS
    <2>. HIDE DEF h
    <2>3. Loop(h)
      BY <2>1, <2>2
    <2>. QED  BY <2>3
  <1>5. PICK h : Loop(h) /\ TotalPrice(ship) = h[DOMAIN ids]
    <2>. HIDE DEF Loop
    <2>. QED  BY <1>1, <1>4
  <1>6. h[DOMAIN ids] = AtMostFour(n, f, DOMAIN ids)
    <2>. DEFINE Bad == {s \in SUBSET (1..n) : h[s] # AtMostFour(n, f, s)}
    <2>1. SUFFICES ASSUME Bad # {} PROVE FALSE
      BY <1>2
    <2>2. PICK s \in Bad : \A t \in Bad : ~(<<t, s>> \in StrictSubsetOrdering(1..n))
      <3>1. IsWellFoundedOn(StrictSubsetOrdering(1..n), FiniteSubsetsOf(1..n))
        BY FS_StrictSubsetOrderingWellFounded
      <3>2. IsFiniteSet(1..n)
        BY <1>2, FS_Interval
      <3>3. Bad \subseteq FiniteSubsetsOf(1..n)
        BY <3>2, FS_Subset DEF FiniteSubsetsOf
      <3>. HIDE DEF Bad
      <3>. QED  BY <2>1, <3>1, <3>3, WFMin
    <2>3. s \in SUBSET (1..n) /\ h[s] # AtMostFour(n, f, s)
      OBVIOUS
    <2>. DEFINE x == CHOOSE x \in s : TRUE
    <2>4. h[s] = IF s = {} THEN 0 ELSE h[s \ {x}] + PartsMap(ship)[ids[x]].price
      BY <1>2, <1>5, <2>3
    <2>5. CASE s = {}
      BY <2>3, <2>4, <2>5 DEF AtMostFour
    <2>6. CASE s # {}
      <3>1. x \in s
        BY <2>6
      <3>. HIDE DEF x
      <3>2. s \ {x} \in SUBSET (1..n) /\ <<s \ {x}, s>> \in StrictSubsetOrdering(1..n)
        BY <2>3, <3>1 DEF StrictSubsetOrdering
      <3>3. h[s \ {x}] = AtMostFour(n, f, s \ {x})
        BY <2>2, <3>2
      <3>4. AtMostFour(n, f, s) = AtMostFour(n, f, s \ {x}) + f[x]
        BY <1>2, <1>3, <2>3, <3>1, TermTakenOut
      <3>5. f[x] = PartsMap(ship)[ids[x]].price
        BY <1>3, <2>3, <3>1
      <3>. QED  BY <2>3, <2>4, <2>6, <3>3, <3>4, <3>5
    <2>. QED  BY <2>5, <2>6
  <1>7. \A i \in 1..n : f[i] = PriceOf(ids[i])
    <2>1. \A i \in 1..n : ids[i] # None
      BY <1>2, CatalogAssumption
    <2>. QED  BY <1>2, <1>3, <2>1 DEF PriceOf
  <1>8. TotalPrice(ship) = AtMostFour(n, f, 1..n)
    BY <1>2, <1>5, <1>6
  <1>9. \A i \in 1..n : f[i] \in Nat
    BY <1>3
  <1>10. CASE ship.shield = None /\ ship.weapon = None
    <2>1. n = 2 /\ ids[1] = ship.hull /\ ids[2] = ship.engine
      BY <1>10, PartIdsAre DEF n, ids
    <2>. QED  BY <1>7, <1>8, <1>9, <1>10, <2>1 DEF AtMostFour, PriceOf
  <1>11. CASE ship.shield # None /\ ship.weapon = None
    <2>1. n = 3 /\ ids[1] = ship.hull /\ ids[2] = ship.engine /\ ids[3] = ship.shield
      BY <1>11, PartIdsAre DEF n, ids
    <2>2. PriceOf(ship.weapon) = 0
      BY <1>11 DEF PriceOf
    <2>. QED  BY <1>7, <1>8, <1>9, <2>1, <2>2 DEF AtMostFour
  <1>12. CASE ship.shield = None /\ ship.weapon # None
    <2>1. n = 3 /\ ids[1] = ship.hull /\ ids[2] = ship.engine /\ ids[3] = ship.weapon
      BY <1>12, PartIdsAre DEF n, ids
    <2>2. PriceOf(ship.shield) = 0
      BY <1>12 DEF PriceOf
    <2>. QED  BY <1>7, <1>8, <1>9, <2>1, <2>2 DEF AtMostFour
  <1>13. CASE ship.shield # None /\ ship.weapon # None
    <2>1. /\ n = 4 /\ ids[1] = ship.hull /\ ids[2] = ship.engine
          /\ ids[3] = ship.shield /\ ids[4] = ship.weapon
      BY <1>13, PartIdsAre DEF n, ids
    <2>. QED  BY <1>7, <1>8, <1>9, <2>1 DEF AtMostFour
  <1>. QED  BY <1>10, <1>11, <1>12, <1>13

\* What CreateOrder stores was sold for what the catalog says.
LEMMA CreatedIsSold ==
    ASSUME NEW ship, Answer(ship).code = "OK", InStock(ship)
    PROVE  Sold(ship, TotalPrice(ship))
  <1>. DEFINE ids == PartIds(ship)
  <1>1. \A i \in DOMAIN ids : ids[i] \in DOMAIN Catalog /\ Catalog[ids[i]].stock > 0
    BY PartsMapIsCatalog DEF InStock, ToSet
  <1>2. ASSUME NEW id \in {ship.hull, ship.engine, ship.shield, ship.weapon} \ {None}
        PROVE  \E i \in DOMAIN ids : ids[i] = id
    <2>1. DOMAIN ids = 1..Len(ids)
      BY PartIdsFew
    <2>2. /\ Len(ids) \in 2..4
          /\ ids[1] = ship.hull /\ ids[2] = ship.engine
      BY PartIdsFew, PartIdsAre
    <2>3. ship.shield # None => Len(ids) \in {3, 4} /\ ids[3] = ship.shield
      BY PartIdsAre
    <2>4. ship.shield = None /\ ship.weapon # None => Len(ids) = 3 /\ ids[3] = ship.weapon
      BY PartIdsAre
    <2>5. ship.shield # None /\ ship.weapon # None => Len(ids) = 4 /\ ids[4] = ship.weapon
      BY PartIdsAre
    <2>. HIDE DEF ids
    <2>6. /\ 1 \in DOMAIN ids /\ 2 \in DOMAIN ids
          /\ Len(ids) > 2 => 3 \in DOMAIN ids
          /\ Len(ids) > 3 => 4 \in DOMAIN ids
      BY <2>1, <2>2
    <2>. QED  BY <2>2, <2>3, <2>4, <2>5, <2>6
  <1>. QED  BY <1>1, <1>2, PriceOfPlaces DEF Sold

\* An order in the map was announced to the one client who asked for it, at
\* its price; its parts are in the catalog and were in stock, and the price
\* is the sum over the places of the ship: for any catalog (handler.go:176-213).
THEOREM OrdersAreAsAnswered == Spec => []StoreMatchesAnswers
  <1>1. Init => OrdersSold
    BY DEF Init, OrderInit, OrdersSold
  <1>2. IInv /\ SaidInv /\ OrdersSold /\ [Next]_allVars => OrdersSold'
    <2>. SUFFICES ASSUME Known, OrdersSold, [Next]_allVars,
                         NEW o \in OrderIds, orders'[o] # None
                  PROVE  Sold(orders'[o].parts, orders'[o].price)
      BY DEF OrdersSold, Known, Sold, PriceOf
    <2>1. CASE /\ orders[o] # None
               /\ orders'[o].parts = orders[o].parts
               /\ orders'[o].price = orders[o].price
      BY <2>1 DEF OrdersSold
    <2>2. ASSUME NEW r \in Requests, CreateStore(r, o)
          PROVE  Sold(orders'[o].parts, orders'[o].price)
      <3>. DEFINE ship == req[r].parts
      <3>1. orders'[o] = NewOrder(o, ship)
        BY <2>2, KnownParts DEF CreateStore, Write, TypeOK
      <3>2. orders'[o].parts = ship /\ orders'[o].price = TotalPrice(ship)
        BY <3>1 DEF NewOrder
      <3>3. Answer(ship).code = "OK" /\ InStock(ship)
        BY <2>2 DEF CreateStore
      <3>. QED  BY <3>2, <3>3, CreatedIsSold
    <2>3. \/ /\ orders[o] # None
             /\ orders'[o].parts = orders[o].parts
             /\ orders'[o].price = orders[o].price
          \/ \E r \in Requests : CreateStore(r, o)
      BY StepsSay DEF Keeps
    <2>. QED  BY <2>1, <2>2, <2>3
  <1>3. SaidInv /\ OrdersSold => StoreMatchesAnswers
    BY DEF SaidInv, StoreMatchesAnswers
  <1>. QED  BY <1>1, <1>2, <1>3, SaidInvariance, PTL DEF Spec
=============================================================================
