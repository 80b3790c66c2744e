--------------------------- MODULE GrpcServerProofs ---------------------------
(***************************************************************************)
(* Proofs about GrpcServer, for any calls: none that was taken is dropped, *)
(* and to its caller the server, with its interceptors, panics, stops and  *)
(* kills, is the call PaymentCalls describes.                              *)
(***************************************************************************)
EXTENDS GrpcServer, TLAPS

LEMMA InitGrpcInv == GrpcInit => GrpcInv
  BY DEF GrpcInit, GrpcInv, InStep, TakenIsAnswered, CallStages, Results,
         NoResult, Result

\* A step that concerns one call preserves the invariant if it leaves that
\* call in step and drops none.
LEMMA OneCallPreserves ==
    ASSUME GrpcInv, NEW c \in Calls,
           stage' \in [Calls -> CallStages], asked' \in [Calls -> Asks \cup {NoAsk}],
           answer' \in [Calls -> Results], told' \in [Calls -> Results],
           \A d \in Calls : d # c =>
              /\ stage'[d] = stage[d] /\ asked'[d] = asked[d]
              /\ answer'[d] = answer[d] /\ told'[d] = told[d],
           InStep(c)', stage'[c] # "gone" \/ stage'[c] = stage[c], killed' = killed
    PROVE  GrpcInv'
  <1>1. \A d \in Calls : InStep(d)'
    BY DEF GrpcInv, InStep
  <1>2. TakenIsAnswered'
    BY DEF GrpcInv, TakenIsAnswered
  <1>. QED  BY <1>1, <1>2 DEF GrpcInv

-----------------------------------------------------------------------------
(* The steps, action by action.                                            *)

\* A move to another stage, with nothing else changed, keeps the call in step
\* if there is an answer in either stage or in none.
LEMMA MoveInStep ==
    ASSUME GrpcInv, NEW c \in Calls, NEW from, NEW to \in CallStages \ {"gone", "idle"},
           Move(c, from, to), UNCHANGED <<killed, asked, answer, told>>,
           \/ from \in {"sent", "running"} /\ to \in {"running", "unwinding"}
           \/ from = "returning" /\ to = "answered",
           to = "unwinding" => Accepts(asked[c].order, asked[c].method)
    PROVE  GrpcInv'
  <1>1. /\ stage' \in [Calls -> CallStages] /\ stage'[c] = to /\ stage[c] = from
        /\ \A d \in Calls : d # c => stage'[d] = stage[d]
    BY DEF Move, GrpcInv
  <1>2. InStep(c)'
    BY <1>1 DEF GrpcInv, InStep
  <1>. QED  BY <1>1, <1>2, OneCallPreserves DEF GrpcInv

LEMMA InvokePreserves ==
    ASSUME GrpcInv, NEW c \in Calls, NEW ask \in Asks, Invoke(c, ask)
    PROVE  GrpcInv'
  <1>1. /\ stage' \in [Calls -> CallStages] /\ stage'[c] = "sent" /\ stage[c] = "idle"
        /\ \A d \in Calls : d # c => stage'[d] = stage[d]
    BY DEF Invoke, Move, GrpcInv, CallStages
  <1>2. /\ asked' \in [Calls -> Asks \cup {NoAsk}]
        /\ \A d \in Calls : d # c => asked'[d] = asked[d]
        /\ UNCHANGED <<killed, answer, told>>
    BY DEF Invoke, GrpcInv
  <1>3. InStep(c)'
    BY <1>1, <1>2 DEF GrpcInv, InStep, NoResult, Result
  <1>. QED  BY <1>1, <1>2, <1>3, OneCallPreserves DEF GrpcInv

\* What the caller is told concerns nobody else.
LEMMA ToldPreserves ==
    ASSUME GrpcInv, NEW c \in Calls, Receive(c) \/ GiveUp(c)
    PROVE  GrpcInv'
  <1>1. /\ UNCHANGED <<killed, stage, asked, answer>> /\ stage[c] # "idle"
        /\ \E result \in Results : told' = [told EXCEPT ![c] = result]
    BY DEF Receive, GiveUp, GrpcInv, Result, Results
  <1>2. /\ told' \in [Calls -> Results]
        /\ \A d \in Calls : d # c => told'[d] = told[d]
    BY <1>1 DEF GrpcInv
  <1>3. InStep(c)'
    BY <1>1 DEF GrpcInv, InStep
  <1>. QED  BY <1>1, <1>2, <1>3, OneCallPreserves DEF GrpcInv

\* The handler returns, or its panic is caught: there is an answer now.
LEMMA ConcludePreserves ==
    ASSUME GrpcInv, NEW c \in Calls,
           (\E txn \in Txns : Handle(c, txn)) \/ Recover(c)
    PROVE  GrpcInv'
  <1>1. /\ stage[c] \in {"running", "unwinding"}
        /\ stage' = [stage EXCEPT ![c] = "returning"]
        /\ UNCHANGED <<killed, asked, told>>
    BY DEF Handle, Recover, Move
  <1>2. PICK result \in Results :
            /\ answer' = [answer EXCEPT ![c] = result]
            /\ result.code # "none"
            /\ result.code = "OK" => Accepts(asked[c].order, asked[c].method)
            /\ result.code # "OK" => result.txn = None
    <2>1. CASE Recover(c)
      <3>. DEFINE result == Result("error", None)
      <3>1. result \in Results /\ result.code = "error" /\ result.txn = None
        BY DEF Result, Results
      <3>. QED  BY <2>1, <3>1 DEF Recover, Conclude
    <2>2. CASE \E txn \in Txns : Handle(c, txn)
      <3>1. PICK txn \in Txns : Handle(c, txn)
        BY <2>2
      <3>. DEFINE served == Accepts(asked[c].order, asked[c].method)
                  result == IF served THEN Result("OK", txn) ELSE Result("error", None)
      <3>2. /\ result \in Results /\ result.code # "none"
            /\ result.code = "OK" => served
            /\ result.code # "OK" => result.txn = None
        BY DEF Result, Results
      <3>3. answer' = [answer EXCEPT ![c] = result]
        BY <3>1 DEF Handle, Conclude
      <3>. HIDE DEF result
      <3>. QED  BY <3>2, <3>3
    <2>. QED  BY <2>1, <2>2
  <1>3. /\ stage' \in [Calls -> CallStages] /\ stage'[c] = "returning"
        /\ answer' \in [Calls -> Results] /\ answer'[c] = result
        /\ \A d \in Calls : d # c => stage'[d] = stage[d] /\ answer'[d] = answer[d]
    BY <1>1, <1>2 DEF GrpcInv, CallStages
  <1>4. InStep(c)'
    BY <1>1, <1>2, <1>3 DEF InStep
  <1>. QED  BY <1>1, <1>3, <1>4, OneCallPreserves DEF GrpcInv

\* The steps of the process: only a kill takes calls with it.
LEMMA ServerPreserves ==
    ASSUME GrpcInv, Signal \/ Exit \/ Kill \/ Start \/ UNCHANGED grpcVars
    PROVE  GrpcInv'
  <1>1. UNCHANGED <<asked, answer, told>>
    BY DEF Signal, Exit, Kill, Start, grpcVars
  <1>2. CASE Kill
    <2>1. killed' /\ \A c \in Calls : stage'[c] \in {stage[c], "gone"}
      BY <1>2 DEF Kill
    <2>2. stage' \in [Calls -> CallStages]
      BY <1>2 DEF Kill, GrpcInv, CallStages
    <2>. QED  BY <1>1, <2>1, <2>2 DEF GrpcInv, InStep, TakenIsAnswered
  <1>3. CASE ~Kill
    <2>1. UNCHANGED <<killed, stage>>
      BY <1>3 DEF Signal, Exit, Start, grpcVars
    <2>. QED  BY <1>1, <2>1 DEF GrpcInv, InStep, TakenIsAnswered
  <1>. QED  BY <1>2, <1>3

\* The invariant is inductive, so every reachable state satisfies it.
THEOREM GrpcInvariance == GrpcSpec => []GrpcInv
  <1>1. GrpcInit => GrpcInv
    BY InitGrpcInv
  <1>2. GrpcInv /\ [GrpcNext]_grpcVars => GrpcInv'
    <2>. SUFFICES ASSUME GrpcInv, [GrpcNext]_grpcVars PROVE GrpcInv'
      OBVIOUS
    <2>1. ASSUME NEW c \in Calls, Accept(c) \/ Panic(c) \/ Answer(c) PROVE GrpcInv'
      BY <2>1, MoveInStep DEF Accept, Panic, Answer, CallStages
    <2>. QED  BY <2>1, InvokePreserves, ToldPreserves, ConcludePreserves, ServerPreserves
             DEF GrpcNext, CallStep
  <1>. QED  BY <1>1, <1>2, PTL DEF GrpcSpec

\* A call that was taken is answered unless the process is killed, whatever
\* the other calls do and however the server stops (recovery.go:16, payment
\* main.go:74).
THEOREM TakenCallsAreAnswered == GrpcSpec => []TakenIsAnswered
  <1>1. GrpcInv => TakenIsAnswered
    BY DEF GrpcInv
  <1>. QED  BY <1>1, GrpcInvariance, PTL

-----------------------------------------------------------------------------
(* The refinement                                                          *)

LEMMA InitIsAbstract == GrpcInit => Abstract!CallsInit
  BY DEF GrpcInit, PaymentInit, Abstract!CallsInit, Abstract!PaymentInit,
         Abstract!Call, Abstract!Unsent, Abstract!NoAsk, Abstract!Untold, Abstract!Told,
         AbstractCall, CallState, NoAsk, NoResult, Result

\* The caller of a step in which neither the ledger nor what callers are told
\* changes sees nothing, if each call still looks the same.
LEMMA Unseen ==
    ASSUME UNCHANGED <<told, ledger>>,
           \A c \in Calls : AbstractCall(c)' = AbstractCall(c)
    PROVE  UNCHANGED Abstract!callVars
  BY DEF Abstract!callVars

LEMMA InvokeIsSend ==
    ASSUME GrpcInv, NEW c \in Calls, NEW ask \in Asks, Invoke(c, ask)
    PROVE  Abstract!Send(c, ask)
  <1>. DEFINE seen == [d \in Calls |-> AbstractCall(d)]
  <1>1. /\ stage[c] = "idle" /\ asked[c] = NoAsk /\ answer[c] = NoResult
        /\ UNCHANGED <<answer, told, ledger>>
    BY DEF Invoke, Move, GrpcInv, InStep
  <1>2. /\ stage' = [stage EXCEPT ![c] = "sent"] /\ asked' = [asked EXCEPT ![c] = ask]
        /\ stage \in [Calls -> CallStages] /\ asked \in [Calls -> Asks \cup {NoAsk}]
    BY DEF Invoke, Move, GrpcInv
  <1>3. seen[c] = [ask |-> NoAsk, state |-> "none", txn |-> None]
    BY <1>1 DEF AbstractCall, CallState, NoResult, Result
  <1>4. AbstractCall(c)' = [ask |-> ask, state |-> "sent", txn |-> None]
    BY <1>1, <1>2 DEF AbstractCall, CallState, NoResult, Result
  <1>5. \A d \in Calls : d # c => AbstractCall(d)' = AbstractCall(d)
    BY <1>1, <1>2 DEF AbstractCall, CallState
  <1>6. seen' = [seen EXCEPT ![c] = [ask |-> ask, state |-> "sent", txn |-> None]]
    BY <1>4, <1>5
  <1>. QED  BY <1>1, <1>3, <1>6 DEF Abstract!Send, Abstract!Call, Abstract!Unsent,
                                     Abstract!NoAsk, NoAsk

LEMMA HandleIsServe ==
    ASSUME GrpcInv, NEW c \in Calls, NEW txn \in Txns, Handle(c, txn)
    PROVE  Abstract!ServeCall(c, txn)
  <1>. DEFINE seen == [d \in Calls |-> AbstractCall(d)]
              ask == asked[c]
              served == Accepts(ask.order, ask.method)
              now == IF served THEN [ask |-> ask, state |-> "ok", txn |-> txn]
                               ELSE [ask |-> ask, state |-> "error", txn |-> None]
  <1>1. /\ stage[c] = "running" /\ answer[c] = NoResult
        /\ PayOrder(ask.order, ask.method, txn)
        /\ UNCHANGED <<asked, told>>
    BY DEF Handle, Move, GrpcInv, InStep
  <1>2. /\ stage' = [stage EXCEPT ![c] = "returning"]
        /\ answer' = [answer EXCEPT ![c] = IF served THEN Result("OK", txn)
                                           ELSE Result("error", None)]
        /\ stage \in [Calls -> CallStages] /\ answer \in [Calls -> Results]
    BY DEF Handle, Move, Conclude, GrpcInv
  <1>3. seen[c] = [ask |-> ask, state |-> "sent", txn |-> None]
    BY <1>1 DEF AbstractCall, CallState, NoResult, Result
  <1>4. AbstractCall(c)' = now
    BY <1>1, <1>2 DEF AbstractCall, CallState, Result
  <1>5. \A d \in Calls : d # c => AbstractCall(d)' = AbstractCall(d)
    BY <1>1, <1>2 DEF AbstractCall, CallState
  <1>6. seen' = [seen EXCEPT ![c] = now]
    BY <1>4, <1>5
  <1>7. /\ Abstract!PayOrder(ask.order, ask.method, txn)
        /\ Abstract!Accepts(ask.order, ask.method) <=> served
    BY <1>1 DEF PayOrder, Abstract!PayOrder, Fresh, Abstract!Fresh, Accepts, Abstract!Accepts,
                Parses, Abstract!Parses, Unspecified, Abstract!Unspecified
  <1>8. seen' = [seen EXCEPT ![c] = IF Abstract!Accepts(ask.order, ask.method)
                                    THEN Abstract!Call(ask, "ok", txn)
                                    ELSE Abstract!Call(ask, "error", None)]
    BY <1>6, <1>7 DEF Abstract!Call
  <1>9. seen[c].ask = ask /\ seen[c].state = "sent"
    BY <1>3
  <1>. HIDE DEF ask
  <1>. QED  BY <1>1, <1>7, <1>8, <1>9 DEF Abstract!ServeCall

\* What a caller is told is the transaction of its payment, or an error.
LEMMA ToldIsOutcome ==
    ASSUME GrpcInv, NEW c \in Calls, Receive(c) \/ GiveUp(c)
    PROVE  Abstract!Succeed(c) \/ Abstract!Fail(c)
  <1>1. /\ stage[c] # "idle" /\ told[c] = NoResult
        /\ UNCHANGED <<stage, asked, answer, ledger>>
    BY DEF Receive, GiveUp
  <1>2. UNCHANGED [d \in Calls |-> AbstractCall(d)]
    BY <1>1 DEF AbstractCall, CallState
  <1>3. AbstractCall(c).state # "none" /\ AbstractCall(c).txn = answer[c].txn
    BY <1>1 DEF AbstractCall, CallState
  <1>4. told[c] = Abstract!Untold
    BY <1>1 DEF NoResult, Result, Abstract!Untold, Abstract!Told
  <1>5. CASE told' = [told EXCEPT ![c] = Result("error", None)]
    BY <1>1, <1>2, <1>3, <1>4, <1>5 DEF Abstract!Fail, Abstract!Told, Result
  <1>6. CASE Receive(c)
    <2>1. told' = [told EXCEPT ![c] = answer[c]] /\ answer[c].code # "none"
      BY <1>6 DEF Receive, GrpcInv, InStep
    <2>2. answer[c] \in Results
      BY DEF GrpcInv
    <2>3. CASE answer[c].code = "OK"
      <3>1. AbstractCall(c).state = "ok"
        BY <1>1, <2>3 DEF AbstractCall, CallState
      <3>2. answer[c] = Abstract!Told("OK", AbstractCall(c).txn)
        BY <1>3, <2>2, <2>3 DEF Results, Abstract!Told
      <3>. QED  BY <1>1, <1>2, <1>4, <2>1, <3>1, <3>2 DEF Abstract!Succeed
    <2>4. CASE answer[c].code = "error"
      <3>1. answer[c] = Result("error", None)
        BY <2>2, <2>4 DEF GrpcInv, InStep, Results, Result
      <3>. QED  BY <1>5, <2>1, <3>1
    <2>. QED  BY <2>1, <2>2, <2>3, <2>4 DEF Results
  <1>. QED  BY <1>5, <1>6 DEF GiveUp

\* Everything else is unseen.
LEMMA RestIsUnseen ==
    ASSUME GrpcInv,
           \/ \E c \in Calls : Accept(c) \/ Panic(c) \/ Recover(c) \/ Answer(c)
           \/ Signal \/ Exit \/ Kill \/ Start \/ UNCHANGED grpcVars
    PROVE  UNCHANGED Abstract!callVars
  <1>1. UNCHANGED <<asked, told, ledger>>
    BY DEF Accept, Panic, Recover, Answer, Signal, Exit, Kill, Start, grpcVars
  <1>2. \A c \in Calls : stage'[c] = "idle" <=> stage[c] = "idle"
    BY DEF Accept, Panic, Recover, Answer, Move, Signal, Exit, Kill, Start, grpcVars,
           GrpcInv, Running
  <1>3. \A c \in Calls :
            \/ answer'[c] = answer[c]
            \/ /\ answer[c] = NoResult /\ answer'[c] = Result("error", None)
               /\ Accepts(asked[c].order, asked[c].method)
    BY DEF Accept, Panic, Recover, Answer, Conclude, Move, Signal, Exit, Kill, Start,
           grpcVars, GrpcInv, InStep
  <1>4. ASSUME NEW c \in Calls PROVE AbstractCall(c)' = AbstractCall(c)
    <2>1. CASE answer'[c] = answer[c]
      BY <1>1, <1>2, <2>1 DEF AbstractCall, CallState
    <2>2. CASE /\ answer[c] = NoResult /\ answer'[c] = Result("error", None)
               /\ Accepts(asked[c].order, asked[c].method)
      BY <1>1, <1>2, <2>2 DEF AbstractCall, CallState, NoResult, Result
    <2>. QED  BY <1>3, <2>1, <2>2
  <1>. QED  BY <1>1, <1>4, Unseen

\* To its callers the server is what RocketLab is composed with: it serves a
\* call at most once, in one step, and reports success only with the
\* transaction of that payment (payment_grpc.pb.go:43-51, 95-111).
THEOREM CallsAreServed == GrpcSpec => ServesCalls
  <1>1. GrpcInit => Abstract!CallsInit
    BY InitIsAbstract
  <1>2. GrpcInv /\ [GrpcNext]_grpcVars => [Abstract!CallsNext]_(Abstract!callVars)
    <2>. SUFFICES ASSUME GrpcInv, [GrpcNext]_grpcVars
                  PROVE  Abstract!CallsNext \/ UNCHANGED Abstract!callVars
      OBVIOUS
    <2>1. ASSUME NEW c \in Calls, NEW ask \in Asks, Invoke(c, ask) PROVE Abstract!CallsNext
      BY <2>1, InvokeIsSend DEF Abstract!CallsNext
    <2>2. ASSUME NEW c \in Calls, NEW txn \in Txns, Handle(c, txn) PROVE Abstract!CallsNext
      BY <2>2, HandleIsServe DEF Abstract!CallsNext
    <2>3. ASSUME NEW c \in Calls, Receive(c) \/ GiveUp(c) PROVE Abstract!CallsNext
      BY <2>3, ToldIsOutcome DEF Abstract!CallsNext
    <2>. QED  BY <2>1, <2>2, <2>3, RestIsUnseen DEF GrpcNext, CallStep
  <1>. QED  BY <1>1, <1>2, GrpcInvariance, PTL DEF GrpcSpec, ServesCalls, Abstract!CallsSpec
=============================================================================
