----------------------------- MODULE GrpcServer -----------------------------
(***************************************************************************)
(* The payment process as a gRPC server (src/payment/cmd/main.go): calls   *)
(* come in on connections, each runs in a goroutine through the recovery   *)
(* and the logging interceptor to the handler of Payment, and goes back.   *)
(* The inventory process is the same program around another service.       *)
(*                                                                         *)
(* The caller has a deadline of its own and is told nothing of how far the *)
(* call came.  A handler panics where uuid.New does: it has not charged    *)
(* anything then.  The logger writes lines and changes nothing.            *)
(***************************************************************************)
EXTENDS Payment, FiniteSets

CONSTANTS
    Calls,    \* the calls of a run
    Asks      \* what they ask for: [order, method]

VARIABLES
    srv,       \* the process: "serving", "stopping" after a signal, "down"
    killed,    \* the process was killed once: nothing is promised then
    stage,     \* how far a call is
    asked,     \* what it asks for
    answer,    \* what the server made of it
    told       \* what the caller was told

grpcVars == <<srv, killed, stage, asked, answer, told, ledger>>

NoAsk == [order |-> None, method |-> 0]
Result(code, txn) == [code |-> code, txn |-> txn]
NoResult == Result("none", None)

GrpcInit ==
    /\ PaymentInit
    /\ srv = "serving"
    /\ killed = FALSE
    /\ stage = [c \in Calls |-> "idle"]
    /\ asked = [c \in Calls |-> NoAsk]
    /\ answer = [c \in Calls |-> NoResult]
    /\ told = [c \in Calls |-> NoResult]

\* A call is accepted and its goroutine has not returned.
Running(c) == stage[c] \in {"running", "unwinding", "returning"}

Move(c, from, to) == stage[c] = from /\ stage' = [stage EXCEPT ![c] = to]
Conclude(c, result) == answer' = [answer EXCEPT ![c] = result]

-----------------------------------------------------------------------------
(* The caller                                                              *)

\* The stub of the client: the request goes out, with a deadline.
Invoke(c, ask) ==
    /\ Move(c, "idle", "sent")
    /\ asked' = [asked EXCEPT ![c] = ask]
    /\ UNCHANGED <<srv, killed, answer, told, ledger>>

\* The stub returns what came back, a response or a status.
Receive(c) ==
    /\ stage[c] = "answered"
    /\ told[c] = NoResult
    /\ told' = [told EXCEPT ![c] = answer[c]]
    /\ UNCHANGED <<srv, killed, stage, asked, answer, ledger>>

\* The deadline passes or the connection breaks: keepalive, the maximal age
\* of a connection, an end of the process.  The call goes on without it.
GiveUp(c) ==
    /\ stage[c] # "idle"
    /\ told[c] = NoResult
    /\ told' = [told EXCEPT ![c] = Result("error", None)]
    /\ UNCHANGED <<srv, killed, stage, asked, answer, ledger>>

-----------------------------------------------------------------------------
(* The server                                                              *)

\* The connection takes the call and starts its goroutine.  A server that is
\* stopping takes none: a call it did not take may be taken by the next one.
Accept(c) ==
    /\ srv = "serving"
    /\ Move(c, "sent", "running")
    /\ UNCHANGED <<srv, killed, asked, answer, told, ledger>>

\* Mutant of Handle: the error of the service is not passed on.
HandleIgnoringError(c, txn) ==
    LET ask == asked[c] IN
    /\ Move(c, "running", "returning")
    /\ PayOrder(ask.order, ask.method, txn)
    /\ Conclude(c, Result("OK", txn))
    /\ UNCHANGED <<srv, killed, asked, told>>

\* PayOrder of the service, called by the generated handler inside both
\* interceptors, which pass on what it returns.
Handle(c, txn) ==
    LET ask == asked[c] IN
    /\ Move(c, "running", "returning")
    /\ PayOrder(ask.order, ask.method, txn)
    /\ Conclude(c, IF Accepts(ask.order, ask.method) THEN Result("OK", txn)
                   ELSE Result("error", None))
    /\ UNCHANGED <<srv, killed, asked, told>>

\* uuid.New panics in a call that passed the checks: the stack unwinds
\* through the logger, which does not reach its second line.
Panic(c) ==
    /\ Accepts(asked[c].order, asked[c].method)
    /\ Move(c, "running", "unwinding")
    /\ UNCHANGED <<srv, killed, asked, answer, told, ledger>>

\* Mutant of Recover: the panic reaches the top of the goroutine and takes
\* the process with it.
RecoverNot(c) ==
    /\ stage[c] = "unwinding"
    /\ srv' = "down"
    /\ stage' = [d \in Calls |-> IF Running(d) THEN "gone" ELSE stage[d]]
    /\ UNCHANGED <<killed, asked, answer, told, ledger>>

\* The deferred function of RecoveryInterceptor: the panic becomes the
\* status Internal.
Recover(c) ==
    /\ Move(c, "unwinding", "returning")
    /\ Conclude(c, Result("error", None))
    /\ UNCHANGED <<srv, killed, asked, told, ledger>>

\* The goroutine writes the response or the status and ends.
Answer(c) ==
    /\ Move(c, "returning", "answered")
    /\ UNCHANGED <<srv, killed, asked, answer, told, ledger>>

\* SIGINT, SIGTERM or the end of Serve wakes main, which calls GracefulStop:
\* no call is taken any more.
Signal ==
    /\ srv = "serving"
    /\ srv' = "stopping"
    /\ UNCHANGED <<killed, stage, asked, answer, told, ledger>>

\* Mutant of Exit: GracefulStop also waits for the callers.
ExitWhenHeard ==
    /\ srv = "stopping"
    /\ \A c \in Calls : ~Running(c) /\ (stage[c] = "answered" => told[c] # NoResult)
    /\ srv' = "down"
    /\ UNCHANGED <<killed, stage, asked, answer, told, ledger>>

\* GracefulStop returns when every call it had taken is answered; main
\* returns then.  There is no deadline.
Exit ==
    /\ srv = "stopping"
    /\ \A c \in Calls : ~Running(c)
    /\ srv' = "down"
    /\ UNCHANGED <<killed, stage, asked, answer, told, ledger>>

\* The process is killed, and its goroutines with it.  What was charged
\* stays charged.
Kill ==
    /\ srv # "down"
    /\ srv' = "down"
    /\ killed' = TRUE
    /\ stage' = [c \in Calls |-> IF Running(c) THEN "gone" ELSE stage[c]]
    /\ UNCHANGED <<asked, answer, told, ledger>>

\* main starts again.
Start ==
    /\ srv = "down"
    /\ srv' = "serving"
    /\ UNCHANGED <<killed, stage, asked, answer, told, ledger>>

\* One step of the goroutine of an accepted call.
CallStep(c) ==
    \/ \E txn \in Txns : Handle(c, txn)
    \/ Panic(c) \/ Recover(c) \/ Answer(c)

GrpcNext ==
    \/ \E c \in Calls :
          \/ \E ask \in Asks : Invoke(c, ask)
          \/ Receive(c) \/ GiveUp(c) \/ Accept(c) \/ CallStep(c)
    \/ Signal \/ Exit \/ Kill \/ Start

GrpcSpec == GrpcInit /\ [][GrpcNext]_grpcVars

(***************************************************************************)
(* Fairness.  A goroutine that can run is run, and the handlers wait for   *)
(* nothing; GracefulStop returns when it can.  Callers need not receive,   *)
(* and nothing is assumed of signals, kills and restarts.                  *)
(***************************************************************************)
FairGrpcSpec ==
    /\ GrpcSpec
    /\ \A c \in Calls : WF_grpcVars(CallStep(c))
    /\ WF_grpcVars(Exit)

-----------------------------------------------------------------------------
(* Properties                                                              *)

\* A call that was taken is answered unless the process is killed: neither
\* the panic of another call nor a stop of the server drops it
\* (recovery.go:16, payment main.go:74).
TakenIsAnswered ==
    \A c \in Calls : stage[c] = "gone" => killed

\* A stop ends, though GracefulStop has no deadline and callers may never
\* read their answers: handlers do not wait and their panics are caught
\* (payment main.go:74, recovery.go:22-33).
StopEnds == srv = "stopping" ~> srv = "down"

\* How much of a call is done, in the eyes of the caller's specification: a
\* payment counts from the moment it is on the ledger, whether or not its
\* answer is ever written; a panic never happened.
CallState(c) ==
    IF stage[c] = "idle" THEN "none"
    ELSE IF answer[c].code = "OK" THEN "ok"
    ELSE IF answer[c].code = "error"
            /\ ~Accepts(asked[c].order, asked[c].method) THEN "error"
    ELSE "sent"

AbstractCall(c) == [ask |-> asked[c], state |-> CallState(c), txn |-> answer[c].txn]

Abstract == INSTANCE PaymentCalls WITH
    call <- [c \in Calls |-> AbstractCall(c)],
    outcome <- told

\* gRPC with its interceptors, panics, stops and kills is the call RocketLab
\* is composed with: served at most once, success reported only with the
\* transaction of that very payment (payment_grpc.pb.go:43-51, 95-111).
ServesCalls == Abstract!CallsSpec

-----------------------------------------------------------------------------
(* Why they hold: how far a call is, and what has been made of it.         *)

Results == [code : {"none", "OK", "error"}, txn : Txns \cup {None}]
CallStages == {"idle", "sent", "running", "unwinding", "returning", "answered", "gone"}

\* There is an answer when the handler has returned and not before; it is a
\* payment only if the service takes the call, and only such a call panics.
InStep(c) ==
    /\ stage[c] = "idle" => asked[c] = NoAsk /\ told[c] = NoResult
    /\ stage[c] \in {"idle", "sent", "running", "unwinding"} => answer[c] = NoResult
    /\ stage[c] \in {"returning", "answered"} => answer[c].code # "none"
    /\ stage[c] = "unwinding" \/ answer[c].code = "OK" =>
          Accepts(asked[c].order, asked[c].method)
    /\ answer[c].code # "OK" => answer[c].txn = None

GrpcInv ==
    /\ stage \in [Calls -> CallStages]
    /\ asked \in [Calls -> Asks \cup {NoAsk}]
    /\ answer \in [Calls -> Results]
    /\ told \in [Calls -> Results]
    /\ \A c \in Calls : InStep(c)
    /\ TakenIsAnswered
=============================================================================
