------------------------------- MODULE HttpApi -------------------------------
(***************************************************************************)
(* The order API over HTTP: clients, the generated client and server of    *)
(* OrderHttp and the connection between them, around the services of       *)
(* RocketLab.                                                              *)
(*                                                                         *)
(* A request has a connection of its own.  The server answers on it, or it *)
(* is closed without an answer when the process goes or the request was    *)
(* not read; either end of it may be lost at any time.                     *)
(***************************************************************************)
EXTENDS RocketLab, OrderHttp

CONSTANT Wires    \* the requests clients put on the wire

VARIABLES
    wire,     \* what each client sent, or NoWire
    resp,     \* what came back: NoResponse, Closed or a response
    got       \* what the client made of it

httpVars == <<wire, resp, got>>
everything == <<allVars, httpVars>>

NoWire == Wire(None, None, None, None, NoBody)
NoResponse == Response(0, "none", <<>>)
Closed == Response(0, "closed", <<>>)

\* Nothing yet; an answer of the API; a response that is none; no response.
Outcome(kind, told) == [kind |-> kind, told |-> told]
Waiting == Outcome("waiting", NoReply)
Undecodable == Outcome("undecodable", NoReply)
NoAnswer == Outcome("none", NoReply)

\* A request has one of the paths; where the path names an order there is
\* some text.
ASSUME WiresAssumption ==
    \A w \in Wires :
        /\ w.path \in Paths /\ w.path # None
        /\ w.path \in Paths \ {"orders"} => w.order # None

\* What is no answer of the API is told from every answer.
ASSUME RepliesAssumption == \A told \in Replies : told # None

\* The inputs of RocketLab are all that these requests can ask for: what their
\* bodies and paths say, by a method there is.
ASSUME AskedAssumption ==
    \A w \in Wires :
        /\ w.path = "orders" /\ BodyCode(w, CreateOrderRequest) = 0 =>
              LET m == Message(CreateOrderRequest, w.body.doc) IN
              CreateRequest(Ship(m.hull_uuid.str, m.engine_uuid.str,
                                 PartOf(m.shield_uuid), PartOf(m.weapon_uuid))) \in Inputs
        /\ w.path = "order" /\ ReadsOrder(w) => GetRequest(OrderOf(w)) \in Inputs
        /\ w.path = "cancel" /\ ReadsOrder(w) => CancelRequest(OrderOf(w)) \in Inputs
        /\ w.path = "pay" /\ ReadsOrder(w) /\ BodyCode(w, PayOrderRequest) = 0 =>
              LET method == Message(PayOrderRequest, w.body.doc).payment_method.str IN
              method \in Methods => PayRequest(OrderOf(w), method) \in Inputs

-----------------------------------------------------------------------------
HttpInit ==
    /\ Init
    /\ wire = [r \in Requests |-> NoWire]
    /\ resp = [r \in Requests |-> NoResponse]
    /\ got = [r \in Requests |-> Waiting]

Awaited(r) == wire[r] # NoWire /\ resp[r] = NoResponse

\* A client opens a connection and sends w.  If the server lets it through
\* this is where its handler begins.
Send(r, w) ==
    /\ wire[r] = NoWire
    /\ proc = "up"
    /\ wire' = [wire EXCEPT ![r] = w]
    /\ IF LetsThrough(w) THEN Arrive(r, Serve(w).q) /\ UNCHANGED ledger
                         ELSE UNCHANGED allVars
    /\ UNCHANGED <<resp, got>>

\* Nobody listens: the connection is refused.
SendInVain(r, w) ==
    /\ wire[r] = NoWire
    /\ proc # "up"
    /\ wire' = [wire EXCEPT ![r] = w]
    /\ resp' = [resp EXCEPT ![r] = Closed]
    /\ UNCHANGED <<allVars, got>>

\* The server answers a request that does not reach a handler.
Refuse(r) ==
    /\ Awaited(r)
    /\ ~LetsThrough(wire[r])
    /\ resp' = [resp EXCEPT ![r] = Refusal(wire[r])]
    /\ UNCHANGED <<allVars, wire, got>>

\* The operations with a body.
ReadsBody(w) == w.path \in {"orders", "pay"}

\* Mutant of NotRead: the deadline runs while the handler works, too.
NotReadOrWorkedOff(r) ==
    /\ InFlight(r) /\ Goto(r, "dead")
    /\ UNCHANGED <<proc, orders, req, snap, rpc, reply, ledger>>
    /\ \E answer \in {Closed} \cup IF ReadsBody(wire[r]) THEN {HandleError(400)} ELSE {} :
          resp' = [resp EXCEPT ![r] = answer]
    /\ UNCHANGED <<wire, got>>

\* The request is not read in time: its connection is closed, or the server
\* still answers that it could not read the body.
NotRead(r) ==
    /\ Abandon(r) /\ UNCHANGED ledger
    /\ \E answer \in {Closed} \cup IF ReadsBody(wire[r]) THEN {HandleError(400)} ELSE {} :
          resp' = [resp EXCEPT ![r] = answer]
    /\ UNCHANGED <<wire, got>>

\* The handler has returned and the server writes its answer.
Respond(r) ==
    /\ Awaited(r)
    /\ pc[r] = "done"
    /\ resp' = [resp EXCEPT ![r] = EncodeReply(req[r].op, reply[r])]
    /\ UNCHANGED <<allVars, wire, got>>

\* A step of a handler, or of the payment service.
Work(r) ==
    /\ \/ HandlerStep(r) /\ ~Abandon(r) /\ UNCHANGED ledger
       \/ \E t \in Txns : ServePayment(r, t)
    /\ UNCHANGED httpVars

\* The process starts to stop, or starts; or it goes, and every connection
\* that was not answered yet is closed.
ProcessGoesOn ==
    /\ Signal \/ Start
    /\ UNCHANGED <<ledger, httpVars>>

ProcessGoes ==
    /\ Exit \/ Crash
    /\ resp' = [r \in Requests |-> IF Awaited(r) THEN Closed ELSE resp[r]]
    /\ UNCHANGED <<ledger, wire, got>>

\* What the client makes of what comes back.
Receive(r) ==
    /\ resp[r] # NoResponse
    /\ got[r] = Waiting
    /\ LET told == ReadAnswer(wire[r].path, resp[r]) IN
          got' = [got EXCEPT ![r] = IF resp[r] = Closed THEN NoAnswer
                                    ELSE IF told = None THEN Undecodable
                                    ELSE Outcome("answered", told)]
    /\ UNCHANGED <<allVars, wire, resp>>

\* The client gives up waiting, or the connection is lost under way: its
\* request goes on without it.
Lose(r) ==
    /\ wire[r] # NoWire
    /\ got[r] = Waiting
    /\ got' = [got EXCEPT ![r] = NoAnswer]
    /\ UNCHANGED <<allVars, wire, resp>>

HttpNext ==
    \/ \E r \in Requests :
          \/ \E w \in Wires : Send(r, w) \/ SendInVain(r, w)
          \/ Refuse(r) \/ NotRead(r) \/ Work(r) \/ Respond(r)
          \/ Receive(r) \/ Lose(r)
    \/ ProcessGoesOn \/ ProcessGoes

HttpSpec == HttpInit /\ [][HttpNext]_everything

(***************************************************************************)
(* Fairness.  The Go scheduler runs a goroutine that can run.  That of a   *)
(* connection waits for nothing for ever: reading is bounded by            *)
(* ReadTimeout, a call by its context of 5 seconds, a critical section     *)
(* holds the lock for one map operation.  A client reads what has come,    *)
(* and Shutdown returns once every connection was served: that its own     *)
(* deadline ends it before is possible, and not relied on.  The payment    *)
(* service need not answer, connections need not be lost, and the          *)
(* generated client has no deadline: newClientConfig takes                 *)
(* http.DefaultClient.                                                     *)
(***************************************************************************)
ServeConnection(r) ==
    \/ Refuse(r) \/ NotRead(r) \/ Respond(r)
    \/ HandlerStep(r) /\ ~Abandon(r) /\ UNCHANGED <<ledger, httpVars>>

\* What Shutdown waits for: no connection is being read or served.
Drained == \A r \in Requests : ~InFlight(r) /\ ~Awaited(r)

HttpFairness ==
    /\ \A r \in Requests :
          WF_everything(ServeConnection(r)) /\ WF_everything(Receive(r))
    /\ WF_everything(Drained /\ Exit /\ ProcessGoes)

FairHttpSpec == HttpSpec /\ HttpFairness

-----------------------------------------------------------------------------
(* Properties                                                              *)

HttpTypeOK ==
    /\ wire \in [Requests -> Wires \cup {NoWire}]
    /\ \A r \in Requests :
          /\ resp[r].code \in {0, 200, 201, 204, 400, 404, 405, 409, 415, 500}
          /\ got[r].kind \in {"waiting", "answered", "undecodable", "none"}
          /\ got[r].told \in Replies

\* What a client is told is what its handler returned, and an order, whatever
\* has become of it, is read member for member as it is stored: encoded by
\* the server and decoded by the client, no answer turns into another one
\* (oas_response_encoders_gen.go, oas_response_decoders_gen.go,
\* handler.go:88-119).
Shown(order) == Reply(200, None, None, None, order)

AnswersAreFaithful ==
    /\ \A r \in Requests : got[r].kind = "answered" =>
          pc[r] = "done" /\ got[r].told = reply[r]
    /\ \A o \in OrderIds : orders[o] # None =>
          ReadGet(EncodeGet(Shown(orders[o]))) = Shown(orders[o])

\* A client that cannot make sense of a response has still lost nothing: no
\* handler ran for its request, nothing was stored and nothing charged
\* (oas_handlers_gen.go:254-262, oas_response_decoders_gen.go:709-711).
UndecodableMeansUntouched ==
    \A r \in Requests : got[r] = Undecodable =>
        pc[r] \in {"idle", "dead"} /\ rpc[r] = NoCall /\ reply[r] = NoReply

\* What a client asks for by the generated client is what the handler gets,
\* parts in their places, whatever else clients send
\* (oas_client_gen.go, oas_request_decoders_gen.go).
RequestsArriveIntact ==
    \A r \in Requests : \A q \in Inputs :
        wire[r] = Sent(q) /\ pc[r] # "idle" => req[r] = q

\* A client that reads that its order is paid was charged, and as it asked: the
\* transaction it reads is on the ledger, for the order its request named, in
\* whatever spelling, by the method it named, whatever has happened since
\* (oas_parameters_gen.go:167-214, handler.go:256-303).
PaidAsTold ==
    \A r \in Requests :
        wire[r].path = "pay" /\ got[r].kind = "answered" /\ got[r].told.code = 200 =>
            \E e \in ledger :
                /\ e.txn = got[r].told.txn
                /\ e.order = OrderOf(wire[r])
                /\ MethodName[e.method]
                      = Message(PayOrderRequest, wire[r].body.doc).payment_method.str

\* The handlers run as RocketLab has them: whatever comes over the wire, no
\* request reaches a handler but of the kind InputsAssumption speaks of
\* (oas_validators_gen.go:64-85, oas_request_decoders_gen.go:150-160).
ServesAsModelled == Spec

\* A request ends on both sides: its client hears something, an answer or
\* the end of its connection, and no handler stays with it, though the
\* payment service may never answer and no deadline of the client's runs
\* (handler.go:149, 271, main.go:129).
RequestsEnd ==
    \A r \in Requests : wire[r] # NoWire ~> got[r] # Waiting /\ ~InFlight(r)

\* Shutdown ends of itself, though it has no hold on a handler whose call the
\* payment service never answers, or on a request that is not read: each of
\* them ends by a deadline of its own, and no connection comes after them.
\* Without shutdownTimeout, a signal would still stop the process
\* (main.go:106, 129-134, handler.go:149, 271).
ShutdownEnds == proc = "draining" ~> proc = "down"

-----------------------------------------------------------------------------
(* Why they hold: the two ends of a connection and the handler between.    *)

\* No handler looked at the request, or none got as far as the map.
Untouched(r) == rpc[r] = NoCall /\ reply[r] = NoReply

\* Before a client sends there is nothing.
NothingUnasked(r) ==
    wire[r] = NoWire => pc[r] = "idle" /\ resp[r] = NoResponse /\ got[r] = Waiting

\* A handler runs for what was decoded from the wire.
HandlesWhatWasSent(r) ==
    pc[r] # "idle" =>
        wire[r] \in Wires /\ LetsThrough(wire[r]) /\ req[r] = Serve(wire[r]).q

\* What an operation answers.
Errors == [create |-> {404, 409}, get |-> {404}, pay |-> {404, 409, 500},
           cancel |-> {404, 409}]

AnswerOf(op, told) ==
    \/ \E code \in Errors[op] : told = Status(code)
    \/ op = "create" /\ told.order \in OrderIds
          /\ told = Reply(201, told.order, told.price, None, None)
    \/ op = "get" /\ told.view \in Order /\ told = Reply(200, None, None, None, told.view)
    \/ op = "pay" /\ told.txn \in Txns /\ told = Reply(200, None, None, told.txn, None)
    \/ op = "cancel" /\ told = Status(200)

\* A transaction that was told is that of the call.
TellsItsCall(r) ==
    req[r].op = "pay" /\ reply[r].code = 200 =>
        rpc[r].state = "ok" /\ rpc[r].txn = reply[r].txn

AnswersItsOperation(r) ==
    pc[r] = "done" =>
        reply[r] \in Replies /\ AnswerOf(req[r].op, reply[r]) /\ TellsItsCall(r)

\* What has come back, by how far the request got.
Came(r) ==
    \/ resp[r] \in {NoResponse, Closed}
    \/ wire[r] \in Wires /\ ~LetsThrough(wire[r]) /\ resp[r] = Refusal(wire[r])
    \/ pc[r] = "dead" /\ Untouched(r) /\ resp[r] = HandleError(400)
    \/ pc[r] = "done" /\ resp[r] = EncodeReply(req[r].op, reply[r])

\* And what the client made of it.
Understood(r) ==
    \/ got[r] \in {Waiting, NoAnswer}
    \/ got[r] = Undecodable /\ pc[r] \in {"idle", "dead"} /\ Untouched(r)
    \/ got[r] = Outcome("answered", reply[r]) /\ pc[r] = "done"

\* The inductive invariant, on top of that of RocketLab: each end of a
\* connection has only what the other end, at some time, had to give
\* (oas_handlers_gen.go:543-623, oas_client_gen.go:440-454).
HttpInv ==
    /\ DOMAIN resp = Requests /\ DOMAIN got = Requests
    /\ wire \in [Requests -> Wires \cup {NoWire}]
    /\ \A r \in Requests :
          /\ NothingUnasked(r) /\ HandlesWhatWasSent(r)
          /\ AnswersItsOperation(r) /\ Came(r) /\ Understood(r)

-----------------------------------------------------------------------------
(* What the API description says, and the server does not do.              *)

\* The answer 400 is an Error (orders.yaml:20-25, order_pay.yaml:22-27): a
\* generated client can read it.
BadRequestsAreErrors ==
    \A r \in Requests : resp[r].code = 400 =>
        WellFormed(Error, resp[r].doc)
=============================================================================
