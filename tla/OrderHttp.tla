------------------------------ MODULE OrderHttp ------------------------------
(***************************************************************************)
(* Between HTTP and the handlers of OrderService: the generated server     *)
(* routes and decodes a request and encodes what the handler returned, the *)
(* generated client does the reverse (src/shared/pkg/openapi/order/v1).    *)
(* All of it is computed from one message; no state is kept.               *)
(*                                                                         *)
(* Metrics, spans and the escaping of paths are left out.  The order       *)
(* service sets no ogen middleware and no error handler of its own.        *)
(***************************************************************************)
EXTENDS OrderService, OrderJson

(* A request on the wire.  The path is one of the four shapes the router   *)
(* knows, with the text in the place of the order, or another one.         *)
Paths == {"orders", "order", "pay", "cancel", "elsewhere"}

Wire(verb, path, order, ctype, body) ==
    [verb |-> verb, path |-> path, order |-> order, ctype |-> ctype, body |-> body]

\* A body: nothing, text that is no JSON object, an object and something
\* after it, or an object.
Body(kind, doc) == [kind |-> kind, doc |-> doc]
Object(doc) == Body("object", doc)
NoBody == Body("none", <<>>)

\* A response: its status, the type of its content and, if that is JSON, the
\* object in it.
Response(code, ctype, doc) == [code |-> code, ctype |-> ctype, doc |-> doc]
Json(code, doc) == Response(code, "application/json", doc)

\* What comes of decoding: the request for the handler, or the status the
\* client gets instead.
Through(q) == [code |-> 0, q |-> q]
Refused(code) == [code |-> code, q |-> NoRequest]

-----------------------------------------------------------------------------
\* The text UUID.String writes of an identifier: the canonical one.
CanonicalText(id) == Parses(id) /\ id \notin DOMAIN Spellings /\ id # None

\* A uuid.UUID has no other text than this, be it of an order, of a
\* transaction or of a part in a request the decoder let through.
ASSUME TextsAssumption ==
    /\ \A id \in OrderIds \cup Txns : id \notin DOMAIN Spellings
    /\ \A q \in Inputs : q.op = "create" =>
          /\ CanonicalText(q.parts.hull) /\ CanonicalText(q.parts.engine)
          /\ q.parts.shield # None => CanonicalText(q.parts.shield)
          /\ q.parts.weapon # None => CanonicalText(q.parts.weapon)

-----------------------------------------------------------------------------
(* The server: decoding                                                    *)

\* The parameter of the path: required, and a UUID.
ReadsOrder(w) == Parses(w.order)
OrderOf(w) == Canonical(w.order)

\* The body of a request as a message of the schema: another content type is
\* unsupported; no content type, no body, or one that is not just a
\* well-formed object is a bad request.
BodyCode(w, schema) ==
    IF w.ctype = "none" THEN 400
    ELSE IF w.ctype # "application/json" THEN 415
    ELSE IF w.body.kind = "object" /\ WellFormed(schema, w.body.doc) THEN 0
    ELSE 400

\* A part a request or an order may lack: unset and null both mean none.
PartOf(value) == IF value \in {Unset, Null} THEN None ELSE value.str

\* Mutant of ShipOf: shield and weapon change places.
ShipSwapped(m) ==
    Ship(m.hull_uuid.str, m.engine_uuid.str,
         PartOf(m.weapon_uuid), PartOf(m.shield_uuid))

ShipOf(m) ==
    Ship(m.hull_uuid.str, m.engine_uuid.str,
         PartOf(m.shield_uuid), PartOf(m.weapon_uuid))

HandleCreate(w) ==
    LET code == BodyCode(w, CreateOrderRequest) IN
    IF code # 0 THEN Refused(code)
    ELSE Through(CreateRequest(ShipOf(Message(CreateOrderRequest, w.body.doc))))

HandleGet(w) ==
    IF ReadsOrder(w) THEN Through(GetRequest(OrderOf(w))) ELSE Refused(400)

HandleCancel(w) ==
    IF ReadsOrder(w) THEN Through(CancelRequest(OrderOf(w))) ELSE Refused(400)

\* PayOrderRequest.Validate: the enum's decoder took any string.
ValidMethod(m) == m.payment_method.str \in Methods

\* Mutant of DecodePay: the request is not validated.
DecodePayUnvalidated(w) ==
    LET code == BodyCode(w, PayOrderRequest)
        m == Message(PayOrderRequest, w.body.doc) IN
    IF code # 0 THEN Refused(code)
    ELSE Through(PayRequest(OrderOf(w), m.payment_method.str))

DecodePay(w) ==
    LET code == BodyCode(w, PayOrderRequest)
        m == Message(PayOrderRequest, w.body.doc) IN
    IF code # 0 THEN Refused(code)
    ELSE IF ~ValidMethod(m) THEN Refused(400)
    ELSE Through(PayRequest(OrderOf(w), m.payment_method.str))

\* The parameter comes before the body.
HandlePay(w) == IF ReadsOrder(w) THEN DecodePay(w) ELSE Refused(400)

\* Where a path leads, and by which verb.
VerbOf == [orders |-> "POST", order |-> "GET", pay |-> "POST", cancel |-> "POST"]

Serve(w) ==
    IF w.path = "elsewhere" THEN Refused(404)
    ELSE IF w.verb # VerbOf[w.path]
         THEN Refused(IF w.verb = "OPTIONS" THEN 204 ELSE 405)
    ELSE CASE w.path = "orders" -> HandleCreate(w)
           [] w.path = "order"  -> HandleGet(w)
           [] w.path = "pay"    -> HandlePay(w)
           [] w.path = "cancel" -> HandleCancel(w)

LetsThrough(w) == Serve(w).code = 0

\* ogen's default error handler: an object of its own, not an Error.
HandleError(code) == Json(code, <<Member("error_message", Str("decode"))>>)

\* What a request that no handler sees is answered.
Refusal(w) ==
    LET code == Serve(w).code IN
    IF w.path = "elsewhere" THEN Response(404, "text/plain", <<>>)
    ELSE IF code \in {204, 405} THEN Response(code, "none", <<>>)
    ELSE HandleError(code)

-----------------------------------------------------------------------------
(* The server: encoding what a handler returned, by its Go type, which a   *)
(* reply's status stands for here                                          *)

ErrorBody(code) == Encode(Error, [code |-> Num(code), message |-> Str("message")])

\* Mutant of EncodeCreate: the response is made without its price.
EncodeCreateUnpriced(told) ==
    Json(told.code,
         IF told.code = 201
         THEN Encode(CreateOrderResponse, [order_uuid |-> Str(told.order),
                                           total_price |-> Num(0)])
         ELSE ErrorBody(told.code))

EncodeCreate(told) ==
    Json(told.code,
         IF told.code = 201
         THEN Encode(CreateOrderResponse, [order_uuid |-> Str(told.order),
                                           total_price |-> Num(told.price)])
         ELSE ErrorBody(told.code))

OptionalUuid(id) == IF id = None THEN Unset ELSE Str(id)

\* Mutant of DtoOf: the weapon is shown in the place of the shield.
DtoSwapped(order) ==
    [order_uuid |-> Str(order.uuid),
     hull_uuid |-> Str(order.parts.hull), engine_uuid |-> Str(order.parts.engine),
     shield_uuid |-> OptionalUuid(order.parts.weapon),
     weapon_uuid |-> OptionalUuid(order.parts.shield),
     total_price |-> Num(order.price), transaction_uuid |-> OptionalUuid(order.txn),
     payment_method |-> OptionalUuid(order.method), status |-> Str(order.status),
     created_at |-> Str("2025-01-01T00:00:00Z")]

\* The stored order as GetOrder copies it out; nil pointers stay unset.
DtoOf(order) ==
    [order_uuid |-> Str(order.uuid),
     hull_uuid |-> Str(order.parts.hull), engine_uuid |-> Str(order.parts.engine),
     shield_uuid |-> OptionalUuid(order.parts.shield),
     weapon_uuid |-> OptionalUuid(order.parts.weapon),
     total_price |-> Num(order.price), transaction_uuid |-> OptionalUuid(order.txn),
     payment_method |-> OptionalUuid(order.method), status |-> Str(order.status),
     created_at |-> Str("2025-01-01T00:00:00Z")]

EncodeGet(told) ==
    Json(told.code,
         IF told.code = 200 THEN Encode(OrderDto, DtoOf(told.view))
         ELSE ErrorBody(told.code))

EncodePay(told) ==
    Json(told.code,
         IF told.code = 200
         THEN Encode(PayOrderResponse, [transaction_uuid |-> Str(told.txn)])
         ELSE ErrorBody(told.code))

EncodeCancel(told) ==
    Json(told.code,
         IF told.code = 200 THEN Encode(CancelOrderResponse, <<>>)
         ELSE ErrorBody(told.code))

EncodeReply(op, told) ==
    CASE op = "create" -> EncodeCreate(told)
      [] op = "get"    -> EncodeGet(told)
      [] op = "pay"    -> EncodePay(told)
      [] op = "cancel" -> EncodeCancel(told)

-----------------------------------------------------------------------------
(* The client: sending.  It validates nothing.                             *)

SendCreate(q) ==
    Wire("POST", "orders", None, "application/json",
         Object(Encode(CreateOrderRequest,
                       [hull_uuid |-> Str(q.parts.hull), engine_uuid |-> Str(q.parts.engine),
                        shield_uuid |-> OptionalUuid(q.parts.shield),
                        weapon_uuid |-> OptionalUuid(q.parts.weapon)])))

SendGet(q) == Wire("GET", "order", q.order, "none", NoBody)

SendPay(q) ==
    Wire("POST", "pay", q.order, "application/json",
         Object(Encode(PayOrderRequest, [payment_method |-> Str(q.method)])))

SendCancel(q) == Wire("POST", "cancel", q.order, "none", NoBody)

Sent(q) ==
    CASE q.op = "create" -> SendCreate(q)
      [] q.op = "get"    -> SendGet(q)
      [] q.op = "pay"    -> SendPay(q)
      [] q.op = "cancel" -> SendCancel(q)

-----------------------------------------------------------------------------
(* The client: what it makes of a response.  None: an error, which tells   *)
(* nothing but that the response was not one of the description's.         *)

\* The status is one of the operation's and the body JSON of its schema.
Expected(bodies, response) ==
    /\ response.code \in DOMAIN bodies
    /\ response.ctype = "application/json"
    /\ WellFormed(bodies[response.code], response.doc)

\* The body is that of success, and not an Error.
IsGood(bodies, response) ==
    Expected(bodies, response) /\ bodies[response.code] # Error

\* What is made of any other response.
Otherwise(bodies, response) ==
    IF Expected(bodies, response) THEN Status(response.code) ELSE None

ReadCreate(response) ==
    LET m == Message(CreateOrderResponse, response.doc) IN
    IF IsGood(CreateBodies, response)
    THEN Reply(201, m.order_uuid.str, m.total_price.num, None, None)
    ELSE Otherwise(CreateBodies, response)

\* OrderDto.Validate: the status, and the method if there is one.
ValidDto(m) ==
    /\ m.status.str \in Statuses
    /\ m.payment_method \notin {Unset, Null} => m.payment_method.str \in Methods

OrderOfDto(m) ==
    [uuid |-> m.order_uuid.str, parts |-> ShipOf(m), price |-> m.total_price.num,
     status |-> m.status.str, txn |-> PartOf(m.transaction_uuid),
     method |-> PartOf(m.payment_method)]

ReadGet(response) ==
    LET m == Message(OrderDto, response.doc) IN
    IF ~IsGood(GetBodies, response) THEN Otherwise(GetBodies, response)
    ELSE IF ValidDto(m) THEN Reply(200, None, None, None, OrderOfDto(m)) ELSE None

ReadPay(response) ==
    LET m == Message(PayOrderResponse, response.doc) IN
    IF IsGood(PayBodies, response)
    THEN Reply(200, None, None, m.transaction_uuid.str, None)
    ELSE Otherwise(PayBodies, response)

ReadCancel(response) ==
    IF IsGood(CancelBodies, response) THEN Status(200)
    ELSE Otherwise(CancelBodies, response)

\* The client of the operation a path belongs to.
ReadAnswer(path, response) ==
    CASE path = "orders" -> ReadCreate(response)
      [] path = "order"  -> ReadGet(response)
      [] path = "pay"    -> ReadPay(response)
      [] path = "cancel" -> ReadCancel(response)
      [] OTHER           -> None
=============================================================================
