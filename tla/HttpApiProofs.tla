----------------------------- MODULE HttpApiProofs -----------------------------
(***************************************************************************)
(* Proofs about HttpApi: what one side encodes the other reads as it was,  *)
(* for every request and every answer, and the connections add nothing to  *)
(* what the handlers of RocketLab do.                                      *)
(***************************************************************************)
EXTENDS HttpApi, RocketLabProofs, OrderJsonProofs

(* The message types.                                                      *)

\* The type of a member, where no two have one name.
LEMMA MemberType ==
    ASSUME NEW schema, NEW n \in Nat, DOMAIN schema.members = 1..n,
           \A i, j \in 1..n : schema.members[i].name = schema.members[j].name => i = j
    PROVE  /\ NamesOf(schema) = {schema.members[j].name : j \in 1..n}
           /\ \A j \in 1..n :
                 TypeOf(schema, schema.members[j].name) = schema.members[j].type
  <1>1. NamesOf(schema) = {schema.members[j].name : j \in 1..n}
    BY DEF NamesOf, ToSet
  <1>2. ASSUME NEW j \in 1..n
        PROVE  TypeOf(schema, schema.members[j].name) = schema.members[j].type
    <2>. DEFINE name == schema.members[j].name
                f == CHOOSE f \in ToSet(schema.members) : f.name = name
    <2>1. schema.members[j] \in ToSet(schema.members)
      BY DEF ToSet
    <2>2. f \in ToSet(schema.members) /\ f.name = name
      BY <2>1
    <2>. HIDE DEF f
    <2>3. PICK i \in 1..n : f = schema.members[i]
      BY <2>2 DEF ToSet
    <2>4. f = schema.members[j]
      BY <2>2, <2>3
    <2>. QED  BY <2>4 DEF TypeOf, f
  <1>. QED  BY <1>1, <1>2

LEMMA CreateOrderRequestIs ==
    /\ IsSchema(CreateOrderRequest)
    /\ NamesOf(CreateOrderRequest) =
          {"hull_uuid", "engine_uuid", "shield_uuid", "weapon_uuid"}
    /\ TypeOf(CreateOrderRequest, "hull_uuid") = Uuid
    /\ TypeOf(CreateOrderRequest, "engine_uuid") = Uuid
    /\ TypeOf(CreateOrderRequest, "shield_uuid") = OptNilUUID
    /\ TypeOf(CreateOrderRequest, "weapon_uuid") = OptNilUUID
    /\ CreateOrderRequest.required = {"hull_uuid", "engine_uuid"}
  <1>. DEFINE schema == CreateOrderRequest
              members == schema.members
  <1>1. Len(members) = 4 /\ DOMAIN members = 1..4
    BY DEF CreateOrderRequest, Schema
  <1>2. /\ members[1].name = "hull_uuid" /\ members[1].type = Uuid
        /\ members[2].name = "engine_uuid" /\ members[2].type = Uuid
        /\ members[3].name = "shield_uuid" /\ members[3].type = OptNilUUID
        /\ members[4].name = "weapon_uuid" /\ members[4].type = OptNilUUID
    BY DEF CreateOrderRequest, Schema, Typed
  <1>3. schema.required = {"hull_uuid", "engine_uuid"}
    BY DEF CreateOrderRequest, Schema
  <1>. HIDE DEF schema
  <1>4. \A i, j \in 1..4 : members[i].name = members[j].name => i = j
    BY <1>2
  <1>5. /\ NamesOf(schema) = {members[j].name : j \in 1..4}
        /\ \A j \in 1..4 : TypeOf(schema, members[j].name) = members[j].type
    BY <1>1, <1>4, MemberType
  <1>6. NamesOf(schema) = {"hull_uuid", "engine_uuid", "shield_uuid", "weapon_uuid"}
    BY <1>2, <1>5
  <1>7. IsSchema(schema)
    BY <1>1, <1>3, <1>6 DEF IsSchema
  <1>. QED  BY <1>2, <1>3, <1>5, <1>6, <1>7 DEF schema

LEMMA CreateOrderResponseIs ==
    /\ IsSchema(CreateOrderResponse)
    /\ NamesOf(CreateOrderResponse) = {"order_uuid", "total_price"}
    /\ TypeOf(CreateOrderResponse, "order_uuid") = Uuid
    /\ TypeOf(CreateOrderResponse, "total_price") = Int64
  <1>. DEFINE schema == CreateOrderResponse
              members == schema.members
  <1>1. Len(members) = 2 /\ DOMAIN members = 1..2
    BY DEF CreateOrderResponse, Schema
  <1>2. /\ members[1].name = "order_uuid" /\ members[1].type = Uuid
        /\ members[2].name = "total_price" /\ members[2].type = Int64
    BY DEF CreateOrderResponse, Schema, Typed
  <1>3. schema.required = {"order_uuid", "total_price"}
    BY DEF CreateOrderResponse, Schema
  <1>. HIDE DEF schema
  <1>4. \A i, j \in 1..2 : members[i].name = members[j].name => i = j
    BY <1>2
  <1>5. /\ NamesOf(schema) = {members[j].name : j \in 1..2}
        /\ \A j \in 1..2 : TypeOf(schema, members[j].name) = members[j].type
    BY <1>1, <1>4, MemberType
  <1>6. NamesOf(schema) = {"order_uuid", "total_price"}
    BY <1>2, <1>5
  <1>7. IsSchema(schema)
    BY <1>1, <1>3, <1>6 DEF IsSchema
  <1>. QED  BY <1>2, <1>5, <1>6, <1>7 DEF schema
LEMMA PayOrderRequestIs ==
    /\ IsSchema(PayOrderRequest)
    /\ NamesOf(PayOrderRequest) = {"payment_method"}
    /\ TypeOf(PayOrderRequest, "payment_method") = PaymentMethod
    /\ PayOrderRequest.required = {"payment_method"}
  <1>. DEFINE schema == PayOrderRequest
              members == schema.members
  <1>1. Len(members) = 1 /\ DOMAIN members = 1..1
    BY DEF PayOrderRequest, Schema
  <1>2. /\ members[1].name = "payment_method" /\ members[1].type = PaymentMethod
    BY DEF PayOrderRequest, Schema, Typed
  <1>3. schema.required = {"payment_method"}
    BY DEF PayOrderRequest, Schema
  <1>. HIDE DEF schema
  <1>4. \A i, j \in 1..1 : members[i].name = members[j].name => i = j
    BY <1>2
  <1>5. /\ NamesOf(schema) = {members[j].name : j \in 1..1}
        /\ \A j \in 1..1 : TypeOf(schema, members[j].name) = members[j].type
    BY <1>1, <1>4, MemberType
  <1>6. NamesOf(schema) = {"payment_method"}
    BY <1>2, <1>5
  <1>7. IsSchema(schema)
    BY <1>1, <1>3, <1>6 DEF IsSchema
  <1>. QED  BY <1>2, <1>3, <1>5, <1>6, <1>7 DEF schema

LEMMA PayOrderResponseIs ==
    /\ IsSchema(PayOrderResponse)
    /\ NamesOf(PayOrderResponse) = {"transaction_uuid"}
    /\ TypeOf(PayOrderResponse, "transaction_uuid") = Uuid
    /\ PayOrderResponse.required = {"transaction_uuid"}
  <1>. DEFINE schema == PayOrderResponse
              members == schema.members
  <1>1. Len(members) = 1 /\ DOMAIN members = 1..1
    BY DEF PayOrderResponse, Schema
  <1>2. /\ members[1].name = "transaction_uuid" /\ members[1].type = Uuid
    BY DEF PayOrderResponse, Schema, Typed
  <1>3. schema.required = {"transaction_uuid"}
    BY DEF PayOrderResponse, Schema
  <1>. HIDE DEF schema
  <1>4. \A i, j \in 1..1 : members[i].name = members[j].name => i = j
    BY <1>2
  <1>5. /\ NamesOf(schema) = {members[j].name : j \in 1..1}
        /\ \A j \in 1..1 : TypeOf(schema, members[j].name) = members[j].type
    BY <1>1, <1>4, MemberType
  <1>6. NamesOf(schema) = {"transaction_uuid"}
    BY <1>2, <1>5
  <1>7. IsSchema(schema)
    BY <1>1, <1>3, <1>6 DEF IsSchema
  <1>. QED  BY <1>2, <1>3, <1>5, <1>6, <1>7 DEF schema

LEMMA ErrorIs ==
    /\ IsSchema(Error)
    /\ NamesOf(Error) = {"code", "message"}
    /\ TypeOf(Error, "code") = Int64
    /\ TypeOf(Error, "message") = Text
    /\ Error.required = {"code", "message"}
  <1>. DEFINE schema == Error
              members == schema.members
  <1>1. Len(members) = 2 /\ DOMAIN members = 1..2
    BY DEF Error, Schema
  <1>2. /\ members[1].name = "code" /\ members[1].type = Int64
        /\ members[2].name = "message" /\ members[2].type = Text
    BY DEF Error, Schema, Typed
  <1>3. schema.required = {"code", "message"}
    BY DEF Error, Schema
  <1>. HIDE DEF schema
  <1>4. \A i, j \in 1..2 : members[i].name = members[j].name => i = j
    BY <1>2
  <1>5. /\ NamesOf(schema) = {members[j].name : j \in 1..2}
        /\ \A j \in 1..2 : TypeOf(schema, members[j].name) = members[j].type
    BY <1>1, <1>4, MemberType
  <1>6. NamesOf(schema) = {"code", "message"}
    BY <1>2, <1>5
  <1>7. IsSchema(schema)
    BY <1>1, <1>3, <1>6 DEF IsSchema
  <1>. QED  BY <1>2, <1>3, <1>5, <1>6, <1>7 DEF schema

LEMMA OrderDtoIs ==
    /\ IsSchema(OrderDto)
    /\ NamesOf(OrderDto) = {"order_uuid", "hull_uuid", "engine_uuid", "shield_uuid",
                            "weapon_uuid", "total_price", "transaction_uuid",
                            "payment_method", "status", "created_at"}
    /\ TypeOf(OrderDto, "order_uuid") = Uuid
    /\ TypeOf(OrderDto, "hull_uuid") = Uuid
    /\ TypeOf(OrderDto, "engine_uuid") = Uuid
    /\ TypeOf(OrderDto, "shield_uuid") = OptNilUUID
    /\ TypeOf(OrderDto, "weapon_uuid") = OptNilUUID
    /\ TypeOf(OrderDto, "total_price") = Int64
    /\ TypeOf(OrderDto, "transaction_uuid") = OptNilUUID
    /\ TypeOf(OrderDto, "payment_method") = OptNilPaymentMethod
    /\ TypeOf(OrderDto, "status") = OrderStatus
    /\ TypeOf(OrderDto, "created_at") = DateTime
    /\ OrderDto.required = {"order_uuid", "hull_uuid", "engine_uuid",
                            "total_price", "status", "created_at"}
  <1>. DEFINE schema == OrderDto
              members == schema.members
  <1>1. Len(members) = 10 /\ DOMAIN members = 1..10
    BY DEF OrderDto, Schema
  <1>2. /\ members[1].name = "order_uuid" /\ members[1].type = Uuid
        /\ members[2].name = "hull_uuid" /\ members[2].type = Uuid
        /\ members[3].name = "engine_uuid" /\ members[3].type = Uuid
        /\ members[4].name = "shield_uuid" /\ members[4].type = OptNilUUID
        /\ members[5].name = "weapon_uuid" /\ members[5].type = OptNilUUID
        /\ members[6].name = "total_price" /\ members[6].type = Int64
        /\ members[7].name = "transaction_uuid" /\ members[7].type = OptNilUUID
        /\ members[8].name = "payment_method" /\ members[8].type = OptNilPaymentMethod
        /\ members[9].name = "status" /\ members[9].type = OrderStatus
        /\ members[10].name = "created_at" /\ members[10].type = DateTime
    BY DEF OrderDto, Schema, Typed
  <1>3. schema.required = {"order_uuid", "hull_uuid", "engine_uuid",
                           "total_price", "status", "created_at"}
    BY DEF OrderDto, Schema
  <1>. HIDE DEF schema
  <1>4. \A i, j \in 1..10 : members[i].name = members[j].name => i = j
    BY <1>2
  <1>5. /\ NamesOf(schema) = {members[j].name : j \in 1..10}
        /\ \A j \in 1..10 : TypeOf(schema, members[j].name) = members[j].type
    BY <1>1, <1>4, MemberType
  <1>6. NamesOf(schema) = {"order_uuid", "hull_uuid", "engine_uuid", "shield_uuid",
                           "weapon_uuid", "total_price", "transaction_uuid",
                           "payment_method", "status", "created_at"}
    BY <1>2, <1>5
  <1>7. IsSchema(schema)
    BY <1>1, <1>3, <1>6 DEF IsSchema
  <1>. QED  BY <1>2, <1>3, <1>5, <1>6, <1>7 DEF schema

LEMMA CancelOrderResponseIs ==
    IsSchema(CancelOrderResponse) /\ NamesOf(CancelOrderResponse) = {}
  BY DEF CancelOrderResponse, Schema, IsSchema, NamesOf, ToSet
-----------------------------------------------------------------------------
(* Values that are written and read.                                       *)

\* Identifiers in their one text, present or not, are read as they were.
LEMMA TextsAreRead ==
    ASSUME NEW id, CanonicalText(id)
    PROVE  /\ Takes(Uuid, Str(id)) /\ Read(Uuid, Str(id)) = Str(id)
           /\ Takes(OptNilUUID, Str(id)) /\ Read(OptNilUUID, Str(id)) = Str(id)
           /\ Str(id) # Unset /\ Str(id).str = id /\ PartOf(Str(id)) = id
           /\ OptionalUuid(id) = Str(id)
  <1>1. Str(id) # Unset /\ Str(id) # Null /\ Str(id).str = id /\ Str(id).kind = "string"
    BY DEF Str, Unset, Null, Value
  <1>2. Parses(id) /\ Canonical(id) = id /\ id # None
    BY DEF CanonicalText, Canonical
  <1>3. Takes(Uuid, Str(id)) /\ Takes(OptNilUUID, Str(id))
    BY <1>1, <1>2 DEF Takes, Uuid, OptNilUUID
  <1>4. Read(Uuid, Str(id)) = Str(id) /\ Read(OptNilUUID, Str(id)) = Str(id)
    BY <1>1, <1>2 DEF Read, Uuid, OptNilUUID
  <1>. QED  BY <1>1, <1>2, <1>3, <1>4 DEF PartOf, OptionalUuid

LEMMA AbsentIsRead == OptionalUuid(None) = Unset /\ PartOf(Unset) = None
  BY DEF OptionalUuid, PartOf

\* Strings and numbers are read as they are.
LEMMA PlainIsRead ==
    ASSUME NEW x
    PROVE  /\ Takes(Text, Str(x)) /\ Read(Text, Str(x)) = Str(x)
           /\ Takes(OptNilPaymentMethod, Str(x)) /\ Read(OptNilPaymentMethod, Str(x)) = Str(x)
           /\ Takes(Int64, Num(x)) /\ Read(Int64, Num(x)) = Num(x)
           /\ Str(x).str = x /\ Num(x).num = x
           /\ Str(x) # Unset /\ Str(x) # Null /\ Num(x) # Unset
  BY DEF Takes, Read, Text, OptNilPaymentMethod, Int64, Str, Num, Unset, Null, Value

LEMMA IdentifiersAreTexts ==
    ASSUME NEW id \in OrderIds \cup Txns PROVE CanonicalText(id) /\ Canonical(id) = id
  BY UuidAssumption, TextsAssumption DEF CanonicalText, Canonical, Parses

\* The body of a response or a request as one side encodes it.
LEMMA EncodedBody ==
    ASSUME NEW schema, NEW message, IsSchema(schema), IsMessage(schema, message)
    PROVE  /\ WellFormed(schema, Encode(schema, message))
           /\ Message(schema, Encode(schema, message)) = message
  BY EncodingsAreRead

-----------------------------------------------------------------------------
(* Requests: what the client sends and what the server decodes.            *)

\* The shield and the weapon, if any.
LEMMA PartsAreRead ==
    ASSUME NEW id, id # None => CanonicalText(id)
    PROVE  /\ \/ OptionalUuid(id) = Unset
              \/ /\ OptionalUuid(id) # Unset /\ Takes(OptNilUUID, OptionalUuid(id))
                 /\ Read(OptNilUUID, OptionalUuid(id)) = OptionalUuid(id)
           /\ PartOf(OptionalUuid(id)) = id
  BY TextsAreRead, AbsentIsRead

\* The bodies the client writes.
CreateMessage(ship) ==
    [hull_uuid |-> Str(ship.hull), engine_uuid |-> Str(ship.engine),
     shield_uuid |-> OptionalUuid(ship.shield), weapon_uuid |-> OptionalUuid(ship.weapon)]
PayMessage(method) == [payment_method |-> Str(method)]

LEMMA CreateIsServed ==
    ASSUME NEW q \in Inputs, q.op = "create" PROVE Serve(Sent(q)) = Through(q)
  <1>. DEFINE ship == q.parts
              schema == CreateOrderRequest
              m == CreateMessage(ship)
              doc == Encode(schema, m)
              w == SendCreate(q)
  <1>1. /\ CanonicalText(ship.hull) /\ CanonicalText(ship.engine)
        /\ ship.shield # None => CanonicalText(ship.shield)
        /\ ship.weapon # None => CanonicalText(ship.weapon)
    BY TextsAssumption
  <1>2. /\ q = Request(q.op, q.order, q.method, q.parts) /\ q.order = None
        /\ q.method = None /\ ship = Ship(ship.hull, ship.engine, ship.shield, ship.weapon)
    BY InputsAssumption
  <1>3. /\ Takes(Uuid, Str(ship.hull)) /\ Read(Uuid, Str(ship.hull)) = Str(ship.hull)
        /\ Takes(Uuid, Str(ship.engine)) /\ Read(Uuid, Str(ship.engine)) = Str(ship.engine)
        /\ Str(ship.hull) # Unset /\ Str(ship.engine) # Unset
        /\ Str(ship.hull).str = ship.hull /\ Str(ship.engine).str = ship.engine
    BY <1>1, TextsAreRead
  <1>4. PartOf(OptionalUuid(ship.shield)) = ship.shield
    BY <1>1, PartsAreRead
  <1>5. PartOf(OptionalUuid(ship.weapon)) = ship.weapon
    BY <1>1, PartsAreRead
  <1>6. IsMessage(schema, m)
    <2>1. DOMAIN m = NamesOf(schema) /\ m = [name \in NamesOf(schema) |-> m[name]]
      BY CreateOrderRequestIs DEF CreateMessage
    <2>2. /\ m["hull_uuid"] = Str(ship.hull) /\ m["engine_uuid"] = Str(ship.engine)
          /\ m["shield_uuid"] = OptionalUuid(ship.shield)
          /\ m["weapon_uuid"] = OptionalUuid(ship.weapon)
      BY DEF CreateMessage
    <2>3. \/ m["shield_uuid"] = Unset
          \/ /\ m["shield_uuid"] # Unset /\ Takes(OptNilUUID, m["shield_uuid"])
             /\ Read(OptNilUUID, m["shield_uuid"]) = m["shield_uuid"]
      BY <1>1, <2>2, PartsAreRead
    <2>4. \/ m["weapon_uuid"] = Unset
          \/ /\ m["weapon_uuid"] # Unset /\ Takes(OptNilUUID, m["weapon_uuid"])
             /\ Read(OptNilUUID, m["weapon_uuid"]) = m["weapon_uuid"]
      BY <1>1, <2>2, PartsAreRead
    <2>. HIDE DEF m, schema
    <2>5. ASSUME NEW name \in NamesOf(schema)
          PROVE  \/ m[name] = Unset /\ name \notin schema.required
                 \/ /\ m[name] # Unset /\ Takes(TypeOf(schema, name), m[name])
                    /\ Read(TypeOf(schema, name), m[name]) = m[name]
      <3>1. CASE name = "hull_uuid"
        BY <3>1, <1>3, <2>2, CreateOrderRequestIs DEF schema
      <3>2. CASE name = "engine_uuid"
        BY <3>2, <1>3, <2>2, CreateOrderRequestIs DEF schema
      <3>3. CASE name = "shield_uuid"
        BY <3>3, <2>3, CreateOrderRequestIs DEF schema
      <3>4. CASE name = "weapon_uuid"
        BY <3>4, <2>4, CreateOrderRequestIs DEF schema
      <3>. QED  BY <3>1, <3>2, <3>3, <3>4, CreateOrderRequestIs DEF schema
    <2>. QED  BY <2>1, <2>5 DEF IsMessage
  <1>7. WellFormed(schema, doc) /\ Message(schema, doc) = m
    BY <1>6, EncodedBody, CreateOrderRequestIs
  <1>8. ShipOf(m) = ship
    BY <1>2, <1>3, <1>4, <1>5 DEF ShipOf, CreateMessage
  <1>. HIDE DEF m, doc
  <1>9. /\ w.path = "orders" /\ w.verb = "POST" /\ w.ctype = "application/json"
        /\ w.body.kind = "object" /\ w.body.doc = doc
    BY DEF SendCreate, Wire, Object, Body, doc, m, CreateMessage
  <1>10. Sent(q) = w
    BY DEF Sent
  <1>. HIDE DEF w
  <1>11. BodyCode(w, schema) = 0
    BY <1>7, <1>9 DEF BodyCode
  <1>12. HandleCreate(w) = Through(CreateRequest(ship))
    BY <1>7, <1>8, <1>9, <1>11 DEF HandleCreate
  <1>13. CreateRequest(ship) = q
    BY <1>2 DEF CreateRequest, Request
  <1>14. Serve(w) = HandleCreate(w)
    BY <1>9 DEF Serve, VerbOf
  <1>. QED  BY <1>10, <1>12, <1>13, <1>14
LEMMA PayIsServed ==
    ASSUME NEW q \in Inputs, q.op = "pay" PROVE Serve(Sent(q)) = Through(q)
  <1>. DEFINE schema == PayOrderRequest
              m == PayMessage(q.method)
              doc == Encode(schema, m)
              w == SendPay(q)
  <1>1. /\ q = Request(q.op, q.order, q.method, q.parts)
        /\ q.order \in OrderIds /\ q.method \in Methods /\ q.parts = None
    BY InputsAssumption
  <1>2. IsMessage(schema, m)
    <2>1. m = [name \in NamesOf(schema) |-> m[name]]
      BY PayOrderRequestIs DEF PayMessage
    <2>2. m["payment_method"] = Str(q.method)
      BY DEF PayMessage
    <2>. HIDE DEF m, schema
    <2>3. \A name \in NamesOf(schema) :
             m[name] # Unset /\ Takes(TypeOf(schema, name), m[name])
                /\ Read(TypeOf(schema, name), m[name]) = m[name]
      BY <2>2, PlainIsRead, PayOrderRequestIs DEF schema, PaymentMethod
    <2>. QED  BY <2>1, <2>3 DEF IsMessage
  <1>3. WellFormed(schema, doc) /\ Message(schema, doc) = m
    BY <1>2, EncodedBody, PayOrderRequestIs
  <1>4. m.payment_method.str = q.method
    BY PlainIsRead DEF PayMessage
  <1>. HIDE DEF m, doc
  <1>5. /\ w.path = "pay" /\ w.verb = "POST" /\ w.ctype = "application/json"
        /\ w.order = q.order /\ w.body.kind = "object" /\ w.body.doc = doc
    BY DEF SendPay, Wire, Object, Body, doc, m, PayMessage
  <1>6. Sent(q) = w
    BY DEF Sent
  <1>. HIDE DEF w
  <1>7. CanonicalText(q.order) /\ Canonical(q.order) = q.order
    BY <1>1, IdentifiersAreTexts
  <1>8. ReadsOrder(w) /\ OrderOf(w) = q.order
    BY <1>5, <1>7 DEF ReadsOrder, OrderOf, CanonicalText
  <1>9. BodyCode(w, schema) = 0
    BY <1>3, <1>5 DEF BodyCode
  <1>10. DecodePay(w) = Through(PayRequest(q.order, q.method))
    BY <1>1, <1>3, <1>4, <1>5, <1>8, <1>9 DEF DecodePay, ValidMethod
  <1>11. PayRequest(q.order, q.method) = q
    BY <1>1 DEF PayRequest, Request
  <1>12. Serve(w) = DecodePay(w)
    BY <1>5, <1>8 DEF Serve, VerbOf, HandlePay
  <1>. QED  BY <1>6, <1>10, <1>11, <1>12

LEMMA GetAndCancelAreServed ==
    ASSUME NEW q \in Inputs, q.op \in {"get", "cancel"} PROVE Serve(Sent(q)) = Through(q)
  <1>1. /\ q = Request(q.op, q.order, q.method, q.parts)
        /\ q.order \in OrderIds /\ q.method = None /\ q.parts = None
    BY InputsAssumption
  <1>2. CanonicalText(q.order) /\ Canonical(q.order) = q.order /\ Parses(q.order)
    BY <1>1, IdentifiersAreTexts DEF CanonicalText
  <1>3. CASE q.op = "get"
    <2>. DEFINE w == SendGet(q)
    <2>1. w.path = "order" /\ w.verb = "GET" /\ w.order = q.order /\ Sent(q) = w
      BY <1>3 DEF SendGet, Wire, Sent
    <2>. HIDE DEF w
    <2>2. Serve(w) = Through(GetRequest(q.order))
      BY <1>2, <2>1 DEF Serve, VerbOf, HandleGet, ReadsOrder, OrderOf
    <2>3. GetRequest(q.order) = q
      BY <1>1, <1>3 DEF GetRequest, Request
    <2>. QED  BY <2>1, <2>2, <2>3
  <1>4. CASE q.op = "cancel"
    <2>. DEFINE w == SendCancel(q)
    <2>1. w.path = "cancel" /\ w.verb = "POST" /\ w.order = q.order /\ Sent(q) = w
      BY <1>4 DEF SendCancel, Wire, Sent
    <2>. HIDE DEF w
    <2>2. Serve(w) = Through(CancelRequest(q.order))
      BY <1>2, <2>1 DEF Serve, VerbOf, HandleCancel, ReadsOrder, OrderOf
    <2>3. CancelRequest(q.order) = q
      BY <1>1, <1>4 DEF CancelRequest, Request
    <2>. QED  BY <2>1, <2>2, <2>3
  <1>. QED  BY <1>3, <1>4

\* Every request of the generated client is let through, and read as it was.
LEMMA RequestsAreServed ==
    ASSUME NEW q \in Inputs PROVE Serve(Sent(q)) = Through(q)
  <1>1. q.op \in Ops
    BY InputsAssumption
  <1>. QED  BY <1>1, CreateIsServed, PayIsServed, GetAndCancelAreServed DEF Ops

-----------------------------------------------------------------------------
(* Answers: what the server encodes and what the client decodes.           *)

\* An error of an operation is read as its status.
LEMMA ErrorIsRead ==
    ASSUME NEW code \in {404, 409, 500}, NEW bodies, code \in DOMAIN bodies,
           bodies[code] = Error
    PROVE  LET response == Json(code, ErrorBody(code)) IN
           ~IsGood(bodies, response) /\ Otherwise(bodies, response) = Status(code)
  <1>. DEFINE m == [code |-> Num(code), message |-> Str("message")]
              response == Json(code, ErrorBody(code))
  <1>1. IsMessage(Error, m)
    <2>1. m = [name \in NamesOf(Error) |-> m[name]]
      BY ErrorIs
    <2>2. m["code"] = Num(code) /\ m["message"] = Str("message")
      OBVIOUS
    <2>. HIDE DEF m
    <2>3. \A name \in NamesOf(Error) :
             m[name] # Unset /\ Takes(TypeOf(Error, name), m[name])
                /\ Read(TypeOf(Error, name), m[name]) = m[name]
      BY <2>2, PlainIsRead, ErrorIs
    <2>. QED  BY <2>1, <2>3 DEF IsMessage
  <1>2. WellFormed(Error, ErrorBody(code))
    <2>1. WellFormed(Error, Encode(Error, m))
      BY <1>1, EncodedBody, ErrorIs
    <2>. QED  BY <2>1 DEF ErrorBody
  <1>3. /\ response.code = code /\ response.ctype = "application/json"
        /\ response.doc = ErrorBody(code)
    BY DEF Json, Response
  <1>. HIDE DEF m, response
  <1>4. Expected(bodies, response) /\ ~IsGood(bodies, response)
    BY <1>2, <1>3 DEF Expected, IsGood
  <1>. QED  BY <1>3, <1>4 DEF Otherwise, response
\* A body of success is taken.
LEMMA SuccessIsGood ==
    ASSUME NEW code, NEW bodies, code \in DOMAIN bodies, bodies[code] # Error,
           NEW doc, WellFormed(bodies[code], doc)
    PROVE  IsGood(bodies, Json(code, doc)) /\ Json(code, doc).doc = doc
  BY DEF IsGood, Expected, Json, Response

LEMMA CreateIsRead ==
    ASSUME NEW told, AnswerOf("create", told)
    PROVE  ReadCreate(EncodeCreate(told)) = told
  <1>1. CASE \E code \in Errors["create"] : told = Status(code)
    <2>1. PICK code \in {404, 409} : told = Status(code)
      BY <1>1 DEF Errors
    <2>2. told.code = code
      BY <2>1 DEF Status, Reply
    <2>3. EncodeCreate(told) = Json(code, ErrorBody(code))
      BY <2>2 DEF EncodeCreate
    <2>4. code \in DOMAIN CreateBodies /\ CreateBodies[code] = Error
      BY DEF CreateBodies
    <2>. QED  BY <2>1, <2>3, <2>4, ErrorIsRead DEF ReadCreate
  <1>2. CASE told.order \in OrderIds /\ told = Reply(201, told.order, told.price, None, None)
    <2>. DEFINE schema == CreateOrderResponse
                m == [order_uuid |-> Str(told.order), total_price |-> Num(told.price)]
                doc == Encode(schema, m)
    <2>1. CanonicalText(told.order)
      BY <1>2, IdentifiersAreTexts
    <2>2. IsMessage(schema, m)
      <3>1. m = [name \in NamesOf(schema) |-> m[name]]
        BY CreateOrderResponseIs
      <3>2. m["order_uuid"] = Str(told.order) /\ m["total_price"] = Num(told.price)
        OBVIOUS
      <3>. HIDE DEF m
      <3>3. \A name \in NamesOf(schema) :
               m[name] # Unset /\ Takes(TypeOf(schema, name), m[name])
                  /\ Read(TypeOf(schema, name), m[name]) = m[name]
        BY <2>1, <3>2, TextsAreRead, PlainIsRead, CreateOrderResponseIs
      <3>. QED  BY <3>1, <3>3 DEF IsMessage
    <2>3. WellFormed(schema, doc) /\ Message(schema, doc) = m
      BY <2>2, EncodedBody, CreateOrderResponseIs
    <2>4. m.order_uuid.str = told.order /\ m.total_price.num = told.price
      BY <2>1, TextsAreRead, PlainIsRead
    <2>5. EncodeCreate(told) = Json(201, doc)
      BY <1>2 DEF EncodeCreate, Reply
    <2>. HIDE DEF m, doc
    <2>6. 201 \in DOMAIN CreateBodies /\ CreateBodies[201] = schema /\ schema # Error
      BY DEF CreateBodies, CreateOrderResponse, Error, Schema
    <2>7. IsGood(CreateBodies, Json(201, doc)) /\ Json(201, doc).doc = doc
      BY <2>3, <2>6, SuccessIsGood
    <2>8. ReadCreate(Json(201, doc)) = Reply(201, told.order, told.price, None, None)
      BY <2>3, <2>4, <2>7 DEF ReadCreate
    <2>. QED  BY <1>2, <2>5, <2>8
  <1>. QED  BY <1>1, <1>2 DEF AnswerOf

LEMMA PayIsRead ==
    ASSUME NEW told, AnswerOf("pay", told)
    PROVE  ReadPay(EncodePay(told)) = told
  <1>1. CASE \E code \in Errors["pay"] : told = Status(code)
    <2>1. PICK code \in {404, 409, 500} : told = Status(code)
      BY <1>1 DEF Errors
    <2>2. told.code = code
      BY <2>1 DEF Status, Reply
    <2>3. EncodePay(told) = Json(code, ErrorBody(code))
      BY <2>2 DEF EncodePay
    <2>4. code \in DOMAIN PayBodies /\ PayBodies[code] = Error
      BY DEF PayBodies
    <2>. QED  BY <2>1, <2>3, <2>4, ErrorIsRead DEF ReadPay
  <1>2. CASE told.txn \in Txns /\ told = Reply(200, None, None, told.txn, None)
    <2>. DEFINE schema == PayOrderResponse
                m == [transaction_uuid |-> Str(told.txn)]
                doc == Encode(schema, m)
    <2>1. CanonicalText(told.txn)
      BY <1>2, IdentifiersAreTexts
    <2>2. IsMessage(schema, m)
      <3>1. m = [name \in NamesOf(schema) |-> m[name]]
        BY PayOrderResponseIs
      <3>2. m["transaction_uuid"] = Str(told.txn)
        OBVIOUS
      <3>. HIDE DEF m
      <3>3. \A name \in NamesOf(schema) :
               m[name] # Unset /\ Takes(TypeOf(schema, name), m[name])
                  /\ Read(TypeOf(schema, name), m[name]) = m[name]
        BY <2>1, <3>2, TextsAreRead, PayOrderResponseIs
      <3>. QED  BY <3>1, <3>3 DEF IsMessage
    <2>3. WellFormed(schema, doc) /\ Message(schema, doc) = m
      BY <2>2, EncodedBody, PayOrderResponseIs
    <2>4. m.transaction_uuid.str = told.txn
      BY <2>1, TextsAreRead
    <2>5. EncodePay(told) = Json(200, doc)
      BY <1>2 DEF EncodePay, Reply
    <2>. HIDE DEF m, doc
    <2>6. 200 \in DOMAIN PayBodies /\ PayBodies[200] = schema /\ schema # Error
      BY DEF PayBodies, PayOrderResponse, Error, Schema
    <2>7. IsGood(PayBodies, Json(200, doc)) /\ Json(200, doc).doc = doc
      BY <2>3, <2>6, SuccessIsGood
    <2>8. ReadPay(Json(200, doc)) = Reply(200, None, None, told.txn, None)
      BY <2>3, <2>4, <2>7 DEF ReadPay
    <2>. QED  BY <1>2, <2>5, <2>8
  <1>. QED  BY <1>1, <1>2 DEF AnswerOf

LEMMA CancelIsRead ==
    ASSUME NEW told, AnswerOf("cancel", told)
    PROVE  ReadCancel(EncodeCancel(told)) = told
  <1>1. CASE \E code \in Errors["cancel"] : told = Status(code)
    <2>1. PICK code \in {404, 409} : told = Status(code)
      BY <1>1 DEF Errors
    <2>2. told.code = code
      BY <2>1 DEF Status, Reply
    <2>3. EncodeCancel(told) = Json(code, ErrorBody(code))
      BY <2>2 DEF EncodeCancel
    <2>4. code \in DOMAIN CancelBodies /\ CancelBodies[code] = Error
      BY DEF CancelBodies
    <2>. QED  BY <2>1, <2>3, <2>4, ErrorIsRead DEF ReadCancel
  <1>2. CASE told = Status(200)
    <2>. DEFINE schema == CancelOrderResponse
                doc == Encode(schema, <<>>)
    <2>1. IsMessage(schema, <<>>)
      <3>1. <<>> = [name \in NamesOf(schema) |-> <<>>[name]]
        BY CancelOrderResponseIs
      <3>. QED  BY <3>1, CancelOrderResponseIs DEF IsMessage
    <2>2. WellFormed(schema, doc)
      BY <2>1, EncodedBody, CancelOrderResponseIs
    <2>3. EncodeCancel(told) = Json(200, doc)
      BY <1>2 DEF EncodeCancel, Status, Reply
    <2>. HIDE DEF doc
    <2>4. 200 \in DOMAIN CancelBodies /\ CancelBodies[200] = schema
      BY DEF CancelBodies
    <2>5. schema # Error
      <3>1. schema.required # Error.required
        BY DEF CancelOrderResponse, Error, Schema
      <3>. QED  BY <3>1
    <2>6. IsGood(CancelBodies, Json(200, doc))
      BY <2>2, <2>4, <2>5, SuccessIsGood
    <2>. QED  BY <1>2, <2>3, <2>6 DEF ReadCancel
  <1>. QED  BY <1>1, <1>2 DEF AnswerOf
\* What an order is made of, and in what text.
LEMMA OrdersAreTexts ==
    ASSUME NEW order \in Order
    PROVE  /\ order = [uuid |-> order.uuid, parts |-> order.parts, price |-> order.price,
                       status |-> order.status, txn |-> order.txn, method |-> order.method]
           /\ order.parts = Ship(order.parts.hull, order.parts.engine,
                                 order.parts.shield, order.parts.weapon)
           /\ CanonicalText(order.uuid)
           /\ CanonicalText(order.parts.hull) /\ CanonicalText(order.parts.engine)
           /\ order.parts.shield # None => CanonicalText(order.parts.shield)
           /\ order.parts.weapon # None => CanonicalText(order.parts.weapon)
           /\ order.txn # None => CanonicalText(order.txn)
           /\ order.status \in Statuses /\ order.method \in Methods \cup {None}
  <1>1. /\ order.uuid \in OrderIds /\ order.parts \in Ships /\ order.status \in Statuses
        /\ order.txn \in Txns \cup {None} /\ order.method \in Methods \cup {None}
        /\ order = [uuid |-> order.uuid, parts |-> order.parts, price |-> order.price,
                    status |-> order.status, txn |-> order.txn, method |-> order.method]
    BY DEF Order
  <1>2. PICK q \in Inputs : q.op = "create" /\ order.parts = q.parts
    BY <1>1 DEF Ships
  <1>3. /\ CanonicalText(q.parts.hull) /\ CanonicalText(q.parts.engine)
        /\ q.parts.shield # None => CanonicalText(q.parts.shield)
        /\ q.parts.weapon # None => CanonicalText(q.parts.weapon)
    BY <1>2, TextsAssumption
  <1>4. q.parts = Ship(q.parts.hull, q.parts.engine, q.parts.shield, q.parts.weapon)
    BY <1>2, InputsAssumption
  <1>5. CanonicalText(order.uuid)
    BY <1>1, IdentifiersAreTexts
  <1>6. order.txn # None => CanonicalText(order.txn)
    BY <1>1, IdentifiersAreTexts
  <1>. QED  BY <1>1, <1>2, <1>3, <1>4, <1>5, <1>6

\* The body of GetOrder is a message of its type.
LEMMA OrdersAreMessages ==
    ASSUME NEW order \in Order PROVE IsMessage(OrderDto, DtoOf(order))
  <1>. DEFINE schema == OrderDto
              m == DtoOf(order)
              Sound(name) ==
                  \/ m[name] = Unset /\ name \notin schema.required
                  \/ /\ m[name] # Unset /\ Takes(TypeOf(schema, name), m[name])
                     /\ Read(TypeOf(schema, name), m[name]) = m[name]
  <1>1. m = [name \in NamesOf(schema) |-> m[name]]
    BY OrderDtoIs DEF DtoOf
  <1>2. /\ m["order_uuid"] = Str(order.uuid)
        /\ m["hull_uuid"] = Str(order.parts.hull) /\ m["engine_uuid"] = Str(order.parts.engine)
        /\ m["shield_uuid"] = OptionalUuid(order.parts.shield)
        /\ m["weapon_uuid"] = OptionalUuid(order.parts.weapon)
        /\ m["total_price"] = Num(order.price)
        /\ m["transaction_uuid"] = OptionalUuid(order.txn)
        /\ m["payment_method"] = OptionalUuid(order.method)
        /\ m["status"] = Str(order.status) /\ m["created_at"] = Str("2025-01-01T00:00:00Z")
    BY DEF DtoOf
  <1>. HIDE DEF m
  <1>3. Sound("order_uuid") /\ Sound("hull_uuid") /\ Sound("engine_uuid")
    <2>1. CanonicalText(order.uuid) /\ CanonicalText(order.parts.hull)
          /\ CanonicalText(order.parts.engine)
      BY OrdersAreTexts
    <2>. QED  BY <1>2, <2>1, TextsAreRead, OrderDtoIs
  <1>4. Sound("shield_uuid")
    <2>1. order.parts.shield # None => CanonicalText(order.parts.shield)
      BY OrdersAreTexts
    <2>. QED  BY <1>2, <2>1, PartsAreRead, OrderDtoIs
  <1>5. Sound("weapon_uuid")
    <2>1. order.parts.weapon # None => CanonicalText(order.parts.weapon)
      BY OrdersAreTexts
    <2>. QED  BY <1>2, <2>1, PartsAreRead, OrderDtoIs
  <1>6. Sound("transaction_uuid")
    <2>1. order.txn # None => CanonicalText(order.txn)
      BY OrdersAreTexts
    <2>. QED  BY <1>2, <2>1, PartsAreRead, OrderDtoIs
  <1>7. Sound("payment_method")
    BY <1>2, PlainIsRead, OrderDtoIs DEF OptionalUuid
  <1>8. Sound("total_price") /\ Sound("status")
    BY <1>2, PlainIsRead, OrderDtoIs DEF OrderStatus
  <1>9. Sound("created_at")
    <2>1. /\ Takes(DateTime, Str("2025-01-01T00:00:00Z"))
          /\ Read(DateTime, Str("2025-01-01T00:00:00Z")) = Str("2025-01-01T00:00:00Z")
      BY DEF Takes, Read, DateTime, Instants, Str, Value
    <2>. QED  BY <1>2, <2>1, PlainIsRead, OrderDtoIs
  <1>. HIDE DEF Sound
  <1>10. \A name \in NamesOf(schema) : Sound(name)
    BY <1>3, <1>4, <1>5, <1>6, <1>7, <1>8, <1>9, OrderDtoIs
  <1>. QED  BY <1>1, <1>10 DEF IsMessage, Sound, m

\* An order is shown member for member as it is stored.
LEMMA OrdersAreShown ==
    ASSUME NEW order \in Order
    PROVE  ReadGet(EncodeGet(Shown(order))) = Shown(order)
  <1>. DEFINE schema == OrderDto
              m == DtoOf(order)
              doc == Encode(schema, m)
  <1>1. WellFormed(schema, doc) /\ Message(schema, doc) = m
    BY OrdersAreMessages, EncodedBody, OrderDtoIs
  <1>2. EncodeGet(Shown(order)) = Json(200, doc)
    BY DEF EncodeGet, Shown, Reply
  <1>3. /\ m.order_uuid.str = order.uuid /\ m.hull_uuid.str = order.parts.hull
        /\ m.engine_uuid.str = order.parts.engine /\ m.total_price.num = order.price
        /\ m.status.str = order.status
    BY PlainIsRead DEF DtoOf
  <1>4. /\ m.shield_uuid = OptionalUuid(order.parts.shield)
        /\ m.weapon_uuid = OptionalUuid(order.parts.weapon)
        /\ m.transaction_uuid = OptionalUuid(order.txn)
        /\ m.payment_method = OptionalUuid(order.method)
    BY DEF DtoOf
  <1>. HIDE DEF m, doc
  <1>5. PartOf(m.shield_uuid) = order.parts.shield
    <2>1. order.parts.shield # None => CanonicalText(order.parts.shield)
      BY OrdersAreTexts
    <2>. QED  BY <1>4, <2>1, PartsAreRead
  <1>6. PartOf(m.weapon_uuid) = order.parts.weapon
    <2>1. order.parts.weapon # None => CanonicalText(order.parts.weapon)
      BY OrdersAreTexts
    <2>. QED  BY <1>4, <2>1, PartsAreRead
  <1>7. PartOf(m.transaction_uuid) = order.txn
    <2>1. order.txn # None => CanonicalText(order.txn)
      BY OrdersAreTexts
    <2>. QED  BY <1>4, <2>1, PartsAreRead
  <1>8. /\ PartOf(m.payment_method) = order.method
        /\ m.payment_method \notin {Unset, Null} => m.payment_method.str = order.method
    BY <1>4, PlainIsRead DEF PartOf, OptionalUuid
  <1>9. order.method # None => order.method \in Methods
    BY OrdersAreTexts
  <1>10. ValidDto(m)
    <2>1. m.payment_method \notin {Unset, Null} => order.method # None
      BY <1>4 DEF OptionalUuid
    <2>2. order.status \in Statuses
      BY OrdersAreTexts
    <2>. QED  BY <1>3, <1>8, <1>9, <2>1, <2>2 DEF ValidDto
  <1>11. ShipOf(m) = order.parts
    <2>1. order.parts = Ship(order.parts.hull, order.parts.engine,
                             order.parts.shield, order.parts.weapon)
      BY OrdersAreTexts
    <2>. QED  BY <1>3, <1>5, <1>6, <2>1 DEF ShipOf
  <1>12. OrderOfDto(m) = order
    <2>1. order = [uuid |-> order.uuid, parts |-> order.parts, price |-> order.price,
                   status |-> order.status, txn |-> order.txn, method |-> order.method]
      BY OrdersAreTexts
    <2>. QED  BY <1>3, <1>7, <1>8, <1>11, <2>1 DEF OrderOfDto
  <1>13. 200 \in DOMAIN GetBodies /\ GetBodies[200] = schema
    BY DEF GetBodies
  <1>14. schema # Error
    <2>1. "code" \in Error.required /\ "code" \notin schema.required
      BY OrderDtoIs, ErrorIs
    <2>. QED  BY <2>1
  <1>15. IsGood(GetBodies, Json(200, doc)) /\ Json(200, doc).doc = doc
    BY <1>1, <1>13, <1>14, SuccessIsGood
  <1>. QED  BY <1>1, <1>2, <1>10, <1>12, <1>15 DEF ReadGet, Shown

LEMMA GetIsRead ==
    ASSUME NEW told, AnswerOf("get", told)
    PROVE  ReadGet(EncodeGet(told)) = told
  <1>1. CASE \E code \in Errors["get"] : told = Status(code)
    <2>1. told = Status(404)
      BY <1>1 DEF Errors
    <2>2. told.code = 404
      BY <2>1 DEF Status, Reply
    <2>3. EncodeGet(told) = Json(404, ErrorBody(404))
      BY <2>2 DEF EncodeGet
    <2>4. 404 \in DOMAIN GetBodies /\ GetBodies[404] = Error
      BY DEF GetBodies
    <2>. QED  BY <2>1, <2>3, <2>4, ErrorIsRead DEF ReadGet
  <1>2. CASE told.view \in Order /\ told = Shown(told.view)
    BY <1>2, OrdersAreShown
  <1>. QED  BY <1>1, <1>2 DEF AnswerOf, Shown
-----------------------------------------------------------------------------
(* Requests and answers on one connection.                                 *)

\* The operation of each path.
OpOf == [orders |-> "create", order |-> "get", pay |-> "pay", cancel |-> "cancel"]

\* Where a request leads.
LEMMA Served ==
    ASSUME NEW w \in Wires
    PROVE  /\ Serve(w).code \in {0, 204, 400, 404, 405, 415}
           /\ Serve(w).code = 404 => w.path = "elsewhere"
           /\ Serve(w).code = 0 =>
                 /\ w.path # "elsewhere"
                 /\ Serve(w).q.op = OpOf[w.path]
                 /\ Serve(w).q \in Inputs
  <1>1. w.path \in Paths
    BY WiresAssumption
  <1>2. \A schema : BodyCode(w, schema) \in {0, 400, 415}
    BY DEF BodyCode
  <1>3. /\ \A code : Refused(code).code = code
        /\ \A q : Through(q).code = 0 /\ Through(q).q = q
    BY DEF Refused, Through
  <1>4. CASE w.path = "elsewhere"
    BY <1>3, <1>4 DEF Serve
  <1>5. CASE w.path # "elsewhere" /\ w.verb # VerbOf[w.path]
    <2>1. Serve(w) = Refused(IF w.verb = "OPTIONS" THEN 204 ELSE 405)
      BY <1>1, <1>5 DEF Serve
    <2>. QED  BY <1>3, <2>1
  <1>6. CASE w.path = "orders" /\ w.verb = VerbOf[w.path]
    <2>1. Serve(w) = HandleCreate(w)
      BY <1>6 DEF Serve
    <2>2. CASE BodyCode(w, CreateOrderRequest) # 0
      <3>1. Serve(w) = Refused(BodyCode(w, CreateOrderRequest))
        BY <2>1, <2>2 DEF HandleCreate
      <3>. QED  BY <1>2, <1>3, <2>2, <3>1
    <2>3. CASE BodyCode(w, CreateOrderRequest) = 0
      <3>. DEFINE q == CreateRequest(ShipOf(Message(CreateOrderRequest, w.body.doc)))
      <3>1. Serve(w) = Through(q)
        BY <2>1, <2>3 DEF HandleCreate
      <3>2. q \in Inputs
        BY <1>6, <2>3, AskedAssumption DEF ShipOf
      <3>3. q.op = "create"
        BY DEF CreateRequest, Request
      <3>. HIDE DEF q
      <3>. QED  BY <1>3, <1>6, <3>1, <3>2, <3>3 DEF OpOf
    <2>. QED  BY <2>2, <2>3
  <1>7. CASE w.path = "order" /\ w.verb = VerbOf[w.path]
    <2>1. Serve(w) = HandleGet(w)
      BY <1>7 DEF Serve
    <2>2. GetRequest(OrderOf(w)).op = "get"
      BY DEF GetRequest, Request
    <2>. QED  BY <1>3, <1>7, <2>1, <2>2, AskedAssumption DEF HandleGet, OpOf
  <1>8. CASE w.path = "cancel" /\ w.verb = VerbOf[w.path]
    <2>1. Serve(w) = HandleCancel(w)
      BY <1>8 DEF Serve
    <2>2. CancelRequest(OrderOf(w)).op = "cancel"
      BY DEF CancelRequest, Request
    <2>. QED  BY <1>3, <1>8, <2>1, <2>2, AskedAssumption DEF HandleCancel, OpOf
  <1>9. CASE w.path = "pay" /\ w.verb = VerbOf[w.path]
    <2>. DEFINE method == Message(PayOrderRequest, w.body.doc).payment_method.str
    <2>1. Serve(w) = HandlePay(w)
      BY <1>9 DEF Serve
    <2>2. CASE ~ReadsOrder(w)
      BY <1>3, <2>1, <2>2 DEF HandlePay
    <2>3. CASE ReadsOrder(w) /\ BodyCode(w, PayOrderRequest) # 0
      <3>1. Serve(w) = Refused(BodyCode(w, PayOrderRequest))
        BY <2>1, <2>3 DEF HandlePay, DecodePay
      <3>. QED  BY <1>2, <1>3, <2>3, <3>1
    <2>4. CASE ReadsOrder(w) /\ BodyCode(w, PayOrderRequest) = 0 /\ method \notin Methods
      BY <1>3, <2>1, <2>4 DEF HandlePay, DecodePay, ValidMethod
    <2>5. CASE ReadsOrder(w) /\ BodyCode(w, PayOrderRequest) = 0 /\ method \in Methods
      <3>1. Serve(w) = Through(PayRequest(OrderOf(w), method))
        BY <2>1, <2>5 DEF HandlePay, DecodePay, ValidMethod
      <3>2. PayRequest(OrderOf(w), method) \in Inputs
        BY <1>9, <2>5, AskedAssumption
      <3>3. PayRequest(OrderOf(w), method).op = "pay"
        BY DEF PayRequest, Request
      <3>. QED  BY <1>3, <1>9, <3>1, <3>2, <3>3 DEF OpOf
    <2>. QED  BY <2>2, <2>3, <2>4, <2>5
  <1>. QED  BY <1>1, <1>4, <1>5, <1>6, <1>7, <1>8, <1>9 DEF Paths

\* What a handler answers its own client reads, as it was.
LEMMA AnswersAreRead ==
    ASSUME NEW w \in Wires, LetsThrough(w), NEW told, AnswerOf(Serve(w).q.op, told)
    PROVE  LET response == EncodeReply(Serve(w).q.op, told) IN
           /\ ReadAnswer(w.path, response) = told
           /\ response # Closed /\ response.code = told.code
  <1>. DEFINE op == Serve(w).q.op
              response == EncodeReply(op, told)
  <1>1. w.path \in {"orders", "order", "pay", "cancel"} /\ op = OpOf[w.path]
    BY Served, WiresAssumption DEF LetsThrough, Paths
  <1>2. AnswerOf(op, told)
    OBVIOUS
  <1>3. \A doc : /\ Json(told.code, doc) # Closed
                 /\ Json(told.code, doc).code = told.code
    BY DEF Json, Response, Closed
  <1>. HIDE DEF op
  <1>4. CASE w.path = "orders"
    <2>1. op = "create" /\ response = EncodeCreate(told)
      BY <1>1, <1>4 DEF OpOf, EncodeReply
    <2>2. ReadAnswer(w.path, response) = told
      BY <1>2, <1>4, <2>1, CreateIsRead DEF ReadAnswer
    <2>. QED  BY <1>3, <2>1, <2>2 DEF EncodeCreate, op
  <1>5. CASE w.path = "order"
    <2>1. op = "get" /\ response = EncodeGet(told)
      BY <1>1, <1>5 DEF OpOf, EncodeReply
    <2>2. ReadAnswer(w.path, response) = told
      BY <1>2, <1>5, <2>1, GetIsRead DEF ReadAnswer
    <2>. QED  BY <1>3, <2>1, <2>2 DEF EncodeGet, op
  <1>6. CASE w.path = "pay"
    <2>1. op = "pay" /\ response = EncodePay(told)
      BY <1>1, <1>6 DEF OpOf, EncodeReply
    <2>2. ReadAnswer(w.path, response) = told
      BY <1>2, <1>6, <2>1, PayIsRead DEF ReadAnswer
    <2>. QED  BY <1>3, <2>1, <2>2 DEF EncodePay, op
  <1>7. CASE w.path = "cancel"
    <2>1. op = "cancel" /\ response = EncodeCancel(told)
      BY <1>1, <1>7 DEF OpOf, EncodeReply
    <2>2. ReadAnswer(w.path, response) = told
      BY <1>2, <1>7, <2>1, CancelIsRead DEF ReadAnswer
    <2>. QED  BY <1>3, <2>1, <2>2 DEF EncodeCancel, op
  <1>. QED  BY <1>1, <1>4, <1>5, <1>6, <1>7

\* What the client cannot expect it cannot read.
LEMMA UnexpectedIsNotRead ==
    ASSUME NEW path, path \in Paths, NEW response,
           \/ path = "elsewhere"
           \/ \A bodies \in {CreateBodies, GetBodies, PayBodies, CancelBodies} :
                 ~Expected(bodies, response)
    PROVE  ReadAnswer(path, response) = None
  <1>1. CASE path = "elsewhere"
    BY <1>1 DEF ReadAnswer
  <1>2. CASE path # "elsewhere"
    <2>1. \A bodies \in {CreateBodies, GetBodies, PayBodies, CancelBodies} :
             ~IsGood(bodies, response) /\ Otherwise(bodies, response) = None
      BY <1>2 DEF IsGood, Otherwise
    <2>2. ReadCreate(response) = None
      BY <2>1 DEF ReadCreate
    <2>3. ReadGet(response) = None
      BY <2>1 DEF ReadGet
    <2>4. ReadPay(response) = None
      BY <2>1 DEF ReadPay
    <2>5. ReadCancel(response) = None
      BY <2>1 DEF ReadCancel
    <2>. QED  BY <1>2, <2>2, <2>3, <2>4, <2>5 DEF ReadAnswer, Paths
  <1>. QED  BY <1>1, <1>2

\* The answer of ogen's error handler is none of the description's.
LEMMA ErrorHandlerIsNotRead ==
    ASSUME NEW path \in Paths, NEW code \in {400, 415}
    PROVE  ReadAnswer(path, HandleError(code)) = None
  <1>. DEFINE doc == <<Member("error_message", Str("decode"))>>
              response == HandleError(code)
  <1>1. response.code = code /\ response.doc = doc
    BY DEF HandleError, Json, Response
  <1>2. ~WellFormed(Error, doc)
    <2>1. Places(doc, "code") = {}
      BY DEF Places, Member
    <2>2. "code" \in Error.required
      BY ErrorIs
    <2>. HIDE DEF doc
    <2>. QED  BY <2>1, <2>2 DEF WellFormed
  <1>. HIDE DEF doc, response
  <1>3. ASSUME NEW bodies \in {CreateBodies, GetBodies, PayBodies, CancelBodies},
               Expected(bodies, response)
        PROVE  FALSE
    <2>1. code \in DOMAIN bodies /\ WellFormed(bodies[code], doc)
      BY <1>1, <1>3 DEF Expected
    <2>2. code \in DOMAIN bodies => bodies[code] = Error
      BY DEF CreateBodies, GetBodies, PayBodies, CancelBodies
    <2>. QED  BY <1>2, <2>1, <2>2
  <1>4. ReadAnswer(path, response) = None
    BY <1>3, UnexpectedIsNotRead
  <1>. QED  BY <1>4 DEF response

\* A refusal tells the client nothing but that it is one.
LEMMA RefusalsAreNotRead ==
    ASSUME NEW w \in Wires, ~LetsThrough(w)
    PROVE  /\ ReadAnswer(w.path, Refusal(w)) = None
           /\ Refusal(w).code \in {204, 400, 404, 405, 415}
  <1>. DEFINE code == Serve(w).code
  <1>1. w.path \in Paths /\ code \in {204, 400, 404, 405, 415}
        /\ (code = 404 => w.path = "elsewhere")
    BY Served, WiresAssumption DEF LetsThrough
  <1>2. CASE w.path = "elsewhere"
    <2>1. Refusal(w) = Response(404, "text/plain", <<>>)
      <3>1. Serve(w).code = 404
        BY <1>2 DEF Serve, Refused
      <3>. QED  BY <1>2, <3>1 DEF Refusal
    <2>. QED  BY <1>1, <1>2, <2>1, UnexpectedIsNotRead DEF Response
  <1>3. CASE w.path # "elsewhere" /\ code \in {204, 405}
    <2>1. Refusal(w) = Response(code, "none", <<>>)
      BY <1>3 DEF Refusal
    <2>2. Refusal(w).ctype = "none" /\ Refusal(w).code = code
      BY <2>1 DEF Response
    <2>3. \A bodies \in {CreateBodies, GetBodies, PayBodies, CancelBodies} :
             ~Expected(bodies, Refusal(w))
      BY <2>2 DEF Expected
    <2>. QED  BY <1>1, <1>3, <2>2, <2>3, UnexpectedIsNotRead
  <1>4. CASE w.path # "elsewhere" /\ code \in {400, 415}
    <2>1. Refusal(w) = HandleError(code)
      BY <1>4 DEF Refusal
    <2>2. HandleError(code).code = code
      BY DEF HandleError, Json, Response
    <2>3. ReadAnswer(w.path, HandleError(code)) = None
      BY <1>1, <1>4, ErrorHandlerIsNotRead
    <2>. QED  BY <1>4, <2>1, <2>2, <2>3
  <1>. QED  BY <1>1, <1>2, <1>3, <1>4
-----------------------------------------------------------------------------
(* The handlers run as RocketLab has them.                                 *)

LEMMA StepsRefine ==
    ASSUME [HttpNext]_everything
    PROVE  [Next]_allVars
  <1>. USE DEF Next, OrderNext
  <1>1. ASSUME NEW r \in Requests, NEW w \in Wires, Send(r, w)
        PROVE  [Next]_allVars
    <2>1. CASE LetsThrough(w)
      <3>1. Serve(w).q \in Inputs
        BY <2>1, Served DEF LetsThrough
      <3>2. Arrive(r, Serve(w).q) /\ UNCHANGED ledger
        BY <1>1, <2>1 DEF Send
      <3>. QED  BY <3>1, <3>2
    <2>2. CASE ~LetsThrough(w)
      BY <1>1, <2>2 DEF Send
    <2>. QED  BY <2>1, <2>2
  <1>2. ASSUME NEW r \in Requests,
               \/ \E w \in Wires : SendInVain(r, w)
               \/ Refuse(r) \/ Respond(r) \/ Receive(r) \/ Lose(r)
        PROVE  UNCHANGED allVars
    BY <1>2 DEF SendInVain, Refuse, Respond, Receive, Lose
  <1>3. ASSUME NEW r \in Requests, NotRead(r)
        PROVE  [Next]_allVars
    BY <1>3 DEF NotRead, HandlerStep
  <1>4. ASSUME NEW r \in Requests, Work(r)
        PROVE  [Next]_allVars
    BY <1>4 DEF Work
  <1>5. ASSUME ProcessGoesOn \/ ProcessGoes
        PROVE  [Next]_allVars
    BY <1>5 DEF ProcessGoesOn, ProcessGoes, ProcessStep
  <1>6. CASE UNCHANGED everything
    BY <1>6 DEF everything
  <1>. QED  BY <1>1, <1>2, <1>3, <1>4, <1>5, <1>6 DEF HttpNext

\* Over HTTP the services take the steps RocketLab allows and no other: what
\* routing, decoding and validation let through is an input of the handlers,
\* and every way a connection can end is one RocketLab knows
\* (oas_validators_gen.go:64-85, oas_request_decoders_gen.go:150-160).
THEOREM ServesAsRocketLab == HttpSpec => ServesAsModelled
  <1>1. HttpInit => Init
    BY DEF HttpInit
  <1>2. [HttpNext]_everything => [Next]_allVars
    BY StepsRefine
  <1>. QED  BY <1>1, <1>2, PTL DEF HttpSpec, ServesAsModelled, Spec

-----------------------------------------------------------------------------
(* The connections.                                                        *)

\* What a step of a handler does to its own request, and to no other.
LEMMA HandlerMoves ==
    ASSUME IInv, TypeOK', NEW r \in Requests, HandlerStep(r)
    PROVE  /\ InFlight(r) /\ pc'[r] # "idle" /\ UNCHANGED req
           /\ \A q \in Requests \ {r} :
                 pc'[q] = pc[q] /\ rpc'[q] = rpc[q] /\ reply'[q] = reply[q]
           /\ pc'[r] = "done" => /\ reply'[r] \in Replies
                                 /\ AnswerOf(req[r].op, reply'[r]) /\ TellsItsCall(r)'
  <1>1. /\ pc \in [Requests -> Stages] /\ req \in [Requests -> Inputs \cup {NoRequest}]
        /\ rpc \in [Requests -> Calls] /\ reply \in [Requests -> Replies]
        /\ orders \in [OrderIds -> Order \cup {None}]
        /\ reply' \in [Requests -> Replies]
    BY DEF IInv, TypeOK
  <1>. USE DEF At, InFlight, Goto
  <1>2. CASE Abandon(r) \/ CreateCall(r) \/ PayCall(r) \/ CancelRead(r)
    BY <1>1, <1>2 DEF Abandon, CreateCall, PayCall, CancelRead
  <1>3. ASSUME InFlight(r), UNCHANGED <<req, rpc>>, NEW answer, Return(r, answer),
               AnswerOf(req[r].op, answer),
               req[r].op = "pay" /\ answer.code = 200 =>
                  rpc[r].state = "ok" /\ rpc[r].txn = answer.txn
        PROVE  /\ pc'[r] # "idle"
               /\ \A q \in Requests \ {r} :
                     pc'[q] = pc[q] /\ rpc'[q] = rpc[q] /\ reply'[q] = reply[q]
               /\ reply'[r] \in Replies /\ AnswerOf(req[r].op, reply'[r])
               /\ TellsItsCall(r)'
    BY <1>1, <1>3 DEF Return, TellsItsCall
  <1>. DEFINE Answers(answer) == Return(r, answer) /\ AnswerOf(req[r].op, answer)
  <1>4. \A code : Status(code).code = code
    BY DEF Status, Reply
  <1>5. CASE GetOrder(r)
    <2>. DEFINE order == orders[req[r].order]
    <2>1. req[r].op = "get" /\ InFlight(r) /\ UNCHANGED <<req, rpc>>
      BY <1>5 DEF GetOrder
    <2>2. order \in Order \cup {None}
      BY <1>1, <2>1, RequestsAreInputs DEF IInv, Ops
    <2>3. CASE order = None
      <3>1. Answers(Status(404))
        BY <1>5, <2>1, <2>3 DEF GetOrder, AnswerOf, Errors
      <3>. QED  BY <1>3, <2>1, <3>1
    <2>4. CASE order # None
      <3>1. Answers(Reply(200, None, None, None, order))
        BY <1>5, <2>1, <2>2, <2>4 DEF GetOrder, AnswerOf, Reply
      <3>. QED  BY <1>3, <2>1, <3>1
    <2>. QED  BY <2>3, <2>4
  <1>6. CASE CreateFail(r) \/ CreateConflict(r)
    <2>1. \E code \in {404, 409} : Return(r, Status(code))
      BY <1>6 DEF CreateFail, CreateConflict
    <2>2. req[r].op = "create" /\ InFlight(r) /\ UNCHANGED <<req, rpc>>
      BY <1>6 DEF CreateFail, CreateConflict
    <2>3. PICK code \in {404, 409} : Answers(Status(code))
      BY <2>1, <2>2 DEF AnswerOf, Errors
    <2>. QED  BY <1>3, <2>2, <2>3
  <1>7. CASE \E o \in OrderIds : CreateStore(r, o)
    <2>1. PICK o \in OrderIds : CreateStore(r, o)
      BY <1>7
    <2>. DEFINE answer == Reply(201, o, TotalPrice(req[r].parts), None, None)
    <2>2. req[r].op = "create" /\ InFlight(r) /\ UNCHANGED <<req, rpc>>
      BY <2>1 DEF CreateStore
    <2>3. Return(r, answer)
      BY <2>1 DEF CreateStore
    <2>4. answer.order = o /\ answer = Reply(201, answer.order, answer.price, None, None)
      BY DEF Reply
    <2>. HIDE DEF answer
    <2>5. Answers(answer)
      BY <2>2, <2>3, <2>4 DEF AnswerOf
    <2>. QED  BY <1>3, <2>2, <2>5
  <1>8. CASE \E op \in {"pay", "cancel"} : Refuse404(r, op) \/ Refuse409(r, op)
    <2>1. /\ req[r].op \in {"pay", "cancel"} /\ InFlight(r) /\ UNCHANGED <<req, rpc>>
          /\ \E code \in {404, 409} : Return(r, Status(code))
      BY <1>8 DEF Refuse404, Refuse409
    <2>2. PICK code \in {404, 409} : Answers(Status(code))
      BY <2>1 DEF AnswerOf, Errors
    <2>. QED  BY <1>3, <1>4, <2>1, <2>2
  <1>9. CASE PayFail(r)
    <2>1. req[r].op = "pay" /\ InFlight(r) /\ UNCHANGED <<req, rpc>>
      BY <1>9 DEF PayFail
    <2>2. Answers(Status(500))
      BY <1>9, <2>1 DEF PayFail, AnswerOf, Errors
    <2>. QED  BY <1>3, <1>4, <2>1, <2>2
  <1>10. CASE PayCommit(r)
    <2>. DEFINE answer == Reply(200, None, None, rpc[r].txn, None)
    <2>1. /\ req[r].op = "pay" /\ InFlight(r) /\ UNCHANGED <<req, rpc>>
          /\ Return(r, answer) /\ rpc[r].state = "ok"
      BY <1>10 DEF PayCommit
    <2>2. rpc[r].txn \in Txns
      BY <1>1, <2>1 DEF IInv, CallsAreTracked, CallIsTracked, Calls
    <2>3. answer.txn = rpc[r].txn
      BY DEF Reply
    <2>4. answer = Reply(200, None, None, answer.txn, None)
      BY <2>3
    <2>. HIDE DEF answer
    <2>5. Answers(answer)
      BY <2>1, <2>2, <2>3, <2>4 DEF AnswerOf
    <2>6. rpc[r].state = "ok" /\ answer.txn = rpc[r].txn
      BY <2>1, <2>3
    <2>. QED  BY <1>3, <2>1, <2>5, <2>6
  <1>11. CASE CancelWrite(r)
    <2>1. req[r].op = "cancel" /\ InFlight(r) /\ UNCHANGED <<req, rpc>>
      BY <1>11 DEF CancelWrite
    <2>2. Answers(Status(200))
      BY <1>11, <2>1 DEF CancelWrite, AnswerOf
    <2>. QED  BY <1>3, <2>1, <2>2
  <1>. QED
    BY <1>2, <1>5, <1>6, <1>7, <1>8, <1>9, <1>10, <1>11 DEF HandlerStep

\* The two ends of the connection of r and the handler between them.
Connection(r) ==
    /\ NothingUnasked(r) /\ HandlesWhatWasSent(r)
    /\ AnswersItsOperation(r) /\ Came(r) /\ Understood(r)

\* A handler that has not taken up its request has called and said nothing.
LEMMA EarlyIsUntouched ==
    ASSUME IInv, SaidInv, NEW r \in Requests, pc[r] \in {"idle", "accepted"}
    PROVE  Untouched(r)
  <1>1. rpc[r].state = "none" /\ rpc[r].txn = None /\ rpc[r] \in Calls
    BY DEF IInv, TypeOK, CallsAreTracked, CallIsTracked
  <1>2. rpc[r] = NoCall
    BY <1>1 DEF Calls, NoCall
  <1>3. reply[r] = NoReply
    BY DEF SaidInv, NothingSaidYet
  <1>. QED  BY <1>2, <1>3 DEF Untouched

LEMMA InitHttpInv == HttpInit => HttpInv
  BY DEF HttpInit, Init, OrderInit, HttpInv, NothingUnasked, HandlesWhatWasSent,
         AnswersItsOperation, Came, Understood

\* A request that a step does not touch.
LEMMA ConnectionStays ==
    ASSUME NEW r \in Requests, Connection(r),
           wire'[r] = wire[r], resp'[r] = resp[r], got'[r] = got[r], pc'[r] = pc[r],
           req'[r] = req[r], reply'[r] = reply[r], rpc'[r] = rpc[r]
    PROVE  Connection(r)'
  BY DEF Connection, NothingUnasked, HandlesWhatWasSent, AnswersItsOperation,
         TellsItsCall, Came, Understood, Untouched, LetsThrough

\* The functions of the state, as the proofs use them.
HttpFunctions ==
    /\ pc \in [Requests -> Stages] /\ req \in [Requests -> Inputs \cup {NoRequest}]
    /\ rpc \in [Requests -> Calls] /\ reply \in [Requests -> Replies]
    /\ DOMAIN resp = Requests /\ DOMAIN got = Requests
    /\ wire \in [Requests -> Wires \cup {NoWire}]

LEMMA NoWireIsNone == NoWire \notin Wires
  BY WiresAssumption DEF NoWire, Wire

LEMMA SendConnects ==
    ASSUME IInv, SaidInv, HttpInv, NEW r \in Requests, NEW w \in Wires, Send(r, w)
    PROVE  HttpInv'
  <1>1. HttpFunctions /\ \A q \in Requests : Connection(q)
    BY DEF HttpFunctions, IInv, TypeOK, HttpInv, Connection
  <1>2. /\ wire[r] = NoWire /\ wire' = [wire EXCEPT ![r] = w]
        /\ UNCHANGED <<resp, got, rpc, reply>>
    BY DEF Send, Arrive, allVars, vars
  <1>3. pc[r] = "idle" /\ resp[r] = NoResponse /\ got[r] = Waiting
    BY <1>1, <1>2 DEF Connection, NothingUnasked
  <1>4. /\ \A q \in Requests \ {r} : pc'[q] = pc[q] /\ req'[q] = req[q]
        /\ LetsThrough(w) => pc'[r] = "accepted" /\ req'[r] = Serve(w).q
        /\ ~LetsThrough(w) => pc'[r] = "idle"
    BY <1>1, <1>3 DEF HttpFunctions, Send, Arrive, Goto, allVars, vars
  <1>5. wire'[r] = w /\ w # NoWire /\ \A q \in Requests \ {r} : wire'[q] = wire[q]
    BY <1>1, <1>2, NoWireIsNone DEF HttpFunctions
  <1>6. Connection(r)'
    BY <1>2, <1>3, <1>4, <1>5
    DEF Connection, NothingUnasked, HandlesWhatWasSent, AnswersItsOperation, Came,
        Understood, LetsThrough
  <1>7. \A q \in Requests \ {r} : Connection(q)'
    BY <1>1, <1>2, <1>4, <1>5, ConnectionStays
  <1>8. /\ wire' \in [Requests -> Wires \cup {NoWire}]
        /\ DOMAIN resp' = Requests /\ DOMAIN got' = Requests
    BY <1>1, <1>2 DEF HttpFunctions
  <1>. QED  BY <1>6, <1>7, <1>8 DEF HttpInv, Connection

LEMMA SendInVainConnects ==
    ASSUME IInv, SaidInv, HttpInv, NEW r \in Requests, NEW w \in Wires, SendInVain(r, w)
    PROVE  HttpInv'
  <1>1. HttpFunctions /\ \A q \in Requests : Connection(q)
    BY DEF HttpFunctions, IInv, TypeOK, HttpInv, Connection
  <1>2. /\ wire[r] = NoWire /\ wire' = [wire EXCEPT ![r] = w]
        /\ resp' = [resp EXCEPT ![r] = Closed]
        /\ UNCHANGED <<pc, req, rpc, reply, got>>
    BY DEF SendInVain, allVars, vars
  <1>3. pc[r] = "idle" /\ got[r] = Waiting
    BY <1>1, <1>2 DEF Connection, NothingUnasked
  <1>4. /\ wire'[r] = w /\ w # NoWire /\ resp'[r] = Closed
        /\ \A q \in Requests \ {r} : wire'[q] = wire[q] /\ resp'[q] = resp[q]
    BY <1>1, <1>2, NoWireIsNone DEF HttpFunctions
  <1>5. Connection(r)'
    BY <1>2, <1>3, <1>4
    DEF Connection, NothingUnasked, HandlesWhatWasSent, AnswersItsOperation, Came,
        Understood
  <1>6. \A q \in Requests \ {r} : Connection(q)'
    BY <1>1, <1>2, <1>4, ConnectionStays
  <1>7. /\ wire' \in [Requests -> Wires \cup {NoWire}]
        /\ DOMAIN resp' = Requests /\ DOMAIN got' = Requests
    BY <1>1, <1>2 DEF HttpFunctions
  <1>. QED  BY <1>5, <1>6, <1>7 DEF HttpInv, Connection

\* A response that is put on the connection.
LEMMA ResponseConnects ==
    ASSUME IInv, HttpInv, NEW r \in Requests, NEW response,
           resp' = [resp EXCEPT ![r] = response], wire[r] # NoWire,
           UNCHANGED <<wire, req, rpc, reply, got>>,
           pc' \in [Requests -> Stages], \A q \in Requests \ {r} : pc'[q] = pc[q],
           pc'[r] = pc[r] \/ (pc[r] = "accepted" /\ pc'[r] = "dead"),
           \/ response = Closed
           \/ ~LetsThrough(wire[r]) /\ response = Refusal(wire[r])
           \/ pc'[r] = "dead" /\ Untouched(r) /\ response = HandleError(400)
           \/ pc'[r] = "done" /\ response = EncodeReply(req[r].op, reply[r])
    PROVE  HttpInv'
  <1>1. HttpFunctions /\ \A q \in Requests : Connection(q)
    BY DEF HttpFunctions, IInv, TypeOK, HttpInv, Connection
  <1>2. /\ resp'[r] = response /\ wire[r] \in Wires
        /\ \A q \in Requests \ {r} : resp'[q] = resp[q]
    BY <1>1 DEF HttpFunctions
  <1>3. (NothingUnasked(r) /\ HandlesWhatWasSent(r) /\ AnswersItsOperation(r))'
    BY <1>1
    DEF Connection, NothingUnasked, HandlesWhatWasSent, AnswersItsOperation,
        TellsItsCall, LetsThrough
  <1>4. Came(r)'
    BY <1>2 DEF Came, Untouched, LetsThrough
  <1>5. Understood(r)'
    BY <1>1 DEF Connection, Understood, Untouched
  <1>6. Connection(r)'
    BY <1>3, <1>4, <1>5 DEF Connection
  <1>7. \A q \in Requests \ {r} : Connection(q)'
    BY <1>1, <1>2, ConnectionStays
  <1>8. /\ wire' \in [Requests -> Wires \cup {NoWire}]
        /\ DOMAIN resp' = Requests /\ DOMAIN got' = Requests
    BY <1>1 DEF HttpFunctions
  <1>. QED  BY <1>6, <1>7, <1>8 DEF HttpInv, Connection

LEMMA RespondsConnect ==
    ASSUME IInv, SaidInv, HttpInv, NEW r \in Requests,
           Refuse(r) \/ NotRead(r) \/ Respond(r)
    PROVE  HttpInv'
  <1>1. HttpFunctions /\ Connection(r)
    BY DEF HttpFunctions, IInv, TypeOK, HttpInv, Connection
  <1>2. CASE Refuse(r)
    BY <1>1, <1>2, ResponseConnects
    DEF HttpFunctions, Refuse, Awaited, allVars, vars
  <1>3. CASE Respond(r)
    BY <1>1, <1>3, ResponseConnects
    DEF HttpFunctions, Respond, Awaited, allVars, vars
  <1>4. CASE NotRead(r)
    <2>1. /\ pc[r] = "accepted" /\ pc' = [pc EXCEPT ![r] = "dead"]
          /\ UNCHANGED <<wire, req, rpc, reply, got>>
      BY <1>4 DEF NotRead, Abandon, Goto
    <2>2. PICK answer \in {Closed, HandleError(400)} : resp' = [resp EXCEPT ![r] = answer]
      BY <1>4 DEF NotRead
    <2>3. Untouched(r)
      BY <2>1, EarlyIsUntouched
    <2>4. wire[r] # NoWire
      BY <1>1, <2>1 DEF Connection, NothingUnasked
    <2>5. /\ pc' \in [Requests -> Stages] /\ pc'[r] = "dead"
          /\ \A q \in Requests \ {r} : pc'[q] = pc[q]
      BY <1>1, <2>1 DEF HttpFunctions, Stages
    <2>. QED  BY <2>1, <2>2, <2>3, <2>4, <2>5, ResponseConnects
  <1>. QED  BY <1>2, <1>3, <1>4
\* A request in flight was let through, and nothing has come back but, it may
\* be, the end of its connection.
LEMMA InFlightIsUnanswered ==
    ASSUME NEW r \in Requests, Connection(r), InFlight(r)
    PROVE  resp[r] \in {NoResponse, Closed} /\ got[r] \in {Waiting, NoAnswer}
  BY DEF Connection, InFlight, HandlesWhatWasSent, Came, Understood

LEMMA WorkConnects ==
    ASSUME IInv, TypeOK', HttpInv, NEW r \in Requests, Work(r)
    PROVE  HttpInv'
  <1>1. HttpFunctions /\ \A q \in Requests : Connection(q)
    BY DEF HttpFunctions, IInv, TypeOK, HttpInv, Connection
  <1>2. UNCHANGED <<wire, resp, got>>
    BY DEF Work, httpVars
  <1>3. ASSUME \A q \in Requests : Connection(q)'
        PROVE  HttpInv'
    BY <1>1, <1>2, <1>3 DEF HttpInv, HttpFunctions, Connection
  <1>4. CASE HandlerStep(r)
    <2>1. /\ InFlight(r) /\ pc'[r] # "idle" /\ UNCHANGED req
          /\ \A q \in Requests \ {r} :
                pc'[q] = pc[q] /\ rpc'[q] = rpc[q] /\ reply'[q] = reply[q]
          /\ pc'[r] = "done" => /\ reply'[r] \in Replies
                                /\ AnswerOf(req[r].op, reply'[r]) /\ TellsItsCall(r)'
      BY <1>4, HandlerMoves
    <2>2. resp[r] \in {NoResponse, Closed} /\ got[r] \in {Waiting, NoAnswer}
      BY <1>1, <2>1, InFlightIsUnanswered
    <2>3. pc[r] # "idle"
      BY <2>1 DEF InFlight
    <2>4. Connection(r)'
      BY <1>1, <1>2, <2>1, <2>2, <2>3
      DEF Connection, NothingUnasked, HandlesWhatWasSent, AnswersItsOperation, Came,
          Understood, LetsThrough
    <2>5. \A q \in Requests \ {r} : Connection(q)'
      BY <1>1, <1>2, <2>1, ConnectionStays
    <2>. QED  BY <1>3, <2>4, <2>5
  <1>5. CASE \E t \in Txns : ServePayment(r, t)
    <2>1. /\ rpc[r].state = "sent" /\ UNCHANGED <<pc, req, reply>>
          /\ \A q \in Requests \ {r} : rpc'[q] = rpc[q]
      BY <1>1, <1>5 DEF ServePayment, HttpFunctions
    <2>2. ~Untouched(r)
      BY <2>1 DEF Untouched, NoCall
    <2>3. Connection(r)'
      BY <1>1, <1>2, <2>1, <2>2
      DEF Connection, NothingUnasked, HandlesWhatWasSent, AnswersItsOperation,
          TellsItsCall, Came, Understood, LetsThrough
    <2>4. \A q \in Requests \ {r} : Connection(q)'
      BY <1>1, <1>2, <2>1, ConnectionStays
    <2>. QED  BY <1>3, <2>3, <2>4
  <1>. QED  BY <1>4, <1>5 DEF Work

LEMMA ProcessConnects ==
    ASSUME IInv, HttpInv, ProcessGoesOn \/ ProcessGoes
    PROVE  HttpInv'
  <1>1. HttpFunctions /\ \A q \in Requests : Connection(q)
    BY DEF HttpFunctions, IInv, TypeOK, HttpInv, Connection
  <1>2. ASSUME \A q \in Requests : Connection(q)', UNCHANGED wire,
               DOMAIN resp' = Requests, DOMAIN got' = Requests
        PROVE  HttpInv'
    BY <1>1, <1>2 DEF HttpInv, HttpFunctions, Connection
  <1>3. CASE ProcessGoesOn
    <2>1. UNCHANGED <<wire, resp, got, pc, req, reply, rpc>>
      BY <1>3 DEF ProcessGoesOn, Signal, Start, httpVars
    <2>. QED  BY <1>1, <1>2, <2>1, ConnectionStays DEF HttpFunctions
  <1>4. CASE ProcessGoes
    <2>1. /\ pc' = [r \in Requests |-> IF InFlight(r) THEN "dead" ELSE pc[r]]
          /\ resp' = [r \in Requests |-> IF Awaited(r) THEN Closed ELSE resp[r]]
          /\ UNCHANGED <<wire, got, req, reply, rpc>>
      BY <1>4 DEF ProcessGoes, Exit, Crash, Gone
    <2>2. ASSUME NEW r \in Requests
          PROVE  Connection(r)'
      <3>1. /\ Connection(r)
            /\ pc'[r] = IF InFlight(r) THEN "dead" ELSE pc[r]
            /\ resp'[r] = IF Awaited(r) THEN Closed ELSE resp[r]
        BY <1>1, <2>1
      <3>2. (NothingUnasked(r) /\ HandlesWhatWasSent(r) /\ AnswersItsOperation(r))'
        BY <2>1, <3>1
        DEF Connection, NothingUnasked, HandlesWhatWasSent, AnswersItsOperation,
            TellsItsCall, InFlight, Awaited, LetsThrough
      <3>3. Came(r)'
        BY <2>1, <3>1 DEF Connection, Came, InFlight, Untouched, LetsThrough
      <3>4. Understood(r)'
        BY <2>1, <3>1 DEF Connection, Understood, InFlight, Untouched
      <3>. QED  BY <3>2, <3>3, <3>4 DEF Connection
    <2>3. DOMAIN resp' = Requests /\ DOMAIN got' = Requests
      BY <1>1, <2>1 DEF HttpFunctions
    <2>. QED  BY <1>2, <2>1, <2>2, <2>3
  <1>. QED  BY <1>3, <1>4

\* What the client makes of what came back is what was meant.
LEMMA ReceiveConnects ==
    ASSUME IInv, SaidInv, HttpInv, NEW r \in Requests, Receive(r) \/ Lose(r)
    PROVE  HttpInv'
  <1>1. HttpFunctions /\ \A q \in Requests : Connection(q)
    BY DEF HttpFunctions, IInv, TypeOK, HttpInv, Connection
  <1>2. /\ got[r] = Waiting
        /\ UNCHANGED <<wire, resp, pc, req, reply, rpc>>
    BY DEF Receive, Lose, allVars, vars
  <1>3. ASSUME NEW outcome, got' = [got EXCEPT ![r] = outcome],
               wire[r] # NoWire,
               \/ outcome = NoAnswer
               \/ outcome = Undecodable /\ pc[r] \in {"idle", "dead"} /\ Untouched(r)
               \/ outcome = Outcome("answered", reply[r]) /\ pc[r] = "done"
        PROVE  HttpInv'
    <2>1. got'[r] = outcome /\ \A q \in Requests \ {r} : got'[q] = got[q]
      BY <1>1, <1>3 DEF HttpFunctions
    <2>2. Understood(r)'
      BY <1>2, <1>3, <2>1 DEF Understood, Untouched
    <2>3. Connection(r)'
      BY <1>1, <1>2, <1>3, <2>2
      DEF Connection, NothingUnasked, HandlesWhatWasSent, AnswersItsOperation,
          TellsItsCall, Came, Untouched, LetsThrough
    <2>4. \A q \in Requests \ {r} : Connection(q)'
      BY <1>1, <1>2, <2>1, ConnectionStays
    <2>5. DOMAIN got' = Requests
      BY <1>1, <1>3 DEF HttpFunctions
    <2>. QED  BY <1>1, <1>2, <2>3, <2>4, <2>5 DEF HttpInv, HttpFunctions, Connection
  <1>4. CASE Lose(r)
    BY <1>3, <1>4 DEF Lose
  <1>5. CASE Receive(r)
    <2>. DEFINE told == ReadAnswer(wire[r].path, resp[r])
                outcome == IF resp[r] = Closed THEN NoAnswer
                           ELSE IF told = None THEN Undecodable
                           ELSE Outcome("answered", told)
    <2>1. resp[r] # NoResponse /\ got' = [got EXCEPT ![r] = outcome]
      BY <1>5 DEF Receive
    <2>2. wire[r] # NoWire /\ wire[r] \in Wires
      BY <1>1, <2>1 DEF HttpFunctions, Connection, NothingUnasked
    <2>3. \/ outcome = NoAnswer
          \/ outcome = Undecodable /\ pc[r] \in {"idle", "dead"} /\ Untouched(r)
          \/ outcome = Outcome("answered", reply[r]) /\ pc[r] = "done"
      <3>1. CASE resp[r] = Closed
        BY <3>1
      <3>2. CASE ~LetsThrough(wire[r]) /\ resp[r] = Refusal(wire[r])
        <4>1. pc[r] = "idle"
          BY <1>1, <3>2 DEF Connection, HandlesWhatWasSent
        <4>2. Untouched(r)
          BY <4>1, EarlyIsUntouched
        <4>3. told = None
          BY <2>2, <3>2, RefusalsAreNotRead
        <4>. QED  BY <4>1, <4>2, <4>3
      <3>3. CASE pc[r] = "dead" /\ Untouched(r) /\ resp[r] = HandleError(400)
        <4>1. told = None
          BY <2>2, <3>3, ErrorHandlerIsNotRead, WiresAssumption
        <4>. QED  BY <3>3, <4>1
      <3>4. CASE pc[r] = "done" /\ resp[r] = EncodeReply(req[r].op, reply[r])
        <4>1. /\ LetsThrough(wire[r]) /\ req[r] = Serve(wire[r]).q
              /\ reply[r] \in Replies /\ AnswerOf(req[r].op, reply[r])
          BY <1>1, <3>4 DEF Connection, HandlesWhatWasSent, AnswersItsOperation
        <4>2. told = reply[r] /\ resp[r] # Closed
          BY <2>2, <3>4, <4>1, AnswersAreRead
        <4>3. reply[r] # None
          BY <4>1, RepliesAssumption
        <4>. QED  BY <3>4, <4>2, <4>3
      <3>. QED  BY <1>1, <2>1, <3>1, <3>2, <3>3, <3>4 DEF Connection, Came
    <2>. HIDE DEF outcome
    <2>. QED  BY <1>3, <2>1, <2>2, <2>3
  <1>. QED  BY <1>4, <1>5
\* Each end of a connection has only what the other had to give, for any
\* requests on the wire and any number of clients, whatever connections and
\* processes are lost (oas_handlers_gen.go:543-623, oas_client_gen.go:440-454).
THEOREM HttpInvariance == HttpSpec => [](HttpInv /\ IInv /\ SaidInv)
  <1>1. HttpInit => HttpInv
    BY InitHttpInv
  <1>2. IInv /\ SaidInv /\ IInv' /\ HttpInv /\ [HttpNext]_everything => HttpInv'
    <2>. SUFFICES ASSUME IInv, SaidInv, IInv', HttpInv, [HttpNext]_everything
                  PROVE  HttpInv'
      OBVIOUS
    <2>1. ASSUME NEW r \in Requests, NEW w \in Wires, Send(r, w) \/ SendInVain(r, w)
          PROVE  HttpInv'
      BY <2>1, SendConnects, SendInVainConnects
    <2>2. ASSUME NEW r \in Requests, Refuse(r) \/ NotRead(r) \/ Respond(r)
          PROVE  HttpInv'
      BY <2>2, RespondsConnect
    <2>3. ASSUME NEW r \in Requests, Work(r)
          PROVE  HttpInv'
      BY <2>3, WorkConnects DEF IInv
    <2>4. ASSUME NEW r \in Requests, Receive(r) \/ Lose(r)
          PROVE  HttpInv'
      BY <2>4, ReceiveConnects
    <2>5. CASE ProcessGoesOn \/ ProcessGoes
      BY <2>5, ProcessConnects
    <2>6. CASE UNCHANGED everything
      <3>1. UNCHANGED <<wire, resp, got, pc, req, reply, rpc>>
        BY <2>6 DEF everything, httpVars, allVars, vars
      <3>2. \A r \in Requests : Connection(r)
        BY DEF HttpInv, Connection
      <3>3. \A r \in Requests : Connection(r)'
        BY <3>1, <3>2, ConnectionStays
      <3>. QED  BY <3>1, <3>3 DEF HttpInv, Connection
    <2>. QED  BY <2>1, <2>2, <2>3, <2>4, <2>5, <2>6 DEF HttpNext
  <1>3. HttpSpec => [](IInv /\ SaidInv)
    BY ServesAsRocketLab, SaidInvariance, PTL DEF ServesAsModelled
  <1>. QED  BY <1>1, <1>2, <1>3, PTL DEF HttpSpec

\* Every response has a status of the server's, and what a client made of it
\* is a reply of some handler or nothing.
THEOREM HttpTypesAreCorrect == HttpSpec => []HttpTypeOK
  <1>1. HttpInv /\ IInv => HttpTypeOK
    <2>. SUFFICES ASSUME HttpInv, IInv, NEW r \in Requests
                  PROVE  /\ resp[r].code \in
                               {0, 200, 201, 204, 400, 404, 405, 409, 415, 500}
                         /\ got[r].kind \in {"waiting", "answered", "undecodable", "none"}
                         /\ got[r].told \in Replies
      BY DEF HttpInv, HttpTypeOK
    <2>1. /\ HandlesWhatWasSent(r) /\ AnswersItsOperation(r)
          /\ Came(r) /\ Understood(r)
      BY DEF HttpInv
    <2>2. reply[r] \in Replies /\ reply[r].code \in Codes
      BY DEF IInv, TypeOK, Replies
    <2>3. NoReply \in Replies
      BY RepliesHaveType DEF NoReply, Codes
    <2>4. resp[r].code \in {0, 200, 201, 204, 400, 404, 405, 409, 415, 500}
      <3>1. CASE resp[r] \in {NoResponse, Closed}
        BY <3>1 DEF NoResponse, Closed, Response
      <3>2. CASE wire[r] \in Wires /\ ~LetsThrough(wire[r]) /\ resp[r] = Refusal(wire[r])
        <4>1. Refusal(wire[r]).code \in {204, 400, 404, 405, 415}
          BY <3>2, RefusalsAreNotRead
        <4>. QED  BY <3>2, <4>1
      <3>3. CASE resp[r] = HandleError(400)
        BY <3>3 DEF HandleError, Json, Response
      <3>4. CASE pc[r] = "done" /\ resp[r] = EncodeReply(req[r].op, reply[r])
        <4>1. /\ wire[r] \in Wires /\ LetsThrough(wire[r]) /\ req[r] = Serve(wire[r]).q
              /\ AnswerOf(req[r].op, reply[r])
          BY <2>1, <3>4 DEF HandlesWhatWasSent, AnswersItsOperation
        <4>2. resp[r].code = reply[r].code
          BY <3>4, <4>1, AnswersAreRead
        <4>. QED  BY <2>2, <4>2 DEF Codes
      <3>. QED  BY <2>1, <3>1, <3>2, <3>3, <3>4 DEF Came
    <2>5. /\ got[r].kind \in {"waiting", "answered", "undecodable", "none"}
          /\ got[r].told \in Replies
      BY <2>1, <2>2, <2>3 DEF Understood, Waiting, NoAnswer, Undecodable, Outcome
    <2>. QED  BY <2>4, <2>5
  <1>. QED  BY <1>1, HttpInvariance, PTL

\* A client that cannot read a response has still lost nothing
\* (oas_handlers_gen.go:254-262, oas_response_decoders_gen.go:709-711).
THEOREM UnreadableMeansNothingDone == HttpSpec => []UndecodableMeansUntouched
  <1>1. HttpInv => UndecodableMeansUntouched
    <2>. SUFFICES ASSUME HttpInv, NEW r \in Requests, got[r] = Undecodable
                  PROVE  pc[r] \in {"idle", "dead"} /\ Untouched(r)
      BY DEF UndecodableMeansUntouched, Untouched
    <2>1. Understood(r)
      BY DEF HttpInv
    <2>. QED  BY <2>1 DEF Understood, Undecodable, Waiting, NoAnswer, Outcome
  <1>. QED  BY <1>1, HttpInvariance, PTL

\* A client is told what its handler returned, and every stored order is read
\* as it is stored (oas_response_encoders_gen.go, oas_response_decoders_gen.go,
\* handler.go:88-119).
THEOREM ClientsAreToldTheTruth == HttpSpec => []AnswersAreFaithful
  <1>1. HttpInv /\ IInv => AnswersAreFaithful
    <2>. SUFFICES ASSUME HttpInv, IInv PROVE AnswersAreFaithful
      OBVIOUS
    <2>1. ASSUME NEW r \in Requests, got[r].kind = "answered"
          PROVE  pc[r] = "done" /\ got[r].told = reply[r]
      <3>1. Understood(r)
        BY DEF HttpInv
      <3>. QED  BY <2>1, <3>1 DEF Understood, Undecodable, Waiting, NoAnswer, Outcome
    <2>2. ASSUME NEW o \in OrderIds, orders[o] # None
          PROVE  ReadGet(EncodeGet(Shown(orders[o]))) = Shown(orders[o])
      <3>1. orders[o] \in Order
        BY <2>2 DEF IInv, TypeOK
      <3>. QED  BY <3>1, OrdersAreShown
    <2>. QED  BY <2>1, <2>2 DEF AnswersAreFaithful
  <1>. QED  BY <1>1, HttpInvariance, PTL

\* What a generated client asks for is what the handler gets
\* (oas_client_gen.go, oas_request_decoders_gen.go).
THEOREM RequestsAreHandledAsAsked == HttpSpec => []RequestsArriveIntact
  <1>1. HttpInv => RequestsArriveIntact
    <2>. SUFFICES ASSUME HttpInv, NEW r \in Requests, NEW q \in Inputs,
                         wire[r] = Sent(q), pc[r] # "idle"
                  PROVE  req[r] = q
      BY DEF RequestsArriveIntact
    <2>1. req[r] = Serve(wire[r]).q
      BY DEF HttpInv, HandlesWhatWasSent
    <2>. QED  BY <2>1, RequestsAreServed DEF Through
  <1>. QED  BY <1>1, HttpInvariance, PTL
\* The number of a method has its name.
LEMMA MethodsAreNamed == \A m \in Methods : MethodName[MethodCode[m]] = m
  <1>. SUFFICES ASSUME NEW m \in Methods PROVE MethodName[MethodCode[m]] = m
    OBVIOUS
  <1>1. CASE m = "CARD"
    BY <1>1 DEF MethodCode, MethodName
  <1>2. CASE m = "SBP"
    BY <1>2 DEF MethodCode, MethodName
  <1>3. CASE m = "CREDIT_CARD"
    BY <1>3 DEF MethodCode, MethodName
  <1>4. CASE m = "INVESTOR_MONEY"
    BY <1>4 DEF MethodCode, MethodName
  <1>. QED  BY <1>1, <1>2, <1>3, <1>4 DEF Methods

\* A request to pay that reaches its handler asks for what the wire says.
LEMMA PayAsksWhatWasSent ==
    ASSUME NEW w \in Wires, w.path = "pay", LetsThrough(w)
    PROVE  LET method == Message(PayOrderRequest, w.body.doc).payment_method.str IN
           Serve(w).q = PayRequest(OrderOf(w), method) /\ method \in Methods
  <1>. DEFINE method == Message(PayOrderRequest, w.body.doc).payment_method.str
  <1>1. \A code : code # 0 => Refused(code).code # 0
    BY DEF Refused
  <1>2. w.verb = VerbOf[w.path]
    <2>1. w.verb # VerbOf[w.path] => Serve(w).code # 0
      BY <1>1 DEF Serve
    <2>. QED  BY <2>1 DEF LetsThrough
  <1>3. Serve(w) = HandlePay(w)
    BY <1>2 DEF Serve
  <1>4. ReadsOrder(w)
    BY <1>1, <1>3 DEF HandlePay, LetsThrough
  <1>5. Serve(w) = DecodePay(w)
    BY <1>3, <1>4 DEF HandlePay
  <1>6. BodyCode(w, PayOrderRequest) = 0
    BY <1>1, <1>5 DEF DecodePay, LetsThrough
  <1>7. method \in Methods
    BY <1>1, <1>5, <1>6 DEF DecodePay, ValidMethod, LetsThrough
  <1>8. Serve(w) = Through(PayRequest(OrderOf(w), method))
    BY <1>5, <1>6, <1>7 DEF DecodePay, ValidMethod
  <1>. QED  BY <1>7, <1>8 DEF Through

\* A client that reads that its order is paid was charged as it asked
\* (oas_parameters_gen.go:167-214, handler.go:256-303).
THEOREM PaidClientsWereCharged == HttpSpec => []PaidAsTold
  <1>1. HttpInv /\ IInv => PaidAsTold
    <2>. SUFFICES ASSUME HttpInv, IInv, NEW r \in Requests, wire[r].path = "pay",
                         got[r].kind = "answered", got[r].told.code = 200
                  PROVE  \E e \in ledger :
                            /\ e.txn = got[r].told.txn
                            /\ e.order = OrderOf(wire[r])
                            /\ MethodName[e.method] =
                                 Message(PayOrderRequest, wire[r].body.doc).payment_method.str
      BY DEF PaidAsTold
    <2>. DEFINE method == Message(PayOrderRequest, wire[r].body.doc).payment_method.str
    <2>1. HandlesWhatWasSent(r) /\ AnswersItsOperation(r) /\ Understood(r)
      BY DEF HttpInv
    <2>2. pc[r] = "done" /\ got[r].told = reply[r]
      BY <2>1 DEF Understood, Undecodable, Waiting, NoAnswer, Outcome
    <2>3. wire[r] \in Wires /\ LetsThrough(wire[r]) /\ req[r] = Serve(wire[r]).q
      BY <2>1, <2>2 DEF HandlesWhatWasSent
    <2>4. req[r] = PayRequest(OrderOf(wire[r]), method) /\ method \in Methods
      BY <2>3, PayAsksWhatWasSent
    <2>. HIDE DEF method
    <2>5. req[r].op = "pay" /\ req[r].order = OrderOf(wire[r]) /\ req[r].method = method
      BY <2>4 DEF PayRequest, Request
    <2>6. rpc[r].state = "ok" /\ rpc[r].txn = reply[r].txn
      BY <2>1, <2>2, <2>5 DEF AnswersItsOperation, TellsItsCall
    <2>7. PICK e \in ledger : /\ e.txn = rpc[r].txn
                              /\ e.order = req[r].order
                              /\ e.method = MethodCode[req[r].method]
      BY <2>6 DEF IInv, CallsAreTracked, CallIsTracked
    <2>8. MethodName[e.method] = method
      BY <2>4, <2>5, <2>7, MethodsAreNamed
    <2>. QED  BY <2>2, <2>5, <2>6, <2>7, <2>8 DEF method
  <1>. QED  BY <1>1, HttpInvariance, PTL
=============================================================================
