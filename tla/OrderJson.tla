------------------------------ MODULE OrderJson ------------------------------
(***************************************************************************)
(* The messages of the order API as JSON: which objects the generated      *)
(* decoders take, what they make of them, and what the encoders write      *)
(* (src/shared/pkg/openapi/order/v1/oas_json_gen.go).                      *)
(*                                                                         *)
(* A document is the sequence of the members of an object, each a name     *)
(* and a value; a name may occur twice.  A message is a function from the  *)
(* names of its type to values, Unset where an optional member is absent.  *)
(* The decoding is stated here as a relation of the two; the loops that    *)
(* compute it are in JsonDecoder.                                          *)
(***************************************************************************)
EXTENDS Uuids, Naturals, Sequences, SequencesExt

CONSTANT Spellings   \* other texts uuid.Parse takes -> the identifier meant

ASSUME SpellingsAssumption ==
    DOMAIN Spellings \cap (Malformed \cup {None}) = {}

(* Values: a string, a number, null, and everything no decoder here takes  *)
(* (a fraction, a boolean, an array).                                      *)
Value(kind, str, num) == [kind |-> kind, str |-> str, num |-> num]
Str(s) == Value("string", s, 0)
Num(n) == Value("number", None, n)
Null == Value("null", None, 0)
Other == Value("other", None, 0)
Unset == Value("unset", None, 0)

Member(name, value) == [name |-> name, value |-> value]

\* The identifier a text stands for: uuid.Parse knows several spellings of
\* one, UUID.String writes the canonical one.
Canonical(text) == IF text \in DOMAIN Spellings THEN Spellings[text] ELSE text

-----------------------------------------------------------------------------
(* The types of members.                                                   *)
Uuid == [of |-> "uuid", nullable |-> FALSE]
OptNilUUID == [of |-> "uuid", nullable |-> TRUE]
Text == [of |-> "text", nullable |-> FALSE]
Int64 == [of |-> "int", nullable |-> FALSE]
DateTime == [of |-> "time", nullable |-> FALSE]

\* The enums decode any string: their values are Validate's business.
PaymentMethod == Text
OrderStatus == Text
OptNilPaymentMethod == [of |-> "text", nullable |-> TRUE]

Instants == {"2025-01-01T00:00:00Z"}

\* The decoder of the type takes the value.
Takes(type, value) ==
    \/ value.kind = "null" /\ type.nullable
    \/ value.kind = "number" /\ type.of = "int"
    \/ value.kind = "string" /\ type.of = "uuid" /\ Parses(value.str)
    \/ value.kind = "string" /\ type.of = "time" /\ value.str \in Instants
    \/ value.kind = "string" /\ type.of = "text"

\* What it makes of it.
Read(type, value) ==
    IF type.of = "uuid" /\ value.kind = "string"
    THEN Str(Canonical(value.str))
    ELSE value

-----------------------------------------------------------------------------
(* The types of messages: their members in the order they are written,     *)
(* and those the API description requires.                                 *)
Typed(name, type) == [name |-> name, type |-> type]
Schema(members, required) == [members |-> members, required |-> required]

CreateOrderRequest ==
    Schema(<<Typed("hull_uuid", Uuid), Typed("engine_uuid", Uuid),
             Typed("shield_uuid", OptNilUUID), Typed("weapon_uuid", OptNilUUID)>>,
           {"hull_uuid", "engine_uuid"})

CreateOrderResponse ==
    Schema(<<Typed("order_uuid", Uuid), Typed("total_price", Int64)>>,
           {"order_uuid", "total_price"})

PayOrderRequest ==
    Schema(<<Typed("payment_method", PaymentMethod)>>, {"payment_method"})

PayOrderResponse ==
    Schema(<<Typed("transaction_uuid", Uuid)>>, {"transaction_uuid"})

CancelOrderResponse == Schema(<<>>, {})

OrderDto ==
    Schema(<<Typed("order_uuid", Uuid), Typed("hull_uuid", Uuid),
             Typed("engine_uuid", Uuid), Typed("shield_uuid", OptNilUUID),
             Typed("weapon_uuid", OptNilUUID), Typed("total_price", Int64),
             Typed("transaction_uuid", OptNilUUID),
             Typed("payment_method", OptNilPaymentMethod),
             Typed("status", OrderStatus), Typed("created_at", DateTime)>>,
           {"order_uuid", "hull_uuid", "engine_uuid", "total_price", "status",
            "created_at"})

Error == Schema(<<Typed("code", Int64), Typed("message", Text)>>, {"code", "message"})

(* The bodies of the answers, by status.  The errors of each operation are *)
(* types of their own, all aliases of Error.                               *)
CancelBodies ==
    [code \in {200, 400, 404, 409, 500} |->
        IF code = 200 THEN CancelOrderResponse ELSE Error]
CreateBodies ==
    [code \in {201, 400, 404, 409, 500} |->
        IF code = 201 THEN CreateOrderResponse ELSE Error]
GetBodies ==
    [code \in {200, 400, 404, 500} |-> IF code = 200 THEN OrderDto ELSE Error]

\* Mutant of PayBodies: the client knows no 404.
PayBodiesWithoutMissing ==
    [code \in {200, 400, 409, 500} |-> IF code = 200 THEN PayOrderResponse ELSE Error]

PayBodies ==
    [code \in {200, 400, 404, 409, 500} |->
        IF code = 200 THEN PayOrderResponse ELSE Error]

-----------------------------------------------------------------------------
(* Decoding                                                                *)
NamesOf(schema) == {f.name : f \in ToSet(schema.members)}
TypeOf(schema, name) ==
    (CHOOSE f \in ToSet(schema.members) : f.name = name).type

\* Where a document mentions a name.
Places(doc, name) == {i \in DOMAIN doc : doc[i].name = name}

\* Every mention of a member has a value of its type, and the required
\* members are mentioned; a name the type does not know is skipped.
WellFormed(schema, doc) ==
    /\ \A i \in DOMAIN doc :
          doc[i].name \in NamesOf(schema) =>
              Takes(TypeOf(schema, doc[i].name), doc[i].value)
    /\ \A name \in schema.required : Places(doc, name) # {}

\* The message a well-formed document stands for: the last mention counts.
Message(schema, doc) ==
    [name \in NamesOf(schema) |->
        IF Places(doc, name) = {} THEN Unset
        ELSE Read(TypeOf(schema, name), doc[Max(Places(doc, name))].value)]

\* Mutant of Field: a null is left out like an absent member.
FieldWithoutNull(name, value) ==
    IF value \in {Unset, Null} THEN <<>> ELSE <<Member(name, value)>>

\* A member is written if it is set.
Field(name, value) == IF value = Unset THEN <<>> ELSE <<Member(name, value)>>

\* encodeFields writes the members in their order.
Encode(schema, message) ==
    LET written[n \in 0..Len(schema.members)] ==
            IF n = 0 THEN <<>>
            ELSE LET name == schema.members[n].name IN
                 written[n - 1] \o Field(name, message[name])
    IN  written[Len(schema.members)]

-----------------------------------------------------------------------------
(* What a Go value of a message type is: members of the static types, the  *)
(* optional ones perhaps unset, a uuid.UUID or an instant in the one text  *)
(* it is written as.                                                       *)
IsMessage(schema, message) ==
    /\ message = [name \in NamesOf(schema) |-> message[name]]
    /\ \A name \in NamesOf(schema) :
          \/ message[name] = Unset /\ name \notin schema.required
          \/ /\ message[name] # Unset
             /\ Takes(TypeOf(schema, name), message[name])
             /\ Read(TypeOf(schema, name), message[name]) = message[name]
=============================================================================
