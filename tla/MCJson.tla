-------------------------------- MODULE MCJson --------------------------------
(***************************************************************************)
(* Instances of JsonDecoder for TLC: what each decoder is given.           *)
(***************************************************************************)
EXTENDS JsonDecoder, FiniteSets, TLC

MCMalformed == {"", "not-a-uuid"}
MCSpellings == "U-1" :> "u-1"

\* A good value of each type, another one, and values of other types.
Good == [uuid |-> Str("u-2"), text |-> Str("CARD"), int |-> Num(1800000),
         time |-> Str("2025-01-01T00:00:00Z")]
Values == {Str("U-1"), Str(""), Str("PAID"), Num(7), Null, Other}

MCDocuments(name) ==
    LET schema == DecoderOf[name].schema
        Mentions == [name : NamesOf(schema) \cup {"note"}, value : Values]
        full == [i \in DOMAIN schema.members |->
                    Member(schema.members[i].name, Good[schema.members[i].type.of])] IN
    {SelectSeq(full, LAMBDA m : m.name \in some) \o extra :
        some \in {s \in SUBSET NamesOf(schema) :
                    Cardinality(s) < 2 \/ Cardinality(NamesOf(schema) \ s) < 4},
        extra \in {<<>>} \cup {<<m>> : m \in Mentions}
                      \cup IF Len(schema.members) < 5
                           THEN {<<m, n>> : m, n \in Mentions} ELSE {}}

Sendable(ty) ==
    (IF ty.of = "text" THEN {Str("CARD"), Str("PAID")}
     ELSE IF ty.of = "uuid" THEN {Str("u-1"), Str("u-2")} ELSE {Good[ty.of]})
        \cup IF ty.nullable THEN {Unset, Null} ELSE {}

MessagesOf(schema) ==
    {m \in [NamesOf(schema) -> UNION {Sendable(f.type) : f \in ToSet(schema.members)}] :
        \A f \in ToSet(schema.members) : m[f.name] \in Sendable(f.type)}

Dtos ==
    {[order_uuid |-> Str("u-1"), hull_uuid |-> Str(h), engine_uuid |-> Str("u-2"),
      shield_uuid |-> s, weapon_uuid |-> w, total_price |-> Num(p),
      transaction_uuid |-> t, payment_method |-> m, status |-> Str("PAID"),
      created_at |-> Good.time] :
        h \in {"u-1", "u-2"}, s, w, t \in {Unset, Null, Str("u-1"), Str("u-2")},
        p \in {0, 800000}, m \in {Unset, Null, Str("SBP")}}

MCMessages(name) ==
    IF name = "OrderDto" THEN Dtos ELSE MessagesOf(DecoderOf[name].schema)
=============================================================================
