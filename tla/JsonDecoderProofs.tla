--------------------------- MODULE JsonDecoderProofs ---------------------------
(***************************************************************************)
(* Proofs about the Decode methods: for every document, whatever it        *)
(* repeats, lacks or mistypes, they compute the relation of OrderJson.     *)
(***************************************************************************)
EXTENDS JsonDecoder, OrderJsonProofs

(* The tables of a decoder fit its type: a bit of its own for each         *)
(* required member, numbered by its place in the type, and for each bit of *)
(* a mask a member.                                                        *)
MasksFit(d) ==
    /\ DOMAIN d.bits = d.schema.required
    /\ Len(d.masks) \in Nat /\ DOMAIN d.masks = 1..Len(d.masks)
    /\ \A name \in DOMAIN d.bits :
          /\ d.bits[name].byte \in 0..(Len(d.masks) - 1)
          /\ d.bits[name].bit \in d.masks[d.bits[name].byte + 1]
    /\ \A name, other \in DOMAIN d.bits :
          d.bits[name].byte = d.bits[other].byte /\ d.bits[name].bit = d.bits[other].bit
              => name = other
    /\ \A b \in 0..(Len(d.masks) - 1) : \A n \in d.masks[b + 1] :
          \E name \in DOMAIN d.bits : d.bits[name].byte = b /\ d.bits[name].bit = n

NumbersFit(d) ==
    \A name \in DOMAIN d.bits :
        /\ d.bits[name].bit \in 0..7
        /\ d.bits[name].byte * 8 + d.bits[name].bit + 1 \in 1..Len(d.schema.members)
        /\ d.schema.members[d.bits[name].byte * 8 + d.bits[name].bit + 1].name = name

TablesFit(d) == IsSchema(d.schema) /\ MasksFit(d) /\ NumbersFit(d)

LEMMA CreateOrderRequestFits == TablesFit(CreateOrderRequestDecoder)
  <1>. DEFINE members == CreateOrderRequestDecoder.schema.members
              required == CreateOrderRequestDecoder.schema.required
              bits == CreateOrderRequestDecoder.bits
  <1>1. Len(members) = 4 /\ DOMAIN members = 1..4
    BY DEF CreateOrderRequestDecoder, Decoder, CreateOrderRequest, Schema
  <1>2. /\ members[1].name = "hull_uuid"
          /\ members[2].name = "engine_uuid"
          /\ members[3].name = "shield_uuid"
          /\ members[4].name = "weapon_uuid"
    BY DEF CreateOrderRequestDecoder, Decoder, CreateOrderRequest, Schema, Typed
  <1>3. /\ required = {"hull_uuid", "engine_uuid"}
        /\ DOMAIN bits = required
    BY DEF CreateOrderRequestDecoder, Decoder, CreateOrderRequest, Schema
  <1>4. /\ bits.hull_uuid = [byte |-> 0, bit |-> 0]
          /\ bits.engine_uuid = [byte |-> 0, bit |-> 1]
    BY DEF CreateOrderRequestDecoder, Decoder, Bit
  <1>5. IsSchema(CreateOrderRequestDecoder.schema)
    <2>1. \A j \in 1..4 : members[j].name \in NamesOf(CreateOrderRequestDecoder.schema)
      BY <1>1 DEF NamesOf, ToSet
    <2>. HIDE DEF members, required
    <2>2. required \subseteq NamesOf(CreateOrderRequestDecoder.schema)
      BY <1>2, <1>3, <2>1
    <2>. QED  BY <1>1, <2>2 DEF IsSchema, members, required
  <1>6. MasksFit(CreateOrderRequestDecoder)
    BY DEF MasksFit, CreateOrderRequestDecoder, Decoder, Bit, CreateOrderRequest, Schema
  <1>7. NumbersFit(CreateOrderRequestDecoder)
    <2>. HIDE DEF members, required, bits
    <2>1. \A name \in DOMAIN bits :
             /\ bits[name].bit \in 0..7
             /\ bits[name].byte * 8 + bits[name].bit + 1 \in 1..Len(members)
             /\ members[bits[name].byte * 8 + bits[name].bit + 1].name = name
      BY <1>1, <1>2, <1>3, <1>4
    <2>. QED  BY <2>1 DEF NumbersFit, members, bits
  <1>. QED  BY <1>5, <1>6, <1>7 DEF TablesFit

LEMMA CreateOrderResponseFits == TablesFit(CreateOrderResponseDecoder)
  <1>1. IsSchema(CreateOrderResponseDecoder.schema)
    BY DEF IsSchema, CreateOrderResponseDecoder, Decoder, CreateOrderResponse, Schema, Typed, NamesOf,
           ToSet
  <1>2. MasksFit(CreateOrderResponseDecoder)
    BY DEF MasksFit, CreateOrderResponseDecoder, Decoder, Bit, CreateOrderResponse, Schema
  <1>3. NumbersFit(CreateOrderResponseDecoder)
    BY DEF NumbersFit, CreateOrderResponseDecoder, Decoder, Bit, CreateOrderResponse, Schema, Typed
  <1>. QED  BY <1>1, <1>2, <1>3 DEF TablesFit

LEMMA PayOrderRequestFits == TablesFit(PayOrderRequestDecoder)
  <1>1. IsSchema(PayOrderRequestDecoder.schema)
    BY DEF IsSchema, PayOrderRequestDecoder, Decoder, PayOrderRequest, Schema, Typed, NamesOf,
           ToSet
  <1>2. MasksFit(PayOrderRequestDecoder)
    BY DEF MasksFit, PayOrderRequestDecoder, Decoder, Bit, PayOrderRequest, Schema
  <1>3. NumbersFit(PayOrderRequestDecoder)
    BY DEF NumbersFit, PayOrderRequestDecoder, Decoder, Bit, PayOrderRequest, Schema, Typed
  <1>. QED  BY <1>1, <1>2, <1>3 DEF TablesFit

LEMMA PayOrderResponseFits == TablesFit(PayOrderResponseDecoder)
  <1>1. IsSchema(PayOrderResponseDecoder.schema)
    BY DEF IsSchema, PayOrderResponseDecoder, Decoder, PayOrderResponse, Schema, Typed, NamesOf,
           ToSet
  <1>2. MasksFit(PayOrderResponseDecoder)
    BY DEF MasksFit, PayOrderResponseDecoder, Decoder, Bit, PayOrderResponse, Schema
  <1>3. NumbersFit(PayOrderResponseDecoder)
    BY DEF NumbersFit, PayOrderResponseDecoder, Decoder, Bit, PayOrderResponse, Schema, Typed
  <1>. QED  BY <1>1, <1>2, <1>3 DEF TablesFit

LEMMA CancelOrderResponseFits == TablesFit(CancelOrderResponseDecoder)
  <1>1. IsSchema(CancelOrderResponseDecoder.schema)
    BY DEF IsSchema, CancelOrderResponseDecoder, Decoder, CancelOrderResponse, Schema, Typed, NamesOf,
           ToSet
  <1>2. MasksFit(CancelOrderResponseDecoder)
    BY DEF MasksFit, CancelOrderResponseDecoder, Decoder, Bit, CancelOrderResponse, Schema
  <1>3. NumbersFit(CancelOrderResponseDecoder)
    BY DEF NumbersFit, CancelOrderResponseDecoder, Decoder, Bit, CancelOrderResponse, Schema, Typed
  <1>. QED  BY <1>1, <1>2, <1>3 DEF TablesFit

LEMMA OrderDtoFits == TablesFit(OrderDtoDecoder)
  <1>. DEFINE members == OrderDtoDecoder.schema.members
              required == OrderDtoDecoder.schema.required
              bits == OrderDtoDecoder.bits
  <1>1. Len(members) = 10 /\ DOMAIN members = 1..10
    BY DEF OrderDtoDecoder, Decoder, OrderDto, Schema
  <1>2. /\ members[1].name = "order_uuid"
          /\ members[2].name = "hull_uuid"
          /\ members[3].name = "engine_uuid"
          /\ members[4].name = "shield_uuid"
          /\ members[5].name = "weapon_uuid"
          /\ members[6].name = "total_price"
          /\ members[7].name = "transaction_uuid"
          /\ members[8].name = "payment_method"
          /\ members[9].name = "status"
          /\ members[10].name = "created_at"
    BY DEF OrderDtoDecoder, Decoder, OrderDto, Schema, Typed
  <1>3. /\ required = {"order_uuid", "hull_uuid", "engine_uuid",
                         "total_price", "status", "created_at"}
        /\ DOMAIN bits = required
    BY DEF OrderDtoDecoder, OrderDtoBits, Decoder, OrderDto, Schema
  <1>4. /\ bits.order_uuid = [byte |-> 0, bit |-> 0]
          /\ bits.hull_uuid = [byte |-> 0, bit |-> 1]
          /\ bits.engine_uuid = [byte |-> 0, bit |-> 2]
          /\ bits.total_price = [byte |-> 0, bit |-> 5]
          /\ bits.status = [byte |-> 1, bit |-> 0]
          /\ bits.created_at = [byte |-> 1, bit |-> 1]
    BY DEF OrderDtoDecoder, OrderDtoBits, Decoder, Bit
  <1>5. IsSchema(OrderDtoDecoder.schema)
    <2>1. \A j \in 1..10 : members[j].name \in NamesOf(OrderDtoDecoder.schema)
      BY <1>1 DEF NamesOf, ToSet
    <2>. HIDE DEF members, required
    <2>2. required \subseteq NamesOf(OrderDtoDecoder.schema)
      BY <1>2, <1>3, <2>1
    <2>. QED  BY <1>1, <2>2 DEF IsSchema, members, required
  <1>6. MasksFit(OrderDtoDecoder)
    BY DEF MasksFit, OrderDtoDecoder, OrderDtoBits, Decoder, Bit, OrderDto, Schema
  <1>7. NumbersFit(OrderDtoDecoder)
    <2>. HIDE DEF members, required, bits
    <2>1. \A name \in DOMAIN bits :
             /\ bits[name].bit \in 0..7
             /\ bits[name].byte * 8 + bits[name].bit + 1 \in 1..Len(members)
             /\ members[bits[name].byte * 8 + bits[name].bit + 1].name = name
      BY <1>1, <1>2, <1>3, <1>4
    <2>. QED  BY <2>1 DEF NumbersFit, members, bits
  <1>. QED  BY <1>5, <1>6, <1>7 DEF TablesFit

LEMMA ErrorFits == TablesFit(ErrorDecoder)
  <1>1. IsSchema(ErrorDecoder.schema)
    BY DEF IsSchema, ErrorDecoder, Decoder, Error, Schema, Typed, NamesOf,
           ToSet
  <1>2. MasksFit(ErrorDecoder)
    BY DEF MasksFit, ErrorDecoder, Decoder, Bit, Error, Schema
  <1>3. NumbersFit(ErrorDecoder)
    BY DEF NumbersFit, ErrorDecoder, Decoder, Bit, Error, Schema, Typed
  <1>. QED  BY <1>1, <1>2, <1>3 DEF TablesFit

LEMMA DecodersFit ==
    ASSUME type \in DOMAIN DecoderOf
    PROVE  TablesFit(DecoderOf[type])
  BY CreateOrderRequestFits, CreateOrderResponseFits, PayOrderRequestFits,
     PayOrderResponseFits, CancelOrderResponseFits, OrderDtoFits, ErrorFits
     DEF DecoderOf

\* What a decoder in the state of the invariant knows of its tables.
LEMMA Tables ==
    ASSUME DecoderInv
    PROVE  /\ Len(Masks) \in Nat /\ DOMAIN Masks = 1..Len(Masks)
           /\ DOMAIN Bits = This.required /\ This.required \subseteq NamesOf(This)
           /\ \A name \in DOMAIN Bits :
                 /\ Bits[name].byte \in 0..(Len(Masks) - 1)
                 /\ Bits[name].bit \in Masks[Bits[name].byte + 1]
           /\ \A name, other \in DOMAIN Bits :
                 Bits[name].byte = Bits[other].byte /\ Bits[name].bit = Bits[other].bit
                    => name = other
           /\ \A b \in 0..(Len(Masks) - 1) : \A n \in Masks[b + 1] :
                 \E name \in DOMAIN Bits : Bits[name].byte = b /\ Bits[name].bit = n
  BY DecodersFit DEF DecoderInv, TablesFit, MasksFit, This, Masks, Bits, IsSchema

\* The bit of a required member is the place of the member in the type.
LEMMA Numbers ==
    ASSUME DecoderInv
    PROVE  /\ IsSchema(This)
           /\ \A name \in DOMAIN Bits :
                 /\ Bits[name].bit \in 0..7 /\ Bits[name].byte \in Nat
                 /\ Number(name) \in Nat
                 /\ Number(name) + 1 \in DOMAIN Names /\ Names[Number(name) + 1] = name
  <1>1. type \in DOMAIN DecoderOf
    BY DEF DecoderInv
  <1>2. TablesFit(DecoderOf[type])
    BY <1>1, DecodersFit
  <1>3. IsSchema(This) /\ DOMAIN Names = 1..Len(This.members)
    BY <1>2 DEF TablesFit, This, IsSchema, Names
  <1>4. ASSUME NEW name \in DOMAIN Bits
        PROVE  /\ Bits[name].bit \in 0..7 /\ Bits[name].byte \in Nat
               /\ Number(name) + 1 \in DOMAIN Names /\ Names[Number(name) + 1] = name
    <2>1. Bits[name].byte \in Nat
      BY Tables
    <2>2. /\ Bits[name].bit \in 0..7
          /\ Bits[name].byte * 8 + Bits[name].bit + 1 \in 1..Len(This.members)
          /\ This.members[Bits[name].byte * 8 + Bits[name].bit + 1].name = name
      <3>. DEFINE d == DecoderOf[type]
      <3>1. Bits = d.bits /\ This = d.schema
        BY DEF Bits, This
      <3>2. \A m \in DOMAIN d.bits :
               /\ d.bits[m].bit \in 0..7
               /\ d.bits[m].byte * 8 + d.bits[m].bit + 1 \in 1..Len(d.schema.members)
               /\ d.schema.members[d.bits[m].byte * 8 + d.bits[m].bit + 1].name = m
        BY <1>2, Zenon DEF TablesFit, NumbersFit
      <3>. HIDE DEF d
      <3>. QED  BY <3>1, <3>2
    <2>. QED  BY <1>3, <2>1, <2>2 DEF Names, Number
  <1>5. \A name \in DOMAIN Bits : Number(name) \in Nat
    BY <1>4 DEF Number
  <1>. QED  BY <1>3, <1>4, <1>5

\* A type and a document stay what they are.
LEMMA SameInput ==
    ASSUME UNCHANGED input
    PROVE  /\ This' = This /\ Masks' = Masks /\ Bits' = Bits
           /\ NamesOf(This)' = NamesOf(This)
           /\ WellFormed(This, doc)' <=> WellFormed(This, doc)
           /\ \A name : TypeOf(This, name)' = TypeOf(This, name)
           /\ \A name : Places(doc, name)' = Places(doc, name)
  BY DEF input, This, Masks, Bits

LEMMA SameSent ==
    ASSUME DecoderInv, UNCHANGED input
    PROVE  SentAsEncoded'
  BY DEF input, DecoderInv, SentAsEncoded, This

-----------------------------------------------------------------------------
(* The members.                                                            *)

\* The next member joins those that went before.
LEMMA NextBefore ==
    ASSUME DecoderInv, UNCHANGED input, HasMember, at' = at + 1
    PROVE  /\ at \in DOMAIN doc
           /\ \A name : name = Current.name => Before(name)' = Before(name) \cup {at}
           /\ \A name : name # Current.name => Before(name)' = Before(name)
           /\ \A i \in DOMAIN doc : i < at' <=> i < at \/ i = at
  <1>1. /\ at \in Nat /\ at >= 1 /\ at <= Len(doc) /\ Len(doc) \in Nat
        /\ DOMAIN doc = 1..Len(doc) /\ doc' = doc
    BY DEF DecoderInv, HasMember, input
  <1>2. at \in DOMAIN doc
    BY <1>1
  <1>3. \A i \in DOMAIN doc : i < at' <=> i < at \/ i = at
    BY <1>1
  <1>4. \A name : /\ Before(name) = {i \in DOMAIN doc : doc[i].name = name /\ i < at}
                  /\ Before(name)' = {i \in DOMAIN doc : doc[i].name = name /\ i < at'}
    BY <1>1 DEF Before, Places
  <1>5. \A name : name = doc[at].name => Before(name)' = Before(name) \cup {at}
    BY <1>2, <1>3, <1>4
  <1>6. \A name : name # doc[at].name => Before(name)' = Before(name)
    BY <1>3, <1>4
  <1>. QED  BY <1>2, <1>3, <1>5, <1>6 DEF Current

LEMMA SkipStep ==
    ASSUME DecoderInv, SkipMember
    PROVE  DecoderInv'
  <1>1. /\ UNCHANGED input /\ UNCHANGED <<stage, seen, message, byte, result, failures>>
        /\ HasMember /\ at' = at + 1 /\ Current.name \notin NamesOf(This)
        /\ stage = "members"
    BY DEF SkipMember, HasMember
  <1>2. MessageSoFar /\ BitsSoFar
    BY <1>1 DEF DecoderInv
  <1>3. MessageSoFar'
    BY <1>1, <1>2, SameInput, NextBefore DEF MessageSoFar, Current, input
  <1>4. BitsSoFar'
    BY <1>1, <1>2, SameInput, NextBefore, Tables DEF BitsSoFar
  <1>. QED  BY <1>1, <1>3, <1>4, SameSent, NextBefore DEF DecoderInv, input, HasMember

LEMMA DecodeStep ==
    ASSUME DecoderInv, DecodeMember
    PROVE  DecoderInv'
  <1>. DEFINE n == Current.name
  <1>1. /\ UNCHANGED input /\ UNCHANGED <<stage, byte, result, failures>>
        /\ HasMember /\ at' = at + 1 /\ n \in NamesOf(This)
        /\ Takes(TypeOf(This, n), Current.value)
        /\ message' = [message EXCEPT ![n] = Read(TypeOf(This, n), Current.value)]
        /\ MarkSeen(n) /\ stage = "members"
    BY DEF DecodeMember, HasMember
  <1>2. MessageSoFar /\ BitsSoFar
    BY <1>1 DEF DecoderInv
  <1>3. MessageSoFar'
    <2>1. /\ message' = [name \in NamesOf(This) |-> message'[name]]
          /\ message'[n] = Read(TypeOf(This, n), doc[at].value)
          /\ \A name \in NamesOf(This) : name # n => message'[name] = message[name]
      BY <1>1, <1>2 DEF MessageSoFar, Current
    <2>2. \A i \in Before(n) \cup {at} : i <= at
      BY DEF Before, DecoderInv, Places
    <2>3. \A i \in DOMAIN doc : i < at' /\ doc[i].name \in NamesOf(This) =>
              Takes(TypeOf(This, doc[i].name), doc[i].value)
      BY <1>1, <1>2, NextBefore DEF MessageSoFar, Current
    <2>4. ASSUME NEW name \in NamesOf(This)
          PROVE  \/ Before(name)' = {} /\ message'[name] = Unset
                 \/ \E last \in Before(name)' :
                       /\ \A i \in Before(name)' : i <= last
                       /\ message'[name] = Read(TypeOf(This, name), doc[last].value)
      <3>1. CASE name = n
        BY <1>1, <2>1, <2>2, <3>1, NextBefore
      <3>2. CASE name # n
        BY <1>1, <1>2, <2>1, <2>4, <3>2, NextBefore DEF MessageSoFar
      <3>. QED  BY <3>1, <3>2
    <2>. QED  BY <1>1, <2>1, <2>3, <2>4, SameInput DEF MessageSoFar, input
  <1>4. BitsSoFar'
    <2>1. /\ DOMAIN seen' = DOMAIN Masks
          /\ \A name \in DOMAIN Bits :
                Bits[name].bit \in seen'[Bits[name].byte + 1] <=> Before(name)' # {}
      <3>1. CASE n \in DOMAIN Bits
        <4>1. seen' = [seen EXCEPT ![Bits[n].byte + 1] = @ \cup {Bits[n].bit}]
          BY <1>1, <3>1 DEF MarkSeen
        <4>2. \A name \in DOMAIN Bits :
                 Bits[name].bit \in seen'[Bits[name].byte + 1] <=>
                    Bits[name].bit \in seen[Bits[name].byte + 1] \/ name = n
          <5>. SUFFICES ASSUME NEW name \in DOMAIN Bits
                        PROVE  Bits[name].bit \in seen'[Bits[name].byte + 1] <=>
                                  Bits[name].bit \in seen[Bits[name].byte + 1] \/ name = n
            OBVIOUS
          <5>1. /\ Bits[n].byte \in Nat /\ Bits[name].byte \in Nat
                /\ Bits[n].byte + 1 \in DOMAIN seen /\ Bits[name].byte + 1 \in DOMAIN seen
            BY <1>2, <3>1, Tables DEF BitsSoFar
          <5>2. CASE Bits[name].byte = Bits[n].byte
            <6>1. seen'[Bits[name].byte + 1] = seen[Bits[name].byte + 1] \cup {Bits[n].bit}
              BY <4>1, <5>1, <5>2
            <6>2. Bits[name].bit = Bits[n].bit <=> name = n
              BY <3>1, <5>2, Tables
            <6>. QED  BY <6>1, <6>2
          <5>3. CASE Bits[name].byte # Bits[n].byte
            <6>1. seen'[Bits[name].byte + 1] = seen[Bits[name].byte + 1]
              BY <4>1, <5>1, <5>3
            <6>. QED  BY <5>3, <6>1
          <5>. QED  BY <5>2, <5>3
        <4>. QED  BY <1>1, <1>2, <4>1, <4>2, NextBefore DEF BitsSoFar
      <3>2. CASE n \notin DOMAIN Bits
        BY <1>1, <1>2, <3>2, NextBefore DEF BitsSoFar, MarkSeen
      <3>. QED  BY <3>1, <3>2
    <2>. QED  BY <1>1, <2>1, SameInput DEF BitsSoFar
  <1>. QED  BY <1>1, <1>3, <1>4, SameSent, NextBefore DEF DecoderInv, input, HasMember

LEMMA FailStep ==
    ASSUME DecoderInv, FailMember
    PROVE  DecoderInv'
  <1>1. /\ UNCHANGED input /\ UNCHANGED <<at, byte, result, failures>>
        /\ HasMember /\ stage' = "failed"
        /\ Current.name \in NamesOf(This) /\ ~Takes(TypeOf(This, Current.name), Current.value)
    BY DEF FailMember
  <1>2. ~WellFormed(This, doc)
    BY <1>1 DEF WellFormed, Current, HasMember, DecoderInv
  <1>. QED  BY <1>1, <1>2, SameInput, SameSent DEF DecoderInv, input

-----------------------------------------------------------------------------
(* The check of the required members.                                      *)

\* The invariant, when only the check goes on.
LEMMA CheckStep ==
    ASSUME DecoderInv, UNCHANGED <<input, at, seen, message>>,
           stage \in {"members", "required"}, at > Len(doc),
           stage' \in {"required", "ok", "missing"}, MissingSoFar', ReportedSoFar',
           stage' # "required" => byte' = Len(Masks) /\ (stage' = "ok" <=> failures' = <<>>)
    PROVE  DecoderInv'
  <1>1. MessageSoFar /\ BitsSoFar
    BY DEF DecoderInv
  <1>2. \A name : Before(name)' = Before(name)
    BY SameInput DEF Before
  <1>3. MessageSoFar'
    BY <1>1, <1>2, SameInput DEF MessageSoFar, input
  <1>4. BitsSoFar'
    BY <1>1, <1>2, SameInput DEF BitsSoFar
  <1>. QED  BY <1>3, <1>4, SameInput, SameSent DEF DecoderInv, input

LEMMA MissingStays ==
    ASSUME UNCHANGED <<input, seen>>
    PROVE  \A b : MissingBits(b)' = MissingBits(b)
  BY SameInput DEF MissingBits

\* A required member that was never mentioned lacks its bit.
LEMMA Lacking ==
    ASSUME DecoderInv, stage # "failed"
    PROVE  \A name \in DOMAIN Bits :
              Bits[name].bit \in MissingBits(Bits[name].byte) <=> Before(name) = {}
  BY Tables DEF DecoderInv, BitsSoFar, MissingBits

LEMMA SameNumbers ==
    ASSUME UNCHANGED input
    PROVE  \A name : Number(name)' = Number(name)
  BY SameInput DEF Number

LEMMA SameBefore ==
    ASSUME UNCHANGED <<input, at>>
    PROVE  \A name : Before(name)' = Before(name)
  BY SameInput DEF Before

LEMMA EndStep ==
    ASSUME DecoderInv, EndOfObject
    PROVE  DecoderInv'
  <1>1. /\ UNCHANGED <<input, at, seen, message, failures>> /\ failures = <<>>
        /\ stage = "members" /\ stage' = "required" /\ at > Len(doc)
        /\ byte' = 0 /\ result' = IF 0 < Len(Masks) THEN MissingBits(0) ELSE {}
    BY DEF EndOfObject, CheckByte, DecoderInv
  <1>2. /\ at' > Len(doc') /\ Len(Masks') = Len(Masks) /\ Len(Masks) \in Nat
        /\ \A b : MissingBits(b)' = MissingBits(b)
    BY <1>1, SameInput, MissingStays, Tables DEF input
  <1>3. MissingSoFar'
    BY <1>1, <1>2 DEF MissingSoFar
  <1>4. ReportedSoFar'
    <2>1. \A name \in DOMAIN Bits : Before(name) = {} =>
             Bits[name].byte >= 0 /\ (Bits[name].byte = 0 => Bits[name].bit \in result')
      BY <1>1, Tables, Lacking
    <2>2. ToSet(failures') = {} /\ failures' \in Seq(DOMAIN Bits) /\ Len(failures') = 0
      BY <1>1 DEF ToSet
    <2>3. {name \in DOMAIN Bits :
              /\ Before(name) = {}
              /\ \/ Bits[name].byte < 0
                 \/ Bits[name].byte = 0 /\ Bits[name].bit \notin result'} = {}
      BY <2>1, Tables
    <2>4. Bits' = Bits /\ \A name : Before(name)' = Before(name)
      BY <1>1, SameInput, SameBefore
    <2>. QED  BY <1>1, <2>2, <2>3, <2>4 DEF ReportedSoFar
  <1>. QED  BY <1>1, <1>3, <1>4, CheckStep

LEMMA ReportStep ==
    ASSUME DecoderInv, Report
    PROVE  DecoderInv'
  <1>1. /\ UNCHANGED <<input, at, seen, message, byte, stage>>
        /\ stage = "required" /\ byte < Len(Masks) /\ result # {}
        /\ result' = result \ {Min(result)}
        /\ failures' = Append(failures, Names[byte * 8 + Min(result) + 1])
    BY DEF Report
  <1>2. MissingSoFar /\ ReportedSoFar
    BY <1>1 DEF DecoderInv
  <1>3. /\ at' > Len(doc') /\ Len(Masks') = Len(Masks) /\ Len(Masks) \in Nat
        /\ \A b : MissingBits(b)' = MissingBits(b)
    BY <1>1, <1>2, SameInput, MissingStays, Tables DEF input, MissingSoFar
  <1>4. failures' # <<>>
    BY <1>1, <1>2 DEF ReportedSoFar
  <1>5. MissingBits(byte) # {} /\ byte \in 0..(Len(Masks) - 1)
    BY <1>1, <1>2, <1>3 DEF MissingSoFar
  <1>6. MissingSoFar'
    BY <1>1, <1>2, <1>3, <1>4, <1>5 DEF MissingSoFar
  <1>7. \A n \in result : \E name \in DOMAIN Bits :
           Bits[name].byte = byte /\ Bits[name].bit = n
    BY <1>2, <1>5, Tables DEF MissingSoFar, MissingBits
  <1>8. Min(result) \in result /\ \A n \in result : Min(result) <= n
    <2>1. result \in SUBSET Nat
      BY <1>7, Numbers
    <2>2. \E x \in result : \A y \in result : x <= y
      BY <1>1, <2>1, SmallestNumber
    <2>. QED  BY <2>2 DEF Min
  <1>9. PICK new \in DOMAIN Bits : Bits[new].byte = byte /\ Bits[new].bit = Min(result)
    BY <1>7, <1>8
  <1>10. failures' = Append(failures, new)
    BY <1>1, <1>9, Numbers DEF Number
  <1>11. Before(new) = {}
    BY <1>1, <1>2, <1>5, <1>8, <1>9, Lacking DEF MissingSoFar
  <1>12. ReportedSoFar'
    <2>1. /\ failures \in Seq(DOMAIN Bits) /\ Len(failures) \in Nat
          /\ failures' \in Seq(DOMAIN Bits) /\ Len(failures') = Len(failures) + 1
          /\ failures'[Len(failures) + 1] = new
          /\ \A i \in 1..Len(failures) : failures'[i] = failures[i] /\ i \in 1..Len(failures')
          /\ \A i \in 1..Len(failures') : i \in 1..Len(failures) \/ i = Len(failures) + 1
          /\ DOMAIN failures = 1..Len(failures) /\ DOMAIN failures' = 1..Len(failures')
          /\ Len(failures) + 1 \in 1..Len(failures')
      BY <1>2, <1>10 DEF ReportedSoFar
    <2>2. ToSet(failures') = ToSet(failures) \cup {new}
      BY <2>1 DEF ToSet
    <2>3. ASSUME NEW name \in DOMAIN Bits, Before(name) = {},
                 Bits[name].byte = byte, Bits[name].bit \notin result'
          PROVE  Bits[name].bit \notin result \/ name = new
      <3>1. Bits[name].bit \notin result \/ Bits[name].bit = Bits[new].bit
        BY <1>1, <1>9, <2>3
      <3>2. Bits[name].bit = Bits[new].bit => name = new
        BY <1>9, <2>3, Tables
      <3>. QED  BY <3>1, <3>2
    <2>4. ToSet(failures') =
            {name \in DOMAIN Bits :
                /\ Before(name) = {}
                /\ \/ Bits[name].byte < byte
                   \/ Bits[name].byte = byte /\ Bits[name].bit \notin result'}
      <3>1. new \in DOMAIN Bits /\ Before(new) = {} /\ Bits[new].bit \notin result'
        BY <1>1, <1>9, <1>11
      <3>. QED  BY <1>1, <1>2, <1>9, <2>2, <2>3, <3>1 DEF ReportedSoFar
    <2>5. ASSUME NEW name \in ToSet(failures)
          PROVE  name \in DOMAIN Bits /\ Number(name) < Number(new)
                 /\ (Bits[name].byte = byte => Bits[name].bit < Min(result))
      <3>1. name \in DOMAIN Bits /\ (Bits[name].byte < byte \/ Bits[name].byte = byte)
        BY <1>2, <2>5 DEF ReportedSoFar
      <3>2. Bits[name].byte = byte => Bits[name].bit < Min(result)
        BY <1>2, <1>8, <2>5 DEF ReportedSoFar
      <3>3. /\ Bits[name].bit \in 0..7 /\ Bits[new].bit \in 0..7
            /\ Bits[name].byte \in Nat /\ Bits[new].byte \in Nat
        BY <3>1, Numbers
      <3>. QED  BY <1>9, <3>1, <3>2, <3>3 DEF Number
    <2>6. \A i, j \in 1..Len(failures') :
             i < j => Number(failures'[i]) < Number(failures'[j])
      <3>. SUFFICES ASSUME NEW i \in 1..Len(failures'), NEW j \in 1..Len(failures'), i < j
                    PROVE  Number(failures'[i]) < Number(failures'[j])
        OBVIOUS
      <3>1. i \in 1..Len(failures) /\ failures[i] \in ToSet(failures)
        BY <2>1 DEF ToSet
      <3>2. CASE j \in 1..Len(failures)
        BY <1>2, <2>1, <3>1, <3>2 DEF ReportedSoFar
      <3>3. CASE j = Len(failures) + 1
        BY <2>1, <2>5, <3>1, <3>3
      <3>. QED  BY <2>1, <3>2, <3>3
    <2>7. \A n \in result' : Min(result) < n
      <3>1. \A n \in result : n \in Nat
        BY <1>7, Numbers
      <3>. QED  BY <1>1, <1>8, <3>1
    <2>8. \A name \in ToSet(failures') : Bits[name].byte = byte =>
             \A n \in result' : Bits[name].bit < n
      <3>1. \A n \in result : n \in Nat
        BY <1>7, Numbers
      <3>2. \A name \in DOMAIN Bits : Bits[name].bit \in Nat
        <4>1. \A name \in DOMAIN Bits : Bits[name].bit \in 0..7
          BY Numbers
        <4>. QED  BY <4>1
      <3>. QED  BY <1>1, <1>8, <1>9, <2>2, <2>5, <2>7, <3>1, <3>2
    <2>. QED  BY <1>1, <2>1, <2>4, <2>6, <2>8, SameInput, SameBefore, SameNumbers DEF ReportedSoFar
  <1>. QED  BY <1>1, <1>2, <1>6, <1>12, CheckStep DEF MissingSoFar

LEMMA NextByteStep ==
    ASSUME DecoderInv, NextByte
    PROVE  DecoderInv'
  <1>1. /\ UNCHANGED <<input, at, seen, message, failures, stage>>
        /\ stage = "required" /\ byte < Len(Masks) /\ result = {}
        /\ byte' = byte + 1
        /\ result' = IF byte + 1 < Len(Masks) THEN MissingBits(byte + 1) ELSE {}
    BY DEF NextByte, CheckByte
  <1>2. MissingSoFar /\ ReportedSoFar
    BY <1>1 DEF DecoderInv
  <1>3. /\ at' > Len(doc') /\ Len(Masks') = Len(Masks) /\ Len(Masks) \in Nat
        /\ \A b : MissingBits(b)' = MissingBits(b)
    BY <1>1, <1>2, SameInput, MissingStays, Tables DEF input, MissingSoFar
  <1>4. byte \in Nat /\ byte + 1 \in 0..Len(Masks)
    BY <1>1, <1>2, <1>3 DEF MissingSoFar
  <1>5. failures = <<>> => \A b \in 0..(byte + 1 - 1) : MissingBits(b) = {}
    BY <1>1, <1>2, <1>4 DEF MissingSoFar
  <1>6. MissingSoFar'
    BY <1>1, <1>2, <1>3, <1>4, <1>5 DEF MissingSoFar
  <1>7. ReportedSoFar'
    <2>1. \A name \in DOMAIN Bits : Bits[name].byte \in Nat /\ Bits[name].byte < Len(Masks)
      BY <1>3, Tables
    <2>2. \A name \in DOMAIN Bits : Before(name) = {} /\ Bits[name].byte = byte + 1 =>
             Bits[name].bit \in result'
      BY <1>1, <2>1, Lacking
    <2>3. \A name \in DOMAIN Bits : Bits[name].byte < byte + 1 <=>
             Bits[name].byte < byte \/ Bits[name].byte = byte
      BY <1>4, <2>1
    <2>4. \A name \in ToSet(failures) : name \in DOMAIN Bits /\ Bits[name].byte # byte + 1
      BY <1>2, <1>4, <2>1 DEF ReportedSoFar
    <2>5. ToSet(failures) =
            {name \in DOMAIN Bits :
                /\ Before(name) = {}
                /\ \/ Bits[name].byte < byte + 1
                   \/ Bits[name].byte = byte + 1 /\ Bits[name].bit \notin result'}
      BY <1>1, <1>2, <2>2, <2>3 DEF ReportedSoFar
    <2>. QED  BY <1>1, <1>2, <2>4, <2>5, SameInput, SameBefore, SameNumbers DEF ReportedSoFar
  <1>. QED  BY <1>1, <1>2, <1>6, <1>7, CheckStep DEF MissingSoFar

LEMMA FinishedStep ==
    ASSUME DecoderInv, Finished
    PROVE  DecoderInv'
  <1>1. /\ UNCHANGED <<input, at, seen, message, byte, result, failures>>
        /\ stage = "required" /\ byte = Len(Masks)
        /\ stage' = IF failures = <<>> THEN "ok" ELSE "missing"
    BY DEF Finished
  <1>2. MissingSoFar /\ ReportedSoFar
    BY <1>1 DEF DecoderInv
  <1>3. /\ at' > Len(doc') /\ Len(Masks') = Len(Masks)
        /\ \A b : MissingBits(b)' = MissingBits(b)
    BY <1>1, <1>2, SameInput, MissingStays DEF input, MissingSoFar
  <1>4. MissingSoFar'
    BY <1>1, <1>2, <1>3 DEF MissingSoFar
  <1>5. ReportedSoFar'
    BY <1>1, <1>2, SameInput, SameBefore, SameNumbers DEF ReportedSoFar
  <1>. QED  BY <1>1, <1>2, <1>4, <1>5, CheckStep DEF MissingSoFar

-----------------------------------------------------------------------------
(* The invariant, and what it means at the end.                            *)

LEMMA InitDecoderInv == DecoderInit => DecoderInv
  <1>. SUFFICES ASSUME DecoderInit PROVE DecoderInv
    OBVIOUS
  <1>1. /\ type \in DOMAIN DecoderOf /\ stage = "members" /\ at = 1 /\ failures = <<>>
        /\ seen = [b \in DOMAIN Masks |-> {}]
        /\ message = [name \in NamesOf(This) |-> Unset]
    BY DEF DecoderInit
  <1>2. Len(doc) \in Nat /\ DOMAIN doc = 1..Len(doc) /\ SentAsEncoded
    <2>1. CASE sent = None /\ doc \in Documents(type)
      BY <1>1, <2>1, DocumentsAssumption DEF SentAsEncoded
    <2>2. CASE sent \in Messages(type) /\ doc = Encode(This, sent)
      <3>1. IsSchema(This) /\ IsMessage(This, sent)
        <4>1. IsSchema(This)
          <5>1. TablesFit(DecoderOf[type])
            BY <1>1, DecodersFit
          <5>. QED  BY <5>1 DEF This, TablesFit
        <4>2. IsMessage(This, sent)
          BY <1>1, <2>2, MessagesAssumption DEF This
        <4>. QED  BY <4>1, <4>2
      <3>. QED  BY <2>2, <3>1, EncodingsAreRead DEF SentAsEncoded
    <2>. QED  BY <2>1, <2>2 DEF DecoderInit
  <1>3. \A name : Before(name) = {}
    BY <1>1, <1>2 DEF Before, Places
  <1>4. MessageSoFar
    BY <1>1, <1>2, <1>3 DEF MessageSoFar
  <1>5. BitsSoFar
    <2>1. \A name \in DOMAIN Bits : Bits[name].byte + 1 \in DOMAIN Masks
      BY <1>1, DecodersFit DEF TablesFit, MasksFit, Bits, Masks
    <2>. QED  BY <1>1, <1>3, <2>1 DEF BitsSoFar
  <1>. QED  BY <1>1, <1>2, <1>4, <1>5 DEF DecoderInv

\* What the decoders rely on holds for every document.
THEOREM DecoderInvariance == DecoderSpec => []DecoderInv
  <1>1. DecoderInv /\ [DecoderNext]_decoderVars => DecoderInv'
    <2>. SUFFICES ASSUME DecoderInv, [DecoderNext]_decoderVars PROVE DecoderInv'
      OBVIOUS
    <2>1. CASE UNCHANGED decoderVars
      BY <2>1 DEF decoderVars, input, DecoderInv, MessageSoFar, BitsSoFar, MissingSoFar,
         ReportedSoFar, SentAsEncoded, Number, MissingBits, Before, This, Masks, Bits
    <2>. QED  BY <2>1, SkipStep, DecodeStep, FailStep, EndStep, ReportStep, NextByteStep,
                 FinishedStep DEF DecoderNext
  <1>. QED  BY <1>1, InitDecoderInv, PTL DEF DecoderSpec

\* At the end of an object nothing is missing just if every required member
\* was mentioned.
LEMMA NothingMissing ==
    ASSUME DecoderInv, BitsSoFar, MissingSoFar, byte = Len(Masks)
    PROVE  failures = <<>> <=> \A name \in This.required : Before(name) # {}
  <1>1. Len(Masks) \in Nat
    BY Tables
  <1>2. failures = <<>> <=> \A b \in 0..(Len(Masks) - 1) : MissingBits(b) = {}
    BY <1>1 DEF MissingSoFar
  <1>3. ASSUME \A b \in 0..(Len(Masks) - 1) : MissingBits(b) = {}
        PROVE  \A name \in This.required : Before(name) # {}
    <2>. SUFFICES ASSUME NEW name \in This.required PROVE Before(name) # {}
      OBVIOUS
    <2>1. /\ name \in DOMAIN Bits /\ Bits[name].byte \in 0..(Len(Masks) - 1)
          /\ Bits[name].bit \in Masks[Bits[name].byte + 1]
      BY Tables
    <2>2. Bits[name].bit \in seen[Bits[name].byte + 1]
      BY <1>3, <2>1 DEF MissingBits
    <2>. QED  BY <2>1, <2>2 DEF BitsSoFar
  <1>4. ASSUME \A name \in This.required : Before(name) # {},
               NEW b \in 0..(Len(Masks) - 1)
        PROVE  MissingBits(b) = {}
    <2>. SUFFICES ASSUME NEW n \in Masks[b + 1] PROVE n \in seen[b + 1]
      BY DEF MissingBits
    <2>1. PICK name \in DOMAIN Bits : Bits[name].byte = b /\ Bits[name].bit = n
      BY Tables
    <2>2. name \in This.required
      BY Tables
    <2>. QED  BY <1>4, <2>1, <2>2 DEF BitsSoFar
  <1>. QED  BY <1>2, <1>3, <1>4

\* Every generated decoder takes exactly the well-formed documents, and its
\* message has the last mention of each member: for any document, of any
\* length (oas_json_gen.go:403-497, 1024-1185).
THEOREM DecodersDecode == DecoderSpec => []DecodesAsSpecified
  <1>1. DecoderInv => DecodesAsSpecified
    <2>. SUFFICES ASSUME DecoderInv, stage \in {"ok", "failed", "missing"}
                  PROVE  /\ stage = "ok" <=> WellFormed(This, doc)
                         /\ stage = "ok" => message = Message(This, doc)
      BY DEF DecodesAsSpecified
    <2>1. CASE stage = "failed"
      BY <2>1 DEF DecoderInv
    <2>2. CASE stage # "failed"
      <3>1. /\ MessageSoFar /\ BitsSoFar /\ MissingSoFar /\ byte = Len(Masks)
            /\ stage = "ok" <=> failures = <<>>
        BY <2>2 DEF DecoderInv
      <3>2. \A i \in DOMAIN doc : i < at
        BY <3>1 DEF DecoderInv, MissingSoFar
      <3>3. \A name : Before(name) = Places(doc, name)
        BY <3>2 DEF Before, Places
      <3>4. stage = "ok" <=> WellFormed(This, doc)
        <4>1. \A i \in DOMAIN doc : doc[i].name \in NamesOf(This) =>
                 Takes(TypeOf(This, doc[i].name), doc[i].value)
          BY <3>1, <3>2 DEF MessageSoFar
        <4>2. stage = "ok" <=> \A name \in This.required : Places(doc, name) # {}
          BY <3>1, <3>3, NothingMissing
        <4>. QED  BY <4>1, <4>2 DEF WellFormed
      <3>5. ASSUME NEW name \in NamesOf(This)
            PROVE  message[name] =
                     IF Places(doc, name) = {} THEN Unset
                     ELSE Read(TypeOf(This, name), doc[Max(Places(doc, name))].value)
        <4>1. CASE Places(doc, name) = {}
          BY <3>1, <3>3, <4>1 DEF MessageSoFar
        <4>2. CASE Places(doc, name) # {}
          <5>1. PICK last \in Places(doc, name) :
                  /\ \A i \in Places(doc, name) : i <= last
                  /\ message[name] = Read(TypeOf(This, name), doc[last].value)
            BY <3>1, <3>3, <4>2 DEF MessageSoFar
          <5>2. Places(doc, name) \subseteq Nat
            BY DEF Places, DecoderInv
          <5>3. Max(Places(doc, name)) = last
            BY <5>1, <5>2 DEF Max
          <5>. QED  BY <4>2, <5>1, <5>3
        <4>. QED  BY <4>1, <4>2
      <3>6. message = Message(This, doc)
        <4>1. message = [name \in NamesOf(This) |-> message[name]]
          BY <3>1 DEF MessageSoFar
        <4>. QED  BY <3>5, <4>1 DEF Message
      <3>. QED  BY <3>4, <3>6
    <2>. QED  BY <2>1, <2>2
  <1>. QED  BY <1>1, DecoderInvariance, PTL

\* A refusal for missing members names exactly those, in the order of the
\* type: for any document (oas_json_gen.go:1146-1183).
THEOREM MissingAreNamed == DecoderSpec => []NamesWhatIsMissing
  <1>1. DecoderInv => NamesWhatIsMissing
    <2>. SUFFICES ASSUME DecoderInv, stage = "missing"
                  PROVE  /\ ToSet(failures) = {name \in This.required : Places(doc, name) = {}}
                         /\ \A i, j \in DOMAIN failures : i < j =>
                               \E m, n \in DOMAIN Names :
                                  m < n /\ failures[i] = Names[m] /\ failures[j] = Names[n]
      BY DEF NamesWhatIsMissing
    <2>1. MissingSoFar /\ ReportedSoFar /\ byte = Len(Masks)
      BY DEF DecoderInv
    <2>2. \A name : Before(name) = Places(doc, name)
      BY <2>1 DEF Before, Places, DecoderInv, MissingSoFar
    <2>3. \A name \in DOMAIN Bits : Bits[name].byte < byte
      BY <2>1, Tables
    <2>4. ToSet(failures) = {name \in This.required : Places(doc, name) = {}}
      BY <2>1, <2>2, <2>3, Tables DEF ReportedSoFar
    <2>5. ASSUME NEW i \in DOMAIN failures, NEW j \in DOMAIN failures, i < j
          PROVE  \E m, n \in DOMAIN Names :
                    m < n /\ failures[i] = Names[m] /\ failures[j] = Names[n]
      <3>1. /\ i \in 1..Len(failures) /\ j \in 1..Len(failures)
            /\ failures[i] \in DOMAIN Bits /\ failures[j] \in DOMAIN Bits
        BY <2>1 DEF ReportedSoFar
      <3>2. Number(failures[i]) < Number(failures[j])
        BY <2>1, <2>5, <3>1 DEF ReportedSoFar
      <3>. DEFINE m == Number(failures[i]) + 1
                  n == Number(failures[j]) + 1
      <3>3. m \in DOMAIN Names /\ Names[m] = failures[i]
        BY <3>1, Numbers
      <3>4. n \in DOMAIN Names /\ Names[n] = failures[j]
        BY <3>1, Numbers
      <3>5. m < n
        BY <3>1, <3>2, Numbers
      <3>. QED  BY <3>3, <3>4, <3>5
    <2>. QED  BY <2>4, <2>5
  <1>. QED  BY <1>1, DecoderInvariance, PTL

\* Whatever message one side encodes the other decodes to the same message,
\* unset, null and set members told apart (oas_json_gen.go:901-937).
THEOREM MessagesSurvive == DecoderSpec => []RoundTrip
  <1>1. DecoderInv /\ DecodesAsSpecified => RoundTrip
    <2>. SUFFICES ASSUME DecoderInv, DecodesAsSpecified,
                         stage \in {"ok", "failed", "missing"}, sent # None
                  PROVE  stage = "ok" /\ message = sent
      BY DEF RoundTrip
    <2>1. doc = Encode(This, sent) /\ IsMessage(This, sent) /\ IsSchema(This)
      BY Numbers DEF DecoderInv, SentAsEncoded
    <2>2. WellFormed(This, doc) /\ Message(This, doc) = sent
      BY <2>1, EncodingsAreRead
    <2>. QED  BY <2>2 DEF DecodesAsSpecified
  <1>. QED  BY <1>1, DecoderInvariance, DecodersDecode, PTL
=============================================================================
