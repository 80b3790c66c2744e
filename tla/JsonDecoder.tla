----------------------------- MODULE JsonDecoder -----------------------------
(***************************************************************************)
(* The Decode methods of the API's messages, as they run: the callback of  *)
(* ObjBytes for each member in turn, then the check of the required        *)
(* members, a bit set per byte against its mask (oas_json_gen.go).  A byte *)
(* is the set of its bits that are 1.                                      *)
(***************************************************************************)
EXTENDS OrderJson

CONSTANTS
    Documents(_),    \* the documents a decoder is given, by its message type
    Messages(_)      \* the messages that are encoded for it

VARIABLES
    type,      \* the type whose decoder runs
    doc,       \* the document
    sent,      \* the message it is the encoding of, or None
    stage,     \* "members", "required", then "ok", "failed" or "missing"
    at,        \* the next member
    seen,      \* requiredBitSet
    message,   \* the message so far
    byte,      \* the byte that is checked, from 0
    result,    \* its bits that are still to be reported
    failures   \* the names reported missing

input == <<type, doc, sent>>
decoderVars == <<input, stage, at, seen, message, byte, result, failures>>

-----------------------------------------------------------------------------
(* The tables of the decoders: jsonFieldsNameOf..., the bit each required  *)
(* member sets and the masks.                                              *)
Decoder(schema, bits, masks) ==
    [schema |-> schema, bits |-> bits, masks |-> masks]

\* A bit by its byte and its place in it.
Bit(b, n) == [byte |-> b, bit |-> n]

CreateOrderRequestDecoder ==
    Decoder(CreateOrderRequest,
            [hull_uuid |-> Bit(0, 0), engine_uuid |-> Bit(0, 1)], <<{0, 1}>>)

CreateOrderResponseDecoder ==
    Decoder(CreateOrderResponse,
            [order_uuid |-> Bit(0, 0), total_price |-> Bit(0, 1)], <<{0, 1}>>)

PayOrderRequestDecoder ==
    Decoder(PayOrderRequest, [payment_method |-> Bit(0, 0)], <<{0}>>)

PayOrderResponseDecoder ==
    Decoder(PayOrderResponse, [transaction_uuid |-> Bit(0, 0)], <<{0}>>)

CancelOrderResponseDecoder == Decoder(CancelOrderResponse, <<>>, <<>>)

ErrorDecoder ==
    Decoder(Error, [code |-> Bit(0, 0), message |-> Bit(0, 1)], <<{0, 1}>>)

OrderDtoBits ==
    [order_uuid |-> Bit(0, 0), hull_uuid |-> Bit(0, 1), engine_uuid |-> Bit(0, 2),
     total_price |-> Bit(0, 5), status |-> Bit(1, 0), created_at |-> Bit(1, 1)]

\* Mutant of OrderDtoDecoder: the second byte is not masked.
OrderDtoOneMask == Decoder(OrderDto, OrderDtoBits, <<{0, 1, 2, 5}, {}>>)

OrderDtoDecoder == Decoder(OrderDto, OrderDtoBits, <<{0, 1, 2, 5}, {0, 1}>>)

-----------------------------------------------------------------------------
DecoderOf ==
    [CreateOrderRequest |-> CreateOrderRequestDecoder,
     CreateOrderResponse |-> CreateOrderResponseDecoder,
     PayOrderRequest |-> PayOrderRequestDecoder,
     PayOrderResponse |-> PayOrderResponseDecoder,
     CancelOrderResponse |-> CancelOrderResponseDecoder,
     OrderDto |-> OrderDtoDecoder, Error |-> ErrorDecoder]

\* What a decoder is given, by whomever it was written, is a sequence.
ASSUME DocumentsAssumption ==
    \A name \in DOMAIN DecoderOf : \A d \in Documents(name) :
        Len(d) \in Nat /\ DOMAIN d = 1..Len(d)

\* What an encoder is given is a value of its type.
ASSUME MessagesAssumption ==
    \A name \in DOMAIN DecoderOf :
        \A m \in Messages(name) : m # None /\ IsMessage(DecoderOf[name].schema, m)

This == DecoderOf[type].schema
Names == [i \in DOMAIN This.members |-> This.members[i].name]
Masks == DecoderOf[type].masks
Bits == DecoderOf[type].bits

DecoderInit ==
    /\ type \in DOMAIN DecoderOf
    /\ \/ sent = None /\ doc \in Documents(type)
       \/ sent \in Messages(type) /\ doc = Encode(This, sent)
    /\ stage = "members"
    /\ at = 1
    /\ seen = [b \in DOMAIN Masks |-> {}]
    /\ message = [name \in NamesOf(This) |-> Unset]
    /\ byte = 0
    /\ result = {}
    /\ failures = <<>>

Current == doc[at]
HasMember == stage = "members" /\ at <= Len(doc)

\* Mutant of MarkSeen: the byte is assigned, its other bits are lost.
MarkSeenAlone(name) ==
    seen' = IF name \in DOMAIN Bits
            THEN [seen EXCEPT ![Bits[name].byte + 1] = {Bits[name].bit}]
            ELSE seen

\* requiredBitSet[b] |= 1 << n, for a member that has a bit.
MarkSeen(name) ==
    seen' = IF name \in DOMAIN Bits
            THEN LET bit == Bits[name] IN
                    [seen EXCEPT ![bit.byte + 1] = @ \cup {bit.bit}]
            ELSE seen

\* default: return d.Skip().
SkipMember ==
    /\ HasMember
    /\ Current.name \notin NamesOf(This)
    /\ at' = at + 1
    /\ UNCHANGED <<input, stage, seen, message, byte, result, failures>>

\* A member the decoder knows and whose value it takes.
DecodeMember ==
    /\ HasMember
    /\ Current.name \in NamesOf(This)
    /\ Takes(TypeOf(This, Current.name), Current.value)
    /\ MarkSeen(Current.name)
    /\ message' = [message EXCEPT ![Current.name] =
                      Read(TypeOf(This, Current.name), Current.value)]
    /\ at' = at + 1
    /\ UNCHANGED <<input, stage, byte, result, failures>>

\* A value of another type ends the decoding.
FailMember ==
    /\ HasMember
    /\ Current.name \in NamesOf(This)
    /\ ~Takes(TypeOf(This, Current.name), Current.value)
    /\ MarkSeen(Current.name)
    /\ stage' = "failed"
    /\ UNCHANGED <<input, at, message, byte, result, failures>>

\* (requiredBitSet[b] & mask) ^ mask
MissingBits(b) == Masks[b + 1] \ seen[b + 1]

\* The first byte, at the end of the object, or the next one.
CheckByte(b) ==
    /\ byte' = b
    /\ result' = IF b < Len(Masks) THEN MissingBits(b) ELSE {}
    /\ UNCHANGED <<input, at, seen, message, failures>>

EndOfObject ==
    /\ stage = "members"
    /\ at > Len(doc)
    /\ stage' = "required"
    /\ CheckByte(0)

\* Mutant of Report: the bit is taken for the number of the member.
ReportBitOnly ==
    /\ stage = "required" /\ byte < Len(Masks)
    /\ result # {}
    /\ failures' = Append(failures, Names[Min(result) + 1])
    /\ result' = result \ {Min(result)}
    /\ UNCHANGED <<input, stage, at, seen, message, byte>>

\* TrailingZeros8: the lowest bit is reported by the name of its member and
\* reset.
Report ==
    /\ stage = "required" /\ byte < Len(Masks)
    /\ result # {}
    /\ failures' = Append(failures, Names[byte * 8 + Min(result) + 1])
    /\ result' = result \ {Min(result)}
    /\ UNCHANGED <<input, stage, at, seen, message, byte>>

NextByte ==
    /\ stage = "required" /\ byte < Len(Masks)
    /\ result = {}
    /\ UNCHANGED stage
    /\ CheckByte(byte + 1)

Finished ==
    /\ stage = "required" /\ byte = Len(Masks)
    /\ stage' = IF failures = <<>> THEN "ok" ELSE "missing"
    /\ UNCHANGED <<input, at, seen, message, byte, result, failures>>

DecoderNext ==
    \/ SkipMember \/ DecodeMember \/ FailMember
    \/ EndOfObject \/ Report \/ NextByte \/ Finished

DecoderSpec == DecoderInit /\ [][DecoderNext]_decoderVars

-----------------------------------------------------------------------------
(* Properties                                                              *)

\* The decoders compute what the API description says: a document is taken
\* exactly if it is well-formed, the required members by the description
\* and not by the masks, and its message is that of the last mention of
\* each member.  The order service and the client rely on it
\* (oas_json_gen.go:403-497, 1024-1185).
DecodesAsSpecified ==
    stage \in {"ok", "failed", "missing"} =>
        /\ stage = "ok" <=> WellFormed(This, doc)
        /\ stage = "ok" => message = Message(This, doc)

\* A document that is refused for what it lacks is refused for exactly
\* that: the names reported are the required members it never mentions, in
\* the order of the type, each once (oas_json_gen.go:1146-1183).
NamesWhatIsMissing ==
    stage = "missing" =>
        /\ ToSet(failures) = {name \in This.required : Places(doc, name) = {}}
        /\ \A i, j \in DOMAIN failures : i < j =>
              \E m, n \in DOMAIN Names :
                 m < n /\ failures[i] = Names[m] /\ failures[j] = Names[n]

\* What the encoder of one side writes the decoder of the other reads back,
\* unset, null and set members told apart (oas_json_gen.go:901-937).
RoundTrip ==
    stage \in {"ok", "failed", "missing"} /\ sent # None =>
        stage = "ok" /\ message = sent

-----------------------------------------------------------------------------
(* Why the decoders compute it: what is known after the members before at. *)

Before(name) == {i \in Places(doc, name) : i < at}

\* Every value so far was taken, and the message has the last mention of
\* each member.
MessageSoFar ==
    /\ \A i \in DOMAIN doc :
          i < at /\ doc[i].name \in NamesOf(This) =>
              Takes(TypeOf(This, doc[i].name), doc[i].value)
    /\ message = [name \in NamesOf(This) |-> message[name]]
    /\ \A name \in NamesOf(This) :
          \/ Before(name) = {} /\ message[name] = Unset
          \/ \E last \in Before(name) :
                /\ \A i \in Before(name) : i <= last
                /\ message[name] = Read(TypeOf(This, name), doc[last].value)

\* The bits are those of the required members that were mentioned.
BitsSoFar ==
    /\ DOMAIN seen = DOMAIN Masks
    /\ \A name \in DOMAIN Bits :
          Bits[name].bit \in seen[Bits[name].byte + 1] <=> Before(name) # {}

\* The bytes below byte lack nothing as long as nothing was reported, and
\* what was reported is missing.
MissingSoFar ==
    /\ at > Len(doc)
    /\ byte \in 0..Len(Masks)
    /\ byte < Len(Masks) => result \subseteq MissingBits(byte)
    /\ IF failures = <<>>
       THEN /\ \A b \in 0..(byte - 1) : MissingBits(b) = {}
            /\ byte < Len(Masks) => result = MissingBits(byte)
       ELSE \E b \in 0..(Len(Masks) - 1) : MissingBits(b) # {}

\* What was reported, when the bits of result are left of byte: the missing
\* members with a bit before those, in the order of the bits.
Number(name) == Bits[name].byte * 8 + Bits[name].bit

ReportedSoFar ==
    /\ failures \in Seq(DOMAIN Bits)
    /\ ToSet(failures) =
          {name \in DOMAIN Bits :
              /\ Before(name) = {}
              /\ \/ Bits[name].byte < byte
                 \/ Bits[name].byte = byte /\ Bits[name].bit \notin result}
    /\ \A i, j \in 1..Len(failures) :
          i < j => Number(failures[i]) < Number(failures[j])
    /\ \A name \in ToSet(failures) : Bits[name].byte = byte =>
          \A n \in result : Bits[name].bit < n

\* A message that was encoded is one of its type.
SentAsEncoded ==
    sent # None => doc = Encode(This, sent) /\ IsMessage(This, sent)

\* The inductive invariant of the decoders.
DecoderInv ==
    /\ type \in DOMAIN DecoderOf
    /\ Len(doc) \in Nat /\ DOMAIN doc = 1..Len(doc)
    /\ SentAsEncoded
    /\ at \in 1..(Len(doc) + 1)
    /\ stage \in {"members", "required", "ok", "failed", "missing"}
    /\ stage = "failed" => ~WellFormed(This, doc)
    /\ stage # "failed" => MessageSoFar /\ BitsSoFar
    /\ stage = "members" => failures = <<>>
    /\ stage \in {"required", "ok", "missing"} => MissingSoFar /\ ReportedSoFar
    /\ stage \in {"ok", "missing"} => byte = Len(Masks)
    /\ stage \in {"ok", "missing"} => (stage = "ok" <=> failures = <<>>)
=============================================================================
