---------------------------- MODULE OrderJsonProofs ----------------------------
(***************************************************************************)
(* Proofs about the messages of the API as JSON: what the encoder of one   *)
(* side writes is well-formed, and reads back as the message it was, for   *)
(* every type of message and every value of it.                            *)
(***************************************************************************)
EXTENDS OrderJson, FiniteSets, FiniteSetTheorems, TLAPS

(* Induction.  The induction theorems of the library cannot be cited, the  *)
(* well-foundedness they rest on can: a claim that fails somewhere fails   *)
(* somewhere first.                                                        *)

LEMMA SmallestNumber ==
    ASSUME NEW T \in SUBSET Nat, T # {}
    PROVE  \E m \in T : \A n \in T : m <= n
  <1>. DEFINE F == {0..n : n \in T}
  <1>1. PICK s \in F : \A t \in F : t \subseteq s => t = s
    <2>1. PICK n \in T : TRUE
      OBVIOUS
    <2>2. 0..n \in F
      BY <2>1
    <2>3. ASSUME NEW s \in F PROVE s \subseteq Nat /\ IsFiniteSet(s)
      <3>1. PICK k \in T : s = 0..k
        BY <2>3
      <3>2. k \in Int /\ 0 \in Int
        BY <3>1
      <3>. QED  BY <3>1, <3>2, FS_Interval
    <2>4. F # {} /\ \A s \in F : s \subseteq Nat /\ IsFiniteSet(s)
      BY <2>2, <2>3
    <2>. HIDE DEF F
    <2>5. IsWellFoundedOn(StrictSubsetOrdering(Nat), FiniteSubsetsOf(Nat))
      BY FS_StrictSubsetOrderingWellFounded
    <2>6. F \subseteq FiniteSubsetsOf(Nat)
      BY <2>4 DEF FiniteSubsetsOf
    <2>7. PICK s \in F : \A t \in F : ~(<<t, s>> \in StrictSubsetOrdering(Nat))
      BY <2>4, <2>5, <2>6, WFMin
    <2>8. \A t \in F : t \subseteq s => t = s
      BY <2>4, <2>7 DEF StrictSubsetOrdering
    <2>. QED  BY <2>8
  <1>2. PICK m \in T : s = 0..m
    OBVIOUS
  <1>3. ASSUME NEW n \in T PROVE m <= n
    <2>1. CASE n <= m
      <3>1. n \in Nat /\ m \in Nat /\ 0..n \in F
        OBVIOUS
      <3>2. 0..n \subseteq 0..m
        BY <2>1, <3>1
      <3>3. 0..n = 0..m
        BY <1>1, <1>2, <3>1, <3>2
      <3>. QED  BY <3>1, <3>3
    <2>2. CASE ~(n <= m)
      BY <2>2
    <2>. QED  BY <2>1, <2>2
  <1>. QED  BY <1>3

\* The last of some places in a sequence is one of them.
LEMMA LastPlace ==
    ASSUME NEW n \in Nat, NEW T \in SUBSET (1..n), T # {}
    PROVE  Max(T) \in T /\ \A i \in T : i <= Max(T)
  <1>. DEFINE U == {n - i : i \in T}
  <1>1. PICK m \in U : \A k \in U : m <= k
    <2>1. \A i \in T : n - i \in Nat
      OBVIOUS
    <2>2. U \in SUBSET Nat /\ U # {}
      BY <2>1
    <2>. HIDE DEF U
    <2>. QED  BY <2>2, SmallestNumber
  <1>2. PICK last \in T : m = n - last
    OBVIOUS
  <1>3. ASSUME NEW i \in T PROVE last >= i
    <2>1. n - i \in U
      OBVIOUS
    <2>2. n - last <= n - i
      BY <1>1, <1>2, <2>1
    <2>. QED  BY <2>2
  <1>4. \E x \in T : \A y \in T : x >= y
    BY <1>3
  <1>5. Max(T) \in T /\ \A y \in T : Max(T) >= y
    BY <1>4 DEF Max
  <1>. QED  BY <1>5

-----------------------------------------------------------------------------
(* Encoding.                                                               *)

\* A number of which a claim fails has a least one.
LEMMA FirstFailure ==
    ASSUME NEW T \in SUBSET Nat, NEW S \in SUBSET T, S # {}
    PROVE  \E m \in S : \A n \in T : n < m => n \notin S
  <1>1. S \in SUBSET Nat
    OBVIOUS
  <1>2. PICK m \in S : \A n \in S : m <= n
    BY <1>1, SmallestNumber
  <1>3. \A n \in T : n < m => n \notin S
    BY <1>1, <1>2
  <1>. QED  BY <1>3

\* One step of the encoding.
Step(members, message, text, n) ==
    text \o Field(members[n].name, message[members[n].name])

\* The texts written after 0 to n members.
Written(members, message, n, w) ==
    w = [i \in 0..n |-> IF i = 0 THEN <<>> ELSE Step(members, message, w[i - 1], i)]

\* The encoder's recursion has a solution.
LEMMA EncoderWrites ==
    ASSUME NEW members, NEW message, NEW K \in Nat
    PROVE  \E w : Written(members, message, K, w)
  <1>. DEFINE Bad == {n \in 0..K : ~ \E w : Written(members, message, n, w)}
  <1>1. SUFFICES ASSUME Bad # {} PROVE FALSE
    <2>1. K \in 0..K
      OBVIOUS
    <2>. QED  BY <2>1
  <1>2. PICK n \in Bad : \A k \in 0..K : k < n => k \notin Bad
    <2>1. 0..K \in SUBSET Nat /\ Bad \in SUBSET (0..K)
      OBVIOUS
    <2>. HIDE DEF Bad
    <2>. QED  BY <1>1, <2>1, FirstFailure
  <1>3. n \in 0..K /\ n \in Nat
    OBVIOUS
  <1>4. CASE n = 0
    <2>. DEFINE w == [i \in 0..0 |-> <<>>]
    <2>1. Written(members, message, n, w)
      BY <1>4 DEF Written
    <2>. QED  BY <2>1
  <1>5. CASE n > 0
    <2>1. n - 1 \in 0..K /\ n - 1 < n
      BY <1>3, <1>5
    <2>2. PICK v : Written(members, message, n - 1, v)
      BY <1>2, <2>1
    <2>. DEFINE w == [i \in 0..n |-> IF i = n THEN Step(members, message, v[n - 1], n) ELSE v[i]]
    <2>3. \A i \in 0..(n - 1) : w[i] = v[i]
      BY <1>3
    <2>4. ASSUME NEW i \in 0..n
          PROVE  w[i] = IF i = 0 THEN <<>> ELSE Step(members, message, w[i - 1], i)
      <3>1. CASE i = n
        BY <1>3, <1>5, <2>1, <2>3, <3>1
      <3>2. CASE i # n
        <4>1. i \in 0..(n - 1) /\ (i # 0 => i - 1 \in 0..(n - 1))
          BY <1>3, <3>2
        <4>2. v[i] = IF i = 0 THEN <<>> ELSE Step(members, message, v[i - 1], i)
          BY <2>2, <4>1 DEF Written
        <4>. QED  BY <2>3, <4>1, <4>2
      <3>. QED  BY <3>1, <3>2
    <2>5. w = [i \in 0..n |-> IF i = 0 THEN <<>> ELSE Step(members, message, w[i - 1], i)]
      <3>. HIDE DEF w
      <3>1. w = [i \in 0..n |-> w[i]]
        BY DEF w
      <3>. QED  BY <2>4, <3>1
    <2>6. Written(members, message, n, w)
      <3>. HIDE DEF w
      <3>. QED  BY <2>5 DEF Written
    <2>. QED  BY <2>6
  <1>. QED  BY <1>3, <1>4, <1>5

LEMMA EncodeIsWritten ==
    ASSUME NEW schema, NEW message, Len(schema.members) \in Nat
    PROVE  \E w : /\ Written(schema.members, message, Len(schema.members), w)
                  /\ Encode(schema, message) = w[Len(schema.members)]
  <1>. DEFINE W(w) == w = [n \in 0..Len(schema.members) |->
                            IF n = 0 THEN <<>>
                            ELSE w[n - 1] \o Field(schema.members[n].name,
                                                   message[schema.members[n].name])]
  <1>1. Encode(schema, message) = (CHOOSE w : W(w))[Len(schema.members)]
    BY DEF Encode
  <1>2. \A w : W(w) <=> Written(schema.members, message, Len(schema.members), w)
    BY DEF Written, Step
  <1>3. \E w : W(w)
    BY <1>2, EncoderWrites
  <1>4. W(CHOOSE w : W(w))
    <2>. HIDE DEF W
    <2>. QED  BY <1>3
  <1>. QED  BY <1>1, <1>2, <1>4

\* The member that the jth of the type writes.
Jth(members, message, j) == Member(members[j].name, message[members[j].name])
Set(members, message, j) == message[members[j].name] # Unset

\* What has been written after n members: these and only these.
Writes(members, message, n, text) ==
    /\ text \in Seq({Jth(members, message, j) : j \in 1..Len(members)})
    /\ \A i \in 1..Len(text) : \E j \in 1..n :
          text[i] = Jth(members, message, j) /\ Set(members, message, j)
    /\ \A j \in 1..n : Set(members, message, j) =>
          \E i \in 1..Len(text) : text[i] = Jth(members, message, j)

LEMMA StepWrites ==
    ASSUME NEW members, NEW message, Len(members) \in Nat, NEW n \in 1..Len(members),
           NEW text, Writes(members, message, n - 1, text)
    PROVE  Writes(members, message, n, Step(members, message, text, n))
  <1>. DEFINE A == {Jth(members, message, j) : j \in 1..Len(members)}
              m == Jth(members, message, n)
              new == Step(members, message, text, n)
  <1>1. /\ text \in Seq(A) /\ m \in A /\ Len(text) \in Nat
        /\ n \in Nat /\ \A j : j \in 1..n <=> j \in 1..(n - 1) \/ j = n
    BY DEF Writes
  <1>2. CASE ~Set(members, message, n)
    <2>1. new = text
      <3>1. Field(members[n].name, message[members[n].name]) = <<>>
        BY <1>2 DEF Field, Set
      <3>2. text \o <<>> = text
        BY <1>1
      <3>. QED  BY <3>1, <3>2 DEF Step
    <2>. QED  BY <1>1, <1>2, <2>1 DEF Writes
  <1>3. CASE Set(members, message, n)
    <2>1. new = text \o <<m>>
      BY <1>3 DEF Field, Set, Step, Jth
    <2>. HIDE DEF A, m, new
    <2>2. /\ new \in Seq(A) /\ Len(new) = Len(text) + 1 /\ new[Len(text) + 1] = m
          /\ \A i \in 1..Len(text) : new[i] = text[i]
      BY <1>1, <2>1
    <2>3. \A i \in 1..Len(new) : i \in 1..Len(text) \/ i = Len(text) + 1
      BY <1>1, <2>2
    <2>4. \A i \in 1..Len(text) : i \in 1..Len(new)
      BY <1>1, <2>2
    <2>5. \A i \in 1..Len(new) : \E j \in 1..n :
             new[i] = Jth(members, message, j) /\ Set(members, message, j)
      BY <1>1, <1>3, <2>2, <2>3 DEF Writes, m
    <2>6. Len(text) + 1 \in 1..Len(new)
      BY <1>1, <2>2
    <2>7. \A j \in 1..n : Set(members, message, j) =>
             \E i \in 1..Len(new) : new[i] = Jth(members, message, j)
      BY <1>1, <2>2, <2>4, <2>6 DEF Writes, m
    <2>. QED  BY <2>2, <2>5, <2>7 DEF Writes, A, new
  <1>. QED  BY <1>2, <1>3

\* What the encoder writes are the members that are set.
LEMMA EncodeWrites ==
    ASSUME NEW schema, NEW message, Len(schema.members) \in Nat
    PROVE  Writes(schema.members, message, Len(schema.members), Encode(schema, message))
  <1>. DEFINE members == schema.members
              K == Len(members)
  <1>1. PICK w : Written(members, message, K, w) /\ Encode(schema, message) = w[K]
    BY EncodeIsWritten
  <1>. DEFINE Bad == {n \in 0..K : ~Writes(members, message, n, w[n])}
  <1>2. SUFFICES ASSUME Bad # {} PROVE FALSE
    <2>1. K \in 0..K
      OBVIOUS
    <2>. QED  BY <1>1, <2>1
  <1>3. PICK n \in Bad : \A k \in 0..K : k < n => k \notin Bad
    <2>1. 0..K \in SUBSET Nat /\ Bad \in SUBSET (0..K)
      OBVIOUS
    <2>. HIDE DEF Bad
    <2>. QED  BY <1>2, <2>1, FirstFailure
  <1>4. n \in 0..K /\ n \in Nat /\ ~Writes(members, message, n, w[n])
    OBVIOUS
  <1>5. w[n] = IF n = 0 THEN <<>> ELSE Step(members, message, w[n - 1], n)
    BY <1>1, <1>4 DEF Written
  <1>6. CASE n = 0
    BY <1>4, <1>5, <1>6 DEF Writes
  <1>7. CASE n > 0
    <2>1. n - 1 \in 0..K /\ n - 1 < n /\ n \in 1..K
      BY <1>4, <1>7
    <2>2. Writes(members, message, n - 1, w[n - 1])
      BY <1>3, <2>1
    <2>3. Writes(members, message, n, w[n])
      BY <1>5, <1>7, <2>1, <2>2, StepWrites
    <2>. QED  BY <1>4, <2>3
  <1>. QED  BY <1>4, <1>6, <1>7

-----------------------------------------------------------------------------
(* Reading back.                                                           *)

\* A type of messages: a sequence of members, the required among them.
IsSchema(schema) ==
    /\ Len(schema.members) \in Nat
    /\ DOMAIN schema.members = 1..Len(schema.members)
    /\ schema.required \subseteq NamesOf(schema)

\* What an encoder writes is a document the decoders take, and it stands
\* for the message that was written (oas_json_gen.go: every Encode against
\* the Decode of its type).
THEOREM EncodingsAreRead ==
    ASSUME NEW schema, NEW message, IsSchema(schema), IsMessage(schema, message)
    PROVE  LET doc == Encode(schema, message) IN
           /\ Len(doc) \in Nat /\ DOMAIN doc = 1..Len(doc)
           /\ WellFormed(schema, doc)
           /\ Message(schema, doc) = message
  <1>. DEFINE doc == Encode(schema, message)
              K == Len(schema.members)
  <1>1. Writes(schema.members, message, K, doc)
    BY EncodeWrites DEF IsSchema
  <1>2. Len(doc) \in Nat /\ DOMAIN doc = 1..Len(doc)
    BY <1>1 DEF Writes
  <1>3. NamesOf(schema) = {schema.members[j].name : j \in 1..K}
    BY DEF NamesOf, ToSet, IsSchema
  <1>4. ASSUME NEW i \in DOMAIN doc
        PROVE  /\ doc[i].name \in NamesOf(schema)
               /\ doc[i].value = message[doc[i].name] /\ message[doc[i].name] # Unset
    <2>1. PICK j \in 1..K : doc[i] = Jth(schema.members, message, j)
                            /\ Set(schema.members, message, j)
      BY <1>1, <1>2, <1>4 DEF Writes
    <2>. QED  BY <1>3, <2>1 DEF Jth, Set, Member
  <1>5. ASSUME NEW name \in NamesOf(schema), message[name] # Unset
        PROVE  Places(doc, name) # {}
    <2>1. PICK j \in 1..K : schema.members[j].name = name
      BY <1>3
    <2>2. PICK i \in 1..Len(doc) : doc[i] = Jth(schema.members, message, j)
      BY <1>1, <1>5, <2>1 DEF Writes, Set
    <2>. QED  BY <1>2, <2>1, <2>2 DEF Places, Jth, Member
  <1>6. WellFormed(schema, doc)
    <2>1. \A i \in DOMAIN doc : Takes(TypeOf(schema, doc[i].name), doc[i].value)
      BY <1>4 DEF IsMessage
    <2>2. \A name \in schema.required : Places(doc, name) # {}
      BY <1>5 DEF IsMessage, IsSchema
    <2>. QED  BY <2>1, <2>2 DEF WellFormed
  <1>7. ASSUME NEW name \in NamesOf(schema)
        PROVE  message[name] =
                 IF Places(doc, name) = {} THEN Unset
                 ELSE Read(TypeOf(schema, name), doc[Max(Places(doc, name))].value)
    <2>1. CASE Places(doc, name) = {}
      BY <1>5, <2>1
    <2>2. CASE Places(doc, name) # {}
      <3>1. Max(Places(doc, name)) \in Places(doc, name)
        <4>1. Places(doc, name) \in SUBSET (1..Len(doc))
          BY <1>2 DEF Places
        <4>. HIDE DEF doc
        <4>. QED  BY <1>2, <2>2, <4>1, LastPlace
      <3>2. doc[Max(Places(doc, name))].value = message[name] /\ message[name] # Unset
        BY <1>4, <3>1 DEF Places
      <3>. QED  BY <2>2, <3>2 DEF IsMessage
    <2>. QED  BY <2>1, <2>2
  <1>8. Message(schema, doc) = message
    <2>1. message = [name \in NamesOf(schema) |-> message[name]]
      BY DEF IsMessage
    <2>. HIDE DEF doc
    <2>. QED  BY <1>7, <2>1 DEF Message
  <1>. QED  BY <1>2, <1>6, <1>8
=============================================================================
