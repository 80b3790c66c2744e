------------------------- MODULE InventoryServerProofs -------------------------
(***************************************************************************)
(* Proofs about InventoryServer, for every catalog and every request: the  *)
(* loops of the handlers answer what the operators of Inventory say.       *)
(***************************************************************************)
EXTENDS InventoryServer, FiniteSetTheorems, SequenceTheorems, TLAPS

(* Sequences without repetitions.                                          *)

\* One more element that was not there yet.
LEMMA AppendNew ==
    ASSUME NEW A, NEW s \in Seq(A), IsInjective(s), NEW x \in A, x \notin ToSet(s)
    PROVE  /\ Append(s, x) \in Seq(A) /\ IsInjective(Append(s, x))
           /\ ToSet(Append(s, x)) = ToSet(s) \cup {x}
  <1>. DEFINE t == Append(s, x)
  <1>1. /\ t \in Seq(A) /\ Len(t) = Len(s) + 1 /\ Len(s) \in Nat
        /\ DOMAIN t = 1..Len(s) + 1 /\ DOMAIN s = 1..Len(s)
    OBVIOUS
  <1>2. \A i \in 1..Len(s) : t[i] = s[i]
    OBVIOUS
  <1>3. t[Len(s) + 1] = x
    OBVIOUS
  <1>. HIDE DEF t
  <1>4. IsInjective(t)
    <2>. SUFFICES ASSUME NEW i \in DOMAIN t, NEW j \in DOMAIN t, t[i] = t[j]
                  PROVE i = j
      BY DEF IsInjective
    <2>1. CASE i \in DOMAIN s /\ j \in DOMAIN s
      BY <2>1, <1>1, <1>2 DEF IsInjective
    <2>2. \A k \in DOMAIN s : s[k] \in ToSet(s)
      BY DEF ToSet
    <2>. QED  BY <2>1, <2>2, <1>1, <1>2, <1>3
  <1>5. ToSet(t) = ToSet(s) \cup {x}
    <2>1. ASSUME NEW i \in DOMAIN t PROVE t[i] \in ToSet(s) \cup {x}
      <3>1. i \in DOMAIN s \/ i = Len(s) + 1
        BY <1>1
      <3>. QED  BY <3>1, <1>1, <1>2, <1>3 DEF ToSet
    <2>2. ASSUME NEW i \in DOMAIN s PROVE s[i] \in ToSet(t)
      BY <1>1, <1>2 DEF ToSet
    <2>3. x \in ToSet(t)
      <3>1. Len(s) + 1 \in DOMAIN t
        BY <1>1
      <3>. QED  BY <3>1, <1>3 DEF ToSet
    <2>. QED  BY <2>1, <2>2, <2>3 DEF ToSet
  <1>. QED  BY <1>1, <1>4, <1>5 DEF t

\* The first element, and the others.
LEMMA HeadAndTail ==
    ASSUME NEW A, NEW s \in Seq(A), IsInjective(s), s # <<>>
    PROVE  /\ Head(s) \in A /\ Head(s) \in ToSet(s) /\ Head(s) \notin ToSet(Tail(s))
           /\ Tail(s) \in Seq(A) /\ IsInjective(Tail(s))
           /\ ToSet(s) = {Head(s)} \cup ToSet(Tail(s))
  <1>. DEFINE t == Tail(s)
  <1>1. /\ Len(s) \in Nat /\ Len(s) > 0 /\ DOMAIN s = 1..Len(s)
        /\ t \in Seq(A) /\ Len(t) = Len(s) - 1 /\ DOMAIN t = 1..Len(s) - 1
    OBVIOUS
  <1>2. \A i \in DOMAIN t : t[i] = s[i + 1] /\ i + 1 \in DOMAIN s
    OBVIOUS
  <1>3. Head(s) = s[1] /\ 1 \in DOMAIN s
    BY <1>1
  <1>4. Head(s) \in A
    OBVIOUS
  <1>. HIDE DEF t
  <1>5. IsInjective(t)
    <2>. SUFFICES ASSUME NEW i \in DOMAIN t, NEW j \in DOMAIN t, t[i] = t[j]
                  PROVE i = j
      BY DEF IsInjective
    <2>1. i + 1 = j + 1
      BY <1>2 DEF IsInjective
    <2>. QED  BY <2>1, <1>1
  <1>6. Head(s) \notin ToSet(t)
    <2>. SUFFICES ASSUME NEW i \in DOMAIN t, t[i] = Head(s) PROVE FALSE
      BY DEF ToSet
    <2>1. i + 1 = 1
      BY <1>2, <1>3 DEF IsInjective
    <2>. QED  BY <2>1, <1>1
  <1>7. ToSet(s) = {Head(s)} \cup ToSet(t)
    <2>1. ASSUME NEW i \in DOMAIN s PROVE s[i] \in {Head(s)} \cup ToSet(t)
      <3>1. CASE i = 1
        BY <3>1, <1>3
      <3>2. CASE i # 1
        <4>1. i - 1 \in DOMAIN t /\ (i - 1) + 1 = i
          BY <3>2, <1>1
        <4>. QED  BY <4>1, <1>2 DEF ToSet
      <3>. QED  BY <3>1, <3>2
    <2>2. ToSet(t) \subseteq ToSet(s) /\ Head(s) \in ToSet(s)
      BY <1>2, <1>3 DEF ToSet
    <2>. QED  BY <2>1, <2>2 DEF ToSet
  <1>. QED  BY <1>1, <1>3, <1>4, <1>5, <1>6, <1>7 DEF t, ToSet

\* What SetToSeqs has is a sequence of all of the set, each once.
LEMMA Enumerations ==
    ASSUME NEW S, IsFiniteSet(S), NEW s \in SetToSeqs(S)
    PROVE  s \in Seq(S) /\ IsInjective(s) /\ ToSet(s) = S
  <1>1. Cardinality(S) \in Nat
    BY FS_CardinalityType
  <1>. DEFINE n == Cardinality(S)
  <1>2. s \in [1..n -> S] /\ \A i, j \in 1..n : i # j => s[i] # s[j]
    BY DEF SetToSeqs
  <1>3. s \in Seq(S)
    BY <1>1, <1>2
  <1>4. IsInjective(s)
    BY <1>2 DEF IsInjective
  <1>5. IsFiniteSet(1..n) /\ Cardinality(1..n) = n
    BY <1>1, FS_Interval
  <1>6. s \in Injection(1..n, S)
    BY <1>2, <1>4 DEF Injection
  <1>7. s \in Surjection(1..n, S)
    BY <1>5, <1>6, FS_Injection
  <1>8. ToSet(s) = S
    BY <1>2, <1>7 DEF Surjection, ToSet
  <1>. QED  BY <1>3, <1>4, <1>8

\* Of some places in a sequence one is the first.
LEMMA FirstPlace ==
    ASSUME NEW n \in Nat, NEW T \in SUBSET (1..n), T # {}
    PROVE  \E m \in T : \A i \in T : m <= i
  <1>. DEFINE F == {1..i : i \in T}
  <1>1. \A i \in T : i \in Nat /\ 1..i \subseteq Nat /\ 1..i \in F
    OBVIOUS
  <1>2. F # {} /\ F \subseteq FiniteSubsetsOf(Nat)
    <2>1. ASSUME NEW i \in T PROVE 1..i \in FiniteSubsetsOf(Nat)
      <3>1. 1 \in Int /\ i \in Int
        OBVIOUS
      <3>2. IsFiniteSet(1..i)
        BY <3>1, FS_Interval
      <3>. QED  BY <3>2, <1>1 DEF FiniteSubsetsOf
    <2>. QED  BY <2>1
  <1>. HIDE DEF F
  <1>3. PICK s \in F : \A t \in F : ~(<<t, s>> \in StrictSubsetOrdering(Nat))
    <2>1. IsWellFoundedOn(StrictSubsetOrdering(Nat), FiniteSubsetsOf(Nat))
      BY FS_StrictSubsetOrderingWellFounded
    <2>. QED  BY <2>1, <1>2, WFMin
  <1>4. PICK m \in T : s = 1..m
    BY DEF F
  <1>5. ASSUME NEW i \in T, ~(m <= i) PROVE FALSE
    <2>1. i \in Nat /\ m \in Nat /\ 1..i \in F
      BY <1>1
    <2>2. 1..i \subseteq 1..m /\ m \in 1..m /\ m \notin 1..i
      BY <2>1, <1>1, <1>5
    <2>3. 1..i \subseteq Nat /\ 1..m \subseteq Nat
      BY <1>1
    <2>. QED  BY <2>1, <2>2, <2>3, <1>3, <1>4 DEF StrictSubsetOrdering
  <1>. QED  BY <1>5

\* Parts of different names have one order by name.
LEMMA OneOrder ==
    ASSUME NEW S, IsFiniteSet(S), \A p \in S : p.name \in Nat,
           NEW s \in SetToSeqs(S), NEW t \in SetToSeqs(S), Sorted(s), Sorted(t), ~Twins(t)
    PROVE  s = t
  <1>. DEFINE n == Cardinality(S)
              differs == {i \in 1..n : s[i] # t[i]}
  <1>1. n \in Nat /\ s \in [1..n -> S] /\ t \in [1..n -> S]
    BY FS_CardinalityType DEF SetToSeqs
  <1>2. IsInjective(s) /\ IsInjective(t) /\ ToSet(s) = S /\ ToSet(t) = S
    BY Enumerations
  <1>3. CASE differs = {}
    BY <1>1, <1>3
  <1>4. CASE differs # {}
    <2>1. PICK m \in differs : \A i \in differs : m <= i
      BY <1>1, <1>4, FirstPlace
    <2>2. m \in 1..n /\ s[m] # t[m] /\ \A i \in 1..n : i < m => s[i] = t[i]
      BY <1>1, <2>1
    <2>. HIDE DEF differs
    <2>3. PICK j \in 1..n : t[j] = s[m]
      BY <1>1, <1>2, <2>2 DEF ToSet
    <2>4. PICK k \in 1..n : s[k] = t[m]
      BY <1>1, <1>2, <2>2 DEF ToSet
    <2>5. m < j
      <3>1. j # m
        BY <2>2, <2>3
      <3>2. ~(j < m)
        BY <1>1, <1>2, <2>2, <2>3, <3>1 DEF IsInjective
      <3>. QED  BY <1>1, <2>2, <3>1, <3>2
    <2>6. m < k
      <3>1. k # m
        BY <2>2, <2>4
      <3>2. ~(k < m)
        BY <1>1, <1>2, <2>2, <2>4, <3>1 DEF IsInjective
      <3>. QED  BY <1>1, <2>2, <3>1, <3>2
    <2>7. s[m].name <= s[k].name
      BY <1>1, <2>2, <2>6 DEF Sorted
    <2>8. t[m].name <= t[j].name
      BY <1>1, <2>2, <2>5 DEF Sorted
    <2>9. t[m].name \in Nat /\ t[j].name \in Nat
      BY <1>1, <2>2
    <2>10. t[m].name = t[j].name /\ m # j
      BY <2>3, <2>4, <2>5, <2>7, <2>8, <2>9, <2>2, <1>1
    <2>. QED  BY <1>1, <2>2, <2>10 DEF Twins
  <1>. QED  BY <1>3, <1>4

\* The parts of a map of finitely many.
LEMMA PartsAreFew ==
    ASSUME NEW type
    PROVE  /\ IsFiniteSet(OfType(type))
           /\ OfType(type) \subseteq PartsOfCatalog(DOMAIN Catalog)
           /\ \A p \in OfType(type) : p.name \in Nat
  <1>. DEFINE ids == {id \in DOMAIN Catalog : type \in {"UNSPECIFIED", Catalog[id].type}}
              f == [id \in ids |-> Catalog[id]]
  <1>1. IsFiniteSet(ids)
    BY CatalogAssumption, FS_Subset
  <1>2. OfType(type) = {Catalog[id] : id \in ids}
    BY DEF OfType
  <1>3. f \in Surjection(ids, OfType(type))
    BY <1>2 DEF Surjection
  <1>4. IsFiniteSet(OfType(type))
    BY <1>1, <1>3, FS_Surjection
  <1>5. OfType(type) \subseteq PartsOfCatalog(DOMAIN Catalog)
    BY <1>2 DEF PartsOfCatalog
  <1>6. \A p \in OfType(type) : p.name \in Nat
    BY <1>2, CatalogAssumption DEF IsPart
  <1>. QED  BY <1>4, <1>5, <1>6

-----------------------------------------------------------------------------
(* The messages, and what is asked of an answer.                           *)

LEMMA CallsAre ==
    ASSUME call \in Calls
    PROVE  /\ "uuids" \in DOMAIN call <=> "id" \notin DOMAIN call
           /\ "uuids" \in DOMAIN call =>
                 /\ Len(call.uuids) \in Nat
                 /\ DOMAIN call.uuids = 1..Len(call.uuids)
                 /\ call.uuids = <<>> <=> Len(call.uuids) = 0
  <1>1. CASE DOMAIN call = {"id"}
    BY <1>1
  <1>2. CASE /\ DOMAIN call = {"uuids", "type"}
             /\ call.uuids = [i \in 1..Len(call.uuids) |-> call.uuids[i]]
             /\ Len(call.uuids) \in Nat
    <2>1. DOMAIN call.uuids = 1..Len(call.uuids)
      BY <1>2
    <2>2. ASSUME Len(call.uuids) = 0 PROVE call.uuids = <<>>
      <3>1. call.uuids = [i \in 1..0 |-> call.uuids[i]]
        BY <1>2, <2>2
      <3>2. [i \in 1..0 |-> call.uuids[i]] = <<>>
        OBVIOUS
      <3>. QED  BY <3>1, <3>2
    <2>3. call.uuids = <<>> => Len(call.uuids) = 0
      OBVIOUS
    <2>. QED  BY <1>2, <2>1, <2>2, <2>3
  <1>. QED  BY <1>1, <1>2, CallsAssumption

\* A step to an answer preserves the invariant if the answer is as specified.
LEMMA FinishPreserves ==
    ASSUME ServerInv, stage' = "done", UNCHANGED call,
           AnswersAsSpecified', ListIsCompleteAndSorted'
    PROVE  ServerInv'
  BY DEF ServerInv, LookedUp, Visited, Filtered, Gathered

\* An answer to a call that is not by type.
LEMMA AnswerPreserves ==
    ASSUME ServerInv, NEW answer, Finish(answer), UNCHANGED call, ~ByType,
           answer = IF "id" \in DOMAIN call THEN GetPart(call.id)
                    ELSE ListParts(call.uuids, call.type)
    PROVE  ServerInv'
  <1>1. stage' = "done" /\ result' = answer /\ ~ByType'
    BY DEF Finish, ByType
  <1>2. AnswersAsSpecified'
    BY <1>1 DEF AnswersAsSpecified
  <1>3. ListIsCompleteAndSorted'
    BY <1>1 DEF ListIsCompleteAndSorted
  <1>. QED  BY <1>1, <1>2, <1>3, FinishPreserves

-----------------------------------------------------------------------------
(* GetPart, and ListParts by identifiers.                                  *)

LEMMA GetPartPreserves ==
    ASSUME ServerInv, GetPartCall PROVE ServerInv'
  <1>. DEFINE answer == IF ~Parses(call.id) THEN Failed("InvalidArgument")
                        ELSE IF call.id \notin DOMAIN Catalog THEN Failed("NotFound")
                        ELSE Listed(<<Catalog[call.id]>>)
  <1>1. Finish(answer) /\ UNCHANGED call /\ "id" \in DOMAIN call
    BY DEF GetPartCall
  <1>2. ~ByType
    BY <1>1, CallsAre DEF ServerInv, ByType
  <1>3. answer = GetPart(call.id)
    BY DEF GetPart, Lookup
  <1>. HIDE DEF answer
  <1>. QED  BY <1>1, <1>2, <1>3, AnswerPreserves

LEMMA ListPartsPreserves ==
    ASSUME ServerInv, ListPartsCall PROVE ServerInv'
  <1>1. /\ stage = "idle" /\ found = <<>> /\ call \in Calls /\ "uuids" \in DOMAIN call
        /\ UNCHANGED <<call, found, result>>
    BY DEF ListPartsCall, ServerInv
  <1>2. /\ Len(call.uuids) \in Nat /\ DOMAIN call.uuids = 1..Len(call.uuids)
        /\ call.uuids = <<>> <=> Len(call.uuids) = 0
        /\ call.uuids = [i \in 1..Len(call.uuids) |-> call.uuids[i]]
    BY <1>1, CallsAre, CallsAssumption
  <1>3. CASE Len(call.uuids) > 0
    <2>1. stage' = "uuids" /\ todo' = call.uuids
      BY <1>3 DEF ListPartsCall
    <2>2. LookedUp'
      <3>1. Len(call.uuids) - Len(call.uuids) = 0
        BY <1>2
      <3>2. found = [i \in 1..0 |-> Catalog[call.uuids[i]]]
        BY <1>1
      <3>3. call.uuids = [i \in 1..Len(call.uuids) |-> call.uuids[0 + i]]
        BY <1>2
      <3>. QED  BY <1>1, <1>2, <1>3, <2>1, <3>1, <3>2, <3>3 DEF LookedUp
    <2>. QED  BY <1>1, <2>1, <2>2
              DEF ServerInv, Visited, Filtered, Gathered, AnswersAsSpecified,
                  ListIsCompleteAndSorted
  <1>4. CASE ~(Len(call.uuids) > 0)
    <2>1. stage' = "visiting" /\ todo' = DOMAIN Catalog
      BY <1>4 DEF ListPartsCall
    <2>2. ByType'
      BY <1>1, <1>2, <1>4 DEF ByType
    <2>3. Visited'
      <3>1. found \in Seq(PartsOfCatalog(DOMAIN Catalog)) /\ IsInjective(found)
        BY <1>1 DEF IsInjective
      <3>2. ToSet(found) = PartsOfCatalog(DOMAIN Catalog \ DOMAIN Catalog)
        BY <1>1 DEF ToSet, PartsOfCatalog
      <3>. QED  BY <1>1, <2>1, <3>1, <3>2 DEF Visited
    <2>. QED  BY <1>1, <2>1, <2>2, <2>3
              DEF ServerInv, LookedUp, Filtered, Gathered, AnswersAsSpecified,
                  ListIsCompleteAndSorted
  <1>. QED  BY <1>3, <1>4

\* Where the loop over the identifiers stands.
LEMMA NextUuid ==
    ASSUME ServerInv, stage = "uuids", todo # <<>>
    PROVE  /\ call \in Calls /\ "uuids" \in DOMAIN call /\ ~ByType
           /\ \E k \in 0..(Len(call.uuids) - 1) :
                 /\ k = Len(call.uuids) - Len(todo)
                 /\ Head(todo) = call.uuids[k + 1]
                 /\ Len(Tail(todo)) = Len(call.uuids) - (k + 1)
                 /\ Tail(todo) = [i \in 1..Len(Tail(todo)) |-> call.uuids[(k + 1) + i]]
                 /\ found = [i \in 1..k |-> Catalog[call.uuids[i]]]
                 /\ \A i \in 1..k : Lookup(call.uuids[i]) = "OK"
  <1>. DEFINE k == Len(call.uuids) - Len(todo)
  <1>1. /\ call \in Calls /\ "uuids" \in DOMAIN call /\ Len(call.uuids) > 0
        /\ Len(todo) \in 0..Len(call.uuids)
        /\ todo = [i \in 1..Len(todo) |-> call.uuids[k + i]]
        /\ found = [i \in 1..k |-> Catalog[call.uuids[i]]]
        /\ \A i \in 1..k : Lookup(call.uuids[i]) = "OK"
    BY DEF ServerInv, LookedUp
  <1>2. Len(call.uuids) \in Nat /\ ~ByType
    BY <1>1, CallsAre DEF ByType
  <1>3. Len(todo) \in Nat /\ Len(todo) > 0
    <2>1. ASSUME Len(todo) = 0 PROVE FALSE
      <3>1. todo = [i \in 1..0 |-> call.uuids[k + i]]
        BY <1>1, <2>1
      <3>2. [i \in 1..0 |-> call.uuids[k + i]] = <<>>
        OBVIOUS
      <3>. QED  BY <3>1, <3>2
    <2>. QED  BY <1>1, <1>2, <2>1
  <1>4. k \in 0..(Len(call.uuids) - 1)
    BY <1>1, <1>2, <1>3
  <1>. DEFINE U == {call.uuids[k + i] : i \in 1..Len(todo)}
  <1>5. todo \in Seq(U)
    <2>1. \A i \in 1..Len(todo) : call.uuids[k + i] \in U
      OBVIOUS
    <2>2. todo \in [1..Len(todo) -> U]
      <3>. HIDE DEF U, k
      <3>. QED  BY <2>1, <1>1
    <2>. HIDE DEF U
    <2>. QED  BY <2>2, <1>3
  <1>. HIDE DEF U
  <1>6. Head(todo) = call.uuids[k + 1]
    BY <1>1, <1>3
  <1>7. Len(Tail(todo)) = Len(todo) - 1 /\ Len(Tail(todo)) = Len(call.uuids) - (k + 1)
    BY <1>2, <1>3, <1>5
  <1>8. Tail(todo) = [i \in 1..Len(Tail(todo)) |-> call.uuids[(k + 1) + i]]
    <2>1. Tail(todo) = [i \in 1..(Len(todo) - 1) |-> todo[i + 1]]
      <3>1. Tail(todo) \in Seq(U) /\ Len(Tail(todo)) = Len(todo) - 1
        BY <1>3, <1>5
      <3>2. \A i \in 1..(Len(todo) - 1) : Tail(todo)[i] = todo[i + 1]
        BY <1>3, <1>5
      <3>3. Tail(todo) = [i \in 1..Len(Tail(todo)) |-> Tail(todo)[i]]
        <4>1. Tail(todo) \in [1..Len(Tail(todo)) -> U]
          BY <3>1, LenProperties
        <4>. QED  BY <4>1
      <3>. QED  BY <3>1, <3>2, <3>3
    <2>2. \A i \in 1..(Len(todo) - 1) : todo[i + 1] = call.uuids[(k + 1) + i]
      BY <1>1, <1>2, <1>3
    <2>. QED  BY <2>1, <2>2, <1>7
  <1>. QED  BY <1>1, <1>2, <1>4, <1>6, <1>7, <1>8

\* The first identifier that is refused gives the answer.
LEMMA BadUuidPreserves ==
    ASSUME ServerInv, BadUuid \/ UnknownPart PROVE ServerInv'
  <1>1. stage = "uuids" /\ todo # <<>> /\ UNCHANGED call
    BY DEF BadUuid, UnknownPart
  <1>2. Finish(Failed(Lookup(Head(todo)))) /\ Lookup(Head(todo)) # "OK"
    BY DEF BadUuid, UnknownPart, Lookup
  <1>3. call \in Calls /\ "uuids" \in DOMAIN call /\ "id" \notin DOMAIN call /\ ~ByType
    BY <1>1, NextUuid, CallsAre
  <1>4. PICK k \in 0..(Len(call.uuids) - 1) :
           /\ Head(todo) = call.uuids[k + 1]
           /\ \A i \in 1..k : Lookup(call.uuids[i]) = "OK"
    BY <1>1, NextUuid
  <1>5. Len(call.uuids) \in Nat /\ DOMAIN call.uuids = 1..Len(call.uuids)
    BY <1>3, CallsAre
  <1>. DEFINE bad == {i \in DOMAIN call.uuids : Lookup(call.uuids[i]) # "OK"}
  <1>6. k + 1 \in bad /\ \A j \in bad : k + 1 <= j
    BY <1>2, <1>4, <1>5
  <1>7. \A i \in bad : (\A j \in bad : i <= j) => i = k + 1
    BY <1>5, <1>6
  <1>8. (CHOOSE i \in bad : \A j \in bad : i <= j) = k + 1
    BY <1>6, <1>7
  <1>9. ListByUuids(call.uuids) = Failed(Lookup(call.uuids[k + 1]))
    BY <1>6, <1>8 DEF ListByUuids
  <1>10. Len(call.uuids) > 0
    BY <1>4, <1>5
  <1>11. ListParts(call.uuids, call.type) = Failed(Lookup(Head(todo)))
    BY <1>4, <1>9, <1>10 DEF ListParts
  <1>. QED  BY <1>1, <1>2, <1>3, <1>11, AnswerPreserves

LEMMA KnownPartPreserves ==
    ASSUME ServerInv, KnownPart PROVE ServerInv'
  <1>1. /\ stage = "uuids" /\ todo # <<>> /\ UNCHANGED <<stage, call, result>>
        /\ found' = Append(found, Catalog[Head(todo)]) /\ todo' = Tail(todo)
        /\ Lookup(Head(todo)) = "OK"
    BY DEF KnownPart, Lookup
  <1>2. call \in Calls /\ "uuids" \in DOMAIN call /\ Len(call.uuids) \in Nat
    BY <1>1, NextUuid, CallsAre
  <1>3. PICK k \in 0..(Len(call.uuids) - 1) :
           /\ Head(todo) = call.uuids[k + 1]
           /\ Len(Tail(todo)) = Len(call.uuids) - (k + 1)
           /\ Tail(todo) = [i \in 1..Len(Tail(todo)) |-> call.uuids[(k + 1) + i]]
           /\ found = [i \in 1..k |-> Catalog[call.uuids[i]]]
           /\ \A i \in 1..k : Lookup(call.uuids[i]) = "OK"
    BY <1>1, NextUuid
  <1>4. /\ k \in Nat /\ k <= Len(call.uuids) - 1
        /\ Len(call.uuids) - Len(Tail(todo)) = k + 1
        /\ Len(call.uuids) > 0 /\ Len(Tail(todo)) \in 0..Len(call.uuids)
    <2>1. \A n \in Nat : \A j \in 0..(n - 1) :
             j \in Nat /\ j <= n - 1 /\ n - (n - (j + 1)) = j + 1 /\ n > 0 /\ n - (j + 1) \in 0..n
      OBVIOUS
    <2>. QED  BY <2>1, <1>2, <1>3
  <1>5. Append(found, Catalog[Head(todo)]) = [i \in 1..(k + 1) |-> Catalog[call.uuids[i]]]
    BY <1>3, <1>4
  <1>6. \A i \in 1..(k + 1) : Lookup(call.uuids[i]) = "OK"
    <2>1. \A i \in 1..(k + 1) : i \in 1..k \/ i = k + 1
      BY <1>4
    <2>. QED  BY <1>1, <1>3, <2>1
  <1>7. LookedUp'
    BY <1>1, <1>2, <1>3, <1>4, <1>5, <1>6 DEF LookedUp
  <1>. QED  BY <1>1, <1>7
            DEF ServerInv, Visited, Filtered, Gathered, AnswersAsSpecified,
                ListIsCompleteAndSorted

LEMMA UuidsDonePreserves ==
    ASSUME ServerInv, UuidsDone PROVE ServerInv'
  <1>1. stage = "uuids" /\ todo = <<>> /\ Finish(Listed(found)) /\ UNCHANGED call
    BY DEF UuidsDone
  <1>2. call \in Calls /\ "uuids" \in DOMAIN call /\ Len(call.uuids) > 0
    BY <1>1 DEF ServerInv, LookedUp
  <1>3. /\ Len(call.uuids) \in Nat /\ DOMAIN call.uuids = 1..Len(call.uuids)
        /\ "id" \notin DOMAIN call /\ ~ByType
    BY <1>2, CallsAre DEF ByType
  <1>4. Len(call.uuids) - Len(todo) = Len(call.uuids)
    BY <1>1, <1>3
  <1>5. /\ found = [i \in 1..Len(call.uuids) |-> Catalog[call.uuids[i]]]
        /\ \A i \in 1..Len(call.uuids) : Lookup(call.uuids[i]) = "OK"
    BY <1>1, <1>4 DEF ServerInv, LookedUp
  <1>6. ListParts(call.uuids, call.type) = Listed(found)
    BY <1>2, <1>3, <1>5 DEF ListParts, ListByUuids
  <1>. QED  BY <1>1, <1>3, <1>6, AnswerPreserves
-----------------------------------------------------------------------------
(* ListParts by type.                                                      *)

\* Parts filed under different identifiers are different.
LEMMA OtherPart ==
    ASSUME NEW id \in DOMAIN Catalog, NEW ids \in SUBSET DOMAIN Catalog, id \notin ids
    PROVE  Catalog[id] \notin PartsOfCatalog(ids)
  <1>. SUFFICES ASSUME NEW q \in ids, Catalog[q] = Catalog[id] PROVE FALSE
    BY DEF PartsOfCatalog
  <1>1. Catalog[q].uuid = q /\ Catalog[id].uuid = id
    BY CatalogAssumption
  <1>. QED  BY <1>1

LEMMA VisitPreserves ==
    ASSUME ServerInv, NEW id \in DOMAIN Catalog, Visit(id) PROVE ServerInv'
  <1>1. /\ stage = "visiting" /\ id \in todo /\ UNCHANGED <<stage, call, result>>
        /\ found' = Append(found, Catalog[id]) /\ todo' = todo \ {id}
    BY DEF Visit
  <1>2. /\ todo \subseteq DOMAIN Catalog /\ ByType
        /\ found \in Seq(PartsOfCatalog(DOMAIN Catalog)) /\ IsInjective(found)
        /\ ToSet(found) = PartsOfCatalog(DOMAIN Catalog \ todo)
    BY <1>1 DEF ServerInv, Visited
  <1>3. Catalog[id] \in PartsOfCatalog(DOMAIN Catalog) /\ Catalog[id] \notin ToSet(found)
    <2>1. DOMAIN Catalog \ todo \in SUBSET DOMAIN Catalog /\ id \notin DOMAIN Catalog \ todo
      BY <1>1
    <2>2. Catalog[id] \notin PartsOfCatalog(DOMAIN Catalog \ todo)
      BY <2>1, OtherPart
    <2>. QED  BY <1>2, <2>2 DEF PartsOfCatalog
  <1>4. /\ found' \in Seq(PartsOfCatalog(DOMAIN Catalog)) /\ IsInjective(found')
        /\ ToSet(found') = ToSet(found) \cup {Catalog[id]}
    BY <1>1, <1>2, <1>3, AppendNew
  <1>5. ToSet(found') = PartsOfCatalog(DOMAIN Catalog \ todo')
    BY <1>1, <1>2, <1>4 DEF PartsOfCatalog
  <1>6. Visited'
    BY <1>1, <1>2, <1>4, <1>5 DEF Visited
  <1>. QED  BY <1>1, <1>2, <1>6
            DEF ServerInv, ByType, LookedUp, Filtered, Gathered, AnswersAsSpecified,
                ListIsCompleteAndSorted

\* A sequence of elements of a set.
LEMMA Narrower ==
    ASSUME NEW A, NEW s \in Seq(A) PROVE s \in Seq(ToSet(s))
  <1>1. Len(s) \in Nat /\ s \in [1..Len(s) -> A]
    BY LenProperties
  <1>2. s \in [1..Len(s) -> ToSet(s)]
    BY <1>1 DEF ToSet
  <1>. QED  BY <1>1, <1>2

LEMMA FilterPreserves ==
    ASSUME ServerInv, Filter PROVE ServerInv'
  <1>1. stage = "visiting" /\ todo = {} /\ UNCHANGED <<call, result>>
    BY DEF Filter
  <1>2. /\ ByType /\ found \in Seq(PartsOfCatalog(DOMAIN Catalog)) /\ IsInjective(found)
        /\ ToSet(found) = PartsOfCatalog(DOMAIN Catalog)
    BY <1>1 DEF ServerInv, Visited
  <1>3. CASE call.type = "UNSPECIFIED"
    <2>1. stage' = "sorting" /\ UNCHANGED <<todo, found>>
      BY <1>3 DEF Filter
    <2>2. OfType(call.type) = PartsOfCatalog(DOMAIN Catalog)
      BY <1>3 DEF OfType, PartsOfCatalog
    <2>3. Gathered'
      BY <1>1, <1>2, <2>1, <2>2 DEF Gathered
    <2>. QED  BY <1>1, <1>2, <2>1, <2>3
              DEF ServerInv, ByType, LookedUp, Visited, Filtered, AnswersAsSpecified,
                  ListIsCompleteAndSorted
  <1>4. CASE call.type # "UNSPECIFIED"
    <2>1. stage' = "filtering" /\ todo' = found /\ found' = <<>>
      BY <1>4 DEF Filter
    <2>2. {p \in ToSet(found) : p.type = call.type} = OfType(call.type)
      BY <1>2, <1>4 DEF OfType, PartsOfCatalog
    <2>3. /\ <<>> \in Seq(PartsOfCatalog(DOMAIN Catalog))
          /\ IsInjective(<<>>) /\ ToSet(<<>>) = {}
      BY DEF IsInjective, ToSet
    <2>4. Filtered'
      BY <1>1, <1>2, <2>1, <2>2, <2>3 DEF Filtered, Disjoint
    <2>. QED  BY <1>1, <1>2, <2>1, <2>4
              DEF ServerInv, ByType, LookedUp, Visited, Gathered, AnswersAsSpecified,
                  ListIsCompleteAndSorted
  <1>. QED  BY <1>3, <1>4

LEMMA FilterPartPreserves ==
    ASSUME ServerInv, FilterPart PROVE ServerInv'
  <1>. DEFINE All == PartsOfCatalog(DOMAIN Catalog)
              first == Head(todo)
              rest == Tail(todo)
              wanted(s) == {p \in s : p.type = call.type}
  <1>1. /\ stage = "filtering" /\ todo # <<>> /\ UNCHANGED <<stage, call, result>>
        /\ found' = IF first.type = call.type THEN Append(found, first) ELSE found
        /\ todo' = rest
    BY DEF FilterPart
  <1>2. /\ ByType /\ found \in Seq(All) /\ todo \in Seq(All) /\ IsInjective(found)
        /\ IsInjective(todo) /\ ToSet(found) \cap ToSet(todo) = {}
        /\ ToSet(found) \cup wanted(ToSet(todo)) = OfType(call.type)
    BY <1>1 DEF ServerInv, Filtered, Disjoint
  <1>. HIDE DEF All
  <1>3. /\ first \in All /\ first \in ToSet(todo) /\ first \notin ToSet(rest)
        /\ rest \in Seq(All) /\ IsInjective(rest)
        /\ ToSet(todo) = {first} \cup ToSet(rest)
    BY <1>1, <1>2, HeadAndTail
  <1>. HIDE DEF first, rest
  <1>4. /\ found' \in Seq(All) /\ IsInjective(found')
        /\ ToSet(found') = ToSet(found) \cup wanted({first})
    <2>1. CASE first.type = call.type
      <3>1. first \notin ToSet(found)
        BY <1>2, <1>3
      <3>2. /\ Append(found, first) \in Seq(All) /\ IsInjective(Append(found, first))
            /\ ToSet(Append(found, first)) = ToSet(found) \cup {first}
        BY <1>2, <1>3, <3>1, AppendNew
      <3>3. wanted({first}) = {first} /\ found' = Append(found, first)
        BY <2>1, <1>1
      <3>. QED  BY <3>2, <3>3
    <2>2. CASE first.type # call.type
      <3>1. wanted({first}) = {} /\ found' = found
        BY <2>2, <1>1
      <3>. QED  BY <1>2, <3>1
    <2>. QED  BY <2>1, <2>2
  <1>5. ToSet(found') \cap ToSet(rest) = {}
    BY <1>2, <1>3, <1>4
  <1>6. ToSet(found') \cup wanted(ToSet(rest)) = OfType(call.type)
    BY <1>2, <1>3, <1>4
  <1>7. Filtered'
    BY <1>1, <1>3, <1>4, <1>5, <1>6 DEF Filtered, Disjoint, All
  <1>. QED  BY <1>1, <1>2, <1>7
            DEF ServerInv, ByType, LookedUp, Visited, Gathered, AnswersAsSpecified,
                ListIsCompleteAndSorted

LEMMA FilterDonePreserves ==
    ASSUME ServerInv, FilterDone PROVE ServerInv'
  <1>1. stage = "filtering" /\ todo = <<>> /\ stage' = "sorting"
        /\ UNCHANGED <<call, todo, found, result>>
    BY DEF FilterDone
  <1>2. /\ ByType /\ found \in Seq(PartsOfCatalog(DOMAIN Catalog)) /\ IsInjective(found)
        /\ ToSet(found) \cup {p \in ToSet(todo) : p.type = call.type} = OfType(call.type)
    BY <1>1 DEF ServerInv, Filtered, Disjoint
  <1>3. ToSet(todo) = {}
    BY <1>1 DEF ToSet
  <1>4. ToSet(found) = OfType(call.type)
    BY <1>2, <1>3
  <1>5. found \in Seq(OfType(call.type))
    BY <1>2, <1>4, Narrower
  <1>6. Gathered'
    BY <1>1, <1>2, <1>4, <1>5 DEF Gathered
  <1>. QED  BY <1>1, <1>2, <1>6
            DEF ServerInv, ByType, LookedUp, Visited, Filtered, AnswersAsSpecified,
                ListIsCompleteAndSorted

\* Whatever order sort.Slice leaves is complete, and the specified one unless
\* two parts have one name.
LEMMA SortPreserves ==
    ASSUME ServerInv, Sort PROVE ServerInv'
  <1>. DEFINE S == OfType(call.type)
              specified == CHOOSE parts \in SetToSeqs(S) : Sorted(parts)
  <1>1. /\ stage = "sorting" /\ stage' = "done" /\ result' = Listed(found')
        /\ UNCHANGED <<call, todo>>
        /\ found' \in SetToSeqs(ToSet(found)) /\ Sorted(found')
    BY DEF Sort, Finish
  <1>2. ByType /\ ToSet(found) = S /\ call \in Calls
    BY <1>1 DEF ServerInv, Gathered
  <1>3. /\ found' \in SetToSeqs(S) /\ specified \in SetToSeqs(S) /\ Sorted(specified)
    BY <1>1, <1>2
  <1>. HIDE DEF specified, S
  <1>4. IsFiniteSet(S) /\ \A p \in S : p.name \in Nat
    BY PartsAreFew DEF S
  <1>5. IsInjective(found') /\ ToSet(found') = S
    BY <1>3, <1>4, Enumerations
  <1>6. Twins(specified) \/ found' = specified
    BY <1>1, <1>3, <1>4, OneOrder
  <1>7. ListParts(call.uuids, call.type) = Listed(specified) /\ "id" \notin DOMAIN call
    <2>1. Len(call.uuids) = 0 /\ "id" \notin DOMAIN call
      BY <1>2, CallsAre DEF ByType
    <2>. QED  BY <2>1 DEF ListParts, ListByType, specified, S
  <1>8. result'.code = "OK" /\ result'.parts = found' /\ Listed(specified).parts = specified
    BY <1>1 DEF Listed
  <1>9. AnswersAsSpecified'
    BY <1>1, <1>2, <1>6, <1>7, <1>8 DEF AnswersAsSpecified, ByType
  <1>10. ListIsCompleteAndSorted'
    BY <1>1, <1>5, <1>8 DEF ListIsCompleteAndSorted, S
  <1>. QED  BY <1>1, <1>9, <1>10, FinishPreserves

-----------------------------------------------------------------------------
(* Theorems                                                                *)

\* What the loops have gathered at any point is exactly what they should
\* have: the inductive invariant of the handlers (service.go:106-214).
THEOREM ServerInvariance == ServerSpec => []ServerInv
  <1>1. ServerInit => ServerInv
    BY DEF ServerInit, ServerInv, LookedUp, Visited, Filtered, Gathered,
           AnswersAsSpecified, ListIsCompleteAndSorted
  <1>2. ServerInv /\ [ServerNext]_serverVars => ServerInv'
    <2>. SUFFICES ASSUME ServerInv, [ServerNext]_serverVars PROVE ServerInv'
      OBVIOUS
    <2>1. CASE GetPartCall
      BY <2>1, GetPartPreserves
    <2>2. CASE ListPartsCall
      BY <2>2, ListPartsPreserves
    <2>3. CASE BadUuid \/ UnknownPart
      BY <2>3, BadUuidPreserves
    <2>4. CASE KnownPart
      BY <2>4, KnownPartPreserves
    <2>5. CASE UuidsDone
      BY <2>5, UuidsDonePreserves
    <2>6. CASE \E id \in DOMAIN Catalog : Visit(id)
      BY <2>6, VisitPreserves
    <2>7. CASE Filter
      BY <2>7, FilterPreserves
    <2>8. CASE FilterPart
      BY <2>8, FilterPartPreserves
    <2>9. CASE FilterDone
      BY <2>9, FilterDonePreserves
    <2>10. CASE Sort
      BY <2>10, SortPreserves
    <2>11. CASE UNCHANGED serverVars
      BY <2>11 DEF serverVars, ServerInv, LookedUp, Visited, Filtered, Gathered,
                   AnswersAsSpecified, ListIsCompleteAndSorted, ByType
    <2>. QED  BY <2>1, <2>2, <2>3, <2>4, <2>5, <2>6, <2>7, <2>8, <2>9, <2>10, <2>11
              DEF ServerNext
  <1>. QED  BY <1>1, <1>2, PTL DEF ServerSpec

\* The handlers answer what Inventory says, which is what RocketLab is
\* composed with: by identifiers the parts in their places or the status of
\* the first bad one (service.go:106-174).
THEOREM HandlersAnswerAsSpecified == ServerSpec => []AnswersAsSpecified
  <1>1. ServerInv => AnswersAsSpecified
    BY DEF ServerInv
  <1>. QED  BY <1>1, ServerInvariance, PTL

\* A list by type lacks no part of the type, repeats none and is in order,
\* whatever order the map is visited in (service.go:176-213).
THEOREM ListsAreCompleteAndSorted == ServerSpec => []ListIsCompleteAndSorted
  <1>1. ServerInv => ListIsCompleteAndSorted
    BY DEF ServerInv
  <1>. QED  BY <1>1, ServerInvariance, PTL
=============================================================================
