--------------------------- MODULE InventoryServer ---------------------------
(***************************************************************************)
(* The handlers of the inventory service loop by loop                      *)
(* (src/inventory/pkg/service/service.go:106-214), to show that the        *)
(* operators of Inventory, which the order service is composed with, say   *)
(* what the loops compute.  Two things are left open by Go: the order in   *)
(* which range visits a map, and the order in which sort.Slice leaves      *)
(* parts of equal name.                                                    *)
(*                                                                         *)
(* The handlers share nothing that is ever written, so one call at a time  *)
(* stands for all.                                                         *)
(***************************************************************************)
EXTENDS Inventory

CONSTANT Calls       \* the requests: [uuids, type], or [id] for GetPart

\* The messages of the two methods.
ASSUME CallsAssumption ==
    \A c \in Calls :
        \/ DOMAIN c = {"id"}
        \/ /\ DOMAIN c = {"uuids", "type"}
           /\ c.uuids = [i \in 1..Len(c.uuids) |-> c.uuids[i]]
           /\ Len(c.uuids) \in Nat

VARIABLES
    stage,     \* "idle", "uuids", "visiting", "filtering", "sorting", "done"
    call,      \* the request
    todo,      \* what the loop has yet to visit: identifiers of the request
               \* or parts, in order, or keys of the map, in no order
    found,     \* the parts gathered so far
    result     \* the reply

serverVars == <<stage, call, todo, found, result>>

NoResult == Failed("none")

ServerInit ==
    /\ stage = "idle"
    /\ call \in Calls
    /\ todo = <<>>
    /\ found = <<>>
    /\ result = NoResult

Finish(answer) == stage' = "done" /\ result' = answer

GetPartCall ==
    /\ stage = "idle"
    /\ "id" \in DOMAIN call
    /\ Finish(IF ~Parses(call.id) THEN Failed("InvalidArgument")
              ELSE IF call.id \notin DOMAIN Catalog THEN Failed("NotFound")
              ELSE Listed(<<Catalog[call.id]>>))
    /\ UNCHANGED <<call, todo, found>>

\* ListParts takes the identifiers if there are any, or else the whole map.
ListPartsCall ==
    /\ stage = "idle"
    /\ "uuids" \in DOMAIN call
    /\ IF Len(call.uuids) > 0
       THEN stage' = "uuids" /\ todo' = call.uuids
       ELSE stage' = "visiting" /\ todo' = DOMAIN Catalog
    /\ UNCHANGED <<call, found, result>>

\* One identifier of the request, and the early returns.
BadUuid ==
    /\ stage = "uuids" /\ todo # <<>>
    /\ ~Parses(Head(todo))
    /\ Finish(Failed("InvalidArgument"))
    /\ UNCHANGED <<call, todo, found>>

\* Mutant of UnknownPart: an identifier without a part is passed over.
UnknownPartSkipped ==
    /\ stage = "uuids" /\ todo # <<>>
    /\ Parses(Head(todo)) /\ Head(todo) \notin DOMAIN Catalog
    /\ todo' = Tail(todo)
    /\ UNCHANGED <<stage, call, found, result>>

UnknownPart ==
    /\ stage = "uuids" /\ todo # <<>>
    /\ Parses(Head(todo)) /\ Head(todo) \notin DOMAIN Catalog
    /\ Finish(Failed("NotFound"))
    /\ UNCHANGED <<call, todo, found>>

KnownPart ==
    /\ stage = "uuids" /\ todo # <<>>
    /\ Parses(Head(todo)) /\ Head(todo) \in DOMAIN Catalog
    /\ found' = Append(found, Catalog[Head(todo)])
    /\ todo' = Tail(todo)
    /\ UNCHANGED <<stage, call, result>>

UuidsDone ==
    /\ stage = "uuids" /\ todo = <<>>
    /\ Finish(Listed(found))
    /\ UNCHANGED <<call, todo, found>>

\* range over the map, in any order.
Visit(id) ==
    /\ stage = "visiting" /\ id \in todo
    /\ found' = Append(found, Catalog[id])
    /\ todo' = todo \ {id}
    /\ UNCHANGED <<stage, call, result>>

\* Mutant of Filter: UNSPECIFIED is compared like a type.
FilterAlways ==
    /\ stage = "visiting" /\ todo = {}
    /\ stage' = "filtering" /\ todo' = found /\ found' = <<>>
    /\ UNCHANGED <<call, result>>

\* Mutant of Filter: the second loop appends to the slice of the first.
FilterIntoSame ==
    /\ stage = "visiting" /\ todo = {}
    /\ IF call.type = "UNSPECIFIED"
       THEN stage' = "sorting" /\ UNCHANGED <<todo, found>>
       ELSE stage' = "filtering" /\ todo' = found /\ UNCHANGED found
    /\ UNCHANGED <<call, result>>

\* A type begins a second loop over the parts, into a slice of its own.
Filter ==
    /\ stage = "visiting" /\ todo = {}
    /\ IF call.type = "UNSPECIFIED"
       THEN stage' = "sorting" /\ UNCHANGED <<todo, found>>
       ELSE stage' = "filtering" /\ todo' = found /\ found' = <<>>
    /\ UNCHANGED <<call, result>>

FilterPart ==
    /\ stage = "filtering" /\ todo # <<>>
    /\ found' = IF Head(todo).type = call.type THEN Append(found, Head(todo)) ELSE found
    /\ todo' = Tail(todo)
    /\ UNCHANGED <<stage, call, result>>

FilterDone ==
    /\ stage = "filtering" /\ todo = <<>>
    /\ stage' = "sorting"
    /\ UNCHANGED <<call, todo, found, result>>

\* sort.Slice, in place: any order of the parts in which no name is out of
\* place.
Sort ==
    /\ stage = "sorting"
    /\ found' \in {parts \in SetToSeqs(ToSet(found)) : Sorted(parts)}
    /\ Finish(Listed(found'))
    /\ UNCHANGED <<call, todo>>

ServerNext ==
    \/ GetPartCall \/ ListPartsCall
    \/ BadUuid \/ UnknownPart \/ KnownPart \/ UuidsDone
    \/ \E id \in DOMAIN Catalog : Visit(id)
    \/ Filter \/ FilterPart \/ FilterDone \/ Sort

ServerSpec == ServerInit /\ [][ServerNext]_serverVars

-----------------------------------------------------------------------------
ByType == "uuids" \in DOMAIN call /\ call.uuids = <<>>
Twins(parts) == \E i, j \in DOMAIN parts : i # j /\ parts[i].name = parts[j].name

\* The loops answer what the operators of Inventory say: the status of the
\* first bad identifier in the order of the request, a part for each
\* identifier, duplicates included, and for a type the same list whatever
\* order the map was visited in, unless sort.Slice may leave two parts of one
\* name either way (service.go:144-213).
AnswersAsSpecified ==
    stage = "done" =>
        LET said == IF "id" \in DOMAIN call THEN GetPart(call.id)
                    ELSE ListParts(call.uuids, call.type) IN
        (ByType /\ Twins(said.parts)) \/ result = said

\* A list by type has every part of the type once, and only those, and no
\* part before one of a lesser name, however sort.Slice leaves equal names
\* (service.go:176-213).
ListIsCompleteAndSorted ==
    stage = "done" /\ ByType =>
        /\ result.code = "OK"
        /\ Sorted(result.parts)
        /\ IsInjective(result.parts)
        /\ ToSet(result.parts) = OfType(call.type)

-----------------------------------------------------------------------------
(* How far the loops are, and what they have gathered by then.             *)

PartsOfCatalog(ids) == {Catalog[id] : id \in ids}

\* Of a loop over a map or a slice: nothing twice, nothing both gathered and
\* yet to come.
Disjoint(before, after) ==
    IsInjective(before) /\ IsInjective(after) /\ ToSet(before) \cap ToSet(after) = {}

LookedUp ==
    stage = "uuids" =>
        /\ "uuids" \in DOMAIN call /\ Len(call.uuids) > 0
        /\ LET done == Len(call.uuids) - Len(todo) IN
           /\ Len(todo) \in 0..Len(call.uuids)
           /\ todo = [i \in 1..Len(todo) |-> call.uuids[done + i]]
           /\ found = [i \in 1..done |-> Catalog[call.uuids[i]]]
           /\ \A i \in 1..done : Lookup(call.uuids[i]) = "OK"

Visited ==
    stage = "visiting" =>
        /\ todo \subseteq DOMAIN Catalog
        /\ found \in Seq(PartsOfCatalog(DOMAIN Catalog)) /\ IsInjective(found)
        /\ ToSet(found) = PartsOfCatalog(DOMAIN Catalog \ todo)

Filtered ==
    stage = "filtering" =>
        /\ found \in Seq(PartsOfCatalog(DOMAIN Catalog))
        /\ todo \in Seq(PartsOfCatalog(DOMAIN Catalog))
        /\ Disjoint(found, todo)
        /\ ToSet(found) \cup {p \in ToSet(todo) : p.type = call.type} = OfType(call.type)

Gathered ==
    stage = "sorting" =>
        /\ found \in Seq(OfType(call.type)) /\ IsInjective(found)
        /\ ToSet(found) = OfType(call.type)

\* The inductive invariant: whatever the order in which the map is visited, no
\* loop loses a part or has one twice (service.go:147-192).
ServerInv ==
    /\ stage \in {"idle", "uuids", "visiting", "filtering", "sorting", "done"}
    /\ call \in Calls
    /\ stage \in {"visiting", "filtering", "sorting"} => ByType
    /\ stage = "idle" => found = <<>>
    /\ LookedUp /\ Visited /\ Filtered /\ Gathered
    /\ AnswersAsSpecified
    /\ ListIsCompleteAndSorted
=============================================================================
