------------------------------ MODULE Inventory ------------------------------
(***************************************************************************)
(* The inventory service (src/inventory/pkg/service/service.go).           *)
(*                                                                         *)
(* InventoryServer holds a map of parts that is filled once, when the      *)
(* process starts, and never written again, so a handler of the service    *)
(* is a function of its request.  The handlers are therefore operators     *)
(* over a constant Catalog, and whoever calls them composes them into its  *)
(* own steps.                                                              *)
(*                                                                         *)
(* A part identifier is a string, known to the catalog or not.             *)
(***************************************************************************)
EXTENDS Naturals, Sequences, SequencesExt, FiniteSets, Uuids

CONSTANT Catalog     \* the map of parts: identifier -> part

(***************************************************************************)
(* Part: what the properties tell apart of a part.  "name" is the rank of  *)
(* the name in the order of Go strings, which is all that sorting uses.    *)
(***************************************************************************)
PartTypes == {"HULL", "ENGINE", "SHIELD", "WEAPON"}

IsPart(p) ==
    /\ DOMAIN p = {"uuid", "name", "type", "price", "stock"}
    /\ p.type \in PartTypes
    /\ p.name \in Nat /\ p.price \in Nat /\ p.stock \in Nat

\* Every catalog the process can hold: a map, so finite, and parts are filed
\* under their own identifier, which uuid.MustParse accepted.
ASSUME CatalogAssumption ==
    /\ IsFiniteSet(DOMAIN Catalog)
    /\ \A id \in DOMAIN Catalog : IsPart(Catalog[id]) /\ Catalog[id].uuid = id
    /\ DOMAIN Catalog \cap (Malformed \cup {None}) = {}

-----------------------------------------------------------------------------
(* The parts NewInventoryServer loads, prices in kopecks.                  *)

SeedPart(id, name, type, price, stock) ==
    [uuid |-> id, name |-> name, type |-> type, price |-> price, stock |-> stock]

SeedParts == {
    SeedPart("aluminium-hull", 1, "HULL",    500000, 10),
    SeedPart("titanium-hull",  6, "HULL",   1500000,  5),
    SeedPart("ion-engine-c",   3, "ENGINE",  300000,  8),
    SeedPart("ion-engine-b",   2, "ENGINE",  800000,  3),
    SeedPart("energy-shield",  7, "SHIELD",  400000,  6),
    SeedPart("laser-cannon",   4, "WEAPON",  250000,  7),
    SeedPart("plasma-hull",    5, "HULL",   2000000,  0) }

SeedCatalog ==
    [id \in {p.uuid : p \in SeedParts} |-> CHOOSE p \in SeedParts : p.uuid = id]

-----------------------------------------------------------------------------
(* Replies: a gRPC status code and the parts, none unless the code is OK.  *)

Failed(code) == [code |-> code, parts |-> <<>>]
Listed(parts) == [code |-> "OK", parts |-> parts]

\* The status of one identifier, the checks in the order of the code.
Lookup(id) ==
    IF ~Parses(id) THEN "InvalidArgument"
    ELSE IF id \notin DOMAIN Catalog THEN "NotFound"
    ELSE "OK"

GetPart(id) ==
    IF Lookup(id) = "OK" THEN Listed(<<Catalog[id]>>) ELSE Failed(Lookup(id))

\* ListParts by identifiers: the first bad identifier ends the loop and its
\* status is the answer; otherwise the parts, in the order of the request.
ListByUuids(uuids) ==
    LET bad == {i \in DOMAIN uuids : Lookup(uuids[i]) # "OK"} IN
    IF bad = {} THEN Listed([i \in DOMAIN uuids |-> Catalog[uuids[i]]])
    ELSE Failed(Lookup(uuids[CHOOSE i \in bad : \A j \in bad : i <= j]))

\* No name is out of place.
Sorted(parts) == \A i, j \in DOMAIN parts : i < j => parts[i].name <= parts[j].name

\* The parts of the map that pass the filter.
OfType(type) ==
    {Catalog[id] : id \in
        {id \in DOMAIN Catalog : type \in {"UNSPECIFIED", Catalog[id].type}}}

\* ListParts by type: these parts, by name.
ListByType(type) == Listed(CHOOSE parts \in SetToSeqs(OfType(type)) : Sorted(parts))

ListParts(uuids, type) ==
    IF Len(uuids) > 0 THEN ListByUuids(uuids) ELSE ListByType(type)
=============================================================================
