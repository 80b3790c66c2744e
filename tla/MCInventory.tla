----------------------------- MODULE MCInventory -----------------------------
(***************************************************************************)
(* An instance of InventoryServer for TLC: a small catalog, every list of  *)
(* up to three identifiers, good, unknown and malformed, and every type.   *)
(***************************************************************************)
EXTENDS InventoryServer

MCMalformed == {"", "not-a-uuid"}

PartsOf(parts) == [id \in {p.uuid : p \in parts} |-> CHOOSE p \in parts : p.uuid = id]

\* Five of the seed parts, three of them hulls, and a second weapon, of the
\* name of one of the hulls.
SmallCatalog ==
    PartsOf({p \in SeedParts : p.uuid \notin {"ion-engine-c", "energy-shield"}}
              \cup {[SeedPart("laser-cannon", 1, "WEAPON", 260000, 3)
                        EXCEPT !.uuid = "laser-cannon-2"]})

Ids == {"aluminium-hull", "laser-cannon", "no-such-part", "not-a-uuid", ""}

MCCalls ==
    {[id |-> id] : id \in Ids}
        \cup {[uuids |-> s, type |-> t] :
                 s \in SeqOf(Ids, 3), t \in {"UNSPECIFIED", "ENGINE"}}
        \cup {[uuids |-> <<>>, type |-> t] : t \in PartTypes}
=============================================================================
