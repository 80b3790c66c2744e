-------------------------------- MODULE Uuids --------------------------------
(***************************************************************************)
(* Identifiers, as the services use them: strings in the messages, which   *)
(* github.com/google/uuid parses or refuses, and version 4 UUIDs that its  *)
(* New returns, never the same twice.                                      *)
(***************************************************************************)
CONSTANTS
    None,        \* what an absent optional value is
    Malformed,   \* the strings uuid.Parse refuses
    OrderIds,    \* the identifiers uuid.New may give an order
    Txns         \* the identifiers uuid.New may give a payment

Parses(id) == id \notin Malformed

\* uuid.Parse refuses a string of length 0 and accepts what New().String()
\* returns; an absent value is not an identifier.
ASSUME UuidAssumption ==
    /\ "" \in Malformed
    /\ (OrderIds \cup Txns) \cap (Malformed \cup {None}) = {}
=============================================================================
