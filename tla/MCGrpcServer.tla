---------------------------- MODULE MCGrpcServer ----------------------------
(***************************************************************************)
(* An instance of GrpcServer for TLC.                                      *)
(***************************************************************************)
EXTENDS GrpcServer

MCMalformed == {"", "not-a-uuid"}

\* A call the service takes, and two it refuses.
MCAsks == {[order |-> o, method |-> 1] : o \in OrderIds}
            \cup {[order |-> "not-a-uuid", method |-> 1],
                  [order |-> CHOOSE o \in OrderIds : TRUE, method |-> Unspecified]}
=============================================================================
