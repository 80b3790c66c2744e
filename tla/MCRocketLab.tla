----------------------------- MODULE MCRocketLab -----------------------------
(***************************************************************************)
(* Instances of RocketLab and SerialClients for TLC.                       *)
(***************************************************************************)
EXTENDS SerialClients, TLC

MCMalformed == {"", "not-a-uuid"}

\* Ships: the least one, one with all its places filled and a part used
\* twice, one whose hull is out of stock, one whose engine nobody knows.
Corvette == Ship("aluminium-hull", "ion-engine-c", None, None)
Frigate  == Ship("titanium-hull", "titanium-hull", "energy-shield", "laser-cannon")
Phantom  == Ship("plasma-hull", "ion-engine-b", None, "laser-cannon")
Wreck    == Ship("aluminium-hull", "no-such-engine", "energy-shield", None)

\* Clients that settle orders: every operation, two methods.
SettlingInputs ==
    {CreateRequest(Corvette)}
        \cup {PayRequest(o, m) : o \in OrderIds, m \in {"SBP", "CREDIT_CARD"}}
        \cup {CancelRequest(o) : o \in OrderIds}
        \cup {GetRequest(o) : o \in OrderIds}

\* Clients that pay and cancel one kind of order, by any method.
PayingInputs ==
    {CreateRequest(Corvette)}
        \cup {PayRequest(o, m) : o \in OrderIds, m \in {"CARD", "INVESTOR_MONEY"}}
        \cup {CancelRequest(o) : o \in OrderIds}

\* Clients that order all kinds of ships, settle them and look.
OrderingInputs ==
    {CreateRequest(s) : s \in {Frigate, Phantom, Wreck}}
        \cup {PayRequest(o, "SBP") : o \in OrderIds}
        \cup {CancelRequest(o) : o \in OrderIds}
        \cup {GetRequest(o) : o \in OrderIds}

\* Identifiers are only compared, so they may be permuted.
Symmetry == Permutations(Requests) \cup Permutations(OrderIds) \cup Permutations(Txns)
=============================================================================
