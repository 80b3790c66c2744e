------------------------------ MODULE MCHttpApi ------------------------------
(***************************************************************************)
(* Instances of HttpApi for TLC: the requests clients put on the wire.     *)
(***************************************************************************)
EXTENDS HttpApi, TLC

MCMalformed == {"", "not-a-uuid"}

\* A second spelling of every order.
MCSpellings == "upper" :> CHOOSE o \in OrderIds : TRUE

AnOrder == CHOOSE o \in OrderIds : TRUE
Corvette == Ship("aluminium-hull", "ion-engine-c", None, None)
Frigate  == Ship("titanium-hull", "titanium-hull", "energy-shield", "laser-cannon")

\* What reaches the handlers.
MCInputs ==
    {CreateRequest(Frigate), CreateRequest(Corvette)}
        \cup {PayRequest(o, "SBP") : o \in OrderIds}
        \cup {CancelRequest(o) : o \in OrderIds}
        \cup {GetRequest(o) : o \in OrderIds}

Create(doc) == Wire("POST", "orders", None, "application/json", Object(doc))
PayBy(order, ctype, body) == Wire("POST", "pay", order, ctype, body)
Method(name) == Object(<<Member("payment_method", Str(name))>>)

Nulls == <<Member("engine_uuid", Str("ion-engine-c")), Member("note", Other),
           Member("hull_uuid", Str("aluminium-hull")),
           Member("shield_uuid", Null), Member("weapon_uuid", Null)>>

\* Requests of another client: an order in a spelling of its own, members
\* that are null or unknown, and for each thing that routing and decoding
\* look at, one that is refused for it.
OddWires ==
    {Create(Nulls),
     Create(<<Member("hull_uuid", Str("aluminium-hull"))>>),
     PayBy("upper", "application/json", Method("SBP")),
     PayBy("", "application/json", Method("SBP")),
     PayBy(AnOrder, "application/json", Method("CASH")),
     PayBy(AnOrder, "application/json", Body("trailing", Method("SBP").doc)),
     PayBy(AnOrder, "text/plain", Method("SBP")),
     Wire("GET", "order", "not-a-uuid", "none", NoBody),
     Wire("OPTIONS", "pay", AnOrder, "none", NoBody),
     Wire("DELETE", "orders", None, "none", NoBody),
     Wire("POST", "elsewhere", AnOrder, "none", NoBody)}

\* Of every operation, what the generated client sends; a Corvette is only
\* ordered with nulls.
MCWires == {Sent(q) : q \in MCInputs \ {CreateRequest(Corvette)}} \cup OddWires

Symmetry == Permutations(Requests)
=============================================================================
