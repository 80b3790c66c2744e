------------------------------- MODULE OrderApi -------------------------------
(***************************************************************************)
(* What the order API promises its clients (src/shared/api/order/v1): an   *)
(* order is placed, then paid or cancelled, and every request takes effect *)
(* in one indivisible step, whose answer tells what it did.                *)
(***************************************************************************)
EXTENDS Naturals, FiniteSets

CONSTANTS Clients, Orders, Payments, Nothing

VARIABLES
    book,      \* order -> [status, txn]; "absent" if there is none
    wants,     \* what each client asks for: [op, order]
    answer     \* what each client was told: [code, order, txn]

apiVars == <<book, wants, answer>>

Entry(status, txn) == [status |-> status, txn |-> txn]
Absent == Entry("absent", Nothing)
Told(code, order, txn) == [code |-> code, order |-> order, txn |-> txn]
Unanswered == Told(0, Nothing, Nothing)
Idle == [op |-> Nothing, order |-> Nothing]

Asks == {Idle, [op |-> "create", order |-> Nothing]}
            \cup [op : {"pay", "cancel", "get"}, order : Orders]

ApiInit ==
    /\ book = [o \in Orders |-> Absent]
    /\ wants = [c \in Clients |-> Idle]
    /\ answer = [c \in Clients |-> Unanswered]

Ask(c, q) ==
    /\ wants[c] = Idle
    /\ wants' = [wants EXCEPT ![c] = q]
    /\ UNCHANGED <<book, answer>>

\* c asks for op and gets its one answer now.
Pending(c, op) == wants[c].op = op /\ answer[c] = Unanswered
Tell(c, told) == answer' = [answer EXCEPT ![c] = told] /\ UNCHANGED wants

Turn(o, entry) == book' = [book EXCEPT ![o] = entry]

Place(c, o) ==
    /\ Pending(c, "create")
    /\ o \notin {answer[d].order : d \in Clients}
    /\ Turn(o, Entry("PENDING_PAYMENT", Nothing))
    /\ Tell(c, Told(201, o, Nothing))

NotPlaced(c) ==
    /\ Pending(c, "create")
    /\ \E code \in {404, 409} : Tell(c, Told(code, Nothing, Nothing))
    /\ UNCHANGED book

\* Only an order that waits for its payment is paid, or cancelled.
Pay(c, txn) ==
    /\ Pending(c, "pay")
    /\ book[wants[c].order].status = "PENDING_PAYMENT"
    /\ txn \notin {answer[d].txn : d \in Clients}
    /\ Turn(wants[c].order, Entry("PAID", txn))
    /\ Tell(c, Told(200, Nothing, txn))

Cancel(c) ==
    /\ Pending(c, "cancel")
    /\ book[wants[c].order].status = "PENDING_PAYMENT"
    /\ Turn(wants[c].order, Entry("CANCELLED", Nothing))
    /\ Tell(c, Told(200, Nothing, Nothing))

Conflict(c) ==
    /\ \E op \in {"pay", "cancel"} : Pending(c, op)
    /\ book[wants[c].order].status \in {"PAID", "CANCELLED"}
    /\ Tell(c, Told(409, Nothing, Nothing))
    /\ UNCHANGED book

NotPaid(c) ==
    /\ Pending(c, "pay")
    /\ book[wants[c].order].status = "PENDING_PAYMENT"
    /\ Tell(c, Told(500, Nothing, Nothing))
    /\ UNCHANGED book

Show(c) ==
    /\ Pending(c, "get")
    /\ book[wants[c].order] # Absent
    /\ Tell(c, Told(200, Nothing, book[wants[c].order].txn))
    /\ UNCHANGED book

NotFound(c) ==
    /\ \E op \in {"pay", "cancel", "get"} : Pending(c, op)
    /\ book[wants[c].order] = Absent
    /\ Tell(c, Told(404, Nothing, Nothing))
    /\ UNCHANGED book

\* The service restarts: the orders are kept in memory.
Forget ==
    /\ book' = [o \in Orders |-> Absent]
    /\ UNCHANGED <<wants, answer>>

ApiNext ==
    \/ \E c \in Clients :
          \/ \E q \in Asks : Ask(c, q)
          \/ \E o \in Orders : Place(c, o)
          \/ \E t \in Payments : Pay(c, t)
          \/ NotPlaced(c) \/ Cancel(c) \/ Conflict(c) \/ NotPaid(c)
          \/ Show(c) \/ NotFound(c)
    \/ Forget

Promise == ApiInit /\ [][ApiNext]_apiVars
=============================================================================
