----------------------------- MODULE AtomicStore -----------------------------
(***************************************************************************)
(* The store as OrderService has it: a map, looked up and assigned in one  *)
(* indivisible step each.                                                  *)
(***************************************************************************)
EXTENDS Naturals

CONSTANTS Threads, Keys, Values, Absent

VARIABLES
    map,      \* key -> value, or Absent
    asks,     \* the operation a thread has begun: [op, key, value]
    found     \* the outcome of its operation: [done, value]

storeVars == <<map, asks, found>>

Ask(op, key, value) == [op |-> op, key |-> key, value |-> value]
NoOp == Ask("none", Absent, Absent)
Pending == [done |-> FALSE, value |-> Absent]
Done(value) == [done |-> TRUE, value |-> value]

StoreInit ==
    /\ map = [k \in Keys |-> Absent]
    /\ asks = [t \in Threads |-> NoOp]
    /\ found = [t \in Threads |-> Pending]

Begin(t) ==
    /\ asks[t] = NoOp
    /\ \E k \in Keys : \E ask \in {Ask("get", k, Absent)} \cup {Ask("put", k, v) : v \in Values} :
          asks' = [asks EXCEPT ![t] = ask]
    /\ UNCHANGED <<map, found>>

Get(t) ==
    /\ asks[t].op = "get" /\ found[t] = Pending
    /\ found' = [found EXCEPT ![t] = Done(map[asks[t].key])]
    /\ UNCHANGED <<map, asks>>

Put(t) ==
    /\ asks[t].op = "put" /\ found[t] = Pending
    /\ map' = [map EXCEPT ![asks[t].key] = asks[t].value]
    /\ found' = [found EXCEPT ![t] = Done(Absent)]
    /\ UNCHANGED asks

Finish(t) ==
    /\ found[t].done
    /\ asks' = [asks EXCEPT ![t] = NoOp]
    /\ found' = [found EXCEPT ![t] = Pending]
    /\ UNCHANGED map

StoreNext == \E t \in Threads : Begin(t) \/ Get(t) \/ Put(t) \/ Finish(t)

StoreSpec == StoreInit /\ [][StoreNext]_storeVars
=============================================================================
