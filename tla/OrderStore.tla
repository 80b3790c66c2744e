------------------------------ MODULE OrderStore ------------------------------
(***************************************************************************)
(* The OrderStore of src/order/pkg/handler/handler.go: a Go map under a    *)
(* sync.RWMutex.  The handlers look it up under RLock and assign under     *)
(* Lock.  Go's map is no atomic object: an assignment takes time, and a    *)
(* lookup or another assignment that overlaps it may find or leave         *)
(* anything.                                                               *)
(*                                                                         *)
(* The mutex as sync documents it: writers take turns; a writer whose turn *)
(* it is waits for the readers that hold the lock and keeps later ones     *)
(* out; when it unlocks, the readers that waited all get in, before the    *)
(* next writer.                                                            *)
(***************************************************************************)
EXTENDS Naturals, Sequences

CONSTANTS
    Threads,    \* the handlers' goroutines
    Keys, Values, Absent

\* Absent is no thread's name: nobody holds the lock then.
ASSUME AbsentAssumption == Absent \notin Threads

VARIABLES
    map,        \* OrderStore.orders
    asks,       \* the operation of each thread
    found,      \* its outcome
    at,         \* where the thread stands
    readers,    \* who holds the lock for reading
    waiting,    \* the readers a writer keeps out
    queue,      \* the writers, the first one is the one whose turn it is
    writer      \* who holds the lock for writing, or Absent

vars == <<map, asks, found, at, readers, waiting, queue, writer>>

Ask(op, key, value) == [op |-> op, key |-> key, value |-> value]
NoOp == Ask("none", Absent, Absent)
Pending == [done |-> FALSE, value |-> Absent]
Done(value) == [done |-> TRUE, value |-> value]

Asks == {Ask("get", k, Absent) : k \in Keys} \cup {Ask("put", k, v) : k \in Keys, v \in Values}

Init ==
    /\ map = [k \in Keys |-> Absent]
    /\ asks = [t \in Threads |-> NoOp]
    /\ found = [t \in Threads |-> Pending]
    /\ at = [t \in Threads |-> "idle"]
    /\ readers = {}
    /\ waiting = {}
    /\ queue = <<>>
    /\ writer = Absent

Goto(t, place) == at' = [at EXCEPT ![t] = place]
Yield(t, value) == found' = [found EXCEPT ![t] = Done(value)]

-----------------------------------------------------------------------------
(* sync.RWMutex                                                            *)

\* RLock: in if no writer is there or waits its turn.
RLock(t) ==
    /\ IF queue = <<>>
       THEN readers' = readers \cup {t} /\ UNCHANGED waiting
       ELSE waiting' = waiting \cup {t} /\ UNCHANGED readers
    /\ UNCHANGED <<queue, writer>>

RUnlock(t) ==
    /\ readers' = readers \ {t}
    /\ UNCHANGED <<waiting, queue, writer>>

\* Lock: the writer queues up, and gets the lock in its turn once the
\* readers are gone.
Enqueue(t) ==
    /\ queue' = Append(queue, t)
    /\ UNCHANGED <<readers, waiting, writer>>

Locked(t) ==
    /\ queue # <<>> /\ Head(queue) = t
    /\ readers = {}
    /\ writer' = t
    /\ UNCHANGED <<readers, waiting, queue>>

Unlock(t) ==
    /\ writer' = Absent
    /\ queue' = Tail(queue)
    /\ readers' = readers \cup waiting
    /\ waiting' = {}

-----------------------------------------------------------------------------
(* The handlers                                                            *)

\* A handler comes to an operation of the store: it asks for the lock.
Start(t, ask) ==
    /\ at[t] = "idle"
    /\ asks' = [asks EXCEPT ![t] = ask]
    /\ IF ask.op = "get" THEN RLock(t) /\ Goto(t, "rlock")
                         ELSE Enqueue(t) /\ Goto(t, "lock")
    /\ UNCHANGED <<map, found>>

\* An assignment is under way.
Assigning == \E t \in Threads : at[t] = "assign"

\* Mutant of Lookup: it is made without the lock.
LookupUnlocked(t) ==
    /\ at[t] = "rlock"
    /\ \E value \in IF Assigning THEN Values \cup {Absent} ELSE {map[asks[t].key]} :
          Yield(t, value)
    /\ Goto(t, "runlock")
    /\ UNCHANGED <<map, asks, readers, waiting, queue, writer>>

\* The lookup finds the value, or anything while an assignment is made.
Lookup(t) ==
    /\ at[t] = "rlock" /\ t \in readers
    /\ \E value \in IF Assigning THEN Values \cup {Absent} ELSE {map[asks[t].key]} :
          Yield(t, value)
    /\ Goto(t, "runlock")
    /\ UNCHANGED <<map, asks, readers, waiting, queue, writer>>

\* Mutant of LeaveRead: the handler returns with the lock held.
LeaveReadLocked(t) ==
    /\ at[t] = "runlock"
    /\ Goto(t, "return")
    /\ UNCHANGED <<map, asks, found, readers, waiting, queue, writer>>

LeaveRead(t) ==
    /\ at[t] = "runlock"
    /\ RUnlock(t)
    /\ Goto(t, "return")
    /\ UNCHANGED <<map, asks, found>>

\* Mutant of Enter: the writer takes its turn while readers hold the lock.
EnterShared(t) ==
    /\ at[t] = "lock"
    /\ queue # <<>> /\ Head(queue) = t
    /\ writer' = t
    /\ Goto(t, "assign")
    /\ UNCHANGED <<map, asks, found, readers, waiting, queue>>

\* The lock is had and the assignment begins.
Enter(t) ==
    /\ at[t] = "lock"
    /\ Locked(t)
    /\ Goto(t, "assign")
    /\ UNCHANGED <<map, asks, found>>

\* The assignment ends: the map has the value, or anything if another
\* assignment went on at the same time.
Assign(t) ==
    /\ at[t] = "assign"
    /\ \E value \in IF \E u \in Threads \ {t} : at[u] = "assign"
                    THEN Values \cup {Absent} ELSE {asks[t].value} :
          map' = [map EXCEPT ![asks[t].key] = value]
    /\ Yield(t, Absent)
    /\ Goto(t, "unlock")
    /\ UNCHANGED <<asks, readers, waiting, queue, writer>>

LeaveWrite(t) ==
    /\ at[t] = "unlock"
    /\ Unlock(t)
    /\ Goto(t, "return")
    /\ UNCHANGED <<map, asks, found>>

\* The handler goes on, and may come back.
Return(t) ==
    /\ at[t] = "return"
    /\ Goto(t, "idle")
    /\ asks' = [asks EXCEPT ![t] = NoOp]
    /\ found' = [found EXCEPT ![t] = Pending]
    /\ UNCHANGED <<map, readers, waiting, queue, writer>>

Step(t) == Lookup(t) \/ LeaveRead(t) \/ Enter(t) \/ Assign(t) \/ LeaveWrite(t) \/ Return(t)

Next == \E t \in Threads : Step(t) \/ \E ask \in Asks : Start(t, ask)

Spec == Init /\ [][Next]_vars

\* A goroutine that can run is run.  Nobody has to come to the store.
FairSpec == Spec /\ \A t \in Threads : WF_vars(Step(t))

-----------------------------------------------------------------------------
(* Properties                                                              *)

\* What the state is made of.
TypeOK ==
    /\ map \in [Keys -> Values \cup {Absent}]
    /\ asks \in [Threads -> Asks \cup {NoOp}]
    /\ found \in [Threads -> [done : BOOLEAN, value : Values \cup {Absent}]]
    /\ at \in [Threads -> {"idle", "rlock", "runlock", "lock", "assign", "unlock", "return"}]
    /\ readers \subseteq Threads
    /\ waiting \subseteq Threads
    /\ queue \in Seq(Threads)
    /\ writer \in Threads \cup {Absent}

\* The handlers that hold the lock, for writing and for reading.
Writes(t) == at[t] \in {"assign", "unlock"}
Reads(t) == at[t] = "runlock" \/ (at[t] = "rlock" /\ t \in readers)

\* Nobody touches the map while a handler assigns to it, however they come
\* and go and whoever waits (handler.go:75-77, 204-207, 296-298, 338-341).
MutualExclusion ==
    \A t, u \in Threads : Writes(t) /\ t # u => ~Writes(u) /\ ~Reads(u)

\* Why: the mutex knows who holds it.  The writer is the first in the queue,
\* and it came in when no reader was there; none comes in while it is.
LockKnows ==
    /\ \A t \in Threads : Writes(t) <=> writer = t
    /\ \A t \in Threads : Reads(t) <=> t \in readers
    /\ \A t \in waiting : at[t] = "rlock" /\ t \notin readers
    /\ writer # Absent => queue # <<>> /\ Head(queue) = writer /\ readers = {}

\* And a thread's operation is the one its place says, not yet done before
\* its critical section and done after it.
OpsMatch ==
    \A t \in Threads :
        /\ at[t] = "idle" => asks[t] = NoOp
        /\ at[t] = "rlock" => asks[t].op = "get"
        /\ at[t] \in {"lock", "assign"} => asks[t].op = "put"
        /\ at[t] \in {"idle", "rlock", "lock", "assign"} => found[t] = Pending
        /\ at[t] \in {"runlock", "unlock", "return"} => found[t].done

LockInv == TypeOK /\ LockKnows /\ OpsMatch

Store == INSTANCE AtomicStore

\* A critical section is one step: the map under its mutex is the atomic one
\* that OrderService has (handler.go:33-44).
StoreIsAtomic == Store!StoreSpec

\* Whoever asks for the lock gets it and lets it go: lookups that keep coming
\* do not starve an assignment, nor the other way round.
EveryoneGetsThrough == \A t \in Threads : at[t] # "idle" ~> at[t] = "return"
=============================================================================
