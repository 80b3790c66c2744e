-------------------------- MODULE OrderStoreProofs --------------------------
(***************************************************************************)
(* Proofs about OrderStore, for any number of handlers, any keys and any   *)
(* values: the mutex keeps the handlers apart, and the map under it is the *)
(* atomic map of AtomicStore.                                              *)
(***************************************************************************)
EXTENDS OrderStore, TLAPS

\* An operation that was asked for is a lookup or an assignment with its
\* key and its value.
LEMMA AsksHaveType ==
    ASSUME NEW ask \in Asks
    PROVE  /\ ask.op \in {"get", "put"}
           /\ ask.key \in Keys
           /\ ask.op = "put" => ask.value \in Values
           /\ \E k \in Keys : ask = Ask("get", k, Absent)
                                 \/ \E v \in Values : ask = Ask("put", k, v)
  BY DEF Asks, Ask

\* A thread between two of its steps has an operation of its kind.
LEMMA AskedHasType ==
    ASSUME LockInv, NEW t \in Threads, asks[t].op \in {"get", "put"}
    PROVE  /\ asks[t] \in Asks
           /\ asks[t].key \in Keys
           /\ asks[t].op = "put" => asks[t].value \in Values
  <1>1. asks[t] # NoOp
    BY DEF NoOp, Ask
  <1>2. asks[t] \in Asks
    BY <1>1 DEF LockInv, TypeOK
  <1>. QED  BY <1>2, AsksHaveType

\* The queue: who joins it does so at its end, and the first one leaves.
LEMMA QueueFacts ==
    ASSUME NEW q \in Seq(Threads), NEW t \in Threads
    PROVE  /\ Append(q, t) \in Seq(Threads)
           /\ q # <<>> => Append(q, t) # <<>> /\ Head(Append(q, t)) = Head(q)
           /\ q # <<>> => Head(q) \in Threads /\ Tail(q) \in Seq(Threads)
  OBVIOUS

-----------------------------------------------------------------------------
(* The invariant                                                           *)

LEMMA InitLockInv == Init => LockInv
  <1>. SUFFICES ASSUME Init PROVE LockInv
    OBVIOUS
  <1>. USE DEF Init
  <1>1. TypeOK
    BY DEF TypeOK, Pending
  <1>2. LockKnows
    BY AbsentAssumption DEF LockKnows, Writes, Reads
  <1>3. OpsMatch
    BY DEF OpsMatch
  <1>. QED  BY <1>1, <1>2, <1>3 DEF LockInv

\* A handler that asks for the lock, as a reader or as a writer.
LEMMA StartKeepsInv ==
    ASSUME LockInv, NEW t \in Threads, NEW ask \in Asks, Start(t, ask)
    PROVE  LockInv'
  <1>. USE DEF LockInv
  <1>1. CASE ask.op = "get"
    <2>. USE <1>1 DEF Start, Goto
    <2>1. TypeOK'
      BY DEF TypeOK, RLock
    <2>2. LockKnows'
      BY AbsentAssumption DEF TypeOK, LockKnows, Writes, Reads, RLock
    <2>3. OpsMatch'
      BY DEF TypeOK, OpsMatch, RLock
    <2>. QED  BY <2>1, <2>2, <2>3
  <1>2. CASE ask.op = "put"
    <2>. USE <1>2 DEF Start, Goto
    <2>1. TypeOK'
      BY QueueFacts DEF TypeOK, Enqueue
    <2>2. LockKnows'
      <3>1. /\ writer' = writer /\ readers' = readers /\ waiting' = waiting
            /\ queue' = Append(queue, t)
        BY DEF Enqueue
      <3>2. \A u \in Threads : Writes(u)' <=> Writes(u)
        BY DEF TypeOK, Writes
      <3>3. \A u \in Threads : Reads(u)' <=> Reads(u)
        BY <3>1 DEF TypeOK, Reads
      <3>4. writer # Absent => queue' # <<>> /\ Head(queue') = writer
        BY <3>1, QueueFacts DEF TypeOK, LockKnows
      <3>5. \A u \in waiting : at'[u] = "rlock"
        BY DEF TypeOK, LockKnows
      <3>. QED  BY <3>1, <3>2, <3>3, <3>4, <3>5 DEF LockKnows
    <2>3. OpsMatch'
      BY DEF TypeOK, OpsMatch, Enqueue
    <2>. QED  BY <2>1, <2>2, <2>3
  <1>. QED  BY <1>1, <1>2, AsksHaveType

\* A lookup finds what the map holds: nobody assigns to it meanwhile.
LEMMA LookupIsClean ==
    ASSUME LockInv, NEW t \in Threads, Lookup(t)
    PROVE  /\ ~Assigning
           /\ asks[t].op = "get"
           /\ asks[t].key \in Keys
           /\ found' = [found EXCEPT ![t] = Done(map[asks[t].key])]
  <1>1. Reads(t)
    BY DEF Lookup, Reads
  <1>2. ASSUME NEW u \in Threads, at[u] = "assign" PROVE FALSE
    BY <1>1, <1>2, AbsentAssumption DEF LockInv, LockKnows, Writes
  <1>3. ~Assigning
    BY <1>2 DEF Assigning
  <1>4. asks[t].op = "get"
    BY DEF Lookup, LockInv, OpsMatch
  <1>. QED  BY <1>3, <1>4, AskedHasType DEF Lookup, Yield

LEMMA LookupKeepsInv ==
    ASSUME LockInv, NEW t \in Threads, Lookup(t)
    PROVE  LockInv'
  <1>. USE DEF LockInv
  <1>1. map[asks[t].key] \in Values \cup {Absent}
    BY LookupIsClean DEF TypeOK
  <1>2. TypeOK'
    <2>1. Done(map[asks[t].key]) \in [done : BOOLEAN, value : Values \cup {Absent}]
      BY <1>1 DEF Done
    <2>2. found' = [found EXCEPT ![t] = Done(map[asks[t].key])]
      BY LookupIsClean
    <2>3. found' \in [Threads -> [done : BOOLEAN, value : Values \cup {Absent}]]
      BY <2>1, <2>2 DEF TypeOK
    <2>4. at' \in [Threads -> {"idle", "rlock", "runlock", "lock", "assign", "unlock", "return"}]
      BY DEF TypeOK, Lookup, Goto
    <2>5. UNCHANGED <<map, asks, readers, waiting, queue, writer>>
      BY DEF Lookup
    <2>. QED  BY <2>3, <2>4, <2>5 DEF TypeOK
  <1>3. LockKnows'
    BY DEF TypeOK, LockKnows, Lookup, Goto, Writes, Reads
  <1>4. OpsMatch'
    BY DEF TypeOK, OpsMatch, Lookup, Goto, Yield, Done
  <1>. QED  BY <1>2, <1>3, <1>4

LEMMA LeaveReadKeepsInv ==
    ASSUME LockInv, NEW t \in Threads, LeaveRead(t), found[t].done
    PROVE  LockInv'
  <1>. USE DEF LockInv, LeaveRead, RUnlock, Goto
  <1>1. TypeOK'
    BY DEF TypeOK
  <1>2. LockKnows'
    BY DEF TypeOK, LockKnows, Writes, Reads
  <1>3. OpsMatch'
    BY DEF TypeOK, OpsMatch
  <1>. QED  BY <1>1, <1>2, <1>3

\* The first of the queue gets the lock: nobody holds it.
LEMMA EnterKeepsInv ==
    ASSUME LockInv, NEW t \in Threads, Enter(t)
    PROVE  LockInv'
  <1>. USE DEF LockInv, Enter, Locked, Goto
  <1>1. TypeOK'
    BY DEF TypeOK
  <1>2. LockKnows'
    <2>1. writer = Absent
      BY DEF TypeOK, LockKnows, Writes
    <2>2. \A u \in Threads : Writes(u)' <=> u = t
      BY <2>1, AbsentAssumption DEF TypeOK, LockKnows, Writes
    <2>3. \A u \in Threads : Reads(u)' <=> u \in readers'
      BY DEF TypeOK, LockKnows, Reads
    <2>4. \A u \in waiting' : at'[u] = "rlock" /\ u \notin readers'
      BY DEF TypeOK, LockKnows
    <2>. QED  BY <2>2, <2>3, <2>4 DEF LockKnows
  <1>3. OpsMatch'
    BY DEF TypeOK, OpsMatch
  <1>. QED  BY <1>1, <1>2, <1>3

\* An assignment stores its value: it is the only one.
LEMMA AssignIsClean ==
    ASSUME LockInv, NEW t \in Threads, Assign(t)
    PROVE  /\ asks[t].op = "put"
           /\ asks[t].key \in Keys /\ asks[t].value \in Values
           /\ map' = [map EXCEPT ![asks[t].key] = asks[t].value]
  <1>1. ASSUME NEW u \in Threads \ {t}, at[u] = "assign" PROVE FALSE
    BY <1>1 DEF Assign, LockInv, LockKnows, Writes
  <1>2. asks[t].op = "put"
    BY DEF Assign, LockInv, OpsMatch
  <1>. QED  BY <1>1, <1>2, AskedHasType DEF Assign

LEMMA AssignKeepsInv ==
    ASSUME LockInv, NEW t \in Threads, Assign(t)
    PROVE  LockInv'
  <1>. USE DEF LockInv
  <1>1. TypeOK'
    BY AssignIsClean DEF TypeOK, Assign, Goto, Yield, Done
  <1>2. LockKnows'
    BY DEF TypeOK, LockKnows, Assign, Goto, Writes, Reads
  <1>3. OpsMatch'
    BY DEF TypeOK, OpsMatch, Assign, Goto, Yield, Done
  <1>. QED  BY <1>1, <1>2, <1>3

\* The writer goes and lets the readers in that waited.
LEMMA LeaveWriteKeepsInv ==
    ASSUME LockInv, NEW t \in Threads, LeaveWrite(t), found[t].done
    PROVE  LockInv'
  <1>. USE DEF LockInv, LeaveWrite, Unlock, Goto
  <1>0. writer = t /\ readers = {} /\ queue # <<>>
    BY AbsentAssumption DEF LockKnows, Writes
  <1>1. TypeOK'
    BY <1>0, QueueFacts DEF TypeOK
  <1>2. LockKnows'
    <2>1. \A u \in Threads : ~Writes(u)'
      BY <1>0 DEF TypeOK, LockKnows, Writes
    <2>2. \A u \in Threads : Reads(u)' <=> u \in readers'
      BY <1>0 DEF TypeOK, LockKnows, Reads
    <2>. QED  BY <2>1, <2>2, AbsentAssumption DEF LockKnows
  <1>3. OpsMatch'
    BY DEF TypeOK, OpsMatch
  <1>. QED  BY <1>1, <1>2, <1>3

LEMMA ReturnKeepsInv ==
    ASSUME LockInv, NEW t \in Threads, Return(t)
    PROVE  LockInv'
  <1>. USE DEF LockInv, Return, Goto
  <1>1. TypeOK'
    BY DEF TypeOK, Pending
  <1>2. LockKnows'
    BY DEF TypeOK, LockKnows, Writes, Reads
  <1>3. OpsMatch'
    BY DEF TypeOK, OpsMatch
  <1>. QED  BY <1>1, <1>2, <1>3

LEMMA NextKeepsInv == LockInv /\ [Next]_vars => LockInv'
  <1>. SUFFICES ASSUME LockInv, [Next]_vars PROVE LockInv'
    OBVIOUS
  <1>1. CASE UNCHANGED vars
    BY <1>1 DEF vars, LockInv, TypeOK, LockKnows, OpsMatch, Writes, Reads
  <1>2. ASSUME NEW t \in Threads, NEW ask \in Asks, Start(t, ask) PROVE LockInv'
    BY <1>2, StartKeepsInv
  <1>3. ASSUME NEW t \in Threads, Step(t) PROVE LockInv'
    <2>1. at[t] \in {"runlock", "unlock"} => found[t].done
      BY DEF LockInv, OpsMatch
    <2>2. CASE LeaveRead(t)
      BY <2>1, <2>2, LeaveReadKeepsInv DEF LeaveRead
    <2>3. CASE LeaveWrite(t)
      BY <2>1, <2>3, LeaveWriteKeepsInv DEF LeaveWrite
    <2>. QED  BY <1>3, <2>2, <2>3, LookupKeepsInv, EnterKeepsInv, AssignKeepsInv,
                 ReturnKeepsInv DEF Step
  <1>. QED  BY <1>1, <1>2, <1>3 DEF Next

\* The mutex and the handlers agree in every reachable state on who holds
\* the lock (sync.RWMutex as handler.go:33-36 uses it).
THEOREM LockInvariance == Spec => []LockInv
  <1>. QED  BY InitLockInv, NextKeepsInv, PTL DEF Spec

\* Nobody touches the map while a handler assigns to it.
THEOREM HandlersExclude == Spec => []MutualExclusion
  <1>1. LockInv => MutualExclusion
    BY AbsentAssumption DEF LockInv, LockKnows, MutualExclusion
  <1>. QED  BY <1>1, LockInvariance, PTL

-----------------------------------------------------------------------------
(* The refinement                                                          *)

LEMMA InitIsAtomic == Init => Store!StoreInit
  BY DEF Init, Store!StoreInit, NoOp, Ask, Pending, Store!NoOp, Store!Ask, Store!Pending

\* Each step of a handler is a step of the atomic store or none at all: the
\* lookup is its Get and the assignment its Put.
LEMMA StepIsAtomic ==
    LockInv /\ [Next]_vars => [Store!StoreNext]_(Store!storeVars)
  <1>. SUFFICES ASSUME LockInv, [Next]_vars
                PROVE  Store!StoreNext \/ UNCHANGED Store!storeVars
    OBVIOUS
  <1>. USE DEF Ask, NoOp, Pending, Done, Store!Ask, Store!NoOp, Store!Pending, Store!Done
  <1>1. CASE UNCHANGED vars
    BY <1>1 DEF vars, Store!storeVars
  <1>2. ASSUME NEW t \in Threads, NEW ask \in Asks, Start(t, ask)
        PROVE  Store!StoreNext
    <2>1. asks[t] = NoOp
      BY <1>2 DEF Start, LockInv, OpsMatch
    <2>2. PICK k \in Keys : ask = Ask("get", k, Absent)
                                \/ \E v \in Values : ask = Ask("put", k, v)
      BY AsksHaveType
    <2>3. ask \in {Store!Ask("get", k, Absent)} \cup {Store!Ask("put", k, v) : v \in Values}
      BY <2>2
    <2>4. Store!Begin(t)
      BY <1>2, <2>1, <2>3 DEF Start, Store!Begin
    <2>. QED  BY <2>4 DEF Store!StoreNext
  <1>3. ASSUME NEW t \in Threads, Lookup(t) PROVE Store!StoreNext
    <2>1. found[t] = Pending
      BY <1>3 DEF Lookup, LockInv, OpsMatch
    <2>2. Store!Get(t)
      BY <1>3, <2>1, LookupIsClean DEF Lookup, Store!Get
    <2>. QED  BY <2>2 DEF Store!StoreNext
  <1>4. ASSUME NEW t \in Threads, Assign(t) PROVE Store!StoreNext
    <2>1. found[t] = Pending
      BY <1>4 DEF Assign, LockInv, OpsMatch
    <2>2. Store!Put(t)
      BY <1>4, <2>1, AssignIsClean DEF Assign, Yield, Store!Put
    <2>. QED  BY <2>2 DEF Store!StoreNext
  <1>5. ASSUME NEW t \in Threads, Return(t) PROVE Store!StoreNext
    <2>1. found[t].done
      BY <1>5 DEF Return, LockInv, OpsMatch
    <2>2. Store!Finish(t)
      BY <1>5, <2>1 DEF Return, Store!Finish
    <2>. QED  BY <2>2 DEF Store!StoreNext
  <1>6. ASSUME NEW t \in Threads, LeaveRead(t) \/ Enter(t) \/ LeaveWrite(t)
        PROVE  UNCHANGED Store!storeVars
    BY <1>6 DEF LeaveRead, Enter, LeaveWrite, Store!storeVars
  <1>. QED  BY <1>1, <1>2, <1>3, <1>4, <1>5, <1>6 DEF Next, Step

\* A critical section of the OrderStore is one step of an atomic map, which
\* is what OrderService takes it for (handler.go:33-44).
THEOREM CriticalSectionsAreSteps == Spec => StoreIsAtomic
  <1>. QED  BY InitIsAtomic, StepIsAtomic, LockInvariance, PTL
           DEF Spec, StoreIsAtomic, Store!StoreSpec
=============================================================================
