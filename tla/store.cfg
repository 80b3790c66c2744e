SPECIFICATION FairSpec
CONSTANTS
    Threads = {h1, h2, h3, h4}
    Keys = {k1}
    Values = {v1, v2}
    Absent = Absent
INVARIANTS LockInv MutualExclusion
PROPERTIES StoreIsAtomic EveryoneGetsThrough
