SPECIFICATION FairGrpcSpec
CONSTANTS
    None = None
    Malformed <- MCMalformed
    OrderIds = {o1}
    Txns = {t1, t2, t3}
    Calls = {c1, c2}
    Asks <- MCAsks
INVARIANTS GrpcInv TakenIsAnswered
PROPERTIES ServesCalls StopEnds
