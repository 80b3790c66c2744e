SPECIFICATION Spec
CONSTANTS
    None = None
    Malformed <- MCMalformed
    Catalog <- SeedCatalog
    Requests = {r1, r2, r3, r4}
    OrderIds = {o1, o2}
    Txns = {t1, t2, t3}
    Inputs <- OrderingInputs
SYMMETRY Symmetry
INVARIANTS IInv SaidInv TypeOK PaidMeansCharged ChargesAccountedFor SettledMeansAnswered PaymentAcceptsOurCalls StoreMatchesAnswers
PROPERTIES OrdersKept
