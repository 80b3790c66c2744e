SPECIFICATION SerialSpec
CONSTANTS
    None = None
    Malformed <- MCMalformed
    Catalog <- SeedCatalog
    Requests = {r1, r2, r3, r4}
    OrderIds = {o1}
    Txns = {t1, t2, t3}
    Inputs <- SettlingInputs
SYMMETRY Symmetry
INVARIANTS SerialInv PaidOnce
PROPERTIES KeepsPromise
