SPECIFICATION Spec
CONSTANTS
    None = None
    Malformed <- MCMalformed
    Catalog <- SeedCatalog
    Requests = {r1, r2, r3}
    OrderIds = {o1}
    Txns = {t1, t2}
    Inputs <- PayingInputs
SYMMETRY Symmetry
INVARIANTS PaidOnce
