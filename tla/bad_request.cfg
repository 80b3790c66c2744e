SPECIFICATION HttpSpec
CONSTANTS
    None = None
    Malformed <- MCMalformed
    Catalog <- SeedCatalog
    Spellings <- MCSpellings
    Requests = {r1, r2}
    OrderIds = {o1}
    Txns = {t1}
    Inputs <- MCInputs
    Wires <- MCWires
SYMMETRY Symmetry
INVARIANTS BadRequestsAreErrors
