SPECIFICATION ServerSpec
CONSTANTS
    None = None
    Malformed <- MCMalformed
    OrderIds = {}
    Txns = {}
    Catalog <- SmallCatalog
    Calls <- MCCalls
CHECK_DEADLOCK FALSE
INVARIANTS ServerInv AnswersAsSpecified ListIsCompleteAndSorted
