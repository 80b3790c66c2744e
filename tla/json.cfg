SPECIFICATION DecoderSpec
CONSTANTS
    None = None
    Malformed <- MCMalformed
    OrderIds = {o1}
    Txns = {t1}
    Spellings <- MCSpellings
    Documents <- MCDocuments
    Messages <- MCMessages
INVARIANTS DecoderInv DecodesAsSpecified NamesWhatIsMissing RoundTrip
CHECK_DEADLOCK FALSE
