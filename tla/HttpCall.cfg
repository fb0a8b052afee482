\* Three uses of one client of either schema, any peer.
SPECIFICATION FairSpec
CONSTANTS
    Schemas = {"http", "https"}
    MaxCalls = 3
    MaxChunks = 2
INVARIANTS
    TypeOK
    OneOperation
    WholeResponse
    StaleResponse
    TimedOutNeverReturns
PROPERTIES
    TimeoutEndsCall
