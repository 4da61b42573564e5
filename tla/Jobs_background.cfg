SPECIFICATION Spec
CONSTANTS
    memory = memory
    before = before
    after = after
    small = small
    large = large
    None = None
    Caller = {c1, c2}
    Memory <- MCMemory
    Text <- MCText
    Listing <- MCListing
    Round <- MCRound
    Provider <- MCProvider
    Label <- MCLabel
    Mode <- MCMode
    MaxBatch = 1
    Recent = 1
    MaxCalls = 2
    MaxWrites = 1
    MaxCrashes = 1
INVARIANTS
    TypeOK
    VectorsFit
PROPERTIES
    JobsAreDone
CHECK_DEADLOCK FALSE
