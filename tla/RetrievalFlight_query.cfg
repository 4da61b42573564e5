SPECIFICATION FairSpec
CONSTANTS
    q1 = q1
    q2 = q2
    q3 = q3
    m1 = m1
    auth = auth
    None = None
    Caller = {q1, q2, q3}
    Mutator = {m1}
    Question = {auth}
    MaxEntries = 1
    CacheEnabled = TRUE
    Fault = {"expiry", "retrieval", "compose", "cancel", "mutation"}
    MaxStore = 1
INVARIANT TypeOK
INVARIANT CacheIsCurrent
INVARIANT WaiterHasFinisher
PROPERTY AnswersAreFresh
PROPERTY EveryQueryReturns
CHECK_DEADLOCK FALSE
