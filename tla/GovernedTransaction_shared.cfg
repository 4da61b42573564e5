SPECIFICATION Spec
CONSTANTS
    loop = loop
    job = job
    w1 = w1
    w2 = w2
    old = old
    new = new
    Nobody = Nobody
    Executor = {loop, job}
    Retriever = {w1}
    Memory = {old, new}
    Stored = {old}
    MaxCall = 3
INVARIANT TypeOK
INVARIANT OnlyGovernedChanges
INVARIANT OneOutcome
INVARIANT NoWriteBelowTransaction
PROPERTY RecordsPersist
SYMMETRY ExecutorSymmetry
CHECK_DEADLOCK FALSE
