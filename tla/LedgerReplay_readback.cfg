SPECIFICATION Spec
CONSTANTS
    a = a
    b = b
    m1 = m1
    m2 = m2
    m3 = m3
    None = None
    Namespace = {a, b}
    Memory = {m1, m2, m3}
    HomeOf <- MCHomeOf
    Stored = {m2}
    Edge = {e}
    Frame = {f}
    OldRows <- MCOldRows
    Claim = {c}
    Content = {x, y}
    MaxTxn = 2
    MaxImpact = 1
INVARIANTS
    TypeOK
    ReconstructsStore
    TraceReplays
    LedgerExplains
PROPERTIES
    HistoryKept
CHECK_DEADLOCK FALSE
