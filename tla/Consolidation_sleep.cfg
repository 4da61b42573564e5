SPECIFICATION Spec
CONSTANTS
    loop = loop
    job = job
    None = None
    User = {loop}
    Background = {job}
    Memory = {1, 2, 3}
    TermsOf <- Keywords
    Chained <- Chain
    Alike = {}
    Worded = {}
    Policies <- Proposals
    CommitModes = {"sync", "async"}
    GraphMode = "deterministic"
    MaxMembers = 2
    MaxGroups = 2
    MaxClusters = 2
    MaxCalls = 5
INVARIANT TypeOK
INVARIANT StructureRooted
INVARIANT SleepIsWhole
INVARIANT OnlyUnwantedIsHidden
INVARIANT EdgesAreEvidenced
CHECK_DEADLOCK FALSE
