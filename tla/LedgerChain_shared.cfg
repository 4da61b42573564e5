SPECIFICATION FairSpec
CONSTANTS
    loop = loop
    worker = worker
    cli = cli
    runtime = runtime
    tool = tool
    Nobody = Nobody
    Writer <- TwoProcesses
    Process = {runtime, tool}
    ProcessOf <- SplitHomes
    Autonomous <- TwoProcesses
    MaxEvent = 4
    MaxCommit = 3
INVARIANT TypeOK
INVARIANT TransactionAtomic
PROPERTY GrowsByTransactions
PROPERTY EveryWriteEnds
CHECK_DEADLOCK FALSE
