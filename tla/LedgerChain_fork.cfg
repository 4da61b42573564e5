SPECIFICATION Spec
CONSTANTS
    loop = loop
    worker = worker
    cli = cli
    runtime = runtime
    tool = tool
    Nobody = Nobody
    Writer <- TwoThreads
    Process = {runtime}
    ProcessOf <- TwoHomes
    Autonomous <- TwoThreads
    MaxEvent = 4
    MaxCommit = 2
INVARIANT ChainIntact
CHECK_DEADLOCK FALSE
