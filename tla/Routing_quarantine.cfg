SPECIFICATION RoutingSpec
CONSTANTS
    memory = memory
    belief = belief
    editor = editor
    crash = crash
    alice = alice
    bob = bob
    Nil = Nil
    Proposed <- MCProposed
    Input <- MCInput
    Batch <- MCBatch
    Failure <- MCFailure
    MaxEvents = 1
    MaxApplied = 0
    MaxCrashes = 0
INVARIANT QuarantinedStaysOut
CHECK_DEADLOCK FALSE
