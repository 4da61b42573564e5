SPECIFICATION RoutingSpec
CONSTANTS
    memory = memory
    belief = belief
    editor = editor
    crash = crash
    alice = alice
    bob = bob
    Nil = Nil
    Proposed <- MCProposed
    Input <- MCInput
    Batch <- MCBatch
    Failure <- MCFailure
    MaxEvents = 2
    MaxApplied = 1
    MaxCrashes = 1
INVARIANTS
    RoutingTypeOK
    RoutedWhole
    PacketFollowsCorrections
CHECK_DEADLOCK FALSE
