SPECIFICATION RecallSpec
CONSTANTS
    fact = fact
    word = word
    Nil = Nil
    Memory = {1, 2, 3, 4}
    Term = {fact, word}
    Draft <- MCDraft
    Query <- MCQuery
    EdgeDraft <- MCEdgeDraft
    Graph <- MCGraph
    GraphSteps = 3
    GraphDepth = 1
    MaxPath = 3
    MaxUses = 1
    MaxWrites = 1
    MaxSearches = 1
    Library <- MCLibrary
    Order <- MCOrder
INVARIANTS
    RecallTypeOK
    StaleFactYields
    PathsCarry
CHECK_DEADLOCK FALSE
