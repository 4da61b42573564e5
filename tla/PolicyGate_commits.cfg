SPECIFICATION Spec
CONSTANTS
    m1 = m1
    m2 = m2
    e1 = e1
    None = None
    Memory = {m1, m2}
    Event = {e1}
    Proposal <- Proposals
    LegacyPolicy <- LegacyPolicies
    MaxUse = 3
INVARIANT TypeOK
INVARIANT EvidenceGrounded
PROPERTY RecordsKept
PROPERTY AddsWhole
SYMMETRY MemorySymmetry
