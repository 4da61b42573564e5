SPECIFICATION Spec
CONSTANTS
    loop = loop
    job = job
    note = note
    frame = frame
    claim = claim
    topic = topic
    detail = detail
    None = None
    Thread = {loop, job}
    Background = {job}
    Memory = {note}
    Frame = {frame}
    Claim = {claim}
    SourcesOf <- FrameSources
    Key = {topic, detail}
    KeyOf <- SlotKeys
    MaxEvidence = 2
    MaxSlot = 4
INVARIANT TypeOK
INVARIANT OneVisibleRow
INVARIANT UndisturbedRebuildIsExact
CHECK_DEADLOCK FALSE
