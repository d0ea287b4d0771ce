SPECIFICATION Spec
CONSTANTS
    Prompts = {p1, p2}
    Objs = {1, 2}
    None = None
    MaxGestures = 2
    Drafting = {p1}
    Chunks <- MCChunks
    Snapshots <- MCSnapshots
    OutputCap = 2
    ResultCap = 1
    MaxEvents = 4
    RingSize = 4
    MaxDeltas = 1
    MaxLag = 0
    MaxMoves = 3
    Views <- MCViews
INVARIANTS
    TranscriptTellsTheTruth
    PaneShowsTheChat
PROPERTIES
    ShownStays
    ChatSettles
CHECK_DEADLOCK FALSE
