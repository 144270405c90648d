SPECIFICATION NativeSpec
CONSTANTS
    Service = {s1, s2}
    File = {main}
    State = {e1, e2, e3}
    Kind = {"lua", "garbled"}
    MaxVersion = 1
    MaxClear = 1
    Object = {o1, o2, o3}
    Callback = {f1, f2}
    MaxFailure = 1
    Width = 16
    InitSize = 4
    Below = 1
    WebRequest = {w1, w2}
    Piece = {1, 4}
    LeastBlock = 2
    MaxBody = 5
    Wrap = 12
    Jump = 3
    Interval = {1, 2}
    MaxXmit = 2
    RTO_NDL = 1
    RTO_MIN = 2
    RTO_DEF = 2
    RTO_MAX = 2
    Walker = {1, 2}
    Place = {0, 1, 2, 3, 4, 5, 6}
    Radius = 2
    MaxMove = 2
    Uint32 = {0, 1, 2, 3, 4, 5, 6}
    PRE_ALLOC = 2
    Member = {1, 2, 3, 4}
    Score = {1, 3}
    MaxLevel = 2
    Star = 6
    Hash <- const_Hash
    Word <- const_Word
    Message <- const_Message
    MaxWords = 4
INVARIANTS
    ClonesLive FreshAfterClear Ranked RefsExact MapFinds FiltersAll
    OwnCallback RoomMade SlotHeld BodySound Punctual
PROPERTIES NoSilentNeighbour TimersExact
SYMMETRY Symmetry
CHECK_DEADLOCK FALSE
