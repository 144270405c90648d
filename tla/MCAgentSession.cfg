SPECIFICATION FairSpec
CONSTANTS
    Conn = {c1, c2}
    Client = {k1}
    NoConn = NoConn
    MayThrow = TRUE
    HookEnds = {"blocks", "fails"}
    MaxQueue = 1
INVARIANTS CountCovers NoAbandonedSession
PROPERTIES StopOnlyIdle AfkCompletes LoginEnds
CHECK_DEADLOCK FALSE
