SPECIFICATION FairSpec
CONSTANTS
    Conn = {c1, c2}
    Client = {}
    NoConn = NoConn
    MayThrow = FALSE
    HookEnds = {"blocks", "fails"}
    MaxQueue = 1
PROPERTIES AgentReclaimed
CHECK_DEADLOCK FALSE
