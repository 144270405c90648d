SPECIFICATION FairSpec
CONSTANTS
    Rid = {r1, r2}
    Agent = {a1, a2, a3}
    Proc = {p1, p2, p3}
    NoRid = NoRid
    NoAgent = NoAgent
    presize = 2
INVARIANTS AgentHasOnePlace PoolBounded OneLoader
PROPERTIES LoadEnds
CHECK_DEADLOCK FALSE
