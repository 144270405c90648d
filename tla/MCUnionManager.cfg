SPECIFICATION AnySpec
CONSTANTS
    Rid = {r1, r2}
    Player = {}
    Union = {u1}
    Proc = {p1, p2}
    NoRid = NoRid
    NoUnion = NoUnion
    Off = Off
    NoRow = NoRow
    MaxMembers = 2
    MaxApply = 1
    Alone = p1
    CapRid = {c1, c2, c3}
    OnlineRid = {o1, o2}
    OnlinePlayer = {o1}
INVARIANTS RolesValid CapHeld
PROPERTIES DecisionFinal
SYMMETRY Symmetry
