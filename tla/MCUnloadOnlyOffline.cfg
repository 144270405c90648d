SPECIFICATION CommandSpec
CONSTANTS
    Rid = {r1, r2}
    Player = {r1, r2}
    Union = {u1}
    Proc = {p1}
    NoRid = NoRid
    NoUnion = NoUnion
    Off = Off
    NoRow = NoRow
    MaxMembers = 2
    MaxApply = 0
    OnlinePlayer = {o1}
    OnlineRid = {o1, o2}
    Alone = p1
    CapRid = {c1, c2, c3}
PROPERTIES UnloadOnlyOffline
SYMMETRY Symmetry
