SPECIFICATION AnySpec
CONSTANTS
    General = {g1, g2}
    Order = {o1, o2}
    Position = {p1, p2}
    Recruit = {s1, s2}
    NoGeneral = NoGeneral
    NoOrder = NoOrder
    NoArmy = NoArmy
    First = p1
    MaxFail = 2
INVARIANTS OnceInArmy PaidOnce
PROPERTIES Loyal
SYMMETRY Symmetry
