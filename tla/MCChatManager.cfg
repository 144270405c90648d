SPECIFICATION Spec
CONSTANTS
    Rid = {r1, r2}
    Channel = {c1, c2}
    Name = {n1}
    Agent = {a1, a2}
    NoAgent = NoAgent
    Limits = {1, 2}
    DEFAULT_HISTORY_COUNT = 2
    MaxSent = 3
INVARIANTS InSync HistoryIsLatest
SYMMETRY Symmetry
