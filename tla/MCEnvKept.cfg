SPECIFICATION Spec
CONSTANTS
    Service = {s1}
    File = {f1}
    State = {e1}
    Kind = {"lua", "cipher", "long cipher", "absent", "bad", "garbled"}
    MaxVersion = 0
    MaxClear = 0
INVARIANTS EnvKept
CHECK_DEADLOCK FALSE
