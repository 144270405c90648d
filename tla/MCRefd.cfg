SPECIFICATION FairSpec
CONSTANTS
    Addr = {a1, a2}
    Handle = {h1, h2, h3}
    Delayed = {a1}
    Hung = {a2}
    NoAddr = NoAddr
    MaxVer = 3
INVARIANTS HeldIsRunning CountIsExact NoLostWaiter
PROPERTIES StopAfterQuiet WaiterAnswered IdleIsStopped ImplementsRefCounted
CHECK_DEADLOCK FALSE
