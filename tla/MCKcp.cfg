SPECIFICATION Spec
CONSTANTS
    End <- const_End
    Script <- const_Fragments
    Modes <- const_Modes
    Overhead = 1
    Mtu = 3
    SndWnd = 2
    RcvWnd = 2
    DefaultWnd = 2
    MaxLink <- const_WideLink
    MaxAcks = 1
    MaxFaults = 1
INVARIANT AckedIsReceived
PROPERTY ImplementsChannel
CHECK_DEADLOCK FALSE
