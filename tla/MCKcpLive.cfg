SPECIFICATION FairSpec
CONSTANTS
    End <- const_End
    Script <- const_OneWay
    Modes <- const_Modes
    Overhead = 1
    Mtu = 3
    SndWnd = 2
    RcvWnd = 1
    DefaultWnd = 1
    MaxLink <- const_NarrowLink
    MaxAcks = 1
    MaxFaults = 1
PROPERTY Delivered
CHECK_DEADLOCK FALSE
