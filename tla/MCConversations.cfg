\* Two applications that send while now < QuietTime; every conversation times
\* out well before the end.
SPECIFICATION FairSpec
CONSTANTS
    a1 = a1
    a2 = a2
    App <- MCApp
    MaxConv = 2
    MaxFd64 = 2
    max_conv_num = 2
    conv_timeout = 1
    conv_clear_interval = 1
    conv_clear_ratio = 30
    conv_clear_min = 1
    QuietTime = 3
    MaxTime = 8
    MaxTransit = 1
INVARIANT RightRecipient
PROPERTIES ActiveKept ImplementsConvTable IdleCleared
CHECK_DEADLOCK FALSE
