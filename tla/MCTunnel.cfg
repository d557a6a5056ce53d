\* A new source port for every session, and --force-source-port.  Two faults
\* can cost a client four sessions, so it has five.
SPECIFICATION FairSpec
CONSTANTS
    Options <- MCOptions
    MaxFaults = 2
    MaxSession = 5
    MaxData = 1
CHECK_DEADLOCK FALSE
INVARIANTS
    SessionAgreement
    DataAtMostOnce
PROPERTIES
    SessionMonotone
    EventuallyConnected
