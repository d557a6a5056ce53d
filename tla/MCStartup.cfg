SPECIFICATION MCSpec
CONSTANTS
    Settings <- MCSettings
    MaxTries = 2
    MaxFiles = 4
    MaxFails = 3
    MaxFlushes = 2
    MaxRuns = 3
    MaxRaw = 3
    MaxBack = 2
    MainCalls = 4
    KeepCalls = 1
    last_address = 3
    Blocks = {1, 2, 4}
    max_hops = 8
INVARIANTS RulesWithProcess DescriptorsOwned Protected CleanExit ConfigurationRead NextHop
PROPERTIES SignalEnds Healed ClockMonotone
CHECK_DEADLOCK FALSE
