\* Modes 2 (whose steps are those of 0 and 1) and 3 (whose steps are those of 4), across the wrap-around, with reordering.
SPECIFICATION FairSpec
CONSTANTS
    NumMod = 82
    SeqModes = {2, 3}
    window_size = 4
    max_data_len = 2
    Lengths = {1, 2}
    Start = 79
    MaxStream = 5
    MaxFlight = 2
    MaxAhead = 4
INVARIANT InWindow
PROPERTIES AckMonotone Progress
