\* A window of three marks and numbers up to 10: jumps inside, onto the edge of
\* and past the window, and two re-uses of every slot, all happen.  Payload
\* lengths around a block and around max_data_len; raw lengths at which the
\* packet with its headers just fits max_data_len and just does not.  What is
\* given to the functions is in the module.
SPECIFICATION MCSpec
CONSTANTS
    WindowSize = 3
    SeqLimit = 11
    PayloadLengths = {14, 1766, 1782, 1783}
    MaxPackets = 3
    MaxMerge = 3
    RawLengths = {20, 1748, 1749}
    max_rst_allowed = 1
    MaxRst = 3
INVARIANTS
    NoFalseDrop
    ReadBack OnlySent FilterExact RoundTrip BufferOnce
    HeadersRight
PROPERTIES CryptographyRight ImplementsAtMostOnce ImplementsAes
CHECK_DEADLOCK FALSE
