\* A ring of three slots (two usable), any mix of sizes, the link header taken first.
SPECIFICATION FairSpec
CONSTANTS
    queue_len = 3
    g_fix_gro = FALSE
    send_with_pcap = TRUE
    Sizes = {"fit", "huge"}
    MaxPackets = 5
INVARIANTS SlotIntact InOrder NoLostWakeup
PROPERTIES Drained FilterApplied
