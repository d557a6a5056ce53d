----------------------------- MODULE PcapReader -----------------------------
(***************************************************************************)
(* The receive path of the pcap builds (UDP2RAW_MP).  A reader thread sits *)
(* in pcap_loop and hands every captured packet to the event loop through  *)
(* my_queue, a ring under queue_mutex, followed by ev_async_send.  The     *)
(* event loop drains the ring in async_cb; from its timer it also replaces *)
(* the pcap filter (init_filter), for which it must get the reader out of  *)
(* pcap_loop and take pcap_mutex from it.                                  *)
(*                                                                         *)
(* A step is what happens between two points where the other thread can    *)
(* interfere: the sections under queue_mutex are one step each, the copy   *)
(* out of the borrowed slot, which async_cb makes after it released the    *)
(* mutex, is another.  Packets are numbered in the order of capture.       *)
(***************************************************************************)
EXTENDS Naturals, Sequences, FiniteSets

CONSTANTS
    queue_len,       \* slots of the ring (200 in the source)
    g_fix_gro,       \* --fix-gro: huge packets are split, not dropped
    send_with_pcap,  \* --easy-faketcp's sender: the first packet gives the link header
    Sizes,           \* the sizes captured packets have: "fit", "huge"
    MaxPackets       \* bound: packets captured in a behaviour

ASSUME ConstantsAssumption ==
    /\ queue_len \in Nat \ {0}
    /\ g_fix_gro \in BOOLEAN /\ send_with_pcap \in BOOLEAN
    /\ Sizes \subseteq {"fit", "huge"}
    /\ MaxPackets \in Nat

VARIABLES
    \* the ring
    data, head, tail,
    \* the reader thread: where it is, and the packet its handler holds
    reader, pkt,
    \* the event loop: where it is, and the slot and packet it borrowed
    main, slot, borrowed,
    pending,               \* async_watcher is pending
    break_loop,            \* the flag pcap_breakloop sets
    pcap_mutex,            \* its holder
    pcap_header_captured,
    \* history: packets captured, queued and dequeued, and whether the last
    \* async_cb returned without having seen the ring empty
    captured, queued, dequeued, early

ring == <<data, head, tail>>
lock == <<break_loop, pcap_mutex>>
vars == <<ring, reader, pkt, main, slot, borrowed, pending, lock,
          pcap_header_captured, captured, queued, dequeued, early>>

Slots == 0 .. queue_len - 1
NoPacket == [id |-> 0, size |-> "fit"]
Packets == [id : Nat, size : {"fit", "huge"}]

TypeOK ==
    /\ data \in [Slots -> Packets] /\ head \in Slots /\ tail \in Slots
    /\ reader \in {"lock", "loop", "queue", "signal", "sleep"}
    /\ main \in {"idle", "header", "copy_header", "take", "copy", "try", "filter"}
    /\ pkt \in Packets /\ borrowed \in Packets
    /\ slot \in Slots
    /\ pcap_mutex \in {"none", "reader", "main"}
    /\ pending \in BOOLEAN /\ break_loop \in BOOLEAN
    /\ pcap_header_captured \in BOOLEAN /\ early \in BOOLEAN
    /\ captured \in Nat
    /\ queued \in Seq(Packets) /\ dequeued \in Seq(Packets)

Init ==
    /\ data = [s \in Slots |-> NoPacket] /\ head = 0 /\ tail = 0
    /\ reader = "lock" /\ pkt = NoPacket
    /\ main = "idle" /\ slot = 0 /\ borrowed = NoPacket
    /\ pending = FALSE /\ break_loop = FALSE /\ pcap_mutex = "none"
    /\ pcap_header_captured = FALSE
    /\ captured = 0 /\ queued = <<>> /\ dequeued = <<>> /\ early = FALSE

-----------------------------------------------------------------------------
(* queue_t *)

empty == head = tail

full == (tail + 1) % queue_len = head

push_back(x) ==
    /\ data' = [data EXCEPT ![tail] = x]
    /\ tail' = (tail + 1) % queue_len
    /\ head' = head

\* Mutant: pop_front hands out the slot after the one it frees.
pop_front_Next ==
    /\ head' = (head + 1) % queue_len
    /\ slot' = head' /\ borrowed' = data[head']
    /\ UNCHANGED <<data, tail>>
    /\ dequeued' = Append(dequeued, borrowed')

\* Mutant: peek_front without pop_front.
pop_front_Missing ==
    /\ slot' = head /\ borrowed' = data[head]
    /\ UNCHANGED <<ring, dequeued>>

\* peek_front and pop_front in one section: the caller keeps the address of
\* the slot (slot), which the ring no longer owns.
pop_front ==
    /\ slot' = head /\ borrowed' = data[head]
    /\ head' = (head + 1) % queue_len
    /\ UNCHANGED <<data, tail>>
    /\ dequeued' = Append(dequeued, data[head])

-----------------------------------------------------------------------------
(* The reader thread: pcap_recv_thread_entry and my_packet_handler *)

ReaderLock ==
    /\ reader = "lock" /\ pcap_mutex = "none"
    /\ pcap_mutex' = "reader" /\ reader' = "loop"
    /\ UNCHANGED <<ring, pkt, main, slot, borrowed, pending, break_loop,
                   pcap_header_captured, captured, queued, dequeued, early>>

\* libpcap calls my_packet_handler.  Packets it rejects (truncated, or
\* shorter than the link header) have no effect and are not captures here.
Capture ==
    /\ reader = "loop" /\ captured < MaxPackets
    /\ captured' = captured + 1
    /\ \E size \in Sizes : pkt' = [id |-> captured', size |-> size]
    /\ reader' = "queue"
    /\ UNCHANGED <<ring, main, slot, borrowed, pending, lock,
                   pcap_header_captured, queued, dequeued, early>>

\* Mutant: the packet is copied to the slot at tail before full() is asked.
QueuePacket_CopyFirst ==
    /\ reader = "queue"
    /\ \/ /\ full /\ data' = [data EXCEPT ![tail] = pkt]
          /\ UNCHANGED <<head, tail, queued>>
       \/ ~full /\ push_back(pkt) /\ queued' = Append(queued, pkt)
    /\ reader' = "signal"
    /\ UNCHANGED <<pkt, main, slot, borrowed, pending, lock,
                   pcap_header_captured, captured, dequeued, early>>

\* The section under queue_mutex: a packet that finds the ring full is lost.
QueuePacket ==
    /\ reader = "queue"
    /\ \/ full /\ UNCHANGED <<ring, queued>>
       \/ ~full /\ push_back(pkt) /\ queued' = Append(queued, pkt)
    /\ reader' = "signal"
    /\ UNCHANGED <<pkt, main, slot, borrowed, pending, lock,
                   pcap_header_captured, captured, dequeued, early>>

\* ev_async_send: sends that come before the callback runs are one event.
AsyncSend ==
    /\ reader = "signal"
    /\ pending' = TRUE /\ reader' = "loop"
    /\ UNCHANGED <<ring, pkt, main, slot, borrowed, lock,
                   pcap_header_captured, captured, queued, dequeued, early>>

\* pcap_loop notices the flag between two packets, clears it and returns.
LoopReturns ==
    /\ reader = "loop" /\ break_loop
    /\ break_loop' = FALSE
    /\ pcap_mutex' = "none" /\ reader' = "sleep"
    /\ UNCHANGED <<ring, pkt, main, slot, borrowed, pending,
                   pcap_header_captured, captured, queued, dequeued, early>>

\* The end of ev_sleep(1.0).
ReaderWakes ==
    /\ reader = "sleep" /\ reader' = "lock"
    /\ UNCHANGED <<ring, pkt, main, slot, borrowed, pending, lock,
                   pcap_header_captured, captured, queued, dequeued, early>>

-----------------------------------------------------------------------------
(* The event loop: async_cb and init_filter *)

\* libev clears the event before it calls async_cb.
AsyncCb ==
    /\ main = "idle" /\ pending
    /\ pending' = FALSE
    /\ main' = IF send_with_pcap /\ ~pcap_header_captured THEN "header" ELSE "take"
    /\ early' = FALSE
    /\ UNCHANGED <<ring, reader, pkt, slot, borrowed, lock,
                   pcap_header_captured, captured, queued, dequeued>>

TakeHeader ==
    /\ main = "header"
    /\ \/ /\ empty /\ main' = "idle"
          /\ UNCHANGED <<ring, slot, borrowed, dequeued>>
       \/ ~empty /\ pop_front /\ main' = "copy_header"
    /\ UNCHANGED <<reader, pkt, pending, lock, pcap_header_captured, captured,
                   queued, early>>

\* The header packet is copied out of its slot, and the callback returns
\* with whatever else is in the ring.
CopyHeader ==
    /\ main = "copy_header"
    /\ pcap_header_captured' = TRUE
    /\ main' = "idle" /\ early' = TRUE
    /\ UNCHANGED <<ring, reader, pkt, slot, borrowed, pending, lock, captured,
                   queued, dequeued>>

\* One turn of the loop up to the copy: a huge packet ends the callback.
TakeFront ==
    /\ main = "take"
    /\ \/ /\ empty /\ main' = "idle"
          /\ UNCHANGED <<ring, slot, borrowed, dequeued, early>>
       \/ /\ ~empty /\ pop_front
          /\ \/ /\ ~g_fix_gro /\ data[head].size = "huge"
                /\ main' = "idle" /\ early' = TRUE
             \/ /\ g_fix_gro \/ data[head].size # "huge"
                /\ main' = "copy" /\ UNCHANGED early
    /\ UNCHANGED <<reader, pkt, pending, lock, pcap_header_captured, captured,
                   queued>>

\* Mutant: async_cb handles one packet per event.
HandlePacket_Once ==
    /\ main = "copy" /\ main' = "idle"
    /\ UNCHANGED <<ring, reader, pkt, slot, borrowed, pending, lock,
                   pcap_header_captured, captured, queued, dequeued, early>>

\* The packet is copied to g_packet_buf, client_on_raw_recv handles it, and
\* the loop turns.
HandlePacket ==
    /\ main = "copy" /\ main' = "take"
    /\ UNCHANGED <<ring, reader, pkt, slot, borrowed, pending, lock,
                   pcap_header_captured, captured, queued, dequeued, early>>

\* client_on_timer in client_idle has chosen a port and calls init_filter.
InitFilter ==
    /\ main = "idle" /\ main' = "try"
    /\ UNCHANGED <<ring, reader, pkt, slot, borrowed, pending, lock,
                   pcap_header_captured, captured, queued, dequeued, early>>

\* Mutant: the spin only waits for the mutex.
TryLockFails_NoBreak == main = "try" /\ pcap_mutex # "none" /\ UNCHANGED vars

\* pthread_mutex_trylock failed: pcap_breakloop, ev_sleep(0.001), again.
TryLockFails ==
    /\ main = "try" /\ pcap_mutex # "none"
    /\ break_loop' = TRUE
    /\ UNCHANGED <<ring, reader, pkt, main, slot, borrowed, pending, pcap_mutex,
                   pcap_header_captured, captured, queued, dequeued, early>>

TryLockSucceeds ==
    /\ main = "try" /\ pcap_mutex = "none"
    /\ pcap_mutex' = "main" /\ main' = "filter"
    /\ UNCHANGED <<ring, reader, pkt, slot, borrowed, pending, break_loop,
                   pcap_header_captured, captured, queued, dequeued, early>>

\* pcap_freecode, pcap_compile and pcap_setfilter, then the unlock.
SetFilter ==
    /\ main = "filter"
    /\ pcap_mutex' = "none" /\ main' = "idle"
    /\ UNCHANGED <<ring, reader, pkt, slot, borrowed, pending, break_loop,
                   pcap_header_captured, captured, queued, dequeued, early>>

-----------------------------------------------------------------------------
Reader == ReaderLock \/ Capture \/ QueuePacket \/ AsyncSend \/ LoopReturns \/ ReaderWakes

Main == \/ AsyncCb \/ TakeHeader \/ CopyHeader \/ TakeFront \/ HandlePacket
        \/ InitFilter \/ TryLockFails \/ TryLockSucceeds \/ SetFilter

Next == Reader \/ Main

Spec == Init /\ [][Next]_vars

\* The network owes no packet and the timer no filter change.  The threads
\* are scheduled; libev runs every pending watcher in an iteration, timer or
\* not (AsyncCb); libpcap looks at its flag between any two packets
\* (LoopReturns); the event loop polls every millisecond a mutex that the
\* reader leaves free for a second (TryLockSucceeds).
FairSpec ==
    /\ Spec
    /\ WF_vars(ReaderLock) /\ WF_vars(QueuePacket) /\ WF_vars(AsyncSend)
    /\ SF_vars(LoopReturns) /\ WF_vars(ReaderWakes) /\ SF_vars(AsyncCb)
    /\ WF_vars(TakeHeader) /\ WF_vars(CopyHeader)
    /\ WF_vars(TakeFront) /\ WF_vars(HandlePacket)
    /\ WF_vars(TryLockFails) /\ SF_vars(TryLockSucceeds) /\ WF_vars(SetFilter)

-----------------------------------------------------------------------------
(* Properties *)

\* The packet async_cb copies after it released queue_mutex is the one it
\* dequeued: the reader never refills a slot that is still being read.  It
\* depends on full() giving up one slot of the ring.
SlotIntact == main \in {"copy", "copy_header"} => data[slot] = borrowed

\* The ring loses, repeats and reorders nothing: what was queued is what was
\* dequeued followed by what lies between head and tail.
Contents ==
    [i \in 1 .. (tail + queue_len - head) % queue_len |->
        data[(head + i - 1) % queue_len]]
InOrder == queued = dequeued \o Contents

\* The filter is never replaced while the reader is inside pcap_loop.
FilterExclusive == main = "filter" => reader \in {"lock", "sleep"}

\* No wakeup is lost: an idle event loop with packets in the ring and no
\* event pending is either about to be signalled, or returned early from its
\* last callback (after a huge packet or the link header).
NoLostWakeup ==
    main = "idle" /\ ~empty /\ ~pending => reader = "signal" \/ early

\* A queued packet is dequeued, whatever the filter changes in between, or
\* the callback returns early and leaves it to the next capture.
Drained == \A n \in 1 .. MaxPackets : Len(queued) >= n ~> Len(dequeued) >= n \/ early

\* init_filter's spin ends: the reader is broken out of pcap_loop.
FilterApplied == main = "try" ~> main = "filter"

=============================================================================
