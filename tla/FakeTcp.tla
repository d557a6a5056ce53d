------------------------------- MODULE FakeTcp ------------------------------
(***************************************************************************)
(* The TCP sequence numbers of a faketcp connection that is ready          *)
(* (network.cpp).  Nothing is retransmitted: the numbers only have to look *)
(* like a TCP stream to the middleboxes on the way.  Each direction is a   *)
(* stream of its own; this is one of them.  The sender counts what it      *)
(* sends in seq; the receiver acknowledges in ack_seq, which travels back  *)
(* with the receiver's own packets.  --seq-mode says how closely the two   *)
(* imitate TCP: 0 to 2 have no window, 3 and 4 fall back to the last       *)
(* acknowledged byte when the window is used up or an acknowledgement was  *)
(* repeated three times.                                                   *)
(*                                                                         *)
(* Numbers are modulo NumMod, 2^32 in the program.  Packets are lost and   *)
(* overtake each other, but only the last MaxFlight sent in a direction    *)
(* are still under way.                                                    *)
(***************************************************************************)
EXTENDS Integers, Sequences

CONSTANTS
    NumMod,        \* an even number
    SeqModes,      \* the values of --seq-mode
    window_size,   \* receive_window_lower_bound, shifted by wscale in mode 3
    max_data_len,
    Lengths,       \* payload lengths
    Start,         \* where the handshake left the stream
    MaxStream,     \* bound: bytes received, after which the sender is quiet
    MaxFlight,     \* bound: how far packets of a direction overtake each other
    MaxAhead       \* bound: bytes sent after the last acknowledged one, modes 0 to 2

ASSUME LengthsAssumption ==
    /\ {NumMod, window_size, max_data_len, MaxAhead} \subseteq Nat
    /\ SeqModes \subseteq 0 .. 4 /\ MaxFlight \in Nat \ {0}
    /\ Lengths \subseteq 1 .. max_data_len /\ Start \in 0 .. NumMod - 1
    /\ \* the window has room for two packets
       2 * max_data_len <= window_size
    /\ \* windows and what is in flight are a small part of the number space
       (2 * MaxFlight + 5) * window_size + MaxAhead < NumMod \div 2

VARIABLES
    seq_mode,
    seq,                  \* send_info.seq of the sender
    acked,                \* recv_info.ack_seq of the sender: the last one that arrived
    ack_seq_counter,      \* how often acked was repeated
    ack_seq,              \* send_info.ack_seq of the receiver
    packets, acks,        \* the last ones sent, oldest first; Gone once arrived
    sent_end              \* history: the end of the furthest packet sent

vars == <<seq_mode, seq, acked, ack_seq_counter, ack_seq, packets, acks, sent_end>>

Seq32 == 0 .. NumMod - 1

Plus(a, n) == (a + n) % NumMod

\* i32_t(a - b) > 0
larger_than_u32(a, b) ==
    LET d == (a - b) % NumMod IN 0 < d /\ d < NumMod \div 2

\* A packet of the sender; data_len is never 0 once the connection is ready.
Packet == [seq : Seq32, len : Lengths]
Gone == [seq |-> 0, len |-> 0]
GoneAck == -1
Arriving == {i \in DOMAIN packets : packets[i] # Gone}
ArrivingAcks == {i \in DOMAIN acks : acks[i] # GoneAck}

TypeOK ==
    /\ seq_mode \in SeqModes
    /\ {seq, acked, ack_seq, sent_end} \subseteq Seq32
    /\ ack_seq_counter \in 0 .. 3
    /\ packets \in Seq(Packet \cup {Gone}) /\ Len(packets) <= MaxFlight
    /\ acks \in Seq(Seq32 \cup {GoneAck}) /\ Len(acks) <= MaxFlight

\* The handshake leaves both ends at the same number, anywhere in the number
\* space; the sender has not yet seen its last handshake acknowledged.
Init ==
    /\ seq_mode \in SeqModes
    /\ seq = Start /\ ack_seq = Start /\ sent_end = Start
    /\ acked = (Start - max_data_len) % NumMod /\ ack_seq_counter = 0
    /\ packets = <<>> /\ acks = <<>>

InFlight(q, x) == IF Len(q) < MaxFlight THEN Append(q, x) ELSE Append(Tail(q), x)

-----------------------------------------------------------------------------
(* The sender: send_raw_tcp, then after_send_raw0 *)

\* Mutant: the window is checked for the packet just sent, not the next one.
WindowUsedUp_Late(s) == larger_than_u32(s, Plus(acked, window_size))

WindowUsedUp(s) == larger_than_u32(Plus(s, max_data_len), Plus(acked, window_size))

\* Mutant: at the end of the window the sender waits there.
Windowed_Wait(s) ==
    /\ ack_seq_counter' = ack_seq_counter
    /\ seq' = IF WindowUsedUp(s) THEN seq ELSE s

\* What modes 3 and 4 do to seq once it has passed the packet.
Windowed(s) ==
    LET back == WindowUsedUp(s) \/ ack_seq_counter >= 3
    IN  /\ ack_seq_counter' = IF ack_seq_counter >= 3 THEN 0 ELSE ack_seq_counter
        /\ seq' = IF back \/ larger_than_u32(acked, s) THEN acked ELSE s

after_send_raw0(len) ==
    \/ seq_mode \in {0, 2} /\ UNCHANGED <<seq, ack_seq_counter>>
    \/ seq_mode \in {1, 2} /\ seq' = Plus(seq, len) /\ UNCHANGED ack_seq_counter
    \/ seq_mode \in {3, 4} /\ Windowed(Plus(seq, len))

\* Bound: without a window the sender may run ahead of the receiver by as
\* much as it likes; half the number space is out of reach of a connection
\* that times out after seconds of silence.
NotTooFarAhead ==
    seq_mode \in {3, 4} \/ ~larger_than_u32(seq, Plus(ack_seq, MaxAhead))

\* Bound: the part of an endless stream that is explored.
Unfinished == (ack_seq - Start) % NumMod < MaxStream

Send(len) ==
    /\ NotTooFarAhead /\ Unfinished
    /\ packets' = InFlight(packets, [seq |-> seq, len |-> len])
    /\ sent_end' = IF larger_than_u32(Plus(seq, len), sent_end) THEN Plus(seq, len) ELSE sent_end
    /\ after_send_raw0(len)
    /\ UNCHANGED <<seq_mode, acked, ack_seq, acks>>

\* recv_raw_tcp: every packet of the connection overwrites what the sender
\* knows of the receiver, an overtaken one too.
RecvAck(i) ==
    /\ acked' = acks[i] /\ acks' = [acks EXCEPT ![i] = GoneAck]
    /\ ack_seq_counter' = IF acks[i] # acked THEN 0
                          ELSE IF ack_seq_counter = 3 THEN 3 ELSE ack_seq_counter + 1
    /\ UNCHANGED <<seq_mode, seq, ack_seq, packets, sent_end>>

-----------------------------------------------------------------------------
(* The receiver: after_recv_raw0, and the acks on its own packets *)

\* Mutant: the acknowledgement follows every packet.
after_recv_raw0_Always(p) == ack_seq' = Plus(p.seq, p.len)

\* Mutant: the acknowledgement is one too high, as after a SYN.
after_recv_raw0_PlusOne(p) ==
    ack_seq' = IF larger_than_u32(Plus(p.seq, p.len), ack_seq)
               THEN Plus(p.seq, p.len + 1) ELSE ack_seq

after_recv_raw0(p) ==
    \/ /\ seq_mode \in {0, 1, 2}
       /\ ack_seq' = IF larger_than_u32(Plus(p.seq, p.len), ack_seq)
                     THEN Plus(p.seq, p.len) ELSE ack_seq
    \/ /\ seq_mode \in {3, 4}
       /\ ack_seq' = IF p.seq = ack_seq THEN Plus(p.seq, p.len) ELSE ack_seq

RecvPacket(i) ==
    /\ after_recv_raw0(packets[i])
    /\ packets' = [packets EXCEPT ![i] = Gone]
    /\ UNCHANGED <<seq_mode, seq, acked, ack_seq_counter, acks, sent_end>>

SendAck ==
    /\ acks' = InFlight(acks, ack_seq)
    /\ UNCHANGED <<seq_mode, seq, acked, ack_seq_counter, ack_seq, packets, sent_end>>

-----------------------------------------------------------------------------
Next ==
    \/ \E len \in Lengths : Send(len)
    \/ \E i \in ArrivingAcks : RecvAck(i)
    \/ \E i \in Arriving : RecvPacket(i)
    \/ SendAck

Spec == Init /\ [][Next]_vars

\* Both ends keep sending (heartbeats at least), and the network is fair: what
\* is sent again and again arrives again and again, be it the packet the
\* receiver waits for or its acknowledgement.
FairSpec ==
    /\ Spec
    /\ WF_vars(\E len \in Lengths : Send(len)) /\ WF_vars(SendAck)
    /\ SF_vars(\E i \in Arriving : packets[i].seq = ack_seq /\ RecvPacket(i))
    /\ SF_vars(\E i \in ArrivingAcks : acks[i] = ack_seq /\ RecvAck(i))

-----------------------------------------------------------------------------
(* Properties *)

\* The receiver never takes an acknowledgement back, whatever order the
\* packets come in and across the wrap-around.
AckMonotone == [][~larger_than_u32(ack_seq, ack_seq')]_vars

\* The receiver never acknowledges a byte that was not sent; and in modes 3
\* and 4 the sender never sends outside the window the receiver currently
\* offers, although it only knows an acknowledgement that may have been
\* overtaken.
InWindow ==
    /\ ~larger_than_u32(ack_seq, sent_end)
    /\ seq_mode \in {3, 4} =>
          \A i \in Arriving :
              ~larger_than_u32(Plus(packets[i].seq, packets[i].len),
                               Plus(ack_seq, window_size))

\* Modes 3 and 4: a loss does not freeze the stream; the sender comes back
\* to the byte the receiver waits for and the acknowledgements move on to
\* the end of the stream.
Progress == seq_mode \in {3, 4} => <>~Unfinished
=============================================================================
