----------------------------- MODULE AntiReplay -----------------------------
(***************************************************************************)
(* anti_replay_t (connection.h, connection.cpp): the sliding window that   *)
(* tells a replayed sequence number from a fresh one, together with the    *)
(* counter of the sending side.  The network between them loses,           *)
(* duplicates and reorders: a number that was sent may arrive at any later *)
(* time, any number of times, or never.                                    *)
(*                                                                         *)
(* The window array is written neither by the constructor nor by re_init   *)
(* ("not necessary"), so it starts with arbitrary content and keeps the    *)
(* marks of the previous raw connection.  Only "is this byte 1" matters to *)
(* the code, so a byte is 1 or 0 here.  --disable-anti-replay, which makes *)
(* is_vaild answer 1 at once, is off.                                      *)
(***************************************************************************)
EXTENDS Integers

CONSTANTS
    WindowSize,   \* anti_replay_window_size, 4000 in misc.h
    SeqLimit      \* sequence numbers are below SeqLimit, 2^64 in the code

ASSUME WindowSizeAssumption == WindowSize \in Nat \ {0}
ASSUME SeqLimitAssumption == SeqLimit \in Nat \ {0}

VARIABLES
    anti_replay_seq,      \* sender: the next number to use
    first_seq,            \* sender: the random number it started from
    max_packet_received,  \* receiver: largest number accepted since re_init
    window,               \* receiver: marks of the accepted numbers
    delivered             \* history: times each number was accepted

vars == <<anti_replay_seq, first_seq, max_packet_received, window, delivered>>

SeqNum == 0 .. (SeqLimit - 1)
Slot == 0 .. (WindowSize - 1)
SlotOf(s) == s % WindowSize

(* The numbers put on the wire so far.                                     *)
Sent == first_seq .. (anti_replay_seq - 1)

Init ==
    /\ first_seq \in 0 .. ((SeqLimit - 1) \div 10)
    /\ anti_replay_seq = first_seq
    /\ max_packet_received = 0
    /\ window \in [Slot -> {0, 1}]
    /\ delivered = [s \in SeqNum |-> 0]

-----------------------------------------------------------------------------
(* get_new_seq_for_send.  The guard is the bound of the number range, which *)
(* the code cannot reach: it starts in the lowest tenth of 2^64.            *)
get_new_seq_for_send ==
    /\ anti_replay_seq < SeqLimit
    /\ anti_replay_seq' = anti_replay_seq + 1
    /\ UNCHANGED <<first_seq, max_packet_received, window, delivered>>

\* Mutants of Advance: the skipped numbers keep the marks of the numbers one
\* window earlier; the mark of the largest number is wiped with them.
Advance_NoClear(s) ==
    [i \in Slot |->
        IF i = SlotOf(s) THEN 1
        ELSE IF s - max_packet_received >= WindowSize THEN 0 ELSE window[i]]
Advance_ClearMax(s) ==
    [i \in Slot |->
        IF i = SlotOf(s) THEN 1
        ELSE IF \E k \in max_packet_received .. (s - 1) : SlotOf(k) = i
             THEN 0 ELSE window[i]]

(* The window after a number ahead of the largest one: every mark is       *)
(* dropped when the jump passes the whole window, else only the marks of   *)
(* the numbers that were skipped.                                          *)
Advance(s) ==
    [i \in Slot |->
        IF i = SlotOf(s) THEN 1
        ELSE IF s - max_packet_received >= WindowSize THEN 0
        ELSE IF \E k \in (max_packet_received + 1) .. (s - 1) : SlotOf(k) = i
             THEN 0
             ELSE window[i]]

Ahead(s) == s > max_packet_received

(* A number behind the largest one that the window still covers and has    *)
(* not marked.                                                             *)
Late(s) ==
    /\ s < max_packet_received
    /\ max_packet_received - s < WindowSize
    /\ window[SlotOf(s)] # 1

(* The value is_vaild returns for s.                                       *)
is_vaild(s) == Ahead(s) \/ Late(s)

HandUp(s) == delivered' = [delivered EXCEPT ![s] = @ + 1]

(* is_vaild accepts s and the packet goes on to its handler.               *)
AcceptAhead(s) ==
    /\ Ahead(s)
    /\ window' = Advance(s)
    /\ max_packet_received' = s
    /\ HandUp(s)
    /\ UNCHANGED <<anti_replay_seq, first_seq>>

AcceptLate(s) ==
    /\ Late(s)
    /\ window' = [window EXCEPT ![SlotOf(s)] = 1]
    /\ HandUp(s)
    /\ UNCHANGED <<anti_replay_seq, first_seq, max_packet_received>>

(* is_vaild answers 0: the packet is dropped and nothing changes.          *)
Reject(s) ==
    /\ ~is_vaild(s)
    /\ UNCHANGED vars

Receive(s) == AcceptAhead(s) \/ AcceptLate(s) \/ Reject(s)

(* re_init, called when a raw connection is (re)established: the numbers   *)
(* accepted before belong to another pair of connection ids.               *)
re_init ==
    /\ max_packet_received' = 0
    /\ delivered' = [s \in SeqNum |-> 0]
    /\ UNCHANGED <<anti_replay_seq, first_seq, window>>

Next ==
    \/ get_new_seq_for_send
    \/ re_init
    \/ \E s \in Sent : Receive(s)

Spec == Init /\ [][Next]_vars

-----------------------------------------------------------------------------
(* Every variable stays in its range.                                      *)
TypeOK ==
    /\ first_seq \in SeqNum
    /\ anti_replay_seq \in first_seq .. SeqLimit
    /\ max_packet_received \in SeqNum
    /\ window \in [Slot -> {0, 1}]
    /\ delivered \in [SeqNum -> Nat]

(* connection.h calls anti_replay_t a protection "for anti replay attack": *)
(* however packets are duplicated and reordered, and whatever the window   *)
(* held before, no number passes is_vaild twice between two re_init calls. *)
NoReplay == \A s \in SeqNum : delivered[s] <= 1

(* The window never costs a packet it should let pass: a number that was   *)
(* not accepted yet and is less than WindowSize behind the largest one is  *)
(* accepted, stale marks of an earlier connection notwithstanding.  Number *)
(* 0 is the exception, since max_packet_received = 0 also means "none".    *)
NoFalseDrop ==
    \A s \in SeqNum \ {0} :
        (delivered[s] = 0 /\ max_packet_received - s < WindowSize) => is_vaild(s)

(* The marks mean what they should: inside the window a number other than  *)
(* 0 is marked exactly when it was accepted, and nothing beyond the        *)
(* largest number was.  This is what makes NoReplay and NoFalseDrop        *)
(* inductive.                                                              *)
MarksExact ==
    /\ \A s \in SeqNum :
          delivered[s] > 0 => /\ s <= max_packet_received
                              /\ max_packet_received > 0
    /\ max_packet_received > 0 => delivered[max_packet_received] > 0
    /\ \A s \in SeqNum :
          /\ s <= max_packet_received
          /\ max_packet_received - s < WindowSize
          => /\ delivered[s] > 0 => window[SlotOf(s)] = 1
             /\ s # 0 /\ delivered[s] = 0 => window[SlotOf(s)] = 0

(* The window implements delivery at most once.                            *)
Abstract == INSTANCE AtMostOnce WITH SeqNum <- SeqNum, delivered <- delivered
ImplementsAtMostOnce == Abstract!Spec

=============================================================================
