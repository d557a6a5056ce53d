----------------------------- MODULE AtMostOnce -----------------------------
(***************************************************************************)
(* What the anti-replay window of udp2raw promises, without a window: the  *)
(* layer above is handed each sequence number at most once between two     *)
(* re-initialisations.  AntiReplay implements this specification.          *)
(***************************************************************************)
EXTENDS Naturals

CONSTANT SeqNum     \* the sequence numbers a packet may carry

VARIABLE delivered  \* how often each number was handed up since re_init

Init == delivered = [s \in SeqNum |-> 0]

(* A number not handed up before is handed up.                             *)
Deliver(s) ==
    /\ delivered[s] = 0
    /\ delivered' = [delivered EXCEPT ![s] = 1]

(* A new raw connection forgets the numbers of the previous one.           *)
Forget == delivered' = [s \in SeqNum |-> 0]

Next == Forget \/ \E s \in SeqNum : Deliver(s)

Spec == Init /\ [][Next]_delivered
=============================================================================
