----------------------------- MODULE ConvTable ------------------------------
(***************************************************************************)
(* What a conversation manager promises: a table of numbered conversations *)
(* with the time each was used last.  Use is free, forgetting is not: only *)
(* conversations idle for Timeout go, the longest idle ones first, unless  *)
(* the whole table is given up.                                            *)
(***************************************************************************)
EXTENDS Integers

CONSTANTS Conv, Data, Timeout

VARIABLES now,    \* the time
          table   \* conversation -> [data, ts]

vars == <<now, table>>

Init == now = 0 /\ table = << >>

Tick == now' = now + 1 /\ UNCHANGED table

\* A conversation is opened, or used once more; data names one conversation.
Use(c, d) ==
    /\ c \in DOMAIN table => table[c].data = d
    /\ \A b \in DOMAIN table : table[b].data = d => b = c
    /\ table' = [b \in DOMAIN table \cup {c} |->
                    IF b = c THEN [data |-> d, ts |-> now] ELSE table[b]]
    /\ UNCHANGED now

\* The conversations of a set E are forgotten.
Expire(E) ==
    /\ \A c \in E : now - table[c].ts >= Timeout
    /\ \A c \in E, b \in DOMAIN table \ E : table[c].ts <= table[b].ts
    /\ table' = [c \in DOMAIN table \ E |-> table[c]]
    /\ UNCHANGED now

GiveUp == table' = << >> /\ UNCHANGED now

Next ==
    \/ Tick
    \/ \E c \in Conv, d \in Data : Use(c, d)
    \/ \E E \in SUBSET DOMAIN table : Expire(E)
    \/ GiveUp

Spec == Init /\ [][Next]_vars
=============================================================================
