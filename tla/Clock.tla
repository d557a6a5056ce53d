------------------------------- MODULE Clock --------------------------------
(***************************************************************************)
(* get_current_time_us.  The system clock may be set back; value_fix makes *)
(* up for it, so that the time the program works with never goes back, on  *)
(* which lru_collector_t insists.  The two statics are shared, without any *)
(* lock, by the event loop ("main") and the thread of --keep-rule, which   *)
(* takes the time twice per interval for its log lines.                    *)
(*                                                                         *)
(* Each read and write of a static is a step.  Once loaded a value may be  *)
(* kept in a register, so what is stored in value_fix and what is returned *)
(* come from the values at hand or, loaded again in any order, new ones.   *)
(***************************************************************************)
EXTENDS Integers

CONSTANTS MaxRaw,    \* bound: the system clock runs from 0 to MaxRaw
          MaxBack,   \* bound: times it is set back, by one
          MaxCalls   \* bound: thread -> calls

Thread == {"main", "keep"}

VARIABLES
    raw,                       \* the system clock
    value_fix, largest_value,  \* the statics
    pc, loc,                   \* where a thread is, and its locals
    returned,                  \* what its last call returned
    calls, back,
    raced                      \* history: two calls have overlapped

vars == <<raw, value_fix, largest_value, pc, loc, returned, calls, back, raced>>

NoLocals == [raw |-> 0, fixed |-> 0, fix |-> 0, largest |-> 0]

Init ==
    /\ raw = 1 /\ value_fix = 0 /\ largest_value = 0
    /\ pc = [t \in Thread |-> "out"]
    /\ loc = [t \in Thread |-> NoLocals]
    /\ returned = [t \in Thread |-> 0]
    /\ calls = [t \in Thread |-> 0]
    /\ back = 0 /\ raced = FALSE

SystemTick ==
    /\ raw < MaxRaw /\ raw' = raw + 1
    /\ UNCHANGED <<value_fix, largest_value, pc, loc, returned, calls, back, raced>>

SetBack ==
    /\ raw > 0 /\ back < MaxBack
    /\ raw' = raw - 1 /\ back' = back + 1
    /\ UNCHANGED <<value_fix, largest_value, pc, loc, returned, calls, raced>>

Goto(t, place) == pc' = [pc EXCEPT ![t] = place]

\* raw_value = ev_time()
Sample(t) ==
    /\ pc[t] = "out" /\ calls[t] < MaxCalls[t]
    /\ loc' = [loc EXCEPT ![t] = [NoLocals EXCEPT !.raw = raw]]
    /\ calls' = [calls EXCEPT ![t] = @ + 1]
    /\ raced' = (raced \/ \E u \in Thread \ {t} : pc[u] # "out")
    /\ Goto(t, "fix")
    /\ UNCHANGED <<raw, value_fix, largest_value, returned, back>>

\* fixed_value = raw_value + value_fix
Fix(t) ==
    /\ pc[t] = "fix"
    /\ loc' = [loc EXCEPT ![t].fixed = @ + loc[t].raw + value_fix, ![t].fix = value_fix]
    /\ Goto(t, "compare")
    /\ UNCHANGED <<raw, value_fix, largest_value, returned, calls, back, raced>>

\* if (fixed_value < largest_value)
Compare(t) ==
    /\ pc[t] = "compare"
    /\ loc' = [loc EXCEPT ![t].largest = largest_value]
    /\ Goto(t, IF loc[t].fixed < largest_value THEN "behind" ELSE "keep")
    /\ UNCHANGED <<raw, value_fix, largest_value, returned, calls, back, raced>>

\* value_fix += largest_value - fixed_value: both may be loaded again ...
Reload(t) ==
    /\ pc[t] = "behind"
    /\ \/ loc' = [loc EXCEPT ![t].fix = value_fix]
       \/ loc' = [loc EXCEPT ![t].largest = largest_value]
    /\ UNCHANGED <<raw, value_fix, largest_value, pc, returned, calls, back, raced>>

\* ... and the sum, of the values at hand, is what will be stored ...
Add(t) ==
    /\ pc[t] = "behind"
    /\ loc' = [loc EXCEPT ![t].fix = @ + loc[t].largest - loc[t].fixed]
    /\ Goto(t, "raise")
    /\ UNCHANGED <<raw, value_fix, largest_value, returned, calls, back, raced>>

\* Mutant: the difference replaces what has been made up for so far.
Raise_Assign(t) ==
    /\ pc[t] = "raise"
    /\ value_fix' = largest_value - loc[t].fixed
    /\ Goto(t, "return")
    /\ loc' = [loc EXCEPT ![t].fix = value_fix']
    /\ UNCHANGED <<raw, largest_value, returned, calls, back, raced>>

\* ... when it is stored.
Raise(t) ==
    /\ pc[t] = "raise"
    /\ value_fix' = loc[t].fix
    /\ Goto(t, "return")
    /\ UNCHANGED <<raw, largest_value, loc, returned, calls, back, raced>>

\* largest_value = fixed_value
Keep(t) ==
    /\ pc[t] = "keep"
    /\ largest_value' = loc[t].fixed
    /\ Goto(t, "return")
    /\ UNCHANGED <<raw, value_fix, loc, returned, calls, back, raced>>

\* return raw_value + value_fix
Return(t) ==
    /\ pc[t] = "return"
    /\ \E fix \in {loc[t].fix, value_fix} : returned' = [returned EXCEPT ![t] = loc[t].raw + fix]
    /\ loc' = [loc EXCEPT ![t] = NoLocals]
    /\ Goto(t, "out")
    /\ UNCHANGED <<raw, value_fix, largest_value, calls, back, raced>>

Next ==
    \/ SystemTick \/ SetBack
    \/ \E t \in Thread :
          \/ Sample(t) \/ Fix(t) \/ Compare(t)
          \/ Reload(t) \/ Add(t) \/ Raise(t) \/ Keep(t) \/ Return(t)

Spec == Init /\ [][Next]_vars

-----------------------------------------------------------------------------
NotBack == returned'["main"] >= returned["main"] \/ (raced /\ back > 0)

\* The event loop's time never goes back, however often the system clock is
\* set back; only if a call of the keep thread overlapped one of its own and
\* the clock was set back too it may, and then the assert of lru_collector_t
\* can fail.
ClockMonotone == [][NotBack]_vars
=============================================================================
