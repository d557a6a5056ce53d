---------------------------- MODULE IptablesRule ----------------------------
(***************************************************************************)
(* The firewall rules udp2raw installs (-a, --keep-rule, --gen-add): two   *)
(* chains of its own that drop everything, and rules in INPUT that send    *)
(* the tunnel's packets to them, so that the kernel does not answer them.  *)
(*                                                                         *)
(* iptables_rule_init installs them, the thread run_keep renews one chain  *)
(* per interval while the other stays in place, and myexit cancels that    *)
(* thread and removes everything.  Each step is one iptables command run   *)
(* by popen; it may fail for reasons of its own (MaxFails) and another     *)
(* program may flush the firewall (MaxFlushes).  pthread_cancel does not   *)
(* wait for the thread, and does not stop a command that already runs.     *)
(***************************************************************************)
EXTENDS Naturals, Sequences

CONSTANTS
    Modes,      \* the ways it is run: "auto" (-a), "keep" (--keep-rule), "gen_add"
    MaxFails,   \* bound: commands that fail for no reason of the rules
    MaxFlushes, \* bound: flushes of the whole firewall by others
    MaxRuns     \* bound: invocations with --gen-add

VARIABLES
    mode,
    chain,       \* of each chain: "absent", "empty" or "drop"
    input,       \* how many rules of INPUT jump to each chain
    main, todo,  \* the main thread: its phase, and the commands left in it
    keeper, keep_todo, iptables_rule_keep_index,  \* the thread run_keep
    child,       \* the command popen started for it, until that has run
    keep_thread_running, cancelled, about_to_exit,
    fails, flushes, runs

firewall == <<chain, input>>
keep == <<keeper, keep_todo, iptables_rule_keep_index, child, keep_thread_running>>
bounds == <<flushes, runs>>
vars == <<mode, firewall, main, todo, keep, cancelled, about_to_exit, fails, bounds>>

Index == {0, 1}
NoCommand == [op |-> "none", i |-> 0]

\* The commands ops, in that order, for chain i.
On(i, ops) == [k \in DOMAIN ops |-> [op |-> ops[k], i |-> i]]

\* iptables_rule_keeped + 1 chains are used.
PerChain(ops) == IF mode = "keep" THEN On(0, ops) \o On(1, ops) ELSE On(0, ops)

-----------------------------------------------------------------------------
(* iptables, as far as these commands go *)

Possible(c) ==
    CASE c.op = "N" -> chain[c.i] = "absent"
      [] c.op = "F" -> chain[c.i] # "absent"
      [] c.op = "I" -> chain[c.i] # "absent"
      [] c.op = "D" -> input[c.i] > 0
      [] c.op = "A" -> chain[c.i] # "absent"
      [] c.op = "X" -> chain[c.i] = "empty" /\ input[c.i] = 0

Effect(c) ==
    /\ chain' = CASE c.op \in {"N", "F"} -> [chain EXCEPT ![c.i] = "empty"]
                  [] c.op = "I"          -> [chain EXCEPT ![c.i] = "drop"]
                  [] c.op = "X"          -> [chain EXCEPT ![c.i] = "absent"]
                  [] c.op \in {"D", "A"} -> chain
    /\ input' = CASE c.op = "D" -> [input EXCEPT ![c.i] = @ - 1]
                  [] c.op = "A" -> [input EXCEPT ![c.i] = @ + 1]
                  [] OTHER      -> input

Succeeds(c) == Possible(c) /\ Effect(c) /\ UNCHANGED fails

Fails(c) ==
    /\ UNCHANGED firewall
    /\ \/ ~Possible(c) /\ UNCHANGED fails
       \/ Possible(c) /\ fails < MaxFails /\ fails' = fails + 1

\* Another program flushes INPUT and removes the chains.
Flush ==
    /\ flushes < MaxFlushes /\ flushes' = flushes + 1
    /\ chain' = [i \in Index |-> "absent"] /\ input' = [i \in Index |-> 0]
    /\ UNCHANGED <<mode, main, todo, keep, cancelled, about_to_exit, fails, runs>>

-----------------------------------------------------------------------------
(* The main thread *)

\* Mutant: --gen-add deletes after it added.
InitCommands_AddFirst ==
    IF mode = "gen_add" THEN On(0, <<"N", "F", "I", "A", "D", "D">>)
                        ELSE PerChain(<<"N", "F", "I", "A">>)

InitCommands ==
    IF mode = "gen_add" THEN On(0, <<"N", "F", "I", "D", "D", "A">>)
                        ELSE PerChain(<<"N", "F", "I", "A">>)

\* Mutant: the chain is removed before the rule that refers to it.
ClearCommands_DeleteLast == PerChain(<<"F", "X", "D">>)

ClearCommands == PerChain(<<"D", "F", "X">>)

Init ==
    /\ mode \in Modes
    /\ chain = [i \in Index |-> "absent"] /\ input = [i \in Index |-> 0]
    /\ main = "init" /\ todo = InitCommands
    /\ keeper = "none" /\ keep_todo = <<>> /\ iptables_rule_keep_index = 0
    /\ child = NoCommand /\ keep_thread_running = FALSE
    /\ cancelled = FALSE /\ about_to_exit = FALSE
    /\ fails = 0 /\ flushes = 0 /\ runs = 1

\* myexit.  The rules of --gen-add stay (iptables_rule_added is 0).
Exit ==
    /\ cancelled' = keep_thread_running
    /\ IF mode = "gen_add" THEN main' = "exited" /\ todo' = <<>>
                           ELSE main' = "clear" /\ todo' = ClearCommands

\* One command of iptables_rule_init or iptables_gen_add.  A chain or a rule
\* that cannot be made is noticed only by the last command, -I INPUT.
InitCommand ==
    /\ main = "init" /\ todo # <<>>
    /\ \/ /\ Succeeds(Head(todo)) /\ todo' = Tail(todo)
          /\ UNCHANGED <<main, cancelled>>
       \/ /\ Fails(Head(todo)) /\ Head(todo).op = "A" /\ Exit
       \/ /\ Fails(Head(todo)) /\ Head(todo).op # "A" /\ todo' = Tail(todo)
          /\ UNCHANGED <<main, cancelled>>
    /\ UNCHANGED <<mode, keep, about_to_exit, bounds>>

\* The rules are in; with --keep-rule the thread is created.
Installed ==
    /\ main = "init" /\ todo = <<>> /\ mode # "gen_add"
    /\ main' = "run"
    /\ IF mode = "keep" THEN keeper' = "sleep" /\ keep_thread_running' = TRUE
                        ELSE UNCHANGED <<keeper, keep_thread_running>>
    /\ UNCHANGED <<mode, firewall, todo, keep_todo, iptables_rule_keep_index, child,
                   cancelled, about_to_exit, fails, bounds>>

\* --gen-add is done.
GenAdded ==
    /\ main = "init" /\ todo = <<>> /\ mode = "gen_add" /\ Exit
    /\ UNCHANGED <<mode, firewall, keep, about_to_exit, fails, bounds>>

\* The same command line with --gen-add once more.
RunAgain ==
    /\ main = "exited" /\ mode = "gen_add" /\ runs < MaxRuns
    /\ main' = "init" /\ todo' = InitCommands /\ runs' = runs + 1
    /\ UNCHANGED <<mode, firewall, keep, cancelled, about_to_exit, fails, flushes>>

\* signal_handler.
Signal ==
    /\ main = "run" /\ ~about_to_exit /\ about_to_exit' = TRUE
    /\ UNCHANGED <<mode, firewall, main, todo, keep, cancelled, fails, bounds>>

\* The event loop sees the flag, or one of the many fatal errors calls myexit.
Quit ==
    /\ main = "run" /\ Exit
    /\ UNCHANGED <<mode, firewall, keep, about_to_exit, fails, bounds>>

\* clear_iptables_rule ignores failures.
ClearCommand ==
    /\ main = "clear" /\ todo # <<>> /\ todo' = Tail(todo)
    /\ Succeeds(Head(todo)) \/ Fails(Head(todo))
    /\ UNCHANGED <<mode, main, keep, cancelled, about_to_exit, bounds>>

\* exit(a) takes the thread with it, but not a command it had started.
Terminate ==
    /\ main = "clear" /\ todo = <<>> /\ main' = "exited"
    /\ keeper' = IF mode = "keep" THEN "gone" ELSE keeper
    /\ UNCHANGED <<mode, firewall, todo, keep_todo, iptables_rule_keep_index, child,
                   keep_thread_running, cancelled, about_to_exit, fails, bounds>>

-----------------------------------------------------------------------------
(* The thread run_keep, and keep_iptables_rule *)

\* Mutant: the chain is not created again.
KeepCommands_NoNew == <<"F", "I", "D", "D", "A">>

\* Mutant: the rule is added again without a delete.
KeepCommands_NoDelete == <<"N", "F", "I", "A">>

KeepCommands == <<"N", "F", "I", "D", "D", "A">>

\* Mutant: both chains are renewed together.
KeepWakes_Both ==
    /\ keeper = "sleep" /\ ~cancelled
    /\ keeper' = "popen"
    /\ keep_todo' = [k \in 1 .. 12 |->
                        [op |-> KeepCommands[(k + 1) \div 2], i |-> k % 2]]
    /\ UNCHANGED <<mode, firewall, main, todo, child, iptables_rule_keep_index,
                   keep_thread_running, cancelled, about_to_exit, fails, bounds>>

\* The end of sleep(iptables_rule_keep_interval): the other chain's turn.
KeepWakes ==
    /\ keeper = "sleep" /\ ~cancelled
    /\ iptables_rule_keep_index' = (iptables_rule_keep_index + 1) % 2
    /\ keeper' = "popen" /\ keep_todo' = On(iptables_rule_keep_index', KeepCommands)
    /\ UNCHANGED <<mode, firewall, main, todo, child, keep_thread_running, cancelled,
                   about_to_exit, fails, bounds>>

\* popen is no cancellation point: a cancelled thread may still start a command.
KeepStarts ==
    /\ keeper = "popen"
    /\ child' = Head(keep_todo) /\ keeper' = "wait"
    /\ UNCHANGED <<mode, firewall, main, todo, keep_todo, iptables_rule_keep_index,
                   keep_thread_running, cancelled, about_to_exit, fails, bounds>>

\* The command itself, in a process of its own.
ChildRuns ==
    /\ child # NoCommand /\ child' = NoCommand
    /\ Succeeds(child) \/ Fails(child)
    /\ UNCHANGED <<mode, main, todo, keeper, keep_todo, iptables_rule_keep_index,
                   keep_thread_running, cancelled, about_to_exit, bounds>>

\* fread and pclose return.  Failures are logged.  After the last command the
\* thread sleeps, one last time if the process is about to exit.
KeepContinues ==
    /\ keeper = "wait" /\ child = NoCommand /\ ~cancelled
    /\ keep_todo' = Tail(keep_todo)
    /\ keeper' = CASE keep_todo' # <<>> -> "popen"
                   [] keep_todo' = <<>> /\ about_to_exit -> "ending"
                   [] keep_todo' = <<>> /\ ~about_to_exit -> "sleep"
    /\ UNCHANGED <<mode, firewall, main, todo, iptables_rule_keep_index, child,
                   keep_thread_running, cancelled, about_to_exit, fails, bounds>>

\* The end of sleep(10) and of the thread.
KeepEnds ==
    /\ keeper = "ending" /\ ~cancelled
    /\ keeper' = "gone" /\ keep_thread_running' = FALSE
    /\ UNCHANGED <<mode, firewall, main, todo, keep_todo, iptables_rule_keep_index, child,
                   cancelled, about_to_exit, fails, bounds>>

\* A cancelled thread stops at sleep, at fread, or where it logs.
KeepCancelled ==
    /\ cancelled /\ keeper \in {"sleep", "popen", "wait", "ending"} /\ keeper' = "gone"
    /\ UNCHANGED <<mode, firewall, main, todo, keep_todo, iptables_rule_keep_index, child,
                   keep_thread_running, cancelled, about_to_exit, fails, bounds>>

-----------------------------------------------------------------------------
Main == \/ InitCommand \/ Installed \/ GenAdded \/ RunAgain \/ Signal \/ Quit
        \/ ClearCommand \/ Terminate

Keeper == KeepWakes \/ KeepStarts \/ ChildRuns \/ KeepContinues \/ KeepEnds
          \/ KeepCancelled

Next == Main \/ Keeper \/ Flush

Spec == Init /\ [][Next]_vars

\* Commands and sleeps end, the thread is scheduled, and the event loop looks
\* at about_to_exit in every iteration.
Fairness ==
    /\ WF_vars(InitCommand) /\ WF_vars(Installed) /\ WF_vars(about_to_exit /\ Quit)
    /\ WF_vars(ClearCommand) /\ WF_vars(Terminate)
    /\ WF_vars(KeepWakes) /\ WF_vars(KeepStarts) /\ WF_vars(ChildRuns)
    /\ WF_vars(KeepContinues) /\ WF_vars(KeepEnds) /\ WF_vars(KeepCancelled)

-----------------------------------------------------------------------------
(* Properties *)

Dropping == \E i \in Index : input[i] > 0 /\ chain[i] = "drop"

\* While udp2raw runs and nobody interferes, the kernel never sees a packet
\* of the tunnel, not even in the middle of a renewal; and INPUT does not fill
\* up with copies: one failed command is made up for by the second delete
\* ("do it twice,incase it fails for unknown random reason").
Protected ==
    /\ main = "run" /\ fails = 0 /\ flushes = 0 => Dropping
    /\ fails <= 1 => \A i \in Index : input[i] <= 1

\* --keep-rule repairs whatever failures and flushes did: from some time on
\* a running udp2raw is protected, by one rule per chain.
Healed ==
    <>[](mode = "keep" /\ main = "run" =>
            Dropping /\ \A i \in Index : input[i] <= 1)

Ended == main = "exited" /\ child = NoCommand /\ fails = 0
NothingLeft == \A i \in Index : chain[i] = "absent" /\ input[i] = 0

\* "auto add (and delete) iptables rule": once the process has ended, and
\* the commands it had started too, none of its rules and chains is left,
\* wherever myexit was called and even if others flushed in between.  This
\* is without --keep-rule; no command of myexit's may fail.  With --gen-add
\* one rule is left, however often it is run.
CleanExit ==
    /\ mode = "auto" /\ Ended => NothingLeft
    /\ mode = "gen_add" /\ Ended /\ flushes = 0 => input[0] = 1 /\ chain[0] = "drop"

\* The same as in the first case with --keep-rule, whose thread is cancelled
\* and not joined.
KeepCleanExit == mode = "keep" /\ Ended => NothingLeft
=============================================================================
