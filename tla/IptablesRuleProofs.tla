------------------------- MODULE IptablesRuleProofs -------------------------
(***************************************************************************)
(* The rules protect and are removed, for any number of renewals, failed   *)
(* commands, flushes and invocations.                                      *)
(***************************************************************************)
EXTENDS IptablesRule, SequenceTheorems, TLAPS

Ops == {"N", "F", "I", "D", "A", "X"}
Command == [op : Ops, i : Index]

(* The commands s that are left of the list all.                           *)
Suffix(s, all) ==
    /\ s \in Seq(Command) /\ Len(s) <= Len(all)
    /\ \A k \in 1 .. Len(s) : s[k] = all[Len(all) - Len(s) + k]

(* How many commands of each list have run.                                *)
InitDone == Len(InitCommands) - Len(todo)
ClearDone == Len(ClearCommands) - Len(todo)
KeepDone == 6 - Len(keep_todo) + IF keeper = "wait" /\ child = NoCommand THEN 1 ELSE 0

Types ==
    /\ chain \in [Index -> {"absent", "empty", "drop"}] /\ input \in [Index -> Nat]
    /\ fails \in Nat /\ flushes \in Nat
    /\ main \in {"init", "run", "clear", "exited"}
    /\ keeper \in {"none", "sleep", "popen", "wait", "ending", "gone"}
    /\ iptables_rule_keep_index \in Index

(* Where the threads are, and whose command runs.                          *)
KeepList == Suffix(keep_todo, On(iptables_rule_keep_index, KeepCommands)) /\ Len(keep_todo) > 0
Control ==
    /\ main = "init" => Suffix(todo, InitCommands) /\ keeper = "none"
    /\ main = "run" => mode # "gen_add" /\ cancelled = FALSE
    /\ main = "clear" => mode # "gen_add" /\ Suffix(todo, ClearCommands)
    /\ keeper \in {"popen", "wait"} => KeepList
    /\ child # NoCommand =>
          KeepList /\ child = Head(keep_todo) /\ keeper \in {"wait", "gone"}
    /\ mode # "keep" => keeper = "none"
    /\ keeper = "none" => cancelled = FALSE /\ keep_thread_running = FALSE
    /\ main = "run" /\ keeper = "gone" => child = NoCommand

Clean == fails = 0 /\ flushes = 0
InPlace(i) == chain[i] = "drop" /\ input[i] = 1

(* After q of the commands -N -F -I ..., and after the two -D.             *)
Made(i, q) == (q >= 1 => chain[i] # "absent") /\ (q >= 3 => chain[i] = "drop")
Removed(i, q) ==
    /\ q = 4 => input[i] = 0 \/ fails >= 1
    /\ q = 5 => input[i] = 0 \/ fails >= 2

AtMostOne == fails <= 1 => \A i \in Index : input[i] <= 1

(* Only --keep-rule uses the second chain.                                 *)
Unused == mode # "keep" => chain[1] = "absent" /\ input[1] = 0

Adding ==
    main = "init" /\ mode = "gen_add" =>
        /\ Removed(0, InitDone)
        /\ Clean => Made(0, InitDone) /\ (InitDone = 6 => InPlace(0))
Installing ==
    main = "init" /\ mode # "gen_add" =>
        /\ InitDone < 4 => input[0] = 0
        /\ Clean => Made(0, InitDone) /\ (InitDone >= 4 => InPlace(0))
        /\ mode = "keep" =>
              /\ InitDone < 8 => input[1] = 0
              /\ Clean => Made(1, InitDone - 4) /\ (InitDone >= 8 => InPlace(1))

(* The chain that is being renewed, and the other one.                     *)
Renewing ==
    keeper \in {"popen", "wait"} \/ child # NoCommand =>
        LET i == iptables_rule_keep_index IN
        /\ Removed(i, KeepDone)
        /\ main = "run" /\ Clean => Made(i, KeepDone) /\ (KeepDone = 6 => InPlace(i))
Serving ==
    main = "run" /\ Clean =>
        /\ mode # "keep" => InPlace(0)
        /\ mode = "keep" =>
              \A j \in Index :
                 keeper \notin {"popen", "wait"} \/ j # iptables_rule_keep_index => InPlace(j)

(* Without --keep-rule nobody adds while myexit removes.                   *)
Clearing ==
    main = "clear" /\ mode # "keep" /\ fails = 0 =>
        /\ ClearDone >= 1 => input[0] = 0
        /\ ClearDone >= 2 => chain[0] # "drop"
        /\ ClearDone >= 3 => chain[0] = "absent"
Exited ==
    main = "exited" =>
        /\ mode = "gen_add" /\ Clean => InPlace(0)
        /\ mode \notin {"keep", "gen_add"} /\ fails = 0 =>
              chain[0] = "absent" /\ input[0] = 0

(* The inductive invariant.                                                *)
IInv ==
    /\ Types /\ Control /\ AtMostOne /\ Unused
    /\ Adding /\ Installing /\ Renewing /\ Serving /\ Clearing /\ Exited

-----------------------------------------------------------------------------
(* The lists of commands.                                                  *)

(* The first command of what is left of a list.                            *)
LEMMA SuffixStep ==
    ASSUME NEW all \in Seq(Command), NEW s, Suffix(s, all), s # <<>>
    PROVE  /\ Len(s) \in 1 .. Len(all) /\ Len(all) \in Nat
           /\ Head(s) = all[Len(all) - Len(s) + 1] /\ Head(s) \in Command
           /\ Suffix(Tail(s), all) /\ Len(Tail(s)) = Len(s) - 1
<1>1. s \in Seq(Command) /\ Len(s) <= Len(all) /\ Len(all) \in Nat
  BY DEF Suffix
<1>2. /\ Len(s) \in Nat \ {0} /\ Head(s) = s[1] /\ Head(s) \in Command
      /\ Tail(s) \in Seq(Command) /\ Len(Tail(s)) = Len(s) - 1
      /\ \A k \in 1 .. Len(s) - 1 : Tail(s)[k] = s[k + 1]
  BY <1>1
<1>3. Head(s) = all[Len(all) - Len(s) + 1]
  BY <1>1, <1>2 DEF Suffix
<1>4. ASSUME NEW k \in 1 .. Len(s) - 1
      PROVE  Tail(s)[k] = all[Len(all) - Len(Tail(s)) + k]
  <2>1. k + 1 \in 1 .. Len(s)
        /\ Len(all) - Len(s) + (k + 1) = Len(all) - Len(Tail(s)) + k
    BY <1>1, <1>2
  <2>2. s[k + 1] = all[Len(all) - Len(s) + (k + 1)]
    BY <2>1 DEF Suffix
  <2> QED
    BY <1>2, <2>1, <2>2
<1>5. Suffix(Tail(s), all)
  BY <1>1, <1>2, <1>4 DEF Suffix
<1> QED
  BY <1>1, <1>2, <1>3, <1>5

(* A list as a whole is left of itself.                                    *)
LEMMA WholeSuffix == ASSUME NEW all \in Seq(Command) PROVE Suffix(all, all)
  BY DEF Suffix

(* iptables_rule_init's commands.                                          *)
LEMMA InitList ==
    /\ InitCommands \in Seq(Command)
    /\ mode = "gen_add" =>
          /\ Len(InitCommands) = 6
          /\ \A k \in 1 .. 6 :
                /\ InitCommands[k].i = 0
                /\ InitCommands[k].op = <<"N", "F", "I", "D", "D", "A">>[k]
    /\ mode = "keep" =>
          /\ Len(InitCommands) = 8
          /\ \A k \in 1 .. 8 :
                /\ InitCommands[k].i = IF k <= 4 THEN 0 ELSE 1
                /\ InitCommands[k].op = <<"N", "F", "I", "A", "N", "F", "I", "A">>[k]
    /\ mode \notin {"gen_add", "keep"} =>
          /\ Len(InitCommands) = 4
          /\ \A k \in 1 .. 4 :
                InitCommands[k].i = 0 /\ InitCommands[k].op = <<"N", "F", "I", "A">>[k]
<1>1. CASE mode = "gen_add"
  BY <1>1 DEF InitCommands, On, Command, Ops, Index
<1>2. CASE mode = "keep"
  <2> DEFINE s == On(0, <<"N", "F", "I", "A">>)
             t == On(1, <<"N", "F", "I", "A">>)
  <2>1. /\ s \in Seq(Command) /\ Len(s) = 4
        /\ \A k \in 1 .. 4 : s[k].i = 0 /\ s[k].op = <<"N", "F", "I", "A">>[k]
    BY DEF On, Command, Ops, Index
  <2>2. /\ t \in Seq(Command) /\ Len(t) = 4
        /\ \A k \in 1 .. 4 : t[k].i = 1 /\ t[k].op = <<"N", "F", "I", "A">>[k]
    BY DEF On, Command, Ops, Index
  <2>3. InitCommands = s \o t
    BY <1>2 DEF InitCommands, PerChain
  <2> HIDE DEF s, t
  <2>4. /\ s \o t \in Seq(Command) /\ Len(s \o t) = 8
        /\ \A k \in 1 .. 8 : (s \o t)[k] = IF k <= 4 THEN s[k] ELSE t[k - 4]
    <3>1. /\ s \o t \in Seq(Command) /\ Len(s \o t) = Len(s) + Len(t)
          /\ \A k \in 1 .. Len(s) + Len(t) :
                (s \o t)[k] = IF k <= Len(s) THEN s[k] ELSE t[k - Len(s)]
      BY ZenonT(30), <2>1, <2>2, ConcatProperties
    <3>2. Len(s) + Len(t) = 8
      BY <2>1, <2>2
    <3> QED
      BY <2>1, <3>1, <3>2
  <2> QED
    BY <1>2, <2>1, <2>2, <2>3, <2>4
<1>3. CASE mode \notin {"gen_add", "keep"}
  <2>1. InitCommands = On(0, <<"N", "F", "I", "A">>)
    BY <1>3 DEF InitCommands, PerChain
  <2>2. /\ On(0, <<"N", "F", "I", "A">>) \in Seq(Command)
        /\ Len(On(0, <<"N", "F", "I", "A">>)) = 4
        /\ \A k \in 1 .. 4 : /\ On(0, <<"N", "F", "I", "A">>)[k].i = 0
                             /\ On(0, <<"N", "F", "I", "A">>)[k].op = <<"N", "F", "I", "A">>[k]
    BY DEF On, Command, Ops, Index
  <2> QED
    BY <1>3, <2>1, <2>2
<1> QED
  BY <1>1, <1>2, <1>3

(* clear_iptables_rule's commands.                                         *)
LEMMA ClearList ==
    /\ ClearCommands \in Seq(Command)
    /\ \A k \in 1 .. Len(ClearCommands) : ClearCommands[k].op # "A"
    /\ mode # "keep" =>
          /\ Len(ClearCommands) = 3
          /\ \A k \in 1 .. 3 :
                ClearCommands[k].i = 0 /\ ClearCommands[k].op = <<"D", "F", "X">>[k]
<1>1. CASE mode = "keep"
  <2> DEFINE s == On(0, <<"D", "F", "X">>)
             t == On(1, <<"D", "F", "X">>)
  <2>1. /\ s \in Seq(Command) /\ Len(s) = 3 /\ t \in Seq(Command) /\ Len(t) = 3
        /\ \A k \in 1 .. 3 : s[k].op # "A" /\ t[k].op # "A"
    BY DEF On, Command, Ops, Index
  <2>2. ClearCommands = s \o t
    BY <1>1 DEF ClearCommands, PerChain
  <2> HIDE DEF s, t
  <2>3. /\ s \o t \in Seq(Command) /\ Len(s \o t) = 6
        /\ \A k \in 1 .. 6 : (s \o t)[k] = IF k <= 3 THEN s[k] ELSE t[k - 3]
    BY SMTT(30), <2>1, ConcatProperties
  <2> QED
    BY <1>1, <2>1, <2>2, <2>3
<1>2. CASE mode # "keep"
  BY <1>2 DEF ClearCommands, PerChain, On, Command, Ops, Index
<1> QED
  BY <1>1, <1>2

(* keep_iptables_rule's commands.                                          *)
LEMMA RenewList ==
    ASSUME NEW i \in Index
    PROVE  /\ On(i, KeepCommands) \in Seq(Command) /\ Len(On(i, KeepCommands)) = 6
           /\ \A k \in 1 .. 6 :
                 /\ On(i, KeepCommands)[k].i = i
                 /\ On(i, KeepCommands)[k].op = <<"N", "F", "I", "D", "D", "A">>[k]
  BY DEF On, KeepCommands, Command, Ops, Index

-----------------------------------------------------------------------------
(* What a command does, whether it succeeds or fails: to its own chain...  *)
Touches(c) ==
    /\ c.op \notin {"D", "A"} => input' = input
    /\ c.op \in {"D", "A"} => chain' = chain
    /\ c.op = "N" /\ fails' = fails => chain'[c.i] # "absent"
    /\ c.op = "F" /\ fails' = fails =>
          chain'[c.i] # "drop" /\ (chain'[c.i] = "absent" <=> chain[c.i] = "absent")
    /\ c.op = "I" /\ fails' = fails /\ chain[c.i] # "absent" => chain'[c.i] = "drop"
    /\ c.op = "X" /\ fails' = fails /\ chain[c.i] # "drop" /\ input[c.i] = 0 =>
          chain'[c.i] = "absent"
    /\ c.op # "A" => input'[c.i] <= input[c.i]
    /\ c.op = "D" /\ input[c.i] <= 1 => input'[c.i] = 0 \/ fails' >= fails + 1
    /\ c.op = "A" => input'[c.i] <= input[c.i] + 1
    /\ c.op = "A" /\ fails' = fails /\ chain[c.i] # "absent" => input'[c.i] = input[c.i] + 1

(* ... and to nothing else.                                                *)
Keeps(c) ==
    /\ chain' \in [Index -> {"absent", "empty", "drop"}] /\ input' \in [Index -> Nat]
    /\ fails' \in Nat /\ fails' >= fails
    /\ \A j \in Index \ {c.i} : chain'[j] = chain[j] /\ input'[j] = input[j]

(* A command does what these say.                                          *)
LEMMA CommandEffect ==
    ASSUME Types, NEW c \in Command, Succeeds(c) \/ Fails(c)
    PROVE  Touches(c) /\ Keeps(c)
<1>1. /\ c.i \in Index /\ c.op \in Ops /\ input[c.i] \in Nat /\ fails \in Nat
      /\ chain[c.i] \in {"absent", "empty", "drop"}
      /\ \A j \in Index : input[j] \in Nat
  BY DEF Command, Types
<1>0. input[c.i] <= input[c.i] /\ input[c.i] <= input[c.i] + 1
  BY <1>1
<1>2. CASE Fails(c)
  <2>1. /\ UNCHANGED <<chain, input>>
        /\ \/ fails' = fails /\ ~Possible(c)
           \/ fails' = fails + 1
    BY <1>2 DEF Fails, firewall
  <2>2. Keeps(c)
    BY <1>1, <2>1 DEF Types, Keeps
  <2>3. /\ input'[c.i] = input[c.i] /\ chain'[c.i] = chain[c.i] /\ input'[c.i] \in Nat
        /\ input'[c.i] <= input[c.i] /\ input'[c.i] <= input[c.i] + 1
    BY <1>0, <1>1, <2>1
  <2>4. CASE fails' = fails + 1
    <3>1. fails' # fails /\ fails' >= fails + 1
      BY <1>1, <2>4
    <3> QED
      BY <1>1, <2>1, <2>2, <2>3, <3>1 DEF Touches
  <2>5. CASE ~Possible(c)
    <3>1. /\ c.op = "N" => chain[c.i] # "absent"
          /\ c.op \in {"F", "I", "A"} => chain[c.i] = "absent"
          /\ c.op = "D" => input[c.i] = 0
          /\ c.op = "X" => chain[c.i] # "empty" \/ input[c.i] # 0
      <4>1. CASE c.op = "N"
        BY <2>5, <4>1 DEF Possible
      <4>2. CASE c.op \in {"F", "I", "A"}
        BY <2>5, <4>2 DEF Possible
      <4>3. CASE c.op = "D"
        <5>1. ~(input[c.i] > 0)
          BY <2>5, <4>3 DEF Possible
        <5> QED
          BY <1>1, <4>3, <5>1
      <4>4. CASE c.op = "X"
        BY <2>5, <4>4 DEF Possible
      <4> QED
        BY <1>1, <4>1, <4>2, <4>3, <4>4 DEF Ops
    <3> QED
      BY <1>1, <2>1, <2>2, <2>3, <3>1 DEF Touches
  <2> QED
    BY <2>1, <2>4, <2>5
<1>3. CASE Succeeds(c)
  <2>1. fails' = fails /\ Possible(c) /\ Effect(c)
    BY <1>3 DEF Succeeds
  <2>2. /\ c.op \in {"F", "I", "A"} => chain[c.i] # "absent"
        /\ c.op = "D" => input[c.i] > 0
    BY <1>1, <2>1 DEF Possible
  <2>3. \E v \in {"absent", "empty", "drop"} :
           /\ chain' = [chain EXCEPT ![c.i] = v]
           /\ c.op \in {"N", "F"} => v = "empty"
           /\ c.op = "I" => v = "drop"
           /\ c.op = "X" => v = "absent"
           /\ c.op \in {"D", "A"} => v = chain[c.i]
    <3>1. [chain EXCEPT ![c.i] = chain[c.i]] = chain
      BY <1>1 DEF Types
    <3> QED
      BY <1>1, <2>1, <3>1 DEF Effect, Ops
  <2>4. \E n \in Nat :
           /\ input' = [input EXCEPT ![c.i] = n]
           /\ c.op = "D" => n = input[c.i] - 1
           /\ c.op = "A" => n = input[c.i] + 1
           /\ c.op \notin {"D", "A"} => n = input[c.i]
    <3>1. [input EXCEPT ![c.i] = input[c.i]] = input
      BY <1>1 DEF Types
    <3> QED
      <4>1. CASE c.op = "D"
        <5>1. input' = [input EXCEPT ![c.i] = input[c.i] - 1] /\ input[c.i] - 1 \in Nat
          BY <1>1, <2>1, <2>2, <4>1 DEF Effect
        <5> QED
          BY <4>1, <5>1
      <4>2. CASE c.op = "A"
        <5>1. input' = [input EXCEPT ![c.i] = input[c.i] + 1] /\ input[c.i] + 1 \in Nat
          BY <1>1, <2>1, <2>2, <4>2 DEF Effect
        <5> QED
          BY <4>2, <5>1
      <4>3. CASE c.op \notin {"D", "A"}
        BY <1>1, <2>1, <3>1, <4>3 DEF Effect
      <4> QED
        BY <4>1, <4>2, <4>3
  <2>5. PICK v \in {"absent", "empty", "drop"} :
           /\ chain' = [chain EXCEPT ![c.i] = v]
           /\ c.op \in {"N", "F"} => v = "empty"
           /\ c.op = "I" => v = "drop"
           /\ c.op = "X" => v = "absent"
           /\ c.op \in {"D", "A"} => v = chain[c.i]
    BY <2>3
  <2>6. PICK n \in Nat :
           /\ input' = [input EXCEPT ![c.i] = n]
           /\ c.op = "D" => n = input[c.i] - 1
           /\ c.op = "A" => n = input[c.i] + 1
           /\ c.op \notin {"D", "A"} => n = input[c.i]
    BY <2>4
  <2>7. /\ chain'[c.i] = v /\ input'[c.i] = n
        /\ \A j \in Index \ {c.i} : chain'[j] = chain[j] /\ input'[j] = input[j]
        /\ chain' \in [Index -> {"absent", "empty", "drop"}] /\ input' \in [Index -> Nat]
        /\ c.op \in {"D", "A"} => chain' = chain
        /\ c.op \notin {"D", "A"} => input' = input
    BY <1>1, <2>5, <2>6 DEF Types
  <2>8. Keeps(c)
    BY <1>1, <2>1, <2>7 DEF Keeps
  <2>9. Touches(c)
    BY <1>1, <2>1, <2>2, <2>5, <2>6, <2>7 DEF Touches
  <2> QED
    BY <2>8, <2>9
<1> QED
  BY <1>2, <1>3

-----------------------------------------------------------------------------
(* What the steps that run a command do.                                   *)

(* The mode never changes, so the lists do not either.                     *)
LEMMA ListsFixed ==
    ASSUME mode' = mode
    PROVE  InitCommands' = InitCommands /\ ClearCommands' = ClearCommands
  BY DEF InitCommands, ClearCommands, PerChain

(* myexit starts with all of clear_iptables_rule before it.                *)
LEMMA ExitEffect ==
    ASSUME Exit, mode' = mode
    PROVE  /\ cancelled' = keep_thread_running
           /\ mode = "gen_add" => main' = "exited"
           /\ mode # "gen_add" =>
                 main' = "clear" /\ Suffix(todo', ClearCommands) /\ ClearDone' = 0
<1>1. ClearCommands' = ClearCommands /\ ClearCommands \in Seq(Command)
  BY ListsFixed, ClearList
<1>2. Len(ClearCommands) - Len(ClearCommands) = 0
  BY <1>1
<1> QED
  BY <1>1, <1>2, WholeSuffix DEF Exit, ClearDone

(* One command of iptables_rule_init.                                      *)
LEMMA InitEffect ==
    ASSUME Types, Control, InitCommand
    PROVE  LET c == InitCommands[InitDone + 1] IN
           /\ main = "init" /\ InitDone \in 0 .. Len(InitCommands) - 1 /\ c \in Command
           /\ Touches(c) /\ Keeps(c)
           /\ \/ main' = "init" /\ InitDone' = InitDone + 1 /\ Suffix(todo', InitCommands)
              \/ /\ Exit /\ c.op = "A" /\ UNCHANGED <<chain, input>>
                 /\ fails' = fails => chain[c.i] = "absent"
           /\ UNCHANGED <<mode, keeper, keep_todo, iptables_rule_keep_index, child, flushes>>
<1> DEFINE c == InitCommands[InitDone + 1]
<1>1. main = "init" /\ todo # <<>> /\ Suffix(todo, InitCommands) /\ InitCommands \in Seq(Command)
  BY InitList DEF InitCommand, Control
<1>2. /\ Len(todo) \in 1 .. Len(InitCommands) /\ Len(InitCommands) \in Nat
      /\ Head(todo) = c /\ c \in Command
      /\ Suffix(Tail(todo), InitCommands) /\ Len(Tail(todo)) = Len(todo) - 1
  BY <1>1, SuffixStep DEF InitDone
<1>3. InitDone \in 0 .. Len(InitCommands) - 1
  BY <1>2 DEF InitDone
<1> HIDE DEF c
<1>4. Succeeds(c) \/ Fails(c)
  BY <1>2 DEF InitCommand
<1>5. Touches(c) /\ Keeps(c)
  BY <1>2, <1>4, CommandEffect
<1>6. UNCHANGED <<mode, keeper, keep_todo, iptables_rule_keep_index, child, flushes>>
  BY DEF InitCommand, keep, bounds
<1>7. \/ todo' = Tail(todo) /\ main' = main
      \/ Fails(c) /\ c.op = "A" /\ Exit
  BY <1>2 DEF InitCommand
<1>8. CASE todo' = Tail(todo) /\ main' = main
  <2>1. InitDone' = Len(InitCommands) - (Len(todo) - 1)
    BY <1>2, <1>6, <1>8, ListsFixed DEF InitDone
  <2>2. InitDone' = InitDone + 1
    BY <1>2, <2>1 DEF InitDone
  <2> QED
    BY <1>1, <1>2, <1>3, <1>5, <1>6, <1>8, <2>2 DEF c
<1>9. CASE Fails(c) /\ c.op = "A" /\ Exit
  <2>1. UNCHANGED <<chain, input>>
    BY <1>9 DEF Fails, firewall
  <2>2. fails' = fails => chain[c.i] = "absent"
    <3>1. fails' = fails => ~Possible(c)
      BY <1>9 DEF Fails, Types
    <3> QED
      BY <1>9, <3>1 DEF Possible
  <2> QED
    BY <1>1, <1>2, <1>3, <1>5, <1>6, <1>9, <2>1, <2>2 DEF c
<1> QED
  BY <1>7, <1>8, <1>9

(* One command of clear_iptables_rule.                                     *)
LEMMA ClearEffect ==
    ASSUME Types, Control, ClearCommand
    PROVE  LET c == ClearCommands[ClearDone + 1] IN
           /\ main = "clear" /\ main' = "clear"
           /\ ClearDone \in 0 .. Len(ClearCommands) - 1 /\ c \in Command
           /\ Touches(c) /\ Keeps(c)
           /\ ClearDone' = ClearDone + 1 /\ Suffix(todo', ClearCommands)
           /\ UNCHANGED <<mode, keeper, keep_todo, iptables_rule_keep_index, child, flushes>>
<1> DEFINE c == ClearCommands[ClearDone + 1]
<1>1. /\ main = "clear" /\ todo # <<>> /\ Suffix(todo, ClearCommands)
      /\ ClearCommands \in Seq(Command)
  BY ClearList DEF ClearCommand, Control
<1>2. /\ Len(todo) \in 1 .. Len(ClearCommands) /\ Len(ClearCommands) \in Nat
      /\ Head(todo) = c /\ c \in Command
      /\ Suffix(Tail(todo), ClearCommands) /\ Len(Tail(todo)) = Len(todo) - 1
  BY <1>1, SuffixStep DEF ClearDone
<1>3. ClearDone \in 0 .. Len(ClearCommands) - 1
  BY <1>2 DEF ClearDone
<1> HIDE DEF c
<1>4. Touches(c) /\ Keeps(c)
  BY <1>2, CommandEffect DEF ClearCommand
<1>5. /\ UNCHANGED <<mode, keeper, keep_todo, iptables_rule_keep_index, child, flushes>>
      /\ todo' = Tail(todo) /\ main' = main
  BY DEF ClearCommand, keep, bounds
<1>6. ClearDone' = Len(ClearCommands) - (Len(todo) - 1)
  BY <1>2, <1>5, ListsFixed DEF ClearDone
<1>7. ClearDone' = ClearDone + 1
  BY <1>2, <1>6 DEF ClearDone
<1> QED
  BY <1>1, <1>2, <1>3, <1>4, <1>5, <1>7 DEF c

(* One command of keep_iptables_rule.                                      *)
LEMMA ChildEffect ==
    ASSUME Types, Control, ChildRuns
    PROVE  LET c == On(iptables_rule_keep_index, KeepCommands)[KeepDone + 1] IN
           /\ KeepDone \in 0 .. 5 /\ c \in Command
           /\ c.i = iptables_rule_keep_index
           /\ c.op = <<"N", "F", "I", "D", "D", "A">>[KeepDone + 1]
           /\ Touches(c) /\ Keeps(c)
           /\ child # NoCommand /\ child' = NoCommand
           /\ keeper = "wait" => KeepDone' = KeepDone + 1
           /\ mode = "keep" /\ main # "init"
           /\ UNCHANGED <<mode, main, todo, keeper, keep_todo, iptables_rule_keep_index, flushes,
                          cancelled>>
<1> DEFINE s == On(iptables_rule_keep_index, KeepCommands)
<1>1. /\ iptables_rule_keep_index \in Index /\ s \in Seq(Command) /\ Len(s) = 6
      /\ \A k \in 1 .. 6 : /\ s[k].i = iptables_rule_keep_index
                           /\ s[k].op = <<"N", "F", "I", "D", "D", "A">>[k]
  BY RenewList DEF Types
<1> HIDE DEF s
<1>2. /\ child # NoCommand /\ Suffix(keep_todo, s) /\ Len(keep_todo) > 0
      /\ child = Head(keep_todo) /\ keeper \in {"wait", "gone"} /\ child' = NoCommand
  BY DEF ChildRuns, Control, KeepList, s
<1>3. keep_todo # <<>>
  BY <1>2
<1>4. Len(keep_todo) \in 1 .. 6 /\ child = s[6 - Len(keep_todo) + 1] /\ child \in Command
  BY ZenonT(30), <1>1, <1>2, <1>3, SuffixStep
<1>5. KeepDone = 6 - Len(keep_todo) /\ KeepDone \in 0 .. 5
  <2>1. ~(keeper = "wait" /\ child = NoCommand)
    BY <1>2
  <2>2. PICK n \in 1 .. 6 : n = Len(keep_todo)
    BY <1>4
  <2>3. 6 - n + 0 = 6 - n /\ 6 - n \in 0 .. 5
    OBVIOUS
  <2> QED
    BY <2>1, <2>2, <2>3 DEF KeepDone
<1>6. child = s[KeepDone + 1]
  BY <1>4, <1>5
<1>7. Touches(child) /\ Keeps(child)
  BY <1>4, CommandEffect DEF ChildRuns
<1>8. UNCHANGED <<mode, main, todo, keeper, keep_todo, iptables_rule_keep_index, flushes, cancelled>>
  BY DEF ChildRuns, bounds
<1>9. keeper = "wait" => KeepDone' = KeepDone + 1
  BY <1>2, <1>4, <1>5, <1>8 DEF KeepDone
<1>10. mode = "keep" /\ main # "init"
  BY <1>2 DEF Control
<1>11. s[KeepDone + 1].i = iptables_rule_keep_index
       /\ s[KeepDone + 1].op = <<"N", "F", "I", "D", "D", "A">>[KeepDone + 1]
  <2>1. PICK q \in 0 .. 5 : q = KeepDone
    BY <1>5
  <2>2. q + 1 \in 1 .. 6
    OBVIOUS
  <2> QED
    BY <1>1, <2>1, <2>2
<1> QED
  BY <1>2, <1>4, <1>5, <1>6, <1>7, <1>8, <1>9, <1>10, <1>11 DEF s

-----------------------------------------------------------------------------
(* One lemma per action.                                                   *)

(* The rules are in place when the program runs.                           *)
LEMMA StepInstalled == ASSUME IInv, Installed PROVE IInv'
<1> USE DEF firewall, keep, bounds
<1>0. /\ Types /\ Control /\ AtMostOne /\ Unused /\ Adding
      /\ Installing /\ Renewing /\ Serving /\ Clearing /\ Exited
  BY DEF IInv
<1>1. UNCHANGED <<mode, chain, input, fails, flushes>>
  BY DEF Installed
<1>2. InitCommands' = InitCommands /\ ClearCommands' = ClearCommands
  BY <1>1, ListsFixed
<1>3. Types' /\ Control'
  BY <1>0, <1>1, <1>2 DEF Installed, Types, Control, KeepList
<1>4. AtMostOne' /\ Unused'
  BY <1>0, <1>1 DEF AtMostOne, Unused
<1>5. Adding' /\ Installing'
  BY <1>0, <1>1, <1>2
  DEF Installed, Adding, Installing, Clean, Made, InPlace, Removed, InitDone
<1>6. Renewing' /\ Serving'
  <2>1. /\ main = "init" /\ todo = <<>> /\ mode # "gen_add" /\ keeper = "none"
        /\ child = NoCommand /\ child' = child /\ keeper' \in {"none", "sleep"}
    BY <1>0 DEF Installed, Control
  <2>2. /\ mode = "keep" => InitDone = 8
        /\ mode # "keep" => InitDone = 4
    BY <2>1, InitList DEF InitDone
  <2>3. Clean => InPlace(0) /\ (mode = "keep" => InPlace(1))
    BY <1>0, <2>1, <2>2 DEF Installing
  <2> QED
    BY <1>1, <2>1, <2>3 DEF Renewing, Serving, Clean, InPlace, Index
<1>7. Clearing' /\ Exited'
  BY <1>0, <1>1, <1>2 DEF Installed, Clearing, Exited, Control, Clean, InPlace, ClearDone
<1> QED
  BY <1>3, <1>4, <1>5, <1>6, <1>7 DEF IInv

(* --gen-add leaves its rule.                                              *)
LEMMA StepGenAdded == ASSUME IInv, GenAdded PROVE IInv'
<1> USE DEF firewall, keep, bounds
<1>0. /\ Types /\ Control /\ AtMostOne /\ Unused /\ Adding
      /\ Installing /\ Renewing /\ Serving /\ Clearing /\ Exited
  BY DEF IInv
<1>1. UNCHANGED <<mode, chain, input, fails, flushes>>
  BY DEF GenAdded
<1>2. InitCommands' = InitCommands /\ ClearCommands' = ClearCommands
  BY <1>1, ListsFixed
<1>3. Types' /\ Control'
  <2>1. /\ cancelled' = keep_thread_running /\ mode = "gen_add" /\ main' = "exited"
        /\ UNCHANGED <<keeper, keep_todo, iptables_rule_keep_index, child, keep_thread_running>>
    BY <1>1, ExitEffect DEF GenAdded
  <2> QED
    BY <1>0, <1>1, <2>1 DEF Types, Control, KeepList
<1>4. AtMostOne' /\ Unused'
  BY <1>0, <1>1 DEF AtMostOne, Unused
<1>5. Adding' /\ Installing'
  BY <1>0, <1>1, <1>2, ExitEffect
  DEF GenAdded, Adding, Installing, Clean, Made, InPlace, Removed, InitDone
<1>6. Renewing' /\ Serving'
  BY <1>0, <1>1, ExitEffect
  DEF GenAdded, Renewing, Serving, Control, Types, Clean, Made, InPlace, Removed, KeepDone
<1>7. Clearing' /\ Exited'
  <2>1. main = "init" /\ todo = <<>> /\ mode = "gen_add" /\ main' = "exited"
    BY <1>1, ExitEffect DEF GenAdded
  <2>2. InitDone = 6
    BY <2>1, InitList DEF InitDone
  <2>3. Clean => InPlace(0)
    BY <1>0, <2>1, <2>2 DEF Adding
  <2> QED
    BY <1>1, <2>1, <2>3 DEF Clearing, Exited, Clean, InPlace
<1> QED
  BY <1>3, <1>4, <1>5, <1>6, <1>7 DEF IInv

(* --gen-add starts again with its rule in place.                          *)
LEMMA StepRunAgain == ASSUME IInv, RunAgain PROVE IInv'
<1> USE DEF firewall, keep, bounds
<1>0. /\ Types /\ Control /\ AtMostOne /\ Unused /\ Adding
      /\ Installing /\ Renewing /\ Serving /\ Clearing /\ Exited
  BY DEF IInv
<1>1. UNCHANGED <<mode, chain, input, fails, flushes>>
  BY DEF RunAgain
<1>2. InitCommands' = InitCommands /\ ClearCommands' = ClearCommands
  BY <1>1, ListsFixed
<1>3. Types' /\ Control'
  <2>1. Suffix(todo', InitCommands)
    BY InitList, WholeSuffix DEF RunAgain
  <2> QED
    BY <1>0, <1>1, <1>2, <2>1 DEF RunAgain, Types, Control, KeepList
<1>4. AtMostOne' /\ Unused'
  BY <1>0, <1>1 DEF AtMostOne, Unused
<1>5. Adding' /\ Installing'
  BY <1>0, <1>1, <1>2
  DEF RunAgain, Adding, Installing, Clean, Made, InPlace, Removed, InitDone
<1>6. Renewing' /\ Serving'
  BY <1>0, <1>1
  DEF RunAgain, Renewing, Serving, Control, Types, Clean, Made, InPlace, Removed, KeepDone
<1>7. Clearing' /\ Exited'
  BY <1>0, <1>1, <1>2 DEF RunAgain, Clearing, Exited, Control, Clean, InPlace, ClearDone
<1> QED
  BY <1>3, <1>4, <1>5, <1>6, <1>7 DEF IInv

(* A signal touches no rule.                                               *)
LEMMA StepSignal == ASSUME IInv, Signal PROVE IInv'
<1> USE DEF firewall, keep, bounds
<1>0. /\ Types /\ Control /\ AtMostOne /\ Unused /\ Adding
      /\ Installing /\ Renewing /\ Serving /\ Clearing /\ Exited
  BY DEF IInv
<1>1. UNCHANGED <<mode, chain, input, fails, flushes>>
  BY DEF Signal
<1>2. InitCommands' = InitCommands /\ ClearCommands' = ClearCommands
  BY <1>1, ListsFixed
<1>3. Types' /\ Control'
  BY <1>0, <1>1, <1>2 DEF Signal, Types, Control, KeepList
<1>4. AtMostOne' /\ Unused'
  BY <1>0, <1>1 DEF AtMostOne, Unused
<1>5. Adding' /\ Installing'
  BY <1>0, <1>1, <1>2 DEF Signal, Adding, Installing, Clean, Made, InPlace, Removed, InitDone
<1>6. Renewing' /\ Serving'
  BY <1>0, <1>1
  DEF Signal, Renewing, Serving, Control, Types, Clean, Made, InPlace, Removed, KeepDone
<1>7. Clearing' /\ Exited'
  BY <1>0, <1>1, <1>2 DEF Signal, Clearing, Exited, Control, Clean, InPlace, ClearDone
<1> QED
  BY <1>3, <1>4, <1>5, <1>6, <1>7 DEF IInv

(* myexit has everything to remove.                                        *)
LEMMA StepQuit == ASSUME IInv, Quit PROVE IInv'
<1> USE DEF firewall, keep, bounds
<1>0. /\ Types /\ Control /\ AtMostOne /\ Unused /\ Adding
      /\ Installing /\ Renewing /\ Serving /\ Clearing /\ Exited
  BY DEF IInv
<1>1. UNCHANGED <<mode, chain, input, fails, flushes>>
  BY DEF Quit
<1>2. InitCommands' = InitCommands /\ ClearCommands' = ClearCommands
  BY <1>1, ListsFixed
<1>3. Types' /\ Control'
  <2>1. /\ cancelled' = keep_thread_running /\ main = "run" /\ mode # "gen_add"
        /\ main' = "clear" /\ Suffix(todo', ClearCommands)
        /\ UNCHANGED <<keeper, keep_todo, iptables_rule_keep_index, child, keep_thread_running>>
    BY <1>0, <1>1, ExitEffect DEF Quit, Control
  <2> QED
    BY <1>0, <1>1, <1>2, <2>1 DEF Types, Control, KeepList
<1>4. AtMostOne' /\ Unused'
  BY <1>0, <1>1 DEF AtMostOne, Unused
<1>5. Adding' /\ Installing'
  BY <1>0, <1>1, <1>2, ExitEffect
  DEF Quit, Adding, Installing, Clean, Made, InPlace, Removed, InitDone
<1>6. Renewing' /\ Serving'
  BY <1>0, <1>1, ExitEffect
  DEF Quit, Renewing, Serving, Control, Types, Clean, Made, InPlace, Removed, KeepDone
<1>7. Clearing' /\ Exited'
  BY <1>0, <1>1, <1>2, ExitEffect
  DEF Quit, Clearing, Exited, Control, Clean, InPlace, ClearDone
<1> QED
  BY <1>3, <1>4, <1>5, <1>6, <1>7 DEF IInv

(* At the end everything was removed.                                      *)
LEMMA StepTerminate == ASSUME IInv, Terminate PROVE IInv'
<1> USE DEF firewall, keep, bounds
<1>0. /\ Types /\ Control /\ AtMostOne /\ Unused /\ Adding
      /\ Installing /\ Renewing /\ Serving /\ Clearing /\ Exited
  BY DEF IInv
<1>1. UNCHANGED <<mode, chain, input, fails, flushes>>
  BY DEF Terminate
<1>2. InitCommands' = InitCommands /\ ClearCommands' = ClearCommands
  BY <1>1, ListsFixed
<1>3. Types' /\ Control'
  BY <1>0, <1>1, <1>2 DEF Terminate, Types, Control, KeepList
<1>4. AtMostOne' /\ Unused'
  BY <1>0, <1>1 DEF AtMostOne, Unused
<1>5. Adding' /\ Installing'
  BY <1>0, <1>1, <1>2
  DEF Terminate, Adding, Installing, Clean, Made, InPlace, Removed, InitDone
<1>6. Renewing' /\ Serving'
  BY <1>0, <1>1
  DEF Terminate, Renewing, Serving, Control, Types, Clean, Made, InPlace, Removed, KeepDone
<1>7. Clearing' /\ Exited'
  <2>1. main = "clear" /\ todo = <<>> /\ mode # "gen_add" /\ main' = "exited"
    BY <1>0 DEF Terminate, Control
  <2>2. mode # "keep" => ClearDone = 3
    BY <2>1, ClearList DEF ClearDone
  <2>3. mode # "keep" /\ fails = 0 => chain[0] = "absent" /\ input[0] = 0
    BY <1>0, <2>1, <2>2 DEF Clearing
  <2> QED
    BY <1>1, <2>1, <2>3 DEF Clearing, Exited
<1> QED
  BY <1>3, <1>4, <1>5, <1>6, <1>7 DEF IInv

(* A renewal starts with both chains in place.                             *)
LEMMA StepKeepWakes == ASSUME IInv, KeepWakes PROVE IInv'
<1> USE DEF firewall, keep, bounds
<1>0. /\ Types /\ Control /\ AtMostOne /\ Unused /\ Adding
      /\ Installing /\ Renewing /\ Serving /\ Clearing /\ Exited
  BY DEF IInv
<1>1. UNCHANGED <<mode, chain, input, fails, flushes>>
  BY DEF KeepWakes
<1>2. InitCommands' = InitCommands /\ ClearCommands' = ClearCommands
  BY <1>1, ListsFixed
<1>3. Types' /\ Control'
  <2>1. /\ keeper = "sleep" /\ keeper' = "popen" /\ child = NoCommand /\ mode = "keep"
        /\ main # "init"
        /\ UNCHANGED <<main, todo, child, keep_thread_running, cancelled>>
    BY <1>0 DEF KeepWakes, Control
  <2>2. iptables_rule_keep_index' \in Index
    BY <1>0 DEF KeepWakes, Types, Index
  <2>3. KeepList'
    BY <2>2, RenewList, WholeSuffix DEF KeepWakes, KeepList
  <2> QED
    BY <1>0, <1>1, <1>2, <2>1, <2>2, <2>3 DEF Types, Control
<1>4. AtMostOne' /\ Unused'
  BY <1>0, <1>1 DEF AtMostOne, Unused
<1>5. Adding' /\ Installing'
  BY <1>0, <1>1, <1>2
  DEF KeepWakes, Adding, Installing, Clean, Made, InPlace, Removed, InitDone
<1>6. Renewing' /\ Serving'
  <2>1. /\ keeper = "sleep" /\ keeper' = "popen" /\ child = NoCommand /\ mode = "keep"
        /\ UNCHANGED <<main, child>>
    BY <1>0 DEF KeepWakes, Control
  <2>2. KeepDone' = 0
    <3>1. iptables_rule_keep_index' \in Index
      BY <1>3 DEF Types
    <3>2. Len(keep_todo') = 6
      BY <3>1, RenewList DEF KeepWakes
    <3> QED
      BY <2>1, <3>2 DEF KeepDone
  <2> QED
    BY <1>0, <1>1, <2>1, <2>2 DEF Renewing, Serving, Clean, Made, InPlace, Removed
<1>7. Clearing' /\ Exited'
  BY <1>0, <1>1, <1>2 DEF KeepWakes, Clearing, Exited, Control, Clean, InPlace, ClearDone
<1> QED
  BY <1>3, <1>4, <1>5, <1>6, <1>7 DEF IInv

(* Starting a command does not run it.                                     *)
LEMMA StepKeepStarts == ASSUME IInv, KeepStarts PROVE IInv'
<1> USE DEF firewall, keep, bounds
<1>0. /\ Types /\ Control /\ AtMostOne /\ Unused /\ Adding
      /\ Installing /\ Renewing /\ Serving /\ Clearing /\ Exited
  BY DEF IInv
<1>1. UNCHANGED <<mode, chain, input, fails, flushes>>
  BY DEF KeepStarts
<1>2. InitCommands' = InitCommands /\ ClearCommands' = ClearCommands
  BY <1>1, ListsFixed
<1>3. Types' /\ Control'
  BY <1>0, <1>1, <1>2 DEF KeepStarts, Types, Control, KeepList
<1>4. AtMostOne' /\ Unused'
  BY <1>0, <1>1 DEF AtMostOne, Unused
<1>5. Adding' /\ Installing'
  BY <1>0, <1>1, <1>2
  DEF KeepStarts, Adding, Installing, Clean, Made, InPlace, Removed, InitDone
<1>6. Renewing' /\ Serving'
  <2>1. /\ keeper = "popen" /\ keeper' = "wait" /\ mode = "keep" /\ KeepList
        /\ child' = Head(keep_todo)
        /\ UNCHANGED <<main, keep_todo, iptables_rule_keep_index>>
    BY <1>0 DEF KeepStarts, Control
  <2>2. child' # NoCommand
    <3>1. keep_todo # <<>> /\ Suffix(keep_todo, On(iptables_rule_keep_index, KeepCommands))
      BY <2>1 DEF KeepList
    <3>2. On(iptables_rule_keep_index, KeepCommands) \in Seq(Command)
      BY <1>0, RenewList DEF Types
    <3>3. child' \in Command
      BY <2>1, <3>1, <3>2, SuffixStep
    <3> QED
      BY <3>3 DEF Command, Ops, NoCommand
  <2>3. KeepDone' = KeepDone
    BY <2>1, <2>2 DEF KeepDone
  <2> QED
    BY <1>0, <1>1, <2>1, <2>3 DEF Renewing, Serving, Clean, Made, InPlace, Removed
<1>7. Clearing' /\ Exited'
  BY <1>0, <1>1, <1>2 DEF KeepStarts, Clearing, Exited, Control, Clean, InPlace, ClearDone
<1> QED
  BY <1>3, <1>4, <1>5, <1>6, <1>7 DEF IInv

(* A renewal ends with both chains in place.                               *)
LEMMA StepKeepContinues == ASSUME IInv, KeepContinues PROVE IInv'
<1> USE DEF firewall, keep, bounds
<1>0. /\ Types /\ Control /\ AtMostOne /\ Unused /\ Adding
      /\ Installing /\ Renewing /\ Serving /\ Clearing /\ Exited
  BY DEF IInv
<1>1. UNCHANGED <<mode, chain, input, fails, flushes>>
  BY DEF KeepContinues
<1>2. InitCommands' = InitCommands /\ ClearCommands' = ClearCommands
  BY <1>1, ListsFixed
<1>3. Types' /\ Control'
  <2>1. /\ keeper = "wait" /\ child = NoCommand /\ mode = "keep" /\ KeepList /\ main # "init"
        /\ keep_todo' = Tail(keep_todo) /\ keeper' \in {"popen", "ending", "sleep"}
        /\ keeper' = "popen" => keep_todo' # <<>>
        /\ UNCHANGED <<main, todo, iptables_rule_keep_index, child, keep_thread_running,
                       cancelled>>
    BY <1>0 DEF KeepContinues, Control
  <2>2. /\ keep_todo # <<>> /\ Suffix(keep_todo, On(iptables_rule_keep_index, KeepCommands))
        /\ On(iptables_rule_keep_index, KeepCommands) \in Seq(Command)
    BY <1>0, <2>1, RenewList DEF KeepList, Types
  <2>3. Suffix(keep_todo', On(iptables_rule_keep_index, KeepCommands))
    BY <2>1, <2>2, SuffixStep
  <2>4. keep_todo' # <<>> => KeepList'
    <3>1. keep_todo' \in Seq(Command)
      BY <2>3 DEF Suffix
    <3> QED
      BY <2>1, <2>3, <3>1 DEF KeepList
  <2> QED
    BY <1>0, <1>1, <1>2, <2>1, <2>4 DEF Types, Control
<1>4. AtMostOne' /\ Unused'
  BY <1>0, <1>1 DEF AtMostOne, Unused
<1>5. Adding' /\ Installing'
  BY <1>0, <1>1, <1>2
  DEF KeepContinues, Adding, Installing, Clean, Made, InPlace, Removed, InitDone
<1>6. Renewing' /\ Serving'
  <2>1. /\ keeper = "wait" /\ child = NoCommand /\ mode = "keep" /\ KeepList
        /\ keep_todo' = Tail(keep_todo) /\ keeper' \in {"popen", "ending", "sleep"}
        /\ keeper' # "popen" => keep_todo' = <<>>
        /\ UNCHANGED <<main, iptables_rule_keep_index, child>>
    BY <1>0 DEF KeepContinues, Control
  <2>2. /\ keep_todo # <<>> /\ Suffix(keep_todo, On(iptables_rule_keep_index, KeepCommands))
        /\ On(iptables_rule_keep_index, KeepCommands) \in Seq(Command)
        /\ Len(On(iptables_rule_keep_index, KeepCommands)) = 6
    BY <1>0, <2>1, RenewList DEF KeepList, Types
  <2>3. Len(keep_todo) \in 1 .. 6 /\ Len(keep_todo') = Len(keep_todo) - 1
    BY <2>1, <2>2, SuffixStep
  <2>4. KeepDone = 6 - Len(keep_todo) + 1
    BY <2>1 DEF KeepDone
  <2>5. CASE keeper' = "popen"
    <3>1. KeepDone' = 6 - Len(keep_todo') + 0
      BY <2>5 DEF KeepDone
    <3>2. KeepDone' = KeepDone
      BY <2>3, <2>4, <3>1
    <3> QED
      BY <1>0, <1>1, <2>1, <2>5, <3>2 DEF Renewing, Serving, Clean, Made, InPlace, Removed
  <2>6. CASE keeper' # "popen"
    <3>1. Len(keep_todo') = 0
      BY <2>1, <2>6
    <3>2. KeepDone = 6
      <4>1. PICK n \in 1 .. 6 : n = Len(keep_todo)
        BY <2>3
      <4>2. n = 1
        BY <2>3, <3>1, <4>1
      <4> QED
        BY <2>4, <4>1, <4>2
    <3>3. main = "run" /\ Clean => \A j \in Index : InPlace(j)
      BY <1>0, <2>1, <3>2 DEF Renewing, Serving
    <3> QED
      BY <1>1, <2>1, <2>6, <3>3 DEF Renewing, Serving, Clean, InPlace
  <2> QED
    BY <2>5, <2>6
<1>7. Clearing' /\ Exited'
  BY <1>0, <1>1, <1>2 DEF KeepContinues, Clearing, Exited, Control, Clean, InPlace, ClearDone
<1> QED
  BY <1>3, <1>4, <1>5, <1>6, <1>7 DEF IInv

(* The thread ends between two renewals.                                   *)
LEMMA StepKeepEnds == ASSUME IInv, KeepEnds PROVE IInv'
<1> USE DEF firewall, keep, bounds
<1>0. /\ Types /\ Control /\ AtMostOne /\ Unused /\ Adding
      /\ Installing /\ Renewing /\ Serving /\ Clearing /\ Exited
  BY DEF IInv
<1>1. UNCHANGED <<mode, chain, input, fails, flushes>>
  BY DEF KeepEnds
<1>2. InitCommands' = InitCommands /\ ClearCommands' = ClearCommands
  BY <1>1, ListsFixed
<1>3. Types' /\ Control'
  BY <1>0, <1>1, <1>2 DEF KeepEnds, Types, Control, KeepList
<1>4. AtMostOne' /\ Unused'
  BY <1>0, <1>1 DEF AtMostOne, Unused
<1>5. Adding' /\ Installing'
  BY <1>0, <1>1, <1>2
  DEF KeepEnds, Adding, Installing, Clean, Made, InPlace, Removed, InitDone
<1>6. Renewing' /\ Serving'
  BY <1>0, <1>1
  DEF KeepEnds, Renewing, Serving, Control, Types, Clean, Made, InPlace, Removed, KeepDone
<1>7. Clearing' /\ Exited'
  BY <1>0, <1>1, <1>2 DEF KeepEnds, Clearing, Exited, Control, Clean, InPlace, ClearDone
<1> QED
  BY <1>3, <1>4, <1>5, <1>6, <1>7 DEF IInv

(* A cancelled thread may leave a command behind.                          *)
LEMMA StepKeepCancelled == ASSUME IInv, KeepCancelled PROVE IInv'
<1> USE DEF firewall, keep, bounds
<1>0. /\ Types /\ Control /\ AtMostOne /\ Unused /\ Adding
      /\ Installing /\ Renewing /\ Serving /\ Clearing /\ Exited
  BY DEF IInv
<1>1. UNCHANGED <<mode, chain, input, fails, flushes>>
  BY DEF KeepCancelled
<1>2. InitCommands' = InitCommands /\ ClearCommands' = ClearCommands
  BY <1>1, ListsFixed
<1>3. Types' /\ Control'
  BY <1>0, <1>1, <1>2 DEF KeepCancelled, Types, Control, KeepList
<1>4. AtMostOne' /\ Unused'
  BY <1>0, <1>1 DEF AtMostOne, Unused
<1>5. Adding' /\ Installing'
  BY <1>0, <1>1, <1>2
  DEF KeepCancelled, Adding, Installing, Clean, Made, InPlace, Removed, InitDone
<1>6. Renewing' /\ Serving'
  BY <1>0, <1>1
  DEF KeepCancelled, Renewing, Serving, Control, Types, Clean, Made, InPlace, Removed,
      KeepDone
<1>7. Clearing' /\ Exited'
  BY <1>0, <1>1, <1>2 DEF KeepCancelled, Clearing, Exited, Control, Clean, InPlace, ClearDone
<1> QED
  BY <1>3, <1>4, <1>5, <1>6, <1>7 DEF IInv

(* One command of iptables_rule_init or iptables_gen_add.                  *)
LEMMA StepInitCommand == ASSUME IInv, InitCommand PROVE IInv'
<1> DEFINE c == InitCommands[InitDone + 1]
<1>0. /\ Types /\ Control /\ AtMostOne /\ Unused /\ Adding
      /\ Installing /\ Renewing /\ Serving /\ Clearing /\ Exited
  BY DEF IInv
<1>1. /\ main = "init" /\ InitDone \in 0 .. Len(InitCommands) - 1 /\ c \in Command
      /\ Touches(c) /\ Keeps(c)
      /\ \/ main' = "init" /\ InitDone' = InitDone + 1 /\ Suffix(todo', InitCommands)
         \/ /\ Exit /\ c.op = "A" /\ UNCHANGED <<chain, input>>
            /\ fails' = fails => chain[c.i] = "absent"
      /\ UNCHANGED <<mode, keeper, keep_todo, iptables_rule_keep_index, child, flushes>>
  BY <1>0, InitEffect
<1>2. keep_thread_running' = keep_thread_running /\ (main' = "init" => cancelled' = cancelled)
  <2>1. ~(Exit /\ main' = "init")
    BY DEF Exit
  <2> QED
    BY <2>1 DEF InitCommand, keep
<1>3. PICK q \in 0 .. 7 :
         /\ q = InitDone
         /\ mode = "gen_add" => q \in 0 .. 5
         /\ mode # "gen_add" /\ mode # "keep" => q \in 0 .. 3
  BY <1>1, InitList
<1>4. /\ c.i = IF mode = "keep" /\ q >= 4 THEN 1 ELSE 0
      /\ mode = "gen_add" => c.op = <<"N", "F", "I", "D", "D", "A">>[q + 1]
      /\ mode = "keep" => c.op = <<"N", "F", "I", "A", "N", "F", "I", "A">>[q + 1]
      /\ mode \notin {"gen_add", "keep"} => c.op = <<"N", "F", "I", "A">>[q + 1]
  <2>1. q + 1 \in 1 .. 8 /\ (q + 1 <= 4 <=> ~(q >= 4))
    OBVIOUS
  <2>2. CASE mode = "gen_add"
    BY <1>3, <2>2, InitList
  <2>3. CASE mode = "keep"
    BY <1>3, <2>1, <2>3, InitList
  <2>4. CASE mode \notin {"gen_add", "keep"}
    BY <1>3, <2>4, InitList
  <2> QED
    BY <2>2, <2>3, <2>4
<1> HIDE DEF c
<1>5. InitCommands' = InitCommands /\ ClearCommands' = ClearCommands
  BY <1>1, ListsFixed
<1>6. /\ keeper = "none" /\ child = NoCommand /\ cancelled = FALSE
      /\ keep_thread_running = FALSE
  BY <1>0, <1>1 DEF Control
<1>7. /\ chain' \in [Index -> {"absent", "empty", "drop"}] /\ input' \in [Index -> Nat]
      /\ fails' \in Nat /\ fails' >= fails /\ fails \in Nat
      /\ chain \in [Index -> {"absent", "empty", "drop"}] /\ input \in [Index -> Nat]
      /\ \A j \in Index : j # c.i => chain'[j] = chain[j] /\ input'[j] = input[j]
  BY <1>0, <1>1 DEF Keeps, Types
<1>8. Types'
  <2>1. main' \in {"init", "run", "clear", "exited"}
    BY <1>1 DEF Exit
  <2> QED
    BY <1>0, <1>1, <1>7, <2>1 DEF Types
<1>9. Unused'
  BY <1>0, <1>1, <1>4, <1>7 DEF Unused, Index
<1>10. Renewing' /\ Serving'
  <2>1. main' # "run"
    BY <1>1 DEF Exit
  <2> QED
    BY <1>1, <1>6, <2>1 DEF Renewing, Serving
<1>11. Clean' => Clean /\ fails' = fails
  BY <1>1, <1>7 DEF Clean
<1>12. CASE main' = "init" /\ InitDone' = q + 1 /\ Suffix(todo', InitCommands)
  <2>1. Control'
    BY <1>1, <1>2, <1>5, <1>6, <1>12 DEF Control
  <2>2. Clearing' /\ Exited'
    BY <1>12 DEF Clearing, Exited
  <2>3. /\ c.op # "A" => input'[c.i] <= input[c.i]
        /\ c.op = "A" => input'[c.i] <= input[c.i] + 1
        /\ c.i \in Index /\ input[c.i] \in Nat /\ input'[c.i] \in Nat
    BY <1>1, <1>7 DEF Touches, Command
  <2>4. AtMostOne'
    <3>1. SUFFICES ASSUME fails' <= 1, NEW j \in Index PROVE input'[j] <= 1
      BY DEF AtMostOne
    <3>2. fails <= 1 /\ \A k \in Index : input[k] <= 1 /\ input[k] \in Nat
      BY <1>0, <1>7, <3>1 DEF AtMostOne
    <3>3. CASE j # c.i
      BY <1>7, <3>2, <3>3
    <3>4. CASE j = c.i /\ c.op # "A"
      BY <2>3, <3>2, <3>4
    <3>5. CASE j = c.i /\ c.op = "A"
      <4>1. input[c.i] = 0 \/ fails >= 2
        <5>1. CASE mode = "gen_add"
          <6>1. q = 5 /\ c.i = 0
            BY <1>3, <1>4, <3>5, <5>1
          <6> QED
            BY <1>0, <1>1, <1>3, <5>1, <6>1 DEF Adding, Removed
        <5>2. CASE mode # "gen_add"
          <6>1. \/ q = 3 /\ c.i = 0
                \/ q = 7 /\ c.i = 1 /\ mode = "keep"
            BY <1>3, <1>4, <3>5, <5>2
          <6> QED
            BY <1>0, <1>1, <1>3, <5>2, <6>1 DEF Installing
        <5> QED
          BY <5>1, <5>2
      <4>2. input[c.i] = 0
        BY <1>7, <3>2, <4>1
      <4> QED
        BY <2>3, <3>5, <4>2
    <3> QED
      BY <3>3, <3>4, <3>5
  <2>5. Adding'
    <3>1. SUFFICES ASSUME mode = "gen_add"
                   PROVE  /\ Removed(0, q + 1)'
                          /\ Clean' => Made(0, q + 1)' /\ (q + 1 = 6 => InPlace(0)')
      BY <1>1, <1>12 DEF Adding, Removed, Made
    <3>2. /\ q \in 0 .. 5 /\ c.i = 0 /\ c.op = <<"N", "F", "I", "D", "D", "A">>[q + 1]
          /\ Removed(0, q) /\ (Clean => Made(0, q) /\ (q = 6 => InPlace(0)))
      BY <1>0, <1>1, <1>3, <1>4, <3>1 DEF Adding
    <3>3. Touches(c)
      BY <1>1
    <3>4. /\ input[0] \in Nat /\ input'[0] \in Nat
          /\ chain[0] \in {"absent", "empty", "drop"}
          /\ chain'[0] \in {"absent", "empty", "drop"}
      BY <1>7 DEF Index
    <3>5. Removed(0, q + 1)'
      <4>1. CASE q \notin {3, 4}
        BY <3>2, <4>1 DEF Removed
      <4>2. CASE q = 3
        BY <1>0, <1>7, <3>2, <3>3, <3>4, <4>2 DEF Removed, Touches, AtMostOne, Index
      <4>3. CASE q = 4
        <5>1. c.op = "D" /\ (input[0] = 0 \/ fails >= 1)
          BY <3>2, <4>3 DEF Removed
        <5>2. CASE fails >= 2
          BY <1>7, <4>3, <5>2 DEF Removed
        <5>3. CASE fails < 2
          <6>1. input[0] <= 1
            BY <1>0, <1>7, <5>3 DEF AtMostOne, Index
          <6>2. /\ input'[0] <= input[0]
                /\ input'[0] = 0 \/ fails' >= fails + 1
            BY <3>2, <3>3, <5>1, <6>1 DEF Touches
          <6> QED
            BY <1>7, <3>4, <4>3, <5>1, <6>2 DEF Removed
        <5> QED
          BY <1>7, <5>2, <5>3
      <4> QED
        BY <3>2, <4>1, <4>2, <4>3
    <3>6. ASSUME Clean' PROVE Made(0, q + 1)' /\ (q + 1 = 6 => InPlace(0)')
      <4>1. Clean /\ fails' = fails /\ fails = 0
        BY <1>11, <3>6 DEF Clean
      <4> QED
        BY <3>2, <3>3, <3>4, <4>1 DEF Touches, Made, InPlace, Removed
    <3> QED
      BY <3>5, <3>6
  <2>6. Installing'
    <3>1. SUFFICES ASSUME mode # "gen_add"
                   PROVE  /\ q + 1 < 4 => input'[0] = 0
                          /\ Clean' => Made(0, q + 1)' /\ (q + 1 >= 4 => InPlace(0)')
                          /\ mode = "keep" =>
                                /\ q + 1 < 8 => input'[1] = 0
                                /\ Clean' => /\ Made(1, q + 1 - 4)'
                                             /\ q + 1 >= 8 => InPlace(1)'
      BY <1>1, <1>12 DEF Installing, Made
    <3>2. /\ q < 4 => input[0] = 0
          /\ Clean => Made(0, q) /\ (q >= 4 => InPlace(0))
          /\ mode = "keep" =>
                /\ q < 8 => input[1] = 0
                /\ Clean => Made(1, q - 4) /\ (q >= 8 => InPlace(1))
      BY <1>0, <1>1, <1>3, <3>1 DEF Installing
    <3>3. Touches(c)
      BY <1>1
    <3>4. /\ input \in [Index -> Nat] /\ input' \in [Index -> Nat]
          /\ 0 \in Index /\ 1 \in Index
      BY <1>7 DEF Index
    <3>5. Clean' => Clean /\ fails' = fails
      BY <1>11
    <3>6. CASE q \in 0 .. 3
      <4>1. c.i = 0 /\ c.op = <<"N", "F", "I", "A">>[q + 1]
        BY <1>4, <3>1, <3>6
      <4>2. chain'[1] = chain[1] /\ input'[1] = input[1]
        BY <1>7, <3>4, <4>1
      <4>3. q + 1 < 4 => input'[0] = 0
        BY <3>2, <3>3, <3>6, <4>1 DEF Touches
      <4>4. ASSUME Clean' PROVE Made(0, q + 1)' /\ (q + 1 >= 4 => InPlace(0)')
        BY <3>2, <3>3, <3>4, <3>5, <3>6, <4>1, <4>4 DEF Touches, Made, InPlace
      <4>5. mode = "keep" => input'[1] = 0 /\ Made(1, q + 1 - 4)' /\ ~(q + 1 >= 8)
        BY <3>2, <3>6, <4>2 DEF Made
      <4> QED
        BY <4>3, <4>4, <4>5
    <3>7. CASE q \in 4 .. 7
      <4>1. mode = "keep" /\ c.i = 1
        BY <1>3, <1>4, <3>1, <3>7
      <4>2. PICK p \in 0 .. 3 : p = q - 4 /\ p + 1 = q + 1 - 4
        BY <3>7
      <4>3. c.op = <<"N", "F", "I", "A">>[p + 1]
        BY <1>4, <3>7, <4>1, <4>2
      <4>4. chain'[0] = chain[0] /\ input'[0] = input[0]
        BY <1>7, <3>4, <4>1
      <4>5. ASSUME Clean' PROVE Made(0, q + 1)' /\ InPlace(0)'
        BY <3>2, <3>5, <3>7, <4>4, <4>5 DEF Made, InPlace
      <4>6. q + 1 < 8 => input'[1] = 0
        BY <3>2, <3>3, <3>7, <4>1, <4>2, <4>3 DEF Touches
      <4>7. ASSUME Clean' PROVE Made(1, p + 1)' /\ (p + 1 >= 4 => InPlace(1)')
        <5>1. Made(1, p) /\ input[1] = 0 /\ fails' = fails
          BY <3>2, <3>5, <3>7, <4>1, <4>2, <4>7
        <5> QED
          BY <3>3, <3>4, <4>1, <4>3, <5>1 DEF Touches, Made, InPlace
      <4>8. q + 1 >= 8 => p + 1 >= 4
        BY <4>2, <3>7
      <4> QED
        BY <3>7, <4>1, <4>2, <4>5, <4>6, <4>7, <4>8
    <3> QED
      BY <1>3, <3>6, <3>7
  <2> QED
    BY <1>8, <1>9, <1>10, <2>1, <2>2, <2>4, <2>5, <2>6 DEF IInv
<1>13. CASE /\ Exit /\ c.op = "A" /\ UNCHANGED <<chain, input>>
            /\ fails' = fails => chain[c.i] = "absent"
  <2>1. /\ cancelled' = keep_thread_running
        /\ mode = "gen_add" => main' = "exited"
        /\ mode # "gen_add" =>
              main' = "clear" /\ Suffix(todo', ClearCommands) /\ ClearDone' = 0
    BY <1>1, <1>13, ExitEffect
  <2>2. Control'
    BY <1>1, <1>2, <1>5, <1>6, <2>1 DEF Control
  <2>3. AtMostOne'
    BY <1>0, <1>7, <1>13 DEF AtMostOne
  <2>4. Adding' /\ Installing'
    BY <2>1 DEF Adding, Installing
  <2>5. Clearing'
    BY <2>1 DEF Clearing
  <2>6. Exited'
    <3>1. SUFFICES ASSUME mode = "gen_add", Clean' PROVE FALSE
      BY <1>1, <2>1 DEF Exited
    <3>2. q = 5 /\ c.i = 0
      BY <1>3, <1>4, <1>13, <3>1
    <3>3. Clean /\ chain[0] = "absent"
      BY <1>11, <1>13, <3>1, <3>2
    <3> QED
      BY <1>0, <1>1, <1>3, <3>1, <3>2, <3>3 DEF Adding, Made
  <2> QED
    BY <1>8, <1>9, <1>10, <2>2, <2>3, <2>4, <2>5, <2>6 DEF IInv
<1> QED
  BY <1>1, <1>3, <1>12, <1>13

(* One command of clear_iptables_rule.                                     *)
LEMMA StepClearCommand == ASSUME IInv, ClearCommand PROVE IInv'
<1> DEFINE c == ClearCommands[ClearDone + 1]
<1>0. /\ Types /\ Control /\ AtMostOne /\ Unused /\ Adding
      /\ Installing /\ Renewing /\ Serving /\ Clearing /\ Exited
  BY DEF IInv
<1>1. /\ main = "clear" /\ main' = "clear"
      /\ ClearDone \in 0 .. Len(ClearCommands) - 1 /\ c \in Command
      /\ Touches(c) /\ Keeps(c)
      /\ ClearDone' = ClearDone + 1 /\ Suffix(todo', ClearCommands)
      /\ UNCHANGED <<mode, keeper, keep_todo, iptables_rule_keep_index, child, flushes>>
  BY <1>0, ClearEffect
<1>2. UNCHANGED <<keep_thread_running, cancelled>>
  BY DEF ClearCommand, keep
<1>3. c.op # "A"
  <2>1. PICK k \in 1 .. Len(ClearCommands) : k = ClearDone + 1
    BY <1>1, ClearList
  <2> QED
    BY <2>1, ClearList
<1>4. mode # "keep" =>
         ClearDone \in 0 .. 2 /\ c.i = 0 /\ c.op = <<"D", "F", "X">>[ClearDone + 1]
  <2>1. SUFFICES ASSUME mode # "keep"
                 PROVE  ClearDone \in 0 .. 2 /\ c.i = 0 /\ c.op = <<"D", "F", "X">>[ClearDone + 1]
    OBVIOUS
  <2>2. Len(ClearCommands) - 1 = 2
    BY <2>1, ClearList
  <2>3. PICK q \in 0 .. 2 : q = ClearDone
    BY <1>1, <2>2
  <2>4. q + 1 \in 1 .. 3
    OBVIOUS
  <2> QED
    BY <2>1, <2>3, <2>4, ClearList
<1> HIDE DEF c
<1>5. InitCommands' = InitCommands /\ ClearCommands' = ClearCommands
  BY <1>1, ListsFixed
<1>6. /\ chain' \in [Index -> {"absent", "empty", "drop"}] /\ input' \in [Index -> Nat]
      /\ fails' \in Nat /\ fails' >= fails /\ fails \in Nat
      /\ chain \in [Index -> {"absent", "empty", "drop"}] /\ input \in [Index -> Nat]
      /\ \A j \in Index : j # c.i => chain'[j] = chain[j] /\ input'[j] = input[j]
      /\ c.i \in Index
  BY <1>0, <1>1 DEF Keeps, Types, Command
<1>7. \A j \in Index : input'[j] <= input[j] /\ input[j] \in Nat /\ input'[j] \in Nat
  <2>1. input'[c.i] <= input[c.i]
    BY <1>1, <1>3 DEF Touches
  <2> QED
    BY <1>6, <2>1
<1>8. Types'
  BY <1>0, <1>1, <1>6 DEF Types
<1>9. Control'
  BY <1>0, <1>1, <1>2, <1>5 DEF Control, KeepList
<1>10. AtMostOne'
  <2>1. fails' <= 1 => fails <= 1
    BY <1>6
  <2>2. ASSUME NEW j \in Index, input[j] <= 1 PROVE input'[j] <= 1
    BY <1>7, <2>2
  <2> QED
    BY <1>0, <2>1, <2>2 DEF AtMostOne
<1>11. Unused'
  BY <1>0, <1>1, <1>4, <1>6 DEF Unused, Index
<1>12. Adding' /\ Installing' /\ Serving' /\ Exited'
  BY <1>1 DEF Adding, Installing, Serving, Exited
<1>13. Renewing'
  <2>1. KeepDone' = KeepDone
    BY <1>1 DEF KeepDone
  <2>2. ASSUME NEW i \in Index, NEW q, Removed(i, q) PROVE Removed(i, q)'
    BY <1>6, <1>7, <2>2 DEF Removed
  <2>3. iptables_rule_keep_index \in Index /\ main' # "run"
    BY <1>0, <1>1 DEF Types
  <2>4. Removed(iptables_rule_keep_index, KeepDone) =>
           Removed(iptables_rule_keep_index, KeepDone)'
    BY <1>1, <2>1, <2>2, <2>3 DEF Removed
  <2> QED
    BY <1>0, <1>1, <2>3, <2>4 DEF Renewing
<1>14. Clearing'
  <2>1. SUFFICES ASSUME mode # "keep", fails' = 0
                 PROVE  /\ ClearDone + 1 >= 1 => input'[0] = 0
                        /\ ClearDone + 1 >= 2 => chain'[0] # "drop"
                        /\ ClearDone + 1 >= 3 => chain'[0] = "absent"
    BY <1>1 DEF Clearing
  <2>2. PICK q \in 0 .. 2 : q = ClearDone /\ c.op = <<"D", "F", "X">>[q + 1] /\ c.i = 0
    BY <1>4, <2>1
  <2>3. fails = 0 /\ fails' = fails
    BY <1>6, <2>1
  <2>4. /\ q >= 1 => input[0] = 0
        /\ q >= 2 => chain[0] # "drop"
    BY <1>0, <1>1, <2>1, <2>2, <2>3 DEF Clearing
  <2>5. Touches(c) /\ input[0] \in Nat /\ input'[0] \in Nat
    BY <1>1, <1>7 DEF Index
  <2>6. CASE q = 0
    <3>1. input[0] <= 1
      BY <1>0, <2>3 DEF AtMostOne, Index
    <3>2. input'[0] = 0 \/ fails' >= fails + 1
      BY <2>2, <2>5, <2>6, <3>1 DEF Touches
    <3> QED
      BY <2>1, <2>2, <2>3, <2>6, <3>2
  <2>7. CASE q = 1
    BY <2>2, <2>3, <2>4, <2>5, <2>7 DEF Touches
  <2>8. CASE q = 2
    BY <2>2, <2>3, <2>4, <2>5, <2>8 DEF Touches
  <2> QED
    BY <2>6, <2>7, <2>8
<1> QED
  BY <1>8, <1>9, <1>10, <1>11, <1>12, <1>13, <1>14 DEF IInv

(* One command of keep_iptables_rule, perhaps of a thread that is gone.    *)
LEMMA StepChildRuns == ASSUME IInv, ChildRuns PROVE IInv'
<1> DEFINE c == On(iptables_rule_keep_index, KeepCommands)[KeepDone + 1]
           i == iptables_rule_keep_index
<1>0. /\ Types /\ Control /\ AtMostOne /\ Unused /\ Adding
      /\ Installing /\ Renewing /\ Serving /\ Clearing /\ Exited
  BY DEF IInv
<1>1. /\ KeepDone \in 0 .. 5 /\ c \in Command /\ c.i = i
      /\ c.op = <<"N", "F", "I", "D", "D", "A">>[KeepDone + 1]
      /\ Touches(c) /\ Keeps(c)
      /\ child # NoCommand /\ child' = NoCommand
      /\ keeper = "wait" => KeepDone' = KeepDone + 1
      /\ mode = "keep" /\ main # "init"
      /\ UNCHANGED <<mode, main, todo, keeper, keep_todo, iptables_rule_keep_index, flushes,
                     cancelled>>
  BY <1>0, ChildEffect
<1> HIDE DEF c
<1>2. keep_thread_running' = keep_thread_running /\ i \in Index
  BY <1>0 DEF ChildRuns, Types
<1>3. InitCommands' = InitCommands /\ ClearCommands' = ClearCommands
  BY <1>1, ListsFixed
<1>4. /\ chain' \in [Index -> {"absent", "empty", "drop"}] /\ input' \in [Index -> Nat]
      /\ fails' \in Nat /\ fails' >= fails /\ fails \in Nat
      /\ chain \in [Index -> {"absent", "empty", "drop"}] /\ input \in [Index -> Nat]
      /\ \A j \in Index : j # i => chain'[j] = chain[j] /\ input'[j] = input[j]
  BY <1>0, <1>1 DEF Keeps, Types
<1>5. PICK q \in 0 .. 5 : q = KeepDone /\ c.op = <<"N", "F", "I", "D", "D", "A">>[q + 1]
  BY <1>1
<1>6. /\ Removed(i, q)
      /\ main = "run" /\ Clean => Made(i, q)
  BY <1>0, <1>1, <1>5 DEF Renewing
<1>7. Types'
  BY <1>0, <1>1, <1>4 DEF Types
<1>8. Control'
  BY <1>0, <1>1, <1>2, <1>3 DEF Control, KeepList
<1>9. Unused' /\ Adding' /\ Installing' /\ Clearing'
  BY <1>1 DEF Unused, Adding, Installing, Clearing
<1>10. Exited'
  BY <1>1 DEF Exited
<1>11. /\ c.op # "A" => input'[i] <= input[i]
       /\ c.op = "A" => input'[i] <= input[i] + 1
       /\ input[i] \in Nat /\ input'[i] \in Nat /\ Touches(c)
  BY <1>1, <1>2, <1>4 DEF Touches
<1>12. AtMostOne'
  <2>1. SUFFICES ASSUME fails' <= 1, NEW j \in Index PROVE input'[j] <= 1
    BY DEF AtMostOne
  <2>2. fails <= 1 /\ \A k \in Index : input[k] <= 1 /\ input[k] \in Nat
    BY <1>0, <1>4, <2>1 DEF AtMostOne
  <2>3. CASE j # i
    BY <1>4, <2>2, <2>3
  <2>4. CASE j = i /\ c.op # "A"
    BY <1>2, <1>11, <2>2, <2>4
  <2>5. CASE j = i /\ c.op = "A"
    <3>1. q = 5
      BY <1>5, <2>5
    <3>2. input[i] = 0
      BY <1>4, <1>6, <2>2, <3>1 DEF Removed
    <3> QED
      BY <1>11, <2>5, <3>2
  <2> QED
    BY <2>3, <2>4, <2>5
<1>13. Serving'
  <2>1. Clean' => Clean
    BY <1>1, <1>4 DEF Clean
  <2>2. main = "run" => keeper = "wait"
    BY <1>0, <1>1 DEF Control
  <2> QED
    BY <1>0, <1>1, <1>4, <2>1, <2>2 DEF Serving, InPlace
<1>14. Renewing'
  <2>1. SUFFICES ASSUME keeper = "wait"
                 PROVE  /\ Removed(i, q + 1)'
                        /\ main = "run" /\ Clean' =>
                              Made(i, q + 1)' /\ (q + 1 = 6 => InPlace(i)')
    <3>1. keeper' \in {"popen", "wait"} \/ child' # NoCommand => keeper = "wait"
      BY <1>0, <1>1 DEF Control
    <3> QED
      BY <1>1, <1>5, <3>1 DEF Renewing, Removed, Made, InPlace
  <2>2. Removed(i, q + 1)'
    <3>1. CASE q \notin {3, 4}
      BY <3>1 DEF Removed
    <3>2. CASE q = 3
      <4>1. CASE fails >= 1
        BY <1>4, <3>2, <4>1 DEF Removed
      <4>2. CASE fails = 0
        <5>1. input[i] <= 1
          BY <1>0, <1>2, <4>2 DEF AtMostOne
        <5>2. input'[i] = 0 \/ fails' >= fails + 1
          BY <1>1, <1>5, <1>11, <3>2, <5>1 DEF Touches
        <5> QED
          BY <1>1, <1>4, <3>2, <4>2, <5>2 DEF Removed
      <4> QED
        BY <1>4, <4>1, <4>2
    <3>3. CASE q = 4
      <4>1. c.op = "D" /\ (input[i] = 0 \/ fails >= 1)
        BY <1>5, <1>6, <3>3 DEF Removed
      <4>2. CASE fails >= 2
        BY <1>4, <3>3, <4>2 DEF Removed
      <4>3. CASE fails < 2
        <5>1. input[i] <= 1
          BY <1>0, <1>2, <1>4, <4>3 DEF AtMostOne
        <5>2. /\ input'[i] <= input[i]
              /\ input'[i] = 0 \/ fails' >= fails + 1
          BY <1>1, <1>11, <4>1, <5>1 DEF Touches
        <5> QED
          BY <1>1, <1>4, <1>11, <3>3, <4>1, <5>2 DEF Removed
      <4> QED
        BY <1>4, <4>2, <4>3
    <3> QED
      BY <3>1, <3>2, <3>3
  <2>3. ASSUME main = "run", Clean' PROVE Made(i, q + 1)' /\ (q + 1 = 6 => InPlace(i)')
    <3>1. Clean /\ fails' = fails /\ fails = 0
      BY <1>1, <1>4, <2>3 DEF Clean
    <3>2. /\ chain[i] \in {"absent", "empty", "drop"}
          /\ chain'[i] \in {"absent", "empty", "drop"}
          /\ i' = i
      BY <1>1, <1>2, <1>4
    <3>3. Made(i, q) /\ Removed(i, q)
      BY <1>6, <2>3, <3>1
    <3> QED
      BY <1>1, <1>5, <1>11, <3>1, <3>2, <3>3 DEF Touches, Made, InPlace, Removed
  <2> QED
    BY <2>2, <2>3
<1> QED
  BY <1>7, <1>8, <1>9, <1>10, <1>12, <1>13, <1>14 DEF IInv

(* Another program flushes the firewall.                                   *)
LEMMA StepFlush == ASSUME IInv, Flush PROVE IInv'
<1>0. /\ Types /\ Control /\ AtMostOne /\ Unused /\ Adding
      /\ Installing /\ Renewing /\ Serving /\ Clearing /\ Exited
  BY DEF IInv
<1>1. /\ flushes' = flushes + 1 /\ flushes' \in Nat
      /\ chain' \in [Index -> {"absent", "empty", "drop"}] /\ input' \in [Index -> Nat]
      /\ \A i \in Index : chain'[i] = "absent" /\ input'[i] = 0
      /\ UNCHANGED <<mode, main, todo, keeper, keep_todo, iptables_rule_keep_index, child,
                     keep_thread_running, cancelled, fails>>
  BY <1>0 DEF Flush, keep, Types
<1>2. 0 \in Index /\ 1 \in Index /\ ~Clean'
  BY <1>0, <1>1 DEF Index, Clean, Types
<1>3. InitCommands' = InitCommands /\ ClearCommands' = ClearCommands
  BY <1>1, ListsFixed
<1>4. Types'
  BY <1>0, <1>1 DEF Types
<1>5. Control'
  BY <1>0, <1>1, <1>3 DEF Control, KeepList
<1>6. AtMostOne' /\ Unused'
  BY <1>1, <1>2 DEF AtMostOne, Unused
<1>7. Adding' /\ Installing' /\ Serving'
  BY <1>1, <1>2 DEF Adding, Installing, Serving, Removed
<1>8. Renewing'
  BY <1>0, <1>1, <1>2 DEF Renewing, Removed, Types
<1>9. Clearing' /\ Exited'
  BY <1>1, <1>2 DEF Clearing, Exited
<1> QED
  BY <1>4, <1>5, <1>6, <1>7, <1>8, <1>9 DEF IInv

-----------------------------------------------------------------------------
(* The invariant, and what follows from it.                                *)

(* Before the first command nothing is installed.                          *)
LEMMA InitIInv == ASSUME Init PROVE IInv
<1>1. /\ \A i \in Index : chain[i] = "absent" /\ input[i] = 0
      /\ 0 \in Index /\ 1 \in Index
      /\ chain \in [Index -> {"absent", "empty", "drop"}] /\ input \in [Index -> Nat]
      /\ main = "init" /\ todo = InitCommands /\ keeper = "none"
      /\ child = NoCommand /\ fails = 0 /\ flushes = 0
  BY DEF Init, Index
<1>2. InitCommands \in Seq(Command) /\ Suffix(todo, InitCommands)
  BY <1>1, InitList, WholeSuffix
<1>3. InitDone = 0
  <2>1. PICK n \in Nat : n = Len(InitCommands)
    BY <1>2
  <2>2. n - n = 0
    OBVIOUS
  <2> QED
    BY <1>1, <2>1, <2>2 DEF InitDone
<1>4. Types
  BY <1>1 DEF Init, Types, Index
<1>5. Control
  BY <1>1, <1>2 DEF Init, Control
<1>6. AtMostOne /\ Unused /\ Renewing /\ Serving /\ Clearing /\ Exited
  BY <1>1 DEF AtMostOne, Unused, Renewing, Serving, Clearing, Exited
<1>7. Adding /\ Installing
  BY <1>1, <1>3 DEF Adding, Installing, Made, Removed
<1> QED
  BY <1>4, <1>5, <1>6, <1>7 DEF IInv

(* Every step of the program and of its surroundings keeps the invariant.  *)
LEMMA StepIInv == ASSUME IInv, [Next]_vars PROVE IInv'
<1>1. CASE Main
  BY <1>1, StepInitCommand, StepInstalled, StepGenAdded, StepRunAgain, StepSignal, StepQuit,
     StepClearCommand, StepTerminate DEF Main
<1>2. CASE Keeper
  BY <1>2, StepKeepWakes, StepKeepStarts, StepChildRuns, StepKeepContinues, StepKeepEnds,
     StepKeepCancelled DEF Keeper
<1>3. CASE Flush
  BY <1>3, StepFlush
<1>4. CASE UNCHANGED vars
  <2>1. UNCHANGED <<mode, chain, input, main, todo, keeper, keep_todo, child,
                    iptables_rule_keep_index, keep_thread_running, cancelled, fails, flushes>>
    BY <1>4 DEF vars, firewall, keep, bounds
  <2>2. InitCommands' = InitCommands /\ ClearCommands' = ClearCommands
    BY <2>1, ListsFixed
  <2>3. InitDone' = InitDone /\ ClearDone' = ClearDone /\ KeepDone' = KeepDone /\ Clean' = Clean
    BY <2>1, <2>2 DEF InitDone, ClearDone, KeepDone, Clean
  <2>4. /\ Types /\ Control /\ AtMostOne /\ Unused /\ Adding
        /\ Installing /\ Renewing /\ Serving /\ Clearing /\ Exited
    BY DEF IInv
  <2>5. Types' /\ Control' /\ AtMostOne' /\ Unused'
    BY <2>1, <2>2, <2>4 DEF Types, Control, KeepList, AtMostOne, Unused
  <2>6. Adding' /\ Installing'
    BY <2>1, <2>3, <2>4 DEF Adding, Installing, Made, Removed, InPlace
  <2>7. Renewing' /\ Serving' /\ Clearing' /\ Exited'
    BY <2>1, <2>3, <2>4 DEF Renewing, Serving, Clearing, Exited, Made, Removed, InPlace
  <2> QED
    BY <2>5, <2>6, <2>7 DEF IInv
<1> QED
  BY <1>1, <1>2, <1>3, <1>4 DEF Next

(* The inductive invariant holds always: how far the commands of           *)
(* iptables_rule_init, keep_iptables_rule and clear_iptables_rule are, and *)
(* what each has left behind by then.                                      *)
THEOREM SpecIInv == Spec => []IInv
  BY InitIInv, StepIInv, PTL DEF Spec

(* What the invariant says of a running and of an ended process.           *)
LEMMA IInvProtected == ASSUME IInv PROVE Protected
<1>1. Types /\ AtMostOne /\ Serving
  BY DEF IInv
<1>2. ASSUME main = "run", fails = 0, flushes = 0 PROVE Dropping
  <2>1. Clean
    BY <1>2 DEF Clean
  <2>2. \E j \in Index : InPlace(j)
    BY <1>1, <1>2, <2>1 DEF Serving, Types, Index
  <2> QED
    BY <2>2 DEF Dropping, InPlace
<1> QED
  BY <1>1, <1>2 DEF Protected, AtMostOne

LEMMA IInvCleanExit == ASSUME IInv PROVE CleanExit
<1>1. Unused /\ Exited
  BY DEF IInv
<1> QED
  BY <1>1 DEF CleanExit, Ended, NothingLeft, Index, Unused, Exited, Clean, InPlace

(* While udp2raw runs and nobody interferes the tunnel's packets are       *)
(* dropped in the middle of a renewal too, and one failed command never    *)
(* leaves a second copy of a rule: whatever the number of renewals.        *)
THEOREM AlwaysProtected == Spec => []Protected
  BY IInvProtected, SpecIInv, PTL

(* myexit leaves no rule and no chain of -a, at whatever point it was      *)
(* called; --gen-add leaves exactly one, however often it is run.          *)
THEOREM AlwaysCleanExit == Spec => []CleanExit
  BY IInvCleanExit, SpecIInv, PTL
=============================================================================
