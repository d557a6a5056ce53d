------------------------------ MODULE Options -------------------------------
(***************************************************************************)
(* From the command line and the configuration file to the settings        *)
(* (misc.cpp): the extraction of --conf-file, the checks of process_arg,   *)
(* getopt_long, the meaning of each option, and what iptables_rule makes   *)
(* of the five options about rules.  Linux build.                          *)
(*                                                                         *)
(* A word is an option, [opt, short], or a value, [val, n], n being the    *)
(* number sscanf finds in it or none.  Each long option of which -x is the *)
(* short form has x as its name here.                                      *)
(***************************************************************************)
EXTENDS Integers, FiniteSets, SequencesExt

none == -999
IsOption(w) == "opt" \in DOMAIN w
Value(w) == IF IsOption(w) THEN [val |-> "-", n |-> none] ELSE w

WithArgument ==
    {"l", "r", "k", "source-ip", "source-port", "raw-mode", "auth-mode", "cipher-mode",
     "log-level", "lower-level", "sock-buf", "seq-mode", "random-drop", "fifo", "hb-mode",
     "hb-len", "mtu-warn", "max-rst-to-show", "max-rst-allowed", "set-ttl", "dev", "conf-file"}
Flags ==
    {"s", "c", "h", "a", "g", "gen-add", "keep-rule", "clear", "easy-tcp", "fix-gro", "debug",
     "disable-anti-replay", "disable-bpf", "disable-color", "enable-color", "log-position",
     "force-sock-buf", "wait-lock", "retry-on-error", "simple-rule", "dns-resolve"}
all_options == WithArgument \cup Flags

\* The values accepted for a number; what is not a number leaves the default.
Accepted ==
    [o \in {"sock-buf", "seq-mode", "random-drop", "hb-mode", "hb-len", "mtu-warn",
            "max-rst-to-show", "max-rst-allowed", "set-ttl", "log-level"} |->
        CASE o = "sock-buf" -> 10 .. 10 * 1024
          [] o = "seq-mode" -> 0 .. 4
          [] o = "random-drop" -> 0 .. 10000
          [] o = "hb-mode" -> 0 .. 1
          [] o = "hb-len" -> 0 .. 1500
          [] o = "mtu-warn" -> Nat \ {0}
          [] o \in {"max-rst-to-show", "max-rst-allowed"} -> Nat \cup {-1}
          [] o = "set-ttl" -> 0 .. 255
          [] o = "log-level" -> 0 .. 6]

\* address_t::from_str of the values used; others end the program.
Addresses ==
    [a \in {"v4:80", "v4:22", "v6:80"} |->
        [ver |-> IF a = "v6:80" THEN 6 ELSE 4, port |-> IF a = "v4:22" THEN 22 ELSE 80]]

Default ==
    [program_mode |-> "none", local |-> "none", remote |-> "none", raw_mode |-> "faketcp",
     use_tcp_dummy_socket |-> FALSE, auth_mode |-> "md5", disable_anti_replay |-> FALSE,
     cipher_mode |-> "aes128cbc", aes128cfb_old |-> FALSE, lower_level |-> "off",
     numbers |-> << >>, flags |-> {}, raw_ip_version |-> 0, rule |-> "none"]
Exit == [exit |-> TRUE]
Exited(c) == "exit" \in DOMAIN c

With(f, k, v) == [x \in DOMAIN f \cup {k} |-> IF x = k THEN v ELSE f[x]]

-----------------------------------------------------------------------------
(* process_arg *)

\* Mutant: the mode without authentication leaves the replay window on.
Mode_KeepReplay(c, o, v) ==
    CASE o = "raw-mode" /\ v \in {"easyfaketcp", "easy-faketcp", "easy_faketcp"} ->
            [c EXCEPT !.raw_mode = "faketcp", !.use_tcp_dummy_socket = TRUE]
      [] o = "raw-mode" /\ v \in {"faketcp", "udp", "icmp"} -> [c EXCEPT !.raw_mode = v]
      [] o = "auth-mode" /\ v \in {"none", "md5", "crc32", "simple", "hmac_sha1"} ->
            [c EXCEPT !.auth_mode = v]
      [] o = "cipher-mode" /\ v = "aes128cfb_0" ->
            [c EXCEPT !.cipher_mode = "aes128cfb", !.aes128cfb_old = TRUE]
      [] o = "cipher-mode" /\ v \in {"none", "aes128cbc", "xor", "aes128cfb"} ->
            [c EXCEPT !.cipher_mode = v]
      [] OTHER -> Exit

Mode(c, o, v) ==
    CASE o = "raw-mode" /\ v \in {"easyfaketcp", "easy-faketcp", "easy_faketcp"} ->
            [c EXCEPT !.raw_mode = "faketcp", !.use_tcp_dummy_socket = TRUE]
      [] o = "raw-mode" /\ v \in {"faketcp", "udp", "icmp"} -> [c EXCEPT !.raw_mode = v]
      [] o = "auth-mode" /\ v \in {"none", "md5", "crc32", "simple", "hmac_sha1"} ->
            [c EXCEPT !.auth_mode = v, !.disable_anti_replay = @ \/ v = "none"]
      [] o = "cipher-mode" /\ v = "aes128cfb_0" ->
            [c EXCEPT !.cipher_mode = "aes128cfb", !.aes128cfb_old = TRUE]
      [] o = "cipher-mode" /\ v \in {"none", "aes128cbc", "xor", "aes128cfb"} ->
            [c EXCEPT !.cipher_mode = v]
      [] OTHER -> Exit

\* process_lower_level_arg: "auto", or something with a #.
LowerLevel(c, v) ==
    IF v \in {"auto", "eth0#mac"} THEN [c EXCEPT !.lower_level = v] ELSE Exit

Number(c, o, n) ==
    IF n = none THEN (IF o = "sock-buf" THEN Exit ELSE c)
    ELSE IF n \in Accepted[o] THEN [c EXCEPT !.numbers = With(@, o, n)] ELSE Exit

Endpoint(c, o, v) ==
    IF v \notin DOMAIN Addresses \/ Addresses[v].port = 22 THEN Exit
    ELSE IF o = "l" THEN [c EXCEPT !.local = v] ELSE [c EXCEPT !.remote = v]

Program(c, mode) ==
    IF c.program_mode = "none" THEN [c EXCEPT !.program_mode = mode] ELSE Exit

\* The switch on one option with its argument.
Apply(c, o, w) ==
    LET v == Value(w).val
    IN  CASE o \in {"l", "r"} -> Endpoint(c, o, v)
          [] o = "s" -> Program(c, "server")
          [] o = "c" -> Program(c, "client")
          [] o \in {"raw-mode", "auth-mode", "cipher-mode"} -> Mode(c, o, v)
          [] o = "lower-level" -> LowerLevel(c, v)
          [] o \in DOMAIN Accepted -> Number(c, o, Value(w).n)
          [] o = "easy-tcp" -> [c EXCEPT !.use_tcp_dummy_socket = TRUE]
          [] o = "disable-anti-replay" -> [c EXCEPT !.disable_anti_replay = TRUE]
          [] OTHER -> [c EXCEPT !.flags = @ \cup {o}]

\* getopt_long over the words: an option that needs an argument takes the next
\* word, whatever it is; other values are passed over.
Getopt(st, w) ==
    IF Exited(st.c) THEN st
    ELSE IF st.pending # "none" THEN [c |-> Apply(st.c, st.pending, w), pending |-> "none"]
    ELSE IF ~IsOption(w) THEN st
    ELSE IF w.opt \in WithArgument THEN [st EXCEPT !.pending = w.opt]
    ELSE [st EXCEPT !.c = Apply(st.c, w.opt, w)]

\* Words that begin with a dash are compared, arguments among them too.
UnknownOrTwice(words) ==
    \/ \E i \in DOMAIN words : IsOption(words[i]) /\ words[i].opt \notin all_options
    \/ \E i, j \in DOMAIN words :
          i < j /\ IsOption(words[i]) /\ IsOption(words[j]) /\ words[i].opt = words[j].opt

\* What iptables_rule does: remove all and exit, print or add and exit, or
\* install for the time it runs.
iptables_rule(flags) ==
    LET a == "a" \in flags /\ "g" \notin flags                 \* -g overrides -a
        g1 == "g" \in flags /\ "gen-add" \notin flags          \* --gen-add overrides -g
        g == g1 /\ ~("keep-rule" \in flags /\ ~a)              \* --keep-rule implies -a
        auto == a \/ "keep-rule" \in flags
    IN  IF "clear" \in flags THEN "clear"
        ELSE IF g THEN "print"
        ELSE IF "gen-add" \in flags THEN "gen-add"
        ELSE IF auto THEN (IF "keep-rule" \in flags THEN "keep" ELSE "auto")
        ELSE "none"

process_arg(words) ==
    LET end == FoldLeft(Getopt, [c |-> Default, pending |-> "none"], words)
        c == end.c
    IN  IF UnknownOrTwice(words) \/ Exited(c) \/ end.pending # "none" THEN Exit
        ELSE IF "none" \in {c.program_mode, c.local, c.remote} THEN Exit
        ELSE [c EXCEPT
                !.raw_ip_version = Addresses[IF c.program_mode = "client" THEN c.remote ELSE c.local].ver,
                !.rule = iptables_rule(c.flags)]

\* pre_process_arg: --conf-file and its argument are taken out of the command
\* line and the words of the file put behind the rest.  The test for a missing
\* argument (i == argc) is never true; the null pointer behind the last word is
\* read instead, and the program ends as well.
pre_process_arg(line, file) ==
    LET conf == {i \in DOMAIN line : IsOption(line[i]) /\ line[i].opt = "conf-file"}
        rest == [i \in DOMAIN line |-> IF i \in conf \/ i - 1 \in conf THEN << >> ELSE <<line[i]>>]
    IN  IF line = << >> \/ \E i \in DOMAIN line : IsOption(line[i]) /\ line[i].opt = "h" THEN Exit
        ELSE IF \E i \in conf : i = Len(line) \/ IsOption(line[i + 1]) THEN Exit
        ELSE IF Cardinality(conf) > 1 THEN Exit
        ELSE IF conf # {} /\ \E i \in DOMAIN file : IsOption(file[i]) /\ file[i].opt = "conf-file" THEN Exit
        ELSE process_arg(FlattenSeq(rest) \o (IF conf = {} THEN << >> ELSE file))

-----------------------------------------------------------------------------
(* What the options mean, as a set.  An item is an option with its         *)
(* argument, [opt, arg].                                                   *)

Words(items) == FlattenSeq([i \in DOMAIN items |->
    <<[opt |-> items[i].opt]>> \o (IF items[i].opt \in WithArgument THEN <<items[i].arg>> ELSE << >>)])

Priority(given) ==
    CASE "clear" \in given -> "clear"
      [] "clear" \notin given /\ "gen-add" \in given -> "gen-add"
      [] {"clear", "gen-add"} \cap given = {} /\ "keep-rule" \in given -> "keep"
      [] {"clear", "gen-add", "keep-rule"} \cap given = {} /\ "g" \in given -> "print"
      [] {"clear", "gen-add", "keep-rule", "g"} \cap given = {} /\ "a" \in given -> "auto"
      [] OTHER -> "none"

\* The settings do not depend on the order of the options, nor on which of them
\* are in the file and which on the command line: two programs given the same
\* options agree.  No option counts twice, and of the options about rules
\* --clear comes before --gen-add before --keep-rule before -g before -a.
SameMeaning(line, file) ==
    LET items  == line \o file
        given  == {items[i].opt : i \in DOMAIN items}
        Arg(o) == items[CHOOSE i \in DOMAIN items : items[i].opt = o].arg
        mode   == IF "raw-mode" \in given THEN Arg("raw-mode").val ELSE "faketcp"
        got    == pre_process_arg(Words(line) \o <<[opt |-> "conf-file"], [val |-> "file", n |-> none]>>,
                                  Words(file))
        refused ==
            \/ Cardinality(given) # Len(items) \/ ~({"l", "r"} \subseteq given)
            \/ ("s" \in given) = ("c" \in given)
            \/ \E o \in {"l", "r"} \cap given : Arg(o).val = "v4:22"
            \/ \E o \in DOMAIN Accepted \cap given :
                  IF Arg(o).n = none THEN o = "sock-buf" ELSE Arg(o).n \notin Accepted[o]
            \/ mode = "tcp"
    IN  IF refused THEN Exited(got)
        ELSE /\ ~Exited(got)
             /\ got.program_mode = IF "c" \in given THEN "client" ELSE "server"
             /\ <<got.local, got.remote>> = <<Arg("l").val, Arg("r").val>>
             /\ got.raw_ip_version = Addresses[Arg(IF "c" \in given THEN "r" ELSE "l").val].ver
             /\ got.raw_mode = (IF mode = "easyfaketcp" THEN "faketcp" ELSE mode)
             /\ got.use_tcp_dummy_socket <=> (mode = "easyfaketcp" \/ "easy-tcp" \in given)
             /\ got.disable_anti_replay <=>
                   \/ "disable-anti-replay" \in given
                   \/ "auth-mode" \in given /\ Arg("auth-mode").val = "none"
             /\ DOMAIN got.numbers = {o \in DOMAIN Accepted \cap given : Arg(o).n # none}
             /\ \A o \in DOMAIN got.numbers : got.numbers[o] = Arg(o).n
             /\ got.rule = Priority(given)
=============================================================================
