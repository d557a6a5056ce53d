----------------------------- MODULE MCStartup ------------------------------
(***************************************************************************)
(* The start, the life and the end of the process for TLC.  A behaviour is *)
(* one of Process, of IptablesRule or of Clock, while the other two are in *)
(* a state in which they have ended; or it is one evaluation of the        *)
(* reading of options, configuration lines, addresses or routing tables.   *)
(***************************************************************************)
EXTENDS Process

CONSTANTS
    MaxFails, MaxFlushes, MaxRuns,         \* bounds of IptablesRule
    MaxRaw, MaxBack, MainCalls, KeepCalls, \* bounds of Clock
    last_address, Blocks, max_hops         \* of Route

ASSUME BoundsAssumption == MaxFlushes \in Nat /\ MaxBack \in Nat

\* The tables below name the addresses 1 to 3 and have at most three routes.
ASSUME RouteAssumption ==
    /\ last_address \in Nat /\ 3 <= last_address
    /\ Blocks \subseteq Nat \ {0}
    /\ max_hops \in Nat /\ 3 < max_hops

VARIABLES
    mode, chain, input, main, todo, keeper, keep_todo, iptables_rule_keep_index, child,
    keep_thread_running, cancelled, about_to_exit, fails, flushes, runs,
    raw, value_fix, largest_value, at, loc, returned, calls, back, raced,
    given                   \* what is read, or nothing

firewall == <<mode, chain, input, main, todo, keeper, keep_todo, iptables_rule_keep_index, child,
              keep_thread_running, cancelled, about_to_exit, fails, flushes, runs>>
clock    == <<raw, value_fix, largest_value, at, loc, returned, calls, back, raced>>
all      == <<vars, firewall, clock, given>>

\* --keep-rule, -a and --gen-add, with failures and flushes at any time.
I == INSTANCE IptablesRule WITH Modes <- {"auto", "keep", "gen_add"}

\* The main loop and the thread of --keep-rule ask for the time.
C == INSTANCE Clock WITH MaxCalls <- [main |-> MainCalls, keep |-> KeepCalls], pc <- at

O == INSTANCE Options
H == INSTANCE Helpers
R == INSTANCE Route WITH loopback <- 3, NoArp <- {"tun0"}

-----------------------------------------------------------------------------
(* The ways to start udp2raw that take different paths. *)
Plain == [prog |-> "client", faketcp |-> TRUE, rule |-> TRUE, lower_level |-> "off",
          loopback |-> FALSE, retry |-> FALSE, dev |-> FALSE, fifo |-> FALSE, easy |-> FALSE,
          source_ip |-> FALSE, source_port |-> FALSE, pcap_send |-> FALSE]
MCSettings ==
    {Plain,
     [Plain EXCEPT !.lower_level = "manual", !.dev = TRUE, !.source_ip = TRUE],
     [Plain EXCEPT !.lower_level = "auto"],
     [Plain EXCEPT !.lower_level = "auto", !.loopback = TRUE],
     [Plain EXCEPT !.lower_level = "auto", !.retry = TRUE, !.fifo = TRUE],
     [Plain EXCEPT !.easy = TRUE, !.rule = FALSE],
     [Plain EXCEPT !.easy = TRUE, !.source_port = TRUE],
     [Plain EXCEPT !.prog = "server", !.fifo = TRUE],
     [Plain EXCEPT !.prog = "server", !.faketcp = FALSE, !.lower_level = "manual"],
     [Plain EXCEPT !.prog = "mp", !.rule = FALSE, !.pcap_send = TRUE],
     [Plain EXCEPT !.prog = "mp", !.rule = FALSE, !.dev = TRUE]}

ProcessEnded ==
    /\ opt = Plain /\ pc = "start" /\ step = 1 /\ open = [d \in Descriptors |-> 0] /\ files = 0
    /\ network = TRUE /\ bind_fd = "none" /\ tries = 0 /\ idle = TRUE /\ captured = FALSE
    /\ rules = FALSE /\ signal = FALSE /\ exit = "myexit" /\ why = "signal"
FirewallEnded ==
    /\ mode = "auto" /\ chain = [i \in I!Index |-> "absent"] /\ input = [i \in I!Index |-> 0]
    /\ main = "exited" /\ todo = << >> /\ keeper = "none" /\ keep_todo = << >>
    /\ iptables_rule_keep_index = 0 /\ child = I!NoCommand /\ keep_thread_running = FALSE /\ cancelled = FALSE
    /\ about_to_exit = TRUE /\ fails = 0 /\ flushes = MaxFlushes /\ runs = 1
ClockEnded ==
    /\ raw = 3 /\ value_fix = 2 /\ largest_value = 5 /\ at = [t \in C!Thread |-> "out"]
    /\ loc = [t \in C!Thread |-> C!NoLocals] /\ returned = [t \in C!Thread |-> 5]
    /\ calls = [main |-> MainCalls, keep |-> KeepCalls] /\ back = MaxBack /\ raced = FALSE

-----------------------------------------------------------------------------
(* What is read. *)
Nothing == [of |-> "nothing"]

Val(s) == [val |-> s, n |-> O!none]
Num(k) == [val |-> "number", n |-> k]
Item(o, w) == [opt |-> o, arg |-> w]
Items ==
    {Item(o, Val("")) : o \in {"s", "a", "g", "gen-add", "keep-rule", "clear", "easy-tcp",
                               "disable-anti-replay"}}
    \cup {Item("l", Val("v4:22")), Item("r", Val("v6:80")), Item("k", Val("x"))}
    \cup {Item("raw-mode", Val(m)) : m \in {"easyfaketcp", "tcp", "icmp"}}
    \cup {Item("auth-mode", Val(m)) : m \in {"none", "md5"}}
    \cup {Item("sock-buf", w) : w \in {Num(9), Num(10), Val("x")}} \cup {Item("seq-mode", Val("x"))}
Lines ==
    {<<Item("c", Val("")), Item("l", Val("v4:80")), Item("r", Val("v6:80"))>>,
     <<Item("l", Val("v4:80")), Item("r", Val("v6:80")), Item("s", Val(""))>>,
     <<Item("c", Val("")), Item("l", Val("v4:80"))>>}

Routes == {[dest |-> d, size |-> h, via |-> v, if |-> "eth0"] :
              d \in R!Address, h \in Blocks, v \in {R!direct} \cup R!Address}
WholeNets == {r \in Routes : r.dest % r.size = 0}
Arp(a, i, h) == [ip |-> a, if |-> i, hw |-> h]
Arps == {<< >>, <<Arp(1, "eth0", "h1")>>,
         <<Arp(1, "eth0", "h1"), Arp(1, "eth0", "h1"), Arp(1, "tun0", "h3"), Arp(2, "eth0", "h2")>>}
Tables ==
    {<<x, y>> : x, y \in WholeNets} \cup {<<x>> : x \in WholeNets} \cup {<< >>}

Starts ==
    {[of |-> "options", line |-> l, file |-> << >>] : l \in Lines}
    \cup {[of |-> "options", line |-> << >>, file |-> f] : f \in Lines}
    \cup {[of |-> o, s |-> << >>] : o \in {"line", "address"}}
    \cup {[of |-> "routes", arps |-> a, routes |-> << >>] : a \in Arps}

\* Another option, another character, or a routing table.
Read ==
    /\ \/ /\ given.of = "options" /\ Len(given.line) + Len(given.file) < 5
          /\ \E i \in Items :
                \/ given' = [given EXCEPT !.file = Append(@, i)]
                \/ given.file = << >> /\ given' = [given EXCEPT !.line = Append(@, i)]
                \/ given.file = << >> /\ given' = [given EXCEPT !.line = <<i>> \o @]
       \/ /\ given.of = "line" /\ Len(given.s) < 6
          /\ \E b \in {"-", "#", "x", " "} : given' = [given EXCEPT !.s = Append(@, b)]
       \/ /\ given.of = "address" /\ Len(given.s) < 7
          /\ Len(given.s) >= 4 => SubSeq(given.s, 1, 4) = <<"[", "g", ":", "g">>
          /\ \E b \in {"[", "]", ":", "4", "g", "p", "P"} : given' = [given EXCEPT !.s = Append(@, b)]
       \/ /\ given.of = "routes" /\ given.routes = << >>
          /\ \E t \in Tables \ {<< >>} : given' = [given EXCEPT !.routes = t]
       \/ /\ given.of = "routes" /\ Len(given.routes) = 2 /\ Len(given.arps) = 4
          /\ \E r \in WholeNets :
                /\ r.dest = 0 /\ r.size = last_address + 1 /\ r.via = 1
                /\ given' = [given EXCEPT !.routes = Append(@, r)]
    /\ UNCHANGED <<vars, firewall, clock>>

-----------------------------------------------------------------------------
MCInit ==
    \/ Init /\ FirewallEnded /\ ClockEnded /\ given = Nothing
    \/ I!Init /\ ProcessEnded /\ ClockEnded /\ given = Nothing
    \/ C!Init /\ ProcessEnded /\ FirewallEnded /\ given = Nothing
    \/ given \in Starts /\ ProcessEnded /\ FirewallEnded /\ ClockEnded

MCNext ==
    \/ Next /\ UNCHANGED <<firewall, clock, given>>
    \/ I!Next /\ UNCHANGED <<vars, clock, given>>
    \/ C!Next /\ UNCHANGED <<vars, firewall, given>>
    \/ Read

MCSpec == MCInit /\ [][MCNext]_all /\ Fairness /\ I!Fairness

\* Process alone.
ProcessSpec ==
    /\ Init /\ FirewallEnded /\ ClockEnded /\ given = Nothing
    /\ [][Next /\ UNCHANGED <<firewall, clock, given>>]_all /\ Fairness

-----------------------------------------------------------------------------
(* The properties of the instances. *)

\* The rules drop the tunnel's packets all the time, and are not piled up.
Protected == I!Protected

\* After the end no rule is left, or with --gen-add exactly one.
CleanExit == I!CleanExit

\* --keep-rule repairs.
Healed == I!Healed

\* The event loop's time does not go back when the clock is set back, unless
\* the keep thread was in get_current_time meanwhile.
ClockMonotone == [][C!NotBack]_clock

\* The options mean the same on the command line and in the file, in any
\* order; a line of the file is split into an option and its value; and an
\* address is read back as it was written.
ConfigurationRead ==
    CASE given.of = "options" -> O!SameMeaning(given.line, given.file)
      [] given.of = "line" -> H!LineMeaning(given.s)
      [] given.of = "address" -> H!AddressReadBack(given.s)
      [] OTHER -> TRUE

\* The next hop is the one the kernel would take.
NextHop == given.of = "routes" => \A ip \in R!Address : R!NextHop(given.routes, given.arps, ip)
=============================================================================
