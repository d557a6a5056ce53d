------------------------------ MODULE Process -------------------------------
(***************************************************************************)
(* The life of the process (main.cpp, the set-up of client_event_loop and  *)
(* server_event_loop, init_raw_socket, myexit): what start-up acquires, in *)
(* which order, and what happens when a call fails; the signals; the main  *)
(* loops; and the client's descriptors over its reconnections.             *)
(*                                                                         *)
(* "client" and "server" are the Linux build, "mp" the multi-platform one. *)
(* What the firewall does with a command is IptablesRule's subject, what a *)
(* session does is Tunnel's; here a session is up or has to be begun.      *)
(***************************************************************************)
EXTENDS Integers, Sequences

CONSTANTS
    Settings,    \* option records: [prog, faketcp, rule, lower_level, loopback, retry,
                 \*   dev, fifo, easy, source_ip, source_port, pcap_send]; loopback: the
                 \*   remote address is 127.0.0.1
    MaxTries,    \* 1000 in client_bind_to_a_new_port2
    MaxFiles     \* files the process may have open, apart from its sockets

ASSUME SettingsAssumption ==
    Settings \subseteq
        [prog : {"client", "server", "mp"}, lower_level : {"off", "manual", "auto"},
         faketcp : BOOLEAN, rule : BOOLEAN, loopback : BOOLEAN, retry : BOOLEAN, dev : BOOLEAN,
         fifo : BOOLEAN, easy : BOOLEAN, source_ip : BOOLEAN, source_port : BOOLEAN, pcap_send : BOOLEAN]

VARIABLES
    opt,
    pc,          \* "start", or a place in the main loop
    step,        \* the number of the start-up step
    open,        \* descriptor variable -> descriptors opened for it
    files,       \* descriptors of files that were opened and not closed
    network,     \* the route to the peer is known to the kernel
    bind_fd,     \* "none" (-1) or "socket"
    tries,       \* the loop variable of client_bind_to_a_new_port2
    idle,        \* client: client_current_state is client_idle
    captured,    \* mp: pcap_header_captured
    rules,       \* rules of this process are in the firewall
    signal,      \* SIGTERM or SIGINT was delivered, or to the server SIGHUP or SIGQUIT
    exit,        \* how the process ended: "no", "myexit", "abort", "return" or "killed"
    why          \* what made it end: "no", "call" (a call that was refused), "signal", or
                 \* one of the events that Unclean names

end  == <<exit, why>>
vars == <<opt, pc, step, open, files, network, bind_fd, tries, idle, captured, rules, signal, end>>

Descriptors == {"raw_send", "raw_recv", "udp", "bind", "epoll", "timer", "fifo", "probe"}

-----------------------------------------------------------------------------
(* Start-up, as the sequence of its calls: the descriptor a call opens, if *)
(* any, what follows when it fails and why it failed: set_timer opens one  *)
(* and ends the process if it cannot, set_buf_size and others only end it; *)
(* an assert names what it is about.                                       *)

\* Mutant: that a descriptor could be opened is asserted.
Acquire_Assert(fd) == [opens |-> fd, fails |-> "abort", cause |-> "call"]

Acquire(fd)   == [opens |-> fd, fails |-> "myexit", cause |-> "call"]
Try           == [opens |-> "none", fails |-> "myexit", cause |-> "call"]
Assert(about) == [opens |-> "none", fails |-> "abort", cause |-> about]
Rule          == [opens |-> "rules", fails |-> "myexit", cause |-> "call"]
Search(o)     == [opens |-> "search", fails |-> IF o.retry THEN "retry" ELSE "myexit",
                  cause |-> "call"]

When(cond, steps) == IF cond THEN steps ELSE << >>

\* Linux: the socket to send with, whose receive buffer is asserted away, and
\* the one to receive with, bound to --dev.
init_raw_socket(o) ==
    <<Acquire("raw_send"), Assert("receive_buffer"), Try, Acquire("raw_recv")>>
    \o When(o.dev, <<Try, Try>>) \o <<Try, Try>>

\* libnet and pcap; the handles are not descriptors of ours.
init_raw_socket_mp(o) == <<Try, Try, Assert("pcap"), Try, Try, Try, Try, Try, Try>>

client_lower_level(o) ==
    CASE o.lower_level = "off" -> << >>
      [] o.lower_level = "manual" -> <<Try>>
      [] o.lower_level = "auto" ->
           <<Assert("IPv6_peer")>> \o When(~o.loopback, <<Search(o)>>) \o <<Try>>

create_fifo(o) == When(o.fifo, <<Acquire("fifo"), Try>>)

\* The default loop is the one main made: that it is not NULL needs no step.
client_event_loop(o) ==
    (IF o.prog = "client" THEN client_lower_level(o)
     ELSE <<Try>> \o When(~o.dev, <<Try, Try>>))      \* exactly one device has the address
    \o <<Acquire("udp"), Try, Try>>
    \o When(o.prog = "mp", init_raw_socket_mp(o))
    \o create_fifo(o)

server_event_loop(o) ==
    When(o.lower_level = "manual", <<Try>>)
    \o <<Acquire("bind"), Try>> \o When(o.faketcp, <<Try>>)
    \o <<Try, Acquire("epoll"), Try, Acquire("timer"), Try>>
    \o When(o.fifo, create_fifo(o) \o <<Try>>)

\* Mutant: the sockets first.
startup_RuleLast(o) ==
    <<Try>>
    \o When(o.prog # "mp", init_raw_socket(o) \o <<Rule>>)
    \o (IF o.prog = "server" THEN server_event_loop(o) ELSE client_event_loop(o))

startup(o) ==
    <<Try>>                                          \* my_init_keys
    \o When(o.prog # "mp", <<Rule>> \o init_raw_socket(o))
    \o (IF o.prog = "server" THEN server_event_loop(o) ELSE client_event_loop(o))

-----------------------------------------------------------------------------
Init ==
    /\ opt \in Settings
    /\ pc = "start" /\ step = 1
    /\ open = [d \in Descriptors |-> 0] /\ files = 0 /\ network \in BOOLEAN
    /\ bind_fd = "none" /\ tries = 0 /\ idle = TRUE /\ captured = FALSE
    /\ rules = FALSE /\ signal = FALSE /\ exit = "no" /\ why = "no"

Running == exit = "no"
At(place) == Running /\ pc = place

Finish(how, reason) == exit' = how /\ why' = reason

myexit(reason) == Finish("myexit", reason) /\ rules' = FALSE

\* find_lower_level_info reads two files, the routes and the neighbours, with
\* read_file, which leaves its descriptor open.
Readable == files + 2 <= MaxFiles
read_files == files' = IF Readable THEN files + 2 ELSE MaxFiles

\* A start-up call succeeds; after the last the loop is entered.
StartStep ==
    /\ At("start")
    /\ LET s == startup(opt)[step]
       IN  /\ IF s.opens = "search" THEN network /\ Readable /\ read_files
                                     ELSE UNCHANGED files
           /\ open' = [d \in Descriptors |-> open[d] + (IF d = s.opens THEN 1 ELSE 0)]
           /\ rules' = (rules \/ (s.opens = "rules" /\ opt.rule))
    /\ IF step < Len(startup(opt)) THEN step' = step + 1 /\ pc' = pc
                                 ELSE step' = step /\ pc' = "check"
    /\ UNCHANGED <<opt, network, bind_fd, tries, idle, captured, signal, end>>

\* ... or fails.  With --retry-on-error the search for a route sleeps and is
\* done again, but for the interface of a route that was found, of which
\* interface_has_arp has to know.
StartFails ==
    /\ At("start")
    /\ LET s == startup(opt)[step]
       IN  /\ \/ s.fails = "myexit" /\ myexit(s.cause)
              \/ s.fails = "abort" /\ Finish("abort", s.cause) /\ UNCHANGED rules
              \/ s.fails = "retry" /\ ~(network /\ Readable) /\ UNCHANGED <<end, rules>>
              \/ s.fails = "retry" /\ Readable /\ myexit(s.cause)
           /\ IF s.opens = "search" THEN read_files ELSE UNCHANGED files
    /\ UNCHANGED <<opt, step, pc, open, network, bind_fd, tries, idle, captured, signal>>

\* The handlers only take note: signal_handler sets about_to_exit, libev keeps
\* the signal for its loop.
Signal ==
    /\ Running /\ ~signal /\ signal' = TRUE
    /\ UNCHANGED <<opt, step, pc, open, files, network, bind_fd, tries, idle, captured, rules, end>>

\* A signal nobody handles: SIGKILL, to a client SIGHUP (its terminal is closed)
\* or SIGQUIT, to a server SIGPIPE (who read its log is gone).
Killed ==
    /\ Running /\ Finish("killed", "unhandled_signal")
    /\ UNCHANGED <<opt, step, pc, open, files, network, bind_fd, tries, idle, captured, rules, signal>>

\* The network is initialized, after the process was started.
NetworkUp ==
    /\ Running /\ ~network /\ network' = TRUE
    /\ UNCHANGED <<opt, step, pc, open, files, bind_fd, tries, idle, captured, rules, signal, end>>

-----------------------------------------------------------------------------
(* The main loop.  The server looks at about_to_exit, waits, handles what  *)
(* is ready; a signal right after the look ends no wait, but the timer     *)
(* does.  The client's libev runs the callbacks of what is pending, a      *)
(* signal's among them.                                                    *)

Check ==
    /\ At("check")
    /\ IF signal THEN myexit("signal") /\ UNCHANGED pc ELSE pc' = "wait" /\ UNCHANGED <<end, rules>>
    /\ UNCHANGED <<opt, step, open, files, network, bind_fd, tries, idle, captured, signal>>

Wait ==
    /\ At("wait") /\ pc' = "events"
    /\ UNCHANGED <<opt, step, open, files, network, bind_fd, tries, idle, captured, rules, signal, end>>

\* Mutant: the flag is only looked at before the loop.
EventsDone_NoCheck ==
    /\ At("events") /\ opt.prog = "server" /\ pc' = "wait"
    /\ UNCHANGED <<opt, step, open, files, network, bind_fd, tries, idle, captured, rules, signal, end>>

EventsDone ==
    /\ At("events") /\ opt.prog = "server" /\ pc' = "check"
    /\ UNCHANGED <<opt, step, open, files, network, bind_fd, tries, idle, captured, rules, signal, end>>

\* server_event_loop returns when an event's descriptor is gone, and main with
\* it; an assert of fd_manager fails when it still knows a new one (Server).
ServerReturns ==
    /\ At("events") /\ opt.prog = "server"
    /\ Finish("return", "descriptor_gone") \/ Finish("abort", "descriptor_known")
    /\ UNCHANGED <<opt, step, pc, open, files, network, bind_fd, tries, idle, captured, rules, signal>>

\* A call fails that the loop cannot do without: epoll_wait, a server's timer,
\* setnonblocking or set_buf_size of a socket.
LoopFatal ==
    /\ pc \in {"wait", "events"} /\ Running /\ (pc = "wait" => opt.prog = "server")
    /\ myexit("call")
    /\ UNCHANGED <<opt, step, pc, open, files, network, bind_fd, tries, idle, captured, signal>>

-----------------------------------------------------------------------------
(* client_on_timer, as far as descriptors go. *)

Probing == opt.prog = "mp" /\ opt.pcap_send /\ ~captured

\* Nothing to send with yet: the last probing socket gives way to a new one.
Probe ==
    /\ At("events") /\ opt.prog # "server" /\ Probing
    /\ open' = [open EXCEPT !["probe"] = 1]
    /\ pc' = "check"
    /\ UNCHANGED <<opt, step, files, network, bind_fd, tries, idle, captured, rules, signal, end>>

\* async_cb takes the link header from the packet the probe provoked.
CaptureHeader ==
    /\ At("events") /\ Probing /\ captured' = TRUE
    /\ pc' = "check"
    /\ UNCHANGED <<opt, step, open, files, network, bind_fd, tries, idle, rules, signal, end>>

\* Not idle, or no way to find the own address (get_src_adress2, which closes
\* its socket on every path), or a probing socket could not be made.
TimerReturns ==
    /\ At("events") /\ opt.prog # "server"
    /\ Probing \/ ~idle \/ ~opt.source_ip
    /\ pc' = "check"
    /\ UNCHANGED <<opt, step, open, files, network, bind_fd, tries, idle, captured, rules, signal, end>>

\* An idle client begins a session: it binds a port unless one is given.
Reconnect ==
    /\ At("events") /\ opt.prog # "server" /\ ~Probing /\ idle
    /\ tries' = 0
    /\ pc' = IF opt.source_port THEN "bound" ELSE "bind"
    /\ UNCHANGED <<opt, step, open, files, network, bind_fd, idle, captured, rules, signal, end>>

\* Mutant: the socket of the last session is not closed.
try_to_list_and_bind2_NoClose(socket) ==
    /\ open' = [open EXCEPT !["bind"] = @ + (IF socket THEN 1 ELSE 0)]
    /\ bind_fd' = IF socket THEN "socket" ELSE "none"

\* The old socket is closed first, whatever becomes of the new one.
try_to_list_and_bind2(socket) ==
    /\ open' = [open EXCEPT !["bind"] =
                  @ - (IF bind_fd = "none" THEN 0 ELSE 1) + (IF socket THEN 1 ELSE 0)]
    /\ bind_fd' = IF socket THEN "socket" ELSE "none"

\* One turn of client_bind_to_a_new_port2: no socket, a port that is taken
\* (the socket stays for the next turn to close), or a port.
BindFails ==
    /\ At("bind") /\ tries < MaxTries
    /\ tries' = tries + 1
    /\ \E socket \in BOOLEAN : try_to_list_and_bind2(socket)
    /\ UNCHANGED <<opt, step, pc, files, network, idle, captured, rules, signal, end>>
BindSucceeds ==
    /\ At("bind") /\ tries < MaxTries
    /\ try_to_list_and_bind2(TRUE)
    /\ pc' = "bound"
    /\ UNCHANGED <<opt, step, files, network, tries, idle, captured, rules, signal, end>>
BindGivesUp ==
    /\ At("bind") /\ tries = MaxTries
    /\ myexit("call")
    /\ UNCHANGED <<opt, step, pc, open, files, network, bind_fd, tries, idle, captured, signal>>

\* init_filter, which ends the process if it cannot attach; with --easy-tcp
\* setnonblocking does, if there is no socket.
Bound ==
    /\ At("bound")
    /\ \/ myexit("call") /\ UNCHANGED <<pc, idle>>
       \/ /\ ~(opt.easy /\ opt.faketcp /\ bind_fd = "none")
          /\ idle' = FALSE /\ pc' = "check" /\ UNCHANGED <<end, rules>>
    /\ UNCHANGED <<opt, step, open, files, network, bind_fd, tries, captured, signal>>

\* The session ends: a timeout, too many RSTs, or "reconnect" from the fifo.
SessionEnds ==
    /\ At("events") /\ opt.prog # "server" /\ ~idle /\ idle' = TRUE
    /\ pc' = "check"
    /\ UNCHANGED <<opt, step, open, files, network, bind_fd, tries, captured, rules, signal, end>>

Next ==
    \/ StartStep \/ StartFails \/ Signal \/ Killed \/ NetworkUp
    \/ Check \/ Wait \/ EventsDone \/ ServerReturns \/ LoopFatal
    \/ Probe \/ CaptureHeader \/ TimerReturns \/ Reconnect
    \/ BindFails \/ BindSucceeds \/ BindGivesUp \/ Bound \/ SessionEnds

Spec == Init /\ [][Next]_vars

\* The process is scheduled, and no wait is for ever: the timers fire.  A
\* search for the route need not succeed, and no signal need come.
Fairness ==
    /\ WF_vars(StartStep \/ StartFails)
    /\ WF_vars(Check) /\ WF_vars(Wait)
    /\ WF_vars(EventsDone \/ ServerReturns \/ Probe \/ CaptureHeader \/ TimerReturns
               \/ Reconnect \/ SessionEnds)
    /\ WF_vars(BindFails \/ BindSucceeds \/ BindGivesUp) /\ WF_vars(Bound)

-----------------------------------------------------------------------------
\* The rules are there before the first raw socket, or the kernel would answer
\* what the peer sends, and as long as the process runs; and when it is gone
\* they are gone, whatever call of the start-up, of the loops or of a session
\* was refused and whichever signal it handles told it to end.  Five events
\* leave them: two asserts of the start-up, the two ways in which the server's
\* table of descriptors goes wrong, and a signal it does not handle.
Unclean == {"receive_buffer", "IPv6_peer", "descriptor_gone", "descriptor_known", "unhandled_signal"}
RulesWithProcess ==
    /\ Running /\ opt.rule /\ open["raw_recv"] > 0 => rules
    /\ ~Running /\ rules => why \in Unclean

\* No descriptor is lost: each variable names the only one opened for it,
\* after any number of reconnections and failed attempts to bind.
DescriptorsOwned ==
    /\ \A d \in Descriptors : open[d] <= 1
    /\ opt.prog # "server" => (open["bind"] = 1 <=> bind_fd # "none")

Searching ==
    At("start") /\ startup(opt)[step].fails = "retry"

\* A signal ends the process at the latest after one round of its loop,
\* whenever it comes, in start-up too; only a client that searches for its
\* route with --retry-on-error may go on for ever.
SignalEnds == <>signal => <>(exit # "no") \/ <>[]Searching

\* --retry-on-error is there "to start udp2raw before network is initialized":
\* once it is, the search for the route ends.
RetrySucceeds == <>[](network /\ Running) => <>[]~Searching
=============================================================================
