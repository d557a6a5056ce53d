------------------------------- MODULE Server -------------------------------
(***************************************************************************)
(* The udp2raw server as one process: the connection table                 *)
(* (conn_manager_t, connection.cpp), the descriptor table (fd_manager_t,   *)
(* fd_manager.cpp), the conversations of every connection (conv_manager_t, *)
(* connection.h), the handlers of server.cpp and the epoll loop that calls *)
(* them.                                                                   *)
(*                                                                         *)
(* The loop takes a batch of events from epoll_wait and handles them one   *)
(* by one, so what one handler closes may still be named by an event later *)
(* in the same batch.  Handlers are atomic.  Packets come from any number  *)
(* of clients; connection ids and the replay window are the subject of     *)
(* Tunnel and AntiReplay, and a packet that fails their checks is one of   *)
(* the packets that change nothing here (RawIgnored).                      *)
(***************************************************************************)
EXTENDS Integers, FiniteSets

CONSTANTS
    Addr,       \* source addresses (ip and port) of raw packets
    ConstId,    \* const_id of the clients, one random number per process
    ConvId,     \* conversation numbers chosen by the clients
    Conn,       \* addresses operator new may return for a conn_info_t
    Fd,         \* descriptor numbers, of which the kernel returns the lowest free one
    NoConn, NoConst, NoFd, NoAddr,
    max_handshake_conn_num, max_ready_conn_num, max_conv_num,
    server_handshake_timeout, server_conn_timeout, conv_timeout,
    hb_mode,        \* 0: data packets count as heartbeats too
    EpollAddMayFail,\* whether epoll_ctl(EPOLL_CTL_ADD) may fail
    MaxFd64,        \* bound: last value the fd64 counter hands out
    MaxTime,        \* bound: the clock stops here
    QuietTime       \* the clients are silent after this time

ASSUME NullAssumption ==
    NoConn \notin Conn /\ NoConst \notin ConstId /\ NoFd \notin Fd /\ NoAddr \notin Addr
ASSUME LimitAssumption ==
    /\ max_handshake_conn_num \in Nat /\ max_ready_conn_num \in Nat
    /\ max_conv_num \in Nat /\ server_handshake_timeout \in Nat
    /\ server_conn_timeout \in Nat /\ conv_timeout \in Nat /\ hb_mode \in {0, 1}
    /\ EpollAddMayFail \in BOOLEAN /\ MaxFd64 \in Nat \ {0} /\ MaxTime \in Nat
    /\ QuietTime \in Nat /\ Fd \subseteq Nat

VARIABLES
    mp,           \* conn_manager.mp: address -> connection
    const_id_mp,  \* conn_manager.const_id_mp: const id -> ready connection
    ready_num,    \* conn_manager.ready_num
    conn,         \* the conn_info_t objects
    convs,        \* conv_to_data of each connection: conv -> fd64, 0 if none
    active,       \* time stamp of each conversation in the lru list
    fd64_to_fd,   \* fd_manager.fd64_to_fd_mp
    info,         \* fd_manager.fd_info_mp: the p_conn_info of each fd64
    counter,      \* fd_manager.counter
    open,         \* descriptors open in the kernel and watched by epoll
    batch,        \* events returned by epoll_wait and not handled yet
    now,          \* get_current_time()
    proc          \* "running", "returned", "assert" or "exit"

conn_vars == <<mp, const_id_mp, ready_num, conn>>
conv_vars == <<convs, active>>
fd_vars == <<fd64_to_fd, info, counter, open>>
vars == <<conn_vars, conv_vars, fd_vars, batch, now, proc>>

(* events[idx].data.u64: small numbers for the two descriptors of the      *)
(* process itself, values above u32_t(-1) for an fd64.                     *)
timer_fd == 0
raw_recv_fd == 1
FirstFd64 == 2
Fd64 == FirstFd64 .. MaxFd64
Time == 0 .. MaxTime

State == {"free", "idle", "handshake1", "ready"}

(* re_init as the constructor calls it; "free" is memory not allocated.    *)
FreeConn ==
    [state |-> "free", src |-> NoAddr, const_id |-> NoConst, timer_fd64 |-> 0,
     last_state_time |-> 0, last_hb_recv_time |-> 0]

ConnInfo ==
    [state : State, src : Addr \cup {NoAddr}, const_id : ConstId \cup {NoConst},
     timer_fd64 : Fd64 \cup {0}, last_state_time : Time, last_hb_recv_time : Time]

Init ==
    /\ mp = [a \in Addr |-> NoConn]
    /\ const_id_mp = [k \in ConstId |-> NoConn]
    /\ ready_num = 0
    /\ conn = [p \in Conn |-> FreeConn]
    /\ convs = [p \in Conn |-> [v \in ConvId |-> 0]]
    /\ active = [p \in Conn |-> [v \in ConvId |-> 0]]
    /\ fd64_to_fd = [f \in Fd64 |-> NoFd]
    /\ info = [f \in Fd64 |-> NoConn]
    /\ counter = FirstFd64
    /\ open = {}
    /\ batch = {}
    /\ now = 0
    /\ proc = "running"

-----------------------------------------------------------------------------
(* Tables.                                                                 *)

Used == {a \in Addr : mp[a] # NoConn}           \* conn_manager.exist
Ready == {p \in Conn : conn[p].state = "ready"}
ConvsOf(p) == {v \in ConvId : convs[p][v] # 0}  \* conv_manager.get_size
exist(f) == fd64_to_fd[f] # NoFd
fd_exist(d) == \E f \in Fd64 : fd64_to_fd[f] = d
Watched == {f \in Fd64 : fd64_to_fd[f] \in open}

(* What socket and timerfd_create return: the lowest number not open.      *)
NewFd == CHOOSE d \in Fd \ open : \A e \in Fd \ open : d <= e
FdLeft == ~(Fd \subseteq open)

(* fd_manager.create(d) for a descriptor just opened, then get_info.       *)
create(d, p) ==
    /\ fd64_to_fd' = [fd64_to_fd EXCEPT ![counter] = d]
    /\ info' = [info EXCEPT ![counter] = p]
    /\ counter' = counter + 1

(* fd_manager.fd64_close of a set of fd64s; close also leaves epoll.       *)
fd64_close(fs) ==
    /\ fd64_to_fd' = [f \in Fd64 |-> IF f \in fs THEN NoFd ELSE fd64_to_fd[f]]
    /\ info' = [f \in Fd64 |-> IF f \in fs THEN NoConn ELSE info[f]]
    /\ open' = open \ {fd64_to_fd[f] : f \in fs}
    /\ UNCHANGED counter

-----------------------------------------------------------------------------
(* The event loop.                                                         *)

epoll_wait ==
    /\ proc = "running" /\ batch = {}
    /\ batch' \in SUBSET (Watched \cup {timer_fd, raw_recv_fd}) \ {{}}
    /\ UNCHANGED <<conn_vars, conv_vars, fd_vars, now, proc>>

Handle(e) ==
    /\ proc = "running" /\ e \in batch
    /\ batch' = batch \ {e}
    /\ UNCHANGED now

(* A client can still be heard.                                            *)
RawEvent == Handle(raw_recv_fd) /\ now <= QuietTime

Tick ==
    /\ proc = "running" /\ now < MaxTime
    /\ now' = now + 1
    /\ UNCHANGED <<conn_vars, conv_vars, fd_vars, batch, proc>>

(* A packet that no handler acts upon: unparsable, not authentic, a wrong  *)
(* id, from a connection in server_idle, a first handshake with the table  *)
(* full, or a SYN (answered from a temporary raw_info_t).                  *)
RawIgnored ==
    /\ Handle(raw_recv_fd)
    /\ UNCHANGED <<conn_vars, conv_vars, fd_vars, proc>>

(* server_on_raw_recv_multi for an address not in the table: a valid first *)
(* handshake creates a connection in server_handshake1 and is answered.    *)
NewConn(a) ==
    /\ RawEvent
    /\ a \notin Used /\ Cardinality(Used) < max_handshake_conn_num
    /\ \E p \in Conn :
          /\ conn[p].state = "free"
          /\ mp' = [mp EXCEPT ![a] = p]
          /\ conn' = [conn EXCEPT ![p] =
                [FreeConn EXCEPT !.state = "handshake1", !.src = a,
                                 !.last_state_time = now]]
    /\ UNCHANGED <<const_id_mp, ready_num, conv_vars, fd_vars, proc>>

-----------------------------------------------------------------------------
(* server_on_raw_recv_pre_ready: the second handshake of the connection at *)
(* address a, naming the id the server chose for it and const id k.        *)

SecondHandshake(a) ==
    /\ RawEvent
    /\ a \in Used /\ conn[mp[a]].state = "handshake1"

TurnIdle(p) == conn' = [conn EXCEPT ![p].state = "idle", ![p].const_id = NoConst]

(* An unknown const id with max_ready_conn_num connections ready.          *)
TooManyReady(a, k) ==
    /\ SecondHandshake(a)
    /\ const_id_mp[k] = NoConn /\ ready_num >= max_ready_conn_num
    /\ TurnIdle(mp[a])
    /\ UNCHANGED <<mp, const_id_mp, ready_num, conv_vars, fd_vars, proc>>

MayTurnReady(a, k) ==
    /\ SecondHandshake(a)
    /\ const_id_mp[k] = NoConn /\ ready_num < max_ready_conn_num

(* An unknown const id: the connection becomes ready and gets its timer    *)
(* (set_timer_server).                                                     *)
TurnReady(a, k) ==
    /\ MayTurnReady(a, k) /\ counter <= MaxFd64
    /\ FdLeft /\ ~fd_exist(NewFd)
    /\ LET p == mp[a] IN
          /\ conn' = [conn EXCEPT ![p].state = "ready", ![p].const_id = k,
                                  ![p].last_hb_recv_time = now,
                                  ![p].timer_fd64 = counter]
          /\ const_id_mp' = [const_id_mp EXCEPT ![k] = p]
          /\ create(NewFd, p)
          /\ open' = open \cup {NewFd}
    /\ ready_num' = ready_num + 1
    /\ UNCHANGED <<mp, conv_vars, proc>>

(* timerfd_create or epoll_ctl fails in set_timer_server: myexit.          *)
TimerFatal(a, k) ==
    /\ MayTurnReady(a, k)
    /\ ~FdLeft \/ EpollAddMayFail
    /\ proc' = "exit"
    /\ UNCHANGED <<conn_vars, conv_vars, fd_vars>>

(* A known const id whose connection began its handshake later.            *)
IgnoreOlder(a, k) ==
    /\ SecondHandshake(a)
    /\ const_id_mp[k] # NoConn
    /\ conn[mp[a]].last_state_time < conn[const_id_mp[k]].last_state_time
    /\ TurnIdle(mp[a])
    /\ UNCHANGED <<mp, const_id_mp, ready_num, conv_vars, fd_vars, proc>>

\* Mutants of Recover: the older handshake wins as well; only one entry of mp
\* is redirected; the recovered object keeps its old address; the
\* conversations are dropped.
RecoverWith(a, k, guard, newmp, src) ==
    /\ SecondHandshake(a)
    /\ const_id_mp[k] # NoConn
    /\ guard
    /\ mp' = newmp
    /\ conn' = [conn EXCEPT
          ![const_id_mp[k]].src = src,
          ![const_id_mp[k]].last_state_time = conn[mp[a]].last_state_time,
          ![const_id_mp[k]].last_hb_recv_time = now,
          ![mp[a]].state = "idle", ![mp[a]].const_id = NoConst]
    /\ UNCHANGED <<const_id_mp, ready_num, proc>>
Swapped(a, k) ==
    [mp EXCEPT ![conn[const_id_mp[k]].src] = mp[a], ![a] = const_id_mp[k]]
Newer(a, k) == conn[mp[a]].last_state_time >= conn[const_id_mp[k]].last_state_time
Recover_AnyAge(a, k) ==
    RecoverWith(a, k, TRUE, Swapped(a, k), a) /\ UNCHANGED <<conv_vars, fd_vars>>
Recover_OneEntry(a, k) ==
    /\ RecoverWith(a, k, Newer(a, k), [mp EXCEPT ![a] = const_id_mp[k]], a)
    /\ UNCHANGED <<conv_vars, fd_vars>>
Recover_KeepSrc(a, k) ==
    /\ RecoverWith(a, k, Newer(a, k), Swapped(a, k), conn[const_id_mp[k]].src)
    /\ UNCHANGED <<conv_vars, fd_vars>>
Recover_DropConvs(a, k) ==
    /\ RecoverWith(a, k, Newer(a, k), Swapped(a, k), a)
    /\ fd64_close({convs[const_id_mp[k]][v] : v \in ConvsOf(const_id_mp[k])})
    /\ convs' = [convs EXCEPT ![const_id_mp[k]] = [v \in ConvId |-> 0]]
    /\ UNCHANGED active

(* A known const id: the client came back from another address.  The two   *)
(* entries of mp are swapped, and conn_info_t::recover moves the new raw   *)
(* connection into the old object, which keeps its conversations.          *)
Recover(a, k) ==
    /\ SecondHandshake(a)
    /\ const_id_mp[k] # NoConn
    /\ LET p == mp[a]
           ori == const_id_mp[k]
           addr1 == conn[ori].src
       IN /\ conn[p].last_state_time >= conn[ori].last_state_time
          /\ mp' = [mp EXCEPT ![addr1] = mp[a], ![a] = mp[addr1]]
          /\ conn' = [conn EXCEPT
                ![ori].src = a,
                ![ori].last_state_time = conn[p].last_state_time,
                ![ori].last_hb_recv_time = now,
                ![p].state = "idle", ![p].const_id = NoConst]
    /\ UNCHANGED <<const_id_mp, ready_num, conv_vars, fd_vars, proc>>

-----------------------------------------------------------------------------
(* server_on_raw_recv_ready: authentic packets of a ready connection.      *)

ReadyPacket(a) ==
    /\ RawEvent
    /\ a \in Used /\ conn[mp[a]].state = "ready"

RecvHeartbeat(a) ==
    /\ ReadyPacket(a)
    /\ conn' = [conn EXCEPT ![mp[a]].src = a, ![mp[a]].last_hb_recv_time = now]
    /\ UNCHANGED <<mp, const_id_mp, ready_num, conv_vars, fd_vars, proc>>

(* What every data packet does to the connection.                          *)
Heard(a) ==
    conn' = [conn EXCEPT ![mp[a]].src = a,
                         ![mp[a]].last_hb_recv_time = IF hb_mode = 0 THEN now ELSE @]

DataOldConv(a, v) ==
    /\ ReadyPacket(a)
    /\ v \in ConvsOf(mp[a])
    /\ Heard(a)
    /\ active' = [active EXCEPT ![mp[a]][v] = now]
    /\ UNCHANGED <<mp, const_id_mp, ready_num, convs, fd_vars, proc>>

(* max_conv_num reached, or no socket could be opened.                     *)
DataDropped(a, v) ==
    /\ ReadyPacket(a)
    /\ v \notin ConvsOf(mp[a])
    /\ Cardinality(ConvsOf(mp[a])) >= max_conv_num \/ ~FdLeft
    /\ Heard(a)
    /\ UNCHANGED <<mp, const_id_mp, ready_num, conv_vars, fd_vars, proc>>

MayOpenConv(a, v) ==
    /\ ReadyPacket(a)
    /\ v \notin ConvsOf(mp[a])
    /\ Cardinality(ConvsOf(mp[a])) < max_conv_num
    /\ counter <= MaxFd64 /\ FdLeft

DataNewConv(a, v) ==
    /\ MayOpenConv(a, v) /\ ~fd_exist(NewFd)
    /\ LET p == mp[a] IN
          /\ create(NewFd, p)
          /\ open' = open \cup {NewFd}
          /\ convs' = [convs EXCEPT ![p][v] = counter]
          /\ active' = [active EXCEPT ![p][v] = now]
    /\ Heard(a)
    /\ UNCHANGED <<mp, const_id_mp, ready_num, proc>>

(* epoll_ctl(EPOLL_CTL_ADD) fails: the socket is closed, but the entry     *)
(* fd_manager.create made for it stays.                                    *)
DataEpollFails(a, v) ==
    /\ MayOpenConv(a, v)
    /\ EpollAddMayFail
    /\ ~fd_exist(NewFd) /\ create(NewFd, mp[a])
    /\ Heard(a)
    /\ UNCHANGED <<mp, const_id_mp, ready_num, conv_vars, open, proc>>

(* The kernel returns a descriptor number fd_manager still has an entry    *)
(* for: assert(!fd_exist(fd)) in create ends the process.                  *)
CreateAssertFails(a) ==
    /\ \/ \E k \in ConstId : MayTurnReady(a, k)
       \/ \E v \in ConvId : MayOpenConv(a, v)
    /\ FdLeft /\ fd_exist(NewFd)
    /\ proc' = "assert"
    /\ UNCHANGED <<conn_vars, conv_vars, fd_vars>>

-----------------------------------------------------------------------------
(* Timers and udp sockets.                                                 *)

(* The oldest conversation, at the back of the lru list, if it timed out.  *)
Expired(p) ==
    {v \in ConvsOf(p) : /\ now - active[p][v] >= conv_timeout
                        /\ \A w \in ConvsOf(p) : active[p][v] <= active[p][w]}

(* server_on_timer_multi of connection p: conv_manager.clear_inactive      *)
(* erases the oldest conversation if it timed out (one per call below 30   *)
(* conversations) and closes its socket.  Heartbeats are Tunnel's subject. *)
ConnTimer(p) ==
    /\ conn[p].state = "ready" /\ Handle(conn[p].timer_fd64)
    /\ exist(conn[p].timer_fd64)
    /\ IF Expired(p) = {}
       THEN UNCHANGED <<convs, fd_vars>>
       ELSE \E v \in Expired(p) :
               /\ fd64_close({convs[p][v]})
               /\ convs' = [convs EXCEPT ![p][v] = 0]
    /\ UNCHANGED <<conn_vars, active, proc>>

(* server_on_udp_recv: the datagram goes to the client; the conversation's *)
(* time stamp is not refreshed from this side.                             *)
UdpRecv(f) ==
    /\ f \in Fd64 /\ exist(f) /\ Handle(f)
    /\ f # conn[info[f]].timer_fd64
    /\ UNCHANGED <<conn_vars, conv_vars, fd_vars, proc>>

(* An event for an fd64 closed earlier in the batch: server_event_loop     *)
(* returns -1 and main ends.                                               *)
StaleEvent(f) ==
    /\ f \in Fd64 /\ ~exist(f) /\ Handle(f)
    /\ proc' = "returned"
    /\ UNCHANGED <<conn_vars, conv_vars, fd_vars>>

\* Mutant: a ready connection never times out.
Keep_Ready(p) ==
    \/ conn[p].state = "ready"
    \/ conn[p].state # "ready" /\ now - conn[p].last_state_time <= server_handshake_timeout

(* clear_inactive0's reasons to keep a connection.                         *)
Keep(p) ==
    \/ conn[p].state = "ready" /\ now - conn[p].last_hb_recv_time <= server_conn_timeout
    \/ conn[p].state # "ready" /\ now - conn[p].last_state_time <= server_handshake_timeout
    \/ ConvsOf(p) # {}

\* Mutants of Erase: the const id stays in the index; the timer stays
\* registered.
EraseWith(a, decrement, forget, fds) ==
    /\ ready_num' = IF decrement THEN ready_num - 1 ELSE ready_num
    /\ const_id_mp' = [k \in ConstId |-> IF k \in forget THEN NoConn ELSE const_id_mp[k]]
    /\ fd64_close(fds)
    /\ convs' = [convs EXCEPT ![mp[a]] = [v \in ConvId |-> 0]]
    /\ mp' = [mp EXCEPT ![a] = NoConn]
    /\ conn' = [conn EXCEPT ![mp[a]] = FreeConn]
    /\ UNCHANGED active
FdsOf(p) == ({conn[p].timer_fd64} \cup {convs[p][v] : v \in ConvId}) \ {0}
Erase_KeepIndex(a) == EraseWith(a, conn[mp[a]].state = "ready", {}, FdsOf(mp[a]))
Erase_KeepTimer(a) ==
    EraseWith(a, conn[mp[a]].state = "ready", {conn[mp[a]].const_id},
              FdsOf(mp[a]) \ {conn[mp[a]].timer_fd64})

(* conn_manager_t::erase, with the destructors of conn_info_t and          *)
(* conv_manager_t, which close what is left of the conversations.          *)
Erase(a) ==
    LET p == mp[a] IN
    /\ IF conn[p].state = "ready"
       THEN /\ ready_num' = ready_num - 1
            /\ const_id_mp' = [const_id_mp EXCEPT ![conn[p].const_id] = NoConn]
            /\ fd64_close({conn[p].timer_fd64} \cup {convs[p][v] : v \in ConvsOf(p)})
            /\ convs' = [convs EXCEPT ![p] = [v \in ConvId |-> 0]]
       ELSE UNCHANGED <<ready_num, const_id_mp, fd_vars, convs>>
    /\ mp' = [mp EXCEPT ![a] = NoConn]
    /\ conn' = [conn EXCEPT ![p] = FreeConn]
    /\ UNCHANGED active

(* The global timer: clear_inactive looks at the next entry of mp (one per *)
(* call below 50 entries).                                                 *)
ClearInactive(a) ==
    /\ Handle(timer_fd)
    /\ a \in Used
    /\ IF Keep(mp[a]) THEN UNCHANGED <<conn_vars, conv_vars, fd_vars>> ELSE Erase(a)
    /\ UNCHANGED proc

ClearNothing ==
    /\ Handle(timer_fd)
    /\ Used = {}
    /\ UNCHANGED <<conn_vars, conv_vars, fd_vars, proc>>

-----------------------------------------------------------------------------
Handshakes(a) ==
    \/ NewConn(a)
    \/ \E k \in ConstId :
          \/ TooManyReady(a, k) \/ TurnReady(a, k) \/ TimerFatal(a, k)
          \/ IgnoreOlder(a, k) \/ Recover(a, k)

Packets(a) ==
    \/ RecvHeartbeat(a)
    \/ \E v \in ConvId :
          \/ DataOldConv(a, v) \/ DataDropped(a, v)
          \/ DataNewConv(a, v) \/ DataEpollFails(a, v)

Next ==
    \/ epoll_wait \/ Tick \/ RawIgnored \/ ClearNothing
    \/ \E a \in Addr :
          Handshakes(a) \/ Packets(a) \/ CreateAssertFails(a) \/ ClearInactive(a)
    \/ \E p \in Conn : ConnTimer(p)
    \/ \E f \in Fd64 : UdpRecv(f) \/ StaleEvent(f)

Spec == Init /\ [][Next]_vars

(* Scheduling: time passes, the single thread works off every batch, and   *)
(* timerfds keep firing, so again and again epoll_wait returns a batch     *)
(* with every timer due; clear_it walks round mp, so every entry is looked *)
(* at in turn.                                                             *)
TimersDue == {timer_fd} \cup {conn[p].timer_fd64 : p \in Ready}
HandleBatch ==
    \/ RawIgnored \/ ClearNothing
    \/ \E a \in Addr : ClearInactive(a)
    \/ \E p \in Conn : ConnTimer(p)
    \/ \E f \in Fd64 : UdpRecv(f) \/ StaleEvent(f)

Fairness ==
    /\ WF_vars(Tick)
    /\ WF_vars(HandleBatch)
    /\ WF_vars(epoll_wait) /\ SF_vars(epoll_wait /\ TimersDue \subseteq batch')
    /\ \A a \in Addr : SF_vars(ClearInactive(a))
    /\ \A p \in Conn : SF_vars(ConnTimer(p))

FairSpec == Spec /\ Fairness

-----------------------------------------------------------------------------
(* Every variable stays in its range.                                      *)
TypeOK ==
    /\ mp \in [Addr -> Conn \cup {NoConn}]
    /\ const_id_mp \in [ConstId -> Conn \cup {NoConn}]
    /\ ready_num \in Nat
    /\ conn \in [Conn -> ConnInfo]
    /\ convs \in [Conn -> [ConvId -> Fd64 \cup {0}]]
    /\ active \in [Conn -> [ConvId -> Time]]
    /\ fd64_to_fd \in [Fd64 -> Fd \cup {NoFd}]
    /\ info \in [Fd64 -> Conn \cup {NoConn}]
    /\ counter \in FirstFd64 .. (MaxFd64 + 1)
    /\ open \in SUBSET Fd
    /\ batch \in SUBSET (Fd64 \cup {timer_fd, raw_recv_fd})
    /\ now \in Time
    /\ proc \in {"running", "returned", "assert", "exit"}

(* mp names every allocated connection exactly once: no pointer in it      *)
(* dangles, and erase, recover and find_insert leak none.                  *)
MpExact ==
    /\ \A a \in Used : conn[mp[a]].state # "free"
    /\ \A a, b \in Used : mp[a] = mp[b] => a = b
    /\ \A p \in Conn : conn[p].state # "free" => \E a \in Addr : mp[a] = p

(* const_id_mp is exactly the index of the ready connections, which is     *)
(* what "this should never happen" (server.cpp:306) and the asserts of     *)
(* erase and ~conn_info_t rely on; ready_num counts them.                  *)
ConstIdExact ==
    /\ \A k \in ConstId, p \in Conn :
          const_id_mp[k] = p <=> (conn[p].state = "ready" /\ conn[p].const_id = k)
    /\ \A p \in Conn : conn[p].const_id = NoConst <=> conn[p].state # "ready"
    /\ ready_num = Cardinality(Ready) /\ ready_num <= max_ready_conn_num

(* A ready connection is found under the address its last packet came      *)
(* from, across any number of recoveries: recover's two "this shouldnt     *)
(* happen" exits (server.cpp:272, 279) are not reached.                    *)
ReadyReachable ==
    \A p \in Conn : conn[p].state \in {"ready", "handshake1"} =>
        conn[p].src \in Addr /\ mp[conn[p].src] = p

(* The two indexes and the connections agree in all of this.               *)
TablesExact == MpExact /\ ConstIdExact /\ ReadyReachable

(* Every descriptor epoll watches belongs to a ready connection, as its    *)
(* timer or as the socket of one of its conversations, and these are all   *)
(* registered: the asserts of erase, fd64_close, to_fd, server_on_udp_recv *)
(* and the loop hold, and no descriptor outlives its connection.           *)
FdsOwned ==
    /\ \A f \in Watched :
          /\ info[f] \in Ready
          /\ \/ f = conn[info[f]].timer_fd64
             \/ \E v \in ConvId : convs[info[f]][v] = f
    /\ \A p \in Ready : conn[p].timer_fd64 \in Watched /\ info[conn[p].timer_fd64] = p
    /\ \A p \in Conn : \A v \in ConvsOf(p) :
          /\ p \in Ready
          /\ convs[p][v] \in Watched /\ info[convs[p][v]] = p
          /\ convs[p][v] # conn[p].timer_fd64
          /\ \A w \in ConvsOf(p) : convs[p][v] = convs[p][w] => v = w
    /\ \A p \in Conn \ Ready : conn[p].timer_fd64 = 0
    /\ \A f, g \in Watched : fd64_to_fd[f] = fd64_to_fd[g] => f = g
    /\ \A d \in open : \E f \in Watched : fd64_to_fd[f] = d

(* The client's newest handshake wins: while a const id is served, the     *)
(* time its raw connection began never moves back, and its object stays.   *)
StillServed(k) == const_id_mp[k] # NoConn /\ const_id_mp'[k] # NoConn
NewestKept ==
    \A k \in ConstId : StillServed(k) =>
       /\ const_id_mp'[k] = const_id_mp[k]
       /\ conn'[const_id_mp[k]].last_state_time >= conn[const_id_mp[k]].last_state_time
NewestWins == [][NewestKept]_vars

(* README: "the previous connection will be recovered, and all existing    *)
(* UDP conversations will stay vaild".  A step after which const id k is   *)
(* served from another address changes none of its conversations and none  *)
(* of the sockets behind them.                                             *)
ConvsKept ==
    \A k \in ConstId : LET p == const_id_mp[k]
                           q == const_id_mp'[k]
                       IN
       StillServed(k) /\ conn'[q].src # conn[p].src =>
          \A v \in ConvsOf(p) :
             /\ convs'[q][v] = convs[p][v]
             /\ fd64_to_fd'[convs[p][v]] = fd64_to_fd[convs[p][v]]
             /\ info'[convs[p][v]] = q
ConvsSurviveRecovery == [][ConvsKept]_vars

(* misc.h:58: conversations are destructed gradually, then the connection. *)
(* Once the clients are silent, every conversation, connection and         *)
(* descriptor of a running server is eventually given back.                *)
Reclaimed == <>[](proc = "running" => Used = {} /\ open = {} /\ ready_num = 0)

(* fd_manager.h: fd64s exist to "avoid fd value conflict caused by close   *)
(* and re-create"; create asserts that a new descriptor has no entry.      *)
NoFdConflict == proc # "assert"

(* fd_manager.h says an fd64 makes "epoll fd handling easier" and the loop *)
(* logs "fd64 no longer exist" at trace level: an event for a descriptor   *)
(* closed earlier in the same batch should not end the server.             *)
KeepsServing == proc # "returned"
=============================================================================
