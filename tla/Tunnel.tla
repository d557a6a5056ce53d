------------------------------- MODULE Tunnel -------------------------------
(***************************************************************************)
(* One udp2raw client and the server: the client's state machine           *)
(* (client.cpp), the server's side of the handshake and of connection      *)
(* recovery (server.cpp), and the network between them, which loses,       *)
(* duplicates and reorders packets: a packet once sent may arrive at any   *)
(* later time, any number of times, or never.                              *)
(*                                                                         *)
(* A session is one pass of the client through client_idle: it draws a new *)
(* my_id and, unless --force-source-port is used, a new port.  The random  *)
(* 32-bit ids of client and server never collide here (cid, sid count up). *)
(* Handshake packets are authentic but carry no sequence number; packets   *)
(* of a ready connection carry both ids and pass the replay filter, which  *)
(* is its specification AtMostOnce here, not the window.                   *)
(*                                                                         *)
(* Timeouts are untimed: what makes a peer give up too early (a premature  *)
(* timeout, the reconnect command, an RST, an early expiry), a late        *)
(* duplicate of a first handshake, and a restart of the server are faults, *)
(* and at most MaxFaults of them happen.                                   *)
(***************************************************************************)
EXTENDS Integers, FiniteSets

CONSTANTS
    Options,      \* the pairs of raw_mode and force_source_port
    MaxFaults,    \* bound: faults
    MaxSession,   \* bound: sessions; the last one is never given up
    MaxData       \* bound: data packets per direction

ASSUME OptionAssumption == Options \subseteq {"faketcp", "udp"} \X {0, 1}
ASSUME BoundAssumption == MaxFaults \in Nat /\ MaxSession \in Nat \ {0} /\ MaxData \in Nat

VARIABLES
    raw_mode,   \* "faketcp", or "udp" (icmp has the same handshake)
    force_source_port, \* 1: every session uses the same address
    cstate,     \* client_current_state
    cid,        \* the client's my_id: the number of its session
    copp,       \* the client's oppsite_id
    cseq, cseen,\* the client's anti_replay: next number, numbers accepted
    srv,        \* the server's connections by address
    sid,        \* the last my_id the server drew
    sseq,       \* the server's anti_replay_seq
    net,        \* every packet sent so far
    faults,     \* faults so far
    answered,   \* history: id pairs the client confirmed
    accepted,   \* history: id pairs the server turned ready
    up, down    \* history: times each data packet reached the other side

options == <<raw_mode, force_source_port>>
client_vars == <<cstate, cid, copp, cseq, cseen>>
server_vars == <<srv, sid, sseq>>
history == <<answered, accepted, up, down>>
vars == <<options, client_vars, server_vars, net, faults, history>>

Session == 1 .. MaxSession
Addr == Session
MaxSid == MaxSession + 2 * MaxFaults        \* connections the server creates
SeqNum == 1 .. (MaxData + MaxSid)
NoId == 0

(* The source address of session c as the server sees it.                  *)
AddrOf(c) == IF force_source_port = 1 THEN 1 ELSE c
caddr == AddrOf(cid)

(* Connections are created at distinct times and their ids count up, so    *)
(* my_id also stands for last_state_time, which recover copies with it.    *)
NoConn == [state |-> "none", my_id |-> NoId, oppsite_id |-> NoId, seen |-> {}]

Packet(kind, a, x, y, n) == [kind |-> kind, addr |-> a, id1 |-> x, id2 |-> y, seq |-> n]

Sent(kind) == Cardinality({m \in net : m.kind = kind})

Init ==
    /\ \E o \in Options : raw_mode = o[1] /\ force_source_port = o[2]
    /\ cstate = "idle" /\ cid = NoId /\ copp = NoId
    /\ cseq = 1 /\ cseen = {}
    /\ srv = [a \in Addr |-> NoConn]
    /\ sid = NoId /\ sseq = 1
    /\ net = {} /\ faults = 0
    /\ answered = {} /\ accepted = {}
    /\ up = [n \in SeqNum |-> 0] /\ down = [n \in SeqNum |-> 0]

Fault == faults < MaxFaults /\ faults' = faults + 1

-----------------------------------------------------------------------------
(* The client.                                                             *)

FirstHandshake(c) == Packet("hs_c", AddrOf(c), c, NoId, 0)

(* client_on_timer in client_idle: reset the replay filter, draw an id and *)
(* a port, and fall through to the first packet of the next state.  The    *)
(* retries every client_retry_interval send the same packet again.         *)
StartSession ==
    /\ cstate = "idle" /\ cid < MaxSession
    /\ cid' = cid + 1
    /\ cseen' = {}
    /\ IF raw_mode = "faketcp"
       THEN /\ cstate' = "tcp_handshake"
            /\ net' = net \cup {Packet("syn", AddrOf(cid'), cid', NoId, 0)}
       ELSE /\ cstate' = "handshake1"
            /\ net' = net \cup {FirstHandshake(cid')}
    /\ UNCHANGED <<options, copp, cseq, server_vars, faults, history>>

(* client_on_raw_recv in client_tcp_handshake: a SYN-ACK that acknowledges *)
(* this session's SYN.  client_on_timer then sends the first handshake.    *)
ClientRecvSynAck(m) ==
    /\ cstate = "tcp_handshake"
    /\ m.kind = "synack" /\ m.addr = caddr /\ m.id1 = cid
    /\ cstate' = "handshake1"
    /\ net' = net \cup {FirstHandshake(cid)}
    /\ UNCHANGED <<options, cid, copp, cseq, cseen, server_vars, faults, history>>

(* ... in client_handshake1: the server's answer to this session's id.     *)
ClientRecvHandshake(m) ==
    /\ cstate = "handshake1"
    /\ m.kind = "hs_s" /\ m.addr = caddr /\ m.id2 = cid
    /\ cstate' = "handshake2"
    /\ copp' = m.id1
    /\ net' = net \cup {Packet("hs_c", caddr, cid, m.id1, 0)}
    /\ answered' = answered \cup {<<cid, m.id1>>}
    /\ UNCHANGED <<options, cid, cseq, cseen, server_vars, faults, accepted, up, down>>

\* Mutant: the replay filter is not asked.
ClientParses_NoFilter(m) ==
    /\ m.kind \in {"h_s", "d_s"} /\ m.addr = caddr
    /\ m.id1 = copp /\ m.id2 = cid

(* reserved_parse_safer at the client.                                     *)
ClientParses(m) ==
    /\ m.kind \in {"h_s", "d_s"} /\ m.addr = caddr
    /\ m.id1 = copp /\ m.id2 = cid
    /\ m.seq \notin cseen

(* ... in client_handshake2 and client_ready: the first packet of the      *)
(* server's ready connection makes the client ready, and it sends a        *)
(* heartbeat at once.                                                      *)
ClientRecvSafer(m) ==
    /\ cstate \in {"handshake2", "ready"}
    /\ ClientParses(m)
    /\ cseen' = cseen \cup {m.seq}
    /\ cstate' = "ready"
    /\ IF cstate = "handshake2"
       THEN /\ net' = net \cup {Packet("h_c", caddr, cid, copp, cseq)}
            /\ cseq' = cseq + 1
       ELSE UNCHANGED <<net, cseq>>
    /\ down' = IF m.kind = "d_s" THEN [down EXCEPT ![m.seq] = @ + 1] ELSE down
    /\ UNCHANGED <<options, cid, copp, server_vars, faults, answered, accepted, up>>

(* client_on_udp_recv of a ready client.                                   *)
ClientSendData ==
    /\ cstate = "ready" /\ Sent("d_c") < MaxData
    /\ net' = net \cup {Packet("d_c", caddr, cid, copp, cseq)}
    /\ cseq' = cseq + 1
    /\ UNCHANGED <<options, cstate, cid, copp, cseen, server_vars, faults, history>>

\* Mutant: a ready client does not time out.
Stuck_ReadyStays ==
    /\ cstate = "handshake2"
    /\ ~ \/ srv[caddr].state = "handshake1" /\ srv[caddr].my_id = copp
         \/ /\ srv[caddr].state = "ready" /\ srv[caddr].my_id = copp
            /\ srv[caddr].oppsite_id = cid

(* The client cannot go on in this session: the server no longer has the   *)
(* connection it waits for or uses.                                        *)
Stuck ==
    LET s == srv[caddr] IN
    \/ /\ cstate = "handshake2"
       /\ ~ \/ s.state = "handshake1" /\ s.my_id = copp
            \/ s.state = "ready" /\ s.my_id = copp /\ s.oppsite_id = cid
    \/ /\ cstate = "ready"
       /\ ~(s.state = "ready" /\ s.my_id = copp /\ s.oppsite_id = cid)

(* Any of the client's ways back to client_idle: handshake timeout, no     *)
(* heartbeat, uplink timeout, RST, "reconnect" from the fifo.  The id      *)
(* drawn on the way is replaced in client_idle; the heartbeat an uplink    *)
(* timeout still sends under it names no connection and is ignored.        *)
ClientTimeout ==
    /\ cstate # "idle" /\ cid < MaxSession
    /\ IF Stuck THEN UNCHANGED faults ELSE Fault
    /\ cstate' = "idle"
    /\ UNCHANGED <<options, cid, copp, cseq, cseen, server_vars, net, history>>

-----------------------------------------------------------------------------
(* The server.                                                             *)

(* The connection const_id_mp names: the client has one const id.          *)
Owner == {a \in Addr : srv[a].state = "ready"}

(* server_on_raw_recv_multi: any SYN is answered before the connection of  *)
(* its address is ready, from a temporary raw_info.                        *)
RecvSyn(m) ==
    /\ m.kind = "syn" /\ srv[m.addr].state # "ready"
    /\ net' = net \cup {Packet("synack", m.addr, m.id1, NoId, 0)}
    /\ UNCHANGED <<options, client_vars, server_vars, faults, history>>

Reply(a, c, s) == net' = net \cup {Packet("hs_s", a, s, c, 0)}

(* ... a first handshake from an unknown address: a new connection.  One   *)
(* the client no longer sends is a late duplicate.                         *)
RecvFirstHandshake(m) ==
    /\ m.kind = "hs_c" /\ m.id2 = NoId
    /\ srv[m.addr].state = "none" /\ sid < MaxSid
    /\ IF cstate = "handshake1" /\ m.id1 = cid THEN UNCHANGED faults ELSE Fault
    /\ sid' = sid + 1
    /\ srv' = [srv EXCEPT ![m.addr] = [NoConn EXCEPT !.state = "handshake1", !.my_id = sid']]
    /\ Reply(m.addr, m.id1, sid')
    /\ UNCHANGED <<options, client_vars, sseq, history>>

(* server_on_raw_recv_handshake1: the first handshake again.               *)
RecvHandshakeAgain(m) ==
    /\ m.kind = "hs_c" /\ m.id2 = NoId
    /\ srv[m.addr].state = "handshake1"
    /\ Reply(m.addr, m.id1, srv[m.addr].my_id)
    /\ UNCHANGED <<options, client_vars, server_vars, faults, history>>

\* Mutant: the id the client names is not compared.
SecondHandshake_AnyId(m) ==
    /\ m.kind = "hs_c" /\ m.id2 # NoId
    /\ srv[m.addr].state = "handshake1"

(* ... the second handshake, for the id the server gave this connection.   *)
SecondHandshake(m) ==
    /\ m.kind = "hs_c" /\ m.id2 # NoId
    /\ srv[m.addr].state = "handshake1" /\ m.id2 = srv[m.addr].my_id

\* Mutant: the age of the handshake is not compared.
Older_Never(a) == FALSE

(* conn_info.last_state_time < ori_conn_info.last_state_time               *)
Older(a) == \E o \in Owner : srv[a].my_id < srv[o].my_id

(* server_on_raw_recv_pre_ready: an older connection is ignored.           *)
IgnoreOlder(m) ==
    /\ SecondHandshake(m)
    /\ Older(m.addr)
    /\ srv' = [srv EXCEPT ![m.addr].state = "idle", ![m.addr].oppsite_id = m.id1]
    /\ UNCHANGED <<options, client_vars, sid, sseq, net, faults, history>>

\* Mutant: the former connection of the client is not looked up.
TurnReady_KeepOld(m) ==
    /\ SecondHandshake(m)
    /\ srv' = [srv EXCEPT ![m.addr].state = "ready", ![m.addr].oppsite_id = m.id1]
    /\ net' = net \cup {Packet("h_s", m.addr, m.id2, m.id1, sseq)}
    /\ sseq' = sseq + 1
    /\ accepted' = accepted \cup {<<m.id1, m.id2>>}
    /\ UNCHANGED <<options, client_vars, sid, faults, answered, up, down>>

(* ... otherwise the connection becomes ready with an empty replay window; *)
(* the client's former connection, if there is one, is recovered under the *)
(* new address and ids, and its address is left idle.  A heartbeat follows.*)
TurnReady(m) ==
    /\ SecondHandshake(m)
    /\ ~Older(m.addr)
    /\ srv' = [a \in Addr |->
          IF a = m.addr THEN [srv[a] EXCEPT !.state = "ready", !.oppsite_id = m.id1]
          ELSE IF a \in Owner THEN [srv[m.addr] EXCEPT !.state = "idle", !.oppsite_id = m.id1]
          ELSE srv[a]]
    /\ net' = net \cup {Packet("h_s", m.addr, m.id2, m.id1, sseq)}
    /\ sseq' = sseq + 1
    /\ accepted' = accepted \cup {<<m.id1, m.id2>>}
    /\ UNCHANGED <<options, client_vars, sid, faults, answered, up, down>>

(* reserved_parse_safer at the server.                                     *)
ServerParses(m) ==
    LET s == srv[m.addr] IN
    /\ m.kind \in {"h_c", "d_c"} /\ s.state = "ready"
    /\ m.id1 = s.oppsite_id /\ m.id2 = s.my_id
    /\ m.seq \notin s.seen

(* server_on_raw_recv_ready; the conversations are Server's subject.       *)
ServerRecvSafer(m) ==
    /\ ServerParses(m)
    /\ srv' = [srv EXCEPT ![m.addr].seen = @ \cup {m.seq}]
    /\ up' = IF m.kind = "d_c" THEN [up EXCEPT ![m.seq] = @ + 1] ELSE up
    /\ UNCHANGED <<options, client_vars, sid, sseq, net, faults, answered, accepted, down>>

(* server_on_udp_recv of a ready connection.                               *)
ServerSendData(a) ==
    /\ a \in Owner /\ Sent("d_s") < MaxData
    /\ net' = net \cup {Packet("d_s", a, srv[a].my_id, srv[a].oppsite_id, sseq)}
    /\ sseq' = sseq + 1
    /\ UNCHANGED <<options, client_vars, srv, sid, faults, history>>

(* The client of this session uses, or is about to use, this connection.   *)
InUse(a) ==
    /\ a = caddr
    /\ \/ srv[a].state = "handshake1" /\ cstate = "handshake1"
       \/ srv[a].state = "handshake1" /\ cstate = "handshake2" /\ srv[a].my_id = copp
       \/ /\ srv[a].state = "ready" /\ cstate \in {"handshake2", "ready"}
          /\ srv[a].my_id = copp /\ srv[a].oppsite_id = cid

(* conn_manager's clear_inactive.                                          *)
Expire(a) ==
    /\ srv[a].state # "none"
    /\ IF InUse(a) THEN Fault ELSE UNCHANGED faults
    /\ srv' = [srv EXCEPT ![a] = NoConn]
    /\ UNCHANGED <<options, client_vars, sid, sseq, net, history>>

(* The server process is killed and started again: nothing is persistent.  *)
ServerRestart ==
    /\ \E a \in Addr : srv[a].state # "none"
    /\ Fault
    /\ srv' = [a \in Addr |-> NoConn]
    /\ UNCHANGED <<options, client_vars, sid, sseq, net, history>>

-----------------------------------------------------------------------------
ClientRecv(m) == ClientRecvSynAck(m) \/ ClientRecvHandshake(m) \/ ClientRecvSafer(m)

ServerRecv(m) ==
    \/ RecvSyn(m) \/ RecvFirstHandshake(m) \/ RecvHandshakeAgain(m)
    \/ IgnoreOlder(m) \/ TurnReady(m) \/ ServerRecvSafer(m)

Next ==
    \/ StartSession \/ ClientSendData \/ ClientTimeout
    \/ \E m \in net : ClientRecv(m) \/ ServerRecv(m)
    \/ \E a \in Addr : ServerSendData(a) \/ Expire(a)
    \/ ServerRestart

Spec == Init /\ [][Next]_vars

(* The timers of both sides run; a packet that is being retried arrives in *)
(* the end; a connection nobody uses times out, and so does a client that  *)
(* cannot get on.  Faults happen at will.                                  *)
Fairness ==
    /\ WF_vars(StartSession)
    /\ WF_vars(Stuck /\ ClientTimeout)
    /\ WF_vars(\E m \in net : ClientRecv(m))
    /\ WF_vars(\E m \in net : ServerRecv(m) /\ faults' = faults)
    /\ WF_vars(\E a \in Addr : Expire(a) /\ faults' = faults)

FairSpec == Spec /\ Fairness

-----------------------------------------------------------------------------
(* Every variable stays in its range.                                      *)
TypeOK ==
    /\ options \in Options
    /\ cstate \in {"idle", "tcp_handshake", "handshake1", "handshake2", "ready"}
    /\ cid \in Session \cup {NoId} /\ copp \in 0 .. MaxSid
    /\ cseq \in Nat /\ sseq \in Nat /\ sid \in 0 .. MaxSid
    /\ cseen \subseteq SeqNum
    /\ srv \in [Addr -> [state : {"none", "idle", "handshake1", "ready"},
                         my_id : 0 .. MaxSid, oppsite_id : Session \cup {NoId},
                         seen : SUBSET SeqNum]]
    /\ \A m \in net : m.seq \in SeqNum \cup {0} /\ m.addr \in Addr
    /\ up \in [SeqNum -> Nat] /\ down \in [SeqNum -> Nat]

(* Neither side is ready alone: a ready client's pair of ids was accepted  *)
(* by the server, and a ready connection's pair was confirmed by the       *)
(* client, whatever is lost, delayed or repeated and whoever restarts; and *)
(* the client is served by one connection, under one address.              *)
SessionAgreement ==
    /\ cstate = "ready" => <<cid, copp>> \in accepted
    /\ \A a \in Owner : <<srv[a].oppsite_id, srv[a].my_id>> \in answered
    /\ Cardinality(Owner) <= 1

(* Recovery never goes back to an older session of the client, however     *)
(* late its handshake arrives.                                             *)
NeverBack ==
    \A a, b \in Addr : (a \in Owner /\ b \in Owner') =>
        srv'[b].oppsite_id >= srv[a].oppsite_id
SessionMonotone == [][NeverBack]_vars

(* No data packet is handed up twice, even when the session changes and    *)
(* the replay windows of both sides start again.                           *)
DataAtMostOnce == \A n \in SeqNum : up[n] <= 1 /\ down[n] <= 1

(* README: after the connection is broken for any reason the client        *)
(* reconnects.  Once the faults are over, client and server end up ready   *)
(* for each other and stay so.                                             *)
EventuallyConnected ==
    <>[](/\ cstate = "ready"
         /\ srv[caddr].state = "ready"
         /\ srv[caddr].my_id = copp /\ srv[caddr].oppsite_id = cid)
=============================================================================
