---------------------------- MODULE TunnelProofs ----------------------------
(***************************************************************************)
(* Client and server agree on their sessions, for any number of sessions,  *)
(* faults and data packets.                                                *)
(***************************************************************************)
EXTENDS Tunnel, FiniteSetTheorems, TLAPS

Kinds == {"syn", "synack", "hs_c", "hs_s", "h_c", "h_s", "d_c", "d_s"}

ServerConn ==
    [state : {"none", "idle", "handshake1", "ready"}, my_id : Nat, oppsite_id : Nat,
     seen : SUBSET Nat]

Packets == [kind : Kinds, addr : Addr, id1 : Nat, id2 : Nat, seq : Nat]

(* The ranges the argument needs; TypeOK's bounds on sequence numbers are  *)
(* a matter of counting packets.                                           *)
Types ==
    /\ cid \in Session \cup {NoId} /\ copp \in Nat
    /\ cseq \in Nat /\ sseq \in Nat /\ sid \in Nat
    /\ cstate # "idle" => cid \in Session
    /\ srv \in [Addr -> ServerConn]
    /\ net \subseteq Packets
    /\ answered \subseteq Nat \X Nat
    /\ up \in [SeqNum -> Nat] /\ down \in [SeqNum -> Nat]

(* Packets of kind k.                                                      *)
Of(k) == {m \in net : m.kind = k}

(* Ids are drawn before they are used, and an address before it is served. *)
Ids ==
    /\ \A a \in Addr : srv[a].my_id <= sid
    /\ \A m \in Of("syn") : m.id1 <= cid /\ m.addr = AddrOf(m.id1)
    /\ \A m \in Of("hs_c") : m.id1 <= cid /\ m.addr = AddrOf(m.id1)
    /\ \A m \in Of("hs_s") : m.id1 <= sid /\ m.id2 <= cid /\ m.addr = AddrOf(m.id2)
    /\ force_source_port # 1 => \A a \in Addr : srv[a].state # "none" => a <= cid

(* No two live connections share an id, and only one is ready.             *)
OneReady == \A a, b \in Owner : a = b
OwnId ==
    \A a, b \in Addr :
        /\ srv[a].state = "handshake1" /\ srv[b].state \in {"handshake1", "ready"}
        /\ srv[a].my_id = srv[b].my_id
        => a = b

(* Who says so has been told so by the other side.                         *)
Confirmed ==
    /\ \A m \in Of("hs_c") : m.id2 # NoId => <<m.id1, m.id2>> \in answered
    /\ \A a \in Owner : <<srv[a].oppsite_id, srv[a].my_id>> \in answered
Granted ==
    /\ \A m \in Of("h_s") \cup Of("d_s") : <<m.id2, m.id1>> \in accepted
    /\ \A a \in Owner : <<srv[a].oppsite_id, srv[a].my_id>> \in accepted
    /\ cstate = "ready" => <<cid, copp>> \in accepted

(* A later session of the client was never answered with an older          *)
(* connection of the server.                                               *)
Answers ==
    \A p \in answered :
       \E m \in Of("hs_s") : m.addr = AddrOf(p[1]) /\ m.id2 = p[1] /\ m.id1 = p[2]
NewestHere ==
    \A a \in Addr : srv[a].state = "handshake1" =>
       /\ \A m \in Of("hs_s") : m.addr = a => m.id1 <= srv[a].my_id
       /\ force_source_port # 1 => \A p \in answered : p[1] < a => p[2] <= srv[a].my_id
SameOrder ==
    \A p \in answered :
       /\ \A m \in Of("hs_s") : p[1] < m.id2 => p[2] <= m.id1
       /\ \A q \in answered : p[1] < q[1] => p[2] <= q[2]

(* A sequence number stands for one packet of its sender.                  *)
FromClient == Of("h_c") \cup Of("d_c")
FromServer == Of("h_s") \cup Of("d_s")
SeqOnce ==
    /\ \A m \in FromClient : m.seq < cseq /\ \A n \in FromClient : m.seq = n.seq => m = n
    /\ \A m \in FromServer : m.seq < sseq /\ \A n \in FromServer : m.seq = n.seq => m = n

(* A data packet handed up will not be accepted again: the connection it   *)
(* names has seen it or is gone, and no new one will get its id.           *)
UpOnce ==
    /\ \A n \in SeqNum : up[n] <= 1 /\ (n >= cseq => up[n] = 0)
    /\ \A m \in Of("d_c") : m.seq \in SeqNum /\ up[m.seq] = 1 =>
          /\ m.id2 <= sid
          /\ \A a \in Addr : srv[a].my_id = m.id2 =>
                /\ srv[a].state # "handshake1"
                /\ srv[a].state = "ready" => m.seq \in srv[a].seen
DownOnce ==
    /\ \A n \in SeqNum : down[n] <= 1 /\ (n >= sseq => down[n] = 0)
    /\ \A m \in Of("d_s") : m.seq \in SeqNum /\ down[m.seq] = 1 =>
          m.id2 <= cid /\ (m.id2 = cid => m.seq \in cseen)

(* The remaining ranges of TypeOK.                                         *)
Ranges ==
    /\ options \in Options
    /\ cstate \in {"idle", "tcp_handshake", "handshake1", "handshake2", "ready"}
    /\ copp <= sid /\ sid <= MaxSid
    /\ \A a \in Addr : srv[a].oppsite_id <= cid
SeenRange ==
    /\ cseq >= 1 /\ sseq >= 1
    /\ \A m \in net : m.seq >= 1 <=> m \in FromClient \cup FromServer
    /\ \A n \in cseen : n \in Nat /\ n >= 1 /\ n < sseq
    /\ \A a \in Addr : \A n \in srv[a].seen : n >= 1 /\ n < cseq

(* The bounds on the sequence numbers count packets: the client numbers    *)
(* its data and one heartbeat per session, the server its data and one     *)
(* heartbeat for every connection that has become ready.                   *)
Data(k) == Cardinality(Of(k))
Finite == IsFiniteSet(net)
ClientCount ==
    /\ Data("d_c") <= MaxData
    /\ cseq <= 1 + Data("d_c") + cid
    /\ cstate \notin {"idle", "ready"} => cseq <= Data("d_c") + cid
Pending == {a \in Addr : srv[a].state = "handshake1"}
ServerCount ==
    /\ Data("d_s") <= MaxData
    /\ sseq + Cardinality(Pending) <= 1 + Data("d_s") + sid

(* The inductive invariant.                                                *)
IInv ==
    /\ Types /\ Ids /\ OneReady /\ OwnId /\ Confirmed /\ Granted
    /\ Answers /\ NewestHere /\ SameOrder
    /\ SeqOnce /\ UpOnce /\ DownOnce
    /\ Ranges /\ SeenRange /\ Finite /\ ClientCount /\ ServerCount

-----------------------------------------------------------------------------
(* What the server's handlers do to its connections.                       *)

OthersKept(a) == \A b \in Addr \ {a} : srv'[b] = srv[b]

(* The addresses of sessions are addresses.                                *)
LEMMA AddrOfSession == \A c \in Session : AddrOf(c) \in Addr
  BY BoundAssumption DEF AddrOf, Addr, Session

(* Counting a packet keeps a function from numbers to numbers.             *)
LEMMA CountType ==
    ASSUME NEW f \in [SeqNum -> Nat], NEW n
    PROVE  /\ [f EXCEPT ![n] = @ + 1] \in [SeqNum -> Nat]
           /\ \A i \in SeqNum : [f EXCEPT ![n] = @ + 1][i] = IF i = n THEN f[i] + 1 ELSE f[i]
<1> DEFINE g == [f EXCEPT ![n] = @ + 1]
<1>1. DOMAIN f = SeqNum /\ \A i \in SeqNum : f[i] \in Nat
  OBVIOUS
<1>2. g = [i \in SeqNum |-> IF i = n THEN f[n] + 1 ELSE f[i]]
  BY <1>1, Zenon
<1>3. \A i \in SeqNum : g[i] = IF i = n THEN f[i] + 1 ELSE f[i]
  BY <1>2
<1>4. \A i \in SeqNum : g[i] \in Nat
  BY <1>1, <1>3
<1> HIDE DEF g
<1>5. g \in [SeqNum -> Nat]
  BY <1>2, <1>4
<1> QED
  BY <1>3, <1>5 DEF g

(* What Packet makes is a packet.                                          *)
LEMMA PacketType ==
    ASSUME NEW k \in Kinds, NEW a \in Addr, NEW x \in Nat, NEW y \in Nat, NEW n \in Nat
    PROVE  Packet(k, a, x, y, n) \in Packets
  BY DEF Packet, Packets

(* What is known of any packet.                                            *)
LEMMA PacketFields ==
    ASSUME Types, NEW m \in net
    PROVE  m.kind \in Kinds /\ m.addr \in Addr /\ m.id1 \in Nat /\ m.id2 \in Nat /\ m.seq \in Nat
  BY DEF Types, Packets

(* What is known of any connection.                                        *)
LEMMA ConnFields ==
    ASSUME Types, NEW a \in Addr
    PROVE  /\ srv[a] \in ServerConn /\ srv[a].my_id \in Nat /\ srv[a].oppsite_id \in Nat
           /\ srv[a].seen \in SUBSET Nat
           /\ srv[a].state \in {"none", "idle", "handshake1", "ready"}
  BY DEF Types, ServerConn

(* A first handshake gives the address a connection with a new id.         *)
LEMMA FirstEffect ==
    ASSUME Types, NEW m \in net, RecvFirstHandshake(m)
    PROVE  /\ srv' \in [Addr -> ServerConn] /\ m.addr \in Addr /\ OthersKept(m.addr)
           /\ srv'[m.addr].state = "handshake1" /\ srv'[m.addr].my_id = sid + 1
           /\ srv'[m.addr].seen = {} /\ srv'[m.addr].oppsite_id = 0
           /\ m \in Of("hs_c") /\ srv[m.addr].state = "none" /\ sid' = sid + 1 /\ sid < MaxSid
           /\ net' = net \cup {Packet("hs_s", m.addr, sid + 1, m.id1, 0)}
           /\ UNCHANGED <<options, client_vars, sseq, history>>
<1> USE DEF options, client_vars, history
<1>1. PICK c \in ServerConn : c = NoConn
  BY DEF NoConn, NoId, ServerConn
<1>2. c.seen = {} /\ c.oppsite_id = 0 /\ sid + 1 \in Nat
  BY <1>1 DEF NoConn, NoId, Types
<1> DEFINE r == [c EXCEPT !.state = "handshake1", !.my_id = sid + 1]
<1>3. srv' = [srv EXCEPT ![m.addr] = r] /\ m.addr \in Addr
  BY <1>1, PacketFields DEF RecvFirstHandshake
<1>4. /\ r \in ServerConn /\ r.state = "handshake1" /\ r.my_id = sid + 1
      /\ r.seen = c.seen /\ r.oppsite_id = c.oppsite_id
  BY <1>2 DEF ServerConn
<1>5. /\ m \in Of("hs_c") /\ srv[m.addr].state = "none" /\ sid' = sid + 1 /\ sid < MaxSid
      /\ net' = net \cup {Packet("hs_s", m.addr, sid + 1, m.id1, 0)}
      /\ UNCHANGED <<options, client_vars, sseq, history>>
  BY DEF RecvFirstHandshake, Of, Reply
<1> HIDE DEF r
<1>6. srv' \in [Addr -> ServerConn] /\ OthersKept(m.addr) /\ srv'[m.addr] = r
  BY <1>3, <1>4 DEF Types, OthersKept
<1> QED
  BY <1>2, <1>3, <1>4, <1>5, <1>6

(* A refused second handshake leaves the connection idle.                  *)
LEMMA OlderEffect ==
    ASSUME Types, NEW m \in net, IgnoreOlder(m)
    PROVE  /\ srv' \in [Addr -> ServerConn] /\ m.addr \in Addr /\ OthersKept(m.addr)
           /\ srv'[m.addr].state = "idle" /\ srv'[m.addr].my_id = srv[m.addr].my_id
           /\ srv'[m.addr].oppsite_id = m.id1 /\ srv'[m.addr].seen = srv[m.addr].seen
           /\ srv[m.addr].state = "handshake1" /\ m \in Of("hs_c")
           /\ UNCHANGED <<options, client_vars, sid, sseq, net, history>>
<1> USE DEF options, client_vars, history
<1> DEFINE r == [srv[m.addr] EXCEPT !.state = "idle", !.oppsite_id = m.id1]
<1>1. m.addr \in Addr /\ m.id1 \in Nat /\ srv[m.addr] \in ServerConn
  BY PacketFields DEF Types
<1>2. srv' = [srv EXCEPT ![m.addr] = r]
  BY DEF IgnoreOlder, Types
<1>3. /\ r \in ServerConn /\ r.state = "idle" /\ r.my_id = srv[m.addr].my_id
      /\ r.oppsite_id = m.id1 /\ r.seen = srv[m.addr].seen
  BY <1>1 DEF ServerConn
<1>4. /\ srv[m.addr].state = "handshake1" /\ m \in Of("hs_c")
      /\ UNCHANGED <<options, client_vars, sid, sseq, net, history>>
  BY DEF IgnoreOlder, SecondHandshake, Of
<1> HIDE DEF r
<1>5. srv' \in [Addr -> ServerConn] /\ OthersKept(m.addr) /\ srv'[m.addr] = r
  BY <1>1, <1>2, <1>3 DEF Types, OthersKept
<1> QED
  BY <1>1, <1>3, <1>4, <1>5

(* An accepted one makes it ready and every other ready connection idle.   *)
LEMMA ReadyEffect ==
    ASSUME Types, NEW m \in net, TurnReady(m)
    PROVE  /\ srv' \in [Addr -> ServerConn] /\ m.addr \in Addr
           /\ srv[m.addr].state = "handshake1" /\ srv[m.addr].my_id = m.id2
           /\ srv'[m.addr].state = "ready" /\ srv'[m.addr].my_id = m.id2
           /\ srv'[m.addr].oppsite_id = m.id1 /\ srv'[m.addr].seen = srv[m.addr].seen
           /\ \A a \in Addr \ {m.addr} :
                 /\ a \in Owner => /\ srv'[a].state = "idle" /\ srv'[a].my_id = m.id2
                                   /\ srv'[a].oppsite_id = m.id1
                                   /\ srv'[a].seen = srv[m.addr].seen
                 /\ a \notin Owner => srv'[a] = srv[a]
           /\ m \in Of("hs_c") /\ m.id2 # NoId /\ ~Older(m.addr)
           /\ net' = net \cup {Packet("h_s", m.addr, m.id2, m.id1, sseq)}
           /\ sseq' = sseq + 1 /\ accepted' = accepted \cup {<<m.id1, m.id2>>}
           /\ UNCHANGED <<options, client_vars, sid, answered, up, down>>
<1> USE DEF options, client_vars, history
<1> DEFINE r == [srv[m.addr] EXCEPT !.state = "ready", !.oppsite_id = m.id1]
           s == [srv[m.addr] EXCEPT !.state = "idle", !.oppsite_id = m.id1]
<1>1. /\ m.addr \in Addr /\ m.id1 \in Nat /\ srv[m.addr] \in ServerConn
      /\ srv[m.addr].state = "handshake1" /\ srv[m.addr].my_id = m.id2
  BY PacketFields DEF Types, TurnReady, SecondHandshake
<1>2. srv' = [a \in Addr |-> IF a = m.addr THEN r ELSE IF a \in Owner THEN s ELSE srv[a]]
  BY DEF TurnReady
<1>3. /\ r \in ServerConn /\ r.state = "ready" /\ r.my_id = m.id2
      /\ r.oppsite_id = m.id1 /\ r.seen = srv[m.addr].seen
  BY <1>1 DEF ServerConn
<1>4. /\ s \in ServerConn /\ s.state = "idle" /\ s.my_id = m.id2
      /\ s.oppsite_id = m.id1 /\ s.seen = srv[m.addr].seen
  BY <1>1 DEF ServerConn
<1>5. /\ m \in Of("hs_c") /\ m.id2 # NoId /\ ~Older(m.addr)
      /\ net' = net \cup {Packet("h_s", m.addr, m.id2, m.id1, sseq)}
      /\ sseq' = sseq + 1 /\ accepted' = accepted \cup {<<m.id1, m.id2>>}
      /\ UNCHANGED <<options, client_vars, sid, answered, up, down>>
  BY DEF TurnReady, SecondHandshake, Of
<1> HIDE DEF r, s
<1>6. /\ srv' \in [Addr -> ServerConn] /\ srv'[m.addr] = r
      /\ \A a \in Addr \ {m.addr} : srv'[a] = IF a \in Owner THEN s ELSE srv[a]
  BY <1>1, <1>2, <1>3, <1>4 DEF Types
<1> QED
  BY <1>1, <1>3, <1>4, <1>5, <1>6

(* A packet of a ready connection is remembered.                           *)
LEMMA SaferEffect ==
    ASSUME Types, NEW m \in net, ServerRecvSafer(m)
    PROVE  /\ srv' \in [Addr -> ServerConn] /\ m.addr \in Addr /\ OthersKept(m.addr)
           /\ srv[m.addr].state = "ready" /\ srv'[m.addr].state = "ready"
           /\ srv'[m.addr].my_id = srv[m.addr].my_id
           /\ srv'[m.addr].oppsite_id = srv[m.addr].oppsite_id
           /\ srv'[m.addr].seen = srv[m.addr].seen \cup {m.seq}
           /\ m \in FromClient /\ m.id1 = srv[m.addr].oppsite_id /\ m.id2 = srv[m.addr].my_id
           /\ m.seq \notin srv[m.addr].seen
           /\ up' = IF m.kind = "d_c" THEN [up EXCEPT ![m.seq] = @ + 1] ELSE up
           /\ UNCHANGED <<options, client_vars, sid, sseq, net, answered, accepted, down>>
<1> USE DEF options, client_vars, history
<1> DEFINE r == [srv[m.addr] EXCEPT !.seen = @ \cup {m.seq}]
<1>1. m.addr \in Addr /\ m.seq \in Nat /\ srv[m.addr] \in ServerConn
  BY PacketFields DEF Types
<1>2. srv' = [srv EXCEPT ![m.addr] = r] /\ srv[m.addr].state = "ready"
  BY DEF ServerRecvSafer, ServerParses, Types
<1>3. /\ r \in ServerConn /\ r.state = srv[m.addr].state /\ r.my_id = srv[m.addr].my_id
      /\ r.oppsite_id = srv[m.addr].oppsite_id /\ r.seen = srv[m.addr].seen \cup {m.seq}
  BY <1>1 DEF ServerConn
<1>4. /\ m \in FromClient /\ m.id1 = srv[m.addr].oppsite_id /\ m.id2 = srv[m.addr].my_id
      /\ m.seq \notin srv[m.addr].seen
      /\ up' = IF m.kind = "d_c" THEN [up EXCEPT ![m.seq] = @ + 1] ELSE up
      /\ UNCHANGED <<options, client_vars, sid, sseq, net, answered, accepted, down>>
  BY DEF ServerRecvSafer, ServerParses, FromClient, Of
<1> HIDE DEF r
<1>5. srv' \in [Addr -> ServerConn] /\ OthersKept(m.addr) /\ srv'[m.addr] = r
  BY <1>1, <1>2, <1>3 DEF Types, OthersKept
<1> QED
  BY <1>1, <1>2, <1>3, <1>4, <1>5

(* Expiry and restart only forget connections.                             *)
Forgets ==
    /\ srv' \in [Addr -> ServerConn]
    /\ \A a \in Addr : \/ srv'[a] = srv[a]
                       \/ /\ srv'[a].state = "none" /\ srv'[a].my_id = 0
                          /\ srv'[a].oppsite_id = 0 /\ srv'[a].seen = {}
    /\ UNCHANGED <<options, client_vars, sid, sseq, net, history>>

(* That is all Expire and ServerRestart do.                                *)
LEMMA ForgetEffect ==
    ASSUME Types, ServerRestart \/ \E a \in Addr : Expire(a)
    PROVE  Forgets
<1>1. /\ NoConn \in ServerConn /\ NoConn.state = "none" /\ NoConn.my_id = 0
      /\ NoConn.oppsite_id = 0 /\ NoConn.seen = {}
  BY DEF NoConn, ServerConn, NoId
<1>2. CASE ServerRestart
  BY <1>1, <1>2 DEF ServerRestart, Forgets
<1>3. ASSUME NEW a \in Addr, Expire(a) PROVE Forgets
  <2>1. srv' = [srv EXCEPT ![a] = NoConn]
    BY <1>3 DEF Expire
  <2>2. /\ srv' \in [Addr -> ServerConn]
        /\ \A b \in Addr : \/ srv'[b] = srv[b]
                           \/ /\ srv'[b].state = "none" /\ srv'[b].my_id = 0
                              /\ srv'[b].oppsite_id = 0 /\ srv'[b].seen = {}
    BY <1>1, <2>1 DEF Types
  <2> QED
    BY <1>3, <2>2 DEF Expire, Forgets, options, client_vars, history
<1> QED
  BY <1>2, <1>3

(* An answer that was confirmed was given before.                          *)
LEMMA AnsweredIds ==
    ASSUME Types, Ids, Answers, NEW p \in answered
    PROVE  p[1] \in Nat /\ p[2] \in Nat /\ p[1] <= cid /\ p[2] <= sid
  BY DEF Types, Ids, Answers, Of

-----------------------------------------------------------------------------
(* One lemma per part of the invariant, one case per action.               *)

(* Every step keeps the ranges.                                            *)
LEMMA StepTypes == ASSUME Types, [Next]_vars PROVE Types'
<1> USE DEF options, client_vars, server_vars, history
<1>0. CASE UNCHANGED vars
  BY <1>0 DEF vars, Types
<1>1. CASE StartSession
  <2>1. cid' \in Session /\ cid' \in Nat
    BY <1>1, BoundAssumption DEF StartSession, Types, Session, NoId
  <2>2. net' \subseteq Packets
    BY <1>1, <2>1, AddrOfSession, PacketType
    DEF StartSession, FirstHandshake, Types, Kinds, NoId
  <2> QED
    BY <1>1, <2>1, <2>2 DEF StartSession, Types
<1>2. CASE ClientSendData
  <2>1. net' \subseteq Packets
    BY <1>2, AddrOfSession, PacketType DEF ClientSendData, caddr, Types, Kinds, Session
  <2> QED
    BY <1>2, <2>1 DEF ClientSendData, Types
<1>3. CASE ClientTimeout
  BY <1>3 DEF ClientTimeout, Types
<1>4. ASSUME NEW m \in net, ClientRecvSynAck(m) PROVE Types'
  <2>1. net' \subseteq Packets
    BY <1>4, AddrOfSession, PacketType
    DEF ClientRecvSynAck, FirstHandshake, Types, Kinds, NoId, Session
  <2> QED
    BY <1>4, <2>1 DEF ClientRecvSynAck, Types
<1>5. ASSUME NEW m \in net, ClientRecvHandshake(m) PROVE Types'
  <2>1. cid \in Session /\ cid \in Nat /\ m.id1 \in Nat
    BY <1>5, PacketFields DEF ClientRecvHandshake, Types, Session
  <2>2. net' \subseteq Packets
    BY <1>5, <2>1, AddrOfSession, PacketType DEF ClientRecvHandshake, caddr, Types, Kinds
  <2> QED
    BY <1>5, <2>1, <2>2 DEF ClientRecvHandshake, Types
<1>6. ASSUME NEW m \in net, ClientRecvSafer(m) PROVE Types'
  <2>1. net' \subseteq Packets /\ cseq' \in Nat
    BY <1>6, AddrOfSession, PacketType DEF ClientRecvSafer, caddr, Types, Kinds, Session
  <2>2. down' \in [SeqNum -> Nat]
    BY <1>6, CountType DEF ClientRecvSafer, Types
  <2> QED
    BY <1>6, <2>1, <2>2 DEF ClientRecvSafer, Types
<1>7. ASSUME NEW m \in net, RecvSyn(m) PROVE Types'
  <2>1. net' \subseteq Packets
    BY <1>7, PacketFields, PacketType DEF RecvSyn, Types, Kinds, NoId
  <2> QED
    BY <1>7, <2>1 DEF RecvSyn, Types
<1>8. ASSUME NEW m \in net, RecvFirstHandshake(m) PROVE Types'
  <2>1. Packet("hs_s", m.addr, sid + 1, m.id1, 0) \in Packets
    BY PacketFields, PacketType DEF Types, Kinds
  <2>2. net' = net \cup {Packet("hs_s", m.addr, sid + 1, m.id1, 0)}
    BY <1>8, FirstEffect
  <2>3. net' \subseteq Packets
    BY <2>1, <2>2 DEF Types
  <2> QED
    BY <1>8, <2>3, FirstEffect DEF Types
<1>9. ASSUME NEW m \in net, RecvHandshakeAgain(m) PROVE Types'
  <2>1. net' \subseteq Packets
    BY <1>9, PacketFields, ConnFields, PacketType DEF RecvHandshakeAgain, Reply, Types, Kinds
  <2> QED
    BY <1>9, <2>1 DEF RecvHandshakeAgain, Types
<1>10. ASSUME NEW m \in net, IgnoreOlder(m) PROVE Types'
  BY <1>10, OlderEffect DEF Types
<1>11. ASSUME NEW m \in net, TurnReady(m) PROVE Types'
  <2>1. Packet("h_s", m.addr, m.id2, m.id1, sseq) \in Packets
    BY PacketFields, PacketType DEF Types, Kinds
  <2>2. net' = net \cup {Packet("h_s", m.addr, m.id2, m.id1, sseq)}
    BY <1>11, ReadyEffect
  <2>3. net' \subseteq Packets
    BY <2>1, <2>2 DEF Types
  <2> QED
    BY <1>11, <2>3, ReadyEffect DEF Types
<1>12. ASSUME NEW m \in net, ServerRecvSafer(m) PROVE Types'
  <2>1. up' \in [SeqNum -> Nat]
    BY <1>12, SaferEffect, CountType DEF Types
  <2> QED
    BY <1>12, <2>1, SaferEffect DEF Types
<1>13. ASSUME NEW a \in Addr, ServerSendData(a) PROVE Types'
  <2>1. net' \subseteq Packets
    BY <1>13, ConnFields, PacketType DEF ServerSendData, Types, Kinds
  <2> QED
    BY <1>13, <2>1 DEF ServerSendData, Types
<1>14. CASE Forgets
  BY <1>14 DEF Forgets, Types
<1> QED
  BY ForgetEffect, <1>0, <1>1, <1>2, <1>3, <1>4, <1>5, <1>6, <1>7, <1>8, <1>9, <1>10, <1>11,
     <1>12, <1>13, <1>14
  DEF Next, ClientRecv, ServerRecv

(* Ids stay below the counters they are drawn from.                        *)
LEMMA StepIds == ASSUME Types, Ids, [Next]_vars PROVE Ids'
<1> USE DEF options, client_vars, server_vars, history
<1>0. CASE UNCHANGED vars
  BY <1>0 DEF vars, Ids, Types, Of, Packet, AddrOf, caddr, NoId
<1>1. CASE StartSession
  <2>1. cid' = cid + 1 /\ cid \in Nat /\ UNCHANGED <<sid, srv, force_source_port>>
    BY <1>1 DEF StartSession, Types, Session, NoId
  <2>2. /\ \A n \in Of("syn")' : n.id1 <= cid + 1 /\ n.addr = AddrOf(n.id1)
        /\ \A n \in Of("hs_c")' : n.id1 <= cid + 1 /\ n.addr = AddrOf(n.id1)
        /\ Of("hs_s")' = Of("hs_s")
    BY <1>1, <2>1, PacketFields DEF StartSession, FirstHandshake, Ids, Of, Packet
  <2>3. \A n \in Of("hs_s") : n.id2 <= cid + 1
    BY <2>1, PacketFields DEF Ids, Of
  <2>4. \A a \in Addr : a <= cid => a <= cid + 1
    BY <2>1 DEF Addr, Session
  <2> QED
    BY <2>1, <2>2, <2>3, <2>4 DEF Ids, AddrOf
<1>2. CASE ClientSendData
  BY <1>2, PacketFields, ConnFields
  DEF ClientSendData, Ids, Types, Of, Packet, AddrOf, caddr, NoId
<1>3. CASE ClientTimeout
  BY <1>3, PacketFields, ConnFields
  DEF ClientTimeout, Ids, Types, Of, Packet, AddrOf, caddr, NoId
<1>4. ASSUME NEW m \in net, ClientRecvSynAck(m) PROVE Ids'
  BY <1>4, PacketFields, ConnFields
  DEF ClientRecvSynAck, FirstHandshake, Ids, Types, Of, Packet, AddrOf, caddr, NoId
<1>5. ASSUME NEW m \in net, ClientRecvHandshake(m) PROVE Ids'
  BY <1>5, PacketFields, ConnFields
  DEF ClientRecvHandshake, Ids, Types, Of, Packet, AddrOf, caddr, NoId
<1>6. ASSUME NEW m \in net, ClientRecvSafer(m) PROVE Ids'
  BY <1>6, PacketFields, ConnFields
  DEF ClientRecvSafer, ClientParses, Ids, Types, Of, Packet, AddrOf, caddr, NoId
<1>7. ASSUME NEW m \in net, RecvSyn(m) PROVE Ids'
  BY <1>7, PacketFields, ConnFields DEF RecvSyn, Ids, Types, Of, Packet, AddrOf, caddr, NoId
<1>8. ASSUME NEW m \in net, RecvFirstHandshake(m) PROVE Ids'
  BY <1>8, FirstEffect, PacketFields, ConnFields
  DEF OthersKept, Ids, Types, Of, Packet, AddrOf, caddr, NoId
<1>9. ASSUME NEW m \in net, RecvHandshakeAgain(m) PROVE Ids'
  BY <1>9, PacketFields, ConnFields
  DEF RecvHandshakeAgain, Reply, Ids, Types, Of, Packet, AddrOf, caddr, NoId
<1>10. ASSUME NEW m \in net, IgnoreOlder(m) PROVE Ids'
  <2>1. /\ \A a \in Addr : srv'[a].my_id <= sid'
        /\ force_source_port' # 1 => \A a \in Addr : srv'[a].state # "none" => a <= cid'
    BY <1>10, OlderEffect DEF Ids, OthersKept, Owner, options, client_vars
  <2>2. UNCHANGED <<sid, cid, force_source_port>>
    BY <1>10, OlderEffect DEF options, client_vars
  <2>3. /\ \A n \in Of("syn")' : n.id1 <= cid /\ n.addr = AddrOf(n.id1)
        /\ \A n \in Of("hs_c")' : n.id1 <= cid /\ n.addr = AddrOf(n.id1)
        /\ \A n \in Of("hs_s")' : n.id1 <= sid /\ n.id2 <= cid /\ n.addr = AddrOf(n.id2)
    BY <1>10, OlderEffect DEF Ids, Of, Packet
  <2> QED
    BY <2>1, <2>2, <2>3 DEF Ids, AddrOf
<1>11. ASSUME NEW m \in net, TurnReady(m) PROVE Ids'
  <2>1. /\ \A a \in Addr : srv'[a].my_id <= sid'
        /\ force_source_port' # 1 => \A a \in Addr : srv'[a].state # "none" => a <= cid'
    BY <1>11, ReadyEffect DEF Ids, OthersKept, Owner, options, client_vars
  <2>2. UNCHANGED <<sid, cid, force_source_port>>
    BY <1>11, ReadyEffect DEF options, client_vars
  <2>3. /\ \A n \in Of("syn")' : n.id1 <= cid /\ n.addr = AddrOf(n.id1)
        /\ \A n \in Of("hs_c")' : n.id1 <= cid /\ n.addr = AddrOf(n.id1)
        /\ \A n \in Of("hs_s")' : n.id1 <= sid /\ n.id2 <= cid /\ n.addr = AddrOf(n.id2)
    BY <1>11, ReadyEffect DEF Ids, Of, Packet
  <2> QED
    BY <2>1, <2>2, <2>3 DEF Ids, AddrOf
<1>12. ASSUME NEW m \in net, ServerRecvSafer(m) PROVE Ids'
  BY <1>12, SaferEffect, PacketFields, ConnFields
  DEF OthersKept, Ids, Types, Of, Packet, AddrOf, caddr, NoId
<1>13. ASSUME NEW a \in Addr, ServerSendData(a) PROVE Ids'
  BY <1>13, PacketFields, ConnFields
  DEF ServerSendData, Ids, Types, Of, Packet, AddrOf, caddr, NoId
<1>14. CASE Forgets
  BY <1>14, PacketFields, ConnFields DEF Forgets, Ids, Types, Of, Packet, AddrOf, caddr, NoId
<1> QED
  BY ForgetEffect, <1>0, <1>1, <1>2, <1>3, <1>4, <1>5, <1>6, <1>7, <1>8, <1>9, <1>10, <1>11,
     <1>12, <1>13, <1>14
  DEF Next, ClientRecv, ServerRecv

(* A connection becomes ready in place of the ready one.                   *)
LEMMA StepOneReady == ASSUME Types, OneReady, [Next]_vars PROVE OneReady'
<1> USE DEF options, client_vars, server_vars, history
<1>0. CASE UNCHANGED vars
  BY <1>0 DEF vars, OneReady, Owner
<1>1. CASE StartSession
  BY <1>1 DEF StartSession, FirstHandshake, OneReady, Owner
<1>2. CASE ClientSendData
  BY <1>2 DEF ClientSendData, OneReady, Owner
<1>3. CASE ClientTimeout
  BY <1>3 DEF ClientTimeout, OneReady, Owner
<1>4. ASSUME NEW m \in net, ClientRecvSynAck(m) PROVE OneReady'
  BY <1>4 DEF ClientRecvSynAck, FirstHandshake, OneReady, Owner
<1>5. ASSUME NEW m \in net, ClientRecvHandshake(m) PROVE OneReady'
  BY <1>5 DEF ClientRecvHandshake, OneReady, Owner
<1>6. ASSUME NEW m \in net, ClientRecvSafer(m) PROVE OneReady'
  BY <1>6 DEF ClientRecvSafer, ClientParses, OneReady, Owner
<1>7. ASSUME NEW m \in net, RecvSyn(m) PROVE OneReady'
  BY <1>7 DEF RecvSyn, OneReady, Owner
<1>8. ASSUME NEW m \in net, RecvFirstHandshake(m) PROVE OneReady'
  BY <1>8, FirstEffect DEF OthersKept, OneReady, Owner
<1>9. ASSUME NEW m \in net, RecvHandshakeAgain(m) PROVE OneReady'
  BY <1>9 DEF RecvHandshakeAgain, Reply, OneReady, Owner
<1>10. ASSUME NEW m \in net, IgnoreOlder(m) PROVE OneReady'
  BY <1>10, OlderEffect DEF OthersKept, OneReady, Owner
<1>11. ASSUME NEW m \in net, TurnReady(m) PROVE OneReady'
  BY <1>11, ReadyEffect DEF OneReady, Owner
<1>12. ASSUME NEW m \in net, ServerRecvSafer(m) PROVE OneReady'
  BY <1>12, SaferEffect DEF OthersKept, OneReady, Owner
<1>13. ASSUME NEW a \in Addr, ServerSendData(a) PROVE OneReady'
  BY <1>13 DEF ServerSendData, OneReady, Owner
<1>14. CASE Forgets
  BY <1>14 DEF Forgets, OneReady, Owner
<1> QED
  BY ForgetEffect, <1>0, <1>1, <1>2, <1>3, <1>4, <1>5, <1>6, <1>7, <1>8, <1>9, <1>10, <1>11,
     <1>12, <1>13, <1>14
  DEF Next, ClientRecv, ServerRecv

(* A new connection has a new id.                                          *)
LEMMA StepOwnId == ASSUME Types, Ids, OwnId, [Next]_vars PROVE OwnId'
<1> USE DEF options, client_vars, server_vars, history
<1>0. CASE UNCHANGED vars
  BY <1>0 DEF vars, OwnId, Ids, Owner, Types
<1>1. CASE StartSession
  BY <1>1, ConnFields DEF StartSession, FirstHandshake, OwnId, Ids, Owner, Types
<1>2. CASE ClientSendData
  BY <1>2, ConnFields DEF ClientSendData, OwnId, Ids, Owner, Types
<1>3. CASE ClientTimeout
  BY <1>3, ConnFields DEF ClientTimeout, OwnId, Ids, Owner, Types
<1>4. ASSUME NEW m \in net, ClientRecvSynAck(m) PROVE OwnId'
  BY <1>4, ConnFields DEF ClientRecvSynAck, FirstHandshake, OwnId, Ids, Owner, Types
<1>5. ASSUME NEW m \in net, ClientRecvHandshake(m) PROVE OwnId'
  BY <1>5, ConnFields DEF ClientRecvHandshake, OwnId, Ids, Owner, Types
<1>6. ASSUME NEW m \in net, ClientRecvSafer(m) PROVE OwnId'
  BY <1>6, ConnFields DEF ClientRecvSafer, ClientParses, OwnId, Ids, Owner, Types
<1>7. ASSUME NEW m \in net, RecvSyn(m) PROVE OwnId'
  BY <1>7, ConnFields DEF RecvSyn, OwnId, Ids, Owner, Types
<1>8. ASSUME NEW m \in net, RecvFirstHandshake(m) PROVE OwnId'
  BY <1>8, FirstEffect, ConnFields DEF OthersKept, OwnId, Ids, Owner, Types
<1>9. ASSUME NEW m \in net, RecvHandshakeAgain(m) PROVE OwnId'
  BY <1>9, ConnFields DEF RecvHandshakeAgain, Reply, OwnId, Ids, Owner, Types
<1>10. ASSUME NEW m \in net, IgnoreOlder(m) PROVE OwnId'
  BY <1>10, OlderEffect, ConnFields DEF OthersKept, OwnId, Ids, Owner, Types
<1>11. ASSUME NEW m \in net, TurnReady(m) PROVE OwnId'
  BY <1>11, ReadyEffect, ConnFields DEF OwnId, Ids, Owner, Types
<1>12. ASSUME NEW m \in net, ServerRecvSafer(m) PROVE OwnId'
  BY <1>12, SaferEffect, ConnFields DEF OthersKept, OwnId, Ids, Owner, Types
<1>13. ASSUME NEW a \in Addr, ServerSendData(a) PROVE OwnId'
  BY <1>13, ConnFields DEF ServerSendData, OwnId, Ids, Owner, Types
<1>14. CASE Forgets
  BY <1>14, ConnFields DEF Forgets, OwnId, Ids, Owner, Types
<1> QED
  BY ForgetEffect, <1>0, <1>1, <1>2, <1>3, <1>4, <1>5, <1>6, <1>7, <1>8, <1>9, <1>10, <1>11,
     <1>12, <1>13, <1>14
  DEF Next, ClientRecv, ServerRecv

(* A ready connection was confirmed by the client.                         *)
LEMMA StepConfirmed == ASSUME Types, Confirmed, [Next]_vars PROVE Confirmed'
<1> USE DEF options, client_vars, server_vars, history
<1>0. CASE UNCHANGED vars
  BY <1>0 DEF vars, Confirmed, Owner, Of, Packet, NoId, caddr
<1>1. CASE StartSession
  BY <1>1, PacketFields
  DEF StartSession, FirstHandshake, Confirmed, Owner, Of, Packet, NoId, caddr
<1>2. CASE ClientSendData
  BY <1>2, PacketFields DEF ClientSendData, Confirmed, Owner, Of, Packet, NoId, caddr
<1>3. CASE ClientTimeout
  BY <1>3, PacketFields DEF ClientTimeout, Confirmed, Owner, Of, Packet, NoId, caddr
<1>4. ASSUME NEW m \in net, ClientRecvSynAck(m) PROVE Confirmed'
  BY <1>4, PacketFields
  DEF ClientRecvSynAck, FirstHandshake, Confirmed, Owner, Of, Packet, NoId, caddr
<1>5. ASSUME NEW m \in net, ClientRecvHandshake(m) PROVE Confirmed'
  BY <1>5, PacketFields DEF ClientRecvHandshake, Confirmed, Owner, Of, Packet, NoId, caddr
<1>6. ASSUME NEW m \in net, ClientRecvSafer(m) PROVE Confirmed'
  BY <1>6, PacketFields
  DEF ClientRecvSafer, ClientParses, Confirmed, Owner, Of, Packet, NoId, caddr
<1>7. ASSUME NEW m \in net, RecvSyn(m) PROVE Confirmed'
  BY <1>7, PacketFields DEF RecvSyn, Confirmed, Owner, Of, Packet, NoId, caddr
<1>8. ASSUME NEW m \in net, RecvFirstHandshake(m) PROVE Confirmed'
  BY <1>8, FirstEffect, PacketFields DEF OthersKept, Confirmed, Owner, Of, Packet, NoId, caddr
<1>9. ASSUME NEW m \in net, RecvHandshakeAgain(m) PROVE Confirmed'
  BY <1>9, PacketFields
  DEF RecvHandshakeAgain, Reply, Confirmed, Owner, Of, Packet, NoId, caddr
<1>10. ASSUME NEW m \in net, IgnoreOlder(m) PROVE Confirmed'
  BY <1>10, OlderEffect, PacketFields
  DEF OthersKept, Confirmed, Owner, Of, Packet, NoId, caddr
<1>11. ASSUME NEW m \in net, TurnReady(m) PROVE Confirmed'
  BY <1>11, ReadyEffect, PacketFields DEF Confirmed, Owner, Of, Packet, NoId, caddr
<1>12. ASSUME NEW m \in net, ServerRecvSafer(m) PROVE Confirmed'
  BY <1>12, SaferEffect, PacketFields
  DEF OthersKept, Confirmed, Owner, Of, Packet, NoId, caddr
<1>13. ASSUME NEW a \in Addr, ServerSendData(a) PROVE Confirmed'
  BY <1>13, PacketFields DEF ServerSendData, Confirmed, Owner, Of, Packet, NoId, caddr
<1>14. CASE Forgets
  BY <1>14, PacketFields DEF Forgets, Confirmed, Owner, Of, Packet, NoId, caddr
<1> QED
  BY ForgetEffect, <1>0, <1>1, <1>2, <1>3, <1>4, <1>5, <1>6, <1>7, <1>8, <1>9, <1>10, <1>11,
     <1>12, <1>13, <1>14
  DEF Next, ClientRecv, ServerRecv

(* A ready client was accepted by the server.                              *)
LEMMA StepGranted == ASSUME Types, Granted, [Next]_vars PROVE Granted'
<1> USE DEF options, client_vars, server_vars, history
<1>0. CASE UNCHANGED vars
  BY <1>0 DEF vars, Granted, Owner, Of, Packet, NoId, caddr
<1>1. CASE StartSession
  BY <1>1, PacketFields
  DEF StartSession, FirstHandshake, Granted, Owner, Of, Packet, NoId, caddr
<1>2. CASE ClientSendData
  BY <1>2, PacketFields DEF ClientSendData, Granted, Owner, Of, Packet, NoId, caddr
<1>3. CASE ClientTimeout
  BY <1>3, PacketFields DEF ClientTimeout, Granted, Owner, Of, Packet, NoId, caddr
<1>4. ASSUME NEW m \in net, ClientRecvSynAck(m) PROVE Granted'
  BY <1>4, PacketFields
  DEF ClientRecvSynAck, FirstHandshake, Granted, Owner, Of, Packet, NoId, caddr
<1>5. ASSUME NEW m \in net, ClientRecvHandshake(m) PROVE Granted'
  BY <1>5, PacketFields DEF ClientRecvHandshake, Granted, Owner, Of, Packet, NoId, caddr
<1>6. ASSUME NEW m \in net, ClientRecvSafer(m) PROVE Granted'
  BY <1>6, PacketFields
  DEF ClientRecvSafer, ClientParses, Granted, Owner, Of, Packet, NoId, caddr
<1>7. ASSUME NEW m \in net, RecvSyn(m) PROVE Granted'
  BY <1>7, PacketFields DEF RecvSyn, Granted, Owner, Of, Packet, NoId, caddr
<1>8. ASSUME NEW m \in net, RecvFirstHandshake(m) PROVE Granted'
  BY <1>8, FirstEffect, PacketFields DEF OthersKept, Granted, Owner, Of, Packet, NoId, caddr
<1>9. ASSUME NEW m \in net, RecvHandshakeAgain(m) PROVE Granted'
  BY <1>9, PacketFields DEF RecvHandshakeAgain, Reply, Granted, Owner, Of, Packet, NoId, caddr
<1>10. ASSUME NEW m \in net, IgnoreOlder(m) PROVE Granted'
  BY <1>10, OlderEffect, PacketFields DEF OthersKept, Granted, Owner, Of, Packet, NoId, caddr
<1>11. ASSUME NEW m \in net, TurnReady(m) PROVE Granted'
  BY <1>11, ReadyEffect, PacketFields DEF Granted, Owner, Of, Packet, NoId, caddr
<1>12. ASSUME NEW m \in net, ServerRecvSafer(m) PROVE Granted'
  BY <1>12, SaferEffect, PacketFields DEF OthersKept, Granted, Owner, Of, Packet, NoId, caddr
<1>13. ASSUME NEW a \in Addr, ServerSendData(a) PROVE Granted'
  BY <1>13, PacketFields DEF ServerSendData, Granted, Owner, Of, Packet, NoId, caddr
<1>14. CASE Forgets
  BY <1>14, PacketFields DEF Forgets, Granted, Owner, Of, Packet, NoId, caddr
<1> QED
  BY ForgetEffect, <1>0, <1>1, <1>2, <1>3, <1>4, <1>5, <1>6, <1>7, <1>8, <1>9, <1>10, <1>11,
     <1>12, <1>13, <1>14
  DEF Next, ClientRecv, ServerRecv

(* Every answer the client confirmed is on the net.                        *)
LEMMA StepAnswers == ASSUME Types, Answers, [Next]_vars PROVE Answers'
<1> USE DEF options, client_vars, server_vars, history
<1>0. CASE UNCHANGED vars
  BY <1>0 DEF vars, Answers, Of, Packet, AddrOf, caddr
<1>1. CASE StartSession
  BY <1>1, PacketFields DEF StartSession, FirstHandshake, Answers, Of, Packet, AddrOf, caddr
<1>2. CASE ClientSendData
  BY <1>2, PacketFields DEF ClientSendData, Answers, Of, Packet, AddrOf, caddr
<1>3. CASE ClientTimeout
  BY <1>3, PacketFields DEF ClientTimeout, Answers, Of, Packet, AddrOf, caddr
<1>4. ASSUME NEW m \in net, ClientRecvSynAck(m) PROVE Answers'
  BY <1>4, PacketFields
  DEF ClientRecvSynAck, FirstHandshake, Answers, Of, Packet, AddrOf, caddr
<1>5. ASSUME NEW m \in net, ClientRecvHandshake(m) PROVE Answers'
  BY <1>5, PacketFields DEF ClientRecvHandshake, Answers, Of, Packet, AddrOf, caddr
<1>6. ASSUME NEW m \in net, ClientRecvSafer(m) PROVE Answers'
  BY <1>6, PacketFields DEF ClientRecvSafer, ClientParses, Answers, Of, Packet, AddrOf, caddr
<1>7. ASSUME NEW m \in net, RecvSyn(m) PROVE Answers'
  BY <1>7, PacketFields DEF RecvSyn, Answers, Of, Packet, AddrOf, caddr
<1>8. ASSUME NEW m \in net, RecvFirstHandshake(m) PROVE Answers'
  BY <1>8, FirstEffect, PacketFields DEF OthersKept, Answers, Of, Packet, AddrOf, caddr
<1>9. ASSUME NEW m \in net, RecvHandshakeAgain(m) PROVE Answers'
  BY <1>9, PacketFields DEF RecvHandshakeAgain, Reply, Answers, Of, Packet, AddrOf, caddr
<1>10. ASSUME NEW m \in net, IgnoreOlder(m) PROVE Answers'
  BY <1>10, OlderEffect, PacketFields DEF OthersKept, Answers, Of, Packet, AddrOf, caddr
<1>11. ASSUME NEW m \in net, TurnReady(m) PROVE Answers'
  BY <1>11, ReadyEffect, PacketFields DEF Answers, Of, Packet, AddrOf, caddr
<1>12. ASSUME NEW m \in net, ServerRecvSafer(m) PROVE Answers'
  BY <1>12, SaferEffect, PacketFields DEF OthersKept, Answers, Of, Packet, AddrOf, caddr
<1>13. ASSUME NEW a \in Addr, ServerSendData(a) PROVE Answers'
  BY <1>13, PacketFields DEF ServerSendData, Answers, Of, Packet, AddrOf, caddr
<1>14. CASE Forgets
  BY <1>14, PacketFields DEF Forgets, Answers, Of, Packet, AddrOf, caddr
<1> QED
  BY ForgetEffect, <1>0, <1>1, <1>2, <1>3, <1>4, <1>5, <1>6, <1>7, <1>8, <1>9, <1>10, <1>11,
     <1>12, <1>13, <1>14
  DEF Next, ClientRecv, ServerRecv

(* The connection at an address is the newest there was.                   *)
LEMMA StepNewestHere == ASSUME Types, Ids, Answers, NewestHere, [Next]_vars PROVE NewestHere'
<1> USE DEF options, client_vars, server_vars, history
<1>0. CASE UNCHANGED vars
  BY <1>0 DEF vars, NewestHere, Ids, Types, Of, Packet, AddrOf, caddr
<1>1. CASE StartSession
  BY <1>1, PacketFields, ConnFields
  DEF StartSession, FirstHandshake, NewestHere, Ids, Types, Of, Packet, AddrOf, caddr
<1>2. CASE ClientSendData
  BY <1>2, PacketFields, ConnFields
  DEF ClientSendData, NewestHere, Ids, Types, Of, Packet, AddrOf, caddr
<1>3. CASE ClientTimeout
  BY <1>3, PacketFields, ConnFields
  DEF ClientTimeout, NewestHere, Ids, Types, Of, Packet, AddrOf, caddr
<1>4. ASSUME NEW m \in net, ClientRecvSynAck(m) PROVE NewestHere'
  BY <1>4, PacketFields, ConnFields
  DEF ClientRecvSynAck, FirstHandshake, NewestHere, Ids, Types, Of, Packet, AddrOf, caddr
<1>5. ASSUME NEW m \in net, ClientRecvHandshake(m) PROVE NewestHere'
  <2>1. /\ Of("hs_s")' = Of("hs_s") /\ UNCHANGED <<srv, force_source_port>>
        /\ answered' = answered \cup {<<cid, m.id1>>}
    BY <1>5 DEF ClientRecvHandshake, Of, Packet
  <2>2. force_source_port # 1 =>
           \A a \in Addr : srv[a].state = "handshake1" => ~(cid < a)
    BY <1>5 DEF Ids, Types, Addr, Session, ClientRecvHandshake
  <2> QED
    BY <2>1, <2>2 DEF NewestHere
<1>6. ASSUME NEW m \in net, ClientRecvSafer(m) PROVE NewestHere'
  BY <1>6, PacketFields, ConnFields
  DEF ClientRecvSafer, ClientParses, NewestHere, Ids, Types, Of, Packet, AddrOf, caddr
<1>7. ASSUME NEW m \in net, RecvSyn(m) PROVE NewestHere'
  BY <1>7, PacketFields, ConnFields
  DEF RecvSyn, NewestHere, Ids, Types, Of, Packet, AddrOf, caddr
<1>8. ASSUME NEW m \in net, RecvFirstHandshake(m) PROVE NewestHere'
  <2>1. /\ Of("hs_s")' = Of("hs_s") \cup {Packet("hs_s", m.addr, sid + 1, m.id1, 0)}
        /\ UNCHANGED <<answered, force_source_port>> /\ sid \in Nat /\ m.addr \in Addr
    BY <1>8, FirstEffect, PacketFields DEF Of, Packet, Types
  <2>2. Packet("hs_s", m.addr, sid + 1, m.id1, 0).addr = m.addr
        /\ Packet("hs_s", m.addr, sid + 1, m.id1, 0).id1 = sid + 1
    BY DEF Packet
  <2>3. \A n \in Of("hs_s") : n.id1 <= sid + 1
    BY <2>1, PacketFields DEF Ids, Of
  <2>4. \A p \in answered : p[2] <= sid + 1
    BY <2>1, AnsweredIds
  <2>5. srv'[m.addr].my_id = sid + 1 /\ \A a \in Addr \ {m.addr} : srv'[a] = srv[a]
    BY <1>8, FirstEffect DEF OthersKept
  <2>6. sid + 1 <= sid + 1
    BY <2>1
  <2> QED
    BY <2>1, <2>2, <2>3, <2>4, <2>5, <2>6 DEF NewestHere
<1>9. ASSUME NEW m \in net, RecvHandshakeAgain(m) PROVE NewestHere'
  BY <1>9, PacketFields, ConnFields
  DEF RecvHandshakeAgain, Reply, NewestHere, Ids, Types, Of, Packet, AddrOf, caddr
<1>10. ASSUME NEW m \in net, IgnoreOlder(m) PROVE NewestHere'
  BY <1>10, OlderEffect, PacketFields, ConnFields
  DEF OthersKept, NewestHere, Ids, Types, Of, Packet, AddrOf, caddr
<1>11. ASSUME NEW m \in net, TurnReady(m) PROVE NewestHere'
  BY <1>11, ReadyEffect, PacketFields, ConnFields
  DEF NewestHere, Ids, Types, Of, Packet, AddrOf, caddr
<1>12. ASSUME NEW m \in net, ServerRecvSafer(m) PROVE NewestHere'
  BY <1>12, SaferEffect, PacketFields, ConnFields
  DEF OthersKept, NewestHere, Ids, Types, Of, Packet, AddrOf, caddr
<1>13. ASSUME NEW a \in Addr, ServerSendData(a) PROVE NewestHere'
  BY <1>13, PacketFields, ConnFields
  DEF ServerSendData, NewestHere, Ids, Types, Of, Packet, AddrOf, caddr
<1>14. CASE Forgets
  BY <1>14, PacketFields, ConnFields
  DEF Forgets, NewestHere, Ids, Types, Of, Packet, AddrOf, caddr
<1> QED
  BY ForgetEffect, <1>0, <1>1, <1>2, <1>3, <1>4, <1>5, <1>6, <1>7, <1>8, <1>9, <1>10, <1>11,
     <1>12, <1>13, <1>14
  DEF Next, ClientRecv, ServerRecv

(* Sessions and connections keep the same order.                           *)
LEMMA StepSameOrder ==
    ASSUME Types, Ids, Answers, NewestHere, SameOrder, [Next]_vars
    PROVE  SameOrder'
<1> USE DEF options, client_vars, server_vars, history
<1>0. CASE UNCHANGED vars
  BY <1>0 DEF vars, SameOrder, Ids, Types, Of, Packet, caddr
<1>1. CASE StartSession
  BY <1>1, PacketFields, ConnFields
  DEF StartSession, FirstHandshake, SameOrder, Ids, Types, Of, Packet, caddr
<1>2. CASE ClientSendData
  BY <1>2, PacketFields, ConnFields
  DEF ClientSendData, SameOrder, Ids, Types, Of, Packet, caddr
<1>3. CASE ClientTimeout
  BY <1>3, PacketFields, ConnFields
  DEF ClientTimeout, SameOrder, Ids, Types, Of, Packet, caddr
<1>4. ASSUME NEW m \in net, ClientRecvSynAck(m) PROVE SameOrder'
  BY <1>4, PacketFields, ConnFields
  DEF ClientRecvSynAck, FirstHandshake, SameOrder, Ids, Types, Of, Packet, caddr
<1>5. ASSUME NEW m \in net, ClientRecvHandshake(m) PROVE SameOrder'
  <2>1. /\ Of("hs_s")' = Of("hs_s") /\ answered' = answered \cup {<<cid, m.id1>>}
        /\ m \in Of("hs_s") /\ m.id2 = cid
    BY <1>5 DEF ClientRecvHandshake, Of, Packet
  <2>2. \A n \in Of("hs_s") : ~(cid < n.id2)
    BY PacketFields DEF Ids, Of, Types, Session, NoId
  <2>3. \A p \in answered : ~(cid < p[1])
    BY AnsweredIds DEF Types, Session, NoId
  <2>4. ~(cid < cid)
    BY DEF Types, Session, NoId
  <2> QED
    BY <2>1, <2>2, <2>3, <2>4 DEF SameOrder
<1>6. ASSUME NEW m \in net, ClientRecvSafer(m) PROVE SameOrder'
  BY <1>6, PacketFields, ConnFields
  DEF ClientRecvSafer, ClientParses, SameOrder, Ids, Types, Of, Packet, caddr
<1>7. ASSUME NEW m \in net, RecvSyn(m) PROVE SameOrder'
  BY <1>7, PacketFields, ConnFields DEF RecvSyn, SameOrder, Ids, Types, Of, Packet, caddr
<1>8. ASSUME NEW m \in net, RecvFirstHandshake(m) PROVE SameOrder'
  <2>1. /\ Of("hs_s")' = Of("hs_s") \cup {Packet("hs_s", m.addr, sid + 1, m.id1, 0)}
        /\ answered' = answered /\ sid \in Nat
    BY <1>8, FirstEffect DEF Of, Packet, Types
  <2>2. Packet("hs_s", m.addr, sid + 1, m.id1, 0).id1 = sid + 1
    BY DEF Packet
  <2>3. \A p \in answered : p[2] <= sid + 1
    BY <2>1, AnsweredIds
  <2> QED
    BY <2>1, <2>2, <2>3 DEF SameOrder
<1>9. ASSUME NEW m \in net, RecvHandshakeAgain(m) PROVE SameOrder'
  <2> DEFINE s == srv[m.addr]
             pk == Packet("hs_s", m.addr, s.my_id, m.id1, 0)
  <2>1. /\ Of("hs_s")' = Of("hs_s") \cup {pk} /\ answered' = answered
        /\ pk.id1 = s.my_id /\ pk.id2 = m.id1
        /\ m.addr \in Addr /\ s.state = "handshake1" /\ m.addr = AddrOf(m.id1)
    BY <1>9, PacketFields DEF RecvHandshakeAgain, Reply, Of, Packet, Ids
  <2>2. \A p \in answered : p[1] < m.id1 => p[2] <= s.my_id
    <3> SUFFICES ASSUME NEW p \in answered, p[1] < m.id1 PROVE p[2] <= s.my_id
      OBVIOUS
    <3>1. CASE force_source_port = 1
      <4>1. PICK n \in Of("hs_s") : n.addr = AddrOf(p[1]) /\ n.id1 = p[2]
        BY DEF Answers
      <4> QED
        BY <2>1, <3>1, <4>1 DEF NewestHere, AddrOf
    <3>2. CASE force_source_port # 1
      BY <2>1, <3>2 DEF NewestHere, AddrOf
    <3> QED
      BY <3>1, <3>2
  <2> HIDE DEF s, pk
  <2> QED
    BY <2>1, <2>2 DEF SameOrder
<1>10. ASSUME NEW m \in net, IgnoreOlder(m) PROVE SameOrder'
  BY <1>10, OlderEffect, PacketFields, ConnFields
  DEF OthersKept, SameOrder, Ids, Types, Of, Packet, caddr
<1>11. ASSUME NEW m \in net, TurnReady(m) PROVE SameOrder'
  BY <1>11, ReadyEffect, PacketFields, ConnFields DEF SameOrder, Ids, Types, Of, Packet, caddr
<1>12. ASSUME NEW m \in net, ServerRecvSafer(m) PROVE SameOrder'
  BY <1>12, SaferEffect, PacketFields, ConnFields
  DEF OthersKept, SameOrder, Ids, Types, Of, Packet, caddr
<1>13. ASSUME NEW a \in Addr, ServerSendData(a) PROVE SameOrder'
  BY <1>13, PacketFields, ConnFields
  DEF ServerSendData, SameOrder, Ids, Types, Of, Packet, caddr
<1>14. CASE Forgets
  BY <1>14, PacketFields, ConnFields DEF Forgets, SameOrder, Ids, Types, Of, Packet, caddr
<1> QED
  BY ForgetEffect, <1>0, <1>1, <1>2, <1>3, <1>4, <1>5, <1>6, <1>7, <1>8, <1>9, <1>10, <1>11,
     <1>12, <1>13, <1>14
  DEF Next, ClientRecv, ServerRecv

(* Both sides count their packets up, across all sessions.                 *)
LEMMA StepSeqOnce == ASSUME Types, SeqOnce, [Next]_vars PROVE SeqOnce'
<1> USE DEF options, client_vars, server_vars, history
<1>0. CASE UNCHANGED vars
  BY <1>0 DEF vars, SeqOnce, FromClient, FromServer, Of, Packet, Types
<1>1. CASE StartSession
  BY <1>1, PacketFields
  DEF StartSession, FirstHandshake, SeqOnce, FromClient, FromServer, Of, Packet, Types
<1>2. CASE ClientSendData
  BY <1>2, PacketFields DEF ClientSendData, SeqOnce, FromClient, FromServer, Of, Packet, Types
<1>3. CASE ClientTimeout
  BY <1>3, PacketFields DEF ClientTimeout, SeqOnce, FromClient, FromServer, Of, Packet, Types
<1>4. ASSUME NEW m \in net, ClientRecvSynAck(m) PROVE SeqOnce'
  BY <1>4, PacketFields
  DEF ClientRecvSynAck, FirstHandshake, SeqOnce, FromClient, FromServer, Of, Packet, Types
<1>5. ASSUME NEW m \in net, ClientRecvHandshake(m) PROVE SeqOnce'
  BY <1>5, PacketFields
  DEF ClientRecvHandshake, SeqOnce, FromClient, FromServer, Of, Packet, Types
<1>6. ASSUME NEW m \in net, ClientRecvSafer(m) PROVE SeqOnce'
  BY <1>6, PacketFields
  DEF ClientRecvSafer, ClientParses, SeqOnce, FromClient, FromServer, Of, Packet, Types
<1>7. ASSUME NEW m \in net, RecvSyn(m) PROVE SeqOnce'
  BY <1>7, PacketFields DEF RecvSyn, SeqOnce, FromClient, FromServer, Of, Packet, Types
<1>8. ASSUME NEW m \in net, RecvFirstHandshake(m) PROVE SeqOnce'
  BY <1>8, FirstEffect, PacketFields
  DEF OthersKept, SeqOnce, FromClient, FromServer, Of, Packet, Types
<1>9. ASSUME NEW m \in net, RecvHandshakeAgain(m) PROVE SeqOnce'
  BY <1>9, PacketFields
  DEF RecvHandshakeAgain, Reply, SeqOnce, FromClient, FromServer, Of, Packet, Types
<1>10. ASSUME NEW m \in net, IgnoreOlder(m) PROVE SeqOnce'
  BY <1>10, OlderEffect, PacketFields
  DEF OthersKept, SeqOnce, FromClient, FromServer, Of, Packet, Types
<1>11. ASSUME NEW m \in net, TurnReady(m) PROVE SeqOnce'
  BY <1>11, ReadyEffect, PacketFields DEF SeqOnce, FromClient, FromServer, Of, Packet, Types
<1>12. ASSUME NEW m \in net, ServerRecvSafer(m) PROVE SeqOnce'
  BY <1>12, SaferEffect, PacketFields
  DEF OthersKept, SeqOnce, FromClient, FromServer, Of, Packet, Types
<1>13. ASSUME NEW a \in Addr, ServerSendData(a) PROVE SeqOnce'
  BY <1>13, PacketFields
  DEF ServerSendData, SeqOnce, FromClient, FromServer, Of, Packet, Types
<1>14. CASE Forgets
  BY <1>14, PacketFields DEF Forgets, SeqOnce, FromClient, FromServer, Of, Packet, Types
<1> QED
  BY ForgetEffect, <1>0, <1>1, <1>2, <1>3, <1>4, <1>5, <1>6, <1>7, <1>8, <1>9, <1>10, <1>11,
     <1>12, <1>13, <1>14
  DEF Next, ClientRecv, ServerRecv

(* The server hands a data packet up once.                                 *)
LEMMA StepUpOnce ==
    ASSUME Types, Ids, OneReady, OwnId, SeqOnce, UpOnce, [Next]_vars
    PROVE  UpOnce'
<1> USE DEF options, client_vars, server_vars, history
<1>0. CASE UNCHANGED vars
  BY <1>0 DEF vars, UpOnce, FromClient, Of, Packet, Types
<1>1. CASE StartSession
  BY <1>1, PacketFields, ConnFields
  DEF StartSession, FirstHandshake, UpOnce, FromClient, Of, Packet, Types
<1>2. CASE ClientSendData
  <2> DEFINE pk == Packet("d_c", caddr, cid, copp, cseq)
  <2>1. /\ Of("d_c")' = Of("d_c") \cup {pk} /\ pk.seq = cseq
        /\ cseq \in Nat /\ cseq' = cseq + 1 /\ UNCHANGED <<srv, sid, up>>
    BY <1>2 DEF ClientSendData, Of, Packet, Types
  <2>2. \A n \in SeqNum : n \in Int
    BY DEF SeqNum
  <2>3. cseq \in SeqNum => up[cseq] # 1
    BY <2>1 DEF UpOnce
  <2>4. \A n \in SeqNum : n >= cseq + 1 => n >= cseq
    BY <2>1, <2>2
  <2> HIDE DEF pk
  <2> QED
    BY <2>1, <2>3, <2>4 DEF UpOnce
<1>3. CASE ClientTimeout
  BY <1>3, PacketFields, ConnFields DEF ClientTimeout, UpOnce, FromClient, Of, Packet, Types
<1>4. ASSUME NEW m \in net, ClientRecvSynAck(m) PROVE UpOnce'
  BY <1>4, PacketFields, ConnFields
  DEF ClientRecvSynAck, FirstHandshake, UpOnce, FromClient, Of, Packet, Types
<1>5. ASSUME NEW m \in net, ClientRecvHandshake(m) PROVE UpOnce'
  BY <1>5, PacketFields, ConnFields
  DEF ClientRecvHandshake, UpOnce, FromClient, Of, Packet, Types
<1>6. ASSUME NEW m \in net, ClientRecvSafer(m) PROVE UpOnce'
  <2>1. /\ Of("d_c")' = Of("d_c") /\ cseq \in Nat /\ cseq' \in {cseq, cseq + 1}
        /\ UNCHANGED <<srv, sid, up>>
    BY <1>6 DEF ClientRecvSafer, Of, Packet, Types
  <2>2. \A n \in SeqNum : n >= cseq' => n >= cseq
    BY <2>1 DEF SeqNum
  <2> QED
    BY <2>1, <2>2 DEF UpOnce
<1>7. ASSUME NEW m \in net, RecvSyn(m) PROVE UpOnce'
  BY <1>7, PacketFields, ConnFields DEF RecvSyn, UpOnce, FromClient, Of, Packet, Types
<1>8. ASSUME NEW m \in net, RecvFirstHandshake(m) PROVE UpOnce'
  BY <1>8, FirstEffect, PacketFields, ConnFields
  DEF OthersKept, UpOnce, FromClient, Of, Packet, Types
<1>9. ASSUME NEW m \in net, RecvHandshakeAgain(m) PROVE UpOnce'
  BY <1>9, PacketFields, ConnFields
  DEF RecvHandshakeAgain, Reply, UpOnce, FromClient, Of, Packet, Types
<1>10. ASSUME NEW m \in net, IgnoreOlder(m) PROVE UpOnce'
  BY <1>10, OlderEffect, PacketFields, ConnFields
  DEF OthersKept, UpOnce, FromClient, Of, Packet, Types
<1>11. ASSUME NEW m \in net, TurnReady(m) PROVE UpOnce'
  BY <1>11, ReadyEffect, PacketFields, ConnFields DEF UpOnce, FromClient, Of, Packet, Types
<1>12. ASSUME NEW m \in net, ServerRecvSafer(m) PROVE UpOnce'
  <2>1. /\ m.addr \in Addr /\ srv[m.addr].state = "ready" /\ m \in FromClient
        /\ m.id2 = srv[m.addr].my_id /\ m.seq \notin srv[m.addr].seen
        /\ UNCHANGED <<cseq, sid, net>>
    BY <1>12, SaferEffect
  <2>2. /\ \A a \in Addr \ {m.addr} : srv'[a] = srv[a]
        /\ srv'[m.addr].state = "ready" /\ srv'[m.addr].my_id = srv[m.addr].my_id
        /\ srv'[m.addr].seen = srv[m.addr].seen \cup {m.seq}
    BY <1>12, SaferEffect DEF OthersKept
  <2>3. Of("d_c")' = Of("d_c")
    BY <2>1 DEF Of
  <2>4. CASE m.kind # "d_c"
    <3>1. up' = up
      BY <1>12, <2>4, SaferEffect
    <3> QED
      BY <2>1, <2>2, <2>3, <3>1 DEF UpOnce
  <2>5. CASE m.kind = "d_c"
    <3>1. /\ m \in Of("d_c") /\ m \in FromClient /\ m.id2 <= sid /\ m.seq < cseq
      BY <2>1, <2>5 DEF Of, FromClient, Ids, SeqOnce
    <3>2. \A i \in SeqNum : up'[i] = IF i = m.seq THEN up[i] + 1 ELSE up[i]
      BY <1>12, <2>5, SaferEffect, CountType DEF Types
    <3>3. m.seq \in SeqNum => up[m.seq] = 0
      <4>1. m.seq \in SeqNum => up[m.seq] # 1 /\ up[m.seq] <= 1 /\ up[m.seq] \in Nat
        BY <2>1, <3>1 DEF UpOnce, Types
      <4> QED
        BY <4>1
    <3>4. \A i \in SeqNum : i >= cseq => i # m.seq
      BY <3>1, PacketFields DEF SeqNum, Types
    <3>5. \A i \in SeqNum : up'[i] <= 1 /\ (i >= cseq => up'[i] = 0)
      BY <3>2, <3>3, <3>4 DEF UpOnce
    <3>6. \A n \in Of("d_c") : n.seq = m.seq => n = m
      BY <3>1 DEF SeqOnce, FromClient
    <3>7. \A a \in Addr : srv'[a].my_id = m.id2 =>
             /\ srv'[a].state # "handshake1"
             /\ srv'[a].state = "ready" => m.seq \in srv'[a].seen
      BY <2>1, <2>2 DEF OwnId, OneReady, Owner
    <3>8. ASSUME NEW n \in Of("d_c"), n.seq \in SeqNum, n.seq # m.seq, up'[n.seq] = 1
          PROVE  /\ n.id2 <= sid
                 /\ \A a \in Addr : srv'[a].my_id = n.id2 =>
                       /\ srv'[a].state # "handshake1"
                       /\ srv'[a].state = "ready" => n.seq \in srv'[a].seen
      <4>1. up[n.seq] = 1
        BY <3>2, <3>8
      <4> QED
        BY <2>1, <2>2, <3>8, <4>1 DEF UpOnce
    <3> QED
      BY <2>1, <2>3, <3>1, <3>5, <3>6, <3>7, <3>8 DEF UpOnce
  <2> QED
    BY <2>4, <2>5
<1>13. ASSUME NEW a \in Addr, ServerSendData(a) PROVE UpOnce'
  BY <1>13, PacketFields, ConnFields DEF ServerSendData, UpOnce, FromClient, Of, Packet, Types
<1>14. CASE Forgets
  BY <1>14, PacketFields, ConnFields DEF Forgets, UpOnce, FromClient, Of, Packet, Types
<1> QED
  BY ForgetEffect, <1>0, <1>1, <1>2, <1>3, <1>4, <1>5, <1>6, <1>7, <1>8, <1>9, <1>10, <1>11,
     <1>12, <1>13, <1>14
  DEF Next, ClientRecv, ServerRecv

(* So does the client.                                                     *)
LEMMA StepDownOnce == ASSUME Types, SeqOnce, DownOnce, [Next]_vars PROVE DownOnce'
<1> USE DEF options, client_vars, server_vars, history
<1>0. CASE UNCHANGED vars
  BY <1>0 DEF vars, DownOnce, FromServer, Of, Packet, Types
<1>1. CASE StartSession
  <2>1. cid \in Nat /\ cid' = cid + 1 /\ Of("d_s")' = Of("d_s") /\ UNCHANGED <<down, sseq>>
    BY <1>1 DEF StartSession, FirstHandshake, Of, Packet, Types, Session, NoId
  <2>2. \A m \in Of("d_s") : m.id2 <= cid => m.id2 <= cid + 1 /\ m.id2 # cid + 1
    BY <2>1, PacketFields DEF Of
  <2> QED
    BY <2>1, <2>2 DEF DownOnce
<1>2. CASE ClientSendData
  BY <1>2, PacketFields DEF ClientSendData, DownOnce, FromServer, Of, Packet, Types
<1>3. CASE ClientTimeout
  BY <1>3, PacketFields DEF ClientTimeout, DownOnce, FromServer, Of, Packet, Types
<1>4. ASSUME NEW m \in net, ClientRecvSynAck(m) PROVE DownOnce'
  BY <1>4, PacketFields
  DEF ClientRecvSynAck, FirstHandshake, DownOnce, FromServer, Of, Packet, Types
<1>5. ASSUME NEW m \in net, ClientRecvHandshake(m) PROVE DownOnce'
  BY <1>5, PacketFields DEF ClientRecvHandshake, DownOnce, FromServer, Of, Packet, Types
<1>6. ASSUME NEW m \in net, ClientRecvSafer(m) PROVE DownOnce'
  <2>1. /\ m \in FromServer /\ m.id2 = cid /\ m.seq \notin cseen /\ cid \in Nat
        /\ cseen' = cseen \cup {m.seq} /\ Of("d_s")' = Of("d_s") /\ UNCHANGED <<cid, sseq>>
    BY <1>6 DEF ClientRecvSafer, ClientParses, FromServer, Of, Packet, Types, Session, NoId
  <2>2. CASE m.kind # "d_s"
    <3>1. down' = down
      BY <1>6, <2>2 DEF ClientRecvSafer
    <3> QED
      BY <2>1, <3>1 DEF DownOnce
  <2>3. CASE m.kind = "d_s"
    <3>1. m \in Of("d_s") /\ m.seq < sseq
      BY <2>1, <2>3 DEF Of, FromServer, SeqOnce
    <3>2. \A i \in SeqNum : down'[i] = IF i = m.seq THEN down[i] + 1 ELSE down[i]
      BY <1>6, <2>3, CountType DEF Types, ClientRecvSafer
    <3>3. m.seq \in SeqNum => down[m.seq] = 0
      <4>1. m.seq \in SeqNum => down[m.seq] # 1 /\ down[m.seq] <= 1 /\ down[m.seq] \in Nat
        BY <2>1, <3>1 DEF DownOnce, Types
      <4> QED
        BY <4>1
    <3>4. \A i \in SeqNum : i >= sseq => i # m.seq
      BY <3>1, PacketFields DEF SeqNum, Types
    <3>5. \A i \in SeqNum : down'[i] <= 1 /\ (i >= sseq => down'[i] = 0)
      BY <3>2, <3>3, <3>4 DEF DownOnce
    <3>6. \A n \in Of("d_s") : n.seq = m.seq => n = m
      BY <2>1, <3>1 DEF SeqOnce, FromServer
    <3>7. ASSUME NEW n \in Of("d_s"), n.seq \in SeqNum, down'[n.seq] = 1
          PROVE  n.id2 <= cid /\ (n.id2 = cid => n.seq \in cseen')
      <4>1. CASE n.seq = m.seq
        BY <2>1, <3>6, <4>1
      <4>2. CASE n.seq # m.seq
        BY <2>1, <3>2, <3>7, <4>2 DEF DownOnce
      <4> QED
        BY <4>1, <4>2
    <3> QED
      BY <2>1, <3>5, <3>7 DEF DownOnce
  <2> QED
    BY <2>2, <2>3
<1>7. ASSUME NEW m \in net, RecvSyn(m) PROVE DownOnce'
  BY <1>7, PacketFields DEF RecvSyn, DownOnce, FromServer, Of, Packet, Types
<1>8. ASSUME NEW m \in net, RecvFirstHandshake(m) PROVE DownOnce'
  BY <1>8, FirstEffect, PacketFields DEF OthersKept, DownOnce, FromServer, Of, Packet, Types
<1>9. ASSUME NEW m \in net, RecvHandshakeAgain(m) PROVE DownOnce'
  BY <1>9, PacketFields DEF RecvHandshakeAgain, Reply, DownOnce, FromServer, Of, Packet, Types
<1>10. ASSUME NEW m \in net, IgnoreOlder(m) PROVE DownOnce'
  BY <1>10, OlderEffect, PacketFields DEF OthersKept, DownOnce, FromServer, Of, Packet, Types
<1>11. ASSUME NEW m \in net, TurnReady(m) PROVE DownOnce'
  <2>1. /\ sseq \in Nat /\ sseq' = sseq + 1 /\ Of("d_s")' = Of("d_s")
        /\ UNCHANGED <<cid, cseen, down>>
    BY <1>11, ReadyEffect DEF Of, Packet, Types
  <2>2. \A n \in SeqNum : n >= sseq + 1 => n >= sseq
    BY <2>1 DEF SeqNum
  <2> QED
    BY <2>1, <2>2 DEF DownOnce
<1>12. ASSUME NEW m \in net, ServerRecvSafer(m) PROVE DownOnce'
  BY <1>12, SaferEffect, PacketFields DEF OthersKept, DownOnce, FromServer, Of, Packet, Types
<1>13. ASSUME NEW a \in Addr, ServerSendData(a) PROVE DownOnce'
  <2> DEFINE pk == Packet("d_s", a, srv[a].my_id, srv[a].oppsite_id, sseq)
  <2>1. /\ Of("d_s")' = Of("d_s") \cup {pk} /\ pk.seq = sseq
        /\ sseq \in Nat /\ sseq' = sseq + 1 /\ UNCHANGED <<cid, cseen, down>>
    BY <1>13 DEF ServerSendData, Of, Packet, Types
  <2>2. sseq \in SeqNum => down[sseq] # 1
    BY <2>1 DEF DownOnce
  <2>3. \A n \in SeqNum : n >= sseq + 1 => n >= sseq
    BY <2>1 DEF SeqNum
  <2> HIDE DEF pk
  <2> QED
    BY <2>1, <2>2, <2>3 DEF DownOnce
<1>14. CASE Forgets
  BY <1>14, PacketFields DEF Forgets, DownOnce, FromServer, Of, Packet, Types
<1> QED
  BY ForgetEffect, <1>0, <1>1, <1>2, <1>3, <1>4, <1>5, <1>6, <1>7, <1>8, <1>9, <1>10, <1>11,
     <1>12, <1>13, <1>14
  DEF Next, ClientRecv, ServerRecv

(* What counting needs: the sets are finite.                               *)
LEMMA DataFinite == ASSUME Finite, NEW k PROVE IsFiniteSet(Of(k)) /\ Data(k) \in Nat
<1>1. Of(k) \in SUBSET net
  BY DEF Of
<1> QED
  BY <1>1, FS_Subset, FS_CardinalityType DEF Finite, Data

(* A packet that is not yet on the net counts as one more of its kind.     *)
LEMMA DataMore ==
    ASSUME Finite, NEW k, NEW m, m \notin Of(k)
    PROVE  Cardinality(Of(k) \cup {m}) = Data(k) + 1
  BY DataFinite, FS_AddElement DEF Data

(* The handshakes the server waits to be finished.                         *)
LEMMA PendingFinite ==
    /\ IsFiniteSet(Pending) /\ Cardinality(Pending) \in Nat
    /\ IsFiniteSet(Pending') /\ Cardinality(Pending') \in Nat
<1>1. IsFiniteSet(Addr)
  BY BoundAssumption, FS_Interval DEF Addr, Session
<1>2. Pending \in SUBSET Addr /\ Pending' \in SUBSET Addr
  BY DEF Pending, Addr, Session
<1>3. IsFiniteSet(Pending) /\ IsFiniteSet(Pending')
  BY <1>1, <1>2, FS_Subset
<1> QED
  BY <1>3, FS_CardinalityType

(* Only finitely many packets are sent.                                    *)
LEMMA StepFinite == ASSUME Types, Finite, [Next]_vars PROVE Finite'
<1> USE DEF options, client_vars, server_vars, history
<1>0. CASE UNCHANGED vars
  BY <1>0 DEF vars, Finite
<1>1. CASE StartSession
  <2>1. \E n : net' = net \cup {n}
    BY <1>1 DEF StartSession, FirstHandshake
  <2> QED
    BY <2>1, FS_AddElement DEF Finite
<1>2. CASE ClientSendData
  <2>1. \E n : net' = net \cup {n}
    BY <1>2 DEF ClientSendData
  <2> QED
    BY <2>1, FS_AddElement DEF Finite
<1>3. CASE ClientTimeout
  BY <1>3 DEF ClientTimeout, Finite
<1>4. ASSUME NEW m \in net, ClientRecvSynAck(m) PROVE Finite'
  <2>1. \E n : net' = net \cup {n}
    BY <1>4 DEF ClientRecvSynAck, FirstHandshake
  <2> QED
    BY <2>1, FS_AddElement DEF Finite
<1>5. ASSUME NEW m \in net, ClientRecvHandshake(m) PROVE Finite'
  <2>1. \E n : net' = net \cup {n}
    BY <1>5 DEF ClientRecvHandshake
  <2> QED
    BY <2>1, FS_AddElement DEF Finite
<1>6. ASSUME NEW m \in net, ClientRecvSafer(m) PROVE Finite'
  <2>1. net' = net \/ \E n : net' = net \cup {n}
    BY <1>6 DEF ClientRecvSafer
  <2> QED
    BY <2>1, FS_AddElement DEF Finite
<1>7. ASSUME NEW m \in net, RecvSyn(m) PROVE Finite'
  <2>1. \E n : net' = net \cup {n}
    BY <1>7 DEF RecvSyn
  <2> QED
    BY <2>1, FS_AddElement DEF Finite
<1>8. ASSUME NEW m \in net, RecvFirstHandshake(m) PROVE Finite'
  <2>1. \E n : net' = net \cup {n}
    BY <1>8, FirstEffect
  <2> QED
    BY <2>1, FS_AddElement DEF Finite
<1>9. ASSUME NEW m \in net, RecvHandshakeAgain(m) PROVE Finite'
  <2>1. \E n : net' = net \cup {n}
    BY <1>9 DEF RecvHandshakeAgain, Reply
  <2> QED
    BY <2>1, FS_AddElement DEF Finite
<1>10. ASSUME NEW m \in net, IgnoreOlder(m) PROVE Finite'
  BY <1>10, OlderEffect DEF Finite
<1>11. ASSUME NEW m \in net, TurnReady(m) PROVE Finite'
  <2>1. \E n : net' = net \cup {n}
    BY <1>11, ReadyEffect
  <2> QED
    BY <2>1, FS_AddElement DEF Finite
<1>12. ASSUME NEW m \in net, ServerRecvSafer(m) PROVE Finite'
  BY <1>12, SaferEffect DEF Finite
<1>13. ASSUME NEW a \in Addr, ServerSendData(a) PROVE Finite'
  <2>1. \E n : net' = net \cup {n}
    BY <1>13 DEF ServerSendData
  <2> QED
    BY <2>1, FS_AddElement DEF Finite
<1>14. CASE Forgets
  BY <1>14 DEF Forgets, Finite
<1> QED
  BY ForgetEffect, <1>0, <1>1, <1>2, <1>3, <1>4, <1>5, <1>6, <1>7, <1>8, <1>9, <1>10, <1>11,
     <1>12, <1>13, <1>14
  DEF Next, ClientRecv, ServerRecv

(* The client numbers its data and a heartbeat per session.                *)
LEMMA StepClientCount ==
    ASSUME Types, Finite, SeqOnce, ClientCount, [Next]_vars
    PROVE  ClientCount'
<1> USE DEF options, client_vars, server_vars, history
<1>0. CASE UNCHANGED vars
  BY <1>0 DEF vars, ClientCount, Data, Of
<1>1. CASE StartSession
  <2>1. Of("d_c")' = Of("d_c") /\ cseq' = cseq /\ cid' = cid + 1
    BY <1>1 DEF StartSession, FirstHandshake, Of, Packet
  <2>2. cid \in Nat /\ cseq \in Nat /\ Data("d_c") \in Nat
    BY DataFinite DEF Types, Session, NoId
  <2> QED
    BY <2>1, <2>2 DEF ClientCount, Data
<1>2. CASE ClientSendData
  <2> DEFINE pk == Packet("d_c", caddr, cid, copp, cseq)
  <2>1. /\ Of("d_c")' = Of("d_c") \cup {pk} /\ pk.seq = cseq /\ cstate = "ready"
        /\ cseq' = cseq + 1 /\ UNCHANGED <<cid, cstate>>
    BY <1>2 DEF ClientSendData, Of, Packet
  <2>2. Data("d_c") < MaxData
    BY <1>2 DEF ClientSendData, Sent, Data, Of
  <2>3. \A n \in Of("d_c") : n.seq # cseq
    BY PacketFields DEF SeqOnce, FromClient, Of, Types
  <2>4. cid \in Nat /\ cseq \in Nat /\ Data("d_c") \in Nat /\ MaxData \in Nat
    BY DataFinite, BoundAssumption DEF Types, Session, NoId
  <2> HIDE DEF pk
  <2>5. Data("d_c")' = Data("d_c") + 1
    BY <2>1, <2>3, DataMore DEF Data
  <2> QED
    BY <2>1, <2>2, <2>4, <2>5 DEF ClientCount
<1>3. CASE ClientTimeout
  <2>1. /\ Of("d_c")' = Of("d_c") /\ UNCHANGED <<cseq, cid>>
        /\ cstate' = cstate \/ cstate' = "idle" \/ cstate \notin {"idle", "ready"}
    BY <1>3 DEF ClientTimeout, Of, Packet
  <2> QED
    BY <2>1 DEF ClientCount, Data
<1>4. ASSUME NEW m \in net, ClientRecvSynAck(m) PROVE ClientCount'
  <2>1. /\ Of("d_c")' = Of("d_c") /\ UNCHANGED <<cseq, cid>>
        /\ cstate' = cstate \/ cstate' = "idle" \/ cstate \notin {"idle", "ready"}
    BY <1>4 DEF ClientRecvSynAck, FirstHandshake, Of, Packet
  <2> QED
    BY <2>1 DEF ClientCount, Data
<1>5. ASSUME NEW m \in net, ClientRecvHandshake(m) PROVE ClientCount'
  <2>1. /\ Of("d_c")' = Of("d_c") /\ UNCHANGED <<cseq, cid>>
        /\ cstate' = cstate \/ cstate' = "idle" \/ cstate \notin {"idle", "ready"}
    BY <1>5 DEF ClientRecvHandshake, Of, Packet
  <2> QED
    BY <2>1 DEF ClientCount, Data
<1>6. ASSUME NEW m \in net, ClientRecvSafer(m) PROVE ClientCount'
  <2>1. /\ Of("d_c")' = Of("d_c") /\ cid' = cid /\ cstate' = "ready"
        /\ \/ cseq' = cseq
           \/ cstate = "handshake2" /\ cseq' = cseq + 1
    BY <1>6 DEF ClientRecvSafer, Of, Packet
  <2>2. cid \in Nat /\ cseq \in Nat /\ Data("d_c") \in Nat
    BY DataFinite DEF Types, Session, NoId
  <2> QED
    BY <2>1, <2>2 DEF ClientCount, Data
<1>7. ASSUME NEW m \in net, RecvSyn(m) PROVE ClientCount'
  <2>1. /\ Of("d_c")' = Of("d_c") /\ UNCHANGED <<cseq, cid>>
        /\ cstate' = cstate \/ cstate' = "idle" \/ cstate \notin {"idle", "ready"}
    BY <1>7 DEF RecvSyn, Of, Packet
  <2> QED
    BY <2>1 DEF ClientCount, Data
<1>8. ASSUME NEW m \in net, RecvFirstHandshake(m) PROVE ClientCount'
  <2>1. /\ Of("d_c")' = Of("d_c") /\ UNCHANGED <<cseq, cid>>
        /\ cstate' = cstate \/ cstate' = "idle" \/ cstate \notin {"idle", "ready"}
    BY <1>8, FirstEffect DEF Of, Packet
  <2> QED
    BY <2>1 DEF ClientCount, Data
<1>9. ASSUME NEW m \in net, RecvHandshakeAgain(m) PROVE ClientCount'
  <2>1. /\ Of("d_c")' = Of("d_c") /\ UNCHANGED <<cseq, cid>>
        /\ cstate' = cstate \/ cstate' = "idle" \/ cstate \notin {"idle", "ready"}
    BY <1>9 DEF RecvHandshakeAgain, Reply, Of, Packet
  <2> QED
    BY <2>1 DEF ClientCount, Data
<1>10. ASSUME NEW m \in net, IgnoreOlder(m) PROVE ClientCount'
  <2>1. /\ Of("d_c")' = Of("d_c") /\ UNCHANGED <<cseq, cid>>
        /\ cstate' = cstate \/ cstate' = "idle" \/ cstate \notin {"idle", "ready"}
    BY <1>10, OlderEffect DEF Of, Packet
  <2> QED
    BY <2>1 DEF ClientCount, Data
<1>11. ASSUME NEW m \in net, TurnReady(m) PROVE ClientCount'
  <2>1. /\ Of("d_c")' = Of("d_c") /\ UNCHANGED <<cseq, cid>>
        /\ cstate' = cstate \/ cstate' = "idle" \/ cstate \notin {"idle", "ready"}
    BY <1>11, ReadyEffect DEF Of, Packet
  <2> QED
    BY <2>1 DEF ClientCount, Data
<1>12. ASSUME NEW m \in net, ServerRecvSafer(m) PROVE ClientCount'
  <2>1. /\ Of("d_c")' = Of("d_c") /\ UNCHANGED <<cseq, cid>>
        /\ cstate' = cstate \/ cstate' = "idle" \/ cstate \notin {"idle", "ready"}
    BY <1>12, SaferEffect DEF Of, Packet
  <2> QED
    BY <2>1 DEF ClientCount, Data
<1>13. ASSUME NEW a \in Addr, ServerSendData(a) PROVE ClientCount'
  <2>1. /\ Of("d_c")' = Of("d_c") /\ UNCHANGED <<cseq, cid>>
        /\ cstate' = cstate \/ cstate' = "idle" \/ cstate \notin {"idle", "ready"}
    BY <1>13 DEF ServerSendData, Of, Packet
  <2> QED
    BY <2>1 DEF ClientCount, Data
<1>14. CASE Forgets
  <2>1. /\ Of("d_c")' = Of("d_c") /\ UNCHANGED <<cseq, cid>>
        /\ cstate' = cstate \/ cstate' = "idle" \/ cstate \notin {"idle", "ready"}
    BY <1>14 DEF Forgets, Of, Packet
  <2> QED
    BY <2>1 DEF ClientCount, Data
<1> QED
  BY ForgetEffect, <1>0, <1>1, <1>2, <1>3, <1>4, <1>5, <1>6, <1>7, <1>8, <1>9, <1>10, <1>11,
     <1>12, <1>13, <1>14
  DEF Next, ClientRecv, ServerRecv

(* The server numbers its data and a heartbeat per connection.             *)
LEMMA StepServerCount ==
    ASSUME Types, Finite, SeqOnce, ServerCount, [Next]_vars
    PROVE  ServerCount'
<1> USE DEF options, client_vars, server_vars, history
<1>0. CASE UNCHANGED vars
  BY <1>0 DEF vars, ServerCount, Data, Of, Pending
<1>1. CASE StartSession
  <2>1. Of("d_s")' = Of("d_s") /\ UNCHANGED <<sseq, sid>> /\ Pending' = Pending
    BY <1>1 DEF StartSession, FirstHandshake, Of, Packet, Pending
  <2> QED
    BY <2>1 DEF ServerCount, Data
<1>2. CASE ClientSendData
  <2>1. Of("d_s")' = Of("d_s") /\ UNCHANGED <<sseq, sid>> /\ Pending' = Pending
    BY <1>2 DEF ClientSendData, Of, Packet, Pending
  <2> QED
    BY <2>1 DEF ServerCount, Data
<1>3. CASE ClientTimeout
  <2>1. Of("d_s")' = Of("d_s") /\ UNCHANGED <<sseq, sid>> /\ Pending' = Pending
    BY <1>3 DEF ClientTimeout, Of, Packet, Pending
  <2> QED
    BY <2>1 DEF ServerCount, Data
<1>4. ASSUME NEW m \in net, ClientRecvSynAck(m) PROVE ServerCount'
  <2>1. Of("d_s")' = Of("d_s") /\ UNCHANGED <<sseq, sid>> /\ Pending' = Pending
    BY <1>4 DEF ClientRecvSynAck, FirstHandshake, Of, Packet, Pending
  <2> QED
    BY <2>1 DEF ServerCount, Data
<1>5. ASSUME NEW m \in net, ClientRecvHandshake(m) PROVE ServerCount'
  <2>1. Of("d_s")' = Of("d_s") /\ UNCHANGED <<sseq, sid>> /\ Pending' = Pending
    BY <1>5 DEF ClientRecvHandshake, Of, Packet, Pending
  <2> QED
    BY <2>1 DEF ServerCount, Data
<1>6. ASSUME NEW m \in net, ClientRecvSafer(m) PROVE ServerCount'
  <2>1. Of("d_s")' = Of("d_s") /\ UNCHANGED <<sseq, sid>> /\ Pending' = Pending
    BY <1>6 DEF ClientRecvSafer, Of, Packet, Pending
  <2> QED
    BY <2>1 DEF ServerCount, Data
<1>7. ASSUME NEW m \in net, RecvSyn(m) PROVE ServerCount'
  <2>1. Of("d_s")' = Of("d_s") /\ UNCHANGED <<sseq, sid>> /\ Pending' = Pending
    BY <1>7 DEF RecvSyn, Of, Packet, Pending
  <2> QED
    BY <2>1 DEF ServerCount, Data
<1>8. ASSUME NEW m \in net, RecvFirstHandshake(m) PROVE ServerCount'
  <2>1. /\ Of("d_s")' = Of("d_s") /\ sseq' = sseq /\ sid' = sid + 1
        /\ Pending' = Pending \cup {m.addr} /\ m.addr \notin Pending
    BY <1>8, FirstEffect DEF OthersKept, Of, Packet, Pending
  <2>2. Cardinality(Pending') = Cardinality(Pending) + 1
    BY <2>1, PendingFinite, FS_AddElement
  <2>3. sseq \in Nat /\ sid \in Nat /\ Data("d_s") \in Nat
    BY DataFinite DEF Types
  <2> QED
    BY <2>1, <2>2, <2>3, PendingFinite DEF ServerCount, Data
<1>9. ASSUME NEW m \in net, RecvHandshakeAgain(m) PROVE ServerCount'
  <2>1. Of("d_s")' = Of("d_s") /\ UNCHANGED <<sseq, sid>> /\ Pending' = Pending
    BY <1>9 DEF RecvHandshakeAgain, Reply, Of, Packet, Pending
  <2> QED
    BY <2>1 DEF ServerCount, Data
<1>10. ASSUME NEW m \in net, IgnoreOlder(m) PROVE ServerCount'
  <2>1. Of("d_s")' = Of("d_s") /\ UNCHANGED <<sseq, sid>> /\ Pending' \in SUBSET Pending
    BY <1>10, OlderEffect DEF OthersKept, Of, Pending
  <2>2. Cardinality(Pending') <= Cardinality(Pending)
    BY <2>1, PendingFinite, FS_Subset
  <2>3. sseq \in Nat /\ sid \in Nat /\ Data("d_s") \in Nat
    BY DataFinite DEF Types
  <2> QED
    BY <2>1, <2>2, <2>3, PendingFinite DEF ServerCount, Data
<1>11. ASSUME NEW m \in net, TurnReady(m) PROVE ServerCount'
  <2>1. /\ Of("d_s")' = Of("d_s") /\ sseq' = sseq + 1 /\ sid' = sid
        /\ Pending' = Pending \ {m.addr} /\ m.addr \in Pending
    BY <1>11, ReadyEffect DEF Of, Packet, Pending, Owner
  <2>2. Cardinality(Pending') = Cardinality(Pending) - 1
    BY <2>1, PendingFinite, FS_RemoveElement
  <2>3. sseq \in Nat /\ sid \in Nat /\ Data("d_s") \in Nat
    BY DataFinite DEF Types
  <2> QED
    BY <2>1, <2>2, <2>3, PendingFinite DEF ServerCount, Data
<1>12. ASSUME NEW m \in net, ServerRecvSafer(m) PROVE ServerCount'
  <2>1. Of("d_s")' = Of("d_s") /\ UNCHANGED <<sseq, sid>> /\ Pending' \in SUBSET Pending
    BY <1>12, SaferEffect DEF OthersKept, Of, Pending
  <2>2. Cardinality(Pending') <= Cardinality(Pending)
    BY <2>1, PendingFinite, FS_Subset
  <2>3. sseq \in Nat /\ sid \in Nat /\ Data("d_s") \in Nat
    BY DataFinite DEF Types
  <2> QED
    BY <2>1, <2>2, <2>3, PendingFinite DEF ServerCount, Data
<1>13. ASSUME NEW a \in Addr, ServerSendData(a) PROVE ServerCount'
  <2> DEFINE pk == Packet("d_s", a, srv[a].my_id, srv[a].oppsite_id, sseq)
  <2>1. /\ Of("d_s")' = Of("d_s") \cup {pk} /\ pk.seq = sseq
        /\ sseq' = sseq + 1 /\ sid' = sid /\ Pending' = Pending
    BY <1>13 DEF ServerSendData, Of, Packet, Pending
  <2>2. Data("d_s") < MaxData
    BY <1>13 DEF ServerSendData, Sent, Data, Of
  <2>3. \A n \in Of("d_s") : n.seq # sseq
    BY PacketFields DEF SeqOnce, FromServer, Of, Types
  <2>4. sseq \in Nat /\ sid \in Nat /\ Data("d_s") \in Nat /\ MaxData \in Nat
    BY DataFinite, BoundAssumption DEF Types
  <2> HIDE DEF pk
  <2>5. Data("d_s")' = Data("d_s") + 1
    BY <2>1, <2>3, DataMore DEF Data
  <2> QED
    BY <2>1, <2>2, <2>4, <2>5, PendingFinite DEF ServerCount
<1>14. CASE Forgets
  <2>1. Of("d_s")' = Of("d_s") /\ UNCHANGED <<sseq, sid>> /\ Pending' \in SUBSET Pending
    BY <1>14 DEF Forgets, Of, Pending
  <2>2. Cardinality(Pending') <= Cardinality(Pending)
    BY <2>1, PendingFinite, FS_Subset
  <2>3. sseq \in Nat /\ sid \in Nat /\ Data("d_s") \in Nat
    BY DataFinite DEF Types
  <2> QED
    BY <2>1, <2>2, <2>3, PendingFinite DEF ServerCount, Data
<1> QED
  BY ForgetEffect, <1>0, <1>1, <1>2, <1>3, <1>4, <1>5, <1>6, <1>7, <1>8, <1>9, <1>10, <1>11,
     <1>12, <1>13, <1>14
  DEF Next, ClientRecv, ServerRecv

(* Options stay, states are states, ids were drawn.                        *)
LEMMA StepRanges == ASSUME Types, Ids, Ranges, [Next]_vars PROVE Ranges'
<1> USE DEF options, client_vars, server_vars, history
<1>0. CASE UNCHANGED vars
  BY <1>0 DEF vars, Ranges, Ids, Of, Types
<1>1. CASE StartSession
  <2>1. /\ cid' = cid + 1 /\ cid \in Nat /\ cstate' \in {"tcp_handshake", "handshake1"}
        /\ UNCHANGED <<options, copp, sid, srv>>
    BY <1>1 DEF StartSession, Types, Session, NoId
  <2>2. \A a \in Addr : srv[a].oppsite_id <= cid + 1
    BY <2>1, ConnFields DEF Ranges
  <2> QED
    BY <2>1, <2>2 DEF Ranges
<1>2. CASE ClientSendData
  BY <1>2, PacketFields, ConnFields DEF ClientSendData, Ranges, Ids, Of, Types
<1>3. CASE ClientTimeout
  BY <1>3, PacketFields, ConnFields DEF ClientTimeout, Ranges, Ids, Of, Types
<1>4. ASSUME NEW m \in net, ClientRecvSynAck(m) PROVE Ranges'
  BY <1>4, PacketFields, ConnFields
  DEF ClientRecvSynAck, FirstHandshake, Ranges, Ids, Of, Types
<1>5. ASSUME NEW m \in net, ClientRecvHandshake(m) PROVE Ranges'
  BY <1>5, PacketFields, ConnFields DEF ClientRecvHandshake, Ranges, Ids, Of, Types
<1>6. ASSUME NEW m \in net, ClientRecvSafer(m) PROVE Ranges'
  BY <1>6, PacketFields, ConnFields DEF ClientRecvSafer, ClientParses, Ranges, Ids, Of, Types
<1>7. ASSUME NEW m \in net, RecvSyn(m) PROVE Ranges'
  BY <1>7, PacketFields, ConnFields DEF RecvSyn, Ranges, Ids, Of, Types
<1>8. ASSUME NEW m \in net, RecvFirstHandshake(m) PROVE Ranges'
  <2>1. sid' = sid + 1 /\ sid < MaxSid /\ UNCHANGED <<options, client_vars>>
    BY <1>8, FirstEffect
  <2>2. copp <= sid' /\ sid' <= MaxSid
    BY <2>1, BoundAssumption DEF Ranges, Types, MaxSid
  <2>3. \A a \in Addr : srv'[a].oppsite_id <= cid
    BY <1>8, FirstEffect DEF OthersKept, Ranges, Types, Session, NoId
  <2> QED
    BY <2>1, <2>2, <2>3 DEF Ranges
<1>9. ASSUME NEW m \in net, RecvHandshakeAgain(m) PROVE Ranges'
  BY <1>9, PacketFields, ConnFields DEF RecvHandshakeAgain, Reply, Ranges, Ids, Of, Types
<1>10. ASSUME NEW m \in net, IgnoreOlder(m) PROVE Ranges'
  BY <1>10, OlderEffect, PacketFields, ConnFields DEF OthersKept, Ranges, Ids, Of, Types
<1>11. ASSUME NEW m \in net, TurnReady(m) PROVE Ranges'
  BY <1>11, ReadyEffect, PacketFields, ConnFields DEF Ranges, Ids, Of, Types
<1>12. ASSUME NEW m \in net, ServerRecvSafer(m) PROVE Ranges'
  BY <1>12, SaferEffect, PacketFields, ConnFields DEF OthersKept, Ranges, Ids, Of, Types
<1>13. ASSUME NEW a \in Addr, ServerSendData(a) PROVE Ranges'
  BY <1>13, PacketFields, ConnFields DEF ServerSendData, Ranges, Ids, Of, Types
<1>14. CASE Forgets
  <2>1. UNCHANGED <<options, client_vars, sid>>
    BY <1>14 DEF Forgets
  <2>2. \A a \in Addr : srv'[a].oppsite_id <= cid
    BY <1>14 DEF Forgets, Ranges, Types, Session, NoId
  <2> QED
    BY <2>1, <2>2 DEF Ranges
<1> QED
  BY ForgetEffect, <1>0, <1>1, <1>2, <1>3, <1>4, <1>5, <1>6, <1>7, <1>8, <1>9, <1>10, <1>11,
     <1>12, <1>13, <1>14
  DEF Next, ClientRecv, ServerRecv

(* Only numbers that were sent are remembered.                             *)
LEMMA StepSeenRange == ASSUME Types, SeqOnce, SeenRange, [Next]_vars PROVE SeenRange'
<1> USE DEF options, client_vars, server_vars, history
<1>0. CASE UNCHANGED vars
  BY <1>0 DEF vars, SeenRange, SeqOnce, FromClient, FromServer, Of, Packet, Types
<1>1. CASE StartSession
  BY <1>1, PacketFields, ConnFields
  DEF StartSession, FirstHandshake, SeenRange, SeqOnce, FromClient, FromServer, Of, Packet,
      Types
<1>2. CASE ClientSendData
  BY <1>2, PacketFields, ConnFields
  DEF ClientSendData, SeenRange, SeqOnce, FromClient, FromServer, Of, Packet, Types
<1>3. CASE ClientTimeout
  BY <1>3, PacketFields, ConnFields
  DEF ClientTimeout, SeenRange, SeqOnce, FromClient, FromServer, Of, Packet, Types
<1>4. ASSUME NEW m \in net, ClientRecvSynAck(m) PROVE SeenRange'
  BY <1>4, PacketFields, ConnFields
  DEF ClientRecvSynAck, FirstHandshake, SeenRange, SeqOnce, FromClient, FromServer, Of, Packet,
      Types
<1>5. ASSUME NEW m \in net, ClientRecvHandshake(m) PROVE SeenRange'
  BY <1>5, PacketFields, ConnFields
  DEF ClientRecvHandshake, SeenRange, SeqOnce, FromClient, FromServer, Of, Packet, Types
<1>6. ASSUME NEW m \in net, ClientRecvSafer(m) PROVE SeenRange'
  BY <1>6, PacketFields, ConnFields
  DEF ClientRecvSafer, ClientParses, SeenRange, SeqOnce, FromClient, FromServer, Of, Packet,
      Types
<1>7. ASSUME NEW m \in net, RecvSyn(m) PROVE SeenRange'
  BY <1>7, PacketFields, ConnFields
  DEF RecvSyn, SeenRange, SeqOnce, FromClient, FromServer, Of, Packet, Types
<1>8. ASSUME NEW m \in net, RecvFirstHandshake(m) PROVE SeenRange'
  BY <1>8, FirstEffect, PacketFields, ConnFields
  DEF OthersKept, SeenRange, SeqOnce, FromClient, FromServer, Of, Packet, Types
<1>9. ASSUME NEW m \in net, RecvHandshakeAgain(m) PROVE SeenRange'
  BY <1>9, PacketFields, ConnFields
  DEF RecvHandshakeAgain, Reply, SeenRange, SeqOnce, FromClient, FromServer, Of, Packet, Types
<1>10. ASSUME NEW m \in net, IgnoreOlder(m) PROVE SeenRange'
  BY <1>10, OlderEffect, PacketFields, ConnFields
  DEF OthersKept, SeenRange, SeqOnce, FromClient, FromServer, Of, Packet, Types
<1>11. ASSUME NEW m \in net, TurnReady(m) PROVE SeenRange'
  BY <1>11, ReadyEffect, PacketFields, ConnFields
  DEF SeenRange, SeqOnce, FromClient, FromServer, Of, Packet, Types
<1>12. ASSUME NEW m \in net, ServerRecvSafer(m) PROVE SeenRange'
  BY <1>12, SaferEffect, PacketFields, ConnFields
  DEF OthersKept, SeenRange, SeqOnce, FromClient, FromServer, Of, Packet, Types
<1>13. ASSUME NEW a \in Addr, ServerSendData(a) PROVE SeenRange'
  BY <1>13, PacketFields, ConnFields
  DEF ServerSendData, SeenRange, SeqOnce, FromClient, FromServer, Of, Packet, Types
<1>14. CASE Forgets
  BY <1>14, PacketFields, ConnFields
  DEF Forgets, SeenRange, SeqOnce, FromClient, FromServer, Of, Packet, Types
<1> QED
  BY ForgetEffect, <1>0, <1>1, <1>2, <1>3, <1>4, <1>5, <1>6, <1>7, <1>8, <1>9, <1>10, <1>11,
     <1>12, <1>13, <1>14
  DEF Next, ClientRecv, ServerRecv
-----------------------------------------------------------------------------
(* Initially nothing was sent and nobody is connected.                     *)
LEMMA InitIInv == ASSUME Init PROVE IInv
<1>1. PICK c \in ServerConn : c = NoConn
  BY DEF NoConn, NoId, ServerConn
<1>2. c.state = "none" /\ c.my_id = 0
  BY <1>1 DEF NoConn, NoId
<1>3. srv \in [Addr -> ServerConn] /\ \A a \in Addr : srv[a] = c
  BY <1>1 DEF Init
<1>4. Types
  BY <1>3 DEF Init, Types, NoId
<1>5. \A k : Of(k) = {}
  BY DEF Init, Of
<1>6. Owner = {} /\ answered = {} /\ cstate = "idle" /\ sid = 0
  BY <1>2, <1>3 DEF Init, Owner, NoId
<1>7. Ids /\ OneReady /\ OwnId /\ Confirmed /\ Granted /\ Answers /\ NewestHere /\ SameOrder
  BY <1>2, <1>3, <1>5, <1>6
  DEF Ids, OneReady, OwnId, Confirmed, Granted, Answers, NewestHere, SameOrder
<1>8. \A n \in SeqNum : up[n] = 0 /\ down[n] = 0
  BY DEF Init
<1>9. SeqOnce /\ UpOnce /\ DownOnce
  BY <1>5, <1>8 DEF SeqOnce, UpOnce, DownOnce, FromClient, FromServer
<1>10. options \in Options
  <2>1. PICK o \in Options : raw_mode = o[1] /\ force_source_port = o[2]
    BY DEF Init
  <2> QED
    BY <2>1, OptionAssumption DEF options
<1>11. c.oppsite_id = 0 /\ c.seen = {} /\ MaxSid \in Nat
  BY <1>1, BoundAssumption DEF NoConn, NoId, MaxSid
<1>12. Ranges /\ SeenRange
  BY <1>3, <1>10, <1>11 DEF Init, Ranges, SeenRange, NoId
<1>13. Finite /\ \A k : Data(k) = 0
  BY <1>5, FS_EmptySet DEF Init, Finite, Data
<1>14. Pending = {} /\ Cardinality(Pending) = 0
  BY <1>2, <1>3, FS_EmptySet DEF Pending
<1>15. ClientCount /\ ServerCount
  BY <1>13, <1>14, BoundAssumption DEF Init, ClientCount, ServerCount, NoId
<1> QED
  BY <1>4, <1>7, <1>9, <1>12, <1>13, <1>15 DEF IInv

(* Every step keeps the invariant.                                         *)
LEMMA StepIInv == ASSUME IInv, [Next]_vars PROVE IInv'
  BY StepTypes, StepIds, StepOneReady, StepOwnId, StepConfirmed, StepGranted, StepAnswers,
     StepNewestHere, StepSameOrder, StepSeqOnce, StepUpOnce, StepDownOnce, StepRanges,
     StepSeenRange, StepFinite, StepClientCount, StepServerCount DEF IInv

(* The inductive invariant holds in every reachable state.                 *)
THEOREM SpecIInv == Spec => []IInv
  BY InitIInv, StepIInv, PTL DEF Spec

(* Every variable stays in its range; for the sequence numbers, which      *)
(* nothing bounds directly, because every number was used for a packet.    *)
THEOREM TypeCorrect == Spec => []TypeOK
<1>1. ASSUME IInv PROVE TypeOK
  <2> USE <1>1
  <2>1. Types /\ Ranges /\ SeenRange /\ Ids /\ SeqOnce
    BY DEF IInv
  <2>2. /\ MaxSid \in Nat /\ MaxSession <= MaxSid /\ MaxData \in Nat
        /\ MaxSession \in Nat /\ cid \in Nat /\ cid <= MaxSession
    BY <2>1, BoundAssumption DEF MaxSid, Types, Session, NoId
  <2>3. cseq <= 1 + MaxData + MaxSid
    <3>1. cseq <= 1 + Data("d_c") + cid /\ Data("d_c") <= MaxData /\ Data("d_c") \in Nat
      BY DataFinite DEF IInv, ClientCount
    <3> QED
      BY <2>1, <2>2, <3>1 DEF Types
  <2>4. sseq <= 1 + MaxData + MaxSid
    <3>1. /\ sseq + Cardinality(Pending) <= 1 + Data("d_s") + sid
          /\ Data("d_s") <= MaxData /\ Data("d_s") \in Nat /\ sid <= MaxSid
      BY DataFinite DEF IInv, ServerCount, Ranges
    <3> QED
      BY <2>1, <2>2, <3>1, PendingFinite DEF Types
  <2>5. \A n \in Nat : n >= 1 /\ (n < cseq \/ n < sseq) => n \in SeqNum
    BY <2>1, <2>2, <2>3, <2>4 DEF SeqNum, Types
  <2>6. cseen \subseteq SeqNum /\ copp \in 0 .. MaxSid /\ sid \in 0 .. MaxSid
    BY <2>1, <2>2, <2>5 DEF Types, SeenRange, Ranges
  <2>7. ASSUME NEW a \in Addr
        PROVE  /\ srv[a].my_id \in 0 .. MaxSid /\ srv[a].oppsite_id \in Session \cup {NoId}
               /\ srv[a].seen \in SUBSET SeqNum
    <3>1. srv[a].my_id <= sid /\ srv[a].oppsite_id <= cid /\ sid <= MaxSid
      BY <2>1 DEF Ids, Ranges
    <3>2. srv[a].my_id \in 0 .. MaxSid /\ srv[a].oppsite_id \in Session \cup {NoId}
      BY <2>1, <2>2, <3>1, ConnFields DEF Types, Session, NoId
    <3>3. srv[a].seen \in SUBSET SeqNum
      BY <2>1, <2>5, ConnFields DEF SeenRange
    <3> QED
      BY <3>2, <3>3
  <2> DEFINE C == [state : {"none", "idle", "handshake1", "ready"}, my_id : 0 .. MaxSid,
                   oppsite_id : Session \cup {NoId}, seen : SUBSET SeqNum]
  <2>8. \A a \in Addr : srv[a] \in C
    BY <2>1, <2>7, ConnFields DEF ServerConn
  <2>9. srv \in [Addr -> C]
    BY <2>1, <2>8 DEF Types
  <2>10. ASSUME NEW m \in net PROVE m.seq \in SeqNum \cup {0} /\ m.addr \in Addr
    <3>1. CASE m \in FromClient \cup FromServer
      BY <2>1, <2>5, <3>1, PacketFields DEF SeqOnce, SeenRange
    <3>2. CASE m \notin FromClient \cup FromServer
      <4>1. m.seq = 0
        BY <2>1, <3>2, PacketFields DEF SeenRange
      <4> QED
        BY <2>1, <4>1, PacketFields
    <3> QED
      BY <3>1, <3>2
  <2> QED
    BY <2>1, <2>2, <2>6, <2>9, <2>10 DEF TypeOK, Types, Ranges
<1> QED
  BY <1>1, SpecIInv, PTL

(* SessionAgreement: a ready side was confirmed by the other one, and the  *)
(* client is served under one address.                                     *)
THEOREM Agreement == Spec => []SessionAgreement
<1>1. ASSUME IInv PROVE SessionAgreement
  <2>1. Cardinality(Owner) <= 1
    <3>1. CASE Owner = {}
      BY <3>1, FS_EmptySet
    <3>2. ASSUME NEW a \in Owner PROVE Cardinality(Owner) <= 1
      <4>1. Owner = {a}
        BY <1>1, <3>2 DEF IInv, OneReady
      <4>2. Cardinality(Owner) = 1
        BY <4>1, FS_Singleton
      <4> QED
        BY <4>2
    <3> QED
      BY <3>1, <3>2
  <2> QED
    BY <1>1, <2>1 DEF IInv, Confirmed, Granted, SessionAgreement
<1> QED
  BY <1>1, SpecIInv, PTL

(* DataAtMostOnce: neither side hands a data packet up twice, although     *)
(* both replay windows start again with every session.                     *)
THEOREM AtMostOnceEndToEnd == Spec => []DataAtMostOnce
<1>1. ASSUME IInv PROVE DataAtMostOnce
  BY <1>1 DEF IInv, UpOnce, DownOnce, DataAtMostOnce
<1> QED
  BY <1>1, SpecIInv, PTL

(* SessionMonotone: the session a recovered connection serves is not older *)
(* than the one it served before.  Of two answers the client confirmed,    *)
(* the one for the newer session names the newer connection (SameOrder),   *)
(* and recovery compares the ages of the connections.                      *)
THEOREM NeverBackToOlder == Spec => SessionMonotone
<1>1. ASSUME IInv, [Next]_vars PROVE [NeverBack]_vars
  <2> USE DEF options, client_vars, server_vars, history
  <2>1. Types /\ OneReady
    BY <1>1 DEF IInv
  <2>2. \A a \in Addr : srv[a].oppsite_id \in Nat /\ srv[a].oppsite_id >= srv[a].oppsite_id
    BY <2>1, ConnFields
  <2>3. ASSUME \A a \in Addr : a \in Owner' => a \in Owner /\ srv'[a].oppsite_id = srv[a].oppsite_id
        PROVE  NeverBack
    BY <2>1, <2>2, <2>3 DEF OneReady, NeverBack
  <2>4. CASE srv' = srv
    BY <2>3, <2>4 DEF Owner
  <2>5. ASSUME NEW m \in net, RecvFirstHandshake(m) PROVE NeverBack
    BY <2>1, <2>3, <2>5, FirstEffect DEF Owner, OthersKept
  <2>6. ASSUME NEW m \in net, IgnoreOlder(m) PROVE NeverBack
    BY <2>1, <2>3, <2>6, OlderEffect DEF Owner, OthersKept
  <2>7. ASSUME NEW m \in net, TurnReady(m) PROVE NeverBack
    <3>1. SUFFICES ASSUME NEW a \in Owner, NEW b \in Owner'
                   PROVE  srv'[b].oppsite_id >= srv[a].oppsite_id
      BY DEF NeverBack
    <3>2. b = m.addr /\ a \in Addr /\ srv[a].state = "ready"
      BY <2>1, <2>7, ReadyEffect DEF Owner
    <3>3. /\ srv'[b].oppsite_id = m.id1 /\ srv[m.addr].my_id = m.id2 /\ m.addr \in Addr
          /\ srv[m.addr].state = "handshake1" /\ ~(m.id2 < srv[a].my_id)
          /\ m \in Of("hs_c") /\ m.id2 # NoId
      BY <2>1, <2>7, <3>2, ReadyEffect DEF Older
    <3>4. m.id2 # srv[a].my_id
      BY <1>1, <3>2, <3>3 DEF IInv, OwnId
    <3>5. <<m.id1, m.id2>> \in answered /\ <<srv[a].oppsite_id, srv[a].my_id>> \in answered
      BY <1>1, <3>3 DEF IInv, Confirmed
    <3>6. m.id1 < srv[a].oppsite_id => m.id2 <= srv[a].my_id
      BY <1>1, <3>5 DEF IInv, SameOrder
    <3>7. /\ m.id1 \in Nat /\ m.id2 \in Nat
          /\ srv[a].my_id \in Nat /\ srv[a].oppsite_id \in Nat
      BY <2>1, <3>2, PacketFields, ConnFields
    <3> QED
      BY <3>3, <3>4, <3>6, <3>7
  <2>8. ASSUME NEW m \in net, ServerRecvSafer(m) PROVE NeverBack
    BY <2>1, <2>3, <2>8, SaferEffect DEF Owner, OthersKept
  <2>9. CASE Forgets
    BY <2>3, <2>9 DEF Owner, Forgets
  <2>10. \/ srv' = srv \/ Forgets
         \/ \E m \in net : \/ RecvFirstHandshake(m) \/ IgnoreOlder(m)
                           \/ TurnReady(m) \/ ServerRecvSafer(m)
    BY <1>1, <2>1, ForgetEffect
    DEF Next, vars, ClientRecv, ServerRecv, StartSession, ClientSendData, ClientTimeout,
        ClientRecvSynAck, ClientRecvHandshake, ClientRecvSafer, RecvSyn, RecvHandshakeAgain,
        ServerSendData
  <2> QED
    BY <2>4, <2>5, <2>6, <2>7, <2>8, <2>9, <2>10
<1> QED
  BY <1>1, SpecIInv, PTL DEF Spec, SessionMonotone
=============================================================================
