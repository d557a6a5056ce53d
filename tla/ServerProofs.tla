---------------------------- MODULE ServerProofs ----------------------------
(***************************************************************************)
(* The server's tables agree with each other in every reachable state, for *)
(* any number of addresses, clients, conversations and descriptors, and    *)
(* whatever the limits and timeouts are.                                   *)
(***************************************************************************)
EXTENDS Server, FiniteSetTheorems, TLAPS

(* What keeps fd64s apart: the counter has never handed out what is not    *)
(* below it.                                                               *)
CounterFresh ==
    \A f \in Fd64 : f >= counter => fd64_to_fd[f] = NoFd /\ info[f] = NoConn

(* The inductive invariant.  Ready is finite because one packet makes one  *)
(* connection ready, whatever Conn is.                                     *)
IInv == TypeOK /\ TablesExact /\ IsFiniteSet(Ready) /\ FdsOwned /\ CounterFresh

-----------------------------------------------------------------------------
(* What an action does to the connection objects.                          *)

OthersKept(ps) == \A q \in Conn \ ps : conn'[q] = conn[q]

(* The fields the tables depend on: all but the time of the last packet.   *)
SameFields(p) ==
    /\ conn'[p].state = conn[p].state /\ conn'[p].const_id = conn[p].const_id
    /\ conn'[p].src = conn[p].src /\ conn'[p].timer_fd64 = conn[p].timer_fd64
    /\ conn'[p].last_state_time = conn[p].last_state_time

(* A step after which the connection tables look as before.                *)
TablesKept == UNCHANGED <<mp, const_id_mp, ready_num>> /\ \A p \in Conn : SameFields(p)

(* Every nonempty set of natural numbers has a least element.              *)
LEMMA NatMin ==
    ASSUME NEW T \in SUBSET Nat, T # {}
    PROVE  \E x \in T : \A y \in T : x <= y
<1>1. PICK x \in T : \A y \in T : ~(<<y, x>> \in OpToRel(<, Nat))
  BY NatLessThanWellFounded, WFMin
<1>2. \A y \in T : ~(y < x)
  BY <1>1 DEF OpToRel
<1> QED
  BY <1>2

(* While descriptors are left, socket and timerfd_create return one that   *)
(* is not open.                                                            *)
LEMMA NewFdIsFree == ASSUME FdLeft PROVE NewFd \in Fd \ open
<1>1. PICK x \in Fd \ open : \A y \in Fd \ open : x <= y
  BY NatMin, LimitAssumption DEF FdLeft
<1> QED
  BY <1>1 DEF NewFd

(* 0, which stands for no fd64, is not one.                                *)
LEMMA ZeroIsNoFd64 == 0 \notin Fd64
  BY LimitAssumption DEF Fd64, FirstFd64

(* The address of a packet that is handled names an object.                *)
LEMMA UsedIsConn == ASSUME TypeOK, NEW a \in Used PROVE a \in Addr /\ mp[a] \in Conn
  BY DEF TypeOK, Used

(* A connection turned idle keeps its address and has no const id.         *)
LEMMA IdleEffect ==
    ASSUME TypeOK, NEW p \in Conn, TurnIdle(p)
    PROVE  /\ conn' \in [Conn -> ConnInfo] /\ OthersKept({p})
           /\ conn'[p].state = "idle" /\ conn'[p].const_id = NoConst
           /\ conn'[p].src = conn[p].src /\ conn'[p].timer_fd64 = conn[p].timer_fd64
           /\ conn'[p].last_state_time = conn[p].last_state_time
<1> DEFINE r == [conn[p] EXCEPT !.state = "idle", !.const_id = NoConst]
<1>1. conn' = [conn EXCEPT ![p] = r] /\ conn[p] \in ConnInfo
  BY DEF TurnIdle, TypeOK
<1>2. /\ r \in ConnInfo /\ r.state = "idle" /\ r.const_id = NoConst /\ r.src = conn[p].src
      /\ r.timer_fd64 = conn[p].timer_fd64 /\ r.last_state_time = conn[p].last_state_time
  BY <1>1 DEF ConnInfo, State
<1> HIDE DEF r
<1> QED
  BY <1>1, <1>2 DEF TypeOK, OthersKept

(* Every packet of a ready connection sets src to where it came from.      *)
LEMMA HeardEffect ==
    ASSUME TypeOK, NEW a \in Used, NEW p \in Conn, p = mp[a], Heard(a) \/ RecvHeartbeat(a)
    PROVE  /\ conn' \in [Conn -> ConnInfo] /\ OthersKept({p})
           /\ conn'[p].src = a
           /\ conn'[p].state = conn[p].state /\ conn'[p].const_id = conn[p].const_id
           /\ conn'[p].timer_fd64 = conn[p].timer_fd64
           /\ conn'[p].last_state_time = conn[p].last_state_time
<1>1. a \in Addr /\ now \in Time /\ conn[p] \in ConnInfo
  BY DEF TypeOK, Used
<1>2. PICK t \in Time : conn' = [conn EXCEPT ![p].src = a, ![p].last_hb_recv_time = t]
  <2>1. CASE Heard(a)
    BY <2>1, <1>1 DEF Heard, ConnInfo, TypeOK
  <2>2. CASE RecvHeartbeat(a)
    BY <2>2, <1>1 DEF RecvHeartbeat
  <2> QED
    BY <2>1, <2>2
<1> DEFINE r == [conn[p] EXCEPT !.src = a, !.last_hb_recv_time = t]
<1>3. conn' = [conn EXCEPT ![p] = r]
  BY <1>2 DEF TypeOK
<1>4. /\ r \in ConnInfo /\ r.src = a /\ r.state = conn[p].state
      /\ r.const_id = conn[p].const_id /\ r.timer_fd64 = conn[p].timer_fd64
      /\ r.last_state_time = conn[p].last_state_time
  BY <1>1, <1>2 DEF ConnInfo
<1> HIDE DEF r
<1> QED
  BY <1>3, <1>4 DEF TypeOK, OthersKept

(* A first handshake fills in a fresh object.                              *)
LEMMA NewEffect ==
    ASSUME TypeOK, NEW a \in Addr, NEW p \in Conn,
           conn' = [conn EXCEPT ![p] =
              [FreeConn EXCEPT !.state = "handshake1", !.src = a, !.last_state_time = now]]
    PROVE  /\ conn' \in [Conn -> ConnInfo] /\ OthersKept({p})
           /\ conn'[p].state = "handshake1" /\ conn'[p].const_id = NoConst
           /\ conn'[p].src = a /\ conn'[p].timer_fd64 = 0
<1> DEFINE r == [FreeConn EXCEPT !.state = "handshake1", !.src = a, !.last_state_time = now]
<1>1. 0 \in Time /\ now \in Time
  BY LimitAssumption DEF Time, TypeOK
<1>2. /\ r \in ConnInfo /\ r.state = "handshake1" /\ r.const_id = NoConst
      /\ r.src = a /\ r.timer_fd64 = 0
  BY <1>1 DEF ConnInfo, State, FreeConn
<1>3. conn' = [conn EXCEPT ![p] = r]
  OBVIOUS
<1> HIDE DEF r
<1> QED
  BY <1>2, <1>3 DEF TypeOK, OthersKept

(* A second handshake with an unknown const id gives the object its timer. *)
LEMMA ReadyEffect ==
    ASSUME TypeOK, NEW a \in Addr, NEW k \in ConstId, TurnReady(a, k),
           NEW p \in Conn, p = mp[a]
    PROVE  /\ conn' \in [Conn -> ConnInfo] /\ OthersKept({p})
           /\ conn'[p].state = "ready" /\ conn'[p].const_id = k
           /\ conn'[p].src = conn[p].src /\ conn'[p].timer_fd64 = counter
           /\ conn'[p].last_state_time = conn[p].last_state_time
<1> DEFINE r == [conn[p] EXCEPT !.state = "ready", !.const_id = k,
                                !.last_hb_recv_time = now, !.timer_fd64 = counter]
<1>1. counter \in Fd64 /\ conn[p] \in ConnInfo /\ now \in Time
  BY LimitAssumption DEF TurnReady, TypeOK, Fd64, FirstFd64
<1>2. conn' = [conn EXCEPT ![p] = r]
  BY DEF TurnReady, TypeOK
<1>3. /\ r \in ConnInfo /\ r.state = "ready" /\ r.const_id = k /\ r.src = conn[p].src
      /\ r.timer_fd64 = counter /\ r.last_state_time = conn[p].last_state_time
  BY <1>1 DEF ConnInfo, State
<1> HIDE DEF r
<1> QED
  BY <1>2, <1>3 DEF TypeOK, OthersKept

(* A recovery moves address and age of the new object p into the old one.  *)
LEMMA RecoverEffect ==
    ASSUME TypeOK, NEW a \in Addr, NEW k \in ConstId, Recover(a, k),
           NEW p \in Conn, p = mp[a], NEW ori \in Conn, ori = const_id_mp[k], ori # p
    PROVE  /\ conn' \in [Conn -> ConnInfo] /\ OthersKept({p, ori})
           /\ conn'[p].state = "idle" /\ conn'[p].const_id = NoConst
           /\ conn'[p].timer_fd64 = conn[p].timer_fd64
           /\ conn'[ori].state = conn[ori].state /\ conn'[ori].const_id = conn[ori].const_id
           /\ conn'[ori].src = a /\ conn'[ori].timer_fd64 = conn[ori].timer_fd64
           /\ conn'[ori].last_state_time = conn[p].last_state_time
<1> DEFINE r == [conn[ori] EXCEPT !.src = a,
                    !.last_state_time = conn[p].last_state_time, !.last_hb_recv_time = now]
           s == [conn[p] EXCEPT !.state = "idle", !.const_id = NoConst]
<1>1. conn[p] \in ConnInfo /\ conn[ori] \in ConnInfo /\ now \in Time
  BY DEF TypeOK
<1>2. conn' = [conn EXCEPT ![ori] = r, ![p] = s]
  BY DEF Recover, TypeOK
<1>3. /\ r \in ConnInfo /\ r.state = conn[ori].state /\ r.const_id = conn[ori].const_id
      /\ r.src = a /\ r.timer_fd64 = conn[ori].timer_fd64
      /\ r.last_state_time = conn[p].last_state_time
  BY <1>1 DEF ConnInfo
<1>4. /\ s \in ConnInfo /\ s.state = "idle" /\ s.const_id = NoConst
      /\ s.timer_fd64 = conn[p].timer_fd64
  BY <1>1 DEF ConnInfo, State
<1> HIDE DEF r, s
<1> QED
  BY <1>2, <1>3, <1>4 DEF TypeOK, OthersKept

(* erase gives the object back.                                            *)
LEMMA EraseEffect ==
    ASSUME TypeOK, NEW a \in Used, Erase(a), NEW p \in Conn, p = mp[a]
    PROVE  /\ conn' \in [Conn -> ConnInfo] /\ OthersKept({p})
           /\ conn'[p].state = "free" /\ conn'[p].const_id = NoConst
           /\ conn'[p].timer_fd64 = 0
<1>1. 0 \in Time
  BY LimitAssumption DEF Time
<1>2. /\ FreeConn \in ConnInfo /\ FreeConn.state = "free" /\ FreeConn.const_id = NoConst
      /\ FreeConn.timer_fd64 = 0
  BY <1>1 DEF FreeConn, ConnInfo, State
<1>3. conn' = [conn EXCEPT ![p] = FreeConn]
  BY DEF Erase
<1> QED
  BY <1>2, <1>3 DEF TypeOK, OthersKept

(* A packet of a ready connection leaves the tables as they are: the       *)
(* address it came from is the one already in src.                         *)
LEMMA HeardKeepsTables ==
    ASSUME TypeOK, TablesExact, NEW a \in Addr, ReadyPacket(a), Heard(a) \/ RecvHeartbeat(a),
           UNCHANGED <<mp, const_id_mp, ready_num>>
    PROVE  TablesKept /\ conn' \in [Conn -> ConnInfo]
<1> DEFINE p == mp[a]
<1>1. a \in Used /\ p \in Conn /\ conn[p].state = "ready"
  BY UsedIsConn DEF ReadyPacket
<1>2. conn[p].src = a
  BY <1>1 DEF TablesExact, MpExact, ReadyReachable, Used, TypeOK
<1> QED
  BY <1>1, <1>2, HeardEffect DEF TablesKept, SameFields, OthersKept

-----------------------------------------------------------------------------
(* The server starts with empty tables.                                    *)
LEMMA InitIInv == Init => IInv
<1> SUFFICES ASSUME Init PROVE IInv
  OBVIOUS
<1>1. FreeConn \in ConnInfo /\ FreeConn.state = "free" /\ FreeConn.const_id = NoConst
      /\ FreeConn.timer_fd64 = 0 /\ 0 \in Time
  BY LimitAssumption DEF FreeConn, ConnInfo, State, Time
<1>2. Ready = {} /\ Used = {}
  BY <1>1 DEF Init, Ready, Used
<1>3. TypeOK
  BY <1>1, LimitAssumption DEF Init, TypeOK, FirstFd64
<1>4. TablesExact /\ IsFiniteSet(Ready)
  BY <1>1, <1>2, FS_EmptySet, NullAssumption, LimitAssumption
  DEF Init, TablesExact, MpExact, ConstIdExact, ReadyReachable
<1>5. FdsOwned /\ CounterFresh
  BY <1>1, <1>2 DEF Init, FdsOwned, CounterFresh, Watched, ConvsOf
<1> QED
  BY <1>3, <1>4, <1>5 DEF IInv

(* Closing descriptors keeps the types of the descriptor table.            *)
LEMMA CloseTypes ==
    ASSUME TypeOK, NEW fs, fd64_close(fs)
    PROVE  /\ fd64_to_fd' \in [Fd64 -> Fd \cup {NoFd}] /\ info' \in [Fd64 -> Conn \cup {NoConn}]
           /\ counter' \in FirstFd64 .. (MaxFd64 + 1) /\ open' \in SUBSET Fd
  BY DEF TypeOK, fd64_close

(* So does entering a new one.                                             *)
LEMMA CreateTypes ==
    ASSUME TypeOK, NEW d \in Fd, NEW p \in Conn, create(d, p), counter <= MaxFd64
    PROVE  /\ fd64_to_fd' \in [Fd64 -> Fd \cup {NoFd}] /\ info' \in [Fd64 -> Conn \cup {NoConn}]
           /\ counter' \in FirstFd64 .. (MaxFd64 + 1) /\ counter \in Fd64
  BY LimitAssumption DEF TypeOK, create, Fd64, FirstFd64

(* Every step keeps the types.                                             *)
LEMMA StepTypeOK ==
    ASSUME TypeOK, TablesExact, IsFiniteSet(Ready), [Next]_vars PROVE TypeOK'
<1> USE DEF conn_vars, conv_vars, fd_vars, Handle, RawEvent
<1>0. CASE UNCHANGED vars
  BY <1>0 DEF TypeOK, vars
<1>1. CASE epoll_wait
  BY <1>1 DEF TypeOK, epoll_wait, Watched
<1>2. CASE Tick
  BY <1>2, LimitAssumption DEF TypeOK, Tick, Time
<1>3. CASE RawIgnored
  BY <1>3 DEF TypeOK, RawIgnored
<1>4. CASE ClearNothing
  BY <1>4 DEF TypeOK, ClearNothing
<1>5. ASSUME NEW a \in Addr, NewConn(a) PROVE TypeOK'
  <2>1. PICK p \in Conn :
          /\ mp' = [mp EXCEPT ![a] = p]
          /\ conn' = [conn EXCEPT ![p] =
                [FreeConn EXCEPT !.state = "handshake1", !.src = a,
                                 !.last_state_time = now]]
    BY <1>5 DEF NewConn
  <2>2. conn' \in [Conn -> ConnInfo]
    BY <2>1, NewEffect
  <2> QED
    BY <1>5, <2>1, <2>2 DEF TypeOK, NewConn
<1>6. ASSUME NEW a \in Addr, NEW k \in ConstId, TooManyReady(a, k) PROVE TypeOK'
  BY <1>6, IdleEffect, UsedIsConn DEF TypeOK, TooManyReady, SecondHandshake
<1>7. ASSUME NEW a \in Addr, NEW k \in ConstId, TurnReady(a, k) PROVE TypeOK'
  <2>1. mp[a] \in Conn /\ NewFd \in Fd
    BY <1>7, UsedIsConn, NewFdIsFree DEF TurnReady, MayTurnReady, SecondHandshake
  <2>2. conn' \in [Conn -> ConnInfo]
    BY <1>7, <2>1, ReadyEffect
  <2>3. /\ fd64_to_fd' \in [Fd64 -> Fd \cup {NoFd}] /\ info' \in [Fd64 -> Conn \cup {NoConn}]
        /\ counter' \in FirstFd64 .. (MaxFd64 + 1)
    BY <1>7, <2>1, CreateTypes DEF TurnReady
  <2> QED
    BY <1>7, <2>1, <2>2, <2>3 DEF TypeOK, TurnReady, MayTurnReady, SecondHandshake
<1>8. ASSUME NEW a \in Addr, NEW k \in ConstId, TimerFatal(a, k) PROVE TypeOK'
  BY <1>8 DEF TypeOK, TimerFatal, MayTurnReady, SecondHandshake
<1>9. ASSUME NEW a \in Addr, NEW k \in ConstId, IgnoreOlder(a, k) PROVE TypeOK'
  BY <1>9, IdleEffect, UsedIsConn DEF TypeOK, IgnoreOlder, SecondHandshake
<1>10. ASSUME NEW a \in Addr, NEW k \in ConstId, Recover(a, k) PROVE TypeOK'
  <2>1. /\ mp[a] \in Conn /\ const_id_mp[k] \in Conn /\ conn[mp[a]].state = "handshake1"
        /\ conn[const_id_mp[k]].state = "ready" /\ conn[const_id_mp[k]].src \in Addr
    BY <1>10, UsedIsConn
    DEF Recover, SecondHandshake, TypeOK, TablesExact, ConstIdExact, ReadyReachable
  <2>2. conn' \in [Conn -> ConnInfo]
    <3>1. PICK p \in Conn, ori \in Conn : p = mp[a] /\ ori = const_id_mp[k] /\ ori # p
      BY <2>1
    <3> QED
      BY <1>10, <3>1, RecoverEffect
  <2>3. mp' \in [Addr -> Conn \cup {NoConn}]
    BY <1>10, <2>1 DEF Recover, TypeOK
  <2> QED
    BY <1>10, <2>2, <2>3 DEF TypeOK, Recover, SecondHandshake
<1>11. ASSUME NEW a \in Addr, RecvHeartbeat(a) PROVE TypeOK'
  <2>1. conn' \in [Conn -> ConnInfo]
    BY <1>11, HeardKeepsTables DEF RecvHeartbeat
  <2> QED
    BY <1>11, <2>1 DEF TypeOK, RecvHeartbeat, ReadyPacket
<1>12. ASSUME NEW a \in Addr, NEW v \in ConvId, DataOldConv(a, v) PROVE TypeOK'
  <2>1. conn' \in [Conn -> ConnInfo]
    BY <1>12, HeardKeepsTables DEF DataOldConv
  <2> QED
    BY <1>12, <2>1 DEF TypeOK, DataOldConv, ReadyPacket
<1>13. ASSUME NEW a \in Addr, NEW v \in ConvId, DataDropped(a, v) PROVE TypeOK'
  <2>1. conn' \in [Conn -> ConnInfo]
    BY <1>13, HeardKeepsTables DEF DataDropped
  <2> QED
    BY <1>13, <2>1 DEF TypeOK, DataDropped, ReadyPacket
<1>14. ASSUME NEW a \in Addr, NEW v \in ConvId, DataNewConv(a, v) PROVE TypeOK'
  <2>1. mp[a] \in Conn /\ NewFd \in Fd /\ ReadyPacket(a) /\ counter <= MaxFd64
    BY <1>14, UsedIsConn, NewFdIsFree DEF DataNewConv, MayOpenConv, ReadyPacket
  <2>2. conn' \in [Conn -> ConnInfo]
    BY <1>14, <2>1, HeardKeepsTables DEF DataNewConv
  <2>3. /\ fd64_to_fd' \in [Fd64 -> Fd \cup {NoFd}] /\ info' \in [Fd64 -> Conn \cup {NoConn}]
        /\ counter' \in FirstFd64 .. (MaxFd64 + 1) /\ counter \in Fd64
    BY <1>14, <2>1, CreateTypes DEF DataNewConv
  <2>4. /\ convs' \in [Conn -> [ConvId -> Fd64 \cup {0}]]
        /\ active' \in [Conn -> [ConvId -> Time]]
    BY <1>14, <2>1, <2>3 DEF TypeOK, DataNewConv
  <2> QED
    BY <1>14, <2>1, <2>2, <2>3, <2>4 DEF TypeOK, DataNewConv, ReadyPacket
<1>15. ASSUME NEW a \in Addr, NEW v \in ConvId, DataEpollFails(a, v) PROVE TypeOK'
  <2>1. mp[a] \in Conn /\ NewFd \in Fd /\ ReadyPacket(a) /\ counter <= MaxFd64
    BY <1>15, UsedIsConn, NewFdIsFree DEF DataEpollFails, MayOpenConv, ReadyPacket
  <2>2. conn' \in [Conn -> ConnInfo]
    BY <1>15, <2>1, HeardKeepsTables DEF DataEpollFails
  <2>3. /\ fd64_to_fd' \in [Fd64 -> Fd \cup {NoFd}] /\ info' \in [Fd64 -> Conn \cup {NoConn}]
        /\ counter' \in FirstFd64 .. (MaxFd64 + 1)
    BY <1>15, <2>1, CreateTypes DEF DataEpollFails
  <2> QED
    BY <1>15, <2>1, <2>2, <2>3 DEF TypeOK, DataEpollFails, ReadyPacket
<1>16. ASSUME NEW a \in Addr, CreateAssertFails(a) PROVE TypeOK'
  BY <1>16
  DEF TypeOK, CreateAssertFails, MayTurnReady, MayOpenConv, SecondHandshake, ReadyPacket
<1>17. ASSUME NEW a \in Addr, ClearInactive(a) PROVE TypeOK'
  <2>1. CASE Keep(mp[a])
    BY <1>17, <2>1 DEF TypeOK, ClearInactive
  <2>2. CASE ~Keep(mp[a])
    <3>1. Erase(a) /\ a \in Used /\ mp[a] \in Conn
      BY <1>17, <2>2, UsedIsConn DEF ClearInactive
    <3>2. conn' \in [Conn -> ConnInfo]
      BY <3>1, EraseEffect
    <3>3. ready_num' \in Nat
      <4>1. CASE conn[mp[a]].state = "ready"
        <5>1. Ready # {} /\ ready_num = Cardinality(Ready)
          BY <3>1, <4>1 DEF Ready, TablesExact, ConstIdExact
        <5>2. ready_num # 0
          BY <5>1, FS_EmptySet
        <5> QED
          BY <3>1, <4>1, <5>2 DEF Erase, TypeOK
      <4>2. CASE conn[mp[a]].state # "ready"
        BY <3>1, <4>2 DEF Erase, TypeOK
      <4> QED
        BY <4>1, <4>2
    <3>4. /\ fd64_to_fd' \in [Fd64 -> Fd \cup {NoFd}] /\ info' \in [Fd64 -> Conn \cup {NoConn}]
          /\ counter' \in FirstFd64 .. (MaxFd64 + 1) /\ open' \in SUBSET Fd
      <4>1. CASE conn[mp[a]].state = "ready"
        BY <3>1, <4>1, CloseTypes DEF Erase
      <4>2. CASE conn[mp[a]].state # "ready"
        BY <3>1, <4>2 DEF Erase, TypeOK
      <4> QED
        BY <4>1, <4>2
    <3>5. convs' \in [Conn -> [ConvId -> Fd64 \cup {0}]] /\ active' = active
      <4>1. convs' = convs \/ convs' = [convs EXCEPT ![mp[a]] = [v \in ConvId |-> 0]]
        BY <3>1 DEF Erase
      <4>2. convs' \in [Conn -> [ConvId -> Fd64 \cup {0}]]
        BY SMTT(30), <3>1, <4>1 DEF TypeOK
      <4> QED
        BY <3>1, <4>2 DEF Erase
    <3>6. /\ mp' \in [Addr -> Conn \cup {NoConn}]
          /\ const_id_mp' \in [ConstId -> Conn \cup {NoConn}]
      BY <3>1 DEF Erase, TypeOK
    <3> QED
      BY <1>17, <3>2, <3>3, <3>4, <3>5, <3>6 DEF TypeOK, ClearInactive
  <2> QED
    BY <2>1, <2>2
<1>18. ASSUME NEW p \in Conn, ConnTimer(p) PROVE TypeOK'
  <2>1. CASE Expired(p) = {}
    BY <1>18, <2>1 DEF TypeOK, ConnTimer
  <2>2. CASE Expired(p) # {}
    <3>1. PICK v \in Expired(p) :
             fd64_close({convs[p][v]}) /\ convs' = [convs EXCEPT ![p][v] = 0]
      BY <1>18, <2>2 DEF ConnTimer
    <3>2. /\ fd64_to_fd' \in [Fd64 -> Fd \cup {NoFd}]
          /\ info' \in [Fd64 -> Conn \cup {NoConn}]
          /\ counter' \in FirstFd64 .. (MaxFd64 + 1) /\ open' \in SUBSET Fd
      BY <3>1, CloseTypes
    <3>3. convs' \in [Conn -> [ConvId -> Fd64 \cup {0}]]
      BY <3>1 DEF TypeOK
    <3> QED
      BY <1>18, <3>2, <3>3 DEF TypeOK, ConnTimer
  <2> QED
    BY <2>1, <2>2
<1>19. ASSUME NEW f \in Fd64, UdpRecv(f) PROVE TypeOK'
  BY <1>19 DEF TypeOK, UdpRecv
<1>20. ASSUME NEW f \in Fd64, StaleEvent(f) PROVE TypeOK'
  BY <1>20 DEF TypeOK, StaleEvent
<1> QED
  BY <1>0, <1>1, <1>2, <1>3, <1>4, <1>5, <1>6, <1>7, <1>8, <1>9, <1>10, <1>11, <1>12, <1>13,
     <1>14, <1>15, <1>16, <1>17, <1>18, <1>19, <1>20 DEF Next, Handshakes, Packets

-----------------------------------------------------------------------------
(* The connection tables.                                                  *)

(* mp stays exact when it and what is allocated stay the same.             *)
LEMMA SameMp ==
    ASSUME TypeOK, MpExact, mp' = mp,
           \A q \in Conn : conn'[q].state = "free" <=> conn[q].state = "free"
    PROVE  MpExact'
<1>1. Used' = Used /\ \A a \in Used : mp[a] \in Conn
  BY UsedIsConn DEF Used
<1>2. \A a \in Used : conn'[mp[a]].state # "free"
  BY <1>1 DEF MpExact
<1> QED
  BY <1>1, <1>2 DEF MpExact

(* So does the index when no connection becomes or stops being ready.      *)
LEMMA SameIndex ==
    ASSUME ConstIdExact, const_id_mp' = const_id_mp, ready_num' = ready_num,
           \A q \in Conn : /\ conn'[q].state = "ready" <=> conn[q].state = "ready"
                           /\ conn'[q].const_id = conn[q].const_id
    PROVE  ConstIdExact' /\ Ready' = Ready
<1>1. Ready' = Ready
  BY DEF Ready
<1> QED
  BY <1>1 DEF ConstIdExact

(* A step that keeps the tables keeps what holds of them.                  *)
LEMMA KeptTables ==
    ASSUME TypeOK, TablesExact, IsFiniteSet(Ready), TablesKept
    PROVE  TablesExact' /\ IsFiniteSet(Ready)' /\ Ready' = Ready
<1>1. Ready' = Ready /\ Used' = Used
  BY DEF Ready, Used, TablesKept, SameFields
<1>2. MpExact'
  BY SameMp DEF TablesExact, TablesKept, SameFields
<1>3. ConstIdExact'
  BY SameIndex DEF TablesExact, TablesKept, SameFields
<1>4. ReadyReachable'
  BY DEF TablesExact, ReadyReachable, TablesKept, SameFields, TypeOK
<1> QED
  BY <1>1, <1>2, <1>3, <1>4 DEF TablesExact

(* A first handshake enters an object no table names under a free address. *)
LEMMA NewTables ==
    ASSUME TypeOK, TablesExact, IsFiniteSet(Ready), NEW a \in Addr, NewConn(a)
    PROVE  TablesExact' /\ IsFiniteSet(Ready)'
<1>1. PICK p \in Conn :
          /\ conn[p].state = "free" /\ mp' = [mp EXCEPT ![a] = p]
          /\ conn' = [conn EXCEPT ![p] =
                [FreeConn EXCEPT !.state = "handshake1", !.src = a,
                                 !.last_state_time = now]]
  BY DEF NewConn
<1>2. /\ \A q \in Conn \ {p} : conn'[q] = conn[q]
      /\ conn'[p].state = "handshake1" /\ conn'[p].const_id = NoConst /\ conn'[p].src = a
  BY <1>1, NewEffect DEF OthersKept
<1>3. mp[a] = NoConn /\ mp'[a] = p /\ \A b \in Addr \ {a} : mp'[b] = mp[b]
  BY <1>1 DEF NewConn, Used, TypeOK
<1>4. const_id_mp' = const_id_mp /\ ready_num' = ready_num
  BY DEF NewConn
<1>5. Ready' = Ready
  BY <1>1, <1>2 DEF Ready
<1>6. MpExact'
  BY <1>1, <1>2, <1>3, NullAssumption DEF TablesExact, MpExact, Used, TypeOK
<1>7. ConstIdExact'
  <2>1. conn[p].const_id = NoConst
    BY <1>1 DEF TablesExact, ConstIdExact
  <2> QED
    BY <1>1, <1>2, <1>4, <2>1, SameIndex DEF TablesExact
<1>8. ReadyReachable'
  BY <1>1, <1>2, <1>3, NullAssumption DEF TablesExact, ReadyReachable, TypeOK
<1> QED
  BY <1>5, <1>6, <1>7, <1>8 DEF TablesExact

(* A refused second handshake only changes a connection no index names.    *)
LEMMA IdleTables ==
    ASSUME TypeOK, TablesExact, IsFiniteSet(Ready), NEW a \in Used,
           conn[mp[a]].state = "handshake1", TurnIdle(mp[a]),
           UNCHANGED <<mp, const_id_mp, ready_num>>
    PROVE  TablesExact' /\ IsFiniteSet(Ready)' /\ Ready' = Ready
<1>1. PICK p \in Conn : p = mp[a]
  BY UsedIsConn
<1>2. /\ \A q \in Conn \ {p} : conn'[q] = conn[q]
      /\ conn'[p].state = "idle" /\ conn'[p].const_id = NoConst
  BY <1>1, IdleEffect DEF OthersKept
<1>3. Ready' = Ready
  BY <1>1, <1>2 DEF Ready
<1>4. MpExact'
  BY <1>1, <1>2, SameMp DEF TablesExact
<1>5. ConstIdExact'
  <2>1. conn[p].const_id = NoConst
    BY <1>1 DEF TablesExact, ConstIdExact
  <2> QED
    BY <1>1, <1>2, <2>1, SameIndex DEF TablesExact
<1>6. ReadyReachable'
  BY <1>1, <1>2 DEF TablesExact, ReadyReachable, TypeOK
<1> QED
  BY <1>3, <1>4, <1>5, <1>6 DEF TablesExact

(* A connection that becomes ready is entered in the index and counted.    *)
LEMMA ReadyTables ==
    ASSUME TypeOK, TablesExact, IsFiniteSet(Ready), NEW a \in Addr, NEW k \in ConstId,
           TurnReady(a, k)
    PROVE  TablesExact' /\ IsFiniteSet(Ready)' /\ Ready' = Ready \cup {mp[a]}
<1>1. PICK p \in Conn : p = mp[a]
  BY UsedIsConn DEF TurnReady, MayTurnReady, SecondHandshake
<1>2. /\ a \in Used /\ conn[p].state = "handshake1"
      /\ const_id_mp[k] = NoConn /\ ready_num < max_ready_conn_num
      /\ mp' = mp /\ const_id_mp' = [const_id_mp EXCEPT ![k] = p] /\ ready_num' = ready_num + 1
  BY <1>1 DEF TurnReady, MayTurnReady, SecondHandshake
<1>3. /\ \A q \in Conn \ {p} : conn'[q] = conn[q]
      /\ conn'[p].state = "ready" /\ conn'[p].const_id = k /\ conn'[p].src = conn[p].src
  BY <1>1, ReadyEffect DEF OthersKept
<1>4. Ready' = Ready \cup {p} /\ p \notin Ready
  BY <1>1, <1>2, <1>3 DEF Ready
<1>5. IsFiniteSet(Ready') /\ Cardinality(Ready') = Cardinality(Ready) + 1
  BY <1>4, FS_AddElement
<1>6. MpExact'
  BY <1>2, <1>3, SameMp DEF TablesExact
<1>7. ConstIdExact'
  <2>1. \A j \in ConstId, q \in Conn :
           const_id_mp'[j] = q <=> (conn'[q].state = "ready" /\ conn'[q].const_id = j)
    BY <1>2, <1>3, NullAssumption DEF TablesExact, ConstIdExact, TypeOK
  <2>2. \A q \in Conn : conn'[q].const_id = NoConst <=> conn'[q].state # "ready"
    BY <1>3, NullAssumption DEF TablesExact, ConstIdExact
  <2>3. ready_num' = Cardinality(Ready') /\ ready_num' <= max_ready_conn_num
    BY <1>2, <1>5, LimitAssumption DEF TablesExact, ConstIdExact, TypeOK
  <2> QED
    BY <2>1, <2>2, <2>3 DEF ConstIdExact
<1>8. ReadyReachable'
  BY <1>1, <1>2, <1>3 DEF TablesExact, ReadyReachable, TypeOK
<1> QED
  BY <1>1, <1>4, <1>5, <1>6, <1>7, <1>8 DEF TablesExact

(* What a recovery finds and leaves: two objects, at two addresses, change *)
(* places in mp.                                                           *)
LEMMA RecoverSwaps ==
    ASSUME TypeOK, TablesExact, NEW a \in Addr, NEW k \in ConstId, Recover(a, k)
    PROVE  \E p, ori \in Conn, addr1 \in Addr :
              /\ p # ori /\ a # addr1
              /\ mp[a] = p /\ mp[addr1] = ori /\ mp'[a] = ori /\ mp'[addr1] = p
              /\ \A b \in Addr \ {a, addr1} : mp'[b] = mp[b]
              /\ const_id_mp[k] = ori /\ conn[ori].const_id = k
              /\ conn[p].state = "handshake1" /\ conn[ori].state = "ready"
              /\ conn[p].last_state_time >= conn[ori].last_state_time
<1>1. PICK p \in Conn : p = mp[a]
  BY UsedIsConn DEF Recover, SecondHandshake
<1>2. PICK ori \in Conn : ori = const_id_mp[k]
  BY DEF Recover, TypeOK
<1>3. /\ conn[p].state = "handshake1" /\ conn[ori].state = "ready" /\ conn[ori].const_id = k
      /\ p # ori
  BY <1>1, <1>2 DEF Recover, SecondHandshake, TablesExact, ConstIdExact
<1>4. PICK addr1 \in Addr : addr1 = conn[ori].src /\ mp[addr1] = ori
  BY <1>3 DEF TablesExact, ReadyReachable
<1>5. /\ mp' = [mp EXCEPT ![addr1] = mp[a], ![a] = mp[addr1]]
      /\ conn[p].last_state_time >= conn[ori].last_state_time
  BY <1>1, <1>2, <1>4 DEF Recover
<1>6. a # addr1
  BY <1>1, <1>3, <1>4
<1>7. mp'[a] = ori /\ mp'[addr1] = p /\ \A b \in Addr \ {a, addr1} : mp'[b] = mp[b]
  BY <1>1, <1>4, <1>5, <1>6 DEF TypeOK
<1> QED
  BY <1>1, <1>2, <1>3, <1>4, <1>5, <1>6, <1>7

(* A recovery keeps the tables exact: the old object is now found under    *)
(* the new address, the new object under the old one.                      *)
LEMMA RecoverTables ==
    ASSUME TypeOK, TablesExact, IsFiniteSet(Ready), NEW a \in Addr, NEW k \in ConstId,
           Recover(a, k)
    PROVE  TablesExact' /\ IsFiniteSet(Ready)' /\ Ready' = Ready
<1>1. PICK p \in Conn, ori \in Conn, addr1 \in Addr :
              /\ p # ori /\ a # addr1
              /\ mp[a] = p /\ mp[addr1] = ori /\ mp'[a] = ori /\ mp'[addr1] = p
              /\ \A b \in Addr \ {a, addr1} : mp'[b] = mp[b]
              /\ const_id_mp[k] = ori /\ conn[ori].const_id = k
              /\ conn[p].state = "handshake1" /\ conn[ori].state = "ready"
              /\ conn[p].last_state_time >= conn[ori].last_state_time
  BY RecoverSwaps
<1>2. /\ \A q \in Conn \ {p, ori} : conn'[q] = conn[q]
      /\ conn'[p].state = "idle" /\ conn'[p].const_id = NoConst
      /\ conn'[ori].state = "ready" /\ conn'[ori].const_id = k /\ conn'[ori].src = a
  BY <1>1, RecoverEffect DEF OthersKept
<1>3. const_id_mp' = const_id_mp /\ ready_num' = ready_num
  BY DEF Recover
<1>4. Ready' = Ready
  BY <1>1, <1>2 DEF Ready
<1>5. MpExact'
  <2>1. \A b \in Used' : conn'[mp'[b]].state # "free"
    BY SMTT(30), <1>1, <1>2 DEF TablesExact, MpExact, Used, TypeOK
  <2>2. \A b, c \in Used' : mp'[b] = mp'[c] => b = c
    BY SMTT(30), <1>1 DEF TablesExact, MpExact, Used, TypeOK
  <2>3. \A q \in Conn : conn'[q].state # "free" => \E b \in Addr : mp'[b] = q
    BY <1>1, <1>2 DEF TablesExact, MpExact
  <2> QED
    BY <2>1, <2>2, <2>3 DEF MpExact
<1>6. ConstIdExact'
  <2>1. conn[p].const_id = NoConst
    BY <1>1 DEF TablesExact, ConstIdExact
  <2> QED
    BY <1>1, <1>2, <1>3, <2>1, SameIndex DEF TablesExact
<1>7. ReadyReachable'
  BY <1>1, <1>2 DEF TablesExact, ReadyReachable, MpExact
<1> QED
  BY <1>4, <1>5, <1>6, <1>7 DEF TablesExact

(* erase takes the object out of every table that names it.                *)
LEMMA EraseTables ==
    ASSUME TypeOK, TablesExact, IsFiniteSet(Ready), NEW a \in Used, Erase(a)
    PROVE  TablesExact' /\ IsFiniteSet(Ready)' /\ Ready' = Ready \ {mp[a]}
<1>1. PICK p \in Conn : p = mp[a]
  BY UsedIsConn
<1>2. /\ \A q \in Conn \ {p} : conn'[q] = conn[q]
      /\ conn'[p].state = "free" /\ conn'[p].const_id = NoConst
  BY <1>1, EraseEffect DEF OthersKept
<1>3. a \in Addr /\ mp'[a] = NoConn /\ \A b \in Addr \ {a} : mp'[b] = mp[b]
  BY UsedIsConn DEF Erase, TypeOK
<1>4. Ready' = Ready \ {p}
  BY <1>2 DEF Ready
<1>5. MpExact'
  <2>1. Used' = Used \ {a} /\ \A b \in Used' : mp'[b] = mp[b] /\ mp[b] \in Conn
    BY <1>3, UsedIsConn DEF Used
  <2>2. \A b \in Used' : mp'[b] # p /\ conn'[mp'[b]].state # "free"
    BY <1>1, <1>2, <2>1 DEF TablesExact, MpExact
  <2>3. \A b, c \in Used' : mp'[b] = mp'[c] => b = c
    BY <2>1 DEF TablesExact, MpExact
  <2>4. \A q \in Conn : conn'[q].state # "free" => \E b \in Addr : mp'[b] = q
    BY <1>1, <1>2, <1>3 DEF TablesExact, MpExact
  <2> QED
    BY <2>2, <2>3, <2>4 DEF MpExact
<1>6. ReadyReachable'
  BY <1>1, <1>2, <1>3, NullAssumption DEF TablesExact, ReadyReachable, TypeOK
<1>7. ConstIdExact' /\ IsFiniteSet(Ready')
  <2>1. CASE p \in Ready
    <3>1. PICK k \in ConstId : k = conn[p].const_id
      <4>1. conn[p].const_id \in ConstId \cup {NoConst}
        BY DEF TypeOK, ConnInfo
      <4> QED
        BY <4>1, <2>1 DEF Ready, TablesExact, ConstIdExact
    <3>2. const_id_mp' = [const_id_mp EXCEPT ![k] = NoConn] /\ ready_num' = ready_num - 1
      BY <1>1, <2>1, <3>1 DEF Erase, Ready
    <3>3. IsFiniteSet(Ready') /\ Cardinality(Ready') = Cardinality(Ready) - 1
      BY <1>4, <2>1, FS_RemoveElement
    <3>4. \A j \in ConstId, q \in Conn :
             const_id_mp'[j] = q <=> (conn'[q].state = "ready" /\ conn'[q].const_id = j)
      BY <1>2, <2>1, <3>1, <3>2, NullAssumption DEF TablesExact, ConstIdExact, TypeOK, Ready
    <3>5. \A q \in Conn : conn'[q].const_id = NoConst <=> conn'[q].state # "ready"
      BY <1>2 DEF TablesExact, ConstIdExact
    <3>6. ready_num' = Cardinality(Ready') /\ ready_num' <= max_ready_conn_num
      BY <3>2, <3>3, LimitAssumption DEF TablesExact, ConstIdExact, TypeOK
    <3> QED
      BY <3>3, <3>4, <3>5, <3>6 DEF ConstIdExact
  <2>2. CASE p \notin Ready
    <3>1. const_id_mp' = const_id_mp /\ ready_num' = ready_num /\ Ready' = Ready
      BY <1>1, <1>4, <2>2 DEF Erase, Ready
    <3> QED
      <4>1. conn[p].const_id = NoConst /\ conn[p].state # "ready"
        BY <2>2 DEF TablesExact, ConstIdExact, Ready
      <4> QED
        BY <1>2, <3>1, <4>1, SameIndex DEF TablesExact
  <2> QED
    BY <2>1, <2>2
<1> QED
  BY <1>1, <1>4, <1>5, <1>6, <1>7 DEF TablesExact

-----------------------------------------------------------------------------
(* The descriptor table.                                                   *)

(* A step that opens and closes nothing keeps the descriptors owned.       *)
LEMMA KeptFds ==
    ASSUME FdsOwned, CounterFresh, UNCHANGED <<convs, fd64_to_fd, info, counter, open>>,
           Ready' = Ready, \A q \in Conn : conn'[q].timer_fd64 = conn[q].timer_fd64
    PROVE  FdsOwned' /\ CounterFresh'
<1>1. Watched' = Watched /\ \A q \in Conn : ConvsOf(q)' = ConvsOf(q)
  BY DEF Watched, ConvsOf
<1>2. Ready \subseteq Conn
  BY DEF Ready
<1> QED
  BY <1>1, <1>2 DEF FdsOwned, CounterFresh

(* create enters the new descriptor under an fd64 nothing names yet.       *)
LEMMA CreateWatches ==
    ASSUME TypeOK, CounterFresh, counter <= MaxFd64, FdLeft, ~fd_exist(NewFd), NEW p \in Conn,
           create(NewFd, p), open' = open \cup {NewFd}
    PROVE  /\ counter \in Fd64 \ Watched /\ Watched' = Watched \cup {counter} /\ CounterFresh'
           /\ info'[counter] = p /\ fd64_to_fd'[counter] = NewFd /\ NewFd \notin open
           /\ \A f \in Fd64 \ {counter} : info'[f] = info[f] /\ fd64_to_fd'[f] = fd64_to_fd[f]
<1>1. counter \in Fd64 /\ NewFd \in Fd \ open
  BY NewFdIsFree, LimitAssumption DEF TypeOK, Fd64, FirstFd64
<1>2. /\ info'[counter] = p /\ fd64_to_fd'[counter] = NewFd
      /\ \A f \in Fd64 \ {counter} : info'[f] = info[f] /\ fd64_to_fd'[f] = fd64_to_fd[f]
  BY <1>1 DEF create, TypeOK
<1>3. fd64_to_fd[counter] \notin open
  <2>1. counter >= counter
    BY <1>1, LimitAssumption DEF Fd64, FirstFd64
  <2>2. fd64_to_fd[counter] = NoFd
    BY <1>1, <2>1 DEF CounterFresh
  <2> QED
    BY <2>2, NullAssumption DEF TypeOK
<1>4. Watched' = Watched \cup {counter}
  BY <1>1, <1>2 DEF Watched, fd_exist
<1>5. CounterFresh'
  BY <1>1, <1>2 DEF CounterFresh, create, TypeOK, Fd64
<1> QED
  BY <1>1, <1>2, <1>3, <1>4, <1>5 DEF Watched

(* fd64_close closes exactly the descriptors of the fd64s it is given.     *)
LEMMA CloseUnwatches ==
    ASSUME TypeOK, CounterFresh, FdsOwned, NEW fs \in SUBSET Watched, fd64_close(fs)
    PROVE  /\ Watched' = Watched \ fs /\ CounterFresh'
           /\ \A f \in Watched' : info'[f] = info[f] /\ fd64_to_fd'[f] = fd64_to_fd[f]
           /\ \A d \in open' : \E f \in Watched' : fd64_to_fd'[f] = d
<1>1. \A f, g \in Watched : fd64_to_fd[f] = fd64_to_fd[g] => f = g
  BY DEF FdsOwned
<1>2. \A f \in Fd64 : /\ f \in fs => fd64_to_fd'[f] = NoFd /\ info'[f] = NoConn
                      /\ f \notin fs => fd64_to_fd'[f] = fd64_to_fd[f] /\ info'[f] = info[f]
  BY DEF fd64_close
<1>3. open' = open \ {fd64_to_fd[f] : f \in fs} /\ NoFd \notin open /\ counter' = counter
  BY NullAssumption DEF fd64_close, TypeOK
<1>4. Watched' = Watched \ fs
  BY <1>1, <1>2, <1>3 DEF Watched
<1>5. \A d \in open' : \E f \in Watched' : fd64_to_fd'[f] = d
  <2> SUFFICES ASSUME NEW d \in open' PROVE \E f \in Watched' : fd64_to_fd'[f] = d
    OBVIOUS
  <2>1. PICK f \in Watched : fd64_to_fd[f] = d
    BY <1>3 DEF FdsOwned
  <2>2. f \notin fs /\ f \in Fd64
    BY <1>3, <2>1 DEF Watched
  <2> QED
    BY <1>2, <1>4, <2>1, <2>2
<1>6. CounterFresh'
  BY <1>2, <1>3 DEF CounterFresh
<1> QED
  BY <1>2, <1>4, <1>5, <1>6 DEF Watched

(* The new timer belongs to the connection that became ready.              *)
LEMMA ReadyFds ==
    ASSUME TypeOK, TablesExact, IsFiniteSet(Ready), FdsOwned, CounterFresh,
           NEW a \in Addr, NEW k \in ConstId, TurnReady(a, k)
    PROVE  FdsOwned' /\ CounterFresh'
<1>1. PICK p \in Conn : p = mp[a]
  BY UsedIsConn DEF TurnReady, MayTurnReady, SecondHandshake
<1>2. Ready' = Ready \cup {p} /\ p \notin Ready
  BY <1>1, ReadyTables DEF Ready, TurnReady, MayTurnReady, SecondHandshake
<1>3. conn'[p].timer_fd64 = counter /\ \A q \in Conn \ {p} : conn'[q] = conn[q]
  BY <1>1, ReadyEffect DEF OthersKept
<1>4. /\ counter \in Fd64 \ Watched /\ Watched' = Watched \cup {counter} /\ CounterFresh'
      /\ info'[counter] = p /\ fd64_to_fd'[counter] = NewFd /\ NewFd \notin open
      /\ \A f \in Fd64 \ {counter} : info'[f] = info[f] /\ fd64_to_fd'[f] = fd64_to_fd[f]
  BY <1>1, CreateWatches DEF TurnReady
<1>5. convs' = convs /\ open' = open \cup {NewFd} /\ \A q \in Conn : ConvsOf(q)' = ConvsOf(q)
  BY DEF TurnReady, conv_vars, ConvsOf
<1>6. Watched \subseteq Fd64 /\ Ready \subseteq Conn
  BY DEF Watched, Ready
<1>7. \A f \in Watched' :
         /\ info'[f] \in Ready'
         /\ \/ f = conn'[info'[f]].timer_fd64
            \/ \E v \in ConvId : convs'[info'[f]][v] = f
  BY <1>2, <1>3, <1>4, <1>5, <1>6 DEF FdsOwned
<1>8. \A q \in Ready' : conn'[q].timer_fd64 \in Watched' /\ info'[conn'[q].timer_fd64] = q
  BY <1>2, <1>3, <1>4, <1>6 DEF FdsOwned
<1>9. \A q \in Conn : \A v \in ConvsOf(q)' :
         /\ q \in Ready'
         /\ convs'[q][v] \in Watched' /\ info'[convs'[q][v]] = q
         /\ convs'[q][v] # conn'[q].timer_fd64
         /\ \A w \in ConvsOf(q)' : convs'[q][v] = convs'[q][w] => v = w
  BY <1>2, <1>3, <1>4, <1>5, <1>6 DEF FdsOwned
<1>10. \A q \in Conn \ Ready' : conn'[q].timer_fd64 = 0
  BY <1>2, <1>3 DEF FdsOwned
<1>11. /\ \A f, g \in Watched' : fd64_to_fd'[f] = fd64_to_fd'[g] => f = g
       /\ \A d \in open' : \E f \in Watched' : fd64_to_fd'[f] = d
  BY <1>4, <1>5, <1>6 DEF FdsOwned, Watched
<1> QED
  BY <1>4, <1>7, <1>8, <1>9, <1>10, <1>11 DEF FdsOwned

(* A new socket belongs to the conversation the packet opened.             *)
LEMMA ConvFds ==
    ASSUME TypeOK, TablesExact, IsFiniteSet(Ready), FdsOwned, CounterFresh,
           NEW a \in Addr, NEW v \in ConvId, DataNewConv(a, v)
    PROVE  FdsOwned' /\ CounterFresh'
<1>1. PICK p \in Conn : p = mp[a]
  BY UsedIsConn DEF DataNewConv, MayOpenConv, ReadyPacket
<1>2. p \in Ready /\ v \notin ConvsOf(p)
  BY <1>1 DEF Ready, DataNewConv, MayOpenConv, ReadyPacket
<1>3. Ready' = Ready /\ \A q \in Conn : conn'[q].timer_fd64 = conn[q].timer_fd64
  BY HeardKeepsTables, KeptTables DEF DataNewConv, MayOpenConv, TablesKept, SameFields
<1>4. /\ counter \in Fd64 \ Watched /\ Watched' = Watched \cup {counter} /\ CounterFresh'
      /\ info'[counter] = p /\ fd64_to_fd'[counter] = NewFd /\ NewFd \notin open
      /\ \A f \in Fd64 \ {counter} : info'[f] = info[f] /\ fd64_to_fd'[f] = fd64_to_fd[f]
  BY <1>1, CreateWatches DEF DataNewConv, MayOpenConv
<1>5. /\ convs'[p][v] = counter /\ \A w \in ConvId \ {v} : convs'[p][w] = convs[p][w]
      /\ \A q \in Conn \ {p} : convs'[q] = convs[q]
      /\ open' = open \cup {NewFd}
  BY <1>1 DEF DataNewConv, TypeOK
<1>6. /\ ConvsOf(p)' = ConvsOf(p) \cup {v}
      /\ \A q \in Conn \ {p} : ConvsOf(q)' = ConvsOf(q)
  BY <1>4, <1>5, ZeroIsNoFd64 DEF ConvsOf
<1>7. Watched \subseteq Fd64 /\ Ready \subseteq Conn /\ \A q \in Conn : ConvsOf(q) \subseteq ConvId
  BY DEF Watched, Ready, ConvsOf
<1>8. \A f \in Watched' :
         /\ info'[f] \in Ready'
         /\ \/ f = conn'[info'[f]].timer_fd64
            \/ \E w \in ConvId : convs'[info'[f]][w] = f
  <2> SUFFICES ASSUME NEW f \in Watched
               PROVE  /\ info'[f] \in Ready
                      /\ \/ f = conn'[info'[f]].timer_fd64
                         \/ \E w \in ConvId : convs'[info'[f]][w] = f
    BY <1>2, <1>3, <1>4, <1>5
  <2>1. info'[f] = info[f] /\ info[f] \in Ready /\ f # 0
    BY <1>4, <1>7, ZeroIsNoFd64 DEF FdsOwned
  <2>2. CASE f = conn[info[f]].timer_fd64
    BY <1>3, <1>7, <2>1, <2>2
  <2>3. ASSUME NEW w \in ConvId, convs[info[f]][w] = f PROVE convs'[info[f]][w] = f
    <3>1. w \in ConvsOf(info[f])
      BY <2>1, <2>3 DEF ConvsOf
    <3> QED
      BY <1>2, <1>5, <1>7, <2>1, <2>3, <3>1
  <2> QED
    BY <2>1, <2>2, <2>3 DEF FdsOwned
<1>9. \A q \in Ready' : conn'[q].timer_fd64 \in Watched' /\ info'[conn'[q].timer_fd64] = q
  BY <1>3, <1>4, <1>7 DEF FdsOwned
<1>10. \A q \in Conn : \A u \in ConvsOf(q)' :
         /\ q \in Ready'
         /\ convs'[q][u] \in Watched' /\ info'[convs'[q][u]] = q
         /\ convs'[q][u] # conn'[q].timer_fd64
         /\ \A w \in ConvsOf(q)' : convs'[q][u] = convs'[q][w] => u = w
  <2>1. \A q \in Conn \ {p} : \A u \in ConvsOf(q)' :
         /\ q \in Ready'
         /\ convs'[q][u] \in Watched' /\ info'[convs'[q][u]] = q
         /\ convs'[q][u] # conn'[q].timer_fd64
         /\ \A w \in ConvsOf(q)' : convs'[q][u] = convs'[q][w] => u = w
    BY <1>3, <1>4, <1>5, <1>6, <1>7 DEF FdsOwned
  <2>2. \A u \in ConvsOf(p) :
         /\ convs'[p][u] \in Watched /\ info'[convs'[p][u]] = p
         /\ convs'[p][u] # conn'[p].timer_fd64
         /\ \A w \in ConvsOf(p) : convs'[p][u] = convs'[p][w] => u = w
    BY <1>2, <1>3, <1>4, <1>5, <1>7 DEF FdsOwned
  <2>3. counter # conn'[p].timer_fd64
    BY <1>2, <1>3, <1>4, <1>7 DEF FdsOwned
  <2> QED
    BY <1>2, <1>3, <1>4, <1>5, <1>6, <2>1, <2>2, <2>3
<1>11. \A q \in Conn \ Ready' : conn'[q].timer_fd64 = 0
  BY <1>3 DEF FdsOwned
<1>12. /\ \A f, g \in Watched' : fd64_to_fd'[f] = fd64_to_fd'[g] => f = g
       /\ \A d \in open' : \E f \in Watched' : fd64_to_fd'[f] = d
  BY <1>4, <1>5, <1>7 DEF FdsOwned, Watched
<1> QED
  BY <1>4, <1>8, <1>9, <1>10, <1>11, <1>12 DEF FdsOwned

(* The entry a failed epoll_ctl leaves behind is never watched.            *)
LEMMA EpollFailsFds ==
    ASSUME TypeOK, TablesExact, IsFiniteSet(Ready), FdsOwned, CounterFresh,
           NEW a \in Addr, NEW v \in ConvId, DataEpollFails(a, v)
    PROVE  FdsOwned' /\ CounterFresh'
<1>1. PICK p \in Conn : p = mp[a]
  BY UsedIsConn DEF DataEpollFails, MayOpenConv, ReadyPacket
<1>2. Ready' = Ready /\ \A q \in Conn : conn'[q].timer_fd64 = conn[q].timer_fd64
  BY HeardKeepsTables, KeptTables DEF DataEpollFails, MayOpenConv, TablesKept, SameFields
<1>3. counter \in Fd64 /\ NewFd \in Fd \ open
  BY NewFdIsFree, LimitAssumption DEF DataEpollFails, MayOpenConv, TypeOK, Fd64, FirstFd64
<1>4. /\ counter' = counter + 1 /\ fd64_to_fd'[counter] = NewFd
      /\ \A f \in Fd64 \ {counter} : info'[f] = info[f] /\ fd64_to_fd'[f] = fd64_to_fd[f]
      /\ open' = open /\ convs' = convs
  BY <1>1, <1>3 DEF DataEpollFails, create, TypeOK, conv_vars
<1>5. fd64_to_fd[counter] \notin open
  <2>1. counter >= counter
    BY <1>3, LimitAssumption DEF Fd64, FirstFd64
  <2>2. fd64_to_fd[counter] = NoFd
    BY <1>3, <2>1 DEF CounterFresh
  <2> QED
    BY <2>2, NullAssumption DEF TypeOK
<1>6. Watched' = Watched /\ counter \notin Watched /\ Watched \subseteq Fd64
  BY <1>3, <1>4, <1>5 DEF Watched
<1>7. CounterFresh'
  BY <1>3, <1>4 DEF CounterFresh, TypeOK, Fd64
<1>8. /\ \A f \in Watched : info'[f] = info[f] /\ fd64_to_fd'[f] = fd64_to_fd[f]
      /\ \A q \in Conn : ConvsOf(q)' = ConvsOf(q)
  BY <1>4, <1>6 DEF ConvsOf
<1>9. Ready \subseteq Conn
  BY DEF Ready
<1> QED
  BY <1>2, <1>4, <1>6, <1>7, <1>8, <1>9 DEF FdsOwned

(* clear_inactive closes the socket of the conversation it erases, and     *)
(* no other conversation or timer has it.                                  *)
LEMMA TimerFds ==
    ASSUME TypeOK, FdsOwned, CounterFresh, NEW p \in Conn, ConnTimer(p)
    PROVE  FdsOwned' /\ CounterFresh'
<1>1. conn' = conn /\ Ready' = Ready
  BY DEF ConnTimer, conn_vars, Ready
<1>2. CASE Expired(p) = {}
  BY <1>1, <1>2, KeptFds DEF ConnTimer, fd_vars
<1>3. CASE Expired(p) # {}
  <2>1. PICK v \in Expired(p) :
           fd64_close({convs[p][v]}) /\ convs' = [convs EXCEPT ![p][v] = 0]
    BY <1>3 DEF ConnTimer
  <2>2. v \in ConvsOf(p) /\ v \in ConvId /\ convs[p][v] \in Watched /\ p \in Ready
    BY <2>1 DEF Expired, ConvsOf, FdsOwned
  <2>3. /\ Watched' = Watched \ {convs[p][v]} /\ CounterFresh'
        /\ \A f \in Watched' : info'[f] = info[f] /\ fd64_to_fd'[f] = fd64_to_fd[f]
        /\ \A d \in open' : \E f \in Watched' : fd64_to_fd'[f] = d
    BY <2>1, <2>2, CloseUnwatches
  <2>4. /\ \A w \in ConvId \ {v} : convs'[p][w] = convs[p][w]
        /\ \A q \in Conn \ {p} : convs'[q] = convs[q]
        /\ ConvsOf(p)' = ConvsOf(p) \ {v}
        /\ \A q \in Conn \ {p} : ConvsOf(q)' = ConvsOf(q)
    BY <2>1, <2>2 DEF TypeOK, ConvsOf
  <2>5. Watched \subseteq Fd64 /\ Ready \subseteq Conn
        /\ \A q \in Conn : ConvsOf(q) \subseteq ConvId
    BY DEF Watched, Ready, ConvsOf
  <2>6. \A f \in Watched' :
           /\ info'[f] \in Ready
           /\ \/ f = conn[info'[f]].timer_fd64
              \/ \E w \in ConvId : convs'[info'[f]][w] = f
    BY <2>3, <2>4, <2>5 DEF FdsOwned
  <2>7. \A q \in Ready : conn[q].timer_fd64 \in Watched' /\ info'[conn[q].timer_fd64] = q
    BY <2>2, <2>3, <2>5 DEF FdsOwned
  <2>8. \A q \in Conn : \A u \in ConvsOf(q)' :
           /\ q \in Ready
           /\ convs'[q][u] \in Watched' /\ info'[convs'[q][u]] = q
           /\ convs'[q][u] # conn[q].timer_fd64
           /\ \A w \in ConvsOf(q)' : convs'[q][u] = convs'[q][w] => u = w
    BY <2>2, <2>3, <2>4, <2>5 DEF FdsOwned
  <2> QED
    BY <1>1, <2>3, <2>6, <2>7, <2>8 DEF FdsOwned
<1> QED
  BY <1>2, <1>3

(* erase closes all that belongs to the connection and nothing else.       *)
LEMMA EraseFds ==
    ASSUME TypeOK, TablesExact, IsFiniteSet(Ready), FdsOwned, CounterFresh,
           NEW a \in Used, Erase(a)
    PROVE  FdsOwned' /\ CounterFresh'
<1>1. PICK p \in Conn : p = mp[a]
  BY UsedIsConn
<1>2. Ready' = Ready \ {p}
  BY <1>1, EraseTables
<1>3. conn'[p].timer_fd64 = 0 /\ \A q \in Conn \ {p} : conn'[q] = conn[q]
  BY <1>1, EraseEffect DEF OthersKept
<1>4. CASE p \notin Ready
  <2>1. UNCHANGED <<convs, fd64_to_fd, info, counter, open>>
    BY <1>1, <1>4 DEF Erase, Ready, fd_vars
  <2>2. Ready' = Ready /\ conn[p].timer_fd64 = 0
    BY <1>2, <1>4 DEF FdsOwned
  <2> QED
    BY <1>3, <2>1, <2>2, KeptFds
<1>5. CASE p \in Ready
  <2> DEFINE fs == {conn[p].timer_fd64} \cup {convs[p][v] : v \in ConvsOf(p)}
  <2>1. fd64_close(fs) /\ convs' = [convs EXCEPT ![p] = [v \in ConvId |-> 0]]
    BY <1>1, <1>5 DEF Erase, Ready
  <2>2. fs \in SUBSET Watched
    BY <1>5 DEF FdsOwned
  <2>3. /\ Watched' = Watched \ fs /\ CounterFresh'
        /\ \A f \in Watched' : info'[f] = info[f] /\ fd64_to_fd'[f] = fd64_to_fd[f]
        /\ \A d \in open' : \E f \in Watched' : fd64_to_fd'[f] = d
    BY <2>1, <2>2, CloseUnwatches
  <2>4. /\ ConvsOf(p)' = {} /\ \A q \in Conn \ {p} : convs'[q] = convs[q]
        /\ \A q \in Conn \ {p} : ConvsOf(q)' = ConvsOf(q)
    BY <2>1 DEF TypeOK, ConvsOf
  <2>5. Watched \subseteq Fd64 /\ Ready \subseteq Conn
        /\ \A q \in Conn : ConvsOf(q) \subseteq ConvId
    BY DEF Watched, Ready, ConvsOf
  <2>6. \A f \in fs : info[f] = p
    BY <1>5 DEF FdsOwned
  <2>7. \A f \in Watched' :
           /\ info'[f] \in Ready'
           /\ \/ f = conn'[info'[f]].timer_fd64
              \/ \E w \in ConvId : convs'[info'[f]][w] = f
    <3> SUFFICES ASSUME NEW f \in Watched \ fs
                 PROVE  /\ info[f] \in Ready'
                        /\ \/ f = conn'[info[f]].timer_fd64
                           \/ \E w \in ConvId : convs'[info[f]][w] = f
      BY <2>3
    <3>1. /\ info[f] \in Ready
          /\ \/ f = conn[info[f]].timer_fd64
             \/ \E w \in ConvId : convs[info[f]][w] = f
      BY DEF FdsOwned
    <3>2. f # 0
      BY <2>5, ZeroIsNoFd64
    <3>3. info[f] # p
      <4>1. f # conn[p].timer_fd64
        OBVIOUS
      <4>2. \A w \in ConvId : convs[p][w] # f
        BY <3>2 DEF ConvsOf
      <4> QED
        BY <3>1, <4>1, <4>2
    <3> QED
      BY <1>2, <1>3, <2>4, <2>5, <3>1, <3>3
  <2> HIDE DEF fs
  <2>8. \A q \in Ready' : conn'[q].timer_fd64 \in Watched' /\ info'[conn'[q].timer_fd64] = q
    BY <1>2, <1>3, <2>3, <2>5, <2>6 DEF FdsOwned
  <2>9. \A q \in Conn : \A u \in ConvsOf(q)' :
           /\ q \in Ready'
           /\ convs'[q][u] \in Watched' /\ info'[convs'[q][u]] = q
           /\ convs'[q][u] # conn'[q].timer_fd64
           /\ \A w \in ConvsOf(q)' : convs'[q][u] = convs'[q][w] => u = w
    BY <1>2, <1>3, <2>3, <2>4, <2>5, <2>6 DEF FdsOwned
  <2>10. \A q \in Conn \ Ready' : conn'[q].timer_fd64 = 0
    BY <1>2, <1>3 DEF FdsOwned
  <2> QED
    BY <2>3, <2>7, <2>8, <2>9, <2>10 DEF FdsOwned
<1> QED
  BY <1>4, <1>5

-----------------------------------------------------------------------------
(* Every step keeps the invariant.                                         *)
LEMMA StepIInv == IInv /\ [Next]_vars => IInv'
<1> SUFFICES ASSUME IInv, [Next]_vars PROVE IInv'
  OBVIOUS
<1> USE DEF IInv
<1>0. TypeOK'
  BY StepTypeOK
<1> DEFINE Rest == TablesExact /\ IsFiniteSet(Ready) /\ FdsOwned /\ CounterFresh
<1>1. ASSUME UNCHANGED <<conn_vars, convs, fd_vars>> PROVE Rest'
  <2>1. TablesKept /\ UNCHANGED <<convs, fd64_to_fd, info, counter, open>>
        /\ \A q \in Conn : conn'[q].timer_fd64 = conn[q].timer_fd64
    BY <1>1 DEF TablesKept, SameFields, conn_vars, fd_vars
  <2> QED
    BY <2>1, KeptTables, KeptFds
<1>2. ASSUME NEW a \in Addr, ReadyPacket(a), Heard(a) \/ RecvHeartbeat(a),
             UNCHANGED <<mp, const_id_mp, ready_num, convs, fd_vars>>
      PROVE  Rest'
  <2>1. TablesKept
    BY <1>2, HeardKeepsTables
  <2>2. UNCHANGED <<convs, fd64_to_fd, info, counter, open>>
        /\ \A q \in Conn : conn'[q].timer_fd64 = conn[q].timer_fd64
    BY <1>2, <2>1 DEF TablesKept, SameFields, fd_vars
  <2> QED
    BY <2>1, <2>2, KeptTables, KeptFds
<1>3. ASSUME NEW a \in Addr, SecondHandshake(a), TurnIdle(mp[a]),
             UNCHANGED <<mp, const_id_mp, ready_num, convs, fd_vars>>
      PROVE  Rest'
  <2>1. a \in Used /\ conn[mp[a]].state = "handshake1" /\ mp[a] \in Conn
    BY <1>3, UsedIsConn DEF SecondHandshake
  <2>2. TablesExact' /\ IsFiniteSet(Ready)' /\ Ready' = Ready
    BY <1>3, <2>1, IdleTables
  <2>3. \A q \in Conn : conn'[q].timer_fd64 = conn[q].timer_fd64
    BY <1>3, <2>1, IdleEffect DEF OthersKept
  <2> QED
    BY <1>3, <2>2, <2>3, KeptFds DEF fd_vars
<1>4. ASSUME NEW a \in Addr, NewConn(a) PROVE Rest'
  <2>1. PICK p \in Conn :
            /\ conn[p].state = "free"
            /\ conn' = [conn EXCEPT ![p] =
                  [FreeConn EXCEPT !.state = "handshake1", !.src = a,
                                   !.last_state_time = now]]
    BY <1>4 DEF NewConn
  <2>2. /\ \A q \in Conn \ {p} : conn'[q] = conn[q]
        /\ conn'[p].state = "handshake1" /\ conn'[p].timer_fd64 = 0
    BY <2>1, NewEffect DEF OthersKept
  <2>3. Ready' = Ready /\ conn[p].timer_fd64 = 0
    BY <2>1, <2>2 DEF Ready, FdsOwned
  <2>4. FdsOwned' /\ CounterFresh'
    BY <1>4, <2>2, <2>3, KeptFds DEF NewConn, conv_vars, fd_vars
  <2> QED
    BY <1>4, <2>4, NewTables
<1>5. ASSUME NEW a \in Addr, NEW k \in ConstId, TurnReady(a, k) PROVE Rest'
  BY <1>5, ReadyTables, ReadyFds
<1>6. ASSUME NEW a \in Addr, NEW k \in ConstId, Recover(a, k) PROVE Rest'
  <2>1. TablesExact' /\ IsFiniteSet(Ready)' /\ Ready' = Ready
    BY <1>6, RecoverTables
  <2>2. \A q \in Conn : conn'[q].timer_fd64 = conn[q].timer_fd64
    BY <1>6, RecoverSwaps, RecoverEffect DEF OthersKept
  <2> QED
    BY <1>6, <2>1, <2>2, KeptFds DEF Recover, conv_vars, fd_vars
<1>7. ASSUME NEW a \in Addr, NEW v \in ConvId, DataNewConv(a, v) PROVE Rest'
  BY <1>7, HeardKeepsTables, KeptTables, ConvFds DEF DataNewConv, MayOpenConv
<1>8. ASSUME NEW a \in Addr, NEW v \in ConvId, DataEpollFails(a, v) PROVE Rest'
  BY <1>8, HeardKeepsTables, KeptTables, EpollFailsFds DEF DataEpollFails, MayOpenConv
<1>9. ASSUME NEW a \in Addr, ClearInactive(a) PROVE Rest'
  BY <1>9, <1>1, EraseTables, EraseFds DEF ClearInactive, conv_vars
<1>10. ASSUME NEW p \in Conn, ConnTimer(p) PROVE Rest'
  <2>1. TablesKept
    BY <1>10 DEF ConnTimer, TablesKept, SameFields, conn_vars
  <2> QED
    BY <1>10, <2>1, KeptTables, TimerFds
<1>11. ASSUME NEW a \in Addr, Handshakes(a) PROVE Rest'
  BY <1>11, <1>1, <1>3, <1>4, <1>5, <1>6
  DEF Handshakes, TooManyReady, IgnoreOlder, TimerFatal, conv_vars
<1>12. ASSUME NEW a \in Addr, Packets(a) PROVE Rest'
  <2>1. ASSUME RecvHeartbeat(a) PROVE Rest'
    BY <2>1, <1>2 DEF RecvHeartbeat, conv_vars
  <2>2. ASSUME NEW v \in ConvId, DataOldConv(a, v) \/ DataDropped(a, v) PROVE Rest'
    BY <2>2, <1>2 DEF DataOldConv, DataDropped, conv_vars
  <2> QED
    BY <1>12, <2>1, <2>2, <1>7, <1>8 DEF Packets
<1>13. Rest'
  BY <1>1, <1>9, <1>10, <1>11, <1>12
  DEF Next, vars, epoll_wait, Tick, RawIgnored, ClearNothing, CreateAssertFails, UdpRecv,
      StaleEvent, conv_vars
<1> QED
  BY <1>0, <1>13

(* The invariant holds in every reachable state.                           *)
THEOREM SpecIInv == Spec => []IInv
  BY InitIInv, StepIInv, PTL DEF Spec

(* Every variable stays in its range.                                      *)
THEOREM TypeCorrect == Spec => []TypeOK
  BY SpecIInv, PTL DEF IInv

(* mp, const_id_mp, ready_num and the connection objects agree: no entry   *)
(* dangles, no connection is lost, and the exits and asserts of recover,   *)
(* erase and ~conn_info_t that guard against it are never reached.         *)
THEOREM TablesAgree == Spec => []TablesExact
  BY SpecIInv, PTL DEF IInv

(* Every open descriptor is the timer or a socket of exactly one ready     *)
(* connection, and everything a connection names is open.                  *)
THEOREM DescriptorsOwned == Spec => []FdsOwned
  BY SpecIInv, PTL DEF IInv

-----------------------------------------------------------------------------
(* Recovery.                                                               *)

(* The connection a const id is served by, across a step: it stays the     *)
(* same object, its age never goes back, and its address changes only in a *)
(* step that touches no conversation and no descriptor.                    *)
ServedOn(k) ==
    StillServed(k) =>
       /\ const_id_mp'[k] = const_id_mp[k]
       /\ conn'[const_id_mp[k]].last_state_time >= conn[const_id_mp[k]].last_state_time
       /\ conn'[const_id_mp[k]].src # conn[const_id_mp[k]].src =>
             UNCHANGED <<convs, fd64_to_fd, info>>

(* A const id in the index names a ready connection.                       *)
LEMMA IndexNamesReady ==
    ASSUME IInv, NEW k \in ConstId, const_id_mp[k] # NoConn
    PROVE  /\ const_id_mp[k] \in Conn /\ conn[const_id_mp[k]].state = "ready"
           /\ conn[const_id_mp[k]].const_id = k
           /\ conn[const_id_mp[k]].last_state_time \in Nat
<1>1. const_id_mp[k] \in Conn
  BY DEF IInv, TypeOK
<1>2. conn[const_id_mp[k]] \in ConnInfo
  BY <1>1 DEF IInv, TypeOK
<1>3. conn[const_id_mp[k]].last_state_time \in Nat
  BY <1>2, LimitAssumption DEF ConnInfo, Time
<1> QED
  BY <1>1, <1>3 DEF IInv, TablesExact, ConstIdExact

(* Every step serves a const id on.                                        *)
LEMMA StepServes == ASSUME IInv, [Next]_vars, NEW k \in ConstId PROVE ServedOn(k)
<1> SUFFICES ASSUME const_id_mp[k] # NoConn, const_id_mp'[k] # NoConn PROVE ServedOn(k)
  BY DEF ServedOn, StillServed
<1>0. PICK ori \in Conn :
         /\ ori = const_id_mp[k] /\ conn[ori].state = "ready" /\ conn[ori].const_id = k
         /\ conn[ori].last_state_time >= conn[ori].last_state_time
  BY IndexNamesReady
<1>1. ASSUME const_id_mp' = const_id_mp, conn'[ori].src = conn[ori].src,
             conn'[ori].last_state_time = conn[ori].last_state_time
      PROVE  ServedOn(k)
  BY <1>0, <1>1 DEF ServedOn
<1>2. ASSUME TablesKept PROVE ServedOn(k)
  BY <1>0, <1>1, <1>2 DEF TablesKept, SameFields
<1>3. ASSUME conn' = conn, const_id_mp' = const_id_mp PROVE ServedOn(k)
  BY <1>1, <1>3
<1>4. ASSUME NEW a \in Addr, ReadyPacket(a), Heard(a) \/ RecvHeartbeat(a),
             UNCHANGED <<mp, const_id_mp, ready_num>>
      PROVE  ServedOn(k)
  BY <1>2, <1>4, HeardKeepsTables DEF IInv
<1>5. ASSUME NEW a \in Addr, SecondHandshake(a), TurnIdle(mp[a]), const_id_mp' = const_id_mp
      PROVE  ServedOn(k)
  <2>1. mp[a] \in Conn \ {ori}
    BY <1>0, <1>5, UsedIsConn DEF SecondHandshake, IInv
  <2>2. conn'[ori] = conn[ori]
    BY <1>5, <2>1, IdleEffect DEF IInv, OthersKept
  <2> QED
    BY <1>1, <1>5, <2>2
<1>6. ASSUME NEW a \in Addr, NewConn(a) PROVE ServedOn(k)
  <2>1. PICK p \in Conn :
            /\ conn[p].state = "free"
            /\ conn' = [conn EXCEPT ![p] =
                  [FreeConn EXCEPT !.state = "handshake1", !.src = a,
                                   !.last_state_time = now]]
    BY <1>6 DEF NewConn
  <2>2. conn'[ori] = conn[ori]
    BY <1>0, <2>1, NewEffect DEF OthersKept, IInv
  <2> QED
    BY <1>1, <1>6, <2>2 DEF NewConn
<1>7. ASSUME NEW a \in Addr, NEW j \in ConstId, TurnReady(a, j) PROVE ServedOn(k)
  <2>1. mp[a] \in Conn \ {ori} /\ j # k
    BY <1>0, <1>7, UsedIsConn DEF TurnReady, MayTurnReady, SecondHandshake, IInv
  <2>2. conn'[ori] = conn[ori]
    BY <1>7, <2>1, ReadyEffect DEF IInv, OthersKept
  <2>3. const_id_mp'[k] = const_id_mp[k]
    BY <1>7, <2>1 DEF TurnReady, IInv, TypeOK
  <2> QED
    BY <1>0, <2>2, <2>3 DEF ServedOn
<1>8. ASSUME NEW a \in Addr, NEW j \in ConstId, Recover(a, j) PROVE ServedOn(k)
  <2>1. PICK p \in Conn, old \in Conn :
            /\ p # old /\ mp[a] = p /\ const_id_mp[j] = old /\ conn[p].state = "handshake1"
            /\ conn[p].last_state_time >= conn[old].last_state_time
    BY <1>8, RecoverSwaps DEF IInv
  <2>2. /\ conn'[old].last_state_time = conn[p].last_state_time
        /\ \A q \in Conn \ {p, old} : conn'[q] = conn[q]
    BY <1>8, <2>1, RecoverEffect DEF IInv, OthersKept
  <2>3. const_id_mp' = const_id_mp /\ UNCHANGED <<convs, fd64_to_fd, info>>
    BY <1>8 DEF Recover, conv_vars, fd_vars
  <2> QED
    BY <1>0, <2>1, <2>2, <2>3 DEF ServedOn
<1>9. ASSUME NEW a \in Addr, ClearInactive(a) PROVE ServedOn(k)
  <2>1. CASE Keep(mp[a])
    BY <1>3, <1>9, <2>1 DEF ClearInactive, conn_vars
  <2>2. CASE ~Keep(mp[a])
    <3>1. PICK p \in Conn : a \in Used /\ Erase(a) /\ p = mp[a]
      BY <1>9, <2>2, UsedIsConn DEF ClearInactive, IInv
    <3>2. p # ori
      BY <1>0, <3>1 DEF Erase, IInv, TypeOK
    <3>3. conn'[ori] = conn[ori]
      BY <3>1, <3>2, EraseEffect DEF OthersKept, IInv
    <3>4. const_id_mp'[k] = const_id_mp[k]
      BY <3>1 DEF Erase, IInv, TypeOK
    <3> QED
      BY <1>0, <3>3, <3>4 DEF ServedOn
  <2> QED
    BY <2>1, <2>2
<1>10. ASSUME NEW a \in Addr, Handshakes(a) PROVE ServedOn(k)
  BY <1>10, <1>3, <1>5, <1>6, <1>7, <1>8
  DEF Handshakes, TooManyReady, IgnoreOlder, TimerFatal, conn_vars
<1>11. ASSUME NEW a \in Addr, Packets(a) PROVE ServedOn(k)
  <2>1. ASSUME RecvHeartbeat(a) PROVE ServedOn(k)
    BY <2>1, <1>4 DEF RecvHeartbeat
  <2>2. ASSUME NEW v \in ConvId, DataOldConv(a, v) \/ DataDropped(a, v) PROVE ServedOn(k)
    BY <2>2, <1>4 DEF DataOldConv, DataDropped
  <2>3. ASSUME NEW v \in ConvId, DataNewConv(a, v) \/ DataEpollFails(a, v) PROVE ServedOn(k)
    BY <2>3, <1>4 DEF DataNewConv, DataEpollFails, MayOpenConv
  <2> QED
    BY <1>11, <2>1, <2>2, <2>3 DEF Packets
<1> QED
  BY <1>3, <1>9, <1>10, <1>11
  DEF Next, vars, conn_vars, epoll_wait, Tick, RawIgnored, ClearNothing, CreateAssertFails,
      ConnTimer, UdpRecv, StaleEvent

(* The client's newest handshake wins, in every run of the server.         *)
THEOREM RecoveryByAge == Spec => NewestWins
<1>1. IInv /\ [Next]_vars => [NewestKept]_vars
  BY StepServes DEF NewestKept, ServedOn
<1> QED
  BY <1>1, SpecIInv, PTL DEF Spec, NewestWins

(* No recovery drops, moves or reopens a conversation of the client.       *)
THEOREM RecoveryKeepsConvs == Spec => ConvsSurviveRecovery
<1>1. IInv /\ [Next]_vars => [ConvsKept]_vars
  <2> SUFFICES ASSUME IInv, [Next]_vars, NEW k \in ConstId, StillServed(k),
                      conn'[const_id_mp'[k]].src # conn[const_id_mp[k]].src,
                      NEW v \in ConvsOf(const_id_mp[k])
               PROVE  /\ convs'[const_id_mp'[k]][v] = convs[const_id_mp[k]][v]
                      /\ fd64_to_fd'[convs[const_id_mp[k]][v]] = fd64_to_fd[convs[const_id_mp[k]][v]]
                      /\ info'[convs[const_id_mp[k]][v]] = const_id_mp'[k]
    BY DEF ConvsKept
  <2>1. const_id_mp'[k] = const_id_mp[k] /\ UNCHANGED <<convs, fd64_to_fd, info>>
    BY StepServes DEF ServedOn
  <2>2. info[convs[const_id_mp[k]][v]] = const_id_mp[k]
    BY IndexNamesReady DEF StillServed, IInv, FdsOwned
  <2> QED
    BY <2>1, <2>2
<1> QED
  BY <1>1, SpecIInv, PTL DEF Spec, ConvsSurviveRecovery
=============================================================================
