--------------------------- MODULE Conversations ----------------------------
(***************************************************************************)
(* The conversations of one tunnel, from end to end.  The client gives     *)
(* every address an application sends from a conversation number, the      *)
(* server gives every number a socket to the target, and the answers find  *)
(* their way back through the two tables (conv_manager_t), each with its   *)
(* list of least recently used numbers (lru_collector_t).                  *)
(*                                                                         *)
(* Numbers are random and nonzero in the code; here they are fresh (no 32  *)
(* bit number is drawn twice while a table knows it).  The session below   *)
(* loses and reorders data, and the replay window keeps it from repeating. *)
(***************************************************************************)
EXTENDS Integers, FiniteSets, FiniteSetsExt, SequencesExt

CONSTANTS
    App,                  \* addresses of applications
    MaxConv,              \* bound: conversation numbers are 1 .. MaxConv
    MaxFd64,              \* bound: descriptors opened by the server
    max_conv_num,
    conv_timeout, conv_clear_interval, conv_clear_ratio, conv_clear_min,
    MaxTime,              \* bound: time runs from 0 to MaxTime
    QuietTime,            \* applications and target send until then
    MaxTransit            \* bound: packets on their way in each direction

ASSUME ConvAssumption ==
    /\ MaxConv \in Nat /\ MaxFd64 \in Nat /\ MaxTime \in Nat
    /\ conv_timeout \in Nat /\ conv_clear_interval \in Nat
    /\ conv_clear_ratio \in Nat \ {0} /\ conv_clear_min \in Nat \ {0}

Conv == 1 .. MaxConv
Fd64 == 1 .. MaxFd64

VARIABLES
    now,
    due,          \* sides whose timer has not run since the time changed
    c, s,         \* the two conversation managers
    up, down,     \* data on its way
    conv_count, fd64_count,
    owner,        \* history: descriptor -> the address whose data opened it
    used,         \* history: side -> number -> time of the last data that counts
    misdelivered, \* history: data or an answer went to another address
    assert_failed

histories == <<owner, used, misdelivered>>
vars == <<now, due, c, s, up, down, conv_count, fd64_count,
          histories, assert_failed>>

-----------------------------------------------------------------------------
(* conv_manager_t: the two maps, the list (most recent first) and the time *)
(* of the last clearing.                                                   *)

\* The member last_clear_time is not set by the constructor, which sets a
\* local variable of that name: it holds anything.
EmptyManager(garbage) ==
    [data_to_conv |-> << >>, conv_to_data |-> << >>, q |-> << >>, last_clear_time |-> garbage]

is_conv_used(m, conv) == conv \in DOMAIN m.conv_to_data
is_data_used(m, data) == data \in DOMAIN m.data_to_conv
get_size(m) == Cardinality(DOMAIN m.conv_to_data)

With(f, k, v) == [x \in DOMAIN f \cup {k} |-> IF x = k THEN v ELSE f[x]]
Without(f, S) == [x \in DOMAIN f \ S |-> f[x]]

\* mp[key]: where the list holds the key.
Keys(q) == {q[i].key : i \in DOMAIN q}
At(q, key) == CHOOSE i \in DOMAIN q : q[i].key = key

\* The asserts of new_key and update.
PushAllowed(q, key, t) == key \notin Keys(q) /\ (q # << >> => t >= q[1].ts)

push_front(q, key, t) == <<[key |-> key, ts |-> t]>> \o q

lru_update(q, key, t) == push_front(RemoveAt(q, At(q, key)), key, t)

update_active_time(m, conv, t) == [m EXCEPT !.q = lru_update(@, conv, t)]

UpdateAllowed(m, conv, t) ==
    conv \in Keys(m.q) /\ PushAllowed(RemoveAt(m.q, At(m.q, conv)), conv, t)

insert_conv(m, conv, data, t) ==
    [m EXCEPT !.data_to_conv = With(@, data, conv),
              !.conv_to_data = With(@, conv, data),
              !.q = push_front(@, conv, t)]

\* The numbers of the n entries at the back of the list.
Back(q, n) == {q[i].key : i \in Len(q) - n + 1 .. Len(q)}

\* Mutant: the addresses stay in the table.
erase_conv_KeepData(m, n) ==
    [m EXCEPT !.conv_to_data = Without(@, Back(m.q, n)), !.q = SubSeq(@, 1, Len(@) - n)]

\* erase_conv for each of the n conversations at the back of the list, from
\* where alone it is called.
erase_conv(m, n) ==
    [m EXCEPT !.data_to_conv = Without(@, {m.conv_to_data[k] : k \in Back(m.q, n)}),
              !.conv_to_data = Without(@, Back(m.q, n)),
              !.q = SubSeq(@, 1, Len(@) - n)]

\* How many conversations clear_inactive0 erases from the back of the list:
\* it stops at the first that is not timed out.
ToClear(q, t) ==
    LET size == Len(q)
        num_to_clean == Min({size \div conv_clear_ratio + conv_clear_min, size})
    IN  Max({k \in 0 .. num_to_clean :
                \A i \in size - k + 1 .. size : t - q[i].ts >= conv_timeout})

\* Mutant: the list is cleared from the front.
clear_inactive0_Front(m, t) ==
    IF m.q = << >> \/ t - m.q[1].ts < conv_timeout THEN m
    ELSE [m EXCEPT !.data_to_conv = Without(@, {m.conv_to_data[m.q[1].key]}),
                   !.conv_to_data = Without(@, {m.q[1].key}),
                   !.q = Tail(@)]

clear_inactive0(m, t) == erase_conv(m, ToClear(m.q, t))

\* The subtraction is unsigned: a last_clear_time in the future is long ago.
ClearDue(m, t) == m.last_clear_time > t \/ t - m.last_clear_time > conv_clear_interval

\* Mutant: the time of the clearing is noted whether or not one took place.
clear_inactive_AlwaysNote(m, t) ==
    [(IF ClearDue(m, t) THEN clear_inactive0(m, t) ELSE m) EXCEPT !.last_clear_time = t]

clear_inactive(m, t) ==
    IF ClearDue(m, t) THEN clear_inactive0([m EXCEPT !.last_clear_time = t], t) ELSE m

\* Mutant: the lowest number the client's table does not use.
get_new_conv_Lowest(m) == Min((1 .. MaxConv + 1) \ DOMAIN m.conv_to_data)

get_new_conv(m) == conv_count + 1

-----------------------------------------------------------------------------
Init ==
    /\ now = 0 /\ due = {}
    /\ \E garbage \in {0, MaxTime} : c = EmptyManager(garbage) /\ s = EmptyManager(garbage)
    /\ up = {} /\ down = {}
    /\ conv_count = 0 /\ fd64_count = 0
    /\ owner = << >>
    /\ used = [client |-> << >>, server |-> << >>]
    /\ misdelivered = FALSE
    /\ assert_failed = FALSE

\* send_data_safer, called by the client only while it is client_ready; in a
\* session that is broken (Tunnel) nothing is sent, and the tables stay.
Upload(conv, a) == up' \in {up, up \cup {[conv |-> conv, app |-> a]}}

Used(side, conv) == used' = [used EXCEPT ![side] = With(@, conv, now)]

\* The histories keep what concerns the entries of the tables only.
Only(f, S) == [x \in DOMAIN f \cap S |-> f[x]]
ForgetClient(m) == used' = [used EXCEPT !.client = Only(@, DOMAIN m.conv_to_data)]
ForgetServer(m) ==
    /\ used' = [used EXCEPT !.server = Only(@, DOMAIN m.conv_to_data)]
    /\ owner' = Only(owner, DOMAIN m.data_to_conv)

\* client_on_udp_recv: an application's datagram, from an address without and
\* with a conversation.
ClientUdpNew(a) ==
    LET conv == get_new_conv(c)
        inserted == insert_conv(c, conv, a, now)
    IN  /\ now < QuietTime /\ Cardinality(up) < MaxTransit
        /\ ~is_data_used(c, a) /\ get_size(c) < max_conv_num
        /\ conv_count < MaxConv /\ conv_count' = conv_count + 1
        /\ c' = update_active_time(inserted, conv, now)
        /\ assert_failed' = ~(PushAllowed(c.q, conv, now) /\ UpdateAllowed(inserted, conv, now))
        /\ Upload(conv, a) /\ Used("client", conv)
        /\ UNCHANGED <<now, due, s, down, fd64_count, owner, misdelivered>>

ClientUdpAgain(a) ==
    LET conv == c.data_to_conv[a]
    IN  /\ now < QuietTime /\ Cardinality(up) < MaxTransit
        /\ is_data_used(c, a)
        /\ c' = update_active_time(c, conv, now)
        /\ assert_failed' = ~UpdateAllowed(c, conv, now)
        /\ Upload(conv, a) /\ Used("client", conv)
        /\ UNCHANGED <<now, due, s, down, conv_count, fd64_count, owner, misdelivered>>

\* Mutant: data of a known conversation does not refresh it.
ServerRawKnown_NoRefresh(m) ==
    /\ m \in up /\ is_conv_used(s, m.conv)
    /\ up' = up \ {m}
    /\ misdelivered' = (misdelivered \/ owner[s.conv_to_data[m.conv]] # m.app)
    /\ Used("server", m.conv)
    /\ UNCHANGED <<now, due, c, s, down, conv_count, fd64_count, owner, assert_failed>>

\* server_on_raw_recv_ready: data of a conversation that has a socket.
ServerRawKnown(m) ==
    /\ m \in up /\ is_conv_used(s, m.conv)
    /\ up' = up \ {m}
    /\ s' = update_active_time(s, m.conv, now)
    /\ assert_failed' = ~UpdateAllowed(s, m.conv, now)
    /\ misdelivered' = (misdelivered \/ owner[s.conv_to_data[m.conv]] # m.app)
    /\ Used("server", m.conv)
    /\ UNCHANGED <<now, due, c, down, conv_count, fd64_count, owner>>

\* ... and of a new one, unless there are too many.
ServerRawNew(m) ==
    LET fd64 == fd64_count + 1
        inserted == insert_conv(s, m.conv, fd64, now)
    IN  /\ m \in up /\ ~is_conv_used(s, m.conv) /\ get_size(s) < max_conv_num
        /\ up' = up \ {m}
        /\ fd64_count < MaxFd64 /\ fd64_count' = fd64
        /\ s' = update_active_time(inserted, m.conv, now)
        /\ assert_failed' = ~(PushAllowed(s.q, m.conv, now) /\ UpdateAllowed(inserted, m.conv, now))
        /\ owner' = With(owner, fd64, m.app)
        /\ Used("server", m.conv)
        /\ UNCHANGED <<now, due, c, down, conv_count, misdelivered>>

\* Data is lost on its way, or finds no room and no socket on the server
\* (max_conv_num, new_connected_udp_fd).
UpLost(m) ==
    /\ m \in up /\ up' = up \ {m}
    /\ UNCHANGED <<now, due, c, s, down, conv_count, fd64_count, histories, assert_failed>>

\* server_on_udp_recv: the target answers on a socket.  The time stamp stays
\* as it is.
ServerUdp(fd64) ==
    /\ now < QuietTime /\ Cardinality(down) < MaxTransit
    /\ is_data_used(s, fd64)
    /\ down' = down \cup {[conv |-> s.data_to_conv[fd64], app |-> owner[fd64]]}
    /\ UNCHANGED <<now, due, c, s, up, conv_count, fd64_count, histories, assert_failed>>

\* client_on_raw_recv_hs2_or_ready: an answer, whose conversation the client
\* still knows; it is refreshed and the answer sent to its address.
ClientRaw(m) ==
    /\ m \in down /\ is_conv_used(c, m.conv)
    /\ down' = down \ {m}
    /\ c' = update_active_time(c, m.conv, now)
    /\ assert_failed' = ~UpdateAllowed(c, m.conv, now)
    /\ misdelivered' = (misdelivered \/ c.conv_to_data[m.conv] # m.app)
    /\ Used("client", m.conv)
    /\ UNCHANGED <<now, due, s, up, conv_count, fd64_count, owner>>

\* An answer is lost, or its conversation is unknown to the client.
DownLost(m) ==
    /\ m \in down /\ down' = down \ {m}
    /\ UNCHANGED <<now, due, c, s, up, conv_count, fd64_count, histories, assert_failed>>

\* client_on_timer and server_on_timer_multi clear first of all.
ClientTimer ==
    /\ "client" \in due /\ due' = due \ {"client"}
    /\ c' = clear_inactive(c, now) /\ ForgetClient(c')
    /\ UNCHANGED <<now, s, up, down, conv_count, fd64_count, owner, misdelivered, assert_failed>>

ServerTimer ==
    /\ "server" \in due /\ due' = due \ {"server"}
    /\ s' = clear_inactive(s, now) /\ ForgetServer(s')
    /\ UNCHANGED <<now, c, up, down, conv_count, fd64_count, misdelivered, assert_failed>>

\* The server gives the connection up (conv_manager_t::clear) and the next
\* session starts with another conv_manager_t.
ServerForgets ==
    /\ s.q # << >>
    /\ \E garbage \in {0, MaxTime} : s' = EmptyManager(garbage)
    /\ ForgetServer(s')
    /\ UNCHANGED <<now, due, c, up, down, conv_count, fd64_count, misdelivered, assert_failed>>

\* Timers run more often than time matters here: each once per unit.  Once
\* nothing new is sent, what is on its way is lost or arrives within a unit.
Tick ==
    /\ due = {} /\ now < MaxTime
    /\ now >= QuietTime => up = {} /\ down = {}
    /\ now' = now + 1 /\ due' = {"client", "server"}
    /\ UNCHANGED <<c, s, up, down, conv_count, fd64_count, histories, assert_failed>>

Next ==
    \/ \E a \in App : ClientUdpNew(a) \/ ClientUdpAgain(a)
    \/ \E m \in up : ServerRawKnown(m) \/ ServerRawNew(m) \/ UpLost(m)
    \/ \E fd64 \in Fd64 : ServerUdp(fd64)
    \/ \E m \in down : ClientRaw(m) \/ DownLost(m)
    \/ ClientTimer \/ ServerTimer \/ ServerForgets \/ Tick

Spec == Init /\ [][Next]_vars

\* The event loops run their timers, time goes on, and what is on its way
\* arrives or gets lost.
FairSpec ==
    /\ Spec
    /\ WF_vars(Tick) /\ WF_vars(ClientTimer) /\ WF_vars(ServerTimer)
    /\ WF_vars(\E m \in up : ServerRawKnown(m) \/ ServerRawNew(m) \/ UpLost(m))
    /\ WF_vars(\E m \in down : ClientRaw(m) \/ DownLost(m))

-----------------------------------------------------------------------------
(* Properties *)

InSync(m) ==
    /\ \A k \in DOMAIN m.conv_to_data :
          /\ m.conv_to_data[k] \in DOMAIN m.data_to_conv
          /\ m.data_to_conv[m.conv_to_data[k]] = k
    /\ \A d \in DOMAIN m.data_to_conv :
          /\ m.data_to_conv[d] \in DOMAIN m.conv_to_data
          /\ m.conv_to_data[m.data_to_conv[d]] = d
    /\ Keys(m.q) = DOMAIN m.conv_to_data
    /\ \A i, j \in DOMAIN m.q : i < j => m.q[i].key # m.q[j].key /\ m.q[i].ts >= m.q[j].ts
    /\ \A i \in DOMAIN m.q : m.q[i].ts <= now

\* The two maps of a manager are inverse to each other, the list holds exactly
\* their numbers, each once and the most recently used first, and no assert
\* of lru_collector_t has failed.
TablesInSync == InSync(c) /\ InSync(s) /\ ~assert_failed

\* Whatever expires, is lost, overtaken or forgotten on either side: data goes
\* out on the socket its application opened and answers go to that
\* application; and the tables stay in sync on the way.
RightRecipient == TablesInSync /\ ~misdelivered

\* clear_inactive takes no conversation that saw data in the last
\* conv_timeout: on the server data from the client (answers of the target do
\* not count), on the client data in both directions.
ActiveKept ==
    [][/\ \A k \in DOMAIN c.conv_to_data \ DOMAIN c'.conv_to_data :
            now - used.client[k] >= conv_timeout
       /\ ServerTimer => \A k \in DOMAIN s.conv_to_data \ DOMAIN s'.conv_to_data :
            now - used.server[k] >= conv_timeout]_vars

Stamped(m) ==
    [k \in DOMAIN m.conv_to_data |-> [data |-> m.conv_to_data[k], ts |-> m.q[At(m.q, k)].ts]]

ClientTable == INSTANCE ConvTable WITH
    Conv <- Conv, Data <- App, Timeout <- conv_timeout, now <- now, table <- Stamped(c)
ServerTable == INSTANCE ConvTable WITH
    Conv <- Conv, Data <- Fd64, Timeout <- conv_timeout, now <- now, table <- Stamped(s)

\* Maps and list together behave like one table with time stamps, on either
\* side, in which the longest idle conversations go first and only after
\* conv_timeout.
ImplementsConvTable == ClientTable!Spec /\ ServerTable!Spec

\* Once the applications fall silent both tables become empty, whatever
\* last_clear_time held at first.
IdleCleared == <>[](c.q = << >> /\ s.q = << >>)
=============================================================================
