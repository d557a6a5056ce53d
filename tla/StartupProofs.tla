---------------------------- MODULE StartupProofs ---------------------------
(***************************************************************************)
(* Proofs about the start, the life and the end of the process, for any    *)
(* set of option settings and any limits: the process itself (Process),    *)
(* its firewall rules (IptablesRule, by the proofs about that module), the *)
(* time it works with (Clock) and, for any routing and ARP tables, the     *)
(* next hop of --lower-level auto (Route).                                 *)
(***************************************************************************)
EXTENDS MCStartup, SequenceTheorems, FiniteSetTheorems, WellFoundedInduction, TLAPS

-----------------------------------------------------------------------------
(* The start-up opens every descriptor at most once, adds the rules first  *)
(* and calls myexit where it does not assert.                              *)

\* The asserts that can fail where rules are, and those of the pcap build.
StartCauses == {"receive_buffer", "IPv6_peer"}
Call == [opens : Descriptors \cup {"none", "rules", "search"},
         fails : {"myexit", "abort", "retry"}, cause : StartCauses \cup {"pcap", "call"}]

\* What must not be there twice.
Once == Descriptors \cup {"rules"}

\* The calls s open no descriptor twice and add the rules once at most, only
\* some of D do they open or add, and only some of D do they assert.
Opens(s, D) ==
    /\ s \in Seq(Call)
    /\ \A i \in 1 .. Len(s) : s[i].opens \in Once => s[i].opens \in D
    /\ \A i, j \in 1 .. Len(s) : s[i].opens \in Once /\ s[i].opens = s[j].opens => i = j
    /\ \A i \in 1 .. Len(s) : s[i].fails = "abort" => s[i].cause \in D

\* Parts of the start-up that open different descriptors, one after the other.
LEMMA Join ==
    ASSUME NEW D, NEW E, D \cap E = {}, NEW s, NEW t, Opens(s, D), Opens(t, E)
    PROVE  Opens(s \o t, D \cup E)
<1>1. s \in Seq(Call) /\ t \in Seq(Call) /\ Len(s) \in Nat /\ Len(t) \in Nat
  BY DEF Opens
<1>2. s \o t \in Seq(Call) /\ Len(s \o t) = Len(s) + Len(t)
  BY <1>1, ConcatProperties
<1>3. \A i \in 1 .. Len(s) + Len(t) :
         (s \o t)[i] = IF i <= Len(s) THEN s[i] ELSE t[i - Len(s)]
  BY <1>1, ConcatProperties
<1>4. ASSUME NEW i \in 1 .. Len(s) + Len(t)
      PROVE  \/ i \in 1 .. Len(s) /\ (s \o t)[i] = s[i]
             \/ /\ i - Len(s) \in 1 .. Len(t) /\ (s \o t)[i] = t[i - Len(s)]
                /\ ~(i <= Len(s))
  BY <1>1, <1>3
<1>5. ASSUME NEW i \in 1 .. Len(s) + Len(t), (s \o t)[i].opens \in Once
      PROVE  (s \o t)[i].opens \in D \cup E
  BY <1>4, <1>5 DEF Opens
<1>6. ASSUME NEW i \in 1 .. Len(s) + Len(t), NEW j \in 1 .. Len(s) + Len(t),
             (s \o t)[i].opens \in Once, (s \o t)[i].opens = (s \o t)[j].opens
      PROVE  i = j
  <2>1. CASE i \in 1 .. Len(s) /\ (s \o t)[i] = s[i]
    <3>1. (s \o t)[i].opens \in D
      BY <1>6, <2>1 DEF Opens
    <3>2. CASE j \in 1 .. Len(s) /\ (s \o t)[j] = s[j]
      BY <1>6, <2>1, <3>2 DEF Opens
    <3>3. CASE j - Len(s) \in 1 .. Len(t) /\ (s \o t)[j] = t[j - Len(s)]
      <4>1. (s \o t)[j].opens \in E
        BY <1>6, <3>3 DEF Opens
      <4> QED
        BY <1>6, <3>1, <4>1
    <3> QED
      BY <1>4, <3>2, <3>3
  <2>2. CASE i - Len(s) \in 1 .. Len(t) /\ (s \o t)[i] = t[i - Len(s)]
    <3>1. (s \o t)[i].opens \in E
      BY <1>6, <2>2 DEF Opens
    <3>2. CASE j \in 1 .. Len(s) /\ (s \o t)[j] = s[j]
      <4>1. (s \o t)[j].opens \in D
        BY <1>6, <3>2 DEF Opens
      <4> QED
        BY <1>6, <3>1, <4>1
    <3>3. CASE j - Len(s) \in 1 .. Len(t) /\ (s \o t)[j] = t[j - Len(s)]
      <4>1. i - Len(s) = j - Len(s)
        BY <1>6, <2>2, <3>3 DEF Opens
      <4> QED
        BY <1>1, <4>1
    <3> QED
      BY <1>4, <3>2, <3>3
  <2> QED
    BY <1>4, <2>1, <2>2
<1>7. ASSUME NEW i \in 1 .. Len(s) + Len(t), (s \o t)[i].fails = "abort"
      PROVE  (s \o t)[i].cause \in D \cup E
  BY <1>4, <1>7 DEF Opens
<1> QED
  BY <1>2, <1>5, <1>6, <1>7 DEF Opens

\* A part that is left out with some options.
LEMMA Optional == ASSUME NEW D, NEW b, NEW s, Opens(s, D) PROVE Opens(When(b, s), D)
<1>1. Opens(<< >>, D)
  BY DEF Opens
<1> QED
  BY <1>1 DEF When

\* A part opens some of a larger set.
LEMMA More == ASSUME NEW D, NEW E, D \subseteq E, NEW s, Opens(s, D) PROVE Opens(s, E)
  BY DEF Opens

\* The calls themselves.
LEMMA Calls ==
    /\ Try \in Call /\ Rule \in Call /\ Try.opens \notin Once /\ Rule.opens = "rules"
    /\ Try.fails # "abort" /\ Rule.fails # "abort"
    /\ \A a \in StartCauses \cup {"pcap"} :
          Assert(a) \in Call /\ Assert(a).opens \notin Once /\ Assert(a).cause = a
    /\ \A o : Search(o) \in Call /\ Search(o).opens \notin Once /\ Search(o).fails # "abort"
    /\ \A d \in Descriptors :
          Acquire(d) \in Call /\ Acquire(d).opens = d /\ Acquire(d).fails # "abort"
  BY DEF Try, Assert, Rule, Search, Acquire, Call, Descriptors, StartCauses, Once

\* Parts that only try, and those of one call.
LEMMA Single ==
    /\ Opens(<< >>, {}) /\ Opens(<<Try>>, {}) /\ Opens(<<Try, Try>>, {})
    /\ Opens(<<Rule>>, {"rules"}) /\ \A o : Opens(<<Search(o)>>, {})
    /\ \A a \in StartCauses : Opens(<<Assert(a)>>, {a})
<1>1. Opens(<< >>, {}) /\ Opens(<<Try>>, {}) /\ Opens(<<Try, Try>>, {})
  BY Calls DEF Opens
<1>2. Opens(<<Rule>>, {"rules"})
  BY Calls DEF Opens
<1>3. ASSUME NEW o PROVE Opens(<<Search(o)>>, {})
  BY Calls DEF Opens
<1>4. ASSUME NEW a \in StartCauses PROVE Opens(<<Assert(a)>>, {a})
  BY Calls DEF Opens
<1> QED
  BY <1>1, <1>2, <1>3, <1>4

\* init_raw_socket opens the two raw sockets.
Raw == {"raw_send", "raw_recv", "receive_buffer"}
LEMMA RawSocketOpens == ASSUME NEW o PROVE Opens(init_raw_socket(o), Raw)
<1> DEFINE first == <<Acquire("raw_send"), Assert("receive_buffer"), Try, Acquire("raw_recv")>>
<1>1. Opens(first, Raw)
  <2>1. /\ Acquire("raw_send") \in Call /\ Acquire("raw_send").opens = "raw_send"
        /\ Acquire("raw_send").fails # "abort"
        /\ Acquire("raw_recv") \in Call /\ Acquire("raw_recv").opens = "raw_recv"
        /\ Acquire("raw_recv").fails # "abort"
    BY Calls DEF Descriptors
  <2>2. /\ Assert("receive_buffer") \in Call /\ Assert("receive_buffer").opens \notin Once
        /\ Assert("receive_buffer").cause = "receive_buffer"
    BY Calls DEF StartCauses
  <2>3. Try \in Call /\ Try.opens \notin Once /\ Try.fails # "abort"
    BY Calls
  <2>4. "raw_send" \in Once /\ "raw_recv" \in Once
    BY DEF Once, Descriptors
  <2> QED
    BY <2>1, <2>2, <2>3, <2>4 DEF Opens, Raw
<1> HIDE DEF first
<1>2. Opens(When(o.dev, <<Try, Try>>), {})
  BY Single, Optional
<1>3. Raw \cap {} = {} /\ Raw \cup {} = Raw
  OBVIOUS
<1>4. Opens(first \o When(o.dev, <<Try, Try>>), Raw)
  BY <1>1, <1>2, <1>3, Join
<1>5. Opens((first \o When(o.dev, <<Try, Try>>)) \o <<Try, Try>>, Raw)
  BY <1>3, <1>4, Single, Join
<1> QED
  BY <1>5 DEF init_raw_socket, first

LEMMA FifoOpens == ASSUME NEW o PROVE Opens(create_fifo(o), {"fifo"})
<1>1. /\ Try \in Call /\ Try.opens \notin Once /\ Try.fails # "abort"
      /\ Acquire("fifo") \in Call /\ Acquire("fifo").opens = "fifo"
      /\ Acquire("fifo").fails # "abort" /\ "fifo" \in Once
  BY Calls DEF Descriptors, Once
<1>2. Opens(<<Acquire("fifo"), Try>>, {"fifo"})
  BY <1>1 DEF Opens
<1> QED
  BY <1>2, Optional DEF create_fifo

\* client_event_loop opens its listening socket, and the fifo.
ClientD(o) == {"udp", "fifo"} \cup (IF o.prog = "mp" THEN {"pcap"} ELSE {"IPv6_peer"})
LEMMA ClientOpens ==
    ASSUME NEW o, o.lower_level \in {"off", "manual", "auto"}, o.prog \in {"client", "mp"}
    PROVE  Opens(client_event_loop(o), ClientD(o))
<1> DEFINE route == IF o.prog = "client" THEN client_lower_level(o)
                    ELSE <<Try>> \o When(~o.dev, <<Try, Try>>)
           udp == <<Acquire("udp"), Try, Try>>
           mp == When(o.prog = "mp", init_raw_socket_mp(o))
           R1 == IF o.prog = "mp" THEN {} ELSE {"IPv6_peer"}
           M1 == IF o.prog = "mp" THEN {"pcap"} ELSE {}
<1>0. {} \cap {} = {} /\ {} \cup {} = {}
  OBVIOUS
<1>1. Opens(route, R1)
  <2>1. CASE o.prog = "mp"
    <3>1. Opens(When(~o.dev, <<Try, Try>>), {})
      BY Single, Optional
    <3>2. Opens(<<Try>> \o When(~o.dev, <<Try, Try>>), {})
      BY <1>0, <3>1, Single, Join
    <3> QED
      BY <2>1, <3>2
  <2>2. CASE o.prog = "client"
    <3> DEFINE check == <<Assert("IPv6_peer")>>
               search == When(~o.loopback, <<Search(o)>>)
    <3>1. Opens(check, {"IPv6_peer"})
      BY Single DEF StartCauses
    <3>2. Opens(search, {})
      <4>1. Opens(<<Search(o)>>, {})
        BY Single
      <4> QED
        BY <4>1, Optional
    <3> HIDE DEF check, search
    <3>3. {"IPv6_peer"} \cap {} = {} /\ {"IPv6_peer"} \cup {} = {"IPv6_peer"}
      OBVIOUS
    <3>4. Opens(check \o search, {"IPv6_peer"})
      BY <3>1, <3>2, <3>3, Join
    <3>5. Opens((check \o search) \o <<Try>>, {"IPv6_peer"})
      BY <3>3, <3>4, Single, Join
    <3>6. Opens(<< >>, {"IPv6_peer"}) /\ Opens(<<Try>>, {"IPv6_peer"})
      <4>1. {} \subseteq {"IPv6_peer"}
        OBVIOUS
      <4> QED
        BY <4>1, Single, More
    <3>7. Opens(client_lower_level(o), {"IPv6_peer"})
      BY <3>5, <3>6 DEF client_lower_level, check, search
    <3> QED
      BY <2>2, <3>7
  <2> QED
    BY <2>1, <2>2
<1>2. Opens(udp, {"udp"})
  <2>1. "udp" \in Descriptors
    BY DEF Descriptors
  <2>2. Acquire("udp") \in Call /\ Acquire("udp").opens = "udp" /\ Acquire("udp").fails # "abort"
    BY <2>1, Calls
  <2>3. Try \in Call /\ Try.opens \notin Once /\ Try.fails # "abort"
    BY Calls
  <2> QED
    BY <2>1, <2>2, <2>3 DEF Opens, Once
<1>3. Opens(mp, M1)
  <2>1. Opens(init_raw_socket_mp(o), {"pcap"})
    <3>1. Assert("pcap") \in Call /\ Assert("pcap").opens \notin Once /\ Assert("pcap").cause = "pcap"
      BY Calls
    <3>2. Try \in Call /\ Try.opens \notin Once /\ Try.fails # "abort"
      BY Calls
    <3> QED
      BY <3>1, <3>2 DEF Opens, init_raw_socket_mp
  <2>2. CASE o.prog = "mp"
    BY <2>1, <2>2, Optional
  <2>3. CASE o.prog # "mp"
    BY <2>3, Single DEF When
  <2> QED
    BY <2>2, <2>3
<1>4. Opens(create_fifo(o), {"fifo"})
  BY FifoOpens
<1> HIDE DEF route, udp, mp, R1, M1
<1>5. Opens(route \o udp, R1 \cup {"udp"})
  <2>1. R1 \cap {"udp"} = {}
    BY DEF R1
  <2> QED
    BY <1>1, <1>2, <2>1, Join
<1>6. Opens((route \o udp) \o mp, (R1 \cup {"udp"}) \cup M1)
  <2>1. (R1 \cup {"udp"}) \cap M1 = {}
    BY DEF R1, M1
  <2> QED
    BY <1>3, <1>5, <2>1, Join
<1>7. Opens(((route \o udp) \o mp) \o create_fifo(o), ((R1 \cup {"udp"}) \cup M1) \cup {"fifo"})
  <2>1. ((R1 \cup {"udp"}) \cup M1) \cap {"fifo"} = {}
    BY DEF R1, M1
  <2> QED
    BY <1>4, <1>6, <2>1, Join
<1>8. ((R1 \cup {"udp"}) \cup M1) \cup {"fifo"} = ClientD(o)
  BY DEF R1, M1, ClientD
<1> QED
  BY <1>7, <1>8 DEF client_event_loop, route, udp, mp

\* server_event_loop opens the socket that holds the port, epoll, the timer and
\* the fifo.
ServerD == {"bind", "epoll", "timer", "fifo"}
LEMMA ServerOpens == ASSUME NEW o PROVE Opens(server_event_loop(o), ServerD)
<1> DEFINE a == When(o.lower_level = "manual", <<Try>>)
           b == <<Acquire("bind"), Try>>
           c == When(o.faketcp, <<Try>>)
           d == <<Try, Acquire("epoll"), Try, Acquire("timer"), Try>>
           e == When(o.fifo, create_fifo(o) \o <<Try>>)
<1>0. /\ Try \in Call /\ Try.opens \notin Once /\ Try.fails # "abort"
      /\ \A x \in {"bind", "epoll", "timer"} :
            /\ Acquire(x) \in Call /\ Acquire(x).opens = x /\ Acquire(x).fails # "abort"
            /\ x \in Once
  BY Calls DEF Descriptors, Once
<1>1. Opens(a, {}) /\ Opens(c, {})
  BY Single, Optional
<1>2. Opens(b, {"bind"})
  BY <1>0 DEF Opens
<1>3. Opens(d, {"epoll", "timer"})
  BY <1>0 DEF Opens
<1>4. Opens(e, {"fifo"})
  <2>1. {"fifo"} \cap {} = {} /\ {"fifo"} \cup {} = {"fifo"}
    OBVIOUS
  <2>2. Opens(create_fifo(o) \o <<Try>>, {"fifo"})
    BY <2>1, Single, FifoOpens, Join
  <2> QED
    BY <2>2, Optional
<1> HIDE DEF a, b, c, d, e
<1>5. Opens(a \o b, {"bind"})
  <2>1. {} \cap {"bind"} = {} /\ {} \cup {"bind"} = {"bind"}
    OBVIOUS
  <2> QED
    BY <1>1, <1>2, <2>1, Join
<1>6. Opens((a \o b) \o c, {"bind"})
  <2>1. {"bind"} \cap {} = {} /\ {"bind"} \cup {} = {"bind"}
    OBVIOUS
  <2> QED
    BY <1>1, <1>5, <2>1, Join
<1>7. Opens(((a \o b) \o c) \o d, {"bind", "epoll", "timer"})
  <2>1. /\ {"bind"} \cap {"epoll", "timer"} = {}
        /\ {"bind"} \cup {"epoll", "timer"} = {"bind", "epoll", "timer"}
    OBVIOUS
  <2> QED
    BY <1>3, <1>6, <2>1, Join
<1>8. Opens((((a \o b) \o c) \o d) \o e, ServerD)
  <2>1. /\ {"bind", "epoll", "timer"} \cap {"fifo"} = {}
        /\ {"bind", "epoll", "timer"} \cup {"fifo"} = ServerD
    BY DEF ServerD
  <2> QED
    BY <1>4, <1>7, <2>1, Join
<1>9. server_event_loop(o) = (((a \o b) \o c) \o d) \o e
  <2>1. /\ a \in Seq(Call) /\ b \in Seq(Call) /\ c \in Seq(Call)
        /\ d \in Seq(Call) /\ e \in Seq(Call)
    BY <1>1, <1>2, <1>3, <1>4 DEF Opens
  <2>2. server_event_loop(o) = a \o b \o c \o d \o e
    BY DEF server_event_loop, a, b, c, d, e
  <2> QED
    BY <2>1, <2>2
<1> QED
  BY <1>8, <1>9

\* Start-up as a whole: the rules come right after the keys, before any socket;
\* nothing is opened twice, and of what can fail only the asserts end it without
\* myexit.  The pcap build adds no rules.
LoopD(o) == IF o.prog = "server" THEN ServerD ELSE ClientD(o)
StartD(o) == IF o.prog = "mp" THEN ClientD(o) ELSE ({"rules"} \cup Raw) \cup LoopD(o)
LEMMA StartupOpens ==
    ASSUME NEW o \in Settings
    PROVE  /\ Opens(startup(o), StartD(o)) /\ Len(startup(o)) >= 1
           /\ startup(o)[1].opens \notin Once
           /\ o.prog # "mp" => Len(startup(o)) >= 2 /\ startup(o)[2].opens = "rules"
<1> DEFINE sockets == When(o.prog # "mp", <<Rule>> \o init_raw_socket(o))
           loop == IF o.prog = "server" THEN server_event_loop(o) ELSE client_event_loop(o)
           S == IF o.prog = "mp" THEN {} ELSE {"rules"} \cup Raw
<1>0. o.lower_level \in {"off", "manual", "auto"} /\ o.prog \in {"client", "server", "mp"}
  BY SettingsAssumption
<1>1. Opens(sockets, S)
  <2>1. {"rules"} \cap Raw = {}
    BY DEF Raw
  <2>2. Opens(<<Rule>> \o init_raw_socket(o), {"rules"} \cup Raw)
    BY <2>1, RawSocketOpens, Single, Join
  <2> QED
    BY <2>2, Single DEF When
<1>2. Opens(loop, LoopD(o))
  BY <1>0, ClientOpens, ServerOpens DEF LoopD
<1>3. o.prog # "mp" => sockets = <<Rule>> \o init_raw_socket(o)
  BY DEF When
<1> HIDE DEF sockets, loop, S
<1>4. Opens(<<Try>> \o sockets, S)
  <2>1. {} \cap S = {} /\ {} \cup S = S
    OBVIOUS
  <2> QED
    BY <1>1, <2>1, Single, Join
<1>5. Opens((<<Try>> \o sockets) \o loop, S \cup LoopD(o))
  <2>1. S \cap LoopD(o) = {}
    BY DEF S, LoopD, ServerD, ClientD, Raw
  <2> QED
    BY <1>2, <1>4, <2>1, Join
<1>6. S \cup LoopD(o) = StartD(o)
  BY <1>0 DEF S, StartD, LoopD
<1>7. startup(o) = (<<Try>> \o sockets) \o loop
  BY DEF startup, sockets, loop
<1>8. /\ Len(startup(o)) >= 1 /\ startup(o)[1] = Try
      /\ o.prog # "mp" => Len(startup(o)) >= 2 /\ startup(o)[2] = Rule
  <2>1. /\ sockets \in Seq(Call) /\ loop \in Seq(Call) /\ <<Try>> \in Seq(Call)
        /\ init_raw_socket(o) \in Seq(Call) /\ <<Rule>> \in Seq(Call)
        /\ Len(<<Try>>) = 1 /\ <<Try>>[1] = Try /\ Len(<<Rule>>) = 1 /\ <<Rule>>[1] = Rule
    BY <1>1, <1>2, RawSocketOpens, Calls DEF Opens
  <2>2. o.prog # "mp" => Len(sockets) >= 1 /\ sockets[1] = Rule
    BY <1>3, <2>1, ConcatProperties
  <2>3. /\ <<Try>> \o sockets \in Seq(Call) /\ Len(<<Try>> \o sockets) = 1 + Len(sockets)
        /\ (<<Try>> \o sockets)[1] = Try
        /\ Len(sockets) >= 1 => (<<Try>> \o sockets)[2] = sockets[1]
    BY <2>1, ConcatProperties
  <2>4. /\ Len(startup(o)) = (1 + Len(sockets)) + Len(loop)
        /\ \A i \in 1 .. 1 + Len(sockets) : startup(o)[i] = (<<Try>> \o sockets)[i]
    BY <1>7, <2>1, <2>3, ConcatProperties
  <2>5. Len(sockets) \in Nat /\ Len(loop) \in Nat
    BY <2>1
  <2> QED
    BY <2>2, <2>3, <2>4, <2>5
<1> QED
  BY <1>5, <1>6, <1>7, <1>8, Calls

-----------------------------------------------------------------------------
(* The descriptors over the life of the process.                           *)

\* What start-up opened so far, and where a client has a socket of its own.
Opened ==
    /\ step \in 1 .. Len(startup(opt)) /\ bind_fd = "none"
    /\ \A d \in Descriptors : open[d] >= 1 => \E k \in 1 .. step - 1 : startup(opt)[k].opens = d

DescriptorInv ==
    /\ opt \in Settings /\ open \in [Descriptors -> Int] /\ bind_fd \in {"none", "socket"}
    /\ \A d \in Descriptors : open[d] >= 0
    /\ DescriptorsOwned
    /\ pc = "start" => Opened
    /\ pc = "bind" => opt.prog # "server"

\* Nothing is open before start-up.
LEMMA DescriptorInit == Init => DescriptorInv
<1> SUFFICES ASSUME Init PROVE DescriptorInv
  OBVIOUS
<1>1. /\ opt \in Settings /\ step = 1 /\ bind_fd = "none" /\ pc = "start"
      /\ open = [d \in Descriptors |-> 0] /\ "bind" \in Descriptors
  BY DEF Init, Descriptors
<1>2. open \in [Descriptors -> Int] /\ \A d \in Descriptors : open[d] = 0
  BY <1>1
<1>3. Len(startup(opt)) \in Nat /\ Len(startup(opt)) >= 1
  <2>1. startup(opt) \in Seq(Call)
    BY <1>1, StartupOpens DEF Opens
  <2> QED
    BY <1>1, <2>1, StartupOpens
<1>4. Opened
  BY <1>1, <1>2, <1>3 DEF Opened
<1>5. DescriptorsOwned
  BY <1>1, <1>2 DEF DescriptorsOwned
<1> QED
  BY <1>1, <1>2, <1>4, <1>5 DEF DescriptorInv

\* A start-up call opens what no earlier one did.
LEMMA DescriptorStart == ASSUME DescriptorInv, StartStep PROVE DescriptorInv'
<1> DEFINE n == startup(opt)[step].opens
<1>1. /\ pc = "start" /\ opt' = opt /\ bind_fd' = bind_fd
      /\ open' = [d \in Descriptors |-> open[d] + (IF d = n THEN 1 ELSE 0)]
      /\ IF step < Len(startup(opt)) THEN step' = step + 1 /\ pc' = pc
                                     ELSE step' = step /\ pc' = "check"
  BY DEF StartStep, At
<1> HIDE DEF n
<1>2. /\ opt \in Settings /\ open \in [Descriptors -> Int] /\ bind_fd = "none"
      /\ step \in 1 .. Len(startup(opt))
      /\ \A d \in Descriptors : open[d] \in 0 .. 1
      /\ \A d \in Descriptors : open[d] = 1 => \E k \in 1 .. step - 1 : startup(opt)[k].opens = d
      /\ "bind" \in Descriptors
  <2>1. Opened /\ "bind" \in Descriptors
    BY <1>1 DEF DescriptorInv, Descriptors
  <2>2. /\ open \in [Descriptors -> Int] /\ opt \in Settings
        /\ \A d \in Descriptors : open[d] \in 0 .. 1
    BY DEF DescriptorInv, DescriptorsOwned
  <2> QED
    BY <2>1, <2>2 DEF Opened
<1>3. /\ Opens(startup(opt), StartD(opt)) /\ Len(startup(opt)) \in Nat
      /\ opt.prog # "server" => "bind" \notin StartD(opt)
  <2>1. Opens(startup(opt), StartD(opt))
    BY <1>2, StartupOpens
  <2>2. opt.prog # "server" => "bind" \notin StartD(opt)
    BY DEF StartD, LoopD, ClientD, Raw
  <2> QED
    BY <2>1, <2>2 DEF Opens
<1>4. ASSUME n \in Descriptors PROVE open[n] = 0
  <2>1. ASSUME NEW k \in 1 .. step - 1, startup(opt)[k].opens = n PROVE FALSE
    <3>1. k \in 1 .. Len(startup(opt)) /\ k # step
      BY <1>2, <1>3
    <3> QED
      BY <1>2, <1>3, <1>4, <2>1, <3>1 DEF Opens, Once, n
  <2> QED
    BY <1>2, <1>4, <2>1
<1>5. opt.prog # "server" => n # "bind"
  BY <1>2, <1>3 DEF Opens, Once, n
<1>6. /\ open' \in [Descriptors -> Int]
      /\ \A d \in Descriptors : open'[d] = open[d] + (IF d = n THEN 1 ELSE 0)
  BY <1>1, <1>2
<1>7. \A d \in Descriptors : open'[d] \in 0 .. 1 /\ (d # n => open'[d] = open[d])
  BY <1>2, <1>4, <1>6
<1>8. opt.prog # "server" => open'["bind"] = 0
  <2>1. opt.prog # "server" => open["bind"] = 0
    BY <1>2 DEF DescriptorInv, DescriptorsOwned
  <2> QED
    BY <1>2, <1>5, <1>7, <2>1
<1>9. DescriptorsOwned'
  BY <1>1, <1>2, <1>7, <1>8 DEF DescriptorsOwned
<1>10. ASSUME pc' = "start" PROVE Opened'
  <2>1. step < Len(startup(opt)) /\ step' = step + 1
    BY <1>1, <1>10
  <2>2. ASSUME NEW d \in Descriptors, open'[d] >= 1
        PROVE  \E k \in 1 .. step : startup(opt)[k].opens = d
    <3>1. CASE d = n
      BY <1>2, <3>1 DEF n
    <3>2. CASE d # n
      <4>1. open[d] = 1
        BY <1>2, <1>7, <2>2, <3>2
      <4> QED
        BY <1>2, <4>1
    <3> QED
      BY <3>1, <3>2
  <2>3. step' - 1 = step /\ step' \in 1 .. Len(startup(opt))
    BY <1>2, <1>3, <2>1
  <2> QED
    BY <1>1, <1>2, <2>2, <2>3 DEF Opened
<1>11. pc' # "bind"
  BY <1>1
<1> QED
  BY <1>1, <1>2, <1>6, <1>7, <1>9, <1>10, <1>11 DEF DescriptorInv

\* try_to_list_and_bind2 closes the socket of the last attempt first.
LEMMA DescriptorBind ==
    ASSUME DescriptorInv, pc = "bind", NEW socket \in BOOLEAN, try_to_list_and_bind2(socket),
           opt' = opt, pc' \in {"bind", "bound"}
    PROVE  DescriptorInv'
<1>1. /\ opt \in Settings /\ open \in [Descriptors -> Int] /\ bind_fd \in {"none", "socket"}
      /\ \A d \in Descriptors : open[d] \in 0 .. 1
      /\ opt.prog # "server" /\ (open["bind"] = 1 <=> bind_fd # "none") /\ "bind" \in Descriptors
  BY DEF DescriptorInv, DescriptorsOwned, Descriptors
<1>2. PICK n \in 0 .. 1 :
         /\ open' = [open EXCEPT !["bind"] = n] /\ (n = 1 <=> socket)
  <2>2. open' = [open EXCEPT !["bind"] = open["bind"] - (IF bind_fd = "none" THEN 0 ELSE 1)
                                           + (IF socket THEN 1 ELSE 0)]
    BY DEF try_to_list_and_bind2
  <2>3. open["bind"] - (IF bind_fd = "none" THEN 0 ELSE 1) + (IF socket THEN 1 ELSE 0)
           = IF socket THEN 1 ELSE 0
    BY <1>1
  <2>4. open' = [open EXCEPT !["bind"] = IF socket THEN 1 ELSE 0]
    BY <2>2, <2>3
  <2>5. CASE socket
    BY <2>4, <2>5
  <2>6. CASE ~socket
    BY <2>4, <2>6
  <2> QED
    BY <2>5, <2>6
<1>3. bind_fd' = IF socket THEN "socket" ELSE "none"
  BY DEF try_to_list_and_bind2
<1>4. /\ open' \in [Descriptors -> Int] /\ open'["bind"] = n
      /\ \A d \in Descriptors : open'[d] \in 0 .. 1
  BY <1>1, <1>2
<1>5. DescriptorsOwned'
  BY <1>1, <1>2, <1>3, <1>4 DEF DescriptorsOwned
<1> QED
  BY <1>1, <1>3, <1>4, <1>5 DEF DescriptorInv

\* Every step of start-up, of the loop and of a session keeps the descriptors.
LEMMA DescriptorStep == ASSUME DescriptorInv, [Next]_vars PROVE DescriptorInv'
<1>1. CASE StartStep
  BY <1>1, DescriptorStart
<1>2. CASE BindFails
  BY <1>2, DescriptorBind DEF BindFails, At
<1>3. CASE BindSucceeds
  BY <1>3, DescriptorBind DEF BindSucceeds, At
<1>4. CASE Probe
  <2>1. /\ open' = [open EXCEPT !["probe"] = 1] /\ pc' = "check"
        /\ UNCHANGED <<opt, bind_fd>>
    BY <1>4 DEF Probe
  <2>2. /\ open \in [Descriptors -> Int] /\ "probe" \in Descriptors /\ "bind" \in Descriptors
        /\ \A d \in Descriptors : open[d] \in 0 .. 1
    BY DEF DescriptorInv, DescriptorsOwned, Descriptors
  <2>3. /\ open' \in [Descriptors -> Int] /\ open'["bind"] = open["bind"]
        /\ \A d \in Descriptors : open'[d] \in 0 .. 1
    BY <2>1, <2>2
  <2> QED
    BY <2>1, <2>3 DEF DescriptorInv, DescriptorsOwned
<1>5. CASE UNCHANGED <<opt, open, bind_fd>> /\ (UNCHANGED <<pc, step>> \/ pc' \notin {"start", "bind"})
  BY <1>5 DEF DescriptorInv, DescriptorsOwned, Opened
<1>6. CASE Reconnect
  BY <1>6 DEF Reconnect, DescriptorInv, DescriptorsOwned
<1>7. CASE \/ StartFails \/ Signal \/ Killed \/ NetworkUp \/ BindGivesUp
          \/ LoopFatal \/ ServerReturns
  BY <1>5, <1>7
     DEF StartFails, Signal, Killed, NetworkUp, BindGivesUp, LoopFatal, ServerReturns
<1>8. CASE Check \/ Wait \/ EventsDone \/ CaptureHeader \/ TimerReturns \/ Bound \/ SessionEnds
  BY <1>5, <1>8 DEF Check, Wait, EventsDone, CaptureHeader, TimerReturns, Bound, SessionEnds
<1>9. CASE UNCHANGED vars
  BY <1>5, <1>9 DEF vars
<1> QED
  BY <1>1, <1>2, <1>3, <1>4, <1>6, <1>7, <1>8, <1>9 DEF Next

\* However long the process runs, however often a client reconnects and
\* however many attempts to bind a port fail, no descriptor is lost: every
\* start-up call opens one of its own, and try_to_list_and_bind2 closes before
\* it opens.
THEOREM DescriptorsOwnedAlways == Spec => []DescriptorsOwned
<1>1. DescriptorInv => DescriptorsOwned
  BY DEF DescriptorInv
<1> QED
  BY <1>1, DescriptorInit, DescriptorStep, PTL DEF Spec

-----------------------------------------------------------------------------
(* The rules and the process: there before its sockets, gone with it.      *)

\* The pcap build has neither rules nor raw sockets; the others have rules from
\* the second call on.
RulesInv ==
    /\ opt.prog = "mp" => ~rules /\ open["raw_recv"] = 0
    /\ Running /\ opt.rule /\ opt.prog # "mp" /\ (pc = "start" => step > 2) => rules
    /\ ~Running /\ rules => why \in Unclean

\* A socket to receive with was opened by a call after the second.
LEMMA RulesSuffice == DescriptorInv /\ RulesInv => RulesWithProcess
<1> SUFFICES ASSUME DescriptorInv, RulesInv PROVE RulesWithProcess
  OBVIOUS
<1>1. ASSUME Running, opt.rule, open["raw_recv"] > 0 PROVE rules
  <2>1. opt \in Settings /\ opt.prog # "mp" /\ open["raw_recv"] >= 1 /\ "raw_recv" \in Descriptors
    BY <1>1 DEF DescriptorInv, RulesInv, Descriptors
  <2>2. ASSUME pc = "start" PROVE step > 2
    <3>1. /\ step \in 1 .. Len(startup(opt))
          /\ \E k \in 1 .. step - 1 : startup(opt)[k].opens = "raw_recv"
      BY <2>1, <2>2 DEF DescriptorInv, Opened
    <3>2. PICK k \in 1 .. step - 1 : startup(opt)[k].opens = "raw_recv"
      BY <3>1
    <3>3. startup(opt)[1].opens \notin Once /\ startup(opt)[2].opens = "rules"
      BY <2>1, StartupOpens
    <3>4. k # 1 /\ k # 2
      BY <2>1, <3>2, <3>3 DEF Once
    <3> QED
      BY <3>1, <3>2, <3>4
  <2> QED
    BY <1>1, <2>1, <2>2 DEF RulesInv
<1>2. ~Running /\ rules => why \in Unclean
  BY DEF RulesInv
<1> QED
  BY <1>1, <1>2 DEF RulesWithProcess

\* myexit, from wherever it is called, leaves no rule.
LEMMA RulesCleared ==
    ASSUME RulesInv, NEW c, myexit(c), UNCHANGED <<opt, open>> PROVE RulesInv'
  BY DEF RulesInv, myexit, Finish, Running

\* A step that leaves the process running, and start-up where it is.
LEMMA RulesStay ==
    ASSUME RulesInv, Running, UNCHANGED <<opt, rules, end>>, open'["raw_recv"] = open["raw_recv"],
           (pc # "start" /\ pc' # "start") \/ UNCHANGED <<pc, step>>
    PROVE  RulesInv'
  BY DEF RulesInv, Running, end

\* An end for one of the reasons that leave the rules.
LEMMA RulesLeft ==
    ASSUME RulesInv, NEW how \in {"abort", "return", "killed"}, NEW c \in Unclean, Finish(how, c),
           UNCHANGED <<opt, open, rules>>
    PROVE  RulesInv'
  BY DEF RulesInv, Running, Finish

\* A start-up call that succeeds: the second adds the rules.
LEMMA RulesStart == ASSUME DescriptorInv, RulesInv, StartStep PROVE RulesInv'
<1> DEFINE n == startup(opt)[step].opens
<1>1. /\ Running /\ pc = "start" /\ opt' = opt /\ UNCHANGED end
      /\ open' = [d \in Descriptors |-> open[d] + (IF d = n THEN 1 ELSE 0)]
      /\ rules' = (rules \/ (n = "rules" /\ opt.rule))
      /\ IF step < Len(startup(opt)) THEN step' = step + 1 /\ pc' = pc
                                     ELSE step' = step /\ pc' = "check"
  BY DEF StartStep, At
<1>2. /\ opt \in Settings /\ step \in 1 .. Len(startup(opt))
      /\ open \in [Descriptors -> Int] /\ "raw_recv" \in Descriptors
  BY <1>1 DEF DescriptorInv, Opened, Descriptors
<1>3. Opens(startup(opt), StartD(opt)) /\ Len(startup(opt)) \in Nat
  BY <1>2, StartupOpens DEF Opens
<1>4. ASSUME opt.prog = "mp" PROVE n # "rules" /\ n # "raw_recv"
  <2>1. "rules" \notin StartD(opt) /\ "raw_recv" \notin StartD(opt)
    BY <1>4 DEF StartD, ClientD
  <2>2. n \in Once => n \in StartD(opt)
    BY <1>2, <1>3 DEF Opens
  <2>3. "rules" \in Once /\ "raw_recv" \in Once
    BY DEF Once, Descriptors
  <2> QED
    BY <2>1, <2>2, <2>3
<1>5. opt.prog # "mp" => Len(startup(opt)) >= 2 /\ (step = 2 => n = "rules")
  BY <1>2, StartupOpens
<1> HIDE DEF n
<1>6. open'["raw_recv"] = open["raw_recv"] + (IF "raw_recv" = n THEN 1 ELSE 0)
  <2>1. ASSUME NEW d \in Descriptors PROVE open'[d] = open[d] + (IF d = n THEN 1 ELSE 0)
    BY <1>1
  <2> QED
    BY <1>2, <2>1
<1>7. opt'.prog = "mp" => ~rules' /\ open'["raw_recv"] = 0
  <2> SUFFICES ASSUME opt.prog = "mp" PROVE ~rules' /\ open'["raw_recv"] = 0
    BY <1>1
  <2>1. n # "rules" /\ n # "raw_recv" /\ ~rules /\ open["raw_recv"] = 0
    BY <1>4 DEF RulesInv
  <2>2. ~rules'
    BY <1>1, <2>1
  <2> QED
    BY <1>6, <2>1, <2>2
<1>8. ASSUME opt.rule, opt.prog # "mp", pc' = "start" => step' > 2 PROVE rules'
  <2>1. step >= 2
    BY <1>1, <1>2, <1>3, <1>5, <1>8
  <2>2. CASE step = 2
    BY <1>1, <1>5, <1>8, <2>2
  <2>3. CASE step > 2
    BY <1>1, <1>8, <2>3 DEF RulesInv
  <2> QED
    BY <1>2, <2>1, <2>2, <2>3
<1>9. Running'
  BY <1>1 DEF Running, end
<1> QED
  BY <1>1, <1>7, <1>8, <1>9 DEF RulesInv

\* A start-up call that fails: myexit, unless it is an assert.
LEMMA RulesFail == ASSUME DescriptorInv, RulesInv, StartFails PROVE RulesInv'
<1> DEFINE s == startup(opt)[step]
<1>1. /\ Running /\ pc = "start" /\ UNCHANGED <<opt, open, pc, step>>
      /\ \/ myexit(s.cause)
         \/ s.fails = "abort" /\ Finish("abort", s.cause) /\ UNCHANGED rules
         \/ UNCHANGED <<end, rules>>
  BY DEF StartFails, At
<1>2. opt \in Settings /\ step \in 1 .. Len(startup(opt))
  BY <1>1 DEF DescriptorInv, Opened
<1>3. ASSUME s.fails = "abort" PROVE opt.prog = "mp" \/ s.cause \in StartCauses
  <2>1. Opens(startup(opt), StartD(opt))
    BY <1>2, StartupOpens
  <2>2. s.cause \in StartD(opt) /\ s \in Call
    BY <1>2, <1>3, <2>1 DEF Opens
  <2>3. s.cause \in StartCauses \cup {"pcap", "call"}
    BY <2>2 DEF Call
  <2>4. opt.prog # "mp" => "pcap" \notin StartD(opt) /\ "call" \notin StartD(opt)
    BY DEF StartD, LoopD, ClientD, ServerD, Raw
  <2> QED
    BY <2>2, <2>3, <2>4
<1> HIDE DEF s
<1>4. CASE myexit(s.cause)
  BY <1>1, <1>4, RulesCleared
<1>5. CASE s.fails = "abort" /\ Finish("abort", s.cause) /\ UNCHANGED rules
  <2>1. CASE opt.prog = "mp"
    BY <1>1, <1>5, <2>1 DEF RulesInv, Running, Finish
  <2>2. CASE s.cause \in StartCauses
    <3>1. s.cause \in Unclean
      BY <2>2 DEF StartCauses, Unclean
    <3> QED
      BY <1>1, <1>5, <3>1, RulesLeft
  <2> QED
    BY <1>3, <1>5, <2>1, <2>2
<1>6. CASE UNCHANGED <<end, rules>>
  BY <1>1, <1>6, RulesStay
<1> QED
  BY <1>1, <1>4, <1>5, <1>6

\* Every start-up call, signal, callback and error path.
LEMMA RulesStep == ASSUME DescriptorInv, RulesInv, [Next]_vars PROVE RulesInv'
<1>1. CASE StartStep \/ StartFails
  BY <1>1, RulesStart, RulesFail
<1>2. CASE Signal \/ NetworkUp
  BY <1>2, RulesStay DEF Signal, NetworkUp
<1>3. CASE Killed
  <2>1. "unhandled_signal" \in Unclean
    BY DEF Unclean
  <2> QED
    BY <1>3, <2>1, RulesLeft DEF Killed
<1>4. CASE ServerReturns
  <2>1. "descriptor_gone" \in Unclean /\ "descriptor_known" \in Unclean
    BY DEF Unclean
  <2> QED
    BY <1>4, <2>1, RulesLeft DEF ServerReturns
<1>5. CASE Check
  <2>1. /\ Running /\ pc = "check" /\ UNCHANGED <<opt, open>>
        /\ myexit("signal") \/ (pc' = "wait" /\ UNCHANGED <<end, rules>>)
    BY <1>5 DEF Check, At
  <2> QED
    BY <2>1, RulesCleared, RulesStay
<1>6. CASE Wait \/ EventsDone \/ CaptureHeader \/ TimerReturns \/ SessionEnds
  BY <1>6, RulesStay DEF Wait, EventsDone, CaptureHeader, TimerReturns, SessionEnds, At
<1>7. CASE Reconnect
  <2>1. pc' # "start"
    BY <1>7 DEF Reconnect
  <2> QED
    BY <1>7, <2>1, RulesStay DEF Reconnect, At
<1>8. CASE Probe \/ BindFails \/ BindSucceeds
  <2>1. /\ Running /\ pc # "start" /\ pc' # "start" /\ UNCHANGED <<opt, rules, end>>
        /\ \E d \in {"probe", "bind"} : \E k : open' = [open EXCEPT ![d] = k]
    BY <1>8 DEF Probe, BindFails, BindSucceeds, At, try_to_list_and_bind2
  <2>2. open \in [Descriptors -> Int]
    BY DEF DescriptorInv
  <2>3. open'["raw_recv"] = open["raw_recv"]
    BY <2>1, <2>2 DEF Descriptors
  <2> QED
    BY <2>1, <2>3, RulesStay
<1>9. CASE BindGivesUp \/ LoopFatal
  BY <1>9, RulesCleared DEF BindGivesUp, LoopFatal
<1>10. CASE Bound
  <2>1. /\ Running /\ pc = "bound" /\ UNCHANGED <<opt, open>>
        /\ myexit("call") \/ (pc' = "check" /\ UNCHANGED <<end, rules>>)
    BY <1>10 DEF Bound, At
  <2> QED
    BY <2>1, RulesCleared, RulesStay
<1>11. CASE UNCHANGED vars
  BY <1>11 DEF vars, end, RulesInv, Running
<1> QED
  BY <1>1, <1>2, <1>3, <1>4, <1>5, <1>6, <1>7, <1>8, <1>9, <1>10, <1>11 DEF Next

\* However udp2raw is started, its rules are there before it can receive a
\* packet (main calls iptables_rule before init_raw_socket), and wherever it
\* fails or is told to end it takes them along: every call of start-up, of the
\* loops and of a session that is refused leads to myexit, and only the five
\* events named in Unclean leave rules.
THEOREM RulesWithProcessAlways == Spec => []RulesWithProcess
<1>1. Init => RulesInv
  <2>1. ASSUME Init PROVE open["raw_recv"] = 0
    BY <2>1 DEF Init, Descriptors
  <2>2. ASSUME Init PROVE Running /\ ~rules /\ pc = "start" /\ ~(step > 2)
    BY <2>2 DEF Init, Running
  <2> QED
    BY <2>1, <2>2 DEF RulesInv
<1> QED
  BY <1>1, RulesSuffice, RulesStep, DescriptorInit, DescriptorStep, PTL DEF Spec

-----------------------------------------------------------------------------
(* The firewall rules.  What is proved of IptablesRule holds of the        *)
(* instance that MCStartup runs, whose definitions are the same.           *)

IP == INSTANCE IptablesRuleProofs WITH Modes <- {"auto", "keep", "gen_add"}

LEMMA SameLists ==
    /\ I!InitCommands = IP!InitCommands /\ I!ClearCommands = IP!ClearCommands
    /\ I!InitCommands' = IP!InitCommands' /\ I!ClearCommands' = IP!ClearCommands'
    /\ I!KeepCommands = IP!KeepCommands /\ I!NoCommand = IP!NoCommand /\ I!Index = IP!Index
    /\ \A i, s : I!On(i, s) = IP!On(i, s)
  BY DEF I!InitCommands, IP!InitCommands, I!ClearCommands, IP!ClearCommands, I!PerChain,
         IP!PerChain, I!On, IP!On, I!KeepCommands, IP!KeepCommands, I!NoCommand, IP!NoCommand,
         I!Index, IP!Index

LEMMA SameVars ==
    /\ I!vars = IP!vars /\ I!firewall = IP!firewall /\ I!keep = IP!keep /\ I!bounds = IP!bounds
    /\ I!vars' = IP!vars' /\ I!firewall' = IP!firewall'
    /\ I!keep' = IP!keep' /\ I!bounds' = IP!bounds'
  BY DEF I!vars, IP!vars, I!firewall, IP!firewall, I!keep, IP!keep, I!bounds, IP!bounds

LEMMA SameCommand ==
    \A c : (I!Succeeds(c) <=> IP!Succeeds(c)) /\ (I!Fails(c) <=> IP!Fails(c))
  BY Zenon DEF I!Succeeds, IP!Succeeds, I!Fails, IP!Fails, I!Possible, IP!Possible,
               I!Effect, IP!Effect, I!firewall, IP!firewall

LEMMA SameMain == I!Main <=> IP!Main
  BY SameCommand, SameLists, SameVars
     DEF I!Main, IP!Main, I!InitCommand, IP!InitCommand, I!Installed, IP!Installed,
         I!GenAdded, IP!GenAdded, I!RunAgain, IP!RunAgain, I!Signal, IP!Signal, I!Quit, IP!Quit,
         I!ClearCommand, IP!ClearCommand, I!Terminate, IP!Terminate, I!Exit, IP!Exit

LEMMA SameKeeper == I!Keeper <=> IP!Keeper
<1>1. I!KeepContinues <=> IP!KeepContinues
  BY SameLists, SameVars, Zenon DEF I!KeepContinues, IP!KeepContinues
<1> QED
  BY <1>1, SameCommand, SameLists, SameVars
     DEF I!Keeper, IP!Keeper, I!KeepWakes, IP!KeepWakes, I!KeepStarts, IP!KeepStarts,
         I!ChildRuns, IP!ChildRuns, I!KeepEnds, IP!KeepEnds, I!KeepCancelled, IP!KeepCancelled

LEMMA SameNext == (I!Init <=> IP!Init) /\ (I!Next <=> IP!Next)
  BY SameMain, SameKeeper, SameVars, SameLists
     DEF I!Next, IP!Next, I!Flush, IP!Flush, I!Init, IP!Init

LEMMA SamePromises == (I!Protected <=> IP!Protected) /\ (I!CleanExit <=> IP!CleanExit)
  BY SameLists
     DEF I!Protected, IP!Protected, I!CleanExit, IP!CleanExit, I!Dropping, IP!Dropping,
         I!Ended, IP!Ended, I!NothingLeft, IP!NothingLeft

\* A process that has cleared its rules and is not run again.
LEMMA FirewallEndedIInv == ASSUME FirewallEnded PROVE IP!IInv
<1>1. IP!Types
  BY BoundsAssumption DEF FirewallEnded, IP!Types, IP!Index, I!Index
<1>2. IP!Control /\ IP!AtMostOne /\ IP!Unused
  BY DEF FirewallEnded, IP!Control, IP!AtMostOne, IP!Unused, IP!NoCommand, I!NoCommand,
         IP!Index, I!Index
<1>3. /\ IP!Adding /\ IP!Installing /\ IP!Renewing /\ IP!Serving /\ IP!Clearing /\ IP!Exited
  BY DEF FirewallEnded, IP!Adding, IP!Installing, IP!Renewing, IP!Serving, IP!Clearing, IP!Exited,
         IP!Index, I!Index
<1> QED
  BY <1>1, <1>2, <1>3 DEF IP!IInv

\* Only steps of IptablesRule move its state, and only steps of Clock move its.
LEMMA FirewallMoves == ASSUME [MCNext]_all PROVE [IP!Next]_IP!vars
<1>1. [I!Next]_firewall
  BY DEF MCNext, all, Read
<1>2. UNCHANGED firewall => UNCHANGED IP!vars
  BY DEF firewall, IP!vars, IP!firewall, IP!keep, IP!bounds
<1> QED
  BY <1>1, <1>2, SameNext

LEMMA ClockMoves == ASSUME [MCNext]_all PROVE [C!Next]_clock
  BY DEF MCNext, all, Read

LEMMA FirewallIInv == MCSpec => []IP!IInv
<1>1. MCInit => IP!IInv
  BY SameNext, IP!InitIInv, FirewallEndedIInv DEF MCInit
<1>2. IP!IInv /\ [MCNext]_all => IP!IInv'
  BY FirewallMoves, IP!StepIInv
<1> QED
  BY <1>1, <1>2, PTL DEF MCSpec

\* While udp2raw runs and nobody interferes the tunnel's packets are dropped in
\* the middle of a renewal of the rules too, and one failed command never leaves
\* a second copy of a rule (iptables_rule_init, keep_iptables_rule).
THEOREM StartupProtected == MCSpec => []Protected
<1>1. IP!IInv => Protected
  BY IP!IInvProtected, SamePromises DEF Protected
<1> QED
  BY <1>1, FirewallIInv, PTL

\* clear_iptables_rule, from wherever myexit is called, leaves no rule and no
\* chain of -a; --gen-add leaves exactly one.
THEOREM StartupCleanExit == MCSpec => []CleanExit
<1>1. IP!IInv => CleanExit
  BY IP!IInvCleanExit, SamePromises DEF CleanExit
<1> QED
  BY <1>1, FirewallIInv, PTL
-----------------------------------------------------------------------------
(* get_current_time_us: the time does not go back.                         *)

Thread == {"main", "keep"}
Locals == [raw : Int, fixed : Int, fix : Int, largest : Int]
Places == {"out", "fix", "compare", "behind", "raise", "keep", "return"}
ClockTypes ==
    /\ raw \in Int /\ value_fix \in Int /\ largest_value \in Int
    /\ at \in [Thread -> Places] /\ loc \in [Thread -> Locals]
    /\ returned \in [Thread -> Int] /\ back \in Nat /\ raced \in BOOLEAN

Sums == \A t \in Thread :
    /\ at[t] = "fix" => loc[t].fixed = 0
    /\ at[t] \in {"compare", "keep"} => loc[t].fixed = loc[t].raw + loc[t].fix

\* As long as no two calls have overlapped, however often the system clock was
\* set back: the last time returned is largest_value.
Alone ==
    /\ \A t, u \in Thread : t # u => at[t] = "out" \/ at[u] = "out"
    /\ \A t \in Thread :
          /\ returned[t] <= largest_value
          /\ at[t] \in {"compare", "behind", "keep", "return"} => loc[t].fix = value_fix
          /\ at[t] = "behind" => /\ loc[t].largest = largest_value
                                 /\ loc[t].fixed = loc[t].raw + loc[t].fix
          /\ at[t] = "keep" => loc[t].fixed >= largest_value
          /\ at[t] \in {"raise", "return"} => loc[t].raw + loc[t].fix = largest_value

\* As long as the system clock has not been set back, however calls overlap.
\* A thread is behind if the other one stored a later time meanwhile.
Behind(t) ==
    \/ at[t] = "fix" /\ loc[t].raw + value_fix < largest_value
    \/ at[t] \in {"compare", "behind", "keep", "raise"} /\ loc[t].fixed < largest_value

Samples ==
    /\ largest_value <= raw + value_fix
    /\ \A t \in Thread :
          /\ at[t] # "out" => loc[t].raw <= raw
          /\ at[t] \in {"compare", "behind", "keep", "return"} => loc[t].fix <= value_fix
          /\ at[t] = "behind" =>
                /\ loc[t].fixed < loc[t].largest /\ loc[t].largest <= largest_value
                /\ loc[t].fixed <= loc[t].raw + loc[t].fix
                /\ loc[t].fix + loc[t].largest >= loc[t].fixed + value_fix
          /\ at[t] = "raise" => loc[t].fix >= value_fix /\ Behind(t)
          /\ at[t] = "compare" /\ Behind(t) => largest_value >= loc[t].raw + value_fix

\* Only one of the two is behind; and of two calls the one that loaded
\* value_fix before the last store began first.
Apart ==
    \A t, u \in Thread : t # u =>
        /\ ~(Behind(t) /\ Behind(u))
        /\ /\ at[t] \in {"compare", "keep"} /\ loc[t].fix < value_fix
           /\ at[u] \in {"fix", "compare", "behind", "keep", "raise"}
           => /\ loc[u].raw >= loc[t].raw
              /\ at[u] \in {"compare", "keep"} => loc[u].fix = value_fix

\* What a call will return is not before what the last one did.
Ahead == \A t \in Thread :
    /\ at[t] = "out" => returned[t] <= raw + value_fix
    /\ at[t] = "fix" => returned[t] <= loc[t].raw + value_fix
    /\ at[t] \in {"compare", "behind", "keep", "raise", "return"} =>
          returned[t] <= loc[t].raw + loc[t].fix

ClockInv ==
    /\ ClockTypes /\ Sums
    /\ ~raced => Alone
    /\ back = 0 => Samples /\ Apart /\ Ahead

\* Both begin, and end, with no call under way.
LEMMA ClockIdle ==
    ASSUME ClockTypes, \A t \in Thread : at[t] = "out" /\ returned[t] <= largest_value,
           largest_value <= raw + value_fix
    PROVE  ClockInv
<1>1. Sums /\ Alone
  BY DEF ClockTypes, Locals, Sums, Alone
<1>2. Samples /\ Apart
  BY DEF ClockTypes, Locals, Samples, Apart, Behind
<1>3. Ahead
  BY DEF ClockTypes, Locals, Ahead
<1> QED
  BY <1>1, <1>2, <1>3 DEF ClockInv

\* An assignment to a field of a thread's locals.
LEMMA SetFix ==
    ASSUME NEW f \in [Thread -> Locals], NEW t \in Thread, NEW b \in Int,
           NEW g, g = [f EXCEPT ![t].fix = b]
    PROVE  /\ g \in [Thread -> Locals] /\ \A u \in Thread \ {t} : g[u] = f[u]
           /\ g[t].raw = f[t].raw /\ g[t].fixed = f[t].fixed /\ g[t].fix = b
           /\ g[t].largest = f[t].largest
  BY DEF Locals

LEMMA SetLargest ==
    ASSUME NEW f \in [Thread -> Locals], NEW t \in Thread, NEW b \in Int,
           NEW g, g = [f EXCEPT ![t].largest = b]
    PROVE  /\ g \in [Thread -> Locals] /\ \A u \in Thread \ {t} : g[u] = f[u]
           /\ g[t].raw = f[t].raw /\ g[t].fixed = f[t].fixed /\ g[t].fix = f[t].fix
           /\ g[t].largest = b
  BY DEF Locals

LEMMA ClockInit == ASSUME C!Init PROVE ClockInv
<1>1. C!NoLocals \in Locals
  BY DEF C!NoLocals, Locals
<1>2. loc \in [Thread -> Locals]
  BY <1>1 DEF C!Init, C!Thread, Thread
<1>3. raced \in BOOLEAN
  BY DEF C!Init
<1>4. ClockTypes
  BY <1>2, <1>3 DEF C!Init, C!Thread, ClockTypes, Locals, Thread, Places
<1> QED
  BY <1>4, ClockIdle DEF C!Init, C!Thread, Thread

LEMMA ClockEndedInv == ASSUME ClockEnded PROVE ClockInv
<1>1. C!NoLocals \in Locals
  BY DEF C!NoLocals, Locals
<1>2. loc \in [Thread -> Locals]
  BY <1>1 DEF ClockEnded, C!Thread, Thread
<1>3. raced \in BOOLEAN
  BY DEF ClockEnded
<1>4. ClockTypes
  BY <1>2, <1>3, BoundsAssumption DEF ClockEnded, C!Thread, ClockTypes, Locals, Thread, Places
<1> QED
  BY <1>4, ClockIdle DEF ClockEnded, C!Thread, Thread

\* The system clock runs on, or is set back.
LEMMA ClockTicks == ASSUME ClockInv, C!SystemTick \/ C!SetBack PROVE ClockInv' /\ C!NotBack
<1>1. PICK d \in {-1, 1} :
        /\ raw' = raw + d /\ back' = IF d = 1 THEN back ELSE back + 1
        /\ UNCHANGED <<value_fix, largest_value, at, loc, returned, raced>>
  <2>1. CASE C!SystemTick
    BY <2>1 DEF C!SystemTick
  <2>2. CASE C!SetBack
    <3>1. raw' = raw + (-1)
      BY <2>2 DEF C!SetBack, ClockInv, ClockTypes, Locals
    <3> QED
      BY <2>2, <3>1 DEF C!SetBack
  <2> QED
    BY <2>1, <2>2
<1>2. ClockTypes' /\ Sums' /\ (~raced' => Alone')
  BY <1>1 DEF ClockInv, ClockTypes, Locals, Sums, Alone
<1>3. ASSUME back' = 0 PROVE Samples' /\ Apart' /\ Ahead'
  <2>1. d = 1 /\ back = 0
    BY <1>1, <1>3 DEF ClockInv, ClockTypes, Locals
  <2> QED
    BY <1>1, <2>1 DEF ClockInv, ClockTypes, Locals, Samples, Apart, Ahead, Behind
<1>4. C!NotBack
  BY <1>1 DEF C!NotBack, ClockInv, ClockTypes, Locals, Thread
<1> QED
  BY <1>2, <1>3, <1>4 DEF ClockInv

LEMMA ClockSamples ==
    ASSUME ClockInv, NEW t \in Thread, C!Sample(t) PROVE ClockInv' /\ C!NotBack
<1>1. /\ at[t] = "out" /\ at' = [at EXCEPT ![t] = "fix"]
      /\ loc' = [loc EXCEPT ![t] = [raw |-> raw, fixed |-> 0, fix |-> 0, largest |-> 0]]
      /\ raced' = (raced \/ \E u \in Thread \ {t} : at[u] # "out")
      /\ UNCHANGED <<raw, value_fix, largest_value, returned, back>>
  <2>1. [C!NoLocals EXCEPT !.raw = raw] = [raw |-> raw, fixed |-> 0, fix |-> 0, largest |-> 0]
    BY DEF C!NoLocals
  <2> QED
    BY <2>1 DEF C!Sample, C!Goto, C!Thread, Thread
<1>2. ClockTypes' /\ Sums'
  BY <1>1 DEF ClockInv, ClockTypes, Locals, Sums, Places
<1>3. ASSUME ~raced' PROVE Alone'
  <2>1. ~raced /\ \A u \in Thread \ {t} : at[u] = "out"
    BY <1>1, <1>3
  <2> QED
    BY <1>1, <2>1 DEF ClockInv, ClockTypes, Locals, Alone, Places
<1>4. ASSUME back' = 0 PROVE Samples' /\ Apart' /\ Ahead'
  <2>1. ~Behind(t)' /\ \A u \in Thread \ {t} : Behind(u)' = Behind(u)
    BY <1>1, <1>4 DEF ClockInv, ClockTypes, Locals, Samples, Behind
  <2>2. Samples' /\ Ahead'
    BY <1>1, <1>4, <2>1 DEF ClockInv, ClockTypes, Locals, Samples, Ahead
  <2>3. Apart'
    BY <1>1, <1>4, <2>1 DEF ClockInv, ClockTypes, Locals, Samples, Apart
  <2> QED
    BY <2>2, <2>3
<1>5. C!NotBack
  BY <1>1 DEF C!NotBack, ClockInv, ClockTypes, Locals, Thread
<1> QED
  BY <1>2, <1>3, <1>4, <1>5 DEF ClockInv

LEMMA ClockFixes ==
    ASSUME ClockInv, NEW t \in Thread, C!Fix(t) PROVE ClockInv' /\ C!NotBack
<1>1. /\ at[t] = "fix" /\ at' = [at EXCEPT ![t] = "compare"]
      /\ loc' \in [Thread -> Locals] /\ \A u \in Thread \ {t} : loc'[u] = loc[u]
      /\ loc'[t].raw = loc[t].raw /\ loc'[t].fixed = loc[t].raw + value_fix
      /\ loc'[t].fix = value_fix
      /\ UNCHANGED <<raw, value_fix, largest_value, returned, back, raced>>
  <2>1. /\ loc \in [Thread -> Locals] /\ loc[t].raw \in Int /\ loc[t].fixed \in Int
        /\ value_fix \in Int
    BY DEF ClockInv, ClockTypes, Locals
  <2>2. at[t] = "fix" /\ loc[t].fixed = 0
    BY DEF C!Fix, ClockInv, Sums
  <2>3. (loc[t].fixed + loc[t].raw) + value_fix = loc[t].raw + value_fix
    BY <2>1, <2>2
  <2>4. loc' = [loc EXCEPT ![t].fixed = loc[t].raw + value_fix, ![t].fix = value_fix]
    BY <2>3, Zenon DEF C!Fix
  <2>5. PICK a \in Int : a = loc[t].raw + value_fix
    BY <2>1
  <2>6. PICK g : g = loc'
    OBVIOUS
  <2>7. g = [loc EXCEPT ![t].fixed = a, ![t].fix = value_fix]
    BY <2>4, <2>5, <2>6, Zenon
  <2>8. /\ g \in [Thread -> Locals] /\ \A u \in Thread \ {t} : g[u] = loc[u]
        /\ g[t].raw = loc[t].raw /\ g[t].fixed = a /\ g[t].fix = value_fix
    BY <2>1, <2>7 DEF Locals
  <2> QED
    BY <2>2, <2>5, <2>6, <2>8 DEF C!Fix, C!Goto
<1>2. ClockTypes' /\ Sums'
  BY <1>1 DEF ClockInv, ClockTypes, Locals, Sums, Places
<1>3. ASSUME ~raced' PROVE Alone'
  BY <1>1, <1>3 DEF ClockInv, ClockTypes, Locals, Alone, Places
<1>4. ASSUME back' = 0 PROVE Samples' /\ Apart' /\ Ahead'
  <2>1. \A u \in Thread : Behind(u)' = Behind(u)
    BY <1>1, <1>4 DEF ClockInv, ClockTypes, Locals, Samples, Behind
  <2>2. Samples' /\ Ahead'
    BY <1>1, <1>4, <2>1 DEF ClockInv, ClockTypes, Locals, Samples, Ahead, Behind
  <2>3. Apart'
    BY <1>1, <1>4, <2>1 DEF ClockInv, ClockTypes, Locals, Samples, Apart
  <2> QED
    BY <2>2, <2>3
<1>5. C!NotBack
  BY <1>1 DEF C!NotBack, ClockInv, ClockTypes, Locals, Thread
<1> QED
  BY <1>2, <1>3, <1>4, <1>5 DEF ClockInv

LEMMA ClockCompares ==
    ASSUME ClockInv, NEW t \in Thread, C!Compare(t) PROVE ClockInv' /\ C!NotBack
<1>1. /\ at[t] = "compare"
      /\ at' = [at EXCEPT ![t] = IF loc[t].fixed < largest_value THEN "behind" ELSE "keep"]
      /\ loc' = [loc EXCEPT ![t].largest = largest_value]
      /\ UNCHANGED <<raw, value_fix, largest_value, returned, back, raced>>
  BY DEF C!Compare, C!Goto
<1>2. /\ loc' \in [Thread -> Locals] /\ \A u \in Thread \ {t} : loc'[u] = loc[u]
      /\ loc'[t].raw = loc[t].raw /\ loc'[t].fixed = loc[t].fixed /\ loc'[t].fix = loc[t].fix
      /\ loc'[t].largest = largest_value
  <2>1. loc \in [Thread -> Locals] /\ largest_value \in Int
    BY DEF ClockInv, ClockTypes
  <2>2. PICK g : g = loc'
    OBVIOUS
  <2> QED
    BY <1>1, <2>1, <2>2, SetLargest
<1>a. CASE loc[t].fixed >= largest_value /\ at' = [at EXCEPT ![t] = "keep"]
  <2>1. ClockTypes' /\ Sums'
    BY <1>1, <1>2, <1>a DEF ClockInv, ClockTypes, Locals, Sums, Places
  <2>2. ASSUME ~raced' PROVE Alone'
    BY <1>1, <1>2, <1>a, <2>2 DEF ClockInv, ClockTypes, Locals, Alone
  <2>3. ASSUME back' = 0 PROVE Samples' /\ Apart' /\ Ahead'
    <3>1. \A u \in Thread : Behind(u)' = Behind(u)
      BY <1>1, <1>2, <1>a DEF ClockInv, ClockTypes, Locals, Behind
    <3>2. Samples' /\ Ahead'
      BY <1>1, <1>2, <1>a, <2>3, <3>1 DEF ClockInv, ClockTypes, Locals, Samples, Ahead
    <3>3. Apart'
      BY <1>1, <1>2, <1>a, <2>3, <3>1 DEF ClockInv, ClockTypes, Locals, Apart
    <3> QED
      BY <3>2, <3>3
  <2> QED
    BY <1>1, <2>1, <2>2, <2>3 DEF ClockInv, ClockTypes, Locals, C!NotBack, Thread
<1>b. CASE loc[t].fixed < largest_value /\ at' = [at EXCEPT ![t] = "behind"]
  <2>2. ClockTypes' /\ Sums'
    BY <1>1, <1>2, <1>b DEF ClockInv, ClockTypes, Locals, Sums, Places
  <2>3. ASSUME ~raced' PROVE Alone'
    BY <1>1, <1>2, <1>b, <2>3 DEF ClockInv, ClockTypes, Locals, Alone, Sums
  <2>4. ASSUME back' = 0 PROVE Samples' /\ Apart' /\ Ahead'
    <3>1. \A u \in Thread : Behind(u)' = Behind(u)
      BY <1>1, <1>2, <1>b DEF ClockInv, ClockTypes, Locals, Behind
    <3>2. Behind(t)
      BY <1>1, <1>b DEF Behind
    <3>3. /\ loc[t].fixed = loc[t].raw + loc[t].fix
          /\ loc[t].fix + largest_value >= loc[t].fixed + value_fix
      BY <1>1, <1>b, <2>4, <3>2 DEF ClockInv, ClockTypes, Locals, Sums, Samples
    <3>4. Samples' /\ Ahead'
      BY <1>1, <1>2, <1>b, <2>4, <3>1, <3>2, <3>3
         DEF ClockInv, ClockTypes, Locals, Samples, Ahead
    <3>5. Apart'
      BY <1>1, <1>2, <1>b, <2>4, <3>1 DEF ClockInv, ClockTypes, Locals, Apart
    <3> QED
      BY <3>4, <3>5
  <2> QED
    BY <1>1, <2>2, <2>3, <2>4 DEF ClockInv, ClockTypes, Locals, C!NotBack, Thread
<1>3. loc[t].fixed >= largest_value \/ loc[t].fixed < largest_value
  BY DEF ClockInv, ClockTypes, Locals
<1> QED
  BY <1>1, <1>3, <1>a, <1>b

LEMMA ClockReloads ==
    ASSUME ClockInv, NEW t \in Thread, C!Reload(t) PROVE ClockInv' /\ C!NotBack
<1>1. /\ at[t] = "behind"
      /\ UNCHANGED <<raw, value_fix, largest_value, at, returned, back, raced>>
  BY DEF C!Reload
<1>2. /\ loc' \in [Thread -> Locals] /\ \A u \in Thread \ {t} : loc'[u] = loc[u]
      /\ loc'[t].raw = loc[t].raw /\ loc'[t].fixed = loc[t].fixed
      /\ \/ loc'[t].fix = value_fix /\ loc'[t].largest = loc[t].largest
         \/ loc'[t].fix = loc[t].fix /\ loc'[t].largest = largest_value
  <2>1. loc \in [Thread -> Locals] /\ largest_value \in Int /\ value_fix \in Int
    BY DEF ClockInv, ClockTypes
  <2>2. PICK g : g = loc'
    OBVIOUS
  <2>3. CASE loc' = [loc EXCEPT ![t].fix = value_fix]
    BY <2>1, <2>2, <2>3, SetFix
  <2>4. CASE loc' = [loc EXCEPT ![t].largest = largest_value]
    BY <2>1, <2>2, <2>4, SetLargest
  <2> QED
    BY <2>3, <2>4 DEF C!Reload
<1>3. ClockTypes' /\ Sums'
  BY <1>1, <1>2 DEF ClockInv, ClockTypes, Locals, Sums, Places
<1>4. ASSUME ~raced' PROVE Alone'
  BY <1>1, <1>2, <1>4 DEF ClockInv, ClockTypes, Locals, Alone
<1>5. ASSUME back' = 0 PROVE Samples' /\ Apart' /\ Ahead'
  <2>1. \A u \in Thread : Behind(u)' = Behind(u)
    BY <1>1, <1>2 DEF ClockInv, ClockTypes, Locals, Behind
  <2>2. /\ loc[t].fixed < loc'[t].largest /\ loc'[t].largest <= largest_value
        /\ loc[t].fix <= loc'[t].fix /\ loc'[t].fix <= value_fix
        /\ loc[t].fixed <= loc[t].raw + loc'[t].fix
        /\ loc'[t].fix + loc'[t].largest >= loc[t].fixed + value_fix
    BY <1>1, <1>2, <1>5 DEF ClockInv, ClockTypes, Locals, Samples
  <2>3. Samples'
    BY <1>1, <1>2, <1>5, <2>1, <2>2 DEF ClockInv, ClockTypes, Locals, Samples
  <2>4. Ahead'
    BY <1>1, <1>2, <1>5, <2>2 DEF ClockInv, ClockTypes, Locals, Ahead
  <2>5. Apart'
    BY <1>1, <1>2, <1>5, <2>1 DEF ClockInv, ClockTypes, Locals, Apart
  <2> QED
    BY <2>3, <2>4, <2>5
<1> QED
  BY <1>1, <1>3, <1>4, <1>5 DEF ClockInv, ClockTypes, Locals, C!NotBack, Thread

LEMMA ClockAdds ==
    ASSUME ClockInv, NEW t \in Thread, C!Add(t) PROVE ClockInv' /\ C!NotBack
<1>1. /\ at[t] = "behind" /\ at' = [at EXCEPT ![t] = "raise"]
      /\ UNCHANGED <<raw, value_fix, largest_value, returned, back, raced>>
  BY DEF C!Add, C!Goto
<1>2. /\ loc' \in [Thread -> Locals] /\ \A u \in Thread \ {t} : loc'[u] = loc[u]
      /\ loc'[t].raw = loc[t].raw /\ loc'[t].fixed = loc[t].fixed
      /\ loc'[t].fix = (loc[t].fix + loc[t].largest) - loc[t].fixed
  <2>1. /\ loc \in [Thread -> Locals] /\ loc[t].fix \in Int /\ loc[t].fixed \in Int
        /\ loc[t].largest \in Int
    BY DEF ClockInv, ClockTypes, Locals
  <2>2. loc' = [loc EXCEPT ![t].fix = loc[t].fix + loc[t].largest - loc[t].fixed]
    BY DEF C!Add
  <2>3. PICK b \in Int : b = loc[t].fix + loc[t].largest - loc[t].fixed
    BY <2>1
  <2>4. loc' = [loc EXCEPT ![t].fix = b]
    BY <2>2, <2>3, Zenon
  <2>5. PICK g : g = loc'
    OBVIOUS
  <2>6. /\ g \in [Thread -> Locals] /\ \A u \in Thread \ {t} : g[u] = loc[u]
        /\ g[t].raw = loc[t].raw /\ g[t].fixed = loc[t].fixed /\ g[t].fix = b
    BY <2>1, <2>4, <2>5, SetFix
  <2> QED
    BY <2>1, <2>3, <2>5, <2>6
<1>3. ClockTypes' /\ Sums'
  BY <1>1, <1>2 DEF ClockInv, ClockTypes, Locals, Sums, Places
<1>4. ASSUME ~raced' PROVE Alone'
  <2>1. /\ ~raced /\ Alone /\ loc[t].raw \in Int /\ loc[t].fix \in Int /\ loc[t].fixed \in Int
        /\ loc[t].largest = largest_value /\ loc[t].fixed = loc[t].raw + loc[t].fix
        /\ largest_value \in Int
    BY <1>1, <1>4 DEF ClockInv, ClockTypes, Locals, Alone
  <2>2. loc'[t].raw + loc'[t].fix = largest_value
    BY <1>2, <2>1
  <2>3. \A u \in Thread \ {t} : at'[u] = "out" /\ at[u] = "out"
    BY <1>1, <2>1 DEF ClockInv, ClockTypes, Locals, Alone
  <2> QED
    BY <1>1, <1>2, <2>1, <2>2, <2>3 DEF ClockInv, ClockTypes, Locals, Alone
<1>5. ASSUME back' = 0 PROVE Samples' /\ Apart' /\ Ahead'
  <2>1. \A u \in Thread : Behind(u)' = Behind(u)
    BY <1>1, <1>2 DEF ClockInv, ClockTypes, Locals, Behind
  <2>2. /\ loc'[t].fix >= value_fix /\ Behind(t) /\ loc'[t].fix >= loc[t].fix
    BY <1>1, <1>2, <1>5 DEF ClockInv, ClockTypes, Locals, Samples, Behind
  <2>3. Samples'
    BY <1>1, <1>2, <1>5, <2>1, <2>2 DEF ClockInv, ClockTypes, Locals, Samples
  <2>4. Ahead'
    BY <1>1, <1>2, <1>5, <2>2 DEF ClockInv, ClockTypes, Locals, Ahead
  <2>5. Apart'
    BY <1>1, <1>2, <1>5, <2>1 DEF ClockInv, ClockTypes, Locals, Apart
  <2> QED
    BY <2>3, <2>4, <2>5
<1> QED
  BY <1>1, <1>3, <1>4, <1>5 DEF ClockInv, ClockTypes, Locals, C!NotBack, Thread

LEMMA ClockRaises ==
    ASSUME ClockInv, NEW t \in Thread, C!Raise(t) PROVE ClockInv' /\ C!NotBack
<1>1. /\ at[t] = "raise" /\ at' = [at EXCEPT ![t] = "return"] /\ value_fix' = loc[t].fix
      /\ UNCHANGED <<raw, largest_value, loc, returned, back, raced>>
  BY DEF C!Raise, C!Goto
<1>2. ClockTypes' /\ Sums'
  BY <1>1 DEF ClockInv, ClockTypes, Locals, Sums, Places
<1>3. ASSUME ~raced' PROVE Alone'
  BY <1>1, <1>3 DEF ClockInv, ClockTypes, Locals, Alone
<1>4. ASSUME back' = 0 PROVE Samples' /\ Apart' /\ Ahead'
  <2>1. value_fix' >= value_fix /\ Behind(t)
    BY <1>1, <1>4 DEF ClockInv, ClockTypes, Locals, Samples
  <2>2. \A u \in Thread : ~Behind(u)'
    BY <1>1, <1>4, <2>1 DEF ClockInv, ClockTypes, Locals, Apart, Behind
  <2>3. Samples' /\ Ahead'
    <3>1. \A u \in Thread \ {t} : at[u] # "behind" /\ at[u] # "raise"
      BY <1>1, <1>4, <2>1 DEF ClockInv, ClockTypes, Locals, Samples, Apart, Behind
    <3>2. Samples'
      BY <1>1, <1>4, <2>1, <2>2, <3>1 DEF ClockInv, ClockTypes, Locals, Samples, Apart
    <3>3. Ahead'
      BY <1>1, <1>4, <2>1, <2>2, <3>1 DEF ClockInv, ClockTypes, Locals, Ahead, Thread
    <3> QED
      BY <3>2, <3>3
  <2>4. Apart'
    BY <1>1, <1>4, <2>1, <2>2 DEF ClockInv, ClockTypes, Locals, Apart, Thread
  <2> QED
    BY <2>3, <2>4
<1>5. C!NotBack
  BY <1>1 DEF C!NotBack, ClockInv, ClockTypes, Locals, Thread
<1> QED
  BY <1>2, <1>3, <1>4, <1>5 DEF ClockInv

LEMMA ClockKeeps ==
    ASSUME ClockInv, NEW t \in Thread, C!Keep(t) PROVE ClockInv' /\ C!NotBack
<1>1. /\ at[t] = "keep" /\ at' = [at EXCEPT ![t] = "return"] /\ largest_value' = loc[t].fixed
      /\ loc[t].fixed = loc[t].raw + loc[t].fix
      /\ UNCHANGED <<raw, value_fix, loc, returned, back, raced>>
  BY DEF C!Keep, C!Goto, ClockInv, ClockTypes, Locals, Sums
<1>2. ClockTypes' /\ Sums'
  BY <1>1 DEF ClockInv, ClockTypes, Locals, Sums, Places
<1>3. ASSUME ~raced' PROVE Alone'
  BY <1>1, <1>3 DEF ClockInv, ClockTypes, Locals, Alone
<1>4. ASSUME back' = 0 PROVE Samples' /\ Apart' /\ Ahead'
  <2>1. ~Behind(t)' /\ loc[t].raw + loc[t].fix <= raw + value_fix
    BY <1>1, <1>4 DEF ClockInv, ClockTypes, Locals, Samples, Behind
  <2>2. ASSUME NEW u \in Thread, u # t PROVE
            /\ at[u] = "raise" => Behind(u)'
            /\ at[u] = "compare" /\ Behind(u)' => largest_value' >= loc[u].raw + value_fix
            /\ at[u] = "behind" => loc[u].largest <= largest_value'
    <3>1. CASE at[u] = "raise"
      BY <1>1, <1>4, <2>2, <3>1 DEF ClockInv, ClockTypes, Locals, Samples, Apart, Behind
    <3>2. CASE at[u] = "compare"
      BY <1>1, <1>4, <2>2, <3>2 DEF ClockInv, ClockTypes, Locals, Sums, Samples, Apart, Behind
    <3>3. CASE at[u] = "behind"
      <4>1. Behind(u)
        BY <1>1, <1>4, <2>2, <3>3 DEF ClockInv, ClockTypes, Locals, Samples, Behind
      <4>2. loc[t].fixed >= largest_value
        BY <1>1, <1>4, <2>2, <4>1 DEF ClockInv, ClockTypes, Locals, Apart, Behind
      <4> QED
        BY <1>1, <1>4, <2>2, <3>3, <4>2 DEF ClockInv, ClockTypes, Locals, Samples
    <3> QED
      BY <3>1, <3>2, <3>3
  <2>3. Samples'
    BY <1>1, <1>4, <2>1, <2>2 DEF ClockInv, ClockTypes, Locals, Samples
  <2>5. Ahead'
    BY <1>1, <1>4, <2>1, <2>2 DEF ClockInv, ClockTypes, Locals, Ahead
  <2>4. Apart'
    BY <1>1, <1>4, <2>1 DEF ClockInv, ClockTypes, Locals, Apart, Thread
  <2> QED
    BY <2>3, <2>4, <2>5
<1>5. C!NotBack
  BY <1>1 DEF C!NotBack, ClockInv, ClockTypes, Locals, Thread
<1> QED
  BY <1>2, <1>3, <1>4, <1>5 DEF ClockInv

LEMMA ClockReturns ==
    ASSUME ClockInv, NEW t \in Thread, C!Return(t) PROVE ClockInv' /\ C!NotBack
<1>1. /\ at[t] = "return" /\ at' = [at EXCEPT ![t] = "out"]
      /\ loc' = [loc EXCEPT ![t] = [raw |-> 0, fixed |-> 0, fix |-> 0, largest |-> 0]]
      /\ UNCHANGED <<raw, value_fix, largest_value, back, raced>>
  BY DEF C!Return, C!Goto, C!NoLocals
<1>2. PICK fix \in {loc[t].fix, value_fix} : returned' = [returned EXCEPT ![t] = loc[t].raw + fix]
  BY DEF C!Return
<1>3. ClockTypes' /\ Sums'
  BY <1>1, <1>2 DEF ClockInv, ClockTypes, Locals, Sums, Places
<1>4. ASSUME ~raced' PROVE Alone' /\ returned'[t] >= returned[t]
  BY <1>1, <1>2, <1>4 DEF ClockInv, ClockTypes, Locals, Alone
<1>5. ASSUME back' = 0 PROVE Samples' /\ Apart' /\ Ahead' /\ returned'[t] >= returned[t]
  <2>1. ~Behind(t)' /\ \A u \in Thread \ {t} : Behind(u)' = Behind(u)
    BY <1>1 DEF ClockInv, ClockTypes, Locals, Behind
  <2>2. Samples' /\ Ahead' /\ returned'[t] >= returned[t]
    BY <1>1, <1>2, <1>5, <2>1 DEF ClockInv, ClockTypes, Locals, Samples, Ahead
  <2>3. Apart'
    BY <1>1, <1>5, <2>1 DEF ClockInv, ClockTypes, Locals, Apart
  <2> QED
    BY <2>2, <2>3
<1>6. C!NotBack
  BY <1>1, <1>2, <1>4, <1>5 DEF C!NotBack, ClockInv, ClockTypes, Locals, Thread
<1> QED
  BY <1>3, <1>4, <1>5, <1>6 DEF ClockInv

LEMMA ClockStep == ASSUME ClockInv, [C!Next]_clock PROVE ClockInv' /\ [C!NotBack]_clock
<1>1. CASE UNCHANGED clock
  BY <1>1 DEF clock, ClockInv, ClockTypes, Locals, Sums, Alone, Samples, Apart, Ahead, Behind
<1>2. CASE C!SystemTick \/ C!SetBack
  BY <1>2, ClockTicks
<1>3. CASE \E t \in Thread :
              \/ C!Sample(t) \/ C!Fix(t) \/ C!Compare(t)
              \/ C!Reload(t) \/ C!Add(t) \/ C!Raise(t) \/ C!Keep(t) \/ C!Return(t)
  BY <1>3, ClockSamples, ClockFixes, ClockCompares, ClockReloads, ClockAdds, ClockRaises,
     ClockKeeps, ClockReturns
<1> QED
  BY <1>1, <1>2, <1>3 DEF C!Next, C!Thread, Thread

LEMMA ClockInvAlways == MCSpec => []ClockInv
<1>1. MCInit => ClockInv
  BY ClockInit, ClockEndedInv DEF MCInit
<1>2. ClockInv /\ [MCNext]_all => ClockInv'
  BY ClockMoves, ClockStep
<1> QED
  BY <1>1, <1>2, PTL DEF MCSpec

\* The time get_current_time_us gives the event loop never goes back, however
\* often the system clock is set back and however the two threads' accesses of
\* value_fix and largest_value interleave, unless both happen: so that
\* lru_collector_t's assert on the order of times holds.
THEOREM ClockMonotoneAlways == MCSpec => ClockMonotone
<1>1. ClockInv /\ [MCNext]_all => [C!NotBack]_clock
  BY ClockMoves, ClockStep
<1> QED
  BY <1>1, ClockInvAlways, PTL DEF MCSpec, ClockMonotone

-----------------------------------------------------------------------------
(* The next hop: find_lower_level_info finds what the routing table means. *)

LEMMA NatMin ==
    ASSUME NEW T \in SUBSET Nat, T # {}
    PROVE  \E x \in T : \A y \in T : x <= y
<1>1. PICK x \in T : \A y \in T : ~(<<y, x>> \in OpToRel(<, Nat))
  BY NatLessThanWellFounded, WFMin
<1>2. \A y \in T : ~(y < x)
  BY <1>1 DEF OpToRel
<1> QED
  BY <1>2

\* Every string: the provers do not know that a literal is one.
Name == STRING \cup {"eth0", "tun0", "h1", "h2", "h3"}
Route == {r \in [dest : R!Address, size : Blocks, via : {R!direct} \cup R!Address, if : Name] :
              r.dest % r.size = 0}

LEMMA SameCardinality == \A S : R!Cardinality(S) = Cardinality(S)
  BY DEF R!Cardinality, Cardinality

\* Two addresses agree under a mask if they are in the same block.
LEMMA NetCovers ==
    ASSUME NEW r \in Route, NEW x \in R!Address
    PROVE  R!Net(r.dest, r.size) = R!Net(x, r.size) <=> R!Covers(r, x)
<1>1. /\ r.dest \in Int /\ x \in Int /\ r.size \in Nat /\ r.size > 0 /\ r.dest % r.size = 0
  <2>1. r.dest \in R!Address /\ r.size \in Blocks /\ r.dest % r.size = 0
    BY DEF Route
  <2>2. r.size \in Nat /\ r.size > 0
    <3>1. \A s \in Blocks : s \in Nat /\ s > 0
      BY RouteAssumption
    <3> QED
      BY <2>1, <3>1
  <2>3. r.dest \in Int /\ x \in Int
    BY <2>1, RouteAssumption DEF R!Address
  <2> QED
    BY <2>1, <2>2, <2>3
<1>2. \A m \in Nat, d, p \in Int : m > 0 /\ d % m = 0 =>
          (d \div m = p \div m <=> p - d \in 0 .. m - 1)
  OBVIOUS
<1> QED
  BY <1>1, <1>2 DEF R!Net, R!Covers

\* find_route_entry returns the most specific routes for the address.
LEMMA EntryIsBest ==
    ASSUME NEW routes \in Seq(Route), NEW x \in R!Address
    PROVE  R!find_route_entry(routes, x) =
               {j \in DOMAIN routes :
                   /\ R!Covers(routes[j], x)
                   /\ \A k \in DOMAIN routes :
                         R!Covers(routes[k], x) => routes[j].size <= routes[k].size}
<1> DEFINE Hit == {size \in Blocks : R!Matches(routes, x, size) # {}}
<1>1. \A j \in DOMAIN routes : routes[j] \in Route /\ routes[j].size \in Blocks
  BY DEF Route
<1>2. \A s : \A j : j \in R!Matches(routes, x, s) <=>
          j \in DOMAIN routes /\ routes[j].size = s /\ R!Covers(routes[j], x)
  BY <1>1, NetCovers DEF R!Matches
<1>3. CASE Hit = {}
  <2>1. \A j \in DOMAIN routes : ~R!Covers(routes[j], x)
    BY <1>1, <1>2, <1>3
  <2>2. R!find_route_entry(routes, x) = {}
    BY <1>3 DEF R!find_route_entry
  <2> QED
    BY <2>1, <2>2
<1>4. CASE Hit # {}
  <2>1. Hit \subseteq Nat
    BY RouteAssumption
  <2>2. \E s \in Hit : \A g \in Hit : s <= g
    BY <1>4, <2>1, NatMin
  <2>3. PICK s : s = CHOOSE h \in Hit : \A g \in Hit : h <= g
    OBVIOUS
  <2>4. s \in Hit /\ \A g \in Hit : s <= g
    BY <2>2, <2>3
  <2>5. R!find_route_entry(routes, x) = R!Matches(routes, x, s)
    BY <1>4, <2>3 DEF R!find_route_entry
  <2>6. \A k \in DOMAIN routes : R!Covers(routes[k], x) => routes[k].size \in Hit
    BY <1>1, <1>2
  <2>7. PICK i \in DOMAIN routes : routes[i].size = s /\ R!Covers(routes[i], x)
    BY <1>2, <2>4
  <2>8. ASSUME NEW j PROVE
            j \in R!Matches(routes, x, s) <=>
              /\ j \in DOMAIN routes /\ R!Covers(routes[j], x)
              /\ \A k \in DOMAIN routes :
                    R!Covers(routes[k], x) => routes[j].size <= routes[k].size
    <3>1. ASSUME j \in R!Matches(routes, x, s) PROVE
              /\ j \in DOMAIN routes /\ R!Covers(routes[j], x)
              /\ \A k \in DOMAIN routes :
                    R!Covers(routes[k], x) => routes[j].size <= routes[k].size
      BY <3>1, <1>2, <2>4, <2>6
    <3>2. ASSUME j \in DOMAIN routes, R!Covers(routes[j], x),
                 \A k \in DOMAIN routes :
                    R!Covers(routes[k], x) => routes[j].size <= routes[k].size
          PROVE  j \in R!Matches(routes, x, s)
      <4>1. routes[j].size <= s /\ s <= routes[j].size /\ s \in Nat /\ routes[j].size \in Nat
        BY <3>2, <1>1, <2>1, <2>4, <2>6, <2>7
      <4> QED
        BY <3>2, <4>1, <1>2
    <3> QED
      BY <3>1, <3>2
  <2> QED
    BY <2>5, <2>8
<1> QED
  BY <1>3, <1>4

\* It returns exactly one route where one is the best.
LEMMA OneEntry ==
    ASSUME NEW routes \in Seq(Route), NEW x \in R!Address
    PROVE  /\ \A j \in DOMAIN routes :
                 R!Best(routes, x, j) => R!find_route_entry(routes, x) = {j}
           /\ Cardinality(R!find_route_entry(routes, x)) = 1 =>
                 \E j \in DOMAIN routes : R!Best(routes, x, j)
<1> DEFINE res == R!find_route_entry(routes, x)
<1>1. \A j : j \in res <=>
          /\ j \in DOMAIN routes /\ R!Covers(routes[j], x)
          /\ \A k \in DOMAIN routes : R!Covers(routes[k], x) => routes[j].size <= routes[k].size
  BY EntryIsBest
<1>2. \A j \in DOMAIN routes : routes[j].size \in Nat
  <2>1. \A j \in DOMAIN routes : routes[j] \in Route
    OBVIOUS
  <2>2. \A j \in DOMAIN routes : routes[j].size \in Blocks
    BY <2>1 DEF Route
  <2> QED
    BY <2>2, RouteAssumption
<1> HIDE DEF res
<1>3. ASSUME NEW j \in DOMAIN routes, R!Best(routes, x, j) PROVE res = {j}
  <2>1. j \in res
    BY <1>1, <1>2, <1>3 DEF R!Best
  <2>2. ASSUME NEW k \in res, k # j PROVE FALSE
    BY <1>1, <1>2, <1>3, <2>2 DEF R!Best
  <2> QED
    BY <2>1, <2>2
<1>4. ASSUME Cardinality(res) = 1 PROVE \E j \in DOMAIN routes : R!Best(routes, x, j)
  <2>1. IsFiniteSet(DOMAIN routes)
    BY FS_Interval, LenProperties
  <2>2. IsFiniteSet(res)
    BY <1>1, <2>1, FS_Subset
  <2>3. PICK j : res = {j}
    BY <1>4, <2>2, FS_Singleton
  <2>4. j \in DOMAIN routes /\ R!Covers(routes[j], x)
    BY <1>1, <2>3
  <2>5. ASSUME NEW k \in DOMAIN routes \ {j}, R!Covers(routes[k], x)
        PROVE  routes[k].size > routes[j].size
    <3>1. routes[j].size <= routes[k].size
      BY <1>1, <2>3, <2>5
    <3>2. PICK i \in DOMAIN routes : R!Covers(routes[i], x) /\ routes[i].size < routes[k].size
      BY <1>1, <1>2, <2>3, <2>5
    <3>3. routes[j].size <= routes[i].size
      BY <1>1, <2>3, <3>2
    <3> QED
      BY <1>2, <2>4, <3>2, <3>3
  <2> QED
    BY <2>4, <2>5 DEF R!Best
<1> QED
  BY <1>3, <1>4 DEF res

\* Hence only one route can be the best.
LEMMA BestUnique ==
    ASSUME NEW routes \in Seq(Route), NEW x \in R!Address,
           NEW j \in DOMAIN routes, NEW k \in DOMAIN routes,
           R!Best(routes, x, j), R!Best(routes, x, k)
    PROVE  j = k
  BY OneEntry

\* What the lookups find, one after the other.
Searches(f, routes) ==
    \A x \in R!Address :
        /\ f[0][x] = << >>
        /\ \A n \in 1 .. max_hops :
              /\ (\A j \in DOMAIN routes : ~R!Best(routes, x, j)) => f[n][x] = << >>
              /\ \A j \in DOMAIN routes : R!Best(routes, x, j) =>
                    f[n][x] = IF routes[j].via = R!direct THEN <<x, routes[j].if>>
                              ELSE f[n - 1][routes[j].via]

\* The recursive function of find_direct_dest exists: were there a least n up to
\* which it does not, it could be extended from n - 1.
LEMMA SearchExists ==
    ASSUME NEW routes, NEW s, s = R!search(routes)
    PROVE  /\ s[0] = [x \in R!Address |-> << >>]
           /\ \A n \in 1 .. max_hops : s[n] = R!lookup(routes, s[n - 1])
<1> DEFINE none == [x \in R!Address |-> << >>]
           upto(g, m) == g = [n \in 0 .. m |-> IF n = 0 THEN none ELSE R!lookup(routes, g[n - 1])]
           Bad == {m \in Nat : ~\E g : upto(g, m)}
<1>1. Bad = {}
  <2>1. SUFFICES ASSUME Bad # {} PROVE FALSE
    OBVIOUS
  <2>2. PICK m \in Bad : \A y \in Bad : m <= y
    BY <2>1, NatMin
  <2>3. CASE m = 0
    <3>1. upto([n \in 0 .. 0 |-> none], 0)
      OBVIOUS
    <3> QED
      BY <2>3, <3>1
  <2>4. CASE m # 0
    <3>1. m - 1 \in Nat /\ ~(m - 1 \in Bad)
      <4>1. m \in Nat
        OBVIOUS
      <4>2. m - 1 \in Nat /\ ~(m <= m - 1)
        BY <2>4, <4>1
      <4> HIDE DEF Bad
      <4> QED
        BY <2>2, <4>2
    <3>2. PICK g : upto(g, m - 1)
      BY <3>1
    <3> DEFINE h == [n \in 0 .. m |-> IF n = m THEN R!lookup(routes, g[m - 1]) ELSE g[n]]
    <3>3. \A n \in 0 .. m - 1 : g[n] = IF n = 0 THEN none ELSE R!lookup(routes, g[n - 1])
      BY <3>2
    <3>4. \A n \in 0 .. m : h[n] = IF n = 0 THEN none ELSE R!lookup(routes, h[n - 1])
      <4>1. TAKE n \in 0 .. m
      <4>2. CASE n = m
        <5>1. h[n] = R!lookup(routes, g[m - 1]) /\ h[n - 1] = g[m - 1] /\ n # 0
          BY <3>1, <2>4, <4>2
        <5> QED
          BY <5>1, <4>2
      <4>3. CASE n # m
        <5>1. n \in 0 .. m - 1 /\ h[n] = g[n]
          BY <4>3
        <5>2. n # 0 => h[n - 1] = g[n - 1]
          BY <4>3
        <5> QED
          BY <3>3, <5>1, <5>2
      <4> QED
        BY <4>2, <4>3
    <3> HIDE DEF none
    <3>5. h = [n \in 0 .. m |-> h[n]]
      OBVIOUS
    <3>6. upto(h, m)
      BY <3>4, <3>5, Zenon
    <3> QED
      BY <2>2, <3>6
  <2> QED
    BY <2>3, <2>4
<1>2. \E g : upto(g, max_hops)
  BY <1>1, RouteAssumption
<1>3. s = CHOOSE g : upto(g, max_hops)
  BY Zenon DEF R!search
<1>4. upto(s, max_hops)
  BY <1>2, <1>3
<1>5. \A n \in 0 .. max_hops : s[n] = IF n = 0 THEN none ELSE R!lookup(routes, s[n - 1])
  BY <1>4
<1> QED
  BY <1>5, RouteAssumption

LEMMA SearchSearches ==
    ASSUME NEW routes \in Seq(Route) PROVE Searches(R!search(routes), routes)
<1>1. PICK s : s = R!search(routes)
  OBVIOUS
<1>2. /\ s[0] = [x \in R!Address |-> << >>]
      /\ \A n \in 1 .. max_hops : s[n] = R!lookup(routes, s[n - 1])
  BY <1>1, SearchExists
<1>3. ASSUME NEW x \in R!Address, NEW n \in 1 .. max_hops
      PROVE  /\ (\A j \in DOMAIN routes : ~R!Best(routes, x, j)) => s[n][x] = << >>
             /\ \A j \in DOMAIN routes : R!Best(routes, x, j) =>
                   s[n][x] = IF routes[j].via = R!direct THEN <<x, routes[j].if>>
                             ELSE s[n - 1][routes[j].via]
  <2> DEFINE res == R!find_route_entry(routes, x)
             r   == routes[CHOOSE j \in res : TRUE]
  <2>1. s[n][x] = IF Cardinality(res) # 1 THEN << >>
                  ELSE IF r.via = R!direct THEN <<x, r.if>> ELSE s[n - 1][r.via]
    <3>1. s[n] = R!lookup(routes, s[n - 1])
      BY <1>2
    <3>2. PICK left : left = s[n - 1]
      OBVIOUS
    <3>3. R!lookup(routes, left)[x] =
              IF Cardinality(res) # 1 THEN << >>
              ELSE IF r.via = R!direct THEN <<x, r.if>> ELSE left[r.via]
      BY SameCardinality DEF R!lookup
    <3> QED
      BY <3>1, <3>2, <3>3
  <2>2. (\A j \in DOMAIN routes : ~R!Best(routes, x, j)) => Cardinality(res) # 1
    BY OneEntry
  <2>3. ASSUME NEW j \in DOMAIN routes, R!Best(routes, x, j)
        PROVE  Cardinality(res) = 1 /\ r = routes[j]
    <3>1. res = {j}
      BY <2>3, OneEntry
    <3>2. (CHOOSE i \in {j} : TRUE) = j
      OBVIOUS
    <3> QED
      BY <3>1, <3>2, FS_Singleton
  <2> HIDE DEF res, r
  <2> QED
    BY <2>1, <2>2, <2>3
<1> QED
  BY <1>1, <1>2, <1>3 DEF Searches

LEMMA SearchAt ==
    ASSUME NEW routes, NEW f, Searches(f, routes), NEW x \in R!Address, NEW n \in 1 .. max_hops,
           NEW j \in DOMAIN routes, R!Best(routes, x, j)
    PROVE  f[n][x] = IF routes[j].via = R!direct THEN <<x, routes[j].if>>
                     ELSE f[n - 1][routes[j].via]
  BY DEF Searches

\* More lookups than are needed change nothing.
LEMMA SearchStable ==
    ASSUME NEW routes \in Seq(Route), NEW f, Searches(f, routes)
    PROVE  \A n, m \in 0 .. max_hops : \A x \in R!Address :
               n <= m /\ f[n][x] # << >> => f[m][x] = f[n][x]
<1> DEFINE Bad == {n \in Nat : n < max_hops /\ \E x \in R!Address :
                                  f[n][x] # << >> /\ f[n + 1][x] # f[n][x]}
<1>1. Bad = {}
  <2>1. SUFFICES ASSUME Bad # {} PROVE FALSE
    OBVIOUS
  <2>2. PICK n \in Bad : \A k \in Bad : n <= k
    BY <2>1, NatMin
  <2>3. PICK x \in R!Address : f[n][x] # << >> /\ f[n + 1][x] # f[n][x]
    OBVIOUS
  <2>4. n \in Nat /\ n < max_hops /\ n + 1 \in 1 .. max_hops
    BY RouteAssumption
  <2>5. n # 0
    BY <2>3 DEF Searches
  <2>6. /\ n \in 1 .. max_hops /\ n - 1 \in Nat /\ n - 1 < max_hops
        /\ (n - 1) + 1 = n /\ (n + 1) - 1 = n
        /\ ~(n <= n - 1)
    BY <2>4, <2>5, RouteAssumption
  <2>7. PICK j \in DOMAIN routes : R!Best(routes, x, j)
    BY <2>3, <2>6 DEF Searches
  <2>8. routes[j].via # R!direct
    <3>1. /\ f[n][x] = IF routes[j].via = R!direct THEN <<x, routes[j].if>>
                       ELSE f[n - 1][routes[j].via]
          /\ f[n + 1][x] = IF routes[j].via = R!direct THEN <<x, routes[j].if>>
                           ELSE f[(n + 1) - 1][routes[j].via]
      BY <2>4, <2>6, <2>7, SearchAt
    <3> QED
      BY <2>3, <3>1
  <2>9. f[n][x] = f[n - 1][routes[j].via] /\ f[n + 1][x] = f[n][routes[j].via]
    <3>1. /\ f[n][x] = IF routes[j].via = R!direct THEN <<x, routes[j].if>>
                       ELSE f[n - 1][routes[j].via]
          /\ f[n + 1][x] = IF routes[j].via = R!direct THEN <<x, routes[j].if>>
                           ELSE f[(n + 1) - 1][routes[j].via]
      BY <2>4, <2>6, <2>7, SearchAt
    <3> QED
      BY <2>6, <2>8, <3>1
  <2>10. routes[j].via \in R!Address
    <3>1. routes[j] \in Route
      OBVIOUS
    <3> QED
      BY <2>8, <3>1 DEF Route
  <2>11. n - 1 \in Bad
    BY <2>3, <2>6, <2>9, <2>10
  <2> HIDE DEF Bad
  <2> QED
    BY <2>2, <2>6, <2>11
<1>2. ASSUME NEW n \in 0 .. max_hops, NEW x \in R!Address, f[n][x] # << >>
      PROVE  \A m \in 0 .. max_hops : n <= m => f[m][x] = f[n][x]
  <2> DEFINE Off == {m \in Nat : n <= m /\ m <= max_hops /\ f[m][x] # f[n][x]}
  <2>1. SUFFICES ASSUME Off # {} PROVE FALSE
    BY RouteAssumption
  <2>2. PICK m \in Off : \A k \in Off : m <= k
    BY <2>1, NatMin
  <2>3. m \in Nat /\ n \in Nat /\ n <= m /\ m <= max_hops /\ f[m][x] # f[n][x]
    BY RouteAssumption
  <2>4. n < m /\ m - 1 \in Nat /\ n <= m - 1 /\ m - 1 < max_hops /\ (m - 1) + 1 = m /\ ~(m <= m - 1)
    BY <2>3, RouteAssumption
  <2>5. f[m - 1][x] = f[n][x]
    <3>1. SUFFICES ASSUME f[m - 1][x] # f[n][x] PROVE FALSE
      OBVIOUS
    <3>2. m - 1 \in Off
      BY <2>3, <2>4, <3>1, RouteAssumption
    <3> HIDE DEF Off
    <3> QED
      BY <2>2, <2>4, <3>2
  <2>6. m - 1 \in Bad
    BY <1>2, <2>3, <2>4, <2>5
  <2> QED
    BY <1>1, <2>6
<1> QED
  BY <1>2

\* What is found is an attached address on the way.
LEMMA OnTheWayStep ==
    ASSUME NEW routes, NEW x \in R!Address, NEW j \in DOMAIN routes, R!Best(routes, x, j),
           routes[j].via \in R!Address
    PROVE  R!OnTheWay(routes, routes[j].via) \subseteq R!OnTheWay(routes, x)
<1>1. <<x, routes[j].via>> \in R!Forward(routes)
  BY DEF R!Forward
<1>2. ASSUME NEW y \in R!OnTheWay(routes, routes[j].via) PROVE y \in R!OnTheWay(routes, x)
  <2>1. ASSUME NEW S \in SUBSET R!Address, x \in S,
               \A p \in R!Forward(routes) : p[1] \in S => p[2] \in S
        PROVE  y \in S
    <3>1. routes[j].via \in S
      BY <1>1, <2>1
    <3> QED
      BY <1>2, <2>1, <3>1 DEF R!OnTheWay
  <2>2. y \in R!Address
    BY <1>2 DEF R!OnTheWay
  <2> QED
    BY <2>1, <2>2 DEF R!OnTheWay
<1> QED
  BY <1>2

IsEnd(routes, x, e) ==
    /\ e = <<e[1], e[2]>> /\ e[1] \in R!OnTheWay(routes, x) /\ e[2] \in R!Interfaces(routes)
    /\ R!Attached(routes, e[1], e[2])

LEMMA SearchSound ==
    ASSUME NEW routes \in Seq(Route), NEW f, Searches(f, routes)
    PROVE  \A n \in 0 .. max_hops : \A x \in R!Address :
               f[n][x] # << >> => IsEnd(routes, x, f[n][x])
<1> DEFINE Bad == {n \in Nat : n <= max_hops /\ \E x \in R!Address :
                                  f[n][x] # << >> /\ ~IsEnd(routes, x, f[n][x])}
<1>1. SUFFICES ASSUME Bad # {} PROVE FALSE
  BY RouteAssumption
<1>2. PICK n \in Bad : \A k \in Bad : n <= k
  BY <1>1, NatMin
<1>3. PICK x \in R!Address : f[n][x] # << >> /\ ~IsEnd(routes, x, f[n][x])
  OBVIOUS
<1>4. n \in Nat /\ n <= max_hops /\ n # 0
  BY <1>3 DEF Searches
<1>5. n \in 1 .. max_hops /\ n - 1 \in Nat /\ n - 1 <= max_hops /\ ~(n <= n - 1)
  BY <1>4, RouteAssumption
<1>6. PICK j \in DOMAIN routes : R!Best(routes, x, j)
  BY <1>3, <1>5 DEF Searches
<1>7. CASE routes[j].via = R!direct
  <2>1. PICK e : e = f[n][x]
    OBVIOUS
  <2>2. e = <<x, routes[j].if>>
    BY <1>5, <1>6, <1>7, <2>1 DEF Searches
  <2>3. x \in R!OnTheWay(routes, x) /\ routes[j].if \in R!Interfaces(routes)
    BY DEF R!OnTheWay, R!Interfaces
  <2>4. R!Attached(routes, x, routes[j].if)
    BY <1>6, <1>7 DEF R!Attached
  <2>5. e[1] = x /\ e[2] = routes[j].if
    BY <2>2
  <2> QED
    BY <1>3, <2>1, <2>2, <2>3, <2>4, <2>5 DEF IsEnd
<1>8. CASE routes[j].via # R!direct
  <2>1. routes[j].via \in R!Address
    <3>1. routes[j] \in Route
      OBVIOUS
    <3> QED
      BY <1>8, <3>1 DEF Route
  <2>2. f[n][x] = f[n - 1][routes[j].via]
    BY <1>5, <1>6, <1>8 DEF Searches
  <2>3. IsEnd(routes, routes[j].via, f[n - 1][routes[j].via])
    BY <1>2, <1>3, <1>5, <2>1, <2>2
  <2>4. IsEnd(routes, x, f[n - 1][routes[j].via])
    BY <1>6, <2>1, <2>3, OnTheWayStep DEF IsEnd
  <2> QED
    BY <1>3, <2>2, <2>4
<1> QED
  BY <1>7, <1>8

\* If a search ends it ends within as many lookups as there are routes: the
\* lookups before the last ones all use routes of their own.
Found(f, x, n) == f[n][x] # << >>
Level(f, x, n) == Found(f, x, n) /\ ~Found(f, x, n - 1)

LEMMA LevelsBelow ==
    ASSUME NEW routes \in Seq(Route), NEW f, Searches(f, routes),
           NEW n \in 1 .. max_hops, NEW x \in R!Address, Level(f, x, n)
    PROVE  \A k \in 1 .. n : \E y \in R!Address : Level(f, y, k)
<1> DEFINE Bad == {d \in Nat : d < n /\ ~\E y \in R!Address : Level(f, y, n - d)}
<1>1. Bad = {}
  <2>1. SUFFICES ASSUME Bad # {} PROVE FALSE
    OBVIOUS
  <2>2. PICK d \in Bad : \A k \in Bad : d <= k
    BY <2>1, NatMin
  <2>3. d \in Nat /\ d < n /\ ~\E y \in R!Address : Level(f, y, n - d)
    OBVIOUS
  <2>4. d # 0
    BY <2>3
  <2>5. d - 1 \in Nat /\ d - 1 < n /\ ~(d <= d - 1)
    BY <2>3, <2>4
  <2>6. d - 1 \notin Bad
    <3> HIDE DEF Bad
    <3> QED
      BY <2>2, <2>5
  <2>7. PICK y \in R!Address : Level(f, y, n - (d - 1))
    BY <2>5, <2>6
  <2>8. PICK m \in 2 .. max_hops : m = n - (d - 1)
    BY <2>3, <2>5, RouteAssumption
  <2>9. /\ m - 1 \in 1 .. max_hops /\ (m - 1) - 1 \in 0 .. max_hops /\ m \in 1 .. max_hops
        /\ m - 1 = n - d
    BY <2>3, <2>5, <2>8, RouteAssumption
  <2>10. f[m][y] # << >> /\ f[m - 1][y] = << >>
    BY <2>7, <2>8 DEF Level, Found
  <2>11. PICK j \in DOMAIN routes : R!Best(routes, y, j)
    BY <2>9, <2>10 DEF Searches
  <2>12. /\ f[m][y] = IF routes[j].via = R!direct THEN <<y, routes[j].if>>
                      ELSE f[m - 1][routes[j].via]
         /\ f[m - 1][y] = IF routes[j].via = R!direct THEN <<y, routes[j].if>>
                          ELSE f[(m - 1) - 1][routes[j].via]
    BY <2>9, <2>11, SearchAt
  <2>13. routes[j].via # R!direct
    BY <2>10, <2>12
  <2>14. routes[j].via \in R!Address
    <3>1. routes[j] \in Route
      OBVIOUS
    <3> QED
      BY <2>13, <3>1 DEF Route
  <2>15. Level(f, routes[j].via, m - 1)
    BY <2>10, <2>12, <2>13 DEF Level, Found
  <2> QED
    BY <2>3, <2>9, <2>14, <2>15
<1>2. ASSUME NEW k \in 1 .. n PROVE \E y \in R!Address : Level(f, y, k)
  <2>1. n - k \in Nat /\ n - k < n /\ n - (n - k) = k
    BY RouteAssumption
  <2> QED
    BY <1>1, <2>1
<1> QED
  BY <1>2

LEMMA LevelBounded ==
    ASSUME NEW routes \in Seq(Route), NEW f, Searches(f, routes),
           NEW n \in 1 .. max_hops, NEW x \in R!Address, Level(f, x, n)
    PROVE  n <= Len(routes)
<1> DEFINE Uses(k, j) == \E y \in R!Address : Level(f, y, k) /\ R!Best(routes, y, j)
           used == [k \in 1 .. n |-> CHOOSE j \in DOMAIN routes : Uses(k, j)]
<1>1. ASSUME NEW k \in 1 .. n PROVE \E j \in DOMAIN routes : Uses(k, j)
  <2>1. PICK y \in R!Address : Level(f, y, k)
    BY LevelsBelow
  <2>2. k \in 1 .. max_hops /\ f[k][y] # << >>
    BY <2>1, RouteAssumption DEF Level, Found
  <2>3. PICK j \in DOMAIN routes : R!Best(routes, y, j)
    BY <2>2 DEF Searches
  <2> QED
    BY <2>1, <2>3
<1>2. ASSUME NEW k \in 1 .. n PROVE used[k] \in DOMAIN routes /\ Uses(k, used[k])
  <2> HIDE DEF Uses
  <2> QED
    BY <1>1, <1>2
<1>3. ASSUME NEW k \in 1 .. n, NEW l \in 1 .. n, k < l, used[k] = used[l] PROVE FALSE
  <2> DEFINE j == used[k]
  <2>1. j \in DOMAIN routes /\ Uses(k, j) /\ Uses(l, j)
    BY <1>2, <1>3
  <2> HIDE DEF used
  <2>2. PICK y \in R!Address : Level(f, y, k) /\ R!Best(routes, y, j)
    BY <2>1
  <2>3. PICK z \in R!Address : Level(f, z, l) /\ R!Best(routes, z, j)
    BY <2>1
  <2>4. k \in 1 .. max_hops /\ l - 1 \in 1 .. max_hops /\ k <= l - 1 /\ k \in 0 .. max_hops
        /\ l - 1 \in 0 .. max_hops
    BY <1>3, RouteAssumption
  <2>5. f[l - 1][y] # << >>
    BY <2>2, <2>4, SearchStable DEF Level, Found
  <2>6. /\ f[l - 1][y] = IF routes[j].via = R!direct THEN <<y, routes[j].if>>
                         ELSE f[(l - 1) - 1][routes[j].via]
        /\ f[l - 1][z] = IF routes[j].via = R!direct THEN <<z, routes[j].if>>
                         ELSE f[(l - 1) - 1][routes[j].via]
    BY <2>1, <2>2, <2>3, <2>4, SearchAt
  <2>7. f[l - 1][z] # << >>
    BY <2>5, <2>6
  <2> QED
    BY <2>3, <2>7 DEF Level, Found
<1>4. used \in Injection(1 .. n, DOMAIN routes)
  <2>1. used \in [1 .. n -> DOMAIN routes]
    BY <1>2
  <2>2. ASSUME NEW k \in 1 .. n, NEW l \in 1 .. n, used[k] = used[l] PROVE k = l
    <3> HIDE DEF used
    <3>1. k < l \/ l < k \/ k = l
      BY RouteAssumption
    <3> QED
      BY <1>3, <2>2, <3>1
  <2> QED
    BY <2>1, <2>2 DEF Injection, IsInjective
<1>5. /\ IsFiniteSet(DOMAIN routes) /\ Cardinality(DOMAIN routes) = Len(routes)
      /\ Cardinality(1 .. n) = n
  <2>1. DOMAIN routes = 1 .. Len(routes) /\ Len(routes) \in Nat /\ n \in Nat /\ 1 <= n
    BY LenProperties, RouteAssumption
  <2>2. ASSUME NEW m \in Nat PROVE IsFiniteSet(1 .. m) /\ Cardinality(1 .. m) = m
    <3>1. /\ IsFiniteSet(1 .. m)
          /\ Cardinality(1 .. m) = IF 1 > m THEN 0 ELSE (m - 1) + 1
      BY FS_Interval
    <3> QED
      BY <3>1
  <2> QED
    BY <2>1, <2>2
<1>6. Cardinality(1 .. n) <= Cardinality(DOMAIN routes)
  BY <1>4, <1>5, FS_Injection
<1> QED
  BY <1>5, <1>6

\* From the routes one search per route is enough, and one more.
LEMMA SearchEarly ==
    ASSUME NEW routes \in Seq(Route), NEW f, Searches(f, routes), Len(routes) < max_hops,
           NEW x \in R!Address, f[max_hops][x] # << >>
    PROVE  f[Len(routes)][x] = f[max_hops][x]
<1> DEFINE Ends == {n \in Nat : n <= max_hops /\ f[n][x] # << >>}
<1>1. max_hops \in Ends
  BY RouteAssumption
<1>2. PICK n \in Ends : \A k \in Ends : n <= k
  BY <1>1, NatMin
<1>3. n \in Nat /\ n <= max_hops /\ f[n][x] # << >>
  OBVIOUS
<1>4. n \in 1 .. max_hops /\ n - 1 \in Nat /\ n - 1 <= max_hops /\ ~(n <= n - 1)
  <2>1. n # 0
    BY <1>3 DEF Searches
  <2> QED
    BY <1>3, <2>1, RouteAssumption
<1>5. n - 1 \notin Ends
  <2> HIDE DEF Ends
  <2> QED
    BY <1>2, <1>4
<1>6. Level(f, x, n)
  BY <1>3, <1>4, <1>5 DEF Level, Found
<1>7. n <= Len(routes)
  BY <1>4, <1>6, LevelBounded
<1>8. n \in 0 .. max_hops /\ Len(routes) \in 0 .. max_hops /\ max_hops \in 0 .. max_hops
      /\ Len(routes) <= max_hops
  BY <1>4, LenProperties, RouteAssumption
<1>9. f[Len(routes)][x] = f[n][x] /\ f[max_hops][x] = f[n][x]
  BY <1>3, <1>4, <1>7, <1>8, SearchStable
<1> QED
  BY <1>9

\* The end of the way from an address is found.
LEMMA SearchComplete ==
    ASSUME NEW routes \in Seq(Route), NEW f, Searches(f, routes), Len(routes) < max_hops,
           NEW x \in R!Address, NEW e, IsEnd(routes, x, e)
    PROVE  f[max_hops][x] = e
<1> DEFINE Lost == {y \in R!Address : f[max_hops][y] # e}
<1>1. Len(routes) \in Nat /\ max_hops \in 1 .. max_hops /\ 1 \in 1 .. max_hops
      /\ {0, 1, Len(routes), Len(routes) + 1, max_hops} \subseteq 0 .. max_hops
      /\ Len(routes) + 1 \in 1 .. max_hops /\ (Len(routes) + 1) - 1 = Len(routes)
      /\ Len(routes) + 1 <= max_hops
  BY LenProperties, RouteAssumption
<1>2. e[1] \in R!Address /\ e # << >>
  BY DEF IsEnd, R!OnTheWay
<1>3. e[1] \notin Lost
  <2>1. PICK j \in DOMAIN routes :
            R!Best(routes, e[1], j) /\ routes[j].via = R!direct /\ routes[j].if = e[2]
    BY DEF IsEnd, R!Attached
  <2>2. f[1][e[1]] = <<e[1], routes[j].if>>
    <3>1. PICK y \in R!Address : y = e[1]
      BY <1>2
    <3>2. PICK n \in 1 .. max_hops : n = 1
      BY <1>1
    <3>3. R!Best(routes, y, j)
      BY <2>1, <3>1
    <3>4. f[n][y] = IF routes[j].via = R!direct THEN <<y, routes[j].if>>
                    ELSE f[n - 1][routes[j].via]
      BY <3>3, SearchAt
    <3> QED
      BY <2>1, <3>1, <3>2, <3>4
  <2>3. f[1][e[1]] = e
    BY <2>1, <2>2 DEF IsEnd
  <2>4. f[max_hops][e[1]] = e
    BY <1>1, <1>2, <2>3, SearchStable
  <2> QED
    BY <2>4
<1>4. ASSUME NEW p \in R!Forward(routes), p[1] \in Lost PROVE p[2] \in Lost
  <2>1. PICK j \in DOMAIN routes : R!Best(routes, p[1], j) /\ routes[j].via = p[2]
    BY <1>4 DEF R!Forward
  <2>2. p[1] \in R!Address /\ p[2] \in R!Address /\ p[2] # R!direct
    BY RouteAssumption DEF R!Forward, R!Address, R!direct
  <2>3. SUFFICES ASSUME f[max_hops][p[2]] = e PROVE FALSE
    BY <2>2
  <2>4. f[Len(routes)][p[2]] = e
    BY <1>2, <2>2, <2>3, SearchEarly
  <2>5. f[Len(routes) + 1][p[1]] = e
    <3>1. PICK y \in R!Address : y = p[1]
      BY <2>2
    <3>2. PICK n \in 1 .. max_hops : n = Len(routes) + 1 /\ n - 1 = Len(routes)
      BY <1>1
    <3>3. f[n][y] = IF routes[j].via = R!direct THEN <<y, routes[j].if>>
                    ELSE f[n - 1][routes[j].via]
      BY <2>1, <3>1, SearchAt
    <3> QED
      BY <2>1, <2>2, <2>4, <3>1, <3>2, <3>3
  <2>6. f[max_hops][p[1]] = e
    BY <1>1, <1>2, <2>2, <2>5, SearchStable
  <2> QED
    BY <1>4, <2>6
<1>5. x \notin Lost
  <2>1. SUFFICES ASSUME x \in Lost PROVE FALSE
    OBVIOUS
  <2>2. Lost \in SUBSET R!Address
    OBVIOUS
  <2>3. e[1] \in R!OnTheWay(routes, x)
    BY DEF IsEnd
  <2> HIDE DEF Lost
  <2>4. e[1] \in Lost
    BY <1>4, <2>1, <2>2, <2>3 DEF R!OnTheWay
  <2> QED
    BY <1>3, <2>4
<1> QED
  BY <1>5

\* find_arp: the hardware address of the only entry.
Neighbour == [ip : R!Address, if : Name, hw : Name \ {"none"}]
Entries(arps, d, i) == {k \in DOMAIN arps : arps[k].if = i /\ arps[k].ip = d}

LEMMA ArpFound ==
    ASSUME NEW arps \in Seq(Neighbour), NEW d, NEW i, NEW hw, hw = R!find_arp(arps, d, i),
           NEW found, found = Entries(arps, d, i)
    PROVE  IF Cardinality(found) = 1 THEN hw # "none" /\ {arps[k].hw : k \in found} = {hw}
           ELSE hw = "none"
<1>1. hw = IF Cardinality(found) = 1 THEN arps[CHOOSE k \in found : TRUE].hw ELSE "none"
  <2>1. hw = IF R!Cardinality(Entries(arps, d, i)) = 1
             THEN arps[CHOOSE k \in Entries(arps, d, i) : TRUE].hw ELSE "none"
    BY DEF R!find_arp, Entries
  <2> QED
    BY <2>1, SameCardinality
<1>2. IsFiniteSet(found)
  <2>1. IsFiniteSet(DOMAIN arps)
    BY FS_Interval, LenProperties
  <2> QED
    BY <2>1, FS_Subset DEF Entries
<1>3. CASE Cardinality(found) = 1
  <2>1. PICK k : found = {k}
    BY <1>2, <1>3, FS_Singleton
  <2>2. k \in DOMAIN arps /\ arps[k].hw # "none"
    <3>1. k \in DOMAIN arps
      BY <2>1 DEF Entries
    <3>2. arps[k] \in Neighbour
      BY <3>1
    <3> QED
      BY <3>1, <3>2 DEF Neighbour
  <2>3. (CHOOSE n \in {k} : TRUE) = k
    OBVIOUS
  <2>4. hw = arps[k].hw
    BY <1>1, <1>3, <2>1, <2>3
  <2>5. {arps[n].hw : n \in {k}} = {arps[k].hw}
    OBVIOUS
  <2> QED
    BY <1>3, <2>1, <2>2, <2>4, <2>5
<1> QED
  BY <1>1, <1>3

\* find_lower_level_info gives the neighbour that longest-prefix routing leads
\* to, whatever the tables: it fails only for want of one, and a chain of
\* gateways that is not a circle is never cut short.
THEOREM NextHopRight ==
    ASSUME NEW routes \in Seq(Route), Len(routes) < max_hops,
           NEW arps \in Seq(Neighbour),
           NEW ip \in R!Address
    PROVE  R!NextHop(routes, arps, ip)
<1> DEFINE d   == R!find_direct_dest(routes, ip)
           got == R!find_lower_level_info(routes, arps, ip)
           Ends == {e \in R!OnTheWay(routes, ip) \X R!Interfaces(routes) :
                       R!Attached(routes, e[1], e[2])}
           Known(e) == {i \in DOMAIN arps : arps[i].ip = e[1] /\ arps[i].if = e[2]}
<1> SUFFICES ASSUME ip # 3
             PROVE  IF got = R!fail
                    THEN \A e \in Ends : e[2] \notin {"tun0"} /\ Cardinality(Known(e)) # 1
                    ELSE LET e == <<got.dest, got.if>>
                         IN  /\ e \in Ends
                             /\ e[2] \notin {"tun0"} => {arps[i].hw : i \in Known(e)} = {got.hw}
  BY SameCardinality DEF R!NextHop
<1>1. PICK f : f = R!search(routes)
  OBVIOUS
<1>2. Searches(f, routes)
  BY <1>1, SearchSearches
<1>3. d = f[max_hops][ip]
  BY <1>1 DEF R!find_direct_dest
<1>4. \A e : e \in Ends <=> IsEnd(routes, ip, e)
  BY DEF IsEnd
<1>5. \A e \in Ends : d = e
  BY <1>2, <1>3, <1>4, SearchComplete
<1>6. d # << >> => d \in Ends
  BY <1>2, <1>3, <1>4, SearchSound, RouteAssumption
<1>7. got = IF d = << >> THEN R!fail
            ELSE IF d[2] \in {"tun0"} THEN [dest |-> d[1], if |-> d[2], hw |-> R!zero_hw]
            ELSE IF R!find_arp(arps, d[1], d[2]) = "none" THEN R!fail
            ELSE [dest |-> d[1], if |-> d[2], hw |-> R!find_arp(arps, d[1], d[2])]
  BY DEF R!find_lower_level_info
<1>8. d # << >> => /\ d = <<d[1], d[2]>> /\ d[1] # -1
  <2>1. ASSUME d \in Ends PROVE d = <<d[1], d[2]>> /\ d[1] \in R!Address
    BY <2>1 DEF R!OnTheWay
  <2>2. -1 \notin R!Address
    BY RouteAssumption DEF R!Address
  <2> QED
    BY <1>6, <2>1, <2>2
<1> HIDE DEF d, got, Ends
<1>9. CASE d = << >>
  <2>1. ASSUME NEW e \in Ends PROVE FALSE
    <3>1. IsEnd(routes, ip, << >>)
      BY <1>4, <1>5, <1>9, <2>1
    <3> QED
      BY <3>1 DEF IsEnd
  <2>2. got = R!fail
    BY <1>7, <1>9
  <2> QED
    BY <2>1, <2>2
<1>10. CASE d # << >> /\ d[2] \in {"tun0"}
  <2>1. got = [dest |-> d[1], if |-> d[2], hw |-> R!zero_hw]
    BY <1>7, <1>10
  <2>2. got # R!fail /\ <<got.dest, got.if>> = d /\ got.if \in {"tun0"}
    BY <1>8, <1>10, <2>1 DEF R!fail
  <2> QED
    BY <1>6, <1>10, <2>2
<1>11. CASE d # << >> /\ d[2] \notin {"tun0"}
  <2>1. PICK hw : hw = R!find_arp(arps, d[1], d[2])
    OBVIOUS
  <2>2. IF Cardinality(Known(d)) = 1
        THEN hw # "none" /\ {arps[k].hw : k \in Known(d)} = {hw} ELSE hw = "none"
    <3>1. PICK a, i, found : a = d[1] /\ i = d[2] /\ found = Entries(arps, a, i)
      OBVIOUS
    <3>2. hw = R!find_arp(arps, a, i)
      BY <2>1, <3>1
    <3>3. IF Cardinality(found) = 1 THEN hw # "none" /\ {arps[k].hw : k \in found} = {hw}
          ELSE hw = "none"
      BY <3>1, <3>2, ArpFound, Zenon
    <3>4. found = Known(d)
      BY <3>1 DEF Entries
    <3> HIDE DEF Known
    <3> QED
      BY <3>3, <3>4
  <2>3. CASE hw = "none"
    <3>1. got = R!fail
      BY <1>7, <1>11, <2>1, <2>3
    <3>2. Cardinality(Known(d)) # 1
      BY <2>2, <2>3
    <3> QED
      BY <1>5, <1>11, <3>1, <3>2
  <2>4. CASE hw # "none"
    <3>1. got = [dest |-> d[1], if |-> d[2], hw |-> hw]
      BY <1>7, <1>11, <2>1, <2>4
    <3>2. got # R!fail /\ <<got.dest, got.if>> = d /\ got.hw = hw
      <4>1. d = <<d[1], d[2]>> /\ d[1] # -1
        BY <1>8, <1>11
      <4>2. got.dest = d[1] /\ got.if = d[2] /\ got.hw = hw
        BY <3>1
      <4>3. R!fail.dest = -1
        BY DEF R!fail
      <4> QED
        BY <4>1, <4>2, <4>3
    <3>3. {arps[k].hw : k \in Known(d)} = {hw}
      BY <2>2, <2>4
    <3> QED
      BY <1>6, <1>11, <3>2, <3>3
  <2> QED
    BY <2>3, <2>4
<1> QED
  BY <1>9, <1>10, <1>11

\* The tables that are tried: whole nets, at most three of them, and neighbours.
Given == [of : {"routes"}, arps : Seq(Neighbour), routes : {s \in Seq(Route) : Len(s) <= 3}]
GivenInv ==
    /\ "of" \in DOMAIN given
    /\ given.of = "routes" => given \in Given

LEMMA WholeNetsAreRoutes == WholeNets \subseteq Route
<1>1. ASSUME NEW r \in WholeNets PROVE r \in Route
  <2>1. r \in Routes /\ r.dest % r.size = 0
    BY DEF WholeNets
  <2>2. PICK d \in R!Address, h \in Blocks, v \in {R!direct} \cup R!Address :
            r = [dest |-> d, size |-> h, via |-> v, if |-> "eth0"]
    BY <2>1 DEF Routes
  <2>3. r \in [dest : R!Address, size : Blocks, via : {R!direct} \cup R!Address, if : Name]
    BY <2>2 DEF Name
  <2> QED
    BY <2>1, <2>3 DEF Route
<1> QED
  BY <1>1

LEMMA TablesAreRoutes ==
    ASSUME NEW t \in Tables PROVE t \in Seq(Route) /\ Len(t) <= 3
<1>1. CASE \E x, y \in WholeNets : t = <<x, y>>
  BY <1>1, WholeNetsAreRoutes
<1>2. CASE \E x \in WholeNets : t = <<x>>
  BY <1>2, WholeNetsAreRoutes
<1>3. CASE t = << >>
  BY <1>3
<1> QED
  BY <1>1, <1>2, <1>3 DEF Tables

LEMMA ArpsAreNeighbours == Arps \subseteq Seq(Neighbour)
<1>1. 1 \in R!Address /\ 2 \in R!Address
  BY RouteAssumption DEF R!Address
<1>2. /\ Arp(1, "eth0", "h1") \in Neighbour /\ Arp(1, "tun0", "h3") \in Neighbour
      /\ Arp(2, "eth0", "h2") \in Neighbour
  BY <1>1 DEF Arp, Neighbour, Name
<1> QED
  BY <1>2 DEF Arps

LEMMA GivenInit == MCInit => GivenInv
<1>1. CASE given = Nothing
  BY <1>1 DEF GivenInv, Nothing
<1>2. CASE given \in Starts
  <2>1. CASE \E l \in Lines : \/ given = [of |-> "options", line |-> l, file |-> << >>]
                              \/ given = [of |-> "options", line |-> << >>, file |-> l]
    BY <2>1 DEF GivenInv
  <2>2. CASE \E o \in {"line", "address"} : given = [of |-> o, s |-> << >>]
    BY <2>2 DEF GivenInv
  <2>3. CASE \E a \in Arps : given = [of |-> "routes", arps |-> a, routes |-> << >>]
    <3>1. PICK a \in Arps : given = [of |-> "routes", arps |-> a, routes |-> << >>]
      BY <2>3
    <3>2. a \in Seq(Neighbour)
      BY ArpsAreNeighbours
    <3> QED
      BY <3>1, <3>2 DEF GivenInv, Given
  <2> QED
    BY <1>2, <2>1, <2>2, <2>3 DEF Starts
<1> QED
  BY <1>1, <1>2 DEF MCInit

LEMMA GivenStep == GivenInv /\ [MCNext]_all => GivenInv'
<1> SUFFICES ASSUME GivenInv, [MCNext]_all PROVE GivenInv'
  OBVIOUS
<1>1. CASE given' = given
  BY <1>1 DEF GivenInv
<1>2. CASE given.of # "routes" /\ Read
  <2>1. \/ \E i \in Items : \/ given' = [given EXCEPT !.file = Append(@, i)]
                            \/ given' = [given EXCEPT !.line = Append(@, i)]
                            \/ given' = [given EXCEPT !.line = <<i>> \o @]
        \/ \E b : given' = [given EXCEPT !.s = Append(@, b)]
    BY <1>2 DEF Read
  <2>2. "of" \in DOMAIN given' /\ given'.of = given.of
    BY <2>1 DEF GivenInv
  <2> QED
    BY <1>2, <2>2 DEF GivenInv
<1>3. CASE given.of = "routes" /\ Read
  <2>1. \/ \E t \in Tables : given' = [given EXCEPT !.routes = t]
        \/ \E r \in WholeNets : /\ Len(given.routes) = 2
                                /\ given' = [given EXCEPT !.routes = Append(@, r)]
    BY <1>3 DEF Read
  <2>2. CASE \E t \in Tables : given' = [given EXCEPT !.routes = t]
    <3>1. PICK t \in Tables : given' = [given EXCEPT !.routes = t]
      BY <2>2
    <3> QED
      BY <1>3, <3>1, TablesAreRoutes DEF GivenInv, Given
  <2>3. CASE \E r \in WholeNets : /\ Len(given.routes) = 2
                                  /\ given' = [given EXCEPT !.routes = Append(@, r)]
    <3>1. PICK r \in WholeNets : /\ Len(given.routes) = 2
                                 /\ given' = [given EXCEPT !.routes = Append(@, r)]
      BY <2>3
    <3>2. PICK s \in Seq(Route) : s = given.routes /\ Len(s) = 2
      BY <1>3, <3>1 DEF GivenInv, Given
    <3>3. r \in Route
      BY WholeNetsAreRoutes
    <3>4. PICK t : t = Append(s, r)
      OBVIOUS
    <3>5. t \in Seq(Route) /\ Len(t) = Len(s) + 1
      BY <3>3, <3>4, AppendProperties
    <3>6. Len(t) <= 3
      BY <3>2, <3>5
    <3>7. given'.of = given.of /\ given'.arps = given.arps /\ given'.routes = t
          /\ given' = [given EXCEPT !.routes = t]
      BY <1>3, <3>1, <3>2, <3>4 DEF GivenInv, Given
    <3> QED
      BY <1>3, <3>5, <3>6, <3>7 DEF GivenInv, Given
  <2> QED
    BY <2>1, <2>2, <2>3
<1> QED
  BY <1>1, <1>2, <1>3 DEF MCNext, all

\* The same of the tables that are tried.
THEOREM NextHopAlways == MCSpec => []NextHop
<1>1. MCSpec => []GivenInv
  BY GivenInit, GivenStep, PTL DEF MCSpec
<1>2. GivenInv => NextHop
  <2> SUFFICES ASSUME GivenInv, given.of = "routes", NEW ip \in R!Address
               PROVE  R!NextHop(given.routes, given.arps, ip)
    BY DEF NextHop
  <2>1. PICK routes \in Seq(Route), arps \in Seq(Neighbour) :
            routes = given.routes /\ arps = given.arps /\ Len(routes) <= 3
    BY DEF GivenInv, Given
  <2>2. Len(routes) < max_hops
    BY <2>1, LenProperties, RouteAssumption
  <2>3. R!NextHop(routes, arps, ip)
    BY <2>2, NextHopRight
  <2> QED
    BY <2>1, <2>3
<1> QED
  BY <1>1, <1>2, PTL
=============================================================================
