----------------------------- MODULE RawSocket -----------------------------
(***************************************************************************)
(* Raw packet input and output of the Linux build (network.cpp): how a     *)
(* packet is put together by send_raw_tcp, _udp, _icmp and send_raw_ip,    *)
(* completed by the kernel, filtered (Bpf), read into the one buffer       *)
(* g_packet_buf, peeked at and taken apart again, and how the handlers of  *)
(* client.cpp and server.cpp use that buffer.                              *)
(*                                                                         *)
(* A packet is a record of header fields.  Checksums are right or wrong,   *)
(* payloads are lengths; encryption is Codec's subject and sequence        *)
(* numbers are FakeTcp's.  link_level_header_len is 0, as in the code.     *)
(***************************************************************************)
EXTENDS Bpf, SequencesExt

CONSTANTS
    Configs,          \* the option settings to look at
    Lengths,          \* payload lengths
    max_data_len, huge_data_len,
    max_rst_allowed,  \* -1: any number
    MaxRst            \* bound on rst_received

VARIABLES
    cfg,           \* [mode, ver, prog, lower_level, bind_addr_used, fix_gro]
    conn,          \* the connection the packets of the peer belong to
    table_full,    \* max_handshake_conn_num connections exist
    wire,          \* the packet that was just handled
    cnt,           \* g_packet_buf_cnt; `failed' once an assertion failed
    rst_received, disabled

vars == <<cfg, conn, table_full, wire, cnt, rst_received, disabled>>

me == "me"          \* addresses
peer == "peer"
other == "other"
my_port == 4096     \* filter_port; the peer's port is also the icmp id
peer_port == 5000
sizeof_ip(ver) == IF ver = 4 THEN 20 ELSE 40
tcphdr == 20
udphdr == 8
icmphdr == 8
fail == -1          \* recv_raw0 and the functions below it return -1
unset == -2         \* recv_raw_tcp returns 0 without setting the payload
failed == -1        \* value of cnt after a failed assert

Proto(mode, ver) ==
    CASE mode = "faketcp" -> TCP
      [] mode = "udp" -> UDP
      [] mode = "icmp" -> IF ver = 4 THEN ICMP ELSE ICMPV6

-----------------------------------------------------------------------------
(* Sending.  prog is the sender's program mode, n the payload length.      *)

send_raw_tcp(n, syn, ack) ==
    LET doff == IF syn THEN 10 ELSE 8 IN
    [sport |-> peer_port, dport |-> my_port, doff |-> doff, syn |-> syn, ack |-> ack,
     rst |-> FALSE, l4len |-> 0, type |-> 0, code |-> 0, id |-> 0,
     size |-> 4 * doff + n]

send_raw_udp(n) ==
    [sport |-> peer_port, dport |-> my_port, doff |-> 0, syn |-> FALSE, ack |-> FALSE,
     rst |-> FALSE, l4len |-> udphdr + n, type |-> 0, code |-> 0, id |-> 0,
     size |-> udphdr + n]

\* Mutant: both sides send echo requests.
send_raw_icmp_Request(ver, prog, n) ==
    [sport |-> 0, dport |-> 0, doff |-> 0, syn |-> FALSE, ack |-> FALSE,
     rst |-> FALSE, l4len |-> 0, type |-> IF ver = 4 THEN 8 ELSE 128,
     code |-> 0, id |-> peer_port, size |-> icmphdr + n]

send_raw_icmp(ver, prog, n) ==
    [sport |-> 0, dport |-> 0, doff |-> 0, syn |-> FALSE, ack |-> FALSE,
     rst |-> FALSE, l4len |-> 0,
     type |-> IF ver = 4 THEN (IF prog = "client" THEN 8 ELSE 0)
                         ELSE (IF prog = "client" THEN 128 ELSE 129),
     code |-> 0, id |-> peer_port, size |-> icmphdr + n]

(* send_raw_ip: for IPv4 the length and the checksum are only filled in    *)
(* with lower_level; a raw socket's kernel does it otherwise.              *)
send_raw_ip(ver, proto, lower_level, l4) ==
    [ver |-> ver, version |-> ver, ihl |-> 5, frag |-> 0, next |-> 0, proto |-> proto,
     src |-> peer, dst |-> me,
     tot |-> IF ver = 4 /\ ~lower_level THEN 0 ELSE sizeof_ip(ver) + l4.size,
     ipsum |-> ver = 6 \/ lower_level, l4sum |-> TRUE,
     sport |-> l4.sport, dport |-> l4.dport, doff |-> l4.doff, syn |-> l4.syn,
     ack |-> l4.ack, rst |-> l4.rst, l4len |-> l4.l4len, type |-> l4.type,
     code |-> l4.code, id |-> l4.id, len |-> sizeof_ip(ver) + l4.size]

kernel_completes(p, lower_level) ==
    IF p.ver = 4 /\ ~lower_level THEN [p EXCEPT !.tot = p.len, !.ipsum = TRUE] ELSE p

Opposite(prog) == IF prog = "client" THEN "server" ELSE "client"

(* What the peer's send_raw0 puts on the wire.                             *)
send_raw0(c, n, syn, ack) ==
    LET l4 == CASE c.mode = "faketcp" -> send_raw_tcp(n, syn, ack)
                [] c.mode = "udp" -> send_raw_udp(n)
                [] c.mode = "icmp" -> send_raw_icmp(c.ver, Opposite(c.prog), n)
    IN kernel_completes(send_raw_ip(c.ver, Proto(c.mode, c.ver), c.lower_level, l4),
                        c.lower_level)

(* Anything else on the network: a packet that differs from the peer's in  *)
(* a field of the IP header or of what follows it, or of which only a part *)
(* was captured.                                                           *)
OtherIp(p) ==
    {[p EXCEPT !.version = 10 - p.ver], [p EXCEPT !.frag = 1], [p EXCEPT !.ihl = 15],
     [p EXCEPT !.src = other], [p EXCEPT !.dst = other], [p EXCEPT !.ipsum = FALSE],
     [p EXCEPT !.tot = @ + 1, !.l4len = @ + 1], [p EXCEPT !.tot = p.len - 1],
     [p EXCEPT !.proto = FRAGMENT, !.next = p.proto]}
    \cup {[p EXCEPT !.proto = q] : q \in {TCP, UDP, ICMP, ICMPV6}}
OtherPayload(p) ==
    {[p EXCEPT !.sport = 7], [p EXCEPT !.dport = 7], [p EXCEPT !.l4sum = FALSE],
     [p EXCEPT !.rst = TRUE], [p EXCEPT !.l4len = @ + 1], [p EXCEPT !.code = 1],
     [p EXCEPT !.id = 7]}
    \cup {[p EXCEPT !.doff = d] : d \in {0, 5, 15}}
    \cup {[p EXCEPT !.type = t] : t \in {0, 8, 128, 129}}
OtherLength(p) ==
    {[p EXCEPT !.len = 19], [p EXCEPT !.len = 0],
     [p EXCEPT !.len = huge_data_len + 9, !.tot = 60000]}
Others(p) == OtherIp(p) \cup OtherPayload(p) \cup OtherLength(p)

-----------------------------------------------------------------------------
(* Receiving.                                                              *)

(* pre_recv_raw_packet: the length read from the socket, -1 if the packet  *)
(* is dropped for its size.                                                *)
pre_recv_raw_packet(c, p) ==
    IF p.len > huge_data_len THEN (IF c.fix_gro THEN huge_data_len ELSE -1)
    ELSE IF p.len > max_data_len /\ ~c.fix_gro THEN -1
    ELSE p.len

(* recv_raw_ip of a packet in the buffer: the length of its payload, -1    *)
(* if it is dropped.                                                       *)
recv_raw_ip(c, p, len, peek) ==
    LET hdrlen == IF c.ver = 4 THEN 4 * p.ihl ELSE 40 IN
    IF \/ len < 1 \/ p.version # c.ver \/ len < sizeof_ip(c.ver)
       \/ c.bind_addr_used /\ p.dst # me
       \/ len < p.tot
       \/ c.ver = 4 /\ ~peek /\ ~p.ipsum
       \/ p.tot < hdrlen
    THEN -1 ELSE p.tot - hdrlen

peek_raw(c, p, len) ==
    LET n == recv_raw_ip(c, p, len, TRUE) IN
    /\ n # -1
    /\ p.proto = Proto(c.mode, c.ver)
    /\ n >= CASE c.mode = "faketcp" -> tcphdr [] c.mode = "udp" -> udphdr
              [] c.mode = "icmp" -> udphdr

(* recv_raw_tcp: a header length that cannot be right is answered with 0   *)
(* as well, with the payload left as the caller declared it (unset).     *)
(* A wrong checksum is only logged.                                        *)
recv_raw_tcp(c, p, n) ==
    IF p.proto # TCP THEN fail
    ELSE IF p.doff = 0 \/ 4 * p.doff > n THEN unset
    ELSE IF p.dport # my_port THEN fail
    ELSE n - 4 * p.doff

recv_raw_udp(c, p, n) ==
    IF \/ p.proto # UDP \/ n < udphdr \/ p.l4len # n
       \/ p.dport # my_port \/ ~p.l4sum
    THEN fail ELSE n - udphdr

(* send_info.src_port is the icmp id in use; for an unknown source the     *)
(* server takes it from the packet.                                        *)
recv_raw_icmp(c, p, n) ==
    IF \/ p.proto # Proto("icmp", c.ver) \/ n < icmphdr
       \/ p.id # peer_port /\ ~(c.prog = "server" /\ conn = "none")
       \/ p.code # 0
       \/ p.type # (IF c.ver = 4 THEN (IF c.prog = "client" THEN 0 ELSE 8)
                                 ELSE (IF c.prog = "client" THEN 129 ELSE 128))
       \/ ~p.l4sum
    THEN fail ELSE n - icmphdr

(* The payload length, fail or unset.                                  *)
recv_raw0(c, p, len) ==
    LET n == recv_raw_ip(c, p, len, FALSE) IN
    IF n = -1 THEN fail
    ELSE CASE c.mode = "faketcp" -> recv_raw_tcp(c, p, n)
           [] c.mode = "udp" -> recv_raw_udp(c, p, n)
           [] c.mode = "icmp" -> recv_raw_icmp(c, p, n)

-----------------------------------------------------------------------------
(* The buffer discipline.  pre_recv asserts that the count is 0 and makes  *)
(* it 1, everything else asserts that it is 1; only peeking keeps it.      *)

Access(count, op) ==
    IF count = failed \/ count # (IF op = "pre" THEN 0 ELSE 1) THEN failed
    ELSE IF op \in {"pre", "peek"} THEN 1 ELSE 0

Accesses(count, ops) ==
    LET after[i \in 0 .. Len(ops)] == IF i = 0 THEN count ELSE Access(after[i - 1], ops[i])
    IN  after[Len(ops)]

(* client_on_raw_recv.                                                     *)
ClientOps(c, p) ==
    IF pre_recv_raw_packet(c, p) = -1 THEN <<>>
    ELSE IF conn = "idle" THEN <<"pre", "discard">>
    ELSE <<"pre", "recv">>

\* Mutant: a packet for an idle connection is left in the buffer.
ServerOps_Idle(c, p) ==
    LET len == pre_recv_raw_packet(c, p)
        known == p.src = peer /\ conn # "none"
    IN IF len = -1 THEN <<>>
       ELSE IF ~peek_raw(c, p, len) THEN <<"pre", "peek", "discard">>
       ELSE IF known /\ conn = "idle" THEN <<"pre", "peek">>
       ELSE <<"pre", "peek", "recv">>

(* server_on_raw_recv_multi.  The connection is looked up by the source    *)
(* that was peeked at; a packet from elsewhere finds none.                 *)
ServerOps(c, p) ==
    LET len == pre_recv_raw_packet(c, p)
        known == p.src = peer /\ conn # "none"
    IN IF len = -1 THEN <<>>
       ELSE IF ~peek_raw(c, p, len) THEN <<"pre", "peek", "discard">>
       ELSE IF c.mode = "faketcp" /\ p.syn
            THEN IF known /\ conn = "ready" THEN <<"pre", "peek", "discard">>
                 ELSE <<"pre", "peek", "recv">>
       ELSE IF ~known /\ table_full THEN <<"pre", "peek", "discard">>
       ELSE IF known /\ conn = "idle" THEN <<"pre", "peek", "discard">>
       ELSE <<"pre", "peek", "recv">>

Ops(c, p) == IF c.prog = "client" THEN ClientOps(c, p) ELSE ServerOps(c, p)

ConnStates(prog) ==
    IF prog = "client" THEN {"idle", "tcp_handshake", "handshake1", "ready"}
    ELSE {"none", "handshake1", "ready", "idle"}

NoPacket == [len |-> 0]

Init ==
    /\ cfg \in Configs
    /\ conn \in ConnStates(cfg.prog)
    /\ conn = "tcp_handshake" => cfg.mode = "faketcp"
    /\ table_full \in BOOLEAN
    /\ wire = NoPacket
    /\ cnt = 0
    /\ rst_received = 0 /\ disabled = FALSE

(* One packet passes the filter and is handled.  A RST that recv_raw_tcp   *)
(* accepts for this connection is counted, and the one after               *)
(* max_rst_allowed disables it: send_raw_ip sends nothing any more.        *)
Packet(p) ==
    /\ wire = NoPacket /\ cnt # failed
    /\ wire' = p
    /\ IF ~Passes(cfg.mode, cfg.ver, my_port, p)
       THEN UNCHANGED <<cnt, rst_received, disabled>>
       ELSE /\ cnt' = Accesses(cnt, Ops(cfg, p))
            /\ IF /\ cfg.mode = "faketcp" /\ p.rst
                  /\ conn # "none" /\ (cfg.prog = "server" => p.src = peer)
                  /\ Contains(Ops(cfg, p), "recv")
                  /\ recv_raw0(cfg, p, pre_recv_raw_packet(cfg, p)) \notin {fail, unset}
               THEN /\ rst_received < MaxRst
                    /\ rst_received' = rst_received + 1
                    /\ disabled' = (disabled \/ (/\ max_rst_allowed >= 0
                                                 /\ rst_received + 1 = max_rst_allowed + 1))
               ELSE UNCHANGED <<rst_received, disabled>>
    /\ UNCHANGED <<cfg, conn, table_full>>

FromPeer ==
    \E n \in Lengths, syn, ack \in BOOLEAN :
        (syn \/ ack) /\ Packet(send_raw0(cfg, n, syn, ack))
FromOthers ==
    \E n \in Lengths, syn \in BOOLEAN :
        \E p \in Others(send_raw0(cfg, n, syn, TRUE)) : Packet(p)

(* Back in the event loop, with the connection in any state the sessions   *)
(* may have brought it to (Tunnel and Server say how).                     *)
Loop ==
    /\ wire # NoPacket
    /\ wire' = NoPacket
    /\ conn' \in {s \in ConnStates(cfg.prog) : s = "tcp_handshake" => cfg.mode = "faketcp"}
    /\ UNCHANGED <<cfg, table_full, cnt, rst_received, disabled>>

(* A new connection: client_on_timer in client_idle, or recover.           *)
Reset ==
    /\ wire = NoPacket
    /\ rst_received' = 0 /\ disabled' = FALSE
    /\ UNCHANGED <<cfg, conn, table_full, wire, cnt>>

Next == FromPeer \/ FromOthers \/ Loop \/ Reset

Spec == Init /\ [][Next]_vars

-----------------------------------------------------------------------------
HeaderLen(p) == CASE p.proto = TCP -> 4 * p.doff [] OTHER -> 8

(* The filter and the code behind it want the same packets: what the       *)
(* peer sends passes; no packet that recv_raw0 would take is filtered out; *)
(* and for TCP and UDP only unfragmented packets to the port get through.  *)
FilterExact ==
    wire # NoPacket =>
       LET pass == Passes(cfg.mode, cfg.ver, my_port, wire)
           len == pre_recv_raw_packet(cfg, wire)
       IN /\ pass => /\ \/ wire.proto = Proto(cfg.mode, cfg.ver)
                        \/ cfg.mode = "icmp" /\ wire.proto = FRAGMENT /\ wire.next = ICMPV6
                     /\ cfg.mode # "icmp" => wire.dport = my_port
                     /\ cfg.mode # "icmp" /\ cfg.ver = 4 => wire.frag = 0
          /\ (len # -1 /\ wire.frag = 0 /\ recv_raw0(cfg, wire, len) \notin {fail, unset}) => pass

(* What the peer sent arrives: with at most max_data_len bytes on the      *)
(* wire, headers included (or --fix-gro), it passes the filter, is peeked  *)
(* at and received with the length it was sent with; and what is received  *)
(* is complete, for this port or icmp id, of the opposite role and has the *)
(* right checksums, apart from a TCP checksum, which is only logged.       *)
RoundTrip ==
    wire # NoPacket =>
       LET len == pre_recv_raw_packet(cfg, wire)
           got == recv_raw0(cfg, wire, len)
       IN /\ \A n \in Lengths, syn \in BOOLEAN :
                (wire = send_raw0(cfg, n, syn, TRUE) /\ (wire.len <= max_data_len \/ cfg.fix_gro)) =>
                    /\ len = wire.len
                    /\ peek_raw(cfg, wire, len)
                    /\ got = n
          /\ (len # -1 /\ got \notin {fail, unset}) =>
                    /\ got >= 0 /\ PayloadAt(wire) + HeaderLen(wire) + got <= wire.len
                    /\ cfg.ver = 4 => wire.ipsum
                    /\ cfg.mode # "faketcp" => wire.l4sum
                    /\ cfg.bind_addr_used => wire.dst = me

(* The asserts on g_packet_buf_cnt hold in every handler on every path:    *)
(* a packet read is consumed exactly once before the next one is read.     *)
(* And a connection is disabled exactly while more RSTs came than allowed. *)
BufferOnce ==
    /\ cnt = 0
    /\ disabled <=> (max_rst_allowed >= 0 /\ rst_received > max_rst_allowed)
=============================================================================
