-------------------------------- MODULE Bpf --------------------------------
(***************************************************************************)
(* The socket filters of the Linux build (network.cpp): six classic BPF    *)
(* programs, one per raw mode and IP version, into which init_filter       *)
(* writes the port, and the virtual machine that runs them (the kernel's). *)
(*                                                                         *)
(* A packet is a record of the header fields the program sends or looks    *)
(* at; Byte and Half give the numbers at the offsets the filters load.     *)
(***************************************************************************)
EXTENDS Integers, Sequences

TCP == 6
UDP == 17
ICMP == 1
ICMPV6 == 58
FRAGMENT == 44      \* the IPv6 fragment header

(* Instructions {code, jt, jf, k} as in the source.                        *)
code_tcp == << <<\h30, 0, 0, 9>>, <<\h15, 0, 6, TCP>>, <<\h28, 0, 0, 6>>,
               <<\h45, 4, 0, \h1fff>>, <<\hb1, 0, 0, 0>>, <<\h48, 0, 0, 2>>,
               <<\h15, 0, 1, \hfffe>>, <<\h6, 0, 0, \hffff>>, <<\h6, 0, 0, 0>> >>
code_tcp6 == << <<\h30, 0, 0, 6>>, <<\h15, 0, 3, TCP>>, <<\h28, 0, 0, \h2a>>,
                <<\h15, 0, 1, \hfffe>>, <<\h6, 0, 0, \h40000>>, <<\h6, 0, 0, 0>> >>
code_udp == << <<\h30, 0, 0, 9>>, <<\h15, 0, 6, UDP>>, <<\h28, 0, 0, 6>>,
               <<\h45, 4, 0, \h1fff>>, <<\hb1, 0, 0, 0>>, <<\h48, 0, 0, 2>>,
               <<\h15, 0, 1, \hfffe>>, <<\h6, 0, 0, \hffff>>, <<\h6, 0, 0, 0>> >>
code_udp6 == << <<\h30, 0, 0, 6>>, <<\h15, 0, 3, UDP>>, <<\h28, 0, 0, \h2a>>,
                <<\h15, 0, 1, \hfffe>>, <<\h6, 0, 0, \h40000>>, <<\h6, 0, 0, 0>> >>
code_icmp == << <<\h30, 0, 0, 9>>, <<\h15, 0, 1, ICMP>>,
                <<\h6, 0, 0, \hffff>>, <<\h6, 0, 0, 0>> >>
code_icmp6 == << <<\h30, 0, 0, 6>>, <<\h15, 3, 0, ICMPV6>>, <<\h15, 0, 3, FRAGMENT>>,
                 <<\h30, 0, 0, \h28>>, <<\h15, 0, 1, ICMPV6>>,
                 <<\h6, 0, 0, \h40000>>, <<\h6, 0, 0, 0>> >>

(* Indices, from 0, of the instruction that compares the port.             *)
code_tcp_port_index == 6
code_tcp6_port_index == 3
code_udp_port_index == 6
code_udp6_port_index == 3

WithPort(code, index, port) == [code EXCEPT ![index + 1][4] = port]

\* Mutant: the index of the IPv4 filter is used for IPv6 too.
init_filter_Index(mode, ver, port) ==
    CASE mode = "faketcp" -> IF ver = 4 THEN WithPort(code_tcp, code_tcp_port_index, port)
                             ELSE WithPort(code_tcp6, code_tcp_port_index - 1, port)
      [] mode = "udp"     -> IF ver = 4 THEN WithPort(code_udp, code_udp_port_index, port)
                             ELSE WithPort(code_udp6, code_udp_port_index - 1, port)
      [] mode = "icmp"    -> IF ver = 4 THEN code_icmp ELSE code_icmp6

(* The program init_filter attaches.                                       *)
init_filter(mode, ver, port) ==
    CASE mode = "faketcp" -> IF ver = 4 THEN WithPort(code_tcp, code_tcp_port_index, port)
                             ELSE WithPort(code_tcp6, code_tcp6_port_index, port)
      [] mode = "udp"     -> IF ver = 4 THEN WithPort(code_udp, code_udp_port_index, port)
                             ELSE WithPort(code_udp6, code_udp6_port_index, port)
      [] mode = "icmp"    -> IF ver = 4 THEN code_icmp ELSE code_icmp6

-----------------------------------------------------------------------------
(* Where the IP payload begins, and its first two halfwords: ports, or     *)
(* type and code and then the checksum, or the next header of a fragment.  *)
PayloadAt(p) == IF p.ver = 4 THEN 4 * p.ihl ELSE 40
PayloadHalf(p, off) ==
    CASE p.proto \in {TCP, UDP} /\ off = 0 -> p.sport
      [] p.proto \in {TCP, UDP} /\ off = 2 -> p.dport
      [] p.proto \in {ICMP, ICMPV6} /\ off = 0 -> p.type * 256 + p.code
      [] p.proto = FRAGMENT /\ off = 0 -> p.next * 256
      [] OTHER -> 0

Half(p, off) ==
    IF off >= PayloadAt(p) THEN PayloadHalf(p, off - PayloadAt(p))
    ELSE IF p.ver = 4 /\ off = 6 THEN \h4000 + p.frag     \* DF and the fragment offset
    ELSE 0
Byte(p, off) ==
    CASE p.ver = 4 /\ off = 0 -> 64 + p.ihl
      [] p.ver = 4 /\ off = 9 -> p.proto
      [] p.ver = 6 /\ off = 6 -> p.proto
      [] off >= PayloadAt(p) -> PayloadHalf(p, off - PayloadAt(p)) \div 256
      [] OTHER -> 0

(* The virtual machine: the next instruction (0: the program returned),    *)
(* the accumulator, which is also the value returned, and the index.       *)
State(pc, A, X) == [pc |-> pc, A |-> A, X |-> X]

(* One instruction.  A load past the packet returns 0; the mask of the     *)
(* only test of bits is one less than a power of two.                      *)
Step(code, p, m) ==
    LET op == code[m.pc][1]
        k == code[m.pc][4]
        load(off, size, value) ==
            IF off + size > p.len THEN State(0, 0, m.X) ELSE State(m.pc + 1, value, m.X)
        jump(cond) == State(m.pc + 1 + (IF cond THEN code[m.pc][2] ELSE code[m.pc][3]), m.A, m.X)
    IN CASE op = \h30 -> load(k, 1, Byte(p, k))
         [] op = \h28 -> load(k, 2, Half(p, k))
         [] op = \h48 -> load(m.X + k, 2, Half(p, m.X + k))
         [] op = \hb1 -> State(m.pc + 1, m.A, 4 * (Byte(p, k) % 16))
         [] op = \h15 -> jump(m.A = k)
         [] op = \h45 -> jump(m.A % (k + 1) # 0)
         [] op = \h6  -> State(0, k, m.X)

(* Jumps lead forward, so a program returns within Len(code) instructions. *)
Exec(code, p) ==
    LET run[n \in 0 .. Len(code)] ==
            IF n = 0 THEN State(1, 0, 0)
            ELSE IF run[n - 1].pc = 0 THEN run[n - 1] ELSE Step(code, p, run[n - 1])
    IN  run[Len(code)].A

Passes(mode, ver, port, p) == Exec(init_filter(mode, ver, port), p) # 0
=============================================================================
