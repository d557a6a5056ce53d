# udp2raw in TLA+

udp2raw carries UDP through packets that look like TCP, UDP or ICMP. A client
opens one *raw connection* to a server and multiplexes many UDP *conversations*
over it; the packets are encrypted, authenticated and protected against replay,
and when the raw connection breaks the client opens another one and the server
*recovers* the old one, so that the conversations go on.

This directory models the parts of that program whose correctness is hard to
test, checks them with TLC on small instances and proves the central safety
properties with TLAPS for every instance. Paths and line numbers refer to the
repository; the correspondence of every definition to its lines is the `map` of
`PROJECT.json`.

## 1. Inventory

| Component | State | Operations | Hard because |
|---|---|---|---|
| anti-replay window (`connection.cpp` 18-62) | next number, largest number received, window of marks | `get_new_seq_for_send`, `is_vaild`, `re_init` | the array is never initialised; jumps, late and repeated numbers |
| connection table (`connection.cpp` 64-290) | `mp`: address to connection; `const_id_mp`; `ready_num` | `find_insert`, `recover`, `erase`, `clear_inactive` | recovery swaps entries and moves state between objects |
| descriptor table (`fd_manager.cpp`) | fd64 to descriptor and owner | `create`, `fd64_close`, `exist` | the kernel reuses descriptor numbers |
| conversation manager (`connection.h` 38-165, `common.h` 441-520) | two maps and an lru list, on either side | `insert_conv`, `update_active_time`, `clear_inactive` | the two sides expire the same conversation at different times; expiry while events of the same socket are waiting |
| server loop and handlers (`server.cpp`) | the epoll batch, all of the above | handshakes, data, timers, udp sockets | what one handler closes a later event of the batch still names |
| client state machine (`client.cpp`) | state, ids, ports, times | timer, raw packets, udp packets, fifo | timeouts racing late answers |
| session protocol (both) | ids of both sides | two handshakes, heartbeat, recovery | loss, duplication, reordering, restart |
| faketcp numbers (`network.cpp` 2522-2632) | seq, ack_seq and a counter per end | `after_send_raw0`, `after_recv_raw0` | wrap-around, loss without retransmission, stale acknowledgements |
| encryption and framing (`encrypt.cpp`, `connection.cpp` 393-621) | keys, modes | `my_encrypt`, `my_decrypt`, `send_safer`, `recv_safer_multi` | lengths at the limit, merged and cut packets |
| pcap reader (`network.cpp` 289-365 and 723-799, `client.cpp` 555-611) | ring, two mutexes, an async event | capture, queue, drain, replace the filter | two threads; a slot is read after it was given back |
| iptables rules (`misc.cpp` 807-962 and 1103-1228) | chains, INPUT rules, the keep thread | install, renew, clear | commands fail, others flush, a thread is cancelled in the middle |
| raw input and output (`network.cpp` 88-260, 1160-2520) | one packet buffer with a counter, filter port, RST counter | send, filter, peek, discard, receive in three modes over IPv4 and IPv6 | hand-written filters; every path has to consume the buffer once; lengths at the limit |
| route and ARP lookup (`network.cpp` 885-1090) | two system files, read at start | `find_lower_level_info` | longest prefix, doubtful entries, circles |
| options (`misc.cpp` 221-806) | global variables | `process_arg`, `pre_process_arg`, `parse_conf_line` | order of options, several passes, options that change others |
| process (`main.cpp`, set-up of both loops, `common.cpp` 835-860) | descriptors, rules, `about_to_exit` | start-up, signals, reconnections, exit | each of some twenty calls may fail, signals come at any time |
| clock (`common.cpp` 396-428) | two unsynchronised statics | `get_current_time` | set back, and used by two threads |
| ciphers and digests (`encrypt.cpp`, `lib/`) | static key schedules, contexts | AES, CBC, CFB, MD5, SHA, HMAC, PBKDF2 | keys remembered from the first call, messages in pieces |
| logging, npcap loader, libev | | | not the program's own logic |

How they interact. The client's timer (`client_on_timer`) drives its state
machine and sends handshakes and heartbeats; packets reach it through a raw
socket, or in the multi-platform build through the pcap reader thread, its ring
and an async event. The server has a single thread: `epoll_wait` returns a batch
of events, each is given to a handler. A raw packet goes to the connection of its
source address in `mp`; the second handshake looks the client up by its const id
and either makes the connection ready or recovers the old one. A data packet goes
through `recv_safer_multi` (splitting, decryption, authentication, ids, replay
window) to the conversation's socket. The global timer expires connections, each
connection's own timer its conversations. The firewall rules are the business of
the main thread at start and exit and of the keep thread in between, which shares
the clock with the event loop.

What makes each component correct:

- *window*: no number passes twice, no fresh number is dropped, whatever the array held;
- *tables*: `mp`, `const_id_mp`, `ready_num`, conversations and descriptors always
  agree; nothing leaks, and everything is given back in the end;
- *session*: a side is ready only if the other one confirmed these very ids; the newest
  session wins; data crosses once; the two find each other again after any fault;
- *numbers*: acknowledgements never go back and never exceed what was sent; the
  window is respected; a loss does not stop the stream;
- *framing*: what arrives complete is read back, and nothing else;
- *reader*: a borrowed slot is not overwritten, order is kept, no wake-up is lost,
  no deadlock between the two threads;
- *rules*: at least one rule protects at any time, they do not pile up, and they go away at exit;
- *conversations*: data never reaches the wrong application or socket, whatever
  expires on either side; what is used stays, what is idle goes;
- *raw packets*: what the peer sends passes the filter and is read as it was sent, nothing
  else passes, and the buffer is consumed exactly once;
- *process*: the rules are there before its raw sockets and gone after it, whatever call
  failed; no descriptor is lost; a signal ends it; options mean the same in any order; the next hop is the kernel's;
- *cryptography*: digests, modes and AES compute what their standards say.

`PROJECT.json` lists the hazards one by one with the line where each bites.

## 2. Modules

| Module | Models | Checked by |
|---|---|---|
| `AtMostOnce` | abstract: each number is handed up at most once | (refined by `AntiReplay`) |
| `AntiReplay` | `anti_replay_t` and a sender | `MCLibrary` |
| `Server` | connection table, descriptor table, conversations, handlers and the epoll loop | `MCServer` |
| `ServerProofs` | theorems about it | tlapm |
| `Tunnel` | one client, the server and the network: handshakes, recovery, restart | `MCTunnel` |
| `TunnelProofs` | theorems about it | tlapm |
| `ConvTable` | abstract: a table of conversations with time stamps | (refined by `Conversations`) |
| `Conversations` | applications, both conversation tables and the target, end to end | `MCConversations` |
| `ConversationsProofs` | theorems about it, the two refinements of `ConvTable` | tlapm |
| `PcapReader` | reader thread, ring, `async_cb`, `init_filter` | `MCPcapReader` |
| `PcapReaderProofs` | theorems about it | tlapm |
| `FakeTcp` | sequence numbers of a ready faketcp connection | `MCFakeTcp` |
| `FakeTcpProofs` | theorems about it | tlapm |
| `Codec` | layers and lengths of a packet, bare and safer framing, splitting of merged ones | `MCLibrary` |
| `RawSocket`, `Bpf` | packets of the three raw modes, kernel filters, the packet buffer and its users | `MCLibrary` |
| `Wire` | `AntiReplay`, `Codec` and `RawSocket` side by side: the way of a packet | `MCLibrary` |
| `WireProofs` | theorems about these three | tlapm |
| `AesStandard` | abstract: FIPS 197, round by round | (refined by `Aes`) |
| `Aes`, `AesTables` | AES-128 with lookup tables, as the library computes it | `MCLibrary` |
| `CipherModes` | xor, CBC and CFB with the static key schedules | `MCLibrary` |
| `Hash` | MD5, SHA-1, SHA-2 over a compression function; HMAC, PBKDF2, HKDF, CRC | `MCLibrary` |
| `Helpers` | checksums, TCP options, lines of the configuration file, addresses | `MCLibrary`, `MCStartup` |
| `Options` | command line and configuration file | `MCStartup` |
| `Route` | routes, gateways and neighbours | `MCStartup` |
| `Clock` | the corrected clock, shared by two threads | `MCStartup` |
| `IptablesRule` | installation, renewal and removal of the rules | `MCStartup`, `MCIptablesRule` |
| `IptablesRuleProofs` | theorems about it | tlapm |
| `Process` | start-up, signals, the main loops, reconnections and the exit | `MCStartup` |
| `StartupProofs` | theorems about `Process`, `Clock`, `Route` and the instance of `IptablesRule` in `MCStartup` | tlapm |

Most `MC*` modules only extend a module for TLC and add a symmetry set or the value
of a constant. `MCStartup`, `Wire` and `MCLibrary` (which extends `Wire`) put several modules
into one specification: a behaviour is a behaviour of exactly one of them. The parts that do not move are in a
state of their own (`MCLibrary`: a first state, and `part` says which one moves;
`MCStartup`: a state in which they have ended, so that their fairness conditions hold
and do not exclude behaviours of the part that moves). The pure functions are
evaluated on inputs that `Read` and `Give` build up, a step at a time, in `given`.
Operators named `X_Something` before an operator `X` are *mutants*: the mistakes the
properties have to catch. They are not part of any specification.

**AntiReplay.** `window` starts with any content, as in the code, and `re_init`
keeps it. The history variable `delivered` counts how often each number was
accepted since the last `re_init`; `AtMostOnce` is the specification over it alone.

**Server.** The variables are the members of `conn_manager`, `fd_manager` and the
`conn_info_t` objects. An object is a member of `Conn`, the addresses `operator
new` may return, so that reuse of memory is possible, and a new descriptor is the
lowest free number, as the kernel has it, so that numbers are reused too. `epoll_wait` fills `batch` with
any nonempty set of watched descriptors and each handler takes one event out of it;
a handler is one action, split by the branch it takes (`TooManyReady`, `TurnReady`,
`TimerFatal`, `IgnoreOlder` and `Recover` are the branches of
`server_on_raw_recv_pre_ready`, for example). `StaleEvent`, `CreateAssertFails` and
`TimerFatal` are the ways the process ends. Ids and replay are not repeated here: a
packet they reject is `RawIgnored`. `clear_inactive` looks at one entry per call,
which is what the code's ratio gives for fewer than 50 connections and 30
conversations.

**Tunnel.** `net` keeps every packet ever sent, and receiving does not remove it:
loss, duplication and reordering need no actions of their own. Timers have no
values. What happens because time passes and the other side really is gone
(`Stuck`, `Expire` of a connection not in use) is always possible; what happens too
early (a premature timeout, a reconnect command, an RST, a late duplicate of a
first handshake, a server restart) counts as a fault, and there are `MaxFaults`.
Connections are created at distinct times, so the server's id stands for the
creation time too. The replay window is its specification (a set of numbers seen).

**PcapReader.** One action per section that the other thread cannot interrupt: the
sections under `queue_mutex`, the copy out of the borrowed slot after the unlock,
`ev_async_send`, and the steps of the lock loop. `slot` and `borrowed` remember what
`peek_front` returned.

**IptablesRule.** Each iptables command is one step of the thread that runs it; for the
keep thread the command is a process of its own (`child`), which goes on when the
thread is cancelled. Commands fail when iptables would refuse them, and `MaxFails`
times for no reason; another program flushes the firewall `MaxFlushes` times.

**FakeTcp.** One direction of the stream, numbers modulo `NumMod`. The last
`MaxFlight` packets of a direction can still arrive, in any order, or not at all.
`MaxAhead` bounds how far modes 0 to 2, which have no window, run ahead of the
acknowledgements; `NotTooFarAhead` measures it as `larger_than_u32` does, by the sign of
the difference, as the receiver may also be ahead of `seq`.

**Codec.** A buffer is a length and a stack of layers with the keys they were made
with. Lengths are the program's own (`max_data_len` 1800). Key derivation is reduced to
which key each side uses for which direction. Handshakes (bare) and data (safer) share
the buffer and differ by one byte behind the iv.

**Conversations.** Both `conv_manager_t` objects with their two maps and the list of
`lru_collector_t` as a sequence, most recently used first; `erase_conv(m, n)` is the loop of
`clear_inactive0` that takes `n` entries off the back. Packets under way may be lost or
overtake each other and expiry. `owner` and `used` are histories: whose conversation a
socket was opened for, and when each conversation was last used. The member
`last_clear_time` starts with garbage, as in the code, whose constructor sets a local
variable of that name. `ConvTable` is the specification: one table with time stamps
from which the longest idle entries go first; either side refines it.

**RawSocket and Bpf.** A packet is a record of header fields with the real header
sizes; the six filters are the programs of the source, run by a small interpreter. A
step is the arrival of one packet, from the peer or from someone else, well-formed or not
(fragments, wrong ports, truncated or empty TCP headers), and the whole path through the
handler of client or server: peek, discard, `pre_recv_raw_packet`, `recv_raw0`. `cnt` is
`g_packet_buf_cnt`, which the code asserts at every turn.

**Process.** Start-up is a sequence of calls (`startup`), each with the descriptor it opens,
with what follows when it fails and with the reason of the failure; any of them may fail. `exit` is how the
process ended, `why` the event that ended it, which does not depend on how the code
reacted to it: a call that was refused, a signal, a certain assert. A signal without a handler
(`Killed`) ends it anywhere. The loop of the server looks at the flag, waits and handles events; the client's
libev runs callbacks. Of a session only the binding of ports and the descriptors are left. The search for
the route (`Search`) reads two files, unless the peer is 127.0.0.1, and ends the process when
the interface of a route that was found cannot be asked about, with `--retry-on-error` too.

**Options.** A word is an option or a value. The passes are those of the code: extraction
of `--conf-file`, the checks for repeated and unknown options, `getopt_long`, the switch, and
the checks after it. `SameMeaning` states in declarative form what a set of options means.

**Route.** Addresses of `Width` bits; `find_route_entry` goes through the masks as the code
does and is compared with longest prefix match along a chain of gateways.

**Clock.** Every load and store of the two statics is a step. A compiler may keep a loaded
value in a register or load it again: `Reload` does so for either operand of the `+=`, any number of times and
in any order, and `Return` for `value_fix`.

**Aes, AesTables, AesStandard.** One step is one turn of a loop of the code. The S-boxes
are given as in the code, the 256 entries of each of the other tables (`FT0` to `RT3`) as the products they are made
of: a wrong digit in one of those literals would not be seen. `AesStandard` has the field, the state and the rounds as FIPS 197 writes them, and
describes a round of decryption by the round of encryption it undoes; the S-box is the
inverse in the field and the affine map.

**CipherModes, Hash.** The block cipher and the compression function are parameters, and
so are block and word sizes; TLC uses a permutation of small blocks and 4-bit words, so
that a message's length passes one word within a few blocks.

## 3. Runs

| Run | Shows | Bounds |
|---|---|---|
| `server_conns` | tables agree, ready connections are reachable, the newest handshake wins | 3 addresses, 3 clients, 2 ready at most, 2 descriptors, a conversation, 4 time steps: both limits are hit, and two clients recover across each other's addresses |
| `server_convs` | descriptors and owners agree; recovery keeps conversations; everything is given back (liveness) | 1 client on 2 addresses, 2 conversations, 3 descriptors: a number is reused and an epoll failure leaks; the client falls silent and the clock runs past every timeout |
| `tunnel` | agreement and one owner, no data twice, no step back, and the two sides end up connected (liveness) | a new port per session, and one address for all of them (`--force-source-port`); 2 faults, which can cost a client four sessions, so 5 sessions; 1 data packet per session and direction |
| `pcap` | borrowed slot, order, wake-up, no deadlock; packets are drained and the filter is applied (liveness) | ring of 3 slots and 5 packets, so that it fills and wraps; header capture and huge packets |
| `faketcp` | acknowledgements and window; no freeze (liveness) | 5 bytes from 79 on modulo 82, the smallest numbers that `LengthsAssumption` allows, so that the stream wraps; window of two full packets, two packets and two acknowledgements under way; modes 2 (whose steps are those of 0 and 1) and 3 (whose steps are those of 4) |
| `conversations` | right recipient, active ones kept, idle ones cleared (liveness), implements `ConvTable` twice | 2 applications, 2 numbers and 2 sockets, a packet under way in each direction, timeout and interval of 1: expiry on one side while the other still sends, and a socket number given to the next application |
| `startup`: `Process` | rules before sockets and gone with the process, descriptors are owned, a signal ends the process (liveness) | eleven settings, one per path through start-up; 2 bind attempts, 4 files |
| `startup`: `IptablesRule` | protection and no pile-up, clean exit and repeatable `--gen-add`, healing (liveness) | all three modes, 3 failing commands and 2 flushes at any moment, 3 invocations of `--gen-add` |
| `startup`: `Clock` | the event loop's time does not go back | the clock is set back twice, 4 calls of the loop and one of the keep thread in every interleaving |
| `startup`: reading | options, lines, addresses and routes mean what they should | up to 5 options out of 20 in any split and order, with refused and borderline values; lines of 6 characters, addresses of 7; all tables of two routes over 2-bit addresses, and a third, default route |
| `library`: `AntiReplay` | no false drop, implements `AtMostOnce` | window 3, 11 numbers: three windows, so jumps shorter than, equal to and longer than a window, and re-use of every slot |
| `library`: `Codec` | packets read back, only sent ones, room for everything up to the limit | all 20 mode pairs, lengths around one block and around 1800, 3 packets merged |
| `library`: `RawSocket` | filters are exact, packets read back, buffer consumed once | all modes, IP versions, programs and options; lengths at which a packet with its headers just fits and just does not; 3 RSTs, one allowed |
| `library`: `Aes` | implements `AesStandard` | 3 keys, 3 blocks, all ten rounds, there and back |
| `library`: functions | checksums, TCP options, cipher sessions, digests in pieces, derived keys, CRC | words at the edges of 16 bits and sums that carry twice; two packets of 0 to 7 units over blocks of 3; three pieces of up to 10 words over blocks of 4 and 4-bit lengths |

All bounds are constants of the modules, named and commented there. Some properties
presuppose what they can not do without: `Protected` that nobody flushed and that no
command failed (for protection) or at most one did (for no pile-up), `CleanExit` that none
did (a failing delete at exit is ignored by the code and leaves its rule), `NoLostWakeup` and
`Drained` that `async_cb` did not return early, `RulesWithProcess` that none of the five events in `Unclean`
ended the process (the assert on the receive buffer of the sending socket, the one on the peer's address
with `--lower-level auto`, the server's loop returning for a descriptor that is gone, the assert of
`fd_manager`, a signal without a handler), `SignalEnds` that the client is not in the
`--retry-on-error` loop, which no signal ends, `ClockMonotone` that the two threads' calls did not
overlap while the clock was set back. The failing cases are in the same runs.

Four runs expect a violation; each states what the repository says of the program
and shows a behaviour of the code that contradicts it (`findings`):

- `server_fd_conflict`: after a failed `epoll_ctl` (`server.cpp` 156-162) the socket is
  closed but its entry stays in `fd_manager`; the next descriptor with that number
  fails `assert(!fd_exist(fd))`.
- `server_stale`: an event for a socket whose conversation expired earlier in the same
  batch makes `server_event_loop` return -1 (`server.cpp` 763-766), which ends the server.
- `iptables_keep_exit`: `myexit` cancels the keep thread without waiting for it
  (`common.cpp` 840-848); its command in flight adds the rule again after the delete.
- `retry_leak`: `read_file` (`common.cpp` 880-905) never closes its descriptor, so the loop of
  `--retry-on-error` runs out of descriptors, and does not find the route when the network
  is there at last.

Deadlock is checked where the system never stops by itself (`pcap`, `faketcp`). It is off
where the model's bounds (clock, sessions, packets) end a behaviour or the process exits.

### Fairness

- `Server`: time passes, the thread handles every event of a batch, every timerfd is
  in the batch again and again, and `clear_it` walks round the table, so every
  entry is looked at again and again (strong fairness per entry).
- `Tunnel`: the timers of both sides run; a packet that is retried arrives in the end
  (weak fairness of receiving, as the packet stays in `net`); a peer that can not get
  on times out. No fairness for faults, data or restarts.
- `PcapReader`: both threads are scheduled. `pcap_loop` looks at the flag between any two
  packets and libev runs a pending event in each iteration, whatever else happens (strong
  fairness of `LoopReturns` and `AsyncCb`), and the reader sleeps a second after `pcap_loop` returns, long
  enough for the lock loop, which tries every millisecond (strong fairness of success).
- `IptablesRule`: commands and sleeps end; the loop looks at `about_to_exit`. A signal
  need not come, commands need not fail.
- `Process`: the thread goes on, `epoll_wait` returns (its timer is due again and again), and
  callbacks end. No call need succeed or fail, and no signal need come.
- `Conversations`: both timers run, time passes, and what is under way arrives or is lost.
- `FakeTcp`: both ends keep sending (heartbeats), and the network delivers what is sent
  over and over: strong fairness for the packet the receiver waits for.

## 4. Proofs

`WireProofs`, the window (for every window size and number range; the assumptions are
`WindowSizeAssumption` and `SeqLimitAssumption`, both only say "positive"):

- `ReplayProtection`: `Spec => []NoReplay`; `FreshPasses`: `Spec => []NoFalseDrop`;
  `TypeCorrect`; `Refinement`: the window implements `AtMostOnce`.
- `NoReplay` is not inductive: it says nothing of the marks, and the next repeated
  number is only stopped by one. The inductive invariant is `TypeOK`, `NoReplay` and
  `MarksExact`: inside the window a number other than 0 is marked exactly when it was
  delivered, and nothing above the largest number was. The steps that matter rest on
  lemmas about `%`: two numbers less than a window apart have the same slot only if
  they are equal.

`WireProofs`, the raw socket (for every payload length up to what a buffer of the program holds, every
`max_rst_allowed`, all modes, versions and options; `LengthsAssumption`, `RstAssumption`):

- `FilterMeans`: what each of the six attached programs lets through, for every packet whose fields have their types
  and every port. The programs are executed symbolically: `Runs` is the function of machine states that
  `Exec` defines (`RunExists`), one lemma per instruction moves on in it, and a proof per program follows its jumps.
- `FilterExactAlways`: `[]FilterExact`; `RoundTripAlways`: `[]RoundTrip`; `BufferOnceAlways`: `[]BufferOnce`. The
  invariant `RawInv` only says that the packet is one of typed fields and the buffer is empty between two packets;
  the work is in the lemmas, which hold for every such packet, and in what `send_raw0` makes (`PeerPacket`).

`WireProofs`, the framing (for every set of payload lengths, number of packets and number of merged ones, all modes;
`LengthsAssumption`, `PacketsAssumption`):

- `ReadBackAlways`: `[]ReadBack`; `OnlySentAlways`: `[]OnlySent`.
- `Coded`: what `my_encrypt` puts around a payload `my_decrypt` takes off, in every mode and for every length.
  `SplitIs` and `CompleteIs`: what the loop of `recv_safer_multi` reads of merged and cut packets is their longest
  prefix without a handshake, a cut one or one of more than 1800 bytes, and what arrived complete is the same without
  the last clause.
- The inductive invariant `CodecInv`: `NumberedSent` (the i-th payload has number i), `OnTheWay` (each packet is the frame
  of a payload that was sent, in order), `WhatWasRead` (so is what was read, and all of it is older than what
  is on the way, which is why nothing is read twice) and `AsItArrived` (with authentication, and as long as no packet of
  more than 1800 bytes arrived, what was read is what arrived).
- `From`, `Exec` and `Accesses` are recursive functions. That the function exists, and what it computes, is proved from
  a least counterexample: if the values up to n were the last ones that fit together, one more could be added.

`PcapReaderProofs` (for every queue length, bound and option; `ConstantsAssumption`):

- `BorrowedSlotSafe`, `FilterMutex`, `WakeupKept`, `TypeCorrect`.
- The inductive invariant has five parts: types; `Borrowing` (while the callback copies,
  the slot is the one just before `head`, which `full` keeps the reader from filling,
  and still holds what was borrowed); `Locking` (who holds `pcap_mutex` follows from where the
  threads are); `Wakeup` (what is in the ring is announced, about to be announced
  or being drained); `Ordered` (below).
- `RingOrder`: `Spec => []InOrder`. `InOrder` computes what lies between `head` and `tail`
  with `%`; `Ordered` states it index by index and without `%`, for either index having wrapped
  round, and is preserved by `push_back` and `pop_front`.

`StartupProofs`, the process (for every limit and every set of settings; `SettingsAssumption` only says
which options a setting is made of):

- `RulesWithProcessAlways`: `Spec => []RulesWithProcess`. The property is about what happened, not about what the code
  did then: a call that was refused ends with no rule left, so a call that asserts or returns where it
  should call `myexit` violates it, as does an `init_raw_socket` before `iptables_rule` (both are mutants). It is not
  inductive: that a raw socket is only open after the rules were added depends on the order of `startup(opt)`.
  `RulesInv` says it by the number of the step, and `StartupOpens` gives the second call of any start-up, the
  asserts it contains, and that the pcap build adds no rules.
- `DescriptorsOwnedAlways`: `Spec => []DescriptorsOwned`. Why a call of start-up never opens what is
  open already is a property of the sequence `startup(opt)`, which depends on the options; the lemmas
  about `Opens` say of each piece which variables it opens, each once, and which asserts it has, and compose them.

`StartupProofs`, the other parts of `MCStartup` (any bounds, by `BoundsAssumption`; `RouteAssumption`: masks are positive, there
are four addresses at least, and more lookups than routes in a table):

- `StartupProtected`: `[]Protected`; `StartupCleanExit`: `[]CleanExit`, for the rules as the run has them. The invariant of
  `IptablesRuleProofs` is taken over through an instance; it also holds in the state in which the rules have ended.
- `ClockMonotoneAlways`: `ClockMonotone`. `ClockInv` has two regimes. While no two calls have overlapped the clock may be set back as
  often as it likes: the last time returned is `largest_value` (`Alone`). While the clock was not set back calls
  may overlap as they like: a stored value may be lost and either operand loaded again, but only one thread is ever behind the other's store (`Apart`), and what a call
  will return is not before what its thread returned last (`Ahead`). After both nothing is claimed.
- `NextHopRight`: for every routing table shorter than the limit on lookups and every ARP table `find_lower_level_info`
  returns the next hop of longest prefix matching; `NextHopAlways`: `[]NextHop`. The recursive function `search` exists by a
  least counterexample; with n lookups it finds the way to every address that has one of at most n gateways; and a way
  without a circle is no longer than the table (by counting).

`ServerProofs` (for any numbers of addresses, clients, connection objects, descriptors and
conversations; `NullAssumption`, `LimitAssumption`):

- `TablesAgree`: `[]TablesExact`; `DescriptorsOwned`: `[]FdsOwned`; `RecoveryByAge`: `NewestWins`;
  `RecoveryKeepsConvs`: `ConvsSurviveRecovery`; `TypeCorrect`.
- The two invariants need each other, `TypeOK`, and two more parts. `CounterFresh`: a fd64 at or above
  the counter has no entry; without it a new timer could replace another connection's. `Ready`
  is finite, although the set of addresses `operator new` may return need not be: otherwise
  `ready_num`, its cardinality, could not be counted up and down. `MaxFd64` is at least 1, as the
  type of the counter needs a first value.
- Recovery is the step where most conjuncts are at risk. Its effect on the two objects and on the two
  tables is one lemma each (`RecoverSwaps`, `RecoverEffect`), and every part of the invariant is proved
  from these.

`TunnelProofs` (for any number of sessions, packets, addresses and faults, with and without
`--force-source-port`; `OptionAssumption`, `BoundAssumption`):

- `Agreement`: `[]SessionAgreement`; `AtMostOnceEndToEnd`: `[]DataAtMostOnce`; `NeverBackToOlder`:
  `SessionMonotone`; `TypeCorrect`.
- None of these is inductive, as `net` keeps every packet ever sent and each may arrive at any time.
  The inductive invariant says of each packet in `net` what must have happened for it to
  exist: `Confirmed` and `Granted` (an id pair in a packet was accepted or answered by the other side),
  `OneReady` and `OwnId` (one connection is ready, and no other live one has its id).
- `AtMostOnceEndToEnd`: `SeqOnce` (a number stands for one packet of its sender), and `UpOnce`,
  `DownOnce`: the connection that a delivered packet names has the number in its window, or is gone and
  no new connection can get its id.
- `NeverBackToOlder` is the deepest of them: the server decides by the age of its connections, not
  by the client's sessions. `SameOrder` links the two orders: of two answers that the client confirmed
  the one for the later session names the later connection. `Answers` and `NewestHere` carry this through the
  handshake.
- `TypeCorrect` needs a counting argument: nothing bounds a sequence number directly, but every
  number was used for a heartbeat, one per session, or for data (`ClientCount`, `ServerCount`).

`IptablesRuleProofs` (any number of failing commands, flushes and invocations, all modes; no assumption):

- `AlwaysProtected`: `[]Protected`; `AlwaysCleanExit`: `[]CleanExit`.
- What the firewall holds depends on how many commands of which list have run. The inductive
  invariant says which suffix of its list each thread still has (`Control`), and for each place in each list
  what has been made or removed by then (`Adding`, `Installing`, `Renewing`, `Clearing`), with
  the number of failed commands; `Serving` says that the chain that is not being renewed is in place.

`ConversationsProofs` (any tables, timeouts, ratios and numbers of packets; `ConvAssumption`):

- `RightRecipientAlways`: `[]RightRecipient`; `ActiveKeptAlways`: `ActiveKept`; `Refinement`:
  `ImplementsConvTable`, step by step for both managers.
- `Sound` is what the asserts of `lru_collector_t` and both maps rest on: the maps are inverse to each
  other, the list is sorted by time, without repetition, and has the same keys. `Histories` links
  the list's stamps to the time of the last data. `Held` says there is one function from all numbers ever
  given out to addresses, for good: the client's table, every packet under way and every socket
  of the server agree with it. This is why expiry on one side only does no harm.
- `clear_inactive0` takes entries off the back one after the other. The model says how
  many, as the largest number that the list and the ratio allow, so that no induction is needed.

`FakeTcpProofs` (any number space, window, packet lengths, start; `LengthsAssumption`):

- `AckNeverBack`: `AckMonotone`; `AlwaysInWindow`: `[]InWindow`; `TypeCorrect`.
- Numbers modulo `NumMod` cannot be ordered; positions in the stream can. `Positions` says there are integers
  `S`, `A`, `E` and one for each packet under way, of which the numbers are the remainders, that lie close
  enough together for `larger_than_u32` to compare them rightly (`LargerNum`). In modes 3 and 4 there
  is one more for each acknowledgement under way (`Known`): these are sorted, and two neighbours are at most one
  window apart, so that an acknowledgement that was overtaken by all `MaxFlight` others is still known to be
  recent. This gives the bound in `LengthsAssumption`.
- `LengthsAssumption` says that 2 `MaxFlight` + 5 windows and `MaxAhead` are less than half the number
  space. In the program the largest window is 40960 * 2^5 bytes (`network.cpp` 44, 46 and 2577), so 2^31 leaves room for
  packets overtaken by eight hundred others. The assumption bounds the network: a packet that is delayed by half
  the number space is accepted as new, by this code as by TCP without time stamps.
- The invariant, with ghost variables for the positions, was checked by TLC on the run's instance before it
  was proved. The attempt showed that an earlier form of the bound `NotTooFarAhead` compared remainders and
  so silenced the sender of modes 0 to 2 as soon as the receiver was ahead of `seq`; it compares by sign now.

Only model-checked:

- Liveness (fairness and ENABLED are out of the prover's reach): `Reclaimed`, `EventuallyConnected`, `Drained`,
  `FilterApplied`, `Progress`, `IdleCleared`, `SignalEnds`, `Healed`.
- What is computed by folds over text, options or blocks and by bitwise operators: `ConfigurationRead`,
  `HeadersRight`, `CryptographyRight`, `ImplementsAes`. No module uses RECURSIVE operators; recursive functions
  can be reasoned about, as above, but not the bitwise operators that the ciphers rest on.
- The four violations, which are counterexamples of a behaviour each.

## 5. Not modelled

- libev (vendored; 6000 lines of a general event loop of which the program uses timers,
  io, signal and async watchers): its effects are modelled where they are used.
- Logging and the npcap loader: no state that anything else reads.
- The compression functions of MD5 and SHA, AES with 192 and 256 bits, CFB8, CTR and the
  libraries' self tests. The first are a parameter of `Hash`, the others are never called.
- The obsolete AEAD functions of `encrypt.cpp`, which no caller uses.
- The values of the client's timers: a timeout may come early as a fault and comes for
  certain when the peer is gone.
- The numbers of the three-way handshake and of time stamps: `FakeTcp` begins with a
  ready connection, `RawSocket` has the flags of the handshake only.
- `--disable-conv-clear`, `-g` (prints the rule), `--clear` (a shell pipeline over all rules), and the
  help texts.

What was met while modelling and is not a property of a run: a trailing `--conf-file` without
a value is not refused, as `i == argc` (`misc.cpp` 770) never holds inside the loop;
`--easy-tcp` with `--source-port` ends the client, as it has no socket to make nonblocking
(`client.cpp` 158, `Bound` in `Process`); `recv_bare` does not take merged packets apart
although `recv_safer_multi` does; a whole packet of more than 1800 bytes is dropped without
`--fix-gro`, although its payload was within the sender's limit (`RoundTrip` states the exact
limit).

## 6. Plan

Done: all modules above and their runs; proofs of all safety properties but those named in section 4.

Next, in this order:

1. Proofs: `HeadersRight` of `Helpers`; the chaining of `CipherModes` over any block cipher.
2. `TcpHandshake`: the numbers of the three-way handshake and the two handshakes after it
   (`client.cpp` 173-276 and 402-466, `server.cpp` 337-362), composed with `FakeTcp`'s initial states.
3. `ClientTimer`: the client's timers with their values, and that its detection of a dead
   server is timely.
