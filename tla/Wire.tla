-------------------------------- MODULE Wire --------------------------------
(***************************************************************************)
(* The way of a packet from the payload to the network and back: the       *)
(* sequence numbers (AntiReplay), the layers around the payload (Codec)    *)
(* and the headers, filters and the buffer of the raw socket (RawSocket).  *)
(* A behaviour is one of these; part says which, and the variables of the  *)
(* others do not change.                                                   *)
(***************************************************************************)
EXTENDS AntiReplay

CONSTANTS
    PayloadLengths, MaxPackets, MaxMerge,  \* of Codec
    RawLengths, max_rst_allowed, MaxRst    \* of RawSocket

\* What the raw socket sends was put into a buffer of max_data_len + 400 bytes.
ASSUME LengthsAssumption == PayloadLengths \subseteq Nat /\ RawLengths \subseteq 0 .. 2200
ASSUME PacketsAssumption == MaxPackets \in Nat /\ MaxMerge \in Nat
ASSUME RstAssumption == max_rst_allowed \in Int

VARIABLES
    part,
    auth_mode, cipher_mode, g_fix_gro, sender, sent, wire, arrived, got,      \* Codec
    cfg, conn, table_full, packet, cnt, rst_received, disabled                \* RawSocket

codec == <<auth_mode, cipher_mode, g_fix_gro, sender, sent, wire, arrived, got>>
raw   == <<cfg, conn, table_full, packet, cnt, rst_received, disabled>>

\* Every mode.
P == INSTANCE Codec WITH
        AuthModes <- {"none", "crc32", "simple", "md5", "hmac_sha1"},
        CipherModes <- {"none", "xor", "aes128cbc", "aes128cfb"}, Lengths <- PayloadLengths

\* Every raw mode, IPv4 and IPv6, both programs.
Configs ==
    {[mode |-> m, ver |-> v, prog |-> g, lower_level |-> l, bind_addr_used |-> l, fix_gro |-> f] :
        m \in {"faketcp", "udp", "icmp"}, v \in {4, 6}, g \in {"client", "server"},
        l \in BOOLEAN, f \in BOOLEAN}
S == INSTANCE RawSocket WITH
        Lengths <- RawLengths, max_data_len <- 1800, huge_data_len <- 65635, wire <- packet

-----------------------------------------------------------------------------
(* The first states of the parts that are not looked at. *)
ReplayRests ==
    /\ first_seq = 0 /\ anti_replay_seq = 0 /\ max_packet_received = 0
    /\ window = [i \in Slot |-> 0] /\ delivered = [s \in SeqNum |-> 0]
CodecRests ==
    /\ auth_mode = "none" /\ cipher_mode = "none" /\ g_fix_gro = FALSE /\ sender = "client"
    /\ sent = << >> /\ wire = << >> /\ arrived = << >> /\ got = << >>
RawRests ==
    /\ cfg = (CHOOSE c \in Configs : TRUE) /\ conn = "none" /\ table_full = FALSE
    /\ packet = S!NoPacket /\ cnt = 0 /\ rst_received = 0 /\ disabled = FALSE

WireInit ==
    \/ part = "replay" /\ Init /\ CodecRests /\ RawRests
    \/ part = "codec" /\ P!Init /\ ReplayRests /\ RawRests
    \/ part = "raw" /\ S!Init /\ ReplayRests /\ CodecRests

WireNext ==
    \/ part = "replay" /\ Next /\ UNCHANGED <<part, codec, raw>>
    \/ part = "codec" /\ P!Next /\ UNCHANGED <<part, vars, raw>>
    \/ part = "raw" /\ S!Next /\ UNCHANGED <<part, vars, codec>>

WireSpec == WireInit /\ [][WireNext]_<<part, vars, codec, raw>>

-----------------------------------------------------------------------------
(* The properties of the parts. *)

\* What arrives complete is read as it was sent, and there was room for it.
ReadBack == part = "codec" => P!ReadBack /\ P!RoomEnough

\* Only what was sent is read, in order, once, as what it was.
OnlySent == part = "codec" => P!OnlySent

\* The kernel's filter and the code behind it want the same packets.
FilterExact == part = "raw" => S!FilterExact

\* What the peer sent is received as it was sent, and complete.
RoundTrip == part = "raw" => S!RoundTrip

\* A packet that was read is consumed once; RSTs are counted.
BufferOnce == part = "raw" => S!BufferOnce
=============================================================================
