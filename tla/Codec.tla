------------------------------- MODULE Codec --------------------------------
(***************************************************************************)
(* What is put around a payload, and taken off again: an iv and padding    *)
(* around a handshake (send_bare); ids, sequence number, type and roller   *)
(* around the data of a ready connection (send_safer), with --fix-gro also *)
(* a length, because the kernel of the receiver may hand over several      *)
(* packets merged into one, the last of them cut off; and around both      *)
(* authentication and cipher (encrypt.cpp).                                *)
(*                                                                         *)
(* A buffer is a length in bytes and the layers around the payload, with   *)
(* the key each was made with.  A layer comes off with the right key only. *)
(* Payload lengths and the constants are those of the program.             *)
(***************************************************************************)
EXTENDS Integers, Sequences, SequencesExt

CONSTANTS
    AuthModes,    \* subset of {"none", "crc32", "simple", "md5", "hmac_sha1"}
    CipherModes,  \* subset of {"none", "xor", "aes128cbc", "aes128cfb"}
    Lengths,      \* payload lengths, at most max_data_len: longer ones never get here
    MaxPackets,   \* bound: packets sent
    MaxMerge      \* bound: packets the kernel merges

max_data_len == 1800
HeaderLen == 18   \* two ids, the sequence number, type and roller
BareLen == 17     \* iv, padding and 'b'
HandshakeLen == 12

VARIABLES
    auth_mode, cipher_mode, g_fix_gro,  \* the options, the same on both sides
    sender,                             \* "client" or "server"
    sent,                               \* payloads given to send_safer or send_bare
    wire,                               \* packets on their way, in order
    arrived,                            \* history: packets handed over complete
    got                                 \* payloads recv_safer_multi or recv_bare returned

options == <<auth_mode, cipher_mode, g_fix_gro, sender>>
vars == <<options, sent, wire, arrived, got>>

Garbled == [id |-> 0, type |-> "d", len |-> 0]

-----------------------------------------------------------------------------
(* Keys: my_init_keys *)

is_hmac_used == auth_mode = "hmac_sha1"

Side(what) ==
    IF what = "encrypt" THEN sender ELSE IF sender = "client" THEN "server" ELSE "client"

\* Without hmac there is one key.  With it each direction has its own, and
\* the client exchanges the server's two.
key(what) ==
    IF ~is_hmac_used THEN "normal_key"
    ELSE IF (Side(what) = "server") = (what = "encrypt")
         THEN "server-->client" ELSE "client-->server"

-----------------------------------------------------------------------------
(* Layers *)

NoBuffer == [payload |-> Garbled, len |-> -1, layers |-> <<>>]
Failed(b) == b = NoBuffer

AddLayer(b, kind, n) ==
    [b EXCEPT !.len = @ + n, !.layers = Append(@, <<kind, key("encrypt"), n>>)]

\* The top layer if it is of that kind and made with this side's key.
Removable(b, kind) ==
    b.layers # <<>> /\ Last(b.layers)[1] = kind /\ Last(b.layers)[2] = key("decrypt")

RemoveLayer(b) == [b EXCEPT !.len = @ - Last(b.layers)[3], !.layers = Front(@)]

AuthLen == [none |-> 0, crc32 |-> 4, simple |-> 8, md5 |-> 16, hmac_sha1 |-> 20]

auth_cal(b) == AddLayer(b, "auth", AuthLen[auth_mode])

auth_verify(b) ==
    IF Failed(b) \/ b.len < AuthLen[auth_mode] \/ ~Removable(b, "auth")
    THEN NoBuffer ELSE RemoveLayer(b)

\* Mutant: a whole block is added to the one that is filled up.
padding_Block(len) == ((len \div 16) + 2) * 16 - len

\* How many bytes padding(.., 16) adds: at least the one that holds the number.
padding(len) ==
    LET more == len + 1
    IN  (IF more % 16 # 0 THEN (more \div 16) * 16 + 16 ELSE more) - len

\* aes128cfb needs a whole block (its assert); the header is longer.
cipher_encrypt(b) ==
    AddLayer(b, "cipher", IF cipher_mode = "aes128cbc" THEN padding(b.len) ELSE 0)

\* de_padding subtracts the last byte, which is the number of bytes added; a
\* byte above 16 is refused, a byte 0 was never written by padding.
cipher_decrypt(b) ==
    IF \/ Failed(b) \/ ~Removable(b, "cipher")
       \/ cipher_mode = "aes128cbc" /\ (b.len % 16 # 0 \/ Last(b.layers)[3] \notin 1 .. 16)
       \/ cipher_mode = "aes128cfb" /\ b.len < 16
    THEN NoBuffer ELSE RemoveLayer(b)

my_encrypt(b) ==
    IF b.len > max_data_len THEN NoBuffer
    ELSE IF is_hmac_used THEN auth_cal(cipher_encrypt(b)) ELSE cipher_encrypt(auth_cal(b))

my_decrypt(b) ==
    IF b.len > max_data_len THEN NoBuffer
    ELSE IF is_hmac_used THEN cipher_decrypt(auth_verify(b)) ELSE auth_verify(cipher_decrypt(b))

-----------------------------------------------------------------------------
(* send_safer and recv_safer_multi, send_bare and recv_bare *)

Around(p, n) == [payload |-> p, len |-> p.len + n, layers |-> <<>>]
Frame(p) == my_encrypt(Around(p, HeaderLen))
send_bare(p) == my_encrypt(Around(p, BareLen))

\* reserved_parse_safer, as far as the layers go: zero or one payload.
Parse(b) ==
    LET d == my_decrypt(b)
    IN  IF Failed(d) \/ d.payload.type \notin {"h", "d"} \/ d.len < HeaderLen THEN <<>>
        ELSE <<[d.payload EXCEPT !.len = d.len - HeaderLen]>>

\* Mutant: the byte that tells a handshake from data, at the same place in
\* both, is not looked at.
reserved_parse_bare_AnyType(b) ==
    LET d == my_decrypt(b)
    IN  IF Failed(d) \/ d.len < BareLen THEN <<>>
        ELSE <<[d.payload EXCEPT !.type = "b", !.len = d.len - BareLen]>>

reserved_parse_bare(b) ==
    LET d == my_decrypt(b)
    IN  IF Failed(d) \/ d.payload.type # "b" \/ d.len < BareLen THEN <<>>
        ELSE <<[d.payload EXCEPT !.type = "b", !.len = d.len - BareLen]>>

\* The bytes from the i-th packet on, with their length fields.
From(fs, i) ==
    LET rest[j \in 0 .. Len(fs)] == IF j = 0 THEN 0 ELSE fs[Len(fs) - j + 1].len + 2 + rest[j - 1]
    IN  rest[Len(fs) - i + 1]

\* Mutant: a packet that fills the rest of the data exactly is refused.
Readable_OffByOne(fs, i, cut) ==
    LET left == From(fs, i) - cut
    IN  left >= 16 /\ fs[i].len < left - 2 /\ fs[i].len <= max_data_len

\* The loop of recv_safer_multi reaches the i-th of the merged packets, whose
\* length field is intact, and does not stop there.
Readable(fs, i, cut) ==
    LET left == From(fs, i) - cut
    IN  left >= 16 /\ fs[i].len <= left - 2 /\ fs[i].len <= max_data_len

\* The first bytes of a handshake are no length.
IsData(f) == f.payload.type # "b"

\* What is read from packets fs merged, without the last cut bytes.
Split(fs, cut) ==
    LET Reached(i) == \A j \in 1 .. i : IsData(fs[j]) /\ Readable(fs, j, cut)
    IN  FlattenSeq([i \in 1 .. Len(fs) |-> IF Reached(i) THEN Parse(fs[i]) ELSE <<>>])

\* What may become of bytes that are not one buffer of the sender: no layer
\* fits, and without authentication nobody need notice.
Misread == IF auth_mode = "none" THEN {<<>>, <<Garbled>>} ELSE {<<>>}

\* Without --fix-gro merged packets are one buffer to decrypt.
recv_safer_multi(fs, cut) ==
    IF g_fix_gro
    THEN {Split(fs, cut) \o m : m \in IF \A i \in DOMAIN fs : IsData(fs[i]) THEN {<<>>} ELSE Misread}
    ELSE IF Len(fs) = 1 /\ cut = 0 THEN {Parse(fs[1])} ELSE Misread

\* A handshake has no length in front, data has with --fix-gro.
recv_bare(fs, cut) ==
    IF Len(fs) > 1 \/ cut # 0 \/ (g_fix_gro /\ IsData(fs[1])) THEN Misread
    ELSE {reserved_parse_bare(fs[1])}

-----------------------------------------------------------------------------
Init ==
    /\ auth_mode \in AuthModes /\ cipher_mode \in CipherModes
    /\ g_fix_gro \in BOOLEAN /\ sender \in {"client", "server"}
    /\ sent = <<>> /\ wire = <<>> /\ arrived = <<>> /\ got = <<>>

\* What my_encrypt refuses is not sent.
Transmit(p, frame) ==
    /\ sent' = Append(sent, p)
    /\ wire' = IF Failed(frame) THEN wire ELSE Append(wire, frame)
    /\ UNCHANGED <<options, arrived, got>>

\* send_safer, for data and for a heartbeat.
Send(len, type) ==
    /\ Len(sent) < MaxPackets
    /\ LET p == [id |-> Len(sent) + 1, type |-> type, len |-> len]
       IN  Transmit(p, Frame(p))

\* send_bare of the three numbers numbers_to_char made characters of.
send_handshake ==
    /\ Len(sent) < MaxPackets
    /\ LET p == [id |-> Len(sent) + 1, type |-> "b", len |-> HandshakeLen]
       IN  Transmit(p, send_bare(p))

\* The network drops the oldest packet.
Lose ==
    /\ wire # <<>> /\ wire' = Tail(wire)
    /\ UNCHANGED <<options, sent, arrived, got>>

\* Of packets fs merged those a ready connection is given complete: without
\* --fix-gro only one that comes alone, with it all up to the first handshake.
Complete(fs, cut) ==
    LET whole == IF cut = 0 THEN fs ELSE Front(fs)
    IN  IF g_fix_gro
        THEN FlattenSeq([i \in DOMAIN whole |->
                IF \A j \in 1 .. i : IsData(whole[j]) THEN <<whole[i]>> ELSE <<>>])
        ELSE IF Len(fs) = 1 /\ cut = 0 /\ IsData(fs[1]) THEN fs ELSE <<>>

\* The kernel hands over the k oldest packets in one piece, of which the last
\* cut bytes are missing, to a connection that is ready.
ReceiveSafer(k, cut) ==
    LET fs == SubSeq(wire, 1, k)
    IN  /\ \E r \in recv_safer_multi(fs, cut) : got' = got \o r
        /\ arrived' = arrived \o Complete(fs, cut)
        /\ wire' = SubSeq(wire, k + 1, Len(wire))
        /\ UNCHANGED <<options, sent>>

\* ... or to one that is waiting for a handshake.
ReceiveBare(k, cut) ==
    LET fs == SubSeq(wire, 1, k)
    IN  /\ \E r \in recv_bare(fs, cut) : got' = got \o r
        /\ arrived' = arrived \o (IF k = 1 /\ cut = 0 /\ ~IsData(fs[1]) THEN fs ELSE <<>>)
        /\ wire' = SubSeq(wire, k + 1, Len(wire))
        /\ UNCHANGED <<options, sent>>

Next ==
    \/ \E len \in Lengths : Send(len, "d")
    \/ Send(0, "h")
    \/ send_handshake
    \/ Lose
    \/ \E k \in 1 .. MaxMerge, cut \in {0, 1} :
          k <= Len(wire) /\ (ReceiveSafer(k, cut) \/ ReceiveBare(k, cut))

Spec == Init /\ [][Next]_vars

-----------------------------------------------------------------------------
(* Properties *)

\* Whatever was merged: a packet that arrived complete and is no longer than
\* max_data_len on the wire is read, unless a longer one came before it; what
\* is read has the length it was sent with, and the order.
ReadBack ==
    LET oversize == \E f \in {arrived[i] : i \in DOMAIN arrived} : f.len > max_data_len
    IN  auth_mode # "none" /\ ~oversize =>
            got = [i \in DOMAIN arrived |-> arrived[i].payload]

\* Nothing is returned that was not sent, and nothing twice or out of order or
\* as the other kind, handshake or data; without authentication, merged
\* packets may be read as something else.
OnlySent ==
    LET meant == {i \in DOMAIN got : got[i] # Garbled}
    IN  /\ auth_mode # "none" => meant = DOMAIN got
        /\ \E f \in [meant -> DOMAIN sent] :
              /\ \A i \in meant : got[i] = sent[f[i]]
              /\ \A i, j \in meant : i < j => f[i] < f[j]

\* A frame fits the buffers of both sides, and a payload that leaves room for
\* the header, the authentication and one block is not lost to the length
\* checks of either side.
RoomEnough ==
    /\ \A i \in DOMAIN wire :
          /\ wire[i].len + 2 \in 1 .. max_data_len + 400
          /\ wire[i].payload.len + HeaderLen \in 1 .. max_data_len
    /\ \A i \in DOMAIN sent :
          LET frame == IF sent[i].type = "b" THEN send_bare(sent[i]) ELSE Frame(sent[i])
          IN  sent[i].len <= max_data_len - HeaderLen - AuthLen[auth_mode] - 16 =>
                  ~Failed(frame) /\ frame.len <= max_data_len
=============================================================================
