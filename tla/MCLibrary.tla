------------------------------ MODULE MCLibrary -----------------------------
(***************************************************************************)
(* The way of a packet for TLC, from the payload to the network and back.  *)
(* A behaviour is one of Wire or of Aes, or one evaluation of checksums    *)
(* and TCP options, of a cipher mode or of a hash; part says which, and    *)
(* the variables of the others do not change.                              *)
(***************************************************************************)
EXTENDS Wire, AesTables

VARIABLES
    key, block, RK, DK, mode, input, round, X, output,                        \* Aes
    given                                                                     \* the others

aes == <<key, block, RK, DK, mode, input, round, X, output>>
all == <<part, vars, codec, raw, aes, given>>

Line(a, b) == [i \in 1 .. 16 |-> (a * i + b) % 256] \o << >>
A == INSTANCE Aes WITH
        Keys <- {Line(1, 255), Line(0, 0), Line(37, 11)},
        Inputs <- {Line(17, 239), Line(0, 0), Line(5, 200)}, Rounds <- 10

H == INSTANCE Helpers

\* A permutation of the blocks of three numbers below 8.
MCE(k, b) == <<(5 * b[2] + k[1]) % 8, (3 * b[3] + b[2] + k[2]) % 8,
               (7 * b[1] + b[2] * b[3] + k[1]) % 8>>
MCD(k, c) == CHOOSE b \in (0 .. 7) \X (0 .. 7) \X (0 .. 7) : MCE(k, b) = c
M == INSTANCE CipherModes WITH E <- MCE, D <- MCD, BlockLen <- 3

\* Blocks of four words of four bits, so that the length passes one word.
MCCompress(alg, s, b) ==
    LET x == (3 * b[1] + 5 * b[2] + 7 * b[3] + 11 * b[4] + s[1] * s[2] + Len(s)) % 16
        y == (b[1] * b[3] + 9 * b[2] + 13 * b[4] + s[1]) % 16
    IN  IF Len(s) = 2 THEN <<x, y>> ELSE <<x, y, (x + s[3] + b[4]) % 16>>
MCIV(alg) ==
    CASE alg = "md5" -> <<1, 2>> [] alg = "sha1" -> <<3, 9>> [] alg = "sha256" -> <<6, 10>>
      [] alg = "sha224" -> <<12, 4, 3>>
D == INSTANCE Hash WITH
        Compress <- MCCompress, IV <- MCIV, BlockLen <- 4, Width <- 4, MaxExpand <- 3

-----------------------------------------------------------------------------
(* What is given to the functions. *)
Nothing == [of |-> "nothing"]

Seqs(T, n) == UNION {[1 .. k -> T] : k \in 0 .. n}
Runs == {0, 1, 32768, 65534, 65535} \X {1, 2}
PseudoHeaders == Seqs(Runs, 1) \cup {<<<<65535, 1>>, <<1, 1>>>>}
Contents == Seqs(Runs \cup {<<65535, 16380>>, <<255, 8000>>}, 2)

Pattern(n, a, m) == SubSeq([i \in 1 .. n |-> (a * i * i + 3) % m], 1, n)

Ciphers == {[cipher |-> c, old |-> o, key |-> <<1, 5>>, block_key |-> <<3, 2>>] :
               c \in {"xor", "aes128cbc", "aes128cfb"}, o \in BOOLEAN}

Starts ==
    {[of |-> "checksum", header |-> h, runs |-> << >>] : h \in PseudoHeaders}
    \cup {[of |-> "options", s |-> << >>]}
    \cup {[of |-> "session", o |-> o, packets |-> << >>] : o \in Ciphers}
    \cup {[of |-> "pieces", alg |-> a, key |-> Pattern(k, 1, 16), pieces |-> << >>] :
             a \in {"md5", "sha1", "sha256", "sha224"}, k \in {0, 3, 4, 5, 9}}
    \cup {[of |-> "keys", password |-> Pattern(p, 1, 16), salt |-> << >>, iterations |-> 1, length |-> 0] :
             p \in 0 .. 5}
    \cup {[of |-> "crc", message |-> << >>]}

\* Another run of words, byte, packet, piece; another salt and length.
Give ==
    /\ \/ /\ given.of = "checksum" /\ given.runs = << >>
          /\ \E r \in Contents : given' = [given EXCEPT !.runs = r]
       \/ /\ given.of = "options" /\ Len(given.s) < 4
          /\ \/ \E b \in {0, 1, 2, 3, 8, 10} : given' = [given EXCEPT !.s = Append(@, b)]
             \/ \E n \in 6 .. 9 : given' = [given EXCEPT !.s = @ \o <<8, 10>> \o [i \in 1 .. n |-> 8]]
       \/ /\ given.of = "session" /\ Len(given.packets) < 2
          /\ \E n \in (IF given.o.cipher = "aes128cfb" THEN 3 ELSE 0) .. 7, a \in {1, 3, 5, 6} :
                given' = [given EXCEPT !.packets = Append(@, Pattern(n, a, 8))]
       \/ /\ given.of = "pieces" /\ Len(given.pieces) < 3
          /\ \E n \in (IF given.pieces = << >> THEN 0 .. 10 ELSE
                       IF Len(given.pieces) = 1 THEN 0 .. 9 ELSE {1, 2}) :
                given' = [given EXCEPT !.pieces = Append(@, Pattern(n, 3 + Len(@), 16))]
       \/ /\ given.of = "keys" /\ given.length = 0
          /\ \E n \in 0 .. 4, i \in 1 .. 3, l \in 1 .. 7 :
                given' = [given EXCEPT !.salt = Pattern(n, 3, 16), !.iterations = i, !.length = l]
       \/ /\ given.of = "crc" /\ Len(given.message) < 2
          /\ \E b \in (IF given.message = << >> THEN SUBSET (0 .. 7) ELSE {{}, {1, 4, 7}}) :
                given' = [given EXCEPT !.message = Append(@, b)]
    /\ UNCHANGED <<part, vars, codec, raw, aes>>

-----------------------------------------------------------------------------
(* The first states of the parts that are not looked at. *)
AesRests ==
    /\ key = Line(0, 0) /\ block = Line(0, 0) /\ RK = A!Words(key) /\ DK = << >>
    /\ mode = "idle" /\ input = << >> /\ round = 0 /\ X = << >> /\ output = << >>

MCInit ==
    \/ WireInit /\ AesRests /\ given = Nothing
    \/ part = "aes" /\ A!Init /\ ReplayRests /\ CodecRests /\ RawRests /\ given = Nothing
    \/ part = "functions" /\ given \in Starts /\ ReplayRests /\ CodecRests /\ RawRests /\ AesRests

MCNext ==
    \/ WireNext /\ UNCHANGED <<aes, given>>
    \/ part = "aes" /\ A!Next /\ UNCHANGED <<part, vars, codec, raw, given>>
    \/ part = "functions" /\ Give

MCSpec == MCInit /\ [][MCNext]_all

-----------------------------------------------------------------------------
(* The properties of the instances. *)

\* The tables compute AES, step by step.
ImplementsAes == A!ImplementsAes

\* A checksum that csum wrote verifies, and the options of a TCP header are
\* scanned without leaving it.
HeadersRight ==
    CASE given.of = "checksum" -> H!ChecksumVerifies(given.header, given.runs)
      [] given.of = "options" -> H!OptionScan(given.s)
      [] OTHER -> TRUE

RightFor(g) ==
    CASE g.of = "session" -> M!SessionReadBack(g.o, g.packets)
      [] g.of = "pieces" -> D!PiecesHashed(g.alg, g.key, g.pieces)
      [] g.of = "keys" -> D!KeysDerived(g.password, g.salt, g.iterations, g.length)
      [] g.of = "crc" -> D!CrcRight(g.message)
      [] OTHER -> TRUE

\* The packets of a session are decrypted to what they were, and encrypted as
\* SP 800-38A says; digests, HMACs, derived keys and CRCs are those of their
\* standards: for whatever is given next.
CryptographyRight == [][RightFor(given')]_given
=============================================================================
