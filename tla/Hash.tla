-------------------------------- MODULE Hash --------------------------------
(***************************************************************************)
(* The hash functions of lib/md5.cpp, lib/pbkdf2-sha1.cpp and              *)
(* lib/pbkdf2-sha256.cpp and what encrypt.cpp builds on them: the buffering *)
(* of a message that comes in pieces, the padding and the length at its    *)
(* end, HMAC, PBKDF2 and HKDF, the keys of the two sides, and crc32h.      *)
(* The compression function of a block is a parameter.  A word of the      *)
(* code (32 bits) is a number of Width bits here, a byte of a message is a *)
(* word, a block has BlockLen of them, of which two hold the length.       *)
(***************************************************************************)
EXTENDS Integers, SequencesExt, Bitwise

CONSTANTS
    Compress(_, _, _),  \* algorithm, state, block |-> state
    IV(_),              \* initial state of an algorithm
    BlockLen,           \* 64 bytes; divides 2 ^ Width
    Width,              \* 32 bits
    MaxExpand           \* 255 blocks

LOCAL Word == 2 ^ Width
LOCAL XorSeq(u, v) == [i \in DOMAIN u |-> u[i] ^^ v[i]]
LOCAL Fill(n, x) == [i \in 1 .. n |-> x]
LOCAL Drop(s, n) == SubSeq(s, n + 1, Len(s))
LOCAL Take(s, n) == SubSeq(s, 1, n)

-----------------------------------------------------------------------------
(* A context: the algorithm, its state, the length so far in two words,    *)
(* the buffer of a block that is not full, and the pads of HMAC.           *)

starts(ctx) == [ctx EXCEPT !.state = IV(ctx.alg), !.total = <<0, 0>>]

\* sha2_starts; is224 is part of the algorithm's name.
sha2_starts(ctx) == starts(ctx)

NewContext(alg) ==
    starts([alg |-> alg, state |-> << >>, total |-> << >>,
            buffer |-> Fill(BlockLen, 0), ipad |-> << >>, opad |-> << >>])

process(ctx, block) == [ctx EXCEPT !.state = Compress(ctx.alg, @, block)]

\* memcpy into the buffer at left.
Store(ctx, left, bytes) ==
    [ctx EXCEPT !.buffer = Take(@, left) \o bytes \o Drop(@, left + Len(bytes))]

\* Mutant: a buffer that the input fills exactly is kept for the next call.
md5_update_Later(ctx, input) ==
    LET ilen  == Len(input)
        left  == ctx.total[1] % BlockLen
        fill  == BlockLen - left
        low   == (ctx.total[1] + ilen) % Word
        total == <<low, IF low < ilen THEN (ctx.total[2] + 1) % Word ELSE ctx.total[2]>>
        c0    == [ctx EXCEPT !.total = total]
        full  == left # 0 /\ ilen > fill
        c1    == IF full THEN LET s == Store(c0, left, Take(input, fill)) IN process(s, s.buffer) ELSE c0
        rest  == IF full THEN Drop(input, fill) ELSE input
        n     == Len(rest) \div BlockLen
        whole == [i \in 1 .. n |-> SubSeq(rest, BlockLen * (i - 1) + 1, BlockLen * i)]
        c2    == FoldLeft(process, c1, whole)
    IN  Store(c2, IF full THEN 0 ELSE left, Drop(rest, BlockLen * n))

\* The block in the buffer is finished first, then whole blocks are taken from
\* the input, and what remains goes to the buffer.
md5_update(ctx, input) ==
    LET ilen  == Len(input)
        left  == ctx.total[1] % BlockLen
        fill  == BlockLen - left
        low   == (ctx.total[1] + ilen) % Word
        total == <<low, IF low < ilen THEN (ctx.total[2] + 1) % Word ELSE ctx.total[2]>>
        c0    == [ctx EXCEPT !.total = total]
        full  == left # 0 /\ ilen >= fill
        c1    == IF full THEN LET s == Store(c0, left, Take(input, fill)) IN process(s, s.buffer) ELSE c0
        rest  == IF full THEN Drop(input, fill) ELSE input
        n     == Len(rest) \div BlockLen
        whole == [i \in 1 .. n |-> SubSeq(rest, BlockLen * (i - 1) + 1, BlockLen * i)]
        c2    == FoldLeft(process, c1, whole)
    IN  Store(c2, IF full THEN 0 ELSE left, Drop(rest, BlockLen * n))

\* The same text for the other two.
sha1_update(ctx, input) == md5_update(ctx, input)
sha2_update(ctx, input) == md5_update(ctx, input)

update(ctx, input) ==
    CASE ctx.alg = "md5" -> md5_update(ctx, input)
      [] ctx.alg = "sha1" -> sha1_update(ctx, input)
      [] ctx.alg \in {"sha256", "sha224"} -> sha2_update(ctx, input)

\* The length in bits, in two words.
LowBits(total)  == (total[1] * 8) % Word
HighBits(total) == ((total[1] * 8) \div Word + total[2] * 8) % Word

\* Up to the two words of the length in this block, or in the next one when
\* there is no room for them.
Padding(total) ==
    LET last == total[1] % BlockLen
        padn == IF last < BlockLen - 2 THEN BlockLen - 2 - last ELSE 2 * BlockLen - 2 - last
    IN  [i \in 1 .. padn |-> IF i = 1 THEN Word \div 2 ELSE 0]

\* Low word first; the digest is the state.
md5_finish(ctx) ==
    LET c == update(update(ctx, Padding(ctx.total)), <<LowBits(ctx.total), HighBits(ctx.total)>>)
    IN  [ctx |-> c, output |-> c.state]

\* High word first.
sha1_finish(ctx) ==
    LET c == update(update(ctx, Padding(ctx.total)), <<HighBits(ctx.total), LowBits(ctx.total)>>)
    IN  [ctx |-> c, output |-> c.state]

\* The last word of the state is not part of the digest of SHA-224.
sha2_finish(ctx) ==
    LET c == update(update(ctx, Padding(ctx.total)), <<HighBits(ctx.total), LowBits(ctx.total)>>)
    IN  [ctx |-> c, output |-> IF ctx.alg = "sha224" THEN Front(c.state) ELSE c.state]

finish(ctx) ==
    CASE ctx.alg = "md5" -> md5_finish(ctx)
      [] ctx.alg = "sha1" -> sha1_finish(ctx)
      [] ctx.alg \in {"sha256", "sha224"} -> sha2_finish(ctx)

\* md5, sha1, sha2
digest(alg, input) == finish(update(NewContext(alg), input)).output

-----------------------------------------------------------------------------
(* HMAC.  0x36 and 0x5C are two different words here. *)
IPad == 1
OPad == 2

md5_hmac_starts(ctx, key) ==
    LET k == IF Len(key) > BlockLen THEN digest(ctx.alg, key) ELSE key
        Pad(x) == [i \in 1 .. BlockLen |-> IF i <= Len(k) THEN x ^^ k[i] ELSE x]
    IN  update(starts([ctx EXCEPT !.ipad = Pad(IPad), !.opad = Pad(OPad)]), Pad(IPad))

sha1_hmac_starts(ctx, key) == md5_hmac_starts(ctx, key)
sha2_hmac_starts(ctx, key) == md5_hmac_starts(ctx, key)

md5_hmac_finish(ctx) ==
    LET inner == finish(ctx)
    IN  finish(update(update(starts(inner.ctx), ctx.opad), inner.output))

sha1_hmac_finish(ctx) == md5_hmac_finish(ctx)
sha2_hmac_finish(ctx) == md5_hmac_finish(ctx)

\* The message in pieces.
md5_hmac(key, pieces) ==
    md5_hmac_finish(FoldLeft(update, md5_hmac_starts(NewContext("md5"), key), pieces)).output
sha1_hmac(key, pieces) ==
    sha1_hmac_finish(FoldLeft(update, sha1_hmac_starts(NewContext("sha1"), key), pieces)).output
\* is224 chooses "sha224".
sha2_hmac(alg, key, pieces) ==
    sha2_hmac_finish(FoldLeft(update, sha2_hmac_starts(NewContext(alg), key), pieces)).output

hmac(alg, key, pieces) ==
    CASE alg = "md5" -> md5_hmac(key, pieces)
      [] alg = "sha1" -> sha1_hmac(key, pieces)
      [] alg \in {"sha256", "sha224"} -> sha2_hmac(alg, key, pieces)

-----------------------------------------------------------------------------
(* PBKDF2: the counter is four bytes, highest first. *)

Counter(n) == <<0, 0, (n \div Word) % Word, n % Word>>

\* work after the given number of iterations on md1 = U1.
Stretched(alg, password, u1, iterations) ==
    LET Turn(st, i) ==
            LET u == hmac(alg, password, <<st.md1>>)
            IN  [md1 |-> u, work |-> XorSeq(st.work, u)]
    IN  FoldLeft(Turn, [md1 |-> u1, work |-> u1], [i \in 1 .. iterations - 1 |-> i]).work

\* Blocks from the counter on, as many as still fit, the last one cut.
PKCS5_PBKDF2_HMAC_SHA256(password, salt, iterations, key_length) ==
    LET size == Len(IV("sha256"))
        Block(out, n) ==
            LET u1   == hmac("sha256", password, <<salt, Counter(n)>>)
                work == Stretched("sha256", password, u1, iterations)
                left == key_length - Len(out)
            IN  out \o Take(work, IF left < size THEN left ELSE size)
    IN  FoldLeft(Block, << >>, [n \in 1 .. (key_length + size - 1) \div size |-> n])

PKCS5_PBKDF2_HMAC_SHA1(password, salt, iterations, key_length) ==
    LET size == Len(IV("sha1"))
        Block(out, n) ==
            LET u1   == hmac("sha1", password, <<salt, Counter(n)>>)
                work == Stretched("sha1", password, u1, iterations)
                left == key_length - Len(out)
            IN  out \o Take(work, IF left < size THEN left ELSE size)
    IN  FoldLeft(Block, << >>, [n \in 1 .. (key_length + size - 1) \div size |-> n])

-----------------------------------------------------------------------------
(* HKDF. *)

sha256_len == Len(IV("sha256"))
MBEDTLS_ERR_HKDF_BAD_INPUT_DATA == [ret |-> -1, okm |-> << >>]

\* No salt is as many zeros as the digest is long.
hkdf_sha256_extract(salt, ikm) ==
    hmac("sha256", IF salt = << >> THEN Fill(sha256_len, 0) ELSE salt, <<ikm>>)

hkdf_sha256_expand(prk, info, okm_len) ==
    LET n == okm_len \div sha256_len + (IF okm_len % sha256_len # 0 THEN 1 ELSE 0)
        Turn(st, i) ==
            LET t == hmac("sha256", prk, <<st.t, info, <<i % Word>>>>)
                num_to_copy == IF i # n THEN sha256_len ELSE okm_len - st.where
            IN  [t |-> t, where |-> st.where + sha256_len, okm |-> st.okm \o Take(t, num_to_copy)]
    IN  IF Len(prk) < sha256_len \/ n > MaxExpand THEN MBEDTLS_ERR_HKDF_BAD_INPUT_DATA
        ELSE [ret |-> 0,
              okm |-> FoldLeft(Turn, [t |-> << >>, where |-> 0, okm |-> << >>], [i \in 1 .. n |-> i]).okm]

hkdf_sha256(salt, ikm, info, okm_len) ==
    hkdf_sha256_expand(hkdf_sha256_extract(salt, ikm), info, okm_len)

-----------------------------------------------------------------------------
(* crc32h.  A word is the set of its bits that are set. *)

LOCAL Flip(a, b) == (a \ b) \cup (b \ a)
LOCAL Right(a, n) == {i - n : i \in {j \in a : j >= n}}
LOCAL g0 == {5, 8, 9, 15, 19, 20, 21, 23, 24, 26, 27, 29, 30, 31}   \* 0xEDB88320
LOCAL g6 == Flip(Right(g0, 6), g0)

\* A byte at a time: bit i of the low byte adds the polynomial shifted 7 - i.
crc32h(message) ==
    LET g(n) == CASE n < 6 -> Right(g0, n) [] n = 6 -> g6 [] n = 7 -> Right(g6, 1)
        One(crc, byte) ==
            LET x == Flip(crc, byte)
                c == FoldLeft(LAMBDA acc, i : IF i \in x THEN Flip(acc, g(7 - i)) ELSE acc,
                              {}, [i \in 1 .. 8 |-> i - 1])
            IN  Flip(Right(x, 8), c)
    IN  (0 .. 31) \ FoldLeft(One, 0 .. 31, message)

-----------------------------------------------------------------------------
(* The definitions of RFC 1321, 3174, 6234, 2104, 8018 and 5869. *)

LOCAL Padded(alg, m) ==
    LET zeros == (2 * BlockLen - 3 - Len(m)) % BlockLen
        bits  == 8 * Len(m)
        low   == bits % Word
        high  == bits \div Word
    IN  m \o <<Word \div 2>> \o Fill(zeros, 0) \o (IF alg = "md5" THEN <<low, high>> ELSE <<high, low>>)

LOCAL H(alg, m) ==
    LET p == Padded(alg, m)
        s == FoldLeft(LAMBDA st, i : Compress(alg, st, SubSeq(p, BlockLen * (i - 1) + 1, BlockLen * i)),
                      IV(alg), [i \in 1 .. Len(p) \div BlockLen |-> i])
    IN  IF alg = "sha224" THEN Front(s) ELSE s

LOCAL HMAC(alg, key, m) ==
    LET k0 == IF Len(key) > BlockLen THEN H(alg, key) ELSE key
        k  == k0 \o Fill(BlockLen - Len(k0), 0)
        Pad(x) == XorSeq(k, Fill(BlockLen, x))
    IN  H(alg, Pad(OPad) \o H(alg, Pad(IPad) \o m))

\* A message that is hashed, or authenticated with a key, in any pieces gives
\* the digest or the HMAC of the whole of it, whatever block and length word
\* its pieces and its padding fall into.
PiecesHashed(alg, key, pieces) ==
    LET m == FlattenSeq(pieces)
    IN  /\ finish(FoldLeft(update, NewContext(alg), pieces)).output = H(alg, m)
        /\ hmac(alg, key, pieces) = HMAC(alg, key, m)

\* The keys are those of PBKDF2 and HKDF: block by block the xor of the
\* iterated HMACs, or the chain of HMACs, cut to the length that is asked for,
\* and refused when it is too long.
KeysDerived(password, salt, iterations, length) ==
    LET size == Len(IV("sha256"))
        U(alg, n) == LET u1 == HMAC(alg, password, salt \o Counter(n))
                         u2 == HMAC(alg, password, u1)
                     IN  CASE iterations = 1 -> u1
                           [] iterations = 2 -> XorSeq(u1, u2)
                           [] iterations = 3 -> XorSeq(XorSeq(u1, u2), HMAC(alg, password, u2))
        Whole(alg) == U(alg, 1) \o U(alg, 2) \o U(alg, 3) \o U(alg, 4)
        prk  == HMAC("sha256", IF salt = << >> THEN Fill(size, 0) ELSE salt, password)
        T1   == HMAC("sha256", prk, salt \o <<1>>)
        T2   == HMAC("sha256", prk, T1 \o salt \o <<2>>)
        T3   == HMAC("sha256", prk, T2 \o salt \o <<3>>)
        key  == hkdf_sha256(salt, password, salt, length)
    IN  /\ PKCS5_PBKDF2_HMAC_SHA256(password, salt, iterations, length) = Take(Whole("sha256"), length)
        /\ PKCS5_PBKDF2_HMAC_SHA1(password, salt, iterations, length) = Take(Whole("sha1"), length)
        /\ IF length > MaxExpand * size THEN key = MBEDTLS_ERR_HKDF_BAD_INPUT_DATA
           ELSE key = [ret |-> 0, okm |-> Take(T1 \o T2 \o T3, length)]

\* crc32h is CRC-32, defined bit by bit.
CrcRight(message) ==
    LET Bit(crc, i) == IF 0 \in crc THEN Flip(Right(crc, 1), g0) ELSE Right(crc, 1)
        One(crc, byte) == FoldLeft(Bit, Flip(crc, byte), [i \in 1 .. 8 |-> i])
    IN  crc32h(message) = (0 .. 31) \ FoldLeft(One, 0 .. 31, message)
=============================================================================
