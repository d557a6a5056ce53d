---------------------------- MODULE CipherModes -----------------------------
(***************************************************************************)
(* The ciphers of encrypt.cpp over a block cipher: xor, CBC with padding,  *)
(* CFB with the first block encrypted once more, from a zero iv; and the   *)
(* key schedules that lib/aes_faster_c/wrapper.cpp keeps in static         *)
(* variables from the first packet on.  The block cipher is a parameter    *)
(* (Aes is the one used), and so is its block size.                        *)
(***************************************************************************)
EXTENDS Integers, SequencesExt, Bitwise

CONSTANTS
    E(_, _), D(_, _),   \* encryption and decryption of a block with a key
    BlockLen            \* 16 bytes

XorSeq(u, v) == [i \in DOMAIN u |-> u[i] ^^ v[i]]
Zeros == [i \in 1 .. BlockLen |-> 0]
\* The blocks of data, of which the last may be short.
Blocks(data) ==
    [i \in 1 .. (Len(data) + BlockLen - 1) \div BlockLen |->
        SubSeq(data, BlockLen * (i - 1) + 1,
               IF BlockLen * i < Len(data) THEN BlockLen * i ELSE Len(data))]

-----------------------------------------------------------------------------
(* aes.cpp.  iv is what the loops carry along. *)

aes_crypt_cbc(key, mode, data) ==
    LET Block(st, b) ==
            LET o == IF mode = "encrypt" THEN E(key, XorSeq(b, st.iv)) ELSE XorSeq(D(key, b), st.iv)
            IN  [iv |-> IF mode = "encrypt" THEN o ELSE b, out |-> st.out \o o]
    IN  FoldLeft(Block, [iv |-> Zeros, out |-> << >>], Blocks(data)).out

\* Byte by byte: iv, encrypted when n comes round to 0, is xored into the data
\* and replaced by the ciphertext.
aes_crypt_cfb128(key, mode, data) ==
    LET One(st, c) ==
            LET iv == IF st.n = 0 THEN E(key, st.iv) ELSE st.iv
                o  == c ^^ iv[st.n + 1]
            IN  [n |-> (st.n + 1) % BlockLen, out |-> Append(st.out, o),
                 iv |-> [iv EXCEPT ![st.n + 1] = IF mode = "encrypt" THEN o ELSE c]]
    IN  FoldLeft(One, [n |-> 0, iv |-> Zeros, out |-> << >>], data).out

-----------------------------------------------------------------------------
(* wrapper.cpp and the callers.  Every function has its static context; it *)
(* is given the key in the first call and a null pointer from then on.     *)
(* ctx maps the functions called so far to the key they keep.              *)

\* Mutant: one context, which the first caller sets.
setkey_Shared(ctx, f, key) ==
    IF DOMAIN ctx = {} THEN [g \in {f} |-> key]
    ELSE [g \in DOMAIN ctx \cup {f} |-> ctx[CHOOSE h \in DOMAIN ctx : TRUE]]

setkey(ctx, f, key) ==
    [g \in DOMAIN ctx \cup {f} |-> IF g \in DOMAIN ctx THEN ctx[g] ELSE key]

\* What the bytes before the last are is left to the buffer: 0 here.
padding(data) ==
    LET n == BlockLen - (Len(data) % BlockLen)
    IN  data \o [i \in 1 .. n |-> IF i = n THEN n ELSE 0]

failed == <<-1>>
de_padding(data) ==
    IF data = << >> THEN failed
    ELSE IF Last(data) > BlockLen \/ Last(data) > Len(data) THEN failed
    ELSE SubSeq(data, 1, Len(data) - Last(data))

\* The key is repeated over the data.
cipher_xor(key, data) == [i \in 1 .. Len(data) |-> data[i] ^^ key[((i - 1) % Len(key)) + 1]]

First(data) == SubSeq(data, 1, BlockLen)
Rest(data)  == SubSeq(data, BlockLen + 1, Len(data))

\* aes_ecb_encrypt and aes_ecb_decrypt, with keys of their own, replace the
\* first block, unless --cipher-mode aes128cfb_0 asks for the old form.
\* o: [cipher, old, key, block_key].
cipher_encrypt(o, ctx, data) ==
    CASE o.cipher = "xor" -> [ctx |-> ctx, out |-> cipher_xor(o.key, data)]
      [] o.cipher = "aes128cbc" ->
            LET c == setkey(ctx, "AES_CBC_encrypt_buffer", o.key)
            IN  [ctx |-> c, out |-> aes_crypt_cbc(c["AES_CBC_encrypt_buffer"], "encrypt", padding(data))]
      [] o.cipher = "aes128cfb" ->
            LET c0 == IF o.old THEN ctx ELSE setkey(ctx, "AES_ECB_encrypt_buffer", o.block_key)
                c  == setkey(c0, "AES_CFB_encrypt_buffer", o.key)
                b  == IF o.old THEN data ELSE E(c["AES_ECB_encrypt_buffer"], First(data)) \o Rest(data)
            IN  [ctx |-> c, out |-> aes_crypt_cfb128(c["AES_CFB_encrypt_buffer"], "encrypt", b)]

cipher_decrypt(o, ctx, data) ==
    CASE o.cipher = "xor" -> [ctx |-> ctx, out |-> cipher_xor(o.key, data)]
      [] o.cipher = "aes128cbc" ->
            LET c == setkey(ctx, "AES_CBC_decrypt_buffer", o.key)
            IN  [ctx |-> c,
                 out |-> de_padding(aes_crypt_cbc(c["AES_CBC_decrypt_buffer"], "decrypt", data))]
      [] o.cipher = "aes128cfb" ->
            LET c0 == setkey(ctx, "AES_CFB_decrypt_buffer", o.key)
                c  == IF o.old THEN c0 ELSE setkey(c0, "AES_ECB_decrypt_buffer", o.block_key)
                b  == aes_crypt_cfb128(c["AES_CFB_decrypt_buffer"], "decrypt", data)
            IN  [ctx |-> c,
                 out |-> IF o.old THEN b ELSE D(c["AES_ECB_decrypt_buffer"], First(b)) \o Rest(b)]

-----------------------------------------------------------------------------
\* Every packet of a session is decrypted to what it was, the later ones with
\* the keys that the first call left in the static contexts; and what is sent
\* is SP 800-38A's CBC or CFB of the padded data or of the data whose first
\* block was encrypted on its own.
SessionReadBack(o, packets) ==
    LET Step(st, p) ==
            LET e == cipher_encrypt(o, st.enc, p)
                d == cipher_decrypt(o, st.dec, e.out)
            IN  [enc |-> e.ctx, dec |-> d.ctx, wire |-> Append(st.wire, e.out),
                 ok |-> st.ok /\ d.out = p]
        end == FoldLeft(Step, [enc |-> << >>, dec |-> << >>, wire |-> << >>, ok |-> TRUE], packets)
        Before(c, i) == IF i = 1 THEN Zeros ELSE Blocks(c)[i - 1]
        Chained(p, c) ==
            CASE o.cipher = "xor" -> Len(c) = Len(p)
              [] o.cipher = "aes128cbc" ->
                    \A i \in 1 .. Len(Blocks(c)) :
                        Blocks(c)[i] = E(o.key, XorSeq(Blocks(padding(p))[i], Before(c, i)))
              [] o.cipher = "aes128cfb" ->
                    LET b == IF o.old THEN p ELSE E(o.block_key, First(p)) \o Rest(p)
                    IN  \A i \in 1 .. Len(Blocks(c)) :
                            Blocks(c)[i] = XorSeq(Blocks(b)[i], E(o.key, Before(c, i)))
    IN  end.ok /\ \A i \in DOMAIN packets : Chained(packets[i], end.wire[i])
=============================================================================
