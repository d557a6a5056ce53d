-------------------------------- MODULE Aes ---------------------------------
(***************************************************************************)
(* AES-128 as lib/aes_faster_c/aes.cpp computes it: with tables that do    *)
(* the substitution and the mixing of a round at once, and a schedule of   *)
(* its own for decryption, so that its rounds have the same shape.  One    *)
(* step is one turn of a loop of the code; AesStandard says what the loops *)
(* have to compute.  A block is encrypted, and the result decrypted.       *)
(***************************************************************************)
EXTENDS AesTables

CONSTANTS
    Keys, Inputs,      \* sequences of 16 bytes
    Rounds             \* 10, ctx->nr for a key of 128 bits

VARIABLES
    key,
    block,       \* the block to encrypt
    RK,          \* schedule of encryption, as far as it is made
    DK,          \* schedule of decryption
    mode,        \* of aes_crypt_ecb, "idle" between the calls
    input,       \* its input
    round,       \* the round that is done
    X,           \* X0 .. X3, or Y0 .. Y3 after an odd number of rounds
    output       \* what encryption and decryption returned

vars == <<key, block, RK, DK, mode, input, round, X, output>>

-----------------------------------------------------------------------------
Init ==
    /\ key \in Keys /\ block \in Inputs
    /\ RK = Words(key) /\ DK = << >>
    /\ mode = "idle" /\ input = << >> /\ round = 0 /\ X = << >> /\ output = << >>

Ready == Len(RK) = 4 * (Rounds + 1)

\* Mutant: the bytes are not rotated.
SubWord_InPlace(u, n) == <<XorByte(FSb(u[1]), RCON[n]), FSb(u[2]), FSb(u[3]), FSb(u[4])>>

\* The last word of a round key, rotated and substituted.
SubWord(u, n) == <<XorByte(FSb(u[2]), RCON[n]), FSb(u[3]), FSb(u[4]), FSb(u[1])>>

\* A turn of the loop of aes_setkey_enc.
aes_setkey_enc ==
    /\ ~Ready
    /\ LET n   == Len(RK)
           u   == SubSeq(RK, n - 3, n)
           r4  == XorWord(u[1], SubWord(u[4], n \div 4))
           r5  == XorWord(u[2], r4)
           r6  == XorWord(u[3], r5)
       IN  RK' = RK \o <<r4, r5, r6, XorWord(u[4], r6)>>
    /\ UNCHANGED <<key, block, DK, mode, input, round, X, output>>

RoundKey(rk, n) == SubSeq(rk, 4 * n + 1, 4 * n + 4)

MixKey(u) ==
    XorAll(RT0(FSb(u[1])), Rotated(RT0(FSb(u[2])), 1),
           Rotated(RT0(FSb(u[3])), 2), Rotated(RT0(FSb(u[4])), 3))

\* A turn of the loop of aes_setkey_dec, or the copying before and after it:
\* the keys in reverse, all but the first and the last mixed.
aes_setkey_dec ==
    /\ Ready /\ Len(DK) < Len(RK)
    /\ LET n == Len(DK) \div 4
           k == RoundKey(RK, Rounds - n)
       IN  DK' = DK \o (IF n \in {0, Rounds} THEN k ELSE Four(LAMBDA j : MixKey(k[j])))
    /\ UNCHANGED <<key, block, RK, mode, input, round, X, output>>

\* aes_crypt_ecb is called, first to encrypt the block, then to decrypt what
\* came out.
Call ==
    /\ Ready /\ Len(DK) = Len(RK) /\ mode = "idle" /\ Len(output) < 2
    /\ mode' = IF output = << >> THEN "encrypt" ELSE "decrypt"
    /\ input' = IF output = << >> THEN block ELSE output[1]
    /\ LET k == RoundKey(IF mode' = "encrypt" THEN RK ELSE DK, 0)
       IN  X' = Four(LAMBDA j : XorWord(Words(input')[j], k[j]))
    /\ round' = 0
    /\ UNCHANGED <<key, block, RK, DK, output>>

\* The word whose byte k goes into word j: k places on in AES_FROUND, k places
\* back in AES_RROUND.
On(j, k)   == ((j - 1 + k) % 4) + 1
Back(j, k) == ((j - 1 - k) % 4) + 1

AES_FROUND(k, Y) ==
    Four(LAMBDA j : XorWord(k[j],
        XorAll(FT0(Y[j][1]), Rotated(FT0(Y[On(j, 1)][2]), 1),
               Rotated(FT0(Y[On(j, 2)][3]), 2), Rotated(FT0(Y[On(j, 3)][4]), 3))))

AES_RROUND(k, Y) ==
    Four(LAMBDA j : XorWord(k[j],
        XorAll(RT0(Y[j][1]), Rotated(RT0(Y[Back(j, 1)][2]), 1),
               Rotated(RT0(Y[Back(j, 2)][3]), 2), Rotated(RT0(Y[Back(j, 3)][4]), 3))))

\* The last round looks up the S-box.
LastRound(k, Y) ==
    IF mode = "encrypt"
    THEN Four(LAMBDA j : XorWord(k[j], Four(LAMBDA r : FSb(Y[On(j, r - 1)][r]))))
    ELSE Four(LAMBDA j : XorWord(k[j], Four(LAMBDA r : RSb(Y[Back(j, r - 1)][r]))))

aes_crypt_ecb ==
    /\ mode # "idle" /\ round < Rounds
    /\ round' = round + 1
    /\ LET k == RoundKey(IF mode = "encrypt" THEN RK ELSE DK, round')
       IN  X' = IF round' = Rounds THEN LastRound(k, X)
                ELSE IF mode = "encrypt" THEN AES_FROUND(k, X) ELSE AES_RROUND(k, X)
    /\ UNCHANGED <<key, block, RK, DK, mode, input, output>>

Return ==
    /\ mode # "idle" /\ round = Rounds
    /\ mode' = "idle" /\ output' = Append(output, Bytes(X))
    /\ UNCHANGED <<key, block, RK, DK, input, round, X>>

Next == aes_setkey_enc \/ aes_setkey_dec \/ Call \/ aes_crypt_ecb \/ Return
Spec == Init /\ [][Next]_vars

-----------------------------------------------------------------------------
Standard == INSTANCE AesStandard WITH w <- RK, state <- X

\* The loops compute what FIPS-197 says, word by word of the key and round by
\* round of a block, in decryption too, whose order of operations is another.
ImplementsAes == Standard!Spec
=============================================================================
