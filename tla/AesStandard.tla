---------------------------- MODULE AesStandard -----------------------------
(***************************************************************************)
(* What lib/aes_faster_c/aes.cpp promises: FIPS-197 for keys of 128 bits.  *)
(* The key is expanded four words at a time, then blocks are encrypted and *)
(* decrypted one round at a time.  The state is four columns of four rows. *)
(***************************************************************************)
EXTENDS Integers, Sequences, Bitwise

CONSTANTS
    Keys,      \* keys, sequences of 16 bytes
    Rounds     \* 10

VARIABLES
    key,
    w,         \* the words expanded so far
    mode,      \* "idle", "encrypt" or "decrypt"
    input,     \* the block under way, 16 bytes
    round,
    state      \* the state after that round

vars == <<key, w, mode, input, round, state>>

-----------------------------------------------------------------------------
(* GF(2^8) *)

xtime(x) == IF x < 128 THEN 2 * x ELSE (2 * x - 256) ^^ 27
\* a times one of the coefficients the cipher needs, by its bits.
Times(c, a) ==
    LET Bit(n, v) == IF (c \div n) % 2 = 1 THEN v ELSE 0
    IN  (Bit(1, a) ^^ Bit(2, xtime(a))) ^^ (Bit(4, xtime(xtime(a))) ^^ Bit(8, xtime(xtime(xtime(a)))))

\* The product of any two, eight bits of b being two coefficients.
Product(a, b) ==
    LET high == xtime(xtime(xtime(xtime(Times(b \div 16, a)))))
    IN  high ^^ Times(b % 16, a)
Square(a) == Product(a, a)

\* a to the power of 254, and the affine map.
SBox(a) ==
    LET p2   == Square(a)
        p4   == Square(p2)
        p8   == Square(p4)
        p16  == Square(p8)
        p32  == Square(p16)
        p64  == Square(p32)
        p128 == Square(p64)
        y    == Product(Product(Product(p2, p4), Product(p8, p16)), Product(Product(p32, p64), p128))
        rotl(n) == ((y * 2^n) % 256) + ((y * 2^n) \div 256)
    IN  (y ^^ rotl(1)) ^^ ((rotl(2) ^^ rotl(3)) ^^ (rotl(4) ^^ 99))

-----------------------------------------------------------------------------
Four(Op(_)) == <<Op(1), Op(2), Op(3), Op(4)>>
XorWord(u, v) == Four(LAMBDA i : u[i] ^^ v[i])
Words(bytes) == Four(LAMBDA i : SubSeq(bytes, 4 * i - 3, 4 * i))
Place(n) == (n % 4) + 1                     \* a row or column counted from 0

Rcon(n) == <<1, 2, 4, 8, 16, 32, 64, 128, 27, 54>>[n]
NextWord(ws) ==
    LET n    == Len(ws)
        last == ws[n]
        temp == IF n % 4 # 0 THEN last
                ELSE XorWord(Four(LAMBDA i : SBox(last[Place(i)])), <<Rcon(n \div 4), 0, 0, 0>>)
    IN  XorWord(ws[n - 3], temp)

Matrix(Op(_, _)) == Four(LAMBDA c : Four(LAMBDA r : Op(c - 1, r - 1)))
At(s, c, r) == s[Place(c)][Place(r)]

AddRoundKey(s, n) == Four(LAMBDA c : XorWord(s[c], w[4 * n + c]))
\* SubBytes and ShiftRows.
Substituted(s) == Matrix(LAMBDA c, r : SBox(At(s, c + r, r)))
MixColumns(s) ==
    Matrix(LAMBDA c, r : (Times(2, At(s, c, r)) ^^ Times(3, At(s, c, r + 1)))
                         ^^ (At(s, c, r + 2) ^^ At(s, c, r + 3)))

-----------------------------------------------------------------------------
Init ==
    /\ key \in Keys
    /\ w = Words(key)
    /\ mode = "idle" /\ input = << >> /\ round = 0 /\ state = << >>

KeyExpansion ==
    /\ Len(w) < 4 * (Rounds + 1)
    /\ Len(w') = Len(w) + 4 /\ SubSeq(w', 1, Len(w)) = w
    /\ \A i \in Len(w) .. Len(w) + 3 : w'[i + 1] = NextWord(SubSeq(w', 1, i))
    /\ UNCHANGED <<key, mode, input, round, state>>

Start ==
    /\ Len(w) = 4 * (Rounds + 1) /\ mode = "idle"
    /\ input' \in [1 .. 16 -> 0 .. 255] /\ round' = 0
    /\ \/ mode' = "encrypt" /\ state' = AddRoundKey(Words(input'), 0)
       \/ mode' = "decrypt" /\ state' = AddRoundKey(Words(input'), Rounds)
    /\ UNCHANGED <<key, w>>

\* The last round does not mix.
CipherRound ==
    /\ mode = "encrypt" /\ round < Rounds
    /\ round' = round + 1
    /\ LET s == Substituted(state)
       IN  state' = AddRoundKey(IF round' = Rounds THEN s ELSE MixColumns(s), round')
    /\ UNCHANGED <<key, w, mode, input>>

\* What comes out, mixed and with the key added, is what SubBytes and ShiftRows
\* take to what went in.
InvCipherRound ==
    /\ mode = "decrypt" /\ round < Rounds
    /\ round' = round + 1
    /\ LET u == IF round' = Rounds THEN state' ELSE MixColumns(state')
       IN  Substituted(AddRoundKey(u, Rounds - round')) = state
    /\ UNCHANGED <<key, w, mode, input>>

Finish ==
    /\ mode # "idle" /\ round = Rounds
    /\ mode' = "idle" /\ UNCHANGED <<key, w, input, round, state>>

Next == KeyExpansion \/ Start \/ CipherRound \/ InvCipherRound \/ Finish
Spec == Init /\ [][Next]_vars
=============================================================================
