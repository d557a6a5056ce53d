----------------------------- MODULE FakeTcpProofs --------------------------
(***************************************************************************)
(* Proofs about FakeTcp for every number space, window, length of packets  *)
(* and depth of reordering that LengthsAssumption allows.                  *)
(***************************************************************************)
EXTENDS FakeTcp, SequenceTheorems, TLAPS

(* Positions in the stream are integers that never wrap; the program keeps *)
(* them modulo NumMod.                                                     *)
Num(x) == (Start + x) % NumMod
Half == NumMod \div 2

(* The length of k windows.                                                *)
Span(k) == k * window_size

(***************************************************************************)
(* The inductive invariant.  S, A and E are the positions of seq, ack_seq  *)
(* and sent_end, p[i] the position of the packet packets[i].               *)
(***************************************************************************)

(* What is under way was sent, and lies less than half the number space    *)
(* behind the end of what was sent.                                        *)
Stream(S, A, E, p) ==
    /\ seq = Num(S) /\ ack_seq = Num(A) /\ sent_end = Num(E)
    /\ S <= E /\ A <= E /\ E - S <= Span(MaxFlight) + 2 * window_size
    /\ \A i \in Arriving :
          /\ packets[i].seq = Num(p[i]) /\ p[i] + packets[i].len <= E
          /\ E - p[i] <= Span(MaxFlight) + 2 * window_size + Span(Len(packets) - i + 1)

(* Modes 0 to 2: seq never falls behind by more than a packet.             *)
Free(S, A, E) ==
    E <= S + max_data_len /\ E <= A + MaxAhead + max_data_len

(* Modes 3 and 4: B is the position the sender knows to be acknowledged,   *)
(* M the highest it ever knew, a[i] that of acks[i].  Everything sent so   *)
(* far was in the window above M, so that one acknowledgement is at most a *)
(* window above the one before it, however stale the one that counts.      *)
Known(S, A, E, B, M, a) ==
    /\ acked = Num(B) /\ B <= M /\ M <= A /\ M - B <= Span(MaxFlight)
    /\ E <= M + window_size /\ S + max_data_len <= M + window_size
    /\ \A i \in 1 .. Len(acks) :
          /\ a[i] <= A /\ M <= a[i] + Span(Len(acks) - i)
          /\ i \in ArrivingAcks => acks[i] = Num(a[i])
    /\ \A i, j \in 1 .. Len(acks) : i <= j => a[i] <= a[j] /\ a[j] <= a[i] + Span(j - i)

Acknowledged(S, A, E) ==
    \E B, M \in Int, a \in [1 .. Len(acks) -> Int] : Known(S, A, E, B, M, a)

Modes(S, A, E) ==
    /\ seq_mode \in 0 .. 2 => Free(S, A, E)
    /\ seq_mode \in {3, 4} => Acknowledged(S, A, E)

Positions ==
    \E S, A, E \in Int, p \in [1 .. Len(packets) -> Int] :
        Stream(S, A, E, p) /\ Modes(S, A, E)

IInv == TypeOK /\ Positions

(* A packet under way is not far from ack_seq.                             *)
Near(A, E, p, i) ==
    /\ packets[i].len \in Int /\ packets[i].len >= 1 /\ packets[i].len <= max_data_len
    /\ p[i] \in Int /\ packets[i].seq = Num(p[i]) /\ p[i] + packets[i].len <= E
    /\ A - p[i] <= 2 * Span(MaxFlight) + 2 * window_size

(* r is the queue q with x at its end, after o have left at the front.     *)
Shifted(T, q, x, r, o) ==
    /\ o \in 0 .. 1 /\ r \in Seq(T) /\ Len(r) = Len(q) + 1 - o /\ Len(r) <= MaxFlight
    /\ Len(r) >= 1 /\ r[Len(r)] = x
    /\ \A i \in 1 .. Len(r) - 1 : i + o \in 1 .. Len(q) /\ r[i] = q[i + o]

-----------------------------------------------------------------------------
(* Numbers.                                                                *)

(* What the assumption says of the number space.                           *)
LEMMA Sizes ==
    /\ NumMod \in Nat /\ NumMod >= 2 /\ Half \in Nat /\ 2 * Half <= NumMod /\ Half >= 1
    /\ window_size \in Nat /\ max_data_len \in Nat /\ MaxAhead \in Nat
    /\ MaxFlight \in Nat /\ MaxFlight >= 1 /\ 2 * max_data_len <= window_size
    /\ Start \in Int /\ (2 * MaxFlight + 5) * window_size + MaxAhead < Half
<1>1. /\ NumMod \in Nat /\ window_size \in Nat /\ max_data_len \in Nat /\ MaxAhead \in Nat
      /\ MaxFlight \in Nat /\ MaxFlight >= 1 /\ 2 * max_data_len <= window_size
      /\ Start \in Int /\ (2 * MaxFlight + 5) * window_size + MaxAhead < NumMod \div 2
      /\ Start \in 0 .. NumMod - 1
  BY LengthsAssumption
<1>2. NumMod \div 2 \in Nat /\ 2 * (NumMod \div 2) <= NumMod
  BY <1>1
<1>3. (2 * MaxFlight + 5) * window_size \in Nat
  BY <1>1
<1>4. PICK x \in Nat : x = (2 * MaxFlight + 5) * window_size
  BY <1>3
<1>5. NumMod \div 2 >= 1
  BY <1>1, <1>2, <1>4
<1> QED
  BY <1>1, <1>2, <1>5 DEF Half

(* Division with remainder ...                                             *)
LEMMA Remainder ==
    ASSUME NEW a \in Int
    PROVE  /\ a % NumMod \in 0 .. NumMod - 1
           /\ \E k \in Int : a = NumMod * k + (a % NumMod)
<1>1. NumMod \in Nat \ {0}
  BY Sizes
<1>2. a % NumMod \in 0 .. NumMod - 1 /\ a = NumMod * (a \div NumMod) + (a % NumMod)
  BY <1>1
<1>3. a \div NumMod \in Int
  BY <1>1
<1> QED
  BY <1>2, <1>3

(* ... is unique.                                                          *)
LEMMA UniqueRemainder ==
    ASSUME NEW a \in Int, NEW k \in Int, NEW r \in 0 .. NumMod - 1, a = NumMod * k + r
    PROVE  a % NumMod = r
<1>1. NumMod \in Nat /\ NumMod >= 1
  BY Sizes
<1>2. PICK j \in Int : a = NumMod * j + (a % NumMod)
  BY Remainder
<1>3. PICK z \in 0 .. NumMod - 1 : z = a % NumMod
  BY Remainder
<1>4. NumMod * (j - k) = r - z
  <2>1. NumMod * (j - k) = NumMod * j - NumMod * k /\ NumMod * j \in Int /\ NumMod * k \in Int
    BY <1>1
  <2>2. NumMod * j + z = NumMod * k + r
    BY <1>2, <1>3
  <2> QED
    BY <1>3, <2>1, <2>2
<1>5. -NumMod < r - z /\ r - z < NumMod
  BY <1>1, <1>3
<1>6. PICK i \in Int : i = j - k
  OBVIOUS
<1>7. i = 0
  <2>1. ASSUME i >= 1 PROVE FALSE
    <3>1. NumMod * i >= NumMod
      BY <1>1, <2>1
    <3> QED
      BY <1>1, <1>3, <1>4, <1>5, <1>6, <3>1
  <2>2. ASSUME i <= -1 PROVE FALSE
    <3>1. NumMod * i <= -NumMod
      BY <1>1, <2>2
    <3> QED
      BY <1>1, <1>3, <1>4, <1>5, <1>6, <3>1
  <2> QED
    BY <1>6, <2>1, <2>2
<1>8. NumMod * i = 0
  BY <1>1, <1>7
<1> QED
  BY <1>3, <1>4, <1>6, <1>8

(* A position's number.                                                    *)
LEMMA NumType ==
    ASSUME NEW x \in Int
    PROVE  Num(x) \in Seq32 /\ Num(x) \in Int
<1>1. Start + x \in Int
  BY Sizes
<1>2. Num(x) \in 0 .. NumMod - 1
  BY <1>1, Remainder DEF Num
<1> QED
  BY <1>2, Sizes DEF Seq32

(* A position is its number and some rounds through the number space.      *)
LEMMA Rounds ==
    ASSUME NEW x \in Int
    PROVE  \E k \in Int : Start + x = NumMod * k + Num(x)
<1>1. PICK y \in Int : y = Start + x
  BY Sizes
<1>2. \E k \in Int : y = NumMod * k + (y % NumMod)
  BY Remainder
<1> QED
  BY <1>1, <1>2 DEF Num

(* Adding to a number.                                                     *)
LEMMA PlusNum ==
    ASSUME NEW x \in Int, NEW n \in Int
    PROVE  Plus(Num(x), n) = Num(x + n)
<1>1. PICK y \in Int : y = Start + x
  BY Sizes
<1>2. PICK r \in Int : r = Num(x)
  BY NumType
<1>3. PICK k \in Int : y = NumMod * k + r
  BY <1>1, <1>2, Remainder DEF Num
<1>4. PICK z \in 0 .. NumMod - 1 : z = (r + n) % NumMod
  BY Remainder
<1>5. PICK j \in Int : r + n = NumMod * j + z
  BY <1>4, Remainder
<1>6. y + n = NumMod * (k + j) + z
  BY <1>3, <1>5, Sizes
<1>7. (y + n) % NumMod = z
  BY <1>6, UniqueRemainder
<1>8. Start + (x + n) = y + n
  BY <1>1, Sizes
<1> QED
  BY <1>2, <1>4, <1>7, <1>8 DEF Plus, Num

(* The difference of two numbers.                                          *)
LEMMA NumDiff ==
    ASSUME NEW x \in Int, NEW y \in Int, x - y < NumMod, y - x <= NumMod
    PROVE  (Num(x) - Num(y)) % NumMod = IF x >= y THEN x - y ELSE NumMod + (x - y)
<1>1. PICK u, v \in Int : u = Num(x) /\ v = Num(y)
  BY NumType
<1>2. PICK k \in Int : Start + x = NumMod * k + u
  BY <1>1, Rounds
<1>3. PICK j \in Int : Start + y = NumMod * j + v
  BY <1>1, Rounds
<1>4. u - v = NumMod * (j - k) + (x - y)
  BY <1>2, <1>3, Sizes
<1>5. CASE x >= y
  <2>1. x - y \in 0 .. NumMod - 1
    BY <1>5, Sizes
  <2>2. (u - v) % NumMod = x - y
    BY <1>4, <2>1, UniqueRemainder
  <2> QED
    BY <1>1, <1>5, <2>2
<1>6. CASE x < y
  <2>1. NumMod + (x - y) \in 0 .. NumMod - 1
    BY <1>6, Sizes
  <2>2. u - v = NumMod * (j - k - 1) + (NumMod + (x - y))
    BY <1>4, Sizes
  <2>3. (u - v) % NumMod = NumMod + (x - y)
    BY <2>1, <2>2, UniqueRemainder
  <2> QED
    BY <1>1, <1>6, <2>3
<1> QED
  BY <1>5, <1>6

(* Near each other, equal numbers are equal positions ...                  *)
LEMMA NumEqual ==
    ASSUME NEW x \in Int, NEW y \in Int, x - y < Half, y - x < Half, Num(x) = Num(y)
    PROVE  x = y
<1>1. PICK u \in Int : u = Num(x)
  BY NumType
<1>2. PICK k \in Int : Start + x = NumMod * k + u
  BY <1>1, Rounds
<1>3. PICK j \in Int : Start + y = NumMod * j + u
  BY <1>1, Rounds
<1>4. PICK i \in Int : i = k - j
  OBVIOUS
<1>5. x - y = NumMod * i
  BY <1>2, <1>3, <1>4, Sizes
<1>6. ASSUME i >= 1 PROVE FALSE
  <2>1. NumMod * i >= NumMod
    BY <1>6, Sizes
  <2> QED
    BY <1>5, <2>1, Sizes
<1>7. ASSUME i <= -1 PROVE FALSE
  <2>1. NumMod * i <= -NumMod
    BY <1>7, Sizes
  <2> QED
    BY <1>5, <2>1, Sizes
<1>8. i = 0
  BY <1>4, <1>6, <1>7
<1>9. NumMod * i = 0
  BY <1>8, Sizes
<1> QED
  BY <1>5, <1>9

(* ... and larger_than_u32 compares positions, across the wrap-around.     *)
LEMMA LargerNum ==
    ASSUME NEW x \in Int, NEW y \in Int, x - y < Half, y - x < Half
    PROVE  larger_than_u32(Num(x), Num(y)) <=> x > y
<1>1. PICK d : d = (Num(x) - Num(y)) % NumMod
  OBVIOUS
<1>2. d = IF x >= y THEN x - y ELSE NumMod + (x - y)
  BY <1>1, NumDiff, Sizes
<1>3. larger_than_u32(Num(x), Num(y)) <=> 0 < d /\ d < Half
  BY <1>1 DEF larger_than_u32, Half
<1> QED
  BY <1>2, <1>3, Sizes

(* Lengths of several windows.                                             *)
LEMMA SpanStep ==
    ASSUME NEW k \in Int
    PROVE  Span(k) \in Int /\ Span(k + 1) = Span(k) + window_size
  BY Sizes DEF Span

(* None is no length.                                                      *)
LEMMA SpanZero == Span(0) = 0
  BY Sizes DEF Span

(* More are longer.                                                        *)
LEMMA SpanMono ==
    ASSUME NEW j \in Int, NEW k \in Int, j <= k
    PROVE  Span(j) <= Span(k)
<1>1. PICK i \in Nat : i = k - j
  OBVIOUS
<1>2. i * window_size >= 0 /\ i * window_size \in Int
  BY Sizes
<1>3. Span(k) = Span(j) + i * window_size
  BY <1>1, Sizes DEF Span
<1> QED
  BY <1>2, <1>3, SpanStep

(* The number space is wider than what positions differ by.                *)
LEMMA Room ==
    /\ NumMod \in Nat /\ Half \in Nat /\ 2 * Half <= NumMod /\ Half >= 1
    /\ window_size \in Nat /\ max_data_len \in Nat /\ MaxAhead \in Nat
    /\ MaxFlight \in Nat /\ MaxFlight >= 1 /\ 2 * max_data_len <= window_size
    /\ Span(MaxFlight) \in Nat
    /\ 2 * Span(MaxFlight) + 5 * window_size + MaxAhead < Half
<1>1. (2 * MaxFlight + 5) * window_size = 2 * (MaxFlight * window_size) + 5 * window_size
  BY Sizes
<1>2. MaxFlight * window_size \in Nat
  BY Sizes
<1> QED
  BY <1>1, <1>2, Sizes DEF Span

(* A window is at least two packets and at most half the numbers.          *)
LEMMA Windows ==
    /\ window_size \in Int /\ max_data_len \in Int /\ Half \in Int
    /\ 0 <= max_data_len /\ max_data_len <= window_size /\ window_size < Half
  BY Room

(* Everything in flight and two windows are less than half the numbers.    *)
LEMMA Spans ==
    ASSUME NEW w, w = Span(MaxFlight)
    PROVE  /\ w \in Int /\ 0 <= w /\ window_size \in Int /\ Half \in Int
           /\ w + 2 * window_size < Half /\ 2 * w + 2 * window_size < Half
<1>1. PICK v \in Nat : v = Span(MaxFlight)
  BY Room
<1>2. 2 * v + 5 * window_size + MaxAhead < Half
  BY <1>1, Room
<1>3. 0 <= v /\ v + 2 * window_size < Half /\ 2 * v + 2 * window_size < Half
  BY <1>2, Room
<1> QED
  BY <1>1, <1>3, Windows

(* The positions of what is in flight after one more was sent.             *)
LEMMA PositionsShift ==
    ASSUME NEW n \in Nat, NEW k \in Nat, NEW o \in 0 .. 1, k = n + 1 - o, k >= 1,
           NEW g, \A j \in 1 .. n : g[j] \in Int, NEW x \in Int,
           NEW f, f = [i \in 1 .. k |-> IF i = k THEN x ELSE g[i + o]]
    PROVE  /\ f \in [1 .. k -> Int] /\ f[k] = x
           /\ \A i \in 1 .. k - 1 : i + o \in 1 .. n /\ f[i] = g[i + o]
<1>1. ASSUME NEW i \in 1 .. k - 1 PROVE i + o \in 1 .. n /\ i \in 1 .. k /\ i # k
  OBVIOUS
<1>2. k \in 1 .. k
  OBVIOUS
<1>3. f[k] = x /\ \A i \in 1 .. k - 1 : f[i] = g[i + o]
  BY <1>1, <1>2
<1>4. ASSUME NEW i \in 1 .. k PROVE f[i] \in Int
  <2>1. CASE i = k
    BY <1>3, <2>1
  <2>2. CASE i # k
    <3>1. i \in 1 .. k - 1
      BY <2>2
    <3> QED
      BY <1>1, <1>3, <3>1
  <2> QED
    BY <2>1, <2>2
<1>5. f \in [1 .. k -> Int]
  BY <1>4
<1> QED
  BY <1>1, <1>3, <1>5

(* The queue after one more was sent.                                      *)
LEMMA InFlightShifts ==
    ASSUME NEW T, NEW q \in Seq(T), NEW x \in T, Len(q) <= MaxFlight, NEW r, r = InFlight(q, x)
    PROVE  \E o : Shifted(T, q, x, r, o)
<1>1. CASE Len(q) < MaxFlight
  <2>1. r = Append(q, x)
    BY <1>1 DEF InFlight
  <2>2. /\ r \in Seq(T) /\ Len(r) = Len(q) + 1 /\ r[Len(q) + 1] = x
        /\ \A i \in 1 .. Len(q) : r[i] = q[i]
    BY <2>1, AppendProperties
  <2>3. Shifted(T, q, x, r, 0)
    BY <1>1, <2>2, Room DEF Shifted
  <2> QED
    BY <2>3
<1>2. CASE ~(Len(q) < MaxFlight)
  <2>1. PICK z : z = Tail(q)
    OBVIOUS
  <2>2. r = Append(z, x)
    BY <1>2, <2>1 DEF InFlight
  <2>3. Len(q) = MaxFlight /\ Len(q) >= 1 /\ q # << >>
    BY <1>2, Room
  <2>4. z \in Seq(T) /\ Len(z) = Len(q) - 1 /\ \A i \in 1 .. Len(z) : z[i] = q[i + 1]
    BY <2>1, <2>3, HeadTailProperties
  <2>5. /\ r \in Seq(T) /\ Len(r) = Len(z) + 1 /\ r[Len(z) + 1] = x
        /\ \A i \in 1 .. Len(z) : r[i] = z[i]
    BY <2>2, <2>4, AppendProperties
  <2>6. Shifted(T, q, x, r, 1)
    BY <2>3, <2>4, <2>5 DEF Shifted
  <2> QED
    BY <2>6
<1> QED
  BY <1>1, <1>2

-----------------------------------------------------------------------------
(* Every action keeps the invariant.                                       *)

(* The handshake's end.                                                    *)
LEMMA InitIInv == Init => IInv
<1> SUFFICES ASSUME Init PROVE IInv
  OBVIOUS
<1>1. /\ seq = Start /\ ack_seq = Start /\ sent_end = Start /\ packets = << >> /\ acks = << >>
      /\ acked = (Start - max_data_len) % NumMod /\ ack_seq_counter = 0 /\ seq_mode \in SeqModes
  BY DEF Init
<1>2. Num(0) = Start
  <2>1. Start + 0 = NumMod * 0 + Start /\ Start + 0 = Start /\ Start \in Int
    BY Sizes
  <2>2. Start % NumMod = Start
    BY <2>1, UniqueRemainder, LengthsAssumption
  <2> QED
    BY <2>1, <2>2 DEF Num
<1>3. Num(-max_data_len) = acked
  <2>1. Start + (-max_data_len) = Start - max_data_len
    BY Sizes
  <2> QED
    BY <1>1, <2>1 DEF Num
<1>4. Len(packets) = 0 /\ Len(acks) = 0 /\ Arriving = {} /\ ArrivingAcks = {}
  BY <1>1 DEF Arriving, ArrivingAcks
<1>5. TypeOK
  <2>1. Num(0) \in Seq32 /\ Num(-max_data_len) \in Seq32
    BY NumType, Room
  <2>2. packets \in Seq(Packet \cup {Gone}) /\ acks \in Seq(Seq32 \cup {GoneAck})
    BY <1>1
  <2> QED
    BY <1>1, <1>2, <1>3, <1>4, <2>1, <2>2, Room DEF TypeOK
<1>6. PICK e \in [1 .. 0 -> Int] : TRUE
  <2>1. [i \in 1 .. 0 |-> 0] \in [1 .. 0 -> Int]
    OBVIOUS
  <2> QED
    BY <2>1
<1>7. Stream(0, 0, 0, e)
  BY <1>1, <1>2, <1>4, Room DEF Stream
<1>8. Free(0, 0, 0)
  BY Room DEF Free
<1>9. PICK b \in Int : b = -max_data_len
  BY Room
<1>10. Known(0, 0, 0, b, b, e)
  BY <1>3, <1>4, <1>9, Room DEF Known
<1>11. Acknowledged(0, 0, 0)
  BY <1>4, <1>10 DEF Acknowledged
<1>12. Positions
  <2>1. Modes(0, 0, 0) /\ e \in [1 .. Len(packets) -> Int] /\ 0 \in Int
    BY <1>4, <1>8, <1>11 DEF Modes
  <2> QED
    BY <1>7, <2>1 DEF Positions
<1> QED
  BY <1>5, <1>12 DEF IInv

(* Modes 0 to 2: where a packet leaves seq.                                *)
LEMMA SendFree ==
    ASSUME NEW S \in Int, NEW A \in Int, NEW E \in Int, NEW p, NEW len \in Lengths,
           NEW E2 \in Int, E2 = (IF S + len > E THEN S + len ELSE E),
           Stream(S, A, E, p), Free(S, A, E), seq_mode \in 0 .. 2, Send(len)
    PROVE  /\ ack_seq_counter' = ack_seq_counter
           /\ \E S2 \in Int :
                 /\ seq' = Num(S2) /\ S2 <= E2 /\ E2 - S2 <= Span(MaxFlight) + 2 * window_size
                 /\ Free(S2, A, E2)
<1>1. len \in Int /\ len >= 1 /\ len <= max_data_len
  BY LengthsAssumption, Room
<1>2. /\ seq = Num(S) /\ ack_seq = Num(A) /\ S <= E /\ A <= E
      /\ E <= S + max_data_len /\ E <= A + MaxAhead + max_data_len
  BY DEF Stream, Free
<1>3. S <= A + MaxAhead
  <2>1. PICK y \in Int : y = A + MaxAhead
    BY Room
  <2>2. ~larger_than_u32(Num(S), Num(y))
    <3>1. Plus(ack_seq, MaxAhead) = Num(y)
      BY <1>2, <2>1, PlusNum, Room
    <3> QED
      BY <1>2, <3>1 DEF Send, NotTooFarAhead
  <2>3. S - y < Half /\ y - S < Half
    BY <1>2, <2>1, Room
  <2> QED
    BY <2>1, <2>2, <2>3, LargerNum
<1>4. PICK z \in Int : z = S + len
  BY <1>1
<1>5. ack_seq_counter' = ack_seq_counter /\ (seq' = Num(S) \/ seq' = Num(z))
  <2>1. Plus(seq, len) = Num(z)
    BY <1>1, <1>2, <1>4, PlusNum
  <2> QED
    BY <1>2, <2>1 DEF Send, after_send_raw0
<1>6. \A S2 \in {S, z} : /\ S2 \in Int /\ S2 <= E2 /\ E2 - S2 <= Span(MaxFlight) + 2 * window_size
                         /\ Free(S2, A, E2)
  BY <1>1, <1>2, <1>3, <1>4, Room DEF Free
<1> QED
  BY <1>5, <1>6

(* Modes 3 and 4: where a packet leaves seq.                               *)
LEMMA SendWindow ==
    ASSUME NEW S \in Int, NEW A \in Int, NEW E \in Int, NEW p, NEW len \in Lengths,
           NEW E2 \in Int, E2 = (IF S + len > E THEN S + len ELSE E),
           NEW B \in Int, NEW M \in Int, NEW a,
           Stream(S, A, E, p), Known(S, A, E, B, M, a), seq_mode \in {3, 4}, Send(len)
    PROVE  /\ ack_seq_counter' \in {ack_seq_counter, 0}
           /\ ack_seq_counter >= 3 => ack_seq_counter' = 0
           /\ \E S2 \in Int :
                 /\ seq' = Num(S2) /\ S2 <= E2 /\ E2 - S2 <= Span(MaxFlight) + 2 * window_size
                 /\ E2 <= M + window_size /\ S2 + max_data_len <= M + window_size
<1>1. len \in Int /\ len >= 1 /\ len <= max_data_len
  BY LengthsAssumption, Room
<1>2. /\ seq = Num(S) /\ S <= E /\ A <= E /\ E - S <= Span(MaxFlight) + 2 * window_size
      /\ acked = Num(B) /\ B <= M /\ M <= A /\ M - B <= Span(MaxFlight)
      /\ E <= M + window_size /\ S + max_data_len <= M + window_size
  BY DEF Stream, Known
<1>3. PICK z, x, y \in Int : z = S + len /\ x = z + max_data_len /\ y = B + window_size
  BY <1>1, Room
<1>4. /\ Plus(seq, len) = Num(z) /\ Plus(Num(z), max_data_len) = Num(x)
      /\ Plus(acked, window_size) = Num(y)
  <2>1. Plus(Num(S), len) = Num(S + len)
    BY <1>1, PlusNum
  <2>2. Plus(Num(z), max_data_len) = Num(z + max_data_len)
    BY PlusNum, Room
  <2>3. Plus(Num(B), window_size) = Num(B + window_size)
    BY PlusNum, Room
  <2> QED
    BY <1>2, <1>3, <2>1, <2>2, <2>3
<1>5. WindowUsedUp(Num(z)) <=> x > y
  <2>1. x - y < Half /\ y - x < Half
    BY <1>1, <1>2, <1>3, Room
  <2>2. larger_than_u32(Num(x), Num(y)) <=> x > y
    BY <2>1, LargerNum
  <2> QED
    BY <1>4, <2>2 DEF WindowUsedUp
<1>6. larger_than_u32(acked, Num(z)) <=> B > z
  <2>1. B - z < Half /\ z - B < Half
    BY <1>1, <1>2, <1>3, Room
  <2> QED
    BY <1>2, <2>1, LargerNum
<1>7. Windowed(Num(z))
  BY <1>4 DEF Send, after_send_raw0
<1>8. /\ ack_seq_counter' = IF ack_seq_counter >= 3 THEN 0 ELSE ack_seq_counter
      /\ \/ seq' = Num(B)
         \/ seq' = Num(z) /\ ~WindowUsedUp(Num(z)) /\ ~larger_than_u32(acked, Num(z))
  BY <1>2, <1>7 DEF Windowed
<1>9. CASE seq' = Num(B)
  <2>1. /\ B <= E2 /\ E2 - B <= Span(MaxFlight) + 2 * window_size
        /\ E2 <= M + window_size /\ B + max_data_len <= M + window_size
    BY <1>1, <1>2, Room
  <2> QED
    BY <1>8, <1>9, <2>1
<1>10. CASE seq' = Num(z) /\ x <= y /\ B <= z
  <2>1. /\ z <= E2 /\ E2 - z <= Span(MaxFlight) + 2 * window_size
        /\ E2 <= M + window_size /\ z + max_data_len <= M + window_size
    BY <1>1, <1>2, <1>3, <1>10, Room
  <2> QED
    BY <1>8, <1>10, <2>1
<1> QED
  BY <1>3, <1>5, <1>6, <1>8, <1>9, <1>10

(* The sender sends a packet.                                              *)
LEMMA SendIInv ==
    ASSUME IInv, NEW len \in Lengths, Send(len)
    PROVE  IInv' /\ ack_seq' = ack_seq
<1>1. /\ ack_seq' = ack_seq /\ seq_mode' = seq_mode /\ acked' = acked /\ acks' = acks
      /\ packets' = InFlight(packets, [seq |-> seq, len |-> len])
      /\ sent_end' = IF larger_than_u32(Plus(seq, len), sent_end) THEN Plus(seq, len) ELSE sent_end
  BY DEF Send
<1>2. PICK S, A, E \in Int, p \in [1 .. Len(packets) -> Int] :
         Stream(S, A, E, p) /\ Modes(S, A, E)
  BY DEF IInv, Positions
<1>3. /\ seq = Num(S) /\ sent_end = Num(E) /\ S <= E /\ ack_seq = Num(A) /\ A <= E
      /\ E - S <= Span(MaxFlight) + 2 * window_size
  BY <1>2 DEF Stream
<1>4. len \in Int /\ len >= 1 /\ len <= max_data_len /\ max_data_len <= window_size
  BY LengthsAssumption, Room
<1>5. PICK z \in Int : z = S + len
  BY <1>4
<1>6. PICK E2 \in Int : E2 = IF S + len > E THEN S + len ELSE E
  BY <1>4
<1>7. E <= E2 /\ z <= E2 /\ E2 <= E + window_size /\ A <= E2
  <2>1. A <= E /\ window_size \in Int /\ len <= window_size /\ len >= 0
    BY <1>3, <1>4, Windows
  <2>2. CASE S + len > E
    <3>1. E2 = S + len /\ S <= E
      BY <1>3, <1>6, <2>2
    <3> QED
      BY <1>4, <1>5, <2>1, <2>2, <3>1
  <2>3. CASE ~(S + len > E)
    <3>1. E2 = E
      BY <1>6, <2>3
    <3> QED
      BY <1>4, <1>5, <2>1, <2>3, <3>1
  <2> QED
    BY <2>2, <2>3
<1>8. sent_end' = Num(E2)
  <2>1. Plus(seq, len) = Num(z)
    BY <1>3, <1>4, <1>5, PlusNum
  <2>2. z - E < Half /\ E - z < Half
    <3>1. PICK w \in Int : w = Span(MaxFlight)
      BY Room
    <3>2. E - S <= w + 2 * window_size
      BY <1>3, <3>1
    <3>3. E - S < Half
      BY <3>1, <3>2, Spans
    <3>4. z <= E + window_size /\ S <= z
      BY <1>3, <1>4, <1>5, Windows
    <3> QED
      BY <3>3, <3>4, Windows
  <2>3. larger_than_u32(Num(z), Num(E)) <=> z > E
    BY <2>2, LargerNum
  <2> QED
    BY <1>1, <1>3, <1>5, <1>6, <2>1, <2>3
<1>9. /\ ack_seq_counter' \in 0 .. 3
      /\ \E S2 \in Int : /\ seq' = Num(S2) /\ S2 <= E2
                         /\ E2 - S2 <= Span(MaxFlight) + 2 * window_size
                         /\ Modes(S2, A, E2)'
  <2>1. CASE seq_mode \in 0 .. 2
    <3>1. Free(S, A, E)
      BY <1>2, <2>1 DEF Modes
    <3>2. /\ ack_seq_counter' = ack_seq_counter
          /\ \E S2 \in Int :
                /\ seq' = Num(S2) /\ S2 <= E2 /\ E2 - S2 <= Span(MaxFlight) + 2 * window_size
                /\ Free(S2, A, E2)
      BY <1>2, <1>6, <2>1, <3>1, SendFree
    <3>3. seq_mode' \notin {3, 4}
      BY <1>1, <2>1
    <3>4. \A S2 : Free(S2, A, E2) => Modes(S2, A, E2)'
      BY <3>3 DEF Modes, Free
    <3> QED
      BY <3>2, <3>4 DEF IInv, TypeOK
  <2>2. CASE seq_mode \in {3, 4}
    <3>1. PICK B, M \in Int, a \in [1 .. Len(acks) -> Int] : Known(S, A, E, B, M, a)
      BY <1>2, <2>2 DEF Modes, Acknowledged
    <3>2. /\ ack_seq_counter' \in {ack_seq_counter, 0}
          /\ \E S2 \in Int :
                /\ seq' = Num(S2) /\ S2 <= E2 /\ E2 - S2 <= Span(MaxFlight) + 2 * window_size
                /\ E2 <= M + window_size /\ S2 + max_data_len <= M + window_size
      BY <1>2, <1>6, <2>2, <3>1, SendWindow
    <3>3. ack_seq_counter' \in 0 .. 3
      BY <3>2 DEF IInv, TypeOK
    <3>4. PICK S2 \in Int :
             /\ seq' = Num(S2) /\ S2 <= E2 /\ E2 - S2 <= Span(MaxFlight) + 2 * window_size
             /\ E2 <= M + window_size /\ S2 + max_data_len <= M + window_size
      BY <3>2
    <3>5. Known(S2, A, E2, B, M, a)'
      BY <1>1, <3>1, <3>4 DEF Known, ArrivingAcks
    <3>6. Acknowledged(S2, A, E2)'
      BY <1>1, <3>5 DEF Acknowledged
    <3>7. seq_mode' \notin 0 .. 2
      BY <1>1, <2>2
    <3>8. Modes(S2, A, E2)'
      BY <3>6, <3>7 DEF Modes
    <3> QED
      BY <3>3, <3>4, <3>8
  <2> QED
    BY <2>1, <2>2, LengthsAssumption DEF IInv, TypeOK
<1>10. PICK S2 \in Int : /\ seq' = Num(S2) /\ S2 <= E2
                         /\ E2 - S2 <= Span(MaxFlight) + 2 * window_size
                         /\ Modes(S2, A, E2)'
  BY <1>9
<1>11. PICK x : x = [seq |-> seq, len |-> len]
  OBVIOUS
<1>12. x \in Packet \cup {Gone} /\ x.seq = Num(S) /\ x.len = len
  BY <1>3, <1>11 DEF IInv, TypeOK, Packet
<1>13. /\ packets \in Seq(Packet \cup {Gone}) /\ Len(packets) <= MaxFlight
       /\ packets' = InFlight(packets, x)
  BY <1>1, <1>11 DEF IInv, TypeOK
<1>14. PICK o : Shifted(Packet \cup {Gone}, packets, x, packets', o)
  BY <1>12, <1>13, InFlightShifts
<1>15. PICK n, k \in Nat : n = Len(packets) /\ k = Len(packets')
  <2>1. PICK T, q, r : T = Packet \cup {Gone} /\ q = packets /\ r = packets'
    OBVIOUS
  <2>2. q \in Seq(T) /\ r \in Seq(T)
    BY <1>13, <1>14, <2>1 DEF Shifted
  <2>3. Len(q) \in Nat /\ Len(r) \in Nat
    BY <2>2, LenProperties
  <2> QED
    BY <2>1, <2>3
<1>16. /\ o \in 0 .. 1 /\ packets' \in Seq(Packet \cup {Gone}) /\ k = n + 1 - o
       /\ k <= MaxFlight /\ k >= 1 /\ packets'[k] = x
       /\ \A i \in 1 .. k - 1 : i + o \in 1 .. n /\ packets'[i] = packets[i + o]
  BY <1>14, <1>15 DEF Shifted
<1> DEFINE f == [i \in 1 .. k |-> IF i = k THEN S ELSE p[i + o]]
<1>17. /\ f \in [1 .. Len(packets') -> Int] /\ f[k] = S
       /\ \A i \in 1 .. k - 1 : f[i] = p[i + o]
  <2>1. o \in 0 .. 1 /\ k = n + 1 - o /\ k >= 1
    BY <1>16
  <2>2. \A j \in 1 .. n : p[j] \in Int
    BY <1>15
  <2>3. /\ f \in [1 .. k -> Int] /\ f[k] = S
        /\ \A i \in 1 .. k - 1 : f[i] = p[i + o]
    BY <2>1, <2>2, PositionsShift
  <2> QED
    BY <1>15, <2>3
<1> HIDE DEF f
<1>18. ASSUME NEW i \in Arriving'
       PROVE  /\ packets'[i].seq = Num(f[i]) /\ f[i] + packets'[i].len <= E2
              /\ E2 - f[i] <= Span(MaxFlight) + 2 * window_size + Span(k - i + 1)
  <2>1. i \in 1 .. k /\ packets'[i] # Gone
    <3>1. PICK T, r : T = Packet \cup {Gone} /\ r = packets'
      OBVIOUS
    <3>2. r \in Seq(T)
      BY <1>16, <3>1
    <3>3. DOMAIN r = 1 .. k
      BY <1>15, <3>1, <3>2, LenProperties
    <3> QED
      BY <3>1, <3>3 DEF Arriving
  <2>2. CASE i = k
    <3>1. Span(k - i + 1) = window_size
      <4>1. k - i + 1 = 0 + 1
        BY <1>15, <2>2
      <4> QED
        BY <4>1, SpanStep, SpanZero, Room
    <3>2. S + len <= E2 /\ E2 - S <= Span(MaxFlight) + 2 * window_size + window_size
      <4>1. PICK w \in Int : w = Span(MaxFlight)
        BY Room
      <4>2. E - S <= w + 2 * window_size
        BY <1>3, <4>1
      <4>3. z <= E2 /\ E2 <= E + window_size
        BY <1>7
      <4>4. z = S + len /\ E2 - S <= w + 2 * window_size + window_size
        BY <1>5, <4>2, <4>3, Windows
      <4> QED
        BY <4>1, <4>3, <4>4
    <3> QED
      BY <1>12, <1>16, <1>17, <2>2, <3>1, <3>2
  <2>3. CASE i # k
    <3>1. PICK j \in 1 .. n : j = i + o
      BY <1>15, <1>16, <2>1, <2>3
    <3>2. packets'[i] = packets[j] /\ f[i] = p[j] /\ j \in Arriving
      <4>1. i \in 1 .. k - 1
        BY <1>15, <2>1, <2>3
      <4> QED
        BY <1>13, <1>15, <1>16, <1>17, <2>1, <3>1, <4>1 DEF Arriving
    <3>3. /\ packets[j].seq = Num(p[j]) /\ p[j] + packets[j].len <= E
          /\ E - p[j] <= Span(MaxFlight) + 2 * window_size + Span(n - j + 1)
      BY <1>2, <1>15, <3>2 DEF Stream
    <3>4. PICK u \in Int : u = n - j + 1
      BY <3>1
    <3>5. k - i + 1 = u + 1
      BY <1>15, <1>16, <2>1, <3>1, <3>4
    <3>6. Span(k - i + 1) = Span(u) + window_size /\ Span(u) \in Int
      BY <3>5, SpanStep
    <3>7. packets[j].len \in Int /\ p[j] \in Int
      <4>1. p[j] \in Int
        BY <1>15, <3>1
      <4>2. packets[j] \in Packet
        BY <1>13, <1>15, <3>1, <3>2 DEF Arriving
      <4>3. packets[j].len \in Lengths
        BY <4>2 DEF Packet
      <4>4. Lengths \subseteq Int
        BY LengthsAssumption
      <4> QED
        BY <4>1, <4>3, <4>4
    <3>8. p[j] + packets[j].len <= E2
      BY <1>7, <3>3, <3>7
    <3>9. E2 - p[j] <= Span(MaxFlight) + 2 * window_size + (Span(u) + window_size)
      <4>5. Span(u) \in Int /\ p[j] \in Int /\ Span(MaxFlight) \in Int
        BY <3>6, <3>7, Room
      <4>1. PICK y, v, w \in Int : y = p[j] /\ v = Span(u) /\ w = Span(MaxFlight)
        BY <4>5
      <4>2. E - y <= w + 2 * window_size + v
        BY <3>3, <3>4, <4>1
      <4>3. E2 <= E + window_size
        BY <1>7
      <4>4. E2 - y <= w + 2 * window_size + (v + window_size)
        BY <4>2, <4>3, Windows
      <4> QED
        BY <4>1, <4>4
    <3> QED
      BY <3>2, <3>3, <3>6, <3>8, <3>9
  <2> QED
    BY <2>2, <2>3
<1>19. Stream(S2, A, E2, f)'
  BY <1>1, <1>3, <1>7, <1>8, <1>10, <1>15, <1>18 DEF Stream
<1>20. Positions'
  BY <1>10, <1>17, <1>19 DEF Positions
<1>21. TypeOK'
  BY <1>1, <1>8, <1>9, <1>10, <1>15, <1>16, NumType DEF IInv, TypeOK
<1> QED
  BY <1>1, <1>20, <1>21 DEF IInv

(* A packet under way: its length, and how far it may be from ack_seq.     *)
LEMMA PacketNear ==
    ASSUME IInv, NEW S \in Int, NEW A \in Int, NEW E \in Int,
           NEW p \in [1 .. Len(packets) -> Int], Stream(S, A, E, p), NEW i \in Arriving
    PROVE  Near(A, E, p, i)
<1>1. PICK T, q : T = Packet \cup {Gone} /\ q = packets
  OBVIOUS
<1>2. q \in Seq(T) /\ Len(q) <= MaxFlight
  BY <1>1 DEF IInv, TypeOK
<1>3. PICK n \in Nat : n = Len(q)
  BY <1>2, LenProperties
<1>4. DOMAIN q = 1 .. n
  BY <1>2, <1>3, LenProperties
<1>5. i \in 1 .. n /\ q[i] # Gone
  BY <1>1, <1>4 DEF Arriving
<1>6. q[i] \in Packet
  BY <1>1, <1>2, <1>3, <1>5
<1>7. packets[i].len \in Int /\ packets[i].len >= 1 /\ packets[i].len <= max_data_len
  <2>1. packets[i].len \in Lengths
    BY <1>1, <1>6 DEF Packet
  <2>2. PICK l : l = packets[i].len
    OBVIOUS
  <2>3. l \in 1 .. max_data_len /\ max_data_len \in Nat
    BY <2>1, <2>2, LengthsAssumption
  <2>4. l \in Int /\ l >= 1 /\ l <= max_data_len
    BY <2>3
  <2> QED
    BY <2>2, <2>4
<1>8. PICK y \in Int : y = p[i]
  BY <1>1, <1>3, <1>5
<1>9. /\ packets[i].seq = Num(p[i]) /\ p[i] + packets[i].len <= E
      /\ E - y <= Span(MaxFlight) + 2 * window_size + Span(n - i + 1) /\ A <= E
  BY <1>1, <1>3, <1>8 DEF Stream
<1>10. PICK u \in Int : u = n - i + 1
  BY <1>5
<1>11. u <= MaxFlight
  BY <1>2, <1>3, <1>5, <1>10, Room
<1>12. Span(u) \in Int /\ Span(u) <= Span(MaxFlight)
  <2>1. Span(u) \in Int
    BY SpanStep
  <2>2. MaxFlight \in Int
    BY Room
  <2> QED
    BY <1>11, <2>1, <2>2, SpanMono
<1>13. A - y <= 2 * Span(MaxFlight) + 2 * window_size
  <2>1. PICK v, w \in Int : v = Span(u) /\ w = Span(MaxFlight)
    BY <1>12, Room
  <2>2. E - y <= w + 2 * window_size + v /\ v <= w /\ A <= E
    BY <1>9, <1>10, <1>12, <2>1
  <2>3. A - y <= 2 * w + 2 * window_size
    BY <2>2, Room
  <2> QED
    BY <2>1, <2>3
<1> QED
  BY <1>7, <1>8, <1>9, <1>13 DEF Near

(* The receiver takes a packet: ack_seq moves on within what was sent.     *)
LEMMA RecvPacketMoves ==
    ASSUME IInv, NEW S \in Int, NEW A \in Int, NEW E \in Int,
           NEW p \in [1 .. Len(packets) -> Int], Stream(S, A, E, p), Modes(S, A, E),
           NEW i \in Arriving, RecvPacket(i)
    PROVE  \E A2 \in Int : ack_seq' = Num(A2) /\ A <= A2 /\ A2 <= E /\ A2 - A < Half
<1>0. Near(A, E, p, i)
  BY PacketNear
<1>1. PICK y, l \in Int : y = p[i] /\ l = packets[i].len
  BY <1>0 DEF Near
<1>2. /\ l >= 1 /\ l <= max_data_len /\ packets[i].seq = Num(y) /\ y + l <= E
      /\ A - y <= 2 * Span(MaxFlight) + 2 * window_size
  BY <1>0, <1>1 DEF Near
<1>3. ack_seq = Num(A) /\ A <= E
  BY DEF Stream
<1>4. PICK z \in Int : z = y + l
  OBVIOUS
<1>5. Plus(packets[i].seq, packets[i].len) = Num(z)
  <2>1. Plus(Num(y), l) = Num(y + l)
    BY PlusNum
  <2> QED
    BY <1>1, <1>2, <1>4, <2>1
<1>6. CASE seq_mode \in 0 .. 2
  <2>1. E <= A + MaxAhead + max_data_len
    BY <1>6 DEF Modes, Free
  <2>2. E - A < Half
    BY <2>1, Room
  <2>3. z - A < Half /\ A - z < Half
    <3>1. A - y < Half
      <4>1. PICK w \in Int : w = Span(MaxFlight)
        BY Room
      <4>2. A - y <= 2 * w + 2 * window_size
        BY <1>2, <4>1
      <4>3. 2 * w + 2 * window_size < Half
        BY <4>1, Spans
      <4> QED
        BY <4>2, <4>3, Windows
    <3>2. y + l <= E /\ l >= 1
      BY <1>2
    <3> QED
      BY <1>4, <2>2, <3>1, <3>2, Windows
  <2>4. larger_than_u32(Num(z), Num(A)) <=> z > A
    BY <2>3, LargerNum
  <2>5. ack_seq' = IF larger_than_u32(Num(z), Num(A)) THEN Num(z) ELSE Num(A)
    BY <1>3, <1>5, <1>6 DEF RecvPacket, after_recv_raw0
  <2>6. CASE z > A
    BY <1>2, <1>4, <2>3, <2>4, <2>5, <2>6
  <2>7. CASE ~(z > A)
    BY <1>3, <2>4, <2>5, <2>7, Room
  <2> QED
    BY <2>6, <2>7
<1>7. CASE seq_mode \in {3, 4}
  <2>1. PICK B, M \in Int, a \in [1 .. Len(acks) -> Int] : Known(S, A, E, B, M, a)
    BY <1>7 DEF Modes, Acknowledged
  <2>2. E <= A + window_size
    BY <2>1, Room DEF Known
  <2>3. y - A < Half /\ A - y < Half
    <3>1. y + l <= E /\ l >= 1
      BY <1>2
    <3>2. y - A < Half
      BY <2>2, <3>1, Windows
    <3>3. PICK w \in Int : w = Span(MaxFlight)
      BY Room
    <3>4. A - y <= 2 * w + 2 * window_size
      BY <1>2, <3>3
    <3>5. 2 * w + 2 * window_size < Half
      BY <3>3, Spans
    <3>6. A - y < Half
      BY <3>4, <3>5, Windows
    <3> QED
      BY <3>2, <3>6
  <2>4. ack_seq' = IF Num(y) = Num(A) THEN Num(z) ELSE Num(A)
    BY <1>2, <1>3, <1>5, <1>7 DEF RecvPacket, after_recv_raw0
  <2>5. CASE Num(y) = Num(A)
    <3>1. y = A
      BY <2>3, <2>5, NumEqual
    <3>2. y + l <= E /\ l >= 1
      BY <1>2
    <3>3. A <= z /\ z <= E /\ z - A < Half
      BY <1>4, <2>2, <3>1, <3>2, Windows
    <3> QED
      BY <2>4, <2>5, <3>3
  <2>6. CASE Num(y) # Num(A)
    BY <1>3, <2>4, <2>6, Room
  <2> QED
    BY <2>5, <2>6
<1>8. seq_mode \in 0 .. 2 \/ seq_mode \in {3, 4}
  BY LengthsAssumption DEF IInv, TypeOK
<1> QED
  BY <1>6, <1>7, <1>8

(* The receiver takes a packet.                                            *)
LEMMA RecvPacketIInv ==
    ASSUME IInv, NEW i \in Arriving, RecvPacket(i)
    PROVE  IInv' /\ ~larger_than_u32(ack_seq, ack_seq')
<1>1. PICK S, A, E \in Int, p \in [1 .. Len(packets) -> Int] :
         Stream(S, A, E, p) /\ Modes(S, A, E)
  BY DEF IInv, Positions
<1>2. PICK A2 \in Int : ack_seq' = Num(A2) /\ A <= A2 /\ A2 <= E /\ A2 - A < Half
  BY <1>1, RecvPacketMoves
<1>3. /\ seq_mode' = seq_mode /\ seq' = seq /\ acked' = acked /\ acks' = acks
      /\ ack_seq_counter' = ack_seq_counter /\ sent_end' = sent_end
      /\ packets' = [packets EXCEPT ![i] = Gone]
  BY DEF RecvPacket
<1>4. ~larger_than_u32(ack_seq, ack_seq')
  <2>1. A - A2 < Half
    BY <1>2, Room
  <2>2. larger_than_u32(Num(A), Num(A2)) <=> A > A2
    BY <1>2, <2>1, LargerNum
  <2> QED
    BY <1>1, <1>2, <2>2 DEF Stream
<1>5. PICK T, q, r : T = Packet \cup {Gone} /\ q = packets /\ r = packets'
  OBVIOUS
<1>6. q \in Seq(T) /\ Len(q) <= MaxFlight /\ Gone \in T /\ i \in DOMAIN q
  BY <1>5 DEF IInv, TypeOK, Arriving
<1>7. r = [q EXCEPT ![i] = Gone]
  BY <1>3, <1>5
<1>8. r \in Seq(T) /\ Len(r) = Len(q) /\ DOMAIN r = DOMAIN q
  BY <1>6, <1>7, ExceptSeq
<1>9. \A j \in DOMAIN r : r[j] # Gone => r[j] = q[j] /\ j \in DOMAIN q
  BY <1>6, <1>7, <1>8
<1>10. Arriving' \subseteq Arriving /\ \A j \in Arriving' : packets'[j] = packets[j]
  BY <1>5, <1>9 DEF Arriving
<1>11. Len(packets') = Len(packets)
  BY <1>5, <1>8
<1>12. Stream(S, A2, E, p)'
  BY <1>1, <1>2, <1>3, <1>10, <1>11 DEF Stream
<1>13. Modes(S, A2, E)'
  <2>1. ASSUME Free(S, A, E) PROVE Free(S, A2, E)
    BY <1>2, <2>1, Room DEF Free
  <2>2. ASSUME Acknowledged(S, A, E) PROVE Acknowledged(S, A2, E)'
    <3>1. PICK B, M \in Int, a \in [1 .. Len(acks) -> Int] : Known(S, A, E, B, M, a)
      BY <2>2 DEF Acknowledged
    <3>2. ASSUME NEW j \in 1 .. Len(acks) PROVE a[j] <= A2
      <4>1. a[j] \in Int /\ a[j] <= A
        BY <3>1 DEF Known
      <4> QED
        BY <1>2, <4>1
    <3>3. M <= A2
      BY <1>2, <3>1 DEF Known
    <3>4. Known(S, A2, E, B, M, a)'
      BY <1>3, <3>1, <3>2, <3>3 DEF Known, ArrivingAcks
    <3> QED
      BY <1>3, <3>4 DEF Acknowledged
  <2> QED
    BY <1>1, <1>3, <2>1, <2>2 DEF Modes, Free
<1>14. Positions'
  BY <1>11, <1>12, <1>13 DEF Positions
<1>15. TypeOK'
  BY <1>2, <1>3, <1>5, <1>6, <1>8, NumType DEF IInv, TypeOK
<1> QED
  BY <1>4, <1>14, <1>15 DEF IInv

(* The sender takes an acknowledgement, which may be an overtaken one.     *)
LEMMA RecvAckIInv ==
    ASSUME IInv, NEW i \in ArrivingAcks, RecvAck(i)
    PROVE  IInv' /\ ack_seq' = ack_seq
<1>1. PICK S, A, E \in Int, p \in [1 .. Len(packets) -> Int] :
         Stream(S, A, E, p) /\ Modes(S, A, E)
  BY DEF IInv, Positions
<1>2. /\ seq_mode' = seq_mode /\ seq' = seq /\ ack_seq' = ack_seq /\ packets' = packets
      /\ sent_end' = sent_end /\ acked' = acks[i] /\ acks' = [acks EXCEPT ![i] = GoneAck]
  BY DEF RecvAck
<1>3. PICK T, q, r : T = Seq32 \cup {GoneAck} /\ q = acks /\ r = acks'
  OBVIOUS
<1>4. q \in Seq(T) /\ Len(q) <= MaxFlight /\ GoneAck \in T /\ i \in DOMAIN q /\ q[i] # GoneAck
  BY <1>3 DEF IInv, TypeOK, ArrivingAcks
<1>5. r = [q EXCEPT ![i] = GoneAck]
  BY <1>2, <1>3
<1>6. r \in Seq(T) /\ Len(r) = Len(q) /\ DOMAIN r = DOMAIN q
  BY <1>4, <1>5, ExceptSeq
<1>7. \A j \in DOMAIN r : r[j] # GoneAck => r[j] = q[j] /\ j \in DOMAIN q
  BY <1>4, <1>5, <1>6
<1>8. /\ ArrivingAcks' \subseteq ArrivingAcks /\ Len(acks') = Len(acks)
      /\ \A j \in ArrivingAcks' : acks'[j] = acks[j]
  BY <1>3, <1>6, <1>7 DEF ArrivingAcks
<1>9. PICK n \in Nat : n = Len(acks) /\ i \in 1 .. n /\ n <= MaxFlight
  <2>1. Len(q) \in Nat /\ DOMAIN q = 1 .. Len(q)
    BY <1>4, LenProperties
  <2> QED
    BY <1>3, <1>4, <2>1
<1>10. TypeOK'
  <2>1. acked' \in Seq32
    BY <1>2, <1>3, <1>4
  <2>2. ack_seq_counter' \in 0 .. 3
    BY DEF RecvAck, IInv, TypeOK
  <2> QED
    BY <1>2, <1>3, <1>4, <1>6, <2>1, <2>2 DEF IInv, TypeOK
<1>11. Stream(S, A, E, p)'
  BY <1>1, <1>2 DEF Stream, Arriving
<1>12. ASSUME Acknowledged(S, A, E) PROVE Acknowledged(S, A, E)'
  <2>1. PICK B, M \in Int, a \in [1 .. Len(acks) -> Int] : Known(S, A, E, B, M, a)
    BY <1>12 DEF Acknowledged
  <2>2. \A j \in 1 .. n : a[j] \in Int
    BY <1>9, <2>1
  <2>3. PICK b \in Int : b = a[i]
    BY <1>9, <2>2
  <2>4. PICK M2 \in Int : M2 = IF b > M THEN b ELSE M
    BY <2>1
  <2>5. /\ M <= A /\ E <= M + window_size /\ S + max_data_len <= M + window_size
        /\ \A j \in 1 .. n : /\ a[j] <= A /\ M <= a[j] + Span(n - j)
                             /\ j \in ArrivingAcks => acks[j] = Num(a[j])
        /\ \A h, j \in 1 .. n : h <= j => a[h] <= a[j] /\ a[j] <= a[h] + Span(j - h)
    BY <1>9, <2>1 DEF Known
  <2>6. /\ acked' = Num(b) /\ b <= M2 /\ M2 <= A /\ M <= M2
        /\ E <= M2 + window_size /\ S + max_data_len <= M2 + window_size
    <3>1. acked' = Num(b) /\ b <= A
      BY <1>2, <1>9, <2>3, <2>5
    <3> QED
      BY <2>4, <2>5, <3>1, Room
  <2>7. M2 - b <= Span(MaxFlight)
    <3>1. PICK u \in Int : u = n - i
      <4>1. n - i \in Int
        BY <1>9
      <4> QED
        BY <4>1
    <3>2. Span(u) <= Span(MaxFlight) /\ Span(u) \in Int /\ Span(MaxFlight) >= 0
      <4>1. u <= MaxFlight /\ MaxFlight \in Int
        BY <1>9, <3>1, Room
      <4>2. Span(u) <= Span(MaxFlight)
        BY <4>1, SpanMono
      <4> QED
        BY <4>2, SpanStep, Room
    <3>3. PICK v, w \in Int : v = Span(u) /\ w = Span(MaxFlight)
      BY <3>2, Spans
    <3>4. M <= b + v
      BY <1>9, <2>3, <2>5, <3>1, <3>3
    <3>5. v <= w /\ 0 <= w
      BY <3>2, <3>3
    <3>6. M2 - b <= w
      BY <2>4, <3>4, <3>5
    <3> QED
      BY <3>3, <3>6
  <2>8. ASSUME NEW j \in 1 .. n PROVE M2 <= a[j] + Span(n - j)
    <3>1. CASE M2 = M
      BY <2>5, <3>1
    <3>2. CASE M2 = b
      <4>1. PICK v \in Int : v = n - j
        OBVIOUS
      <4>2. Span(v) \in Int /\ Span(v) >= 0
        <5>1. 0 <= v
          BY <4>1
        <5>2. Span(0) <= Span(v)
          BY <5>1, SpanMono
        <5> QED
          BY <5>2, SpanStep, SpanZero
      <4>3. CASE j >= i
        <5>1. b <= a[j] /\ a[j] \in Int
          BY <1>9, <2>2, <2>3, <2>5, <4>3
        <5> QED
          BY <3>2, <4>1, <4>2, <5>1
      <4>4. CASE j < i
        <5>1. PICK w \in Int : w = i - j
          BY <1>9
        <5>2. b <= a[j] + Span(w)
          BY <1>9, <2>3, <2>5, <4>4, <5>1
        <5>3. Span(w) \in Int /\ Span(w) <= Span(v)
          <6>1. w <= v
            BY <1>9, <4>1, <5>1
          <6> QED
            BY <6>1, SpanStep, SpanMono
        <5> QED
          BY <2>2, <3>2, <4>1, <4>2, <5>2, <5>3
      <4> QED
        BY <1>9, <4>3, <4>4
    <3> QED
      BY <2>4, <3>1, <3>2
  <2>9. Known(S, A, E, b, M2, a)'
    BY <1>8, <1>9, <2>5, <2>6, <2>7, <2>8 DEF Known
  <2> QED
    BY <1>8, <2>1, <2>9 DEF Acknowledged
<1>13. Modes(S, A, E)'
  BY <1>1, <1>2, <1>12 DEF Modes, Free
<1>14. Positions'
  BY <1>1, <1>2, <1>11, <1>13 DEF Positions
<1> QED
  BY <1>2, <1>10, <1>14 DEF IInv

(* The receiver sends an acknowledgement.                                  *)
LEMMA SendAckIInv ==
    ASSUME IInv, SendAck
    PROVE  IInv' /\ ack_seq' = ack_seq
<1>1. PICK S, A, E \in Int, p \in [1 .. Len(packets) -> Int] :
         Stream(S, A, E, p) /\ Modes(S, A, E)
  BY DEF IInv, Positions
<1>2. /\ seq_mode' = seq_mode /\ seq' = seq /\ ack_seq' = ack_seq /\ packets' = packets
      /\ sent_end' = sent_end /\ acked' = acked /\ ack_seq_counter' = ack_seq_counter
      /\ acks' = InFlight(acks, ack_seq)
  BY DEF SendAck
<1>3. PICK T, q, r : T = Seq32 \cup {GoneAck} /\ q = acks /\ r = acks'
  OBVIOUS
<1>4. q \in Seq(T) /\ Len(q) <= MaxFlight /\ ack_seq \in T /\ r = InFlight(q, ack_seq)
  BY <1>2, <1>3 DEF IInv, TypeOK
<1>5. PICK o : Shifted(T, q, ack_seq, r, o)
  BY <1>4, InFlightShifts
<1>6. PICK n, k \in Nat : n = Len(q) /\ k = Len(r)
  <2>1. r \in Seq(T)
    BY <1>5 DEF Shifted
  <2> QED
    BY <1>4, <2>1, LenProperties
<1>7. /\ o \in 0 .. 1 /\ r \in Seq(T) /\ k = n + 1 - o
      /\ k <= MaxFlight /\ k >= 1 /\ r[k] = ack_seq
      /\ \A i \in 1 .. k - 1 : i + o \in 1 .. n /\ r[i] = q[i + o]
  BY <1>5, <1>6 DEF Shifted
<1>8. DOMAIN q = 1 .. n /\ DOMAIN r = 1 .. k
  BY <1>4, <1>6, <1>7, LenProperties
<1>9. TypeOK'
  BY <1>2, <1>3, <1>6, <1>7 DEF IInv, TypeOK
<1>10. Stream(S, A, E, p)'
  BY <1>1, <1>2 DEF Stream, Arriving
<1>11. ASSUME Acknowledged(S, A, E) PROVE Acknowledged(S, A, E)'
  <2>1. PICK B, M \in Int, a \in [1 .. Len(acks) -> Int] : Known(S, A, E, B, M, a)
    BY <1>11 DEF Acknowledged
  <2>2. \A j \in 1 .. n : a[j] \in Int
    BY <1>3, <1>6, <2>1
  <2>3. /\ acked = Num(B) /\ B <= M /\ M <= A /\ M - B <= Span(MaxFlight)
        /\ E <= M + window_size /\ S + max_data_len <= M + window_size
        /\ \A j \in 1 .. n : /\ a[j] <= A /\ M <= a[j] + Span(n - j)
                             /\ j \in ArrivingAcks => q[j] = Num(a[j])
        /\ \A h, j \in 1 .. n : h <= j => a[h] <= a[j] /\ a[j] <= a[h] + Span(j - h)
    BY <1>3, <1>6, <2>1 DEF Known
  <2>4. A <= M + window_size /\ ack_seq = Num(A)
    <3>1. A <= E /\ ack_seq = Num(A)
      BY <1>1 DEF Stream
    <3>2. E <= M + window_size
      BY <2>3
    <3> QED
      BY <3>1, <3>2, Room
  <2> DEFINE f == [i \in 1 .. k |-> IF i = k THEN A ELSE a[i + o]]
  <2>5. /\ f \in [1 .. Len(acks') -> Int] /\ f[k] = A
        /\ \A i \in 1 .. k - 1 : f[i] = a[i + o] /\ i + o \in 1 .. n
    <3>1. o \in 0 .. 1 /\ k = n + 1 - o /\ k >= 1
      BY <1>7
    <3>2. /\ f \in [1 .. k -> Int] /\ f[k] = A
          /\ \A i \in 1 .. k - 1 : i + o \in 1 .. n /\ f[i] = a[i + o]
      BY <2>2, <3>1, PositionsShift
    <3>3. Len(acks') = k
      BY <1>3, <1>6
    <3> QED
      BY <3>2, <3>3
  <2> HIDE DEF f
  <2>6. ASSUME NEW i \in 1 .. k - 1
        PROVE  f[i] \in Int /\ f[i] <= A /\ M <= f[i] + Span(k - i) /\ A <= f[i] + Span(k - i)
    <3>1. PICK j \in 1 .. n : j = i + o
      BY <2>5
    <3>2. PICK u, y \in Int : u = n - j /\ y = a[j]
      BY <2>2, <3>1
    <3>3. k - i = u + 1
      <4>1. o \in Int /\ k = n + 1 - o /\ u = n - j /\ j = i + o
        BY <1>7, <3>1, <3>2
      <4> QED
        BY <4>1
    <3>4. Span(k - i) = Span(u) + window_size /\ Span(u) \in Int
      BY <3>3, SpanStep
    <3>5. y <= A /\ M <= y + Span(u) /\ f[i] = y
      BY <2>3, <2>5, <3>1, <3>2
    <3>6. M <= y + (Span(u) + window_size) /\ A <= y + (Span(u) + window_size)
      <4>1. PICK v \in Int : v = Span(u)
        BY <3>4
      <4>2. M <= y + v /\ A <= M + window_size
        BY <2>4, <3>5, <4>1
      <4>3. M <= y + (v + window_size) /\ A <= y + (v + window_size)
        BY <4>2, Room
      <4> QED
        BY <4>1, <4>3
    <3> QED
      BY <3>4, <3>5, <3>6
  <2>7. Span(k - k) = 0
    <3>1. k - k = 0
      OBVIOUS
    <3> QED
      BY <3>1, SpanZero
  <2>8. ASSUME NEW i \in 1 .. k
        PROVE  f[i] <= A /\ M <= f[i] + Span(k - i)
    <3>1. CASE i = k
      BY <2>3, <2>5, <2>7, <3>1
    <3>2. CASE i # k
      BY <2>6, <3>2
    <3> QED
      BY <3>1, <3>2
  <2>9. ASSUME NEW i \in ArrivingAcks' PROVE i \in 1 .. k /\ r[i] = Num(f[i])
    <3>1. i \in 1 .. k /\ r[i] # GoneAck
      BY <1>3, <1>8 DEF ArrivingAcks
    <3>2. CASE i = k
      BY <1>7, <2>4, <2>5, <3>1, <3>2
    <3>3. CASE i # k
      <4>1. i \in 1 .. k - 1
        BY <3>1, <3>3
      <4>2. PICK j \in 1 .. n : j = i + o
        BY <2>5, <4>1
      <4>3. r[i] = q[j] /\ f[i] = a[j]
        BY <1>7, <2>5, <4>1, <4>2
      <4>4. j \in ArrivingAcks
        BY <1>3, <1>8, <3>1, <4>3 DEF ArrivingAcks
      <4> QED
        BY <2>3, <3>1, <4>3, <4>4
    <3> QED
      BY <3>2, <3>3
  <2>10. ASSUME NEW i \in 1 .. k, NEW j \in 1 .. k, i <= j
         PROVE  f[i] <= f[j] /\ f[j] <= f[i] + Span(j - i)
    <3>1. CASE i = k
      <4>1. j = k
        BY <2>10, <3>1
      <4> QED
        BY <2>5, <2>7, <3>1, <4>1
    <3>2. CASE i # k /\ j = k
      BY <2>5, <2>6, <3>2
    <3>3. CASE i # k /\ j # k
      <4>1. i \in 1 .. k - 1 /\ j \in 1 .. k - 1
        BY <3>3
      <4>2. PICK g, h \in 1 .. n : g = i + o /\ h = j + o
        BY <2>5, <4>1
      <4>3. h - g = j - i /\ g <= h
        BY <1>7, <2>10, <4>2
      <4>4. f[i] = a[g] /\ f[j] = a[h]
        BY <2>5, <4>1, <4>2
      <4>5. a[g] <= a[h] /\ a[h] <= a[g] + Span(h - g)
        BY <2>3, <4>3
      <4> QED
        BY <4>3, <4>4, <4>5
    <3> QED
      BY <3>1, <3>2, <3>3
  <2>11. Known(S, A, E, B, M, f)'
    BY <1>2, <1>3, <1>6, <2>3, <2>8, <2>9, <2>10 DEF Known
  <2> QED
    BY <2>1, <2>5, <2>11 DEF Acknowledged
<1>12. Modes(S, A, E)'
  BY <1>1, <1>2, <1>11 DEF Modes, Free
<1>13. Positions'
  BY <1>1, <1>2, <1>10, <1>12 DEF Positions
<1> QED
  BY <1>2, <1>9, <1>13 DEF IInv

(* A step never takes ack_seq back, and keeps the invariant.               *)
LEMMA NextIInv == IInv /\ [Next]_vars => IInv' /\ ~larger_than_u32(ack_seq, ack_seq')
<1> SUFFICES ASSUME IInv, [Next]_vars PROVE IInv' /\ ~larger_than_u32(ack_seq, ack_seq')
  OBVIOUS
<1>1. ~larger_than_u32(ack_seq, ack_seq)
  <2>1. PICK A \in Int : ack_seq = Num(A)
    BY DEF IInv, Positions, Stream
  <2>2. A - A < Half
    BY Room
  <2>3. larger_than_u32(Num(A), Num(A)) <=> A > A
    BY <2>2, LargerNum
  <2> QED
    BY <2>1, <2>3
<1>2. ASSUME NEW len \in Lengths, Send(len) PROVE IInv' /\ ack_seq' = ack_seq
  BY <1>2, SendIInv
<1>3. ASSUME NEW i \in ArrivingAcks, RecvAck(i) PROVE IInv' /\ ack_seq' = ack_seq
  BY <1>3, RecvAckIInv
<1>4. ASSUME NEW i \in Arriving, RecvPacket(i)
      PROVE  IInv' /\ ~larger_than_u32(ack_seq, ack_seq')
  BY <1>4, RecvPacketIInv
<1>5. ASSUME SendAck PROVE IInv' /\ ack_seq' = ack_seq
  BY <1>5, SendAckIInv
<1>6. CASE UNCHANGED vars
  <2>1. ack_seq' = ack_seq
    BY <1>6 DEF vars
  <2>2. TypeOK'
    BY <1>6 DEF vars, IInv, TypeOK
  <2>3. Positions'
    <3>1. PICK S, A, E \in Int, p \in [1 .. Len(packets) -> Int] :
             Stream(S, A, E, p) /\ Modes(S, A, E)
      BY DEF IInv, Positions
    <3>2. Stream(S, A, E, p)'
      BY <1>6, <3>1 DEF vars, Stream, Arriving
    <3>3. ASSUME Acknowledged(S, A, E) PROVE Acknowledged(S, A, E)'
      <4>1. PICK B, M \in Int, a \in [1 .. Len(acks) -> Int] : Known(S, A, E, B, M, a)
        BY <3>3 DEF Acknowledged
      <4>2. Known(S, A, E, B, M, a)'
        BY <1>6, <4>1 DEF vars, Known, ArrivingAcks
      <4> QED
        BY <1>6, <4>1, <4>2 DEF vars, Acknowledged
    <3>4. Modes(S, A, E)'
      BY <1>6, <3>1, <3>3 DEF vars, Modes, Free
    <3> QED
      BY <1>6, <3>2, <3>4 DEF vars, Positions
  <2> QED
    BY <1>1, <2>1, <2>2, <2>3 DEF IInv
<1> QED
  BY <1>1, <1>2, <1>3, <1>4, <1>5, <1>6 DEF Next

-----------------------------------------------------------------------------
(* The theorems.                                                           *)

(* The invariant holds in every state of every behaviour.                  *)
THEOREM SpecIInv == Spec => []IInv
  BY InitIInv, NextIInv, PTL DEF Spec

(* after_send_raw0 and after_recv_raw0 keep every variable in its type: a  *)
(* counter of repeated acknowledgements up to 3, numbers below NumMod.     *)
THEOREM TypeCorrect == Spec => []TypeOK
<1>1. IInv => TypeOK
  BY DEF IInv
<1> QED
  BY <1>1, SpecIInv, PTL

(* after_recv_raw0 never takes an acknowledgement back, in whatever order  *)
(* the packets come and wherever the numbers wrap around.                  *)
THEOREM AckNeverBack == Spec => AckMonotone
<1>1. IInv /\ [Next]_vars => [~larger_than_u32(ack_seq, ack_seq')]_vars
  BY NextIInv
<1> QED
  BY <1>1, SpecIInv, PTL DEF Spec, AckMonotone

(* The receiver acknowledges only what was sent, and after_send_raw0 keeps *)
(* every packet of modes 3 and 4 in the window the receiver offers at the  *)
(* time, although the acknowledgement it goes by may be an overtaken one.  *)
THEOREM AlwaysInWindow == Spec => []InWindow
<1>1. ASSUME IInv PROVE InWindow
  <2>1. PICK S, A, E \in Int, p \in [1 .. Len(packets) -> Int] :
           Stream(S, A, E, p) /\ Modes(S, A, E)
    BY <1>1 DEF IInv, Positions
  <2>2. ack_seq = Num(A) /\ sent_end = Num(E) /\ A <= E
    BY <2>1 DEF Stream
  <2>3. ASSUME seq_mode \in {3, 4} PROVE E <= A + window_size
    <3>1. PICK B, M \in Int, a \in [1 .. Len(acks) -> Int] : Known(S, A, E, B, M, a)
      BY <2>1, <2>3 DEF Modes, Acknowledged
    <3> QED
      BY <3>1, Room DEF Known
  <2>4. E - A < Half
    <3>1. CASE seq_mode \in 0 .. 2
      <4>1. E <= A + MaxAhead + max_data_len
        BY <2>1, <3>1 DEF Modes, Free
      <4> QED
        BY <4>1, Room
    <3>2. CASE seq_mode \in {3, 4}
      BY <2>3, <3>2, Room
    <3> QED
      BY <1>1, <3>1, <3>2, LengthsAssumption DEF IInv, TypeOK
  <2>5. ~larger_than_u32(ack_seq, sent_end)
    <3>1. A - E < Half
      BY <2>2, Room
    <3>2. larger_than_u32(Num(A), Num(E)) <=> A > E
      BY <2>4, <3>1, LargerNum
    <3> QED
      BY <2>2, <3>2
  <2>6. ASSUME seq_mode \in {3, 4}, NEW i \in Arriving
        PROVE  ~larger_than_u32(Plus(packets[i].seq, packets[i].len), Plus(ack_seq, window_size))
    <3>0. Near(A, E, p, i)
      BY <1>1, <2>1, PacketNear
    <3>1. PICK y, l \in Int : y = p[i] /\ l = packets[i].len
      BY <3>0 DEF Near
    <3>2. /\ l >= 1 /\ packets[i].seq = Num(y) /\ y + l <= E
          /\ A - y <= 2 * Span(MaxFlight) + 2 * window_size
      BY <3>0, <3>1 DEF Near
    <3>3. PICK z, x \in Int : z = y + l /\ x = A + window_size
      BY Room
    <3>4. Plus(packets[i].seq, packets[i].len) = Num(z)
      <4>1. Plus(Num(y), l) = Num(y + l)
        BY PlusNum
      <4> QED
        BY <3>1, <3>2, <3>3, <4>1
    <3>5. Plus(ack_seq, window_size) = Num(x)
      BY <2>2, <3>3, PlusNum, Room
    <3>6. z <= x /\ z - x < Half /\ x - z < Half
      BY <2>3, <2>6, <3>2, <3>3, Room
    <3>7. larger_than_u32(Num(z), Num(x)) <=> z > x
      BY <3>6, LargerNum
    <3> QED
      BY <3>4, <3>5, <3>6, <3>7
  <2> QED
    BY <2>5, <2>6 DEF InWindow
<1> QED
  BY <1>1, SpecIInv, PTL
=============================================================================
