------------------------- MODULE ConversationsProofs ------------------------
(***************************************************************************)
(* Proofs about Conversations for any number of applications, sockets and  *)
(* conversations, and any values of the timeouts and limits.               *)
(***************************************************************************)
EXTENDS Conversations, SequenceTheorems, WellFoundedInduction, TLAPS

Entry == [key : Conv, ts : Nat]
Maps(S, T) == UNION {[X -> T] : X \in SUBSET S}
Manager(Data) ==
    [data_to_conv : Maps(Data, Conv), conv_to_data : Maps(Conv, Data),
     q : Seq(Entry), last_clear_time : Nat]

(* A list: each key once, the most recent first, nothing of the future.    *)
Sorted(q, t) ==
    /\ q \in Seq(Entry)
    /\ \A i, j \in 1 .. Len(q) : i < j => q[i].key # q[j].key /\ q[i].ts >= q[j].ts
    /\ \A i \in 1 .. Len(q) : q[i].ts <= t

(* The two maps of a manager are inverse to each other.                    *)
Inverses(f, g) ==
    /\ \A k \in DOMAIN f : f[k] \in DOMAIN g /\ g[f[k]] = k
    /\ \A d \in DOMAIN g : g[d] \in DOMAIN f /\ f[g[d]] = d

Sound(m, Data, t) ==
    /\ m \in Manager(Data) /\ Sorted(m.q, t)
    /\ Inverses(m.conv_to_data, m.data_to_conv)
    /\ Keys(m.q) = DOMAIN m.conv_to_data

(* The time stamp of a conversation.                                       *)
Ts(q, k) == q[At(q, k)].ts

(***************************************************************************)
(* The inductive invariant.                                                *)
(***************************************************************************)
Packet == [conv : Conv, app : App]

Types ==
    /\ now \in Nat /\ conv_count \in 0 .. MaxConv /\ fd64_count \in 0 .. MaxFd64
    /\ up \subseteq Packet /\ down \subseteq Packet
    /\ owner \in Maps(Fd64, App)
    /\ used \in [client : Maps(Conv, Nat), server : Maps(Conv, Nat)]

(* The managers, one per side.                                             *)
Managers == Sound(c, App, now) /\ Sound(s, Fd64, now)

(* The histories concern the entries of the tables, and the time of the    *)
(* last data is the time stamp of the list.                                *)
Stamps(f, m) ==
    /\ DOMAIN f = DOMAIN m.conv_to_data
    /\ \A k \in DOMAIN m.conv_to_data : f[k] = Ts(m.q, k)
Histories ==
    /\ Stamps(used.client, c) /\ Stamps(used.server, s)
    /\ DOMAIN owner = DOMAIN s.data_to_conv
    /\ \A fd64 \in DOMAIN s.data_to_conv : fd64 <= fd64_count

(* Every number given out so far belongs to one address, for good: the     *)
(* client's table, the data on its way and the sockets of the server agree *)
(* on it, even after the client has forgotten the number.                  *)
Holders(who) ==
    /\ \A k \in DOMAIN c.conv_to_data : k <= conv_count /\ c.conv_to_data[k] = who[k]
    /\ \A p \in up \cup down : p.conv <= conv_count /\ p.app = who[p.conv]
    /\ \A k \in DOMAIN s.conv_to_data :
          k <= conv_count /\ owner[s.conv_to_data[k]] = who[k]
Held == \E who \in [1 .. conv_count -> App] : Holders(who)

NoFailure == ~assert_failed /\ ~misdelivered

IInv == Types /\ Managers /\ Histories /\ Held /\ NoFailure

(* g is the map f with one more entry, and without the keys of X.          *)
Grown(S, T, f, k, v, g) ==
    /\ g \in Maps(S, T) /\ DOMAIN g = DOMAIN f \cup {k} /\ g[k] = v
    /\ \A x \in DOMAIN f \ {k} : g[x] = f[x]
Shrunk(S, T, f, X, g) ==
    /\ g \in Maps(S, T) /\ DOMAIN g = DOMAIN f \ X
    /\ \A x \in DOMAIN f \ X : g[x] = f[x]

(* What update_active_time, insert_conv, both together and clear_inactive  *)
(* make of a manager m.                                                    *)
Refreshed(Data, m, k, t, u) ==
    /\ UpdateAllowed(m, k, t) /\ Sound(u, Data, t)
    /\ u.conv_to_data = m.conv_to_data /\ u.data_to_conv = m.data_to_conv
    /\ \A j \in DOMAIN m.conv_to_data : Ts(u.q, j) = IF j = k THEN t ELSE Ts(m.q, j)
Inserted(Data, m, k, d, t, u) ==
    /\ PushAllowed(m.q, k, t) /\ Sound(u, Data, t)
    /\ u.conv_to_data = With(m.conv_to_data, k, d)
    /\ u.data_to_conv = With(m.data_to_conv, d, k)
    /\ \A j \in DOMAIN m.conv_to_data : Ts(u.q, j) = Ts(m.q, j)
Opened(Data, m, k, d, t, u) ==
    /\ Inserted(Data, m, k, d, t, u) /\ Ts(u.q, k) = t
    /\ UpdateAllowed(insert_conv(m, k, d, t), k, t)
Cleared(Data, m, t, E, u) ==
    /\ Sound(u, Data, t) /\ E \in SUBSET DOMAIN m.conv_to_data
    /\ u.conv_to_data = Without(m.conv_to_data, E)
    /\ DOMAIN u.data_to_conv = DOMAIN m.data_to_conv \ {m.conv_to_data[k] : k \in E}
    /\ \A j \in DOMAIN m.conv_to_data \ E : Ts(u.q, j) = Ts(m.q, j)
    /\ \A k \in E : t - Ts(m.q, k) >= conv_timeout
    /\ \A k \in E, j \in DOMAIN m.conv_to_data \ E : Ts(m.q, k) <= Ts(m.q, j)

(* A step of a manager, unless the whole of it is given up.                *)
ManagerStep(Data, m, u, t) ==
    \/ u = m
    \/ \E k \in Conv \ DOMAIN m.conv_to_data, d \in Data \ DOMAIN m.data_to_conv :
          Opened(Data, m, k, d, t, u)
    \/ \E k \in DOMAIN m.conv_to_data : Refreshed(Data, m, k, t, u)
    \/ \E E : Cleared(Data, m, t, E, u)

-----------------------------------------------------------------------------
(* Maps and lists.                                                         *)

(* A map's entries.                                                        *)
LEMMA MapDef ==
    ASSUME NEW S, NEW T, NEW f
    PROVE  f \in Maps(S, T) <=> DOMAIN f \subseteq S /\ f \in [DOMAIN f -> T]
  BY DEF Maps

(* A map with one more entry.                                              *)
LEMMA WithMap ==
    ASSUME NEW S, NEW T, NEW f \in Maps(S, T), NEW k \in S, NEW v \in T,
           NEW g, g = With(f, k, v)
    PROVE  Grown(S, T, f, k, v, g)
<1>1. DOMAIN f \subseteq S /\ f \in [DOMAIN f -> T]
  BY MapDef
<1>2. DOMAIN g = DOMAIN f \cup {k} /\ g \in [DOMAIN f \cup {k} -> T]
  BY <1>1 DEF With
<1> QED
  BY <1>1, <1>2, MapDef DEF With, Grown

(* A map with fewer entries.                                               *)
LEMMA WithoutMap ==
    ASSUME NEW S, NEW T, NEW f \in Maps(S, T), NEW X, NEW g, g = Without(f, X)
    PROVE  Shrunk(S, T, f, X, g)
<1>1. DOMAIN f \subseteq S /\ f \in [DOMAIN f -> T]
  BY MapDef
<1>2. DOMAIN g = DOMAIN f \ X /\ g \in [DOMAIN f \ X -> T]
  BY <1>1 DEF Without
<1> QED
  BY <1>1, <1>2, MapDef DEF Without, Shrunk

(* Where a key is in a list.                                               *)
LEMMA AtKey ==
    ASSUME NEW t, NEW q, Sorted(q, t), NEW k \in Keys(q)
    PROVE  /\ At(q, k) \in 1 .. Len(q) /\ q[At(q, k)].key = k
           /\ \A i \in 1 .. Len(q) : q[i].key = k => i = At(q, k)
<1>1. q \in Seq(Entry) /\ DOMAIN q = 1 .. Len(q) /\ Len(q) \in Nat
  BY DEF Sorted
<1>2. \E i \in DOMAIN q : q[i].key = k
  BY DEF Keys
<1>3. At(q, k) \in 1 .. Len(q) /\ q[At(q, k)].key = k
  BY <1>1, <1>2 DEF At
<1>4. ASSUME NEW i \in 1 .. Len(q), q[i].key = k, i # At(q, k) PROVE FALSE
  <2>1. i < At(q, k) \/ At(q, k) < i
    BY <1>1, <1>3, <1>4
  <2> QED
    BY <1>3, <1>4, <2>1 DEF Sorted
<1> QED
  BY <1>3, <1>4

(* A key in a list is where an entry has it.                               *)
LEMMA AtIs ==
    ASSUME NEW t, NEW q, Sorted(q, t), NEW i \in 1 .. Len(q)
    PROVE  q[i].key \in Keys(q) /\ At(q, q[i].key) = i /\ q[i] \in Entry
<1>1. q \in Seq(Entry) /\ DOMAIN q = 1 .. Len(q)
  BY DEF Sorted
<1>2. q[i].key \in Keys(q) /\ q[i] \in Entry
  BY <1>1 DEF Keys
<1> QED
  BY <1>2, AtKey

(* The keys of a list.                                                     *)
LEMMA KeysAre ==
    ASSUME NEW q \in Seq(Entry)
    PROVE  Keys(q) = {q[i].key : i \in 1 .. Len(q)}
  BY DEF Keys

(* A list without one of its entries.                                      *)
LEMMA Removal ==
    ASSUME NEW q \in Seq(Entry), NEW i \in 1 .. Len(q)
    PROVE  /\ RemoveAt(q, i) \in Seq(Entry) /\ Len(RemoveAt(q, i)) = Len(q) - 1
           /\ \A j \in 1 .. Len(q) - 1 : RemoveAt(q, i)[j] = IF j < i THEN q[j] ELSE q[j + 1]
<1> DEFINE a == SubSeq(q, 1, i - 1)
           b == SubSeq(q, i + 1, Len(q))
<1>1. Len(q) \in Nat /\ i \in Int /\ i >= 1 /\ i <= Len(q)
      /\ \A j \in 1 .. Len(q) : q[j] \in Entry
  OBVIOUS
<1>2. /\ a \in Seq(Entry) /\ Len(a) = i - 1
      /\ \A j \in 1 .. i - 1 : a[j] = q[j]
  <2>1. /\ a \in Seq(Entry)
        /\ Len(a) = IF 1 <= i - 1 THEN i - 1 - 1 + 1 ELSE 0
        /\ \A j \in 1 .. i - 1 - 1 + 1 : a[j] = q[1 + j - 1]
    <3>1. 1 \in Int /\ i - 1 \in Int /\ \A j \in 1 .. i - 1 : q[j] \in Entry
      BY <1>1
    <3> QED
      BY <3>1, SubSeqProperties
  <2> QED
    BY <1>1, <2>1
<1>3. /\ b \in Seq(Entry) /\ Len(b) = Len(q) - i
      /\ \A j \in 1 .. Len(q) - i : b[j] = q[i + j]
  <2>1. /\ b \in Seq(Entry)
        /\ Len(b) = IF i + 1 <= Len(q) THEN Len(q) - (i + 1) + 1 ELSE 0
        /\ \A j \in 1 .. Len(q) - (i + 1) + 1 : b[j] = q[i + 1 + j - 1]
    <3>1. i + 1 \in Int /\ Len(q) \in Int /\ \A j \in i + 1 .. Len(q) : q[j] \in Entry
      BY <1>1
    <3> QED
      BY <3>1, SubSeqProperties
  <2> QED
    BY <1>1, <2>1
<1> HIDE DEF a, b
<1>4. /\ a \o b \in Seq(Entry) /\ Len(a \o b) = Len(a) + Len(b)
      /\ \A j \in 1 .. Len(a) + Len(b) : (a \o b)[j] = IF j <= Len(a) THEN a[j] ELSE b[j - Len(a)]
  BY <1>2, <1>3, ConcatProperties
<1>5. Len(a) + Len(b) = Len(q) - 1
  BY <1>1, <1>2, <1>3
<1>6. ASSUME NEW j \in 1 .. Len(q) - 1
      PROVE  (a \o b)[j] = IF j < i THEN q[j] ELSE q[j + 1]
  <2>1. (a \o b)[j] = IF j <= Len(a) THEN a[j] ELSE b[j - Len(a)]
    BY <1>4, <1>5
  <2>2. CASE j < i
    BY <1>1, <1>2, <2>1, <2>2
  <2>3. CASE ~(j < i)
    <3>1. j - (i - 1) \in 1 .. Len(q) - i /\ i + (j - (i - 1)) = j + 1 /\ ~(j <= i - 1)
      BY <1>1, <2>3
    <3> QED
      BY <1>2, <1>3, <2>1, <2>3, <3>1
  <2> QED
    BY <2>2, <2>3
<1>7. RemoveAt(q, i) = a \o b
  BY DEF RemoveAt, a, b
<1> QED
  BY <1>4, <1>5, <1>6, <1>7

(* A list with one more entry in front.                                    *)
LEMMA Pushed ==
    ASSUME NEW q \in Seq(Entry), NEW k \in Conv, NEW t \in Nat
    PROVE  /\ push_front(q, k, t) \in Seq(Entry) /\ Len(push_front(q, k, t)) = Len(q) + 1
           /\ push_front(q, k, t)[1] = [key |-> k, ts |-> t]
           /\ \A j \in 2 .. Len(q) + 1 : push_front(q, k, t)[j] = q[j - 1]
<1> DEFINE e == [key |-> k, ts |-> t]
<1>1. e \in Entry
  BY DEF Entry
<1> HIDE DEF e
<1>2. <<e>> \in Seq(Entry) /\ Len(<<e>>) = 1 /\ <<e>>[1] = e
  BY <1>1
<1>3. /\ <<e>> \o q \in Seq(Entry) /\ Len(<<e>> \o q) = Len(<<e>>) + Len(q)
      /\ \A j \in 1 .. Len(<<e>>) + Len(q) :
            (<<e>> \o q)[j] = IF j <= Len(<<e>>) THEN <<e>>[j] ELSE q[j - Len(<<e>>)]
  BY <1>2, ConcatProperties
<1>4. Len(q) \in Nat
  OBVIOUS
<1>5. push_front(q, k, t) = <<e>> \o q
  BY DEF push_front, e
<1> QED
  BY <1>2, <1>3, <1>4, <1>5 DEF e

(* Every set of numbers with a bound has a largest element.                *)
LEMMA Largest ==
    ASSUME NEW n \in Nat, NEW T \in SUBSET (0 .. n), T # {}
    PROVE  \E x \in T : \A y \in T : x >= y
<1> DEFINE U == {n - y : y \in T}
           R == OpToRel(<, Nat)
<1>1. U \subseteq Nat /\ U # {}
  <2>1. \A y \in T : n - y \in Nat
    OBVIOUS
  <2> QED
    BY <2>1
<1>2. \A a, b \in Nat : a < b => <<a, b>> \in R
  BY DEF OpToRel
<1>3. IsWellFoundedOn(R, Nat)
  BY NatLessThanWellFounded
<1> HIDE DEF U, R
<1>4. PICK u \in U : \A v \in U : ~(<<v, u>> \in R)
  BY <1>1, <1>3, WFMin
<1>5. PICK x \in T : u = n - x
  BY DEF U
<1>6. ASSUME NEW y \in T PROVE x >= y
  <2>1. n - y \in U /\ n - y \in Nat /\ u \in Nat
    BY <1>1 DEF U
  <2>2. ~(n - y < u)
    BY <1>2, <1>4, <2>1
  <2> QED
    BY <1>5, <2>1, <2>2
<1> QED
  BY <1>6

-----------------------------------------------------------------------------
(* lru_collector_t.                                                        *)

(* A list without one of its keys.                                         *)
LEMMA RemoveList ==
    ASSUME NEW t \in Nat, NEW q, Sorted(q, t), NEW k \in Keys(q)
    PROVE  LET r == RemoveAt(q, At(q, k)) IN
           /\ Sorted(r, t) /\ Keys(r) = Keys(q) \ {k}
           /\ \A j \in Keys(r) : Ts(r, j) = Ts(q, j)
<1> DEFINE n == At(q, k)
           r == RemoveAt(q, n)
           From(j) == IF j < n THEN j ELSE j + 1
<1>1. q \in Seq(Entry) /\ Len(q) \in Nat
  BY DEF Sorted
<1>2. n \in 1 .. Len(q) /\ q[n].key = k /\ \A i \in 1 .. Len(q) : q[i].key = k => i = n
  BY AtKey
<1> HIDE DEF n
<1>3. /\ r \in Seq(Entry) /\ Len(r) = Len(q) - 1
      /\ \A j \in 1 .. Len(q) - 1 : r[j] = IF j < n THEN q[j] ELSE q[j + 1]
  BY <1>1, <1>2, Removal
<1> HIDE DEF r
<1>4. ASSUME NEW j \in 1 .. Len(q) - 1
      PROVE  From(j) \in 1 .. Len(q) /\ From(j) # n /\ r[j] = q[From(j)]
  BY <1>1, <1>2, <1>3
<1>5. \A i, j \in 1 .. Len(q) - 1 : i < j => From(i) < From(j)
  BY <1>1, <1>2
<1>6. ASSUME NEW i \in 1 .. Len(q), i # n PROVE \E j \in 1 .. Len(q) - 1 : From(j) = i
  <2>1. CASE i < n
    BY <1>1, <1>2, <2>1
  <2>2. CASE i > n
    <3>1. i - 1 \in 1 .. Len(q) - 1 /\ From(i - 1) = i
      BY <1>1, <1>2, <2>2
    <3> QED
      BY <3>1
  <2> QED
    BY <1>2, <1>6, <2>1, <2>2
<1> HIDE DEF From
<1>7. Sorted(r, t)
  <2>1. ASSUME NEW i \in 1 .. Len(r), NEW j \in 1 .. Len(r), i < j
        PROVE  r[i].key # r[j].key /\ r[i].ts >= r[j].ts
    <3>1. PICK a \in 1 .. Len(q) : a = From(i) /\ r[i] = q[a]
      BY <1>3, <1>4
    <3>2. PICK b \in 1 .. Len(q) : b = From(j) /\ r[j] = q[b]
      BY <1>3, <1>4
    <3>3. a < b
      BY <1>3, <1>5, <2>1, <3>1, <3>2
    <3> QED
      BY <3>1, <3>2, <3>3 DEF Sorted
  <2>2. ASSUME NEW i \in 1 .. Len(r) PROVE r[i].ts <= t
    BY <1>3, <1>4 DEF Sorted
  <2> QED
    BY <1>3, <2>1, <2>2 DEF Sorted
<1>8. Keys(r) = Keys(q) \ {k}
  <2>1. Keys(q) = {q[i].key : i \in 1 .. Len(q)} /\ Keys(r) = {r[j].key : j \in 1 .. Len(q) - 1}
    BY <1>1, <1>3, KeysAre
  <2>2. ASSUME NEW j \in 1 .. Len(q) - 1 PROVE r[j].key \in Keys(q) \ {k}
    BY <1>2, <1>4, <2>1
  <2>3. ASSUME NEW i \in 1 .. Len(q), q[i].key # k PROVE q[i].key \in Keys(r)
    <3>1. PICK j \in 1 .. Len(q) - 1 : From(j) = i
      BY <1>2, <1>6, <2>3
    <3> QED
      BY <1>4, <2>1, <3>1
  <2> QED
    BY <2>1, <2>2, <2>3
<1>9. ASSUME NEW j \in Keys(r) PROVE Ts(r, j) = Ts(q, j)
  <2>1. At(r, j) \in 1 .. Len(q) - 1 /\ r[At(r, j)].key = j
    BY <1>3, <1>7, AtKey
  <2>2. PICK i \in 1 .. Len(q) : r[At(r, j)] = q[i]
    BY <1>4, <2>1
  <2>3. At(q, j) = i
    BY <2>1, <2>2, AtIs
  <2> QED
    BY <2>2, <2>3 DEF Ts
<1> QED
  BY <1>7, <1>8, <1>9 DEF r, n

(* A key that is new to the list: new_key's asserts hold.                  *)
LEMMA PushList ==
    ASSUME NEW t \in Nat, NEW q, Sorted(q, t), NEW k \in Conv, k \notin Keys(q)
    PROVE  LET p == push_front(q, k, t) IN
           /\ PushAllowed(q, k, t) /\ Sorted(p, t) /\ Keys(p) = Keys(q) \cup {k}
           /\ Ts(p, k) = t /\ \A j \in Keys(q) : Ts(p, j) = Ts(q, j)
<1> DEFINE p == push_front(q, k, t)
<1>1. q \in Seq(Entry) /\ Len(q) \in Nat
  BY DEF Sorted
<1>2. /\ p \in Seq(Entry) /\ Len(p) = Len(q) + 1
      /\ p[1] = [key |-> k, ts |-> t]
      /\ \A j \in 2 .. Len(q) + 1 : p[j] = q[j - 1]
  BY <1>1, Pushed
<1> HIDE DEF p
<1>3. PushAllowed(q, k, t)
  <2>1. q # << >> => 1 \in 1 .. Len(q)
    BY <1>1
  <2>2. q # << >> => q[1].ts <= t /\ q[1].ts \in Nat
    <3>1. q # << >> => q[1] \in Entry /\ q[1].ts <= t
      BY <2>1, AtIs DEF Sorted
    <3> QED
      BY <3>1 DEF Entry
  <2> QED
    BY <2>2 DEF PushAllowed
<1>4. p[1].key = k /\ p[1].ts = t
  BY <1>2
<1>5. ASSUME NEW j \in 2 .. Len(q) + 1
      PROVE  j - 1 \in 1 .. Len(q) /\ p[j] = q[j - 1] /\ q[j - 1] \in Entry
             /\ q[j - 1].key \in Keys(q)
  BY <1>1, <1>2, AtIs
<1>6. Sorted(p, t)
  <2>1. ASSUME NEW i \in 1 .. Len(p), NEW j \in 1 .. Len(p), i < j
        PROVE  p[i].key # p[j].key /\ p[i].ts >= p[j].ts
    <3>1. j \in 2 .. Len(q) + 1
      BY <1>1, <1>2, <2>1
    <3>2. CASE i = 1
      <4>1. q[j - 1].ts <= t /\ q[j - 1].ts \in Nat
        BY <1>5, <3>1 DEF Sorted, Entry
      <4> QED
        BY <1>4, <1>5, <3>1, <3>2, <4>1
    <3>3. CASE i # 1
      <4>1. i \in 2 .. Len(q) + 1 /\ i - 1 < j - 1
        BY <1>1, <1>2, <2>1, <3>3
      <4>2. p[i] = q[i - 1] /\ p[j] = q[j - 1] /\ i - 1 \in 1 .. Len(q) /\ j - 1 \in 1 .. Len(q)
        BY <1>5, <3>1, <4>1
      <4> QED
        BY <4>1, <4>2 DEF Sorted
    <3> QED
      BY <3>2, <3>3
  <2>2. ASSUME NEW i \in 1 .. Len(p) PROVE p[i].ts <= t
    <3>1. CASE i = 1
      BY <1>4, <3>1
    <3>2. CASE i # 1
      <4>1. i \in 2 .. Len(q) + 1
        BY <1>1, <1>2, <2>2, <3>2
      <4> QED
        BY <1>5, <4>1 DEF Sorted
    <3> QED
      BY <3>1, <3>2
  <2> QED
    BY <1>2, <2>1, <2>2 DEF Sorted
<1>7. Keys(p) = Keys(q) \cup {k}
  <2>1. Keys(q) = {q[i].key : i \in 1 .. Len(q)} /\ Keys(p) = {p[j].key : j \in 1 .. Len(q) + 1}
    BY <1>1, <1>2, KeysAre
  <2>2. ASSUME NEW j \in 1 .. Len(q) + 1 PROVE p[j].key \in Keys(q) \cup {k}
    <3>1. j = 1 \/ j \in 2 .. Len(q) + 1
      BY <1>1
    <3> QED
      BY <1>4, <1>5, <3>1
  <2>3. 1 \in 1 .. Len(q) + 1
    BY <1>1
  <2>4. ASSUME NEW i \in 1 .. Len(q) PROVE q[i].key \in Keys(p)
    <3>1. i + 1 \in 2 .. Len(q) + 1 /\ i + 1 - 1 = i /\ i + 1 \in 1 .. Len(q) + 1
      BY <1>1
    <3>2. PICK e \in 2 .. Len(q) + 1 : e = i + 1
      BY <3>1
    <3>3. p[e] = q[e - 1]
      BY <1>5
    <3> QED
      BY <2>1, <3>1, <3>2, <3>3
  <2> QED
    BY <1>4, <2>1, <2>2, <2>3, <2>4
<1>8. Ts(p, k) = t
  <2>1. 1 \in 1 .. Len(p)
    BY <1>1, <1>2
  <2>2. At(p, k) = 1
    BY <1>4, <1>6, <2>1, AtIs
  <2> QED
    BY <1>4, <2>2 DEF Ts
<1>9. ASSUME NEW j \in Keys(q) PROVE Ts(p, j) = Ts(q, j)
  <2>1. At(q, j) \in 1 .. Len(q) /\ q[At(q, j)].key = j
    BY AtKey
  <2>2. PICK e \in 2 .. Len(q) + 1 : e - 1 = At(q, j) /\ e \in 1 .. Len(p)
    <3>1. PICK a \in 1 .. Len(q) : a = At(q, j)
      BY <2>1
    <3>2. PICK e \in 2 .. Len(q) + 1 : e = a + 1
      BY <1>1
    <3> QED
      BY <1>1, <1>2, <3>1, <3>2
  <2>3. p[e] = q[At(q, j)]
    BY <1>5, <2>2
  <2>4. At(p, j) = e
    BY <1>6, <2>1, <2>2, <2>3, AtIs
  <2> QED
    BY <2>3, <2>4 DEF Ts
<1> QED
  BY <1>3, <1>6, <1>7, <1>8, <1>9 DEF p

(* update: its asserts hold, and only the one stamp changes.               *)
LEMMA UpdateList ==
    ASSUME NEW t \in Nat, NEW q, Sorted(q, t), NEW k \in Keys(q), k \in Conv
    PROVE  LET p == lru_update(q, k, t) IN
           /\ PushAllowed(RemoveAt(q, At(q, k)), k, t) /\ Sorted(p, t) /\ Keys(p) = Keys(q)
           /\ \A j \in Keys(q) : Ts(p, j) = IF j = k THEN t ELSE Ts(q, j)
<1> DEFINE r == RemoveAt(q, At(q, k))
<1>1. /\ Sorted(r, t) /\ Keys(r) = Keys(q) \ {k}
      /\ \A j \in Keys(r) : Ts(r, j) = Ts(q, j)
  BY RemoveList
<1> HIDE DEF r
<1>2. k \notin Keys(r)
  BY <1>1
<1>3. /\ PushAllowed(r, k, t) /\ Sorted(push_front(r, k, t), t)
      /\ Keys(push_front(r, k, t)) = Keys(r) \cup {k}
      /\ Ts(push_front(r, k, t), k) = t
      /\ \A j \in Keys(r) : Ts(push_front(r, k, t), j) = Ts(r, j)
  BY <1>1, <1>2, PushList
<1>4. lru_update(q, k, t) = push_front(r, k, t)
  BY DEF lru_update, r
<1> QED
  BY <1>1, <1>3, <1>4 DEF r

(* The back of the list goes: what stays was used later.                   *)
LEMMA BackList ==
    ASSUME NEW t \in Nat, NEW q, Sorted(q, t), NEW n \in 0 .. Len(q)
    PROVE  LET p == SubSeq(q, 1, Len(q) - n) IN
           /\ Sorted(p, t) /\ Keys(p) = Keys(q) \ Back(q, n) /\ Back(q, n) \subseteq Keys(q)
           /\ \A j \in Keys(p) : Ts(p, j) = Ts(q, j)
           /\ \A b \in Back(q, n), j \in Keys(p) : Ts(q, b) <= Ts(q, j)
           /\ \A b \in Back(q, n) : \E i \in Len(q) - n + 1 .. Len(q) : Ts(q, b) = q[i].ts
<1> DEFINE l == Len(q) - n
           p == SubSeq(q, 1, l)
<1>1. q \in Seq(Entry) /\ Len(q) \in Nat /\ l \in 0 .. Len(q)
  BY DEF Sorted
<1> HIDE DEF l
<1>2. /\ p \in Seq(Entry) /\ Len(p) = l
      /\ \A i \in 1 .. l : p[i] = q[i]
  <2>1. 1 \in Int /\ l \in Int /\ \A i \in 1 .. l : q[i] \in Entry
    BY <1>1
  <2>2. /\ p \in Seq(Entry) /\ Len(p) = IF 1 <= l THEN l - 1 + 1 ELSE 0
        /\ \A i \in 1 .. l - 1 + 1 : p[i] = q[1 + i - 1]
    BY <2>1, SubSeqProperties
  <2> QED
    BY <1>1, <2>2
<1> HIDE DEF p
<1>3. Sorted(p, t)
  <2>1. \A i \in 1 .. l : i \in 1 .. Len(q)
    BY <1>1
  <2> QED
    BY <1>2, <2>1 DEF Sorted
<1>4. /\ Keys(q) = {q[i].key : i \in 1 .. Len(q)} /\ Keys(p) = {q[i].key : i \in 1 .. l}
      /\ Back(q, n) = {q[i].key : i \in l + 1 .. Len(q)}
  <2>1. Keys(p) = {p[i].key : i \in 1 .. l}
    BY <1>2, KeysAre
  <2> QED
    BY <1>1, <1>2, <2>1, KeysAre DEF Back, l
<1>5. ASSUME NEW i \in 1 .. l, NEW j \in l + 1 .. Len(q)
      PROVE  /\ q[i].key # q[j].key /\ q[i].ts >= q[j].ts
             /\ i \in 1 .. Len(q) /\ j \in 1 .. Len(q)
  <2>1. i \in 1 .. Len(q) /\ j \in 1 .. Len(q) /\ i < j
    BY <1>1
  <2> QED
    BY <2>1 DEF Sorted
<1>6. \A i \in 1 .. Len(q) : i \in 1 .. l \/ i \in l + 1 .. Len(q)
  BY <1>1
<1>7. Keys(p) = Keys(q) \ Back(q, n) /\ Back(q, n) \subseteq Keys(q)
  <2>1. \A i \in 1 .. l : i \in 1 .. Len(q)
    BY <1>1
  <2>2. \A i \in l + 1 .. Len(q) : i \in 1 .. Len(q)
    BY <1>1
  <2> QED
    BY <1>4, <1>5, <1>6, <2>1, <2>2
<1>8. ASSUME NEW j \in Keys(p)
      PROVE  \E i \in 1 .. l : Ts(p, j) = q[i].ts /\ Ts(q, j) = q[i].ts
  <2>1. PICK i \in 1 .. l : q[i].key = j
    BY <1>4
  <2>2. i \in 1 .. Len(q) /\ i \in 1 .. Len(p) /\ p[i] = q[i]
    BY <1>1, <1>2
  <2>3. At(q, j) = i /\ At(p, j) = i
    BY <1>3, <2>1, <2>2, AtIs
  <2> QED
    BY <2>2, <2>3 DEF Ts
<1>9. ASSUME NEW b \in Back(q, n)
      PROVE  \E i \in l + 1 .. Len(q) : Ts(q, b) = q[i].ts
  <2>1. PICK i \in l + 1 .. Len(q) : q[i].key = b
    BY <1>4
  <2>2. i \in 1 .. Len(q)
    BY <1>1
  <2>3. At(q, b) = i
    BY <2>1, <2>2, AtIs
  <2> QED
    BY <2>3 DEF Ts
<1>10. ASSUME NEW b \in Back(q, n), NEW j \in Keys(p) PROVE Ts(q, b) <= Ts(q, j)
  <2>1. PICK i \in 1 .. l : Ts(q, j) = q[i].ts
    BY <1>8
  <2>2. PICK k \in l + 1 .. Len(q) : Ts(q, b) = q[k].ts
    BY <1>9
  <2>3. q[i].ts >= q[k].ts /\ i \in 1 .. Len(q) /\ k \in 1 .. Len(q)
    BY <1>5
  <2>4. q[i].ts \in Nat /\ q[k].ts \in Nat
    <3>1. q[i] \in Entry /\ q[k] \in Entry
      BY <2>3, AtIs
    <3> QED
      BY <3>1 DEF Entry
  <2> QED
    BY <2>1, <2>2, <2>3, <2>4
<1> QED
  BY <1>3, <1>7, <1>8, <1>9, <1>10 DEF p, l

(* How many go: all of them have been idle for conv_timeout.               *)
LEMMA ToClearIdle ==
    ASSUME NEW t \in Nat, NEW q, Sorted(q, t)
    PROVE  /\ ToClear(q, t) \in 0 .. Len(q)
           /\ \A i \in Len(q) - ToClear(q, t) + 1 .. Len(q) : t - q[i].ts >= conv_timeout
<1> DEFINE size == Len(q)
           num == Min({size \div conv_clear_ratio + conv_clear_min, size})
           Idle(k) == \A i \in size - k + 1 .. size : t - q[i].ts >= conv_timeout
           T == {k \in 0 .. num : Idle(k)}
<1>1. size \in Nat
  BY DEF Sorted
<1>2. num \in 0 .. size
  <2>1. PICK a \in Nat : a = size \div conv_clear_ratio + conv_clear_min
    <3>1. size \div conv_clear_ratio \in Nat
      BY <1>1, ConvAssumption
    <3> QED
      BY <3>1, ConvAssumption
  <2>2. Min({a, size}) \in {a, size} /\ Min({a, size}) <= size /\ Min({a, size}) <= a
    <3>1. \E x \in {a, size} : \A y \in {a, size} : x =< y
      <4>1. a <= size \/ size <= a
        BY <1>1
      <4> QED
        BY <1>1, <4>1
    <3> DEFINE S == {a, size}
    <3> HIDE DEF S
    <3>2. Min(S) \in S /\ \A y \in S : Min(S) =< y
      BY <3>1 DEF Min, S
    <3> QED
      BY <3>2 DEF S
  <2> QED
    BY <1>1, <2>1, <2>2
<1> HIDE DEF num
<1>3. 0 \in T /\ T \in SUBSET (0 .. size)
  <2>1. \A i \in size - 0 + 1 .. size : FALSE
    BY <1>1
  <2> QED
    BY <1>1, <1>2, <2>1
<1>4. \E x \in T : \A y \in T : x >= y
  <2>1. T # {}
    BY <1>3
  <2> HIDE DEF T, size
  <2> QED
    BY <1>1, <1>3, <2>1, Largest
<1>5. Max(T) \in T
  <2> HIDE DEF T
  <2> QED
    BY <1>4 DEF Max
<1>6. ToClear(q, t) = Max(T)
  BY DEF ToClear, num
<1> HIDE DEF T
<1>7. ToClear(q, t) \in T
  BY <1>5, <1>6
<1> QED
  BY <1>2, <1>3, <1>7 DEF T

-----------------------------------------------------------------------------
(* conv_manager_t.                                                         *)

(* The parts of a manager.                                                 *)
LEMMA ManagerParts ==
    ASSUME NEW Data, NEW m \in Manager(Data)
    PROVE  /\ m.data_to_conv \in Maps(Data, Conv) /\ m.conv_to_data \in Maps(Conv, Data)
           /\ DOMAIN m.data_to_conv \subseteq Data /\ DOMAIN m.conv_to_data \subseteq Conv
           /\ \A d \in DOMAIN m.data_to_conv : m.data_to_conv[d] \in Conv
           /\ \A k \in DOMAIN m.conv_to_data : m.conv_to_data[k] \in Data
           /\ m.q \in Seq(Entry) /\ m.last_clear_time \in Nat
<1>1. /\ m.data_to_conv \in Maps(Data, Conv) /\ m.conv_to_data \in Maps(Conv, Data)
      /\ m.q \in Seq(Entry) /\ m.last_clear_time \in Nat
  BY DEF Manager
<1>2. /\ DOMAIN m.data_to_conv \subseteq Data /\ m.data_to_conv \in [DOMAIN m.data_to_conv -> Conv]
      /\ DOMAIN m.conv_to_data \subseteq Conv /\ m.conv_to_data \in [DOMAIN m.conv_to_data -> Data]
  BY <1>1, MapDef
<1> QED
  BY <1>1, <1>2

(* update_active_time.                                                     *)
LEMMA UpdateSound ==
    ASSUME NEW Data, NEW t \in Nat, NEW m, Sound(m, Data, t), NEW k \in DOMAIN m.conv_to_data,
           NEW u, u = update_active_time(m, k, t)
    PROVE  Refreshed(Data, m, k, t, u)
<1> DEFINE p == lru_update(m.q, k, t)
<1>1. /\ m \in Manager(Data) /\ Sorted(m.q, t) /\ Keys(m.q) = DOMAIN m.conv_to_data /\ k \in Conv
      /\ Inverses(m.conv_to_data, m.data_to_conv)
  BY ManagerParts DEF Sound
<1>2. /\ PushAllowed(RemoveAt(m.q, At(m.q, k)), k, t) /\ Sorted(p, t) /\ Keys(p) = Keys(m.q)
      /\ \A j \in Keys(m.q) : Ts(p, j) = IF j = k THEN t ELSE Ts(m.q, j)
  BY <1>1, UpdateList
<1>3. /\ u \in Manager(Data) /\ u.q = p /\ u.conv_to_data = m.conv_to_data
      /\ u.data_to_conv = m.data_to_conv
  <2>1. p \in Seq(Entry)
    BY <1>2 DEF Sorted
  <2>2. u = [m EXCEPT !.q = p]
    BY DEF update_active_time
  <2> HIDE DEF p
  <2> QED
    BY <1>1, <2>1, <2>2 DEF Manager
<1>4. UpdateAllowed(m, k, t)
  BY <1>1, <1>2 DEF UpdateAllowed
<1> HIDE DEF p
<1> QED
  BY <1>1, <1>2, <1>3, <1>4 DEF Sound, Refreshed

(* insert_conv, of a number and an address the manager does not know.      *)
LEMMA InsertSound ==
    ASSUME NEW Data, NEW t \in Nat, NEW m, Sound(m, Data, t),
           NEW k \in Conv \ DOMAIN m.conv_to_data, NEW d \in Data \ DOMAIN m.data_to_conv,
           NEW u, u = insert_conv(m, k, d, t)
    PROVE  Inserted(Data, m, k, d, t, u)
<1> DEFINE p == push_front(m.q, k, t)
           f0 == m.conv_to_data
           g0 == m.data_to_conv
           f == With(f0, k, d)
           g == With(g0, d, k)
<1>1. /\ m \in Manager(Data) /\ Sorted(m.q, t) /\ Keys(m.q) = DOMAIN m.conv_to_data
      /\ Inverses(m.conv_to_data, m.data_to_conv)
      /\ m.data_to_conv \in Maps(Data, Conv) /\ m.conv_to_data \in Maps(Conv, Data)
  BY ManagerParts DEF Sound
<1>2. /\ PushAllowed(m.q, k, t) /\ Sorted(p, t) /\ Keys(p) = Keys(m.q) \cup {k}
      /\ \A j \in Keys(m.q) : Ts(p, j) = Ts(m.q, j)
  BY <1>1, PushList
<1>3. /\ f \in Maps(Conv, Data) /\ DOMAIN f = DOMAIN m.conv_to_data \cup {k} /\ f[k] = d
      /\ \A x \in DOMAIN m.conv_to_data : f[x] = m.conv_to_data[x]
  <2>1. f0 \in Maps(Conv, Data) /\ k \in Conv /\ d \in Data /\ f = With(f0, k, d)
    BY <1>1
  <2> HIDE DEF f, f0
  <2>2. Grown(Conv, Data, f0, k, d, f)
    BY <2>1, WithMap
  <2> QED
    BY <2>2 DEF f0, Grown
<1>4. /\ g \in Maps(Data, Conv) /\ DOMAIN g = DOMAIN m.data_to_conv \cup {d} /\ g[d] = k
      /\ \A x \in DOMAIN m.data_to_conv : g[x] = m.data_to_conv[x]
  <2>1. g0 \in Maps(Data, Conv) /\ k \in Conv /\ d \in Data /\ g = With(g0, d, k)
    BY <1>1
  <2> HIDE DEF g, g0
  <2>2. Grown(Data, Conv, g0, d, k, g)
    BY <2>1, WithMap
  <2> QED
    BY <2>2 DEF g0, Grown
<1>5. u \in Manager(Data) /\ u.q = p /\ u.conv_to_data = f /\ u.data_to_conv = g
  <2>1. p \in Seq(Entry)
    BY <1>2 DEF Sorted
  <2>2. u = [m EXCEPT !.data_to_conv = g, !.conv_to_data = f, !.q = p]
    BY DEF insert_conv
  <2> HIDE DEF p, f, g
  <2> QED
    BY <1>1, <1>3, <1>4, <2>1, <2>2 DEF Manager
<1> HIDE DEF f, g, p
<1>6. Inverses(f, g)
  BY <1>1, <1>3, <1>4 DEF Inverses
<1> QED
  BY <1>1, <1>2, <1>3, <1>5, <1>6 DEF Sound, Inserted, f, g

(* insert_conv followed by update_active_time.                             *)
LEMMA OpenSound ==
    ASSUME NEW Data, NEW t \in Nat, NEW m, Sound(m, Data, t),
           NEW k \in Conv \ DOMAIN m.conv_to_data, NEW d \in Data \ DOMAIN m.data_to_conv,
           NEW i, i = insert_conv(m, k, d, t), NEW u, u = update_active_time(i, k, t)
    PROVE  Opened(Data, m, k, d, t, u)
<1>1. Inserted(Data, m, k, d, t, i)
  BY InsertSound
<1>2. Sound(i, Data, t) /\ k \in DOMAIN i.conv_to_data
  BY <1>1 DEF Inserted, With
<1>3. Refreshed(Data, i, k, t, u)
  BY <1>2, UpdateSound
<1>4. DOMAIN i.conv_to_data = DOMAIN m.conv_to_data \cup {k}
  BY <1>1 DEF Inserted, With
<1> QED
  BY <1>1, <1>2, <1>3, <1>4 DEF Inserted, Refreshed, Opened

(* clear_inactive: what goes was idle, and longer than all that stays.     *)
LEMMA ClearSound ==
    ASSUME NEW Data, NEW t \in Nat, NEW m, Sound(m, Data, t),
           NEW u, u = clear_inactive(m, t)
    PROVE  \E E : Cleared(Data, m, t, E, u)
<1>1. /\ m \in Manager(Data) /\ Sorted(m.q, t) /\ Keys(m.q) = DOMAIN m.conv_to_data
      /\ Inverses(m.conv_to_data, m.data_to_conv)
      /\ m.data_to_conv \in Maps(Data, Conv) /\ m.conv_to_data \in Maps(Conv, Data)
      /\ \A k \in DOMAIN m.conv_to_data : m.conv_to_data[k] \in Data
  BY ManagerParts DEF Sound
<1>2. CASE ~ClearDue(m, t)
  <2>1. u = m
    BY <1>2 DEF clear_inactive
  <2>2. Without(m.conv_to_data, {}) = m.conv_to_data
    <3>1. m.conv_to_data \in [DOMAIN m.conv_to_data -> Data]
      BY <1>1, MapDef
    <3> QED
      BY <3>1 DEF Without
  <2>3. DOMAIN m.data_to_conv \ {m.conv_to_data[k] : k \in {}} = DOMAIN m.data_to_conv
    OBVIOUS
  <2>4. Cleared(Data, m, t, {}, u)
    BY <1>1, <2>1, <2>2, <2>3 DEF Cleared
  <2> QED
    BY <2>4
<1>3. CASE ClearDue(m, t)
  <2> DEFINE n == ToClear(m.q, t)
             E == Back(m.q, n)
             p == SubSeq(m.q, 1, Len(m.q) - n)
             f0 == m.conv_to_data
             g0 == m.data_to_conv
             f == Without(f0, E)
             X == {m.conv_to_data[k] : k \in E}
             g == Without(g0, X)
  <2>1. n \in 0 .. Len(m.q) /\ \A i \in Len(m.q) - n + 1 .. Len(m.q) : t - m.q[i].ts >= conv_timeout
    BY <1>1, ToClearIdle
  <2> HIDE DEF n
  <2>2. /\ Sorted(p, t) /\ Keys(p) = Keys(m.q) \ E /\ E \subseteq Keys(m.q)
        /\ \A j \in Keys(p) : Ts(p, j) = Ts(m.q, j)
        /\ \A b \in E, j \in Keys(p) : Ts(m.q, b) <= Ts(m.q, j)
        /\ \A b \in E : \E i \in Len(m.q) - n + 1 .. Len(m.q) : Ts(m.q, b) = m.q[i].ts
    BY <1>1, <2>1, BackList
  <2> HIDE DEF E
  <2>3. /\ f \in Maps(Conv, Data) /\ DOMAIN f = DOMAIN m.conv_to_data \ E
        /\ \A x \in DOMAIN m.conv_to_data \ E : f[x] = m.conv_to_data[x]
    <3>1. f0 \in Maps(Conv, Data) /\ f = Without(f0, E)
      BY <1>1
    <3> HIDE DEF f, f0, X
    <3>2. Shrunk(Conv, Data, f0, E, f)
      BY <3>1, WithoutMap
    <3> QED
      BY <3>2 DEF f0, Shrunk
  <2>4. /\ g \in Maps(Data, Conv) /\ DOMAIN g = DOMAIN m.data_to_conv \ X
        /\ \A x \in DOMAIN m.data_to_conv \ X : g[x] = m.data_to_conv[x]
    <3>1. g0 \in Maps(Data, Conv) /\ g = Without(g0, X)
      BY <1>1
    <3> HIDE DEF g, g0, X
    <3>2. Shrunk(Data, Conv, g0, X, g)
      BY <3>1, WithoutMap
    <3> QED
      BY <3>2 DEF g0, Shrunk
  <2>5. u \in Manager(Data) /\ u.q = p /\ u.conv_to_data = f /\ u.data_to_conv = g
    <3> DEFINE v == [m EXCEPT !.last_clear_time = t]
    <3>1. /\ v \in Manager(Data) /\ v.q = m.q /\ v.conv_to_data = m.conv_to_data
          /\ v.data_to_conv = m.data_to_conv
      BY <1>1 DEF Manager
    <3>2. u = clear_inactive0(v, t)
      BY <1>3 DEF clear_inactive
    <3> HIDE DEF v
    <3>3. u = [v EXCEPT !.data_to_conv = g, !.conv_to_data = f, !.q = p]
      BY <3>1, <3>2 DEF clear_inactive0, erase_conv, n, E
    <3>4. p \in Seq(Entry)
      BY <2>2 DEF Sorted
    <3> HIDE DEF p, f, g
    <3> QED
      BY <2>3, <2>4, <3>1, <3>3, <3>4 DEF Manager
  <2>6. Inverses(f, g)
    <3>1. \A k \in DOMAIN m.conv_to_data \ E : m.conv_to_data[k] \notin X
      BY <1>1, <2>2 DEF Inverses
    <3>2. \A d \in DOMAIN m.data_to_conv \ X : m.data_to_conv[d] \notin E
      BY <1>1, <2>2 DEF Inverses
    <3> HIDE DEF f, g, X
    <3> QED
      BY <1>1, <2>3, <2>4, <3>1, <3>2 DEF Inverses
  <2> HIDE DEF p, f, g, X
  <2>7. Sound(u, Data, t)
    BY <1>1, <2>2, <2>3, <2>5, <2>6 DEF Sound
  <2>8. \A b \in E : t - Ts(m.q, b) >= conv_timeout
    BY <2>1, <2>2
  <2>9. E \in SUBSET DOMAIN m.conv_to_data
    BY <1>1, <2>2
  <2>10. /\ u.conv_to_data = Without(m.conv_to_data, E)
         /\ DOMAIN u.data_to_conv = DOMAIN m.data_to_conv \ {m.conv_to_data[k] : k \in E}
         /\ \A j \in DOMAIN m.conv_to_data \ E : Ts(u.q, j) = Ts(m.q, j)
         /\ \A k \in E, j \in DOMAIN m.conv_to_data \ E : Ts(m.q, k) <= Ts(m.q, j)
    BY <1>1, <2>2, <2>4, <2>5 DEF f, X
  <2>11. Cleared(Data, m, t, E, u)
    BY <2>7, <2>8, <2>9, <2>10 DEF Cleared
  <2> QED
    BY <2>11
<1> QED
  BY <1>2, <1>3

(* A manager of which nothing has happened yet.                            *)
LEMMA EmptySound ==
    ASSUME NEW Data, NEW t \in Nat, NEW x \in Nat
    PROVE  /\ Sound(EmptyManager(x), Data, t)
           /\ DOMAIN EmptyManager(x).conv_to_data = {}
           /\ DOMAIN EmptyManager(x).data_to_conv = {}
<1> DEFINE m == EmptyManager(x)
<1>1. m.data_to_conv = << >> /\ m.conv_to_data = << >> /\ m.q = << >> /\ m.last_clear_time = x
  BY DEF EmptyManager
<1>2. \A T : << >> \in [DOMAIN << >> -> T] /\ DOMAIN << >> = {}
  OBVIOUS
<1>3. << >> \in Maps(Data, Conv) /\ << >> \in Maps(Conv, Data) /\ << >> \in Seq(Entry)
  <2> DEFINE e == << >>
  <2>1. \A T : e \in [DOMAIN e -> T] /\ DOMAIN e = {}
    BY <1>2
  <2>2. e \in Seq(Entry)
    OBVIOUS
  <2> HIDE DEF e
  <2>3. \A S, T : e \in Maps(S, T)
    BY <2>1, MapDef
  <2> QED
    BY <2>2, <2>3 DEF e
<1>4. m \in Manager(Data)
  BY <1>3 DEF EmptyManager, Manager
<1> HIDE DEF m
<1>5. Sorted(m.q, t) /\ Keys(m.q) = {}
  BY <1>1, <1>2 DEF Sorted, Keys
<1> QED
  BY <1>1, <1>2, <1>4, <1>5 DEF Sound, Inverses, m

-----------------------------------------------------------------------------
(* What each action does to a manager.                                     *)

(* client_on_udp_recv, an address without a conversation.                  *)
LEMMA ClientNewOpens ==
    ASSUME IInv, NEW a \in App, ClientUdpNew(a)
    PROVE  /\ Opened(App, c, conv_count + 1, a, now, c') /\ ~assert_failed'
           /\ conv_count + 1 \in Conv \ DOMAIN c.conv_to_data
<1>1. PICK k : k = conv_count + 1
  OBVIOUS
<1>2. conv_count \in Nat /\ conv_count <= MaxConv /\ conv_count < MaxConv /\ now \in Nat
  BY ConvAssumption DEF IInv, Types, ClientUdpNew
<1>3. k \in Conv
  BY <1>1, <1>2, ConvAssumption DEF Conv
<1>4. k \notin DOMAIN c.conv_to_data
  BY <1>1, <1>2 DEF IInv, Held, Holders
<1>5. a \in App \ DOMAIN c.data_to_conv
  BY DEF ClientUdpNew, is_data_used
<1>6. PICK i : i = insert_conv(c, k, a, now)
  OBVIOUS
<1>7. /\ c' = update_active_time(i, k, now)
      /\ assert_failed' = ~(PushAllowed(c.q, k, now) /\ UpdateAllowed(i, k, now))
  BY <1>1, <1>6 DEF ClientUdpNew, get_new_conv
<1>8. Sound(c, App, now)
  BY DEF IInv, Managers
<1>9. Opened(App, c, k, a, now, c')
  BY <1>2, <1>3, <1>4, <1>5, <1>6, <1>7, <1>8, OpenSound
<1> QED
  BY <1>1, <1>3, <1>4, <1>6, <1>7, <1>9 DEF Opened, Inserted

(* client_on_udp_recv, an address with one.                                *)
LEMMA ClientAgainRefreshes ==
    ASSUME IInv, NEW a \in App, ClientUdpAgain(a)
    PROVE  /\ Refreshed(App, c, c.data_to_conv[a], now, c') /\ ~assert_failed'
           /\ c.data_to_conv[a] \in DOMAIN c.conv_to_data
           /\ c.conv_to_data[c.data_to_conv[a]] = a
<1>1. PICK k : k = c.data_to_conv[a]
  OBVIOUS
<1>2. Sound(c, App, now) /\ now \in Nat
  BY DEF IInv, Managers, Types
<1>3. k \in DOMAIN c.conv_to_data /\ c.conv_to_data[k] = a
  BY <1>1, <1>2 DEF Sound, Inverses, ClientUdpAgain, is_data_used
<1>4. c' = update_active_time(c, k, now) /\ assert_failed' = ~UpdateAllowed(c, k, now)
  BY <1>1 DEF ClientUdpAgain
<1>5. Refreshed(App, c, k, now, c')
  BY <1>2, <1>3, <1>4, UpdateSound
<1> QED
  BY <1>1, <1>3, <1>4, <1>5 DEF Refreshed

(* server_on_raw_recv_ready, a conversation with a socket.                 *)
LEMMA ServerKnownRefreshes ==
    ASSUME IInv, NEW p \in up, ServerRawKnown(p)
    PROVE  /\ Refreshed(Fd64, s, p.conv, now, s') /\ ~assert_failed'
           /\ p.conv \in DOMAIN s.conv_to_data
<1>1. PICK k : k = p.conv
  OBVIOUS
<1>2. Sound(s, Fd64, now) /\ now \in Nat
  BY DEF IInv, Managers, Types
<1>3. k \in DOMAIN s.conv_to_data
  BY <1>1 DEF ServerRawKnown, is_conv_used
<1>4. s' = update_active_time(s, k, now) /\ assert_failed' = ~UpdateAllowed(s, k, now)
  BY <1>1 DEF ServerRawKnown
<1>5. Refreshed(Fd64, s, k, now, s')
  BY <1>2, <1>3, <1>4, UpdateSound
<1> QED
  BY <1>1, <1>3, <1>4, <1>5 DEF Refreshed

(* server_on_raw_recv_ready, a new one.                                    *)
LEMMA ServerNewOpens ==
    ASSUME IInv, NEW p \in up, ServerRawNew(p)
    PROVE  /\ Opened(Fd64, s, p.conv, fd64_count + 1, now, s') /\ ~assert_failed'
           /\ p.conv \in Conv \ DOMAIN s.conv_to_data
           /\ fd64_count + 1 \in Fd64 \ DOMAIN s.data_to_conv
<1>1. PICK k, d : k = p.conv /\ d = fd64_count + 1
  OBVIOUS
<1>2. /\ fd64_count \in Nat /\ fd64_count < MaxFd64 /\ now \in Nat
      /\ p.conv \in Conv
  BY ConvAssumption DEF IInv, Types, ServerRawNew, Packet
<1>3. d \in Fd64
  BY <1>1, <1>2, ConvAssumption DEF Fd64
<1>4. d \notin DOMAIN s.data_to_conv
  BY <1>1, <1>2 DEF IInv, Histories
<1>5. k \in Conv \ DOMAIN s.conv_to_data
  BY <1>1, <1>2 DEF ServerRawNew, is_conv_used
<1>6. PICK i : i = insert_conv(s, k, d, now)
  OBVIOUS
<1>7. /\ s' = update_active_time(i, k, now)
      /\ assert_failed' = ~(PushAllowed(s.q, k, now) /\ UpdateAllowed(i, k, now))
  BY <1>1, <1>6 DEF ServerRawNew
<1>8. Sound(s, Fd64, now)
  BY DEF IInv, Managers
<1>9. Opened(Fd64, s, k, d, now, s')
  BY <1>2, <1>3, <1>4, <1>5, <1>6, <1>7, <1>8, OpenSound
<1> QED
  BY <1>1, <1>3, <1>4, <1>5, <1>6, <1>7, <1>9 DEF Opened, Inserted

(* client_on_raw_recv_hs2_or_ready.                                        *)
LEMMA ClientRawRefreshes ==
    ASSUME IInv, NEW p \in down, ClientRaw(p)
    PROVE  /\ Refreshed(App, c, p.conv, now, c') /\ ~assert_failed'
           /\ p.conv \in DOMAIN c.conv_to_data
<1>1. PICK k : k = p.conv
  OBVIOUS
<1>2. Sound(c, App, now) /\ now \in Nat
  BY DEF IInv, Managers, Types
<1>3. k \in DOMAIN c.conv_to_data
  BY <1>1 DEF ClientRaw, is_conv_used
<1>4. c' = update_active_time(c, k, now) /\ assert_failed' = ~UpdateAllowed(c, k, now)
  BY <1>1 DEF ClientRaw
<1>5. Refreshed(App, c, k, now, c')
  BY <1>2, <1>3, <1>4, UpdateSound
<1> QED
  BY <1>1, <1>3, <1>4, <1>5 DEF Refreshed

(* client_on_timer clears the client's manager.                            *)
LEMMA ClientTimerClears ==
    ASSUME IInv, ClientTimer
    PROVE  \E E : Cleared(App, c, now, E, c')
<1>1. Sound(c, App, now) /\ now \in Nat
  BY DEF IInv, Managers, Types
<1>2. c' = clear_inactive(c, now)
  BY DEF ClientTimer
<1> QED
  BY <1>1, <1>2, ClearSound

(* server_on_timer_multi clears the server's manager.                      *)
LEMMA ServerTimerClears ==
    ASSUME IInv, ServerTimer
    PROVE  \E E : Cleared(Fd64, s, now, E, s')
<1>1. Sound(s, Fd64, now) /\ now \in Nat
  BY DEF IInv, Managers, Types
<1>2. s' = clear_inactive(s, now)
  BY DEF ServerTimer
<1> QED
  BY <1>1, <1>2, ClearSound

(* The next session's manager knows nothing.                               *)
LEMMA ForgetsAll ==
    ASSUME IInv, ServerForgets
    PROVE  /\ Sound(s', Fd64, now) /\ DOMAIN s'.conv_to_data = {}
           /\ DOMAIN s'.data_to_conv = {}
<1>1. now \in Nat
  BY DEF IInv, Types
<1>2. PICK g \in Nat : s' = EmptyManager(g)
  BY ConvAssumption DEF ServerForgets
<1>3. /\ Sound(EmptyManager(g), Fd64, now) /\ DOMAIN EmptyManager(g).conv_to_data = {}
      /\ DOMAIN EmptyManager(g).data_to_conv = {}
  BY <1>1, EmptySound
<1> QED
  BY <1>2, <1>3

-----------------------------------------------------------------------------
(* The histories.                                                          *)

(* A history keeps pace with a number that is opened ...                   *)
LEMMA StampsOpen ==
    ASSUME NEW Data, NEW m, NEW u, NEW k \in Conv, NEW d, NEW t \in Nat,
           NEW f \in Maps(Conv, Nat), NEW g, g = With(f, k, t),
           Stamps(f, m), Opened(Data, m, k, d, t, u)
    PROVE  g \in Maps(Conv, Nat) /\ Stamps(g, u)
<1>1. Grown(Conv, Nat, f, k, t, g)
  BY WithMap
<1>2. DOMAIN u.conv_to_data = DOMAIN m.conv_to_data \cup {k}
  BY DEF Opened, Inserted, With
<1>3. /\ Ts(u.q, k) = t
      /\ \A j \in DOMAIN m.conv_to_data : Ts(u.q, j) = Ts(m.q, j)
  BY DEF Opened, Inserted
<1> QED
  BY <1>1, <1>2, <1>3 DEF Grown, Stamps

(* ... and with one that is used once more.                                *)
LEMMA StampsRefresh ==
    ASSUME NEW Data, NEW m, NEW u, NEW k \in Conv, NEW t \in Nat, k \in DOMAIN m.conv_to_data,
           NEW f \in Maps(Conv, Nat), NEW g, g = With(f, k, t),
           Stamps(f, m), Refreshed(Data, m, k, t, u)
    PROVE  g \in Maps(Conv, Nat) /\ Stamps(g, u)
<1>1. Grown(Conv, Nat, f, k, t, g)
  BY WithMap
<1>2. /\ u.conv_to_data = m.conv_to_data
      /\ \A j \in DOMAIN m.conv_to_data : Ts(u.q, j) = IF j = k THEN t ELSE Ts(m.q, j)
  BY DEF Refreshed
<1>3. DOMAIN g = DOMAIN u.conv_to_data
  BY <1>1, <1>2 DEF Grown, Stamps
<1>4. ASSUME NEW j \in DOMAIN u.conv_to_data PROVE g[j] = Ts(u.q, j)
  <2>1. CASE j = k
    BY <1>1, <1>2, <2>1 DEF Grown
  <2>2. CASE j # k
    BY <1>1, <1>2, <2>2 DEF Grown, Stamps
  <2> QED
    BY <2>1, <2>2
<1> QED
  BY <1>1, <1>3, <1>4 DEF Grown, Stamps

(* A map cut down to a set of its keys.                                    *)
LEMMA OnlyMap ==
    ASSUME NEW S, NEW T, NEW f \in Maps(S, T), NEW X, X \subseteq DOMAIN f,
           NEW g, g = Only(f, X)
    PROVE  g \in Maps(S, T) /\ DOMAIN g = X /\ \A x \in X : g[x] = f[x]
<1>1. DOMAIN f \subseteq S /\ f \in [DOMAIN f -> T]
  BY MapDef
<1>2. DOMAIN g = X /\ (\A x \in X : g[x] = f[x]) /\ g \in [X -> T]
  BY <1>1 DEF Only
<1> QED
  BY <1>1, <1>2, MapDef

(* A history keeps pace with what clear_inactive takes.                    *)
LEMMA StampsClear ==
    ASSUME NEW Data, NEW m, NEW u, NEW t, NEW E,
           NEW f \in Maps(Conv, Nat), NEW g, g = Only(f, DOMAIN u.conv_to_data),
           Stamps(f, m), Cleared(Data, m, t, E, u)
    PROVE  g \in Maps(Conv, Nat) /\ Stamps(g, u)
<1>1. PICK X : X = DOMAIN u.conv_to_data
  OBVIOUS
<1>2. X = DOMAIN m.conv_to_data \ E /\ \A j \in X : Ts(u.q, j) = Ts(m.q, j)
  BY <1>1 DEF Cleared, Without
<1>3. X \subseteq DOMAIN f /\ \A j \in X : f[j] = Ts(m.q, j)
  BY <1>2 DEF Stamps
<1>4. g \in Maps(Conv, Nat) /\ DOMAIN g = X /\ \A x \in X : g[x] = f[x]
  BY <1>1, <1>3, OnlyMap
<1> QED
  BY <1>1, <1>2, <1>3, <1>4 DEF Stamps

(* The fields of used.                                                     *)
LEMMA UsedFields ==
    ASSUME Types
    PROVE  /\ used.client \in Maps(Conv, Nat) /\ used.server \in Maps(Conv, Nat)
           /\ \A x \in Maps(Conv, Nat) :
                 /\ [used EXCEPT !.client = x] \in [client : Maps(Conv, Nat), server : Maps(Conv, Nat)]
                 /\ [used EXCEPT !.client = x].client = x
                 /\ [used EXCEPT !.client = x].server = used.server
                 /\ [used EXCEPT !.server = x] \in [client : Maps(Conv, Nat), server : Maps(Conv, Nat)]
                 /\ [used EXCEPT !.server = x].server = x
                 /\ [used EXCEPT !.server = x].client = used.client
  BY DEF Types

(* The same managers at a later time.                                      *)
LEMMA Later ==
    ASSUME NEW Data, NEW m, NEW t \in Nat, NEW z \in Nat, t <= z, Sound(m, Data, t)
    PROVE  Sound(m, Data, z)
<1>1. PICK q : q = m.q
  OBVIOUS
<1>2. Sorted(q, t) /\ q \in Seq(Entry)
  BY <1>1 DEF Sound, Sorted
<1>3. \A i \in 1 .. Len(q) : q[i] \in Entry
  BY <1>2
<1>4. \A i \in 1 .. Len(q) : q[i].ts <= z
  <2> SUFFICES ASSUME NEW i \in 1 .. Len(q) PROVE q[i].ts <= z
    OBVIOUS
  <2>1. q[i].ts \in Nat /\ q[i].ts <= t
    BY <1>2, <1>3 DEF Entry, Sorted
  <2> QED
    BY <2>1
<1>5. Sorted(q, z)
  BY <1>2, <1>4 DEF Sorted
<1> QED
  BY <1>1, <1>5 DEF Sound

-----------------------------------------------------------------------------
(* Every action keeps the invariant.                                       *)

(* In the first state nothing is known.                                    *)
LEMMA InitIInv == Init => IInv
<1> SUFFICES ASSUME Init PROVE IInv
  OBVIOUS
<1>1. PICK g \in Nat : c = EmptyManager(g) /\ s = EmptyManager(g)
  BY ConvAssumption DEF Init
<1>2. now \in Nat /\ now = 0 /\ conv_count = 0 /\ fd64_count = 0
  BY DEF Init
<1>3. /\ Sound(c, App, now) /\ Sound(s, Fd64, now) /\ DOMAIN c.conv_to_data = {}
      /\ DOMAIN s.conv_to_data = {} /\ DOMAIN s.data_to_conv = {}
  BY <1>1, <1>2, EmptySound
<1> DEFINE e == << >>
<1>4. (\A T : e \in [DOMAIN e -> T]) /\ DOMAIN e = {}
  OBVIOUS
<1>5. owner = e /\ used = [client |-> e, server |-> e]
  BY DEF Init
<1> HIDE DEF e
<1>6. \A S, T : e \in Maps(S, T)
  BY <1>4, MapDef
<1>7. Types
  <2>1. used \in [client : Maps(Conv, Nat), server : Maps(Conv, Nat)]
    BY <1>5, <1>6
  <2>2. owner \in Maps(Fd64, App) /\ up \subseteq Packet /\ down \subseteq Packet
    BY <1>5, <1>6 DEF Init
  <2> QED
    BY <1>2, <2>1, <2>2, ConvAssumption DEF Types
<1>8. Histories
  BY <1>3, <1>4, <1>5 DEF Histories, Stamps
<1>9. Held
  <2> DEFINE w == [k \in 1 .. conv_count |-> CHOOSE a \in App : TRUE]
  <2>1. w \in [1 .. conv_count -> App]
    BY <1>2
  <2>2. Holders(w)
    BY <1>3 DEF Holders, Init
  <2> QED
    BY <2>1, <2>2 DEF Held
<1> QED
  BY <1>3, <1>7, <1>8, <1>9 DEF IInv, Managers, NoFailure, Init

(* An application's datagram opens a conversation.                         *)
LEMMA ClientUdpNewIInv ==
    ASSUME IInv, NEW a \in App, ClientUdpNew(a)
    PROVE  IInv'
<1>1. PICK k : k = conv_count + 1
  OBVIOUS
<1>2. Opened(App, c, k, a, now, c') /\ ~assert_failed' /\ k \in Conv \ DOMAIN c.conv_to_data
  BY <1>1, ClientNewOpens
<1>3. /\ conv_count \in Nat /\ conv_count <= MaxConv /\ conv_count' = k /\ conv_count < MaxConv
      /\ k \in Nat /\ conv_count' \in 0 .. MaxConv
  BY <1>1, ConvAssumption DEF IInv, Types, ClientUdpNew
<1>4. /\ now' = now /\ s' = s /\ down' = down /\ fd64_count' = fd64_count /\ owner' = owner
      /\ misdelivered' = misdelivered
  BY DEF ClientUdpNew
<1>5. up' \subseteq up \cup {[conv |-> k, app |-> a]}
  BY <1>1 DEF ClientUdpNew, Upload, get_new_conv
<1>6. /\ used' \in [client : Maps(Conv, Nat), server : Maps(Conv, Nat)]
      /\ Stamps(used'.client, c') /\ used'.server = used.server
  <2>1. PICK g : g = With(used.client, k, now)
    OBVIOUS
  <2>2. used' = [used EXCEPT !.client = g]
    BY <1>1, <2>1 DEF ClientUdpNew, Used, get_new_conv
  <2>3. used.client \in Maps(Conv, Nat) /\ Stamps(used.client, c) /\ now \in Nat
    BY UsedFields DEF IInv, Types, Histories
  <2>4. g \in Maps(Conv, Nat) /\ Stamps(g, c')
    BY <1>2, <2>1, <2>3, StampsOpen
  <2> QED
    BY <2>2, <2>4, UsedFields DEF IInv
<1>7. Types'
  BY <1>2, <1>3, <1>4, <1>5, <1>6 DEF IInv, Types, Packet
<1>8. Managers'
  BY <1>2, <1>4 DEF IInv, Managers, Opened, Inserted
<1>9. Histories'
  BY <1>4, <1>6 DEF IInv, Histories
<1>10. Held'
  <2>1. PICK who \in [1 .. conv_count -> App] : Holders(who)
    BY DEF IInv, Held
  <2> DEFINE w == [j \in 1 .. k |-> IF j = k THEN a ELSE who[j]]
  <2>2. w \in [1 .. conv_count' -> App]
    BY <1>1, <1>3
  <2>3. w[k] = a /\ \A j \in 1 .. conv_count : w[j] = who[j]
    BY <1>1, <1>3
  <2> HIDE DEF w
  <2>4. \A j \in DOMAIN c.conv_to_data \cup DOMAIN s.conv_to_data : j \in Nat /\ j >= 1
    BY ManagerParts, ConvAssumption DEF IInv, Managers, Sound, Conv
  <2>5. \A p \in up \cup down : p.conv \in Nat /\ p.conv >= 1
    BY ConvAssumption DEF IInv, Types, Packet, Conv
  <2>6. \A j \in DOMAIN c'.conv_to_data : j <= conv_count' /\ c'.conv_to_data[j] = w[j]
    <3>1. c'.conv_to_data = With(c.conv_to_data, k, a)
      BY <1>2 DEF Opened, Inserted
    <3>2. \A j \in DOMAIN c'.conv_to_data : j = k \/ (j # k /\ j \in DOMAIN c.conv_to_data)
      BY <3>1 DEF With
    <3>3. c'.conv_to_data[k] = a
      BY <3>1 DEF With
    <3>4. ASSUME NEW j \in DOMAIN c.conv_to_data, j # k
          PROVE  j <= conv_count' /\ c'.conv_to_data[j] = w[j]
      <4>1. j <= conv_count /\ c.conv_to_data[j] = who[j]
        BY <2>1 DEF Holders
      <4>2. c'.conv_to_data[j] = c.conv_to_data[j]
        BY <3>1, <3>4 DEF With
      <4> QED
        BY <1>1, <1>3, <2>3, <2>4, <4>1, <4>2
    <3> QED
      BY <1>3, <2>3, <3>2, <3>3, <3>4
  <2>7. \A p \in up' \cup down' : p.conv <= conv_count' /\ p.app = w[p.conv]
    <3>1. ASSUME NEW p \in up \cup down PROVE p.conv <= conv_count' /\ p.app = w[p.conv]
      BY <1>1, <1>3, <2>1, <2>3, <2>5 DEF Holders
    <3>2. \A p : p = [conv |-> k, app |-> a] => p.conv <= conv_count' /\ p.app = w[p.conv]
      BY <1>3, <2>3
    <3> QED
      BY <1>4, <1>5, <3>1, <3>2
  <2>8. \A j \in DOMAIN s'.conv_to_data : j <= conv_count' /\ owner'[s'.conv_to_data[j]] = w[j]
    BY <1>1, <1>3, <1>4, <2>1, <2>3, <2>4 DEF Holders
  <2> QED
    BY <2>2, <2>6, <2>7, <2>8 DEF Held, Holders
<1> QED
  BY <1>2, <1>4, <1>7, <1>8, <1>9, <1>10 DEF IInv, NoFailure

(* An application's datagram uses its conversation.                        *)
LEMMA ClientUdpAgainIInv ==
    ASSUME IInv, NEW a \in App, ClientUdpAgain(a)
    PROVE  IInv'
<1>1. PICK k : k = c.data_to_conv[a]
  OBVIOUS
<1>2. /\ Refreshed(App, c, k, now, c') /\ ~assert_failed'
      /\ k \in DOMAIN c.conv_to_data /\ c.conv_to_data[k] = a
  BY <1>1, ClientAgainRefreshes
<1>3. k \in Conv
  BY <1>2, ManagerParts DEF IInv, Managers, Sound
<1>4. /\ now' = now /\ s' = s /\ down' = down /\ fd64_count' = fd64_count /\ owner' = owner
      /\ misdelivered' = misdelivered /\ conv_count' = conv_count
  BY DEF ClientUdpAgain
<1>5. up' \subseteq up \cup {[conv |-> k, app |-> a]}
  BY <1>1 DEF ClientUdpAgain, Upload
<1>6. /\ used' \in [client : Maps(Conv, Nat), server : Maps(Conv, Nat)]
      /\ Stamps(used'.client, c') /\ used'.server = used.server
  <2>1. PICK g : g = With(used.client, k, now)
    OBVIOUS
  <2>2. used' = [used EXCEPT !.client = g]
    BY <1>1, <2>1 DEF ClientUdpAgain, Used
  <2>3. used.client \in Maps(Conv, Nat) /\ Stamps(used.client, c) /\ now \in Nat
    BY UsedFields DEF IInv, Types, Histories
  <2>4. g \in Maps(Conv, Nat) /\ Stamps(g, c')
    BY <1>2, <1>3, <2>1, <2>3, StampsRefresh
  <2> QED
    BY <2>2, <2>4, UsedFields DEF IInv
<1>7. Types'
  BY <1>3, <1>4, <1>5, <1>6 DEF IInv, Types, Packet
<1>8. Managers'
  BY <1>2, <1>4 DEF IInv, Managers, Refreshed
<1>9. Histories'
  BY <1>4, <1>6 DEF IInv, Histories
<1>10. Held'
  <2>1. PICK who \in [1 .. conv_count -> App] : Holders(who)
    BY DEF IInv, Held
  <2>2. k <= conv_count /\ who[k] = a
    BY <1>2, <2>1 DEF Holders
  <2>3. \A p : p = [conv |-> k, app |-> a] => p.conv <= conv_count /\ p.app = who[p.conv]
    BY <2>2
  <2>4. \A p \in up' \cup down' : p.conv <= conv_count /\ p.app = who[p.conv]
    BY <1>4, <1>5, <2>1, <2>3 DEF Holders
  <2>5. Holders(who)'
    BY <1>2, <1>4, <2>1, <2>4 DEF Holders, Refreshed
  <2> QED
    BY <1>4, <2>5 DEF Held
<1> QED
  BY <1>2, <1>4, <1>7, <1>8, <1>9, <1>10 DEF IInv, NoFailure

(* Data reaches a conversation of the server.                              *)
LEMMA ServerRawKnownIInv ==
    ASSUME IInv, NEW p \in up, ServerRawKnown(p)
    PROVE  IInv'
<1>1. PICK k : k = p.conv
  OBVIOUS
<1>2. Refreshed(Fd64, s, k, now, s') /\ ~assert_failed' /\ k \in DOMAIN s.conv_to_data
  BY <1>1, ServerKnownRefreshes
<1>3. k \in Conv
  BY <1>2, ManagerParts DEF IInv, Managers, Sound
<1>4. /\ now' = now /\ c' = c /\ down' = down /\ fd64_count' = fd64_count /\ owner' = owner
      /\ conv_count' = conv_count /\ up' \subseteq up
  BY DEF ServerRawKnown
<1>5. PICK who \in [1 .. conv_count -> App] : Holders(who)
  BY DEF IInv, Held
<1>6. ~misdelivered'
  <2>1. owner[s.conv_to_data[k]] = who[k] /\ p.app = who[k]
    BY <1>1, <1>2, <1>5 DEF Holders
  <2>2. misdelivered' = (misdelivered \/ owner[s.conv_to_data[k]] # p.app)
    BY <1>1 DEF ServerRawKnown
  <2> QED
    BY <2>1, <2>2 DEF IInv, NoFailure
<1>7. /\ used' \in [client : Maps(Conv, Nat), server : Maps(Conv, Nat)]
      /\ Stamps(used'.server, s') /\ used'.client = used.client
  <2>1. PICK g : g = With(used.server, k, now)
    OBVIOUS
  <2>2. used' = [used EXCEPT !.server = g]
    BY <1>1, <2>1 DEF ServerRawKnown, Used
  <2>3. used.server \in Maps(Conv, Nat) /\ Stamps(used.server, s) /\ now \in Nat
    BY UsedFields DEF IInv, Types, Histories
  <2>4. g \in Maps(Conv, Nat) /\ Stamps(g, s')
    BY <1>2, <1>3, <2>1, <2>3, StampsRefresh
  <2> QED
    BY <2>2, <2>4, UsedFields DEF IInv
<1>8. Types'
  BY <1>4, <1>7 DEF IInv, Types
<1>9. Managers'
  BY <1>2, <1>4 DEF IInv, Managers, Refreshed
<1>10. Histories'
  BY <1>2, <1>4, <1>7 DEF IInv, Histories, Refreshed
<1>11. Holders(who)'
  BY <1>2, <1>4, <1>5 DEF Holders, Refreshed
<1>12. Held'
  BY <1>4, <1>11 DEF Held
<1> QED
  BY <1>2, <1>6, <1>8, <1>9, <1>10, <1>12 DEF IInv, NoFailure

(* Data opens a conversation of the server.                                *)
LEMMA ServerRawNewIInv ==
    ASSUME IInv, NEW p \in up, ServerRawNew(p)
    PROVE  IInv'
<1>1. PICK k, d : k = p.conv /\ d = fd64_count + 1
  OBVIOUS
<1>2. /\ Opened(Fd64, s, k, d, now, s') /\ ~assert_failed'
      /\ k \in Conv \ DOMAIN s.conv_to_data /\ d \in Fd64 \ DOMAIN s.data_to_conv
  BY <1>1, ServerNewOpens
<1>3. /\ now' = now /\ c' = c /\ down' = down /\ conv_count' = conv_count /\ up' \subseteq up
      /\ misdelivered' = misdelivered /\ fd64_count' = d /\ owner' = With(owner, d, p.app)
  BY <1>1 DEF ServerRawNew
<1>4. fd64_count \in Nat /\ fd64_count' \in 0 .. MaxFd64 /\ p.app \in App
  BY <1>1, <1>2, <1>3, ConvAssumption DEF IInv, Types, Packet, Fd64
<1>5. PICK who \in [1 .. conv_count -> App] : Holders(who)
  BY DEF IInv, Held
<1>6. /\ used' \in [client : Maps(Conv, Nat), server : Maps(Conv, Nat)]
      /\ Stamps(used'.server, s') /\ used'.client = used.client
  <2>1. PICK g : g = With(used.server, k, now)
    OBVIOUS
  <2>2. used' = [used EXCEPT !.server = g]
    BY <1>1, <2>1 DEF ServerRawNew, Used
  <2>3. used.server \in Maps(Conv, Nat) /\ Stamps(used.server, s) /\ now \in Nat
    BY UsedFields DEF IInv, Types, Histories
  <2>4. g \in Maps(Conv, Nat) /\ Stamps(g, s')
    BY <1>2, <2>1, <2>3, StampsOpen
  <2> QED
    BY <2>2, <2>4, UsedFields DEF IInv
<1>7. Grown(Fd64, App, owner, d, p.app, owner')
  <2>1. owner \in Maps(Fd64, App)
    BY DEF IInv, Types
  <2> QED
    BY <1>2, <1>3, <1>4, <2>1, WithMap
<1>8. Types'
  BY <1>3, <1>4, <1>6, <1>7 DEF IInv, Types, Grown
<1>9. Managers'
  BY <1>2, <1>3 DEF IInv, Managers, Opened, Inserted
<1>10. /\ s'.conv_to_data = With(s.conv_to_data, k, d)
       /\ s'.data_to_conv = With(s.data_to_conv, d, k)
  BY <1>2 DEF Opened, Inserted
<1>11. Histories'
  <2>1. DOMAIN s'.data_to_conv = DOMAIN s.data_to_conv \cup {d}
    BY <1>10 DEF With
  <2>2. DOMAIN owner' = DOMAIN s'.data_to_conv
    BY <1>7, <2>1 DEF IInv, Histories, Grown
  <2>3. \A f \in DOMAIN s.data_to_conv : f \in Nat /\ f <= fd64_count
    BY ManagerParts, ConvAssumption DEF IInv, Managers, Sound, Histories, Fd64
  <2>4. \A f \in DOMAIN s'.data_to_conv : f <= fd64_count'
    BY <1>1, <1>3, <1>4, <2>1, <2>3
  <2> QED
    BY <1>3, <1>6, <2>2, <2>4 DEF IInv, Histories
<1>12. Holders(who)'
  <2>1. k <= conv_count /\ p.app = who[k]
    BY <1>1, <1>5 DEF Holders
  <2>2. \A j \in DOMAIN s'.conv_to_data : j = k \/ (j # k /\ j \in DOMAIN s.conv_to_data)
    BY <1>10 DEF With
  <2>3. s'.conv_to_data[k] = d
    BY <1>10 DEF With
  <2>4. owner'[d] = p.app
    BY <1>7 DEF Grown
  <2>5. ASSUME NEW j \in DOMAIN s.conv_to_data, j # k
        PROVE  j <= conv_count /\ owner'[s'.conv_to_data[j]] = who[j]
    <3>1. j <= conv_count /\ owner[s.conv_to_data[j]] = who[j]
      BY <1>5 DEF Holders
    <3>2. s'.conv_to_data[j] = s.conv_to_data[j]
      BY <1>10, <2>5 DEF With
    <3>3. s.conv_to_data[j] \in DOMAIN s.data_to_conv
      BY DEF IInv, Managers, Sound, Inverses
    <3>4. s.conv_to_data[j] \in DOMAIN owner \ {d}
      BY <1>2, <3>3 DEF IInv, Histories
    <3> QED
      BY <1>7, <3>1, <3>2, <3>4 DEF Grown
  <2>6. \A j \in DOMAIN s'.conv_to_data : j <= conv_count /\ owner'[s'.conv_to_data[j]] = who[j]
    BY <2>1, <2>2, <2>3, <2>4, <2>5
  <2> QED
    BY <1>3, <1>5, <2>6 DEF Holders
<1>13. Held'
  BY <1>3, <1>12 DEF Held
<1> QED
  BY <1>2, <1>3, <1>8, <1>9, <1>11, <1>13 DEF IInv, NoFailure

(* An answer reaches the client.                                           *)
LEMMA ClientRawIInv ==
    ASSUME IInv, NEW p \in down, ClientRaw(p)
    PROVE  IInv'
<1>1. PICK k : k = p.conv
  OBVIOUS
<1>2. Refreshed(App, c, k, now, c') /\ ~assert_failed' /\ k \in DOMAIN c.conv_to_data
  BY <1>1, ClientRawRefreshes
<1>3. k \in Conv
  BY <1>2, ManagerParts DEF IInv, Managers, Sound
<1>4. /\ now' = now /\ s' = s /\ down' \subseteq down /\ fd64_count' = fd64_count
      /\ owner' = owner /\ conv_count' = conv_count /\ up' = up
  BY DEF ClientRaw
<1>5. PICK who \in [1 .. conv_count -> App] : Holders(who)
  BY DEF IInv, Held
<1>6. ~misdelivered'
  <2>1. c.conv_to_data[k] = who[k] /\ p.app = who[k]
    BY <1>1, <1>2, <1>5 DEF Holders
  <2>2. misdelivered' = (misdelivered \/ c.conv_to_data[k] # p.app)
    BY <1>1 DEF ClientRaw
  <2> QED
    BY <2>1, <2>2 DEF IInv, NoFailure
<1>7. /\ used' \in [client : Maps(Conv, Nat), server : Maps(Conv, Nat)]
      /\ Stamps(used'.client, c') /\ used'.server = used.server
  <2>1. PICK g : g = With(used.client, k, now)
    OBVIOUS
  <2>2. used' = [used EXCEPT !.client = g]
    BY <1>1, <2>1 DEF ClientRaw, Used
  <2>3. used.client \in Maps(Conv, Nat) /\ Stamps(used.client, c) /\ now \in Nat
    BY UsedFields DEF IInv, Types, Histories
  <2>4. g \in Maps(Conv, Nat) /\ Stamps(g, c')
    BY <1>2, <1>3, <2>1, <2>3, StampsRefresh
  <2> QED
    BY <2>2, <2>4, UsedFields DEF IInv
<1>8. Types'
  BY <1>4, <1>7 DEF IInv, Types
<1>9. Managers'
  BY <1>2, <1>4 DEF IInv, Managers, Refreshed
<1>10. Histories'
  BY <1>4, <1>7 DEF IInv, Histories
<1>11. Holders(who)'
  BY <1>2, <1>4, <1>5 DEF Holders, Refreshed
<1>12. Held'
  BY <1>4, <1>11 DEF Held
<1> QED
  BY <1>2, <1>6, <1>8, <1>9, <1>10, <1>12 DEF IInv, NoFailure

(* The target answers.                                                     *)
LEMMA ServerUdpIInv ==
    ASSUME IInv, NEW fd64 \in Fd64, ServerUdp(fd64)
    PROVE  IInv'
<1>1. PICK k : k = s.data_to_conv[fd64]
  OBVIOUS
<1>2. /\ now' = now /\ c' = c /\ s' = s /\ up' = up /\ conv_count' = conv_count
      /\ fd64_count' = fd64_count /\ owner' = owner /\ used' = used
      /\ misdelivered' = misdelivered /\ assert_failed' = assert_failed
      /\ down' = down \cup {[conv |-> k, app |-> owner[fd64]]}
  BY <1>1 DEF ServerUdp, histories
<1>3. fd64 \in DOMAIN s.data_to_conv
  BY DEF ServerUdp, is_data_used
<1>4. k \in DOMAIN s.conv_to_data /\ s.conv_to_data[k] = fd64 /\ k \in Conv
  BY <1>1, <1>3, ManagerParts DEF IInv, Managers, Sound, Inverses
<1>5. PICK who \in [1 .. conv_count -> App] : Holders(who)
  BY DEF IInv, Held
<1>6. k <= conv_count /\ owner[fd64] = who[k]
  BY <1>4, <1>5 DEF Holders
<1>7. owner[fd64] \in App
  <2>1. owner \in Maps(Fd64, App) /\ fd64 \in DOMAIN owner
    BY <1>3 DEF IInv, Types, Histories
  <2>2. owner \in [DOMAIN owner -> App]
    BY <2>1, MapDef
  <2> QED
    BY <2>1, <2>2
<1>8. Types'
  BY <1>2, <1>4, <1>7 DEF IInv, Types, Packet
<1>9. \A p : p = [conv |-> k, app |-> owner[fd64]] => p.conv <= conv_count /\ p.app = who[p.conv]
  BY <1>6
<1>10. \A p \in up' \cup down' : p.conv <= conv_count /\ p.app = who[p.conv]
  BY <1>2, <1>5, <1>9 DEF Holders
<1>11. Holders(who)'
  BY <1>2, <1>5, <1>10 DEF Holders
<1>12. Held'
  BY <1>2, <1>11 DEF Held
<1> QED
  BY <1>2, <1>8, <1>12 DEF IInv, Managers, Histories, NoFailure

(* Fewer packets on their way, and nothing else changed.                   *)
LEMMA LostIInv ==
    ASSUME IInv, up' \subseteq up, down' \subseteq down,
           UNCHANGED <<now, c, s, conv_count, fd64_count, histories, assert_failed>>
    PROVE  IInv'
<1>1. /\ now' = now /\ c' = c /\ s' = s /\ conv_count' = conv_count
      /\ fd64_count' = fd64_count /\ owner' = owner /\ used' = used
      /\ misdelivered' = misdelivered /\ assert_failed' = assert_failed
  BY DEF histories
<1>2. PICK who \in [1 .. conv_count -> App] : Holders(who)
  BY DEF IInv, Held
<1>3. Holders(who)'
  BY <1>1, <1>2 DEF Holders
<1>4. Held'
  BY <1>1, <1>3 DEF Held
<1>5. Types'
  BY <1>1 DEF IInv, Types
<1> QED
  BY <1>1, <1>4, <1>5 DEF IInv, Managers, Histories, NoFailure

(* The client clears.                                                      *)
LEMMA ClientTimerIInv ==
    ASSUME IInv, ClientTimer
    PROVE  IInv'
<1>1. PICK E : Cleared(App, c, now, E, c')
  BY ClientTimerClears
<1>2. /\ now' = now /\ s' = s /\ up' = up /\ down' = down /\ conv_count' = conv_count
      /\ fd64_count' = fd64_count /\ owner' = owner
      /\ misdelivered' = misdelivered /\ assert_failed' = assert_failed
  BY DEF ClientTimer
<1>3. /\ used' \in [client : Maps(Conv, Nat), server : Maps(Conv, Nat)]
      /\ Stamps(used'.client, c') /\ used'.server = used.server
  <2>1. PICK g : g = Only(used.client, DOMAIN c'.conv_to_data)
    OBVIOUS
  <2>2. used' = [used EXCEPT !.client = g]
    BY <2>1 DEF ClientTimer, ForgetClient
  <2>3. used.client \in Maps(Conv, Nat) /\ Stamps(used.client, c)
    BY UsedFields DEF IInv, Histories
  <2>4. g \in Maps(Conv, Nat) /\ Stamps(g, c')
    BY <1>1, <2>1, <2>3, StampsClear
  <2> QED
    BY <2>2, <2>4, UsedFields DEF IInv
<1>4. Types'
  BY <1>2, <1>3 DEF IInv, Types
<1>5. Managers'
  BY <1>1, <1>2 DEF IInv, Managers, Cleared
<1>6. Histories'
  BY <1>2, <1>3 DEF IInv, Histories
<1>7. PICK who \in [1 .. conv_count -> App] : Holders(who)
  BY DEF IInv, Held
<1>8. \A k \in DOMAIN c'.conv_to_data :
         k \in DOMAIN c.conv_to_data /\ c'.conv_to_data[k] = c.conv_to_data[k]
  BY <1>1 DEF Cleared, Without
<1>9. Holders(who)'
  BY <1>2, <1>7, <1>8 DEF Holders
<1>10. Held'
  BY <1>2, <1>9 DEF Held
<1> QED
  BY <1>2, <1>4, <1>5, <1>6, <1>10 DEF IInv, NoFailure

(* The server forgets some of its conversations, with their sockets.       *)
LEMMA ForgetServerHeld ==
    ASSUME IInv, ForgetServer(s'),
           DOMAIN s'.data_to_conv \subseteq DOMAIN s.data_to_conv,
           Sound(s', Fd64, now),
           \A k \in DOMAIN s'.conv_to_data :
              k \in DOMAIN s.conv_to_data /\ s'.conv_to_data[k] = s.conv_to_data[k],
           UNCHANGED <<now, c, up, down, conv_count, fd64_count, misdelivered, assert_failed>>,
           used' \in [client : Maps(Conv, Nat), server : Maps(Conv, Nat)],
           Stamps(used'.server, s'), used'.client = used.client
    PROVE  IInv'
<1>1. /\ now' = now /\ c' = c /\ up' = up /\ down' = down /\ conv_count' = conv_count
      /\ fd64_count' = fd64_count
      /\ misdelivered' = misdelivered /\ assert_failed' = assert_failed
  OBVIOUS
<1>2. PICK X : X = DOMAIN s'.data_to_conv
  OBVIOUS
<1>3. owner' \in Maps(Fd64, App) /\ DOMAIN owner' = X /\ \A x \in X : owner'[x] = owner[x]
  <2>1. owner \in Maps(Fd64, App) /\ X \subseteq DOMAIN owner
    BY <1>2 DEF IInv, Types, Histories
  <2>2. owner' = Only(owner, X)
    BY <1>2 DEF ForgetServer
  <2> QED
    BY <2>1, <2>2, OnlyMap
<1>4. Types'
  BY <1>1, <1>3 DEF IInv, Types
<1>5. Managers'
  BY <1>1 DEF IInv, Managers
<1>6. Histories'
  BY <1>1, <1>2, <1>3 DEF IInv, Histories
<1>7. PICK who \in [1 .. conv_count -> App] : Holders(who)
  BY DEF IInv, Held
<1>8. ASSUME NEW k \in DOMAIN s'.conv_to_data
      PROVE  k <= conv_count /\ owner'[s'.conv_to_data[k]] = who[k]
  <2>1. s'.conv_to_data[k] \in X
    BY <1>2 DEF Sound, Inverses
  <2> QED
    BY <1>3, <1>7, <2>1 DEF Holders
<1>9. Holders(who)'
  BY <1>1, <1>7, <1>8 DEF Holders
<1>10. Held'
  BY <1>1, <1>9 DEF Held
<1> QED
  BY <1>1, <1>4, <1>5, <1>6, <1>10 DEF IInv, NoFailure

(* The server clears.                                                      *)
LEMMA ServerTimerIInv ==
    ASSUME IInv, ServerTimer
    PROVE  IInv'
<1>1. PICK E : Cleared(Fd64, s, now, E, s')
  BY ServerTimerClears
<1>2. /\ used' \in [client : Maps(Conv, Nat), server : Maps(Conv, Nat)]
      /\ Stamps(used'.server, s') /\ used'.client = used.client
  <2>1. PICK g : g = Only(used.server, DOMAIN s'.conv_to_data)
    OBVIOUS
  <2>2. used' = [used EXCEPT !.server = g]
    BY <2>1 DEF ServerTimer, ForgetServer
  <2>3. used.server \in Maps(Conv, Nat) /\ Stamps(used.server, s)
    BY UsedFields DEF IInv, Histories
  <2>4. g \in Maps(Conv, Nat) /\ Stamps(g, s')
    BY <1>1, <2>1, <2>3, StampsClear
  <2> QED
    BY <2>2, <2>4, UsedFields DEF IInv
<1>3. \A k \in DOMAIN s'.conv_to_data :
         k \in DOMAIN s.conv_to_data /\ s'.conv_to_data[k] = s.conv_to_data[k]
  BY <1>1 DEF Cleared, Without
<1>4. DOMAIN s'.data_to_conv \subseteq DOMAIN s.data_to_conv /\ Sound(s', Fd64, now)
  BY <1>1 DEF Cleared
<1>5. /\ ForgetServer(s')
      /\ UNCHANGED <<now, c, up, down, conv_count, fd64_count, misdelivered, assert_failed>>
  BY DEF ServerTimer
<1> QED
  BY <1>2, <1>3, <1>4, <1>5, ForgetServerHeld

(* The server gives the connection up.                                     *)
LEMMA ServerForgetsIInv ==
    ASSUME IInv, ServerForgets
    PROVE  IInv'
<1>1. Sound(s', Fd64, now) /\ DOMAIN s'.conv_to_data = {} /\ DOMAIN s'.data_to_conv = {}
  BY ForgetsAll
<1>2. /\ used' \in [client : Maps(Conv, Nat), server : Maps(Conv, Nat)]
      /\ Stamps(used'.server, s') /\ used'.client = used.client
  <2>1. PICK X : X = DOMAIN s'.conv_to_data
    OBVIOUS
  <2>2. PICK g : g = Only(used.server, X)
    OBVIOUS
  <2>3. used' = [used EXCEPT !.server = g]
    BY <2>1, <2>2 DEF ServerForgets, ForgetServer
  <2>4. used.server \in Maps(Conv, Nat) /\ X = {} /\ X \subseteq DOMAIN used.server
    BY <1>1, <2>1, UsedFields DEF IInv
  <2>5. g \in Maps(Conv, Nat) /\ DOMAIN g = X
    BY <2>2, <2>4, OnlyMap
  <2>6. Stamps(g, s')
    BY <1>1, <2>1, <2>4, <2>5 DEF Stamps
  <2> QED
    BY <2>3, <2>5, <2>6, UsedFields DEF IInv
<1>3. /\ ForgetServer(s')
      /\ UNCHANGED <<now, c, up, down, conv_count, fd64_count, misdelivered, assert_failed>>
  BY DEF ServerForgets
<1>4. /\ DOMAIN s'.data_to_conv \subseteq DOMAIN s.data_to_conv
      /\ \A k \in DOMAIN s'.conv_to_data :
            k \in DOMAIN s.conv_to_data /\ s'.conv_to_data[k] = s.conv_to_data[k]
  BY <1>1
<1> QED
  BY <1>1, <1>2, <1>3, <1>4, ForgetServerHeld

(* Time goes on.                                                           *)
LEMMA TickIInv ==
    ASSUME IInv, Tick
    PROVE  IInv'
<1>1. /\ c' = c /\ s' = s /\ up' = up /\ down' = down /\ conv_count' = conv_count
      /\ fd64_count' = fd64_count /\ owner' = owner /\ used' = used
      /\ misdelivered' = misdelivered /\ assert_failed' = assert_failed
      /\ now \in Nat /\ now' = now + 1
  BY DEF IInv, Types, Tick, histories
<1>2. now' \in Nat /\ now <= now'
  BY <1>1
<1>3. Sound(c, App, now') /\ Sound(s, Fd64, now')
  <2>1. Sound(c, App, now) /\ Sound(s, Fd64, now)
    BY DEF IInv, Managers
  <2>2. PICK z : z = now'
    OBVIOUS
  <2>3. z \in Nat /\ now <= z
    BY <1>2, <2>2
  <2> QED
    BY <1>1, <2>1, <2>2, <2>3, Later
<1>4. Types'
  BY <1>1, <1>2 DEF IInv, Types
<1> QED
  BY ZenonT(30), <1>1, <1>3, <1>4 DEF IInv, Managers, Histories, Held, Holders, NoFailure

(* Every step keeps the invariant.                                         *)
LEMMA NextIInv == IInv /\ [Next]_vars => IInv'
<1> SUFFICES ASSUME IInv, [Next]_vars PROVE IInv'
  OBVIOUS
<1>1. ASSUME NEW a \in App, ClientUdpNew(a) \/ ClientUdpAgain(a) PROVE IInv'
  BY <1>1, ClientUdpNewIInv, ClientUdpAgainIInv
<1>2. ASSUME NEW p \in up, ServerRawKnown(p) \/ ServerRawNew(p) PROVE IInv'
  BY <1>2, ServerRawKnownIInv, ServerRawNewIInv
<1>3. ASSUME NEW p \in up, UpLost(p) PROVE IInv'
  BY <1>3, LostIInv DEF UpLost
<1>4. ASSUME NEW fd64 \in Fd64, ServerUdp(fd64) PROVE IInv'
  BY <1>4, ServerUdpIInv
<1>5. ASSUME NEW p \in down, ClientRaw(p) PROVE IInv'
  BY <1>5, ClientRawIInv
<1>6. ASSUME NEW p \in down, DownLost(p) PROVE IInv'
  BY <1>6, LostIInv DEF DownLost
<1>7. CASE UNCHANGED vars
  BY <1>7, LostIInv DEF vars
<1> QED
  BY <1>1, <1>2, <1>3, <1>4, <1>5, <1>6, <1>7, ClientTimerIInv, ServerTimerIInv,
     ServerForgetsIInv, TickIInv DEF Next

-----------------------------------------------------------------------------
(* The theorems.                                                           *)

(* The invariant holds in every state of every behaviour.                  *)
THEOREM SpecIInv == Spec => []IInv
  BY InitIInv, NextIInv, PTL DEF Spec

(* The invariant gives the property of the run.                            *)
LEMMA ManagerInSync ==
    ASSUME NEW Data, NEW m, Sound(m, Data, now)
    PROVE  InSync(m)
<1>1. PICK q : q = m.q
  OBVIOUS
<1>2. Sorted(q, now) /\ DOMAIN q = 1 .. Len(q)
  BY <1>1 DEF Sound, Sorted
<1>3. /\ \A i, j \in DOMAIN q : i < j => q[i].key # q[j].key /\ q[i].ts >= q[j].ts
      /\ \A i \in DOMAIN q : q[i].ts <= now
  BY <1>2 DEF Sorted
<1> QED
  BY <1>1, <1>3 DEF Sound, Inverses, InSync

(* Whatever expires, is lost, overtaken or forgotten on either side, data  *)
(* goes out on the socket its application opened, answers go back to that  *)
(* application, the tables of both conv_manager_t stay in sync and no      *)
(* assert of lru_collector_t fails.                                        *)
THEOREM RightRecipientAlways == Spec => []RightRecipient
<1>1. IInv => RightRecipient
  BY ManagerInSync DEF IInv, Managers, NoFailure, RightRecipient, TablesInSync
<1> QED
  BY <1>1, SpecIInv, PTL

(* What a step does to the client's manager.                               *)
LEMMA ClientSteps ==
    ASSUME IInv, [Next]_vars
    PROVE  \/ ManagerStep(App, c, c', now) /\ now' = now
           \/ c' = c /\ Tick
<1>1. ASSUME NEW a \in App, ClientUdpNew(a)
      PROVE  ManagerStep(App, c, c', now) /\ now' = now
  <2>1. PICK k : k = conv_count + 1
    OBVIOUS
  <2>2. Opened(App, c, k, a, now, c') /\ k \in Conv \ DOMAIN c.conv_to_data
    BY <1>1, <2>1, ClientNewOpens
  <2>3. a \in App \ DOMAIN c.data_to_conv /\ now' = now
    BY <1>1 DEF ClientUdpNew, is_data_used
  <2> QED
    BY <2>2, <2>3 DEF ManagerStep
<1>2. ASSUME NEW a \in App, ClientUdpAgain(a)
      PROVE  ManagerStep(App, c, c', now) /\ now' = now
  <2>1. PICK k : k = c.data_to_conv[a]
    OBVIOUS
  <2>2. Refreshed(App, c, k, now, c') /\ k \in DOMAIN c.conv_to_data
    BY <1>2, <2>1, ClientAgainRefreshes
  <2>3. now' = now
    BY <1>2 DEF ClientUdpAgain
  <2> QED
    BY <2>2, <2>3 DEF ManagerStep
<1>3. ASSUME NEW p \in down, ClientRaw(p)
      PROVE  ManagerStep(App, c, c', now) /\ now' = now
  <2>1. PICK k : k = p.conv
    OBVIOUS
  <2>2. Refreshed(App, c, k, now, c') /\ k \in DOMAIN c.conv_to_data
    BY <1>3, <2>1, ClientRawRefreshes
  <2>3. now' = now
    BY <1>3 DEF ClientRaw
  <2> QED
    BY <2>2, <2>3 DEF ManagerStep
<1>4. ASSUME ClientTimer
      PROVE  ManagerStep(App, c, c', now) /\ now' = now
  <2>1. PICK E : Cleared(App, c, now, E, c')
    BY <1>4, ClientTimerClears
  <2>2. now' = now
    BY <1>4 DEF ClientTimer
  <2> QED
    BY <2>1, <2>2 DEF ManagerStep
<1>5. CASE ServerTimer \/ ServerForgets \/ UNCHANGED vars
  <2>1. c' = c /\ now' = now
    BY <1>5 DEF ServerTimer, ServerForgets, vars
  <2> QED
    BY <2>1 DEF ManagerStep
<1>6. CASE Tick
  BY <1>6 DEF Tick
<1>7. ASSUME NEW p, ServerRawKnown(p) \/ ServerRawNew(p) \/ UpLost(p) \/ DownLost(p) \/ ServerUdp(p)
      PROVE  ManagerStep(App, c, c', now) /\ now' = now
  <2>1. c' = c /\ now' = now
    BY <1>7 DEF ServerRawKnown, ServerRawNew, UpLost, DownLost, ServerUdp
  <2> QED
    BY <2>1 DEF ManagerStep
<1> QED
  BY <1>1, <1>2, <1>3, <1>4, <1>5, <1>6, <1>7 DEF Next

(* What a step does to the server's manager.                               *)
LEMMA ServerSteps ==
    ASSUME IInv, [Next]_vars
    PROVE  \/ ManagerStep(Fd64, s, s', now) /\ now' = now
           \/ DOMAIN s'.conv_to_data = {} /\ now' = now
           \/ s' = s /\ Tick
<1>1. ASSUME NEW p \in up, ServerRawNew(p)
      PROVE  ManagerStep(Fd64, s, s', now) /\ now' = now
  <2>1. PICK k, d : k = p.conv /\ d = fd64_count + 1
    OBVIOUS
  <2>2. /\ Opened(Fd64, s, k, d, now, s') /\ k \in Conv \ DOMAIN s.conv_to_data
        /\ d \in Fd64 \ DOMAIN s.data_to_conv
    BY <1>1, <2>1, ServerNewOpens
  <2>3. now' = now
    BY <1>1 DEF ServerRawNew
  <2> QED
    BY <2>2, <2>3 DEF ManagerStep
<1>2. ASSUME NEW p \in up, ServerRawKnown(p)
      PROVE  ManagerStep(Fd64, s, s', now) /\ now' = now
  <2>1. PICK k : k = p.conv
    OBVIOUS
  <2>2. Refreshed(Fd64, s, k, now, s') /\ k \in DOMAIN s.conv_to_data
    BY <1>2, <2>1, ServerKnownRefreshes
  <2>3. now' = now
    BY <1>2 DEF ServerRawKnown
  <2> QED
    BY <2>2, <2>3 DEF ManagerStep
<1>3. ASSUME ServerTimer
      PROVE  ManagerStep(Fd64, s, s', now) /\ now' = now
  <2>1. PICK E : Cleared(Fd64, s, now, E, s')
    BY <1>3, ServerTimerClears
  <2>2. now' = now
    BY <1>3 DEF ServerTimer
  <2> QED
    BY <2>1, <2>2 DEF ManagerStep
<1>4. CASE ServerForgets
  BY <1>4, ForgetsAll DEF ServerForgets
<1>5. CASE ClientTimer \/ UNCHANGED vars
  <2>1. s' = s /\ now' = now
    BY <1>5 DEF ClientTimer, vars
  <2> QED
    BY <2>1 DEF ManagerStep
<1>6. CASE Tick
  BY <1>6 DEF Tick
<1>7. ASSUME NEW p, \/ ClientUdpNew(p) \/ ClientUdpAgain(p) \/ UpLost(p) \/ DownLost(p)
                    \/ ServerUdp(p) \/ ClientRaw(p)
      PROVE  ManagerStep(Fd64, s, s', now) /\ now' = now
  <2>1. s' = s /\ now' = now
    BY <1>7 DEF ClientUdpNew, ClientUdpAgain, UpLost, DownLost, ServerUdp, ClientRaw
  <2> QED
    BY <2>1 DEF ManagerStep
<1> QED
  BY <1>1, <1>2, <1>3, <1>4, <1>5, <1>6, <1>7 DEF Next

(* A conversation that goes was idle.                                      *)
LEMMA GoesIdle ==
    ASSUME NEW Data, NEW m, NEW u, NEW t, ManagerStep(Data, m, u, t),
           NEW k \in DOMAIN m.conv_to_data \ DOMAIN u.conv_to_data
    PROVE  t - Ts(m.q, k) >= conv_timeout
<1>1. ASSUME NEW j, NEW d, Opened(Data, m, j, d, t, u) PROVE FALSE
  BY <1>1 DEF Opened, Inserted, With
<1>2. ASSUME NEW j, Refreshed(Data, m, j, t, u) PROVE FALSE
  BY <1>2 DEF Refreshed
<1>3. ASSUME NEW E, Cleared(Data, m, t, E, u) PROVE t - Ts(m.q, k) >= conv_timeout
  BY <1>3 DEF Cleared, Without
<1> QED
  BY <1>1, <1>2, <1>3 DEF ManagerStep

(* clear_inactive never takes a conversation that saw data in the last     *)
(* conv_timeout, for every length of the list and every ratio and minimum  *)
(* of the clearing.                                                        *)
THEOREM ActiveKeptAlways == Spec => ActiveKept
<1> DEFINE Kept ==
      /\ \A k \in DOMAIN c.conv_to_data \ DOMAIN c'.conv_to_data :
            now - used.client[k] >= conv_timeout
      /\ ServerTimer => \A k \in DOMAIN s.conv_to_data \ DOMAIN s'.conv_to_data :
            now - used.server[k] >= conv_timeout
<1>1. ASSUME IInv, [Next]_vars PROVE Kept
  <2>1. /\ \A k \in DOMAIN c.conv_to_data : used.client[k] = Ts(c.q, k)
        /\ \A k \in DOMAIN s.conv_to_data : used.server[k] = Ts(s.q, k)
    BY <1>1 DEF IInv, Histories, Stamps
  <2>2. ASSUME NEW k \in DOMAIN c.conv_to_data \ DOMAIN c'.conv_to_data
        PROVE  now - used.client[k] >= conv_timeout
    <3>1. ManagerStep(App, c, c', now)
      BY <1>1, <2>2, ClientSteps
    <3>2. now - Ts(c.q, k) >= conv_timeout
      BY <3>1, GoesIdle
    <3> QED
      BY <2>1, <3>2
  <2>3. ASSUME ServerTimer, NEW k \in DOMAIN s.conv_to_data \ DOMAIN s'.conv_to_data
        PROVE  now - used.server[k] >= conv_timeout
    <3>1. PICK E : Cleared(Fd64, s, now, E, s')
      BY <1>1, <2>3, ServerTimerClears
    <3>2. ManagerStep(Fd64, s, s', now)
      BY <3>1 DEF ManagerStep
    <3>3. now - Ts(s.q, k) >= conv_timeout
      BY <3>2, GoesIdle
    <3> QED
      BY <2>1, <3>3
  <2> QED
    BY <2>2, <2>3
<1>2. IInv /\ [Next]_vars => [Kept]_vars
  BY <1>1
<1> QED
  BY <1>2, SpecIInv, PTL DEF Spec, ActiveKept

-----------------------------------------------------------------------------
(* The refinement.                                                         *)

(* The table of a manager.                                                 *)
LEMMA StampedIs ==
    ASSUME NEW m
    PROVE  /\ DOMAIN Stamped(m) = DOMAIN m.conv_to_data
           /\ \A k \in DOMAIN m.conv_to_data :
                 /\ Stamped(m)[k] = [data |-> m.conv_to_data[k], ts |-> Ts(m.q, k)]
                 /\ Stamped(m)[k].data = m.conv_to_data[k]
                 /\ Stamped(m)[k].ts = Ts(m.q, k)
<1>1. /\ DOMAIN Stamped(m) = DOMAIN m.conv_to_data
      /\ \A k \in DOMAIN m.conv_to_data :
            Stamped(m)[k] = [data |-> m.conv_to_data[k], ts |-> Ts(m.q, k)]
  BY DEF Stamped, Ts
<1>2. \A r, d, t : r = [data |-> d, ts |-> t] => r.data = d /\ r.ts = t
  OBVIOUS
<1> QED
  BY <1>1, <1>2

(* A conversation that is used more, as ConvTable's Use has it.            *)
UsedIn(T, U, k, d, t) ==
    /\ k \in DOMAIN T => T[k].data = d
    /\ \A b \in DOMAIN T : T[b].data = d => b = k
    /\ U = [b \in DOMAIN T \cup {k} |-> IF b = k THEN [data |-> d, ts |-> t] ELSE T[b]]

(* Conversations that are forgotten, as its Expire has it.                 *)
ExpiredIn(T, U, E, t) ==
    /\ \A k \in E : t - T[k].ts >= conv_timeout
    /\ \A k \in E, b \in DOMAIN T \ E : T[k].ts <= T[b].ts
    /\ U = [k \in DOMAIN T \ E |-> T[k]]

(* Opening a conversation is a use, ...                                    *)
LEMMA OpenedUse ==
    ASSUME NEW Data, NEW m, NEW u, NEW t, Sound(m, Data, t),
           NEW k \in Conv \ DOMAIN m.conv_to_data, NEW d \in Data \ DOMAIN m.data_to_conv,
           Opened(Data, m, k, d, t, u)
    PROVE  UsedIn(Stamped(m), Stamped(u), k, d, t)
<1>1. /\ u.conv_to_data = With(m.conv_to_data, k, d) /\ Ts(u.q, k) = t
      /\ \A j \in DOMAIN m.conv_to_data : Ts(u.q, j) = Ts(m.q, j)
  BY DEF Opened, Inserted
<1>2. /\ DOMAIN u.conv_to_data = DOMAIN m.conv_to_data \cup {k} /\ u.conv_to_data[k] = d
      /\ \A j \in DOMAIN m.conv_to_data : u.conv_to_data[j] = m.conv_to_data[j]
  BY <1>1 DEF With
<1>3. \A b \in DOMAIN m.conv_to_data : m.conv_to_data[b] # d
  BY DEF Sound, Inverses
<1>4. Stamped(u) = [b \in DOMAIN m.conv_to_data \cup {k} |->
                       [data |-> u.conv_to_data[b], ts |-> Ts(u.q, b)]]
  BY <1>2 DEF Stamped, Ts
<1>5. Stamped(u) = [b \in DOMAIN Stamped(m) \cup {k} |->
                       IF b = k THEN [data |-> d, ts |-> t] ELSE Stamped(m)[b]]
  BY <1>1, <1>2, <1>4, StampedIs
<1>6. \A b \in DOMAIN Stamped(m) : Stamped(m)[b].data = m.conv_to_data[b]
  BY StampedIs
<1> QED
  BY <1>3, <1>5, <1>6, StampedIs DEF UsedIn

(* ... and so is using it once more.                                       *)
LEMMA RefreshedUse ==
    ASSUME NEW Data, NEW m, NEW u, NEW t, Sound(m, Data, t),
           NEW k \in DOMAIN m.conv_to_data, Refreshed(Data, m, k, t, u)
    PROVE  UsedIn(Stamped(m), Stamped(u), k, m.conv_to_data[k], t)
<1>1. /\ u.conv_to_data = m.conv_to_data
      /\ \A j \in DOMAIN m.conv_to_data : Ts(u.q, j) = IF j = k THEN t ELSE Ts(m.q, j)
  BY DEF Refreshed
<1>2. DOMAIN m.conv_to_data \cup {k} = DOMAIN m.conv_to_data
  OBVIOUS
<1>3. Stamped(u) = [b \in DOMAIN m.conv_to_data |->
                       [data |-> m.conv_to_data[b], ts |-> Ts(u.q, b)]]
  BY <1>1 DEF Stamped, Ts
<1>4. ASSUME NEW b \in DOMAIN m.conv_to_data
      PROVE  [data |-> m.conv_to_data[b], ts |-> Ts(u.q, b)]
             = IF b = k THEN [data |-> m.conv_to_data[k], ts |-> t] ELSE Stamped(m)[b]
  <2>1. CASE b = k
    BY <1>1, <2>1
  <2>2. CASE b # k
    BY <1>1, <2>2, StampedIs
  <2> QED
    BY <2>1, <2>2
<1>5. DOMAIN Stamped(m) \cup {k} = DOMAIN m.conv_to_data
  BY <1>2, StampedIs
<1>6. Stamped(u) = [b \in DOMAIN Stamped(m) \cup {k} |->
         IF b = k THEN [data |-> m.conv_to_data[k], ts |-> t] ELSE Stamped(m)[b]]
  BY <1>3, <1>4, <1>5
<1>7. \A b \in DOMAIN Stamped(m) : Stamped(m)[b].data = m.conv_to_data[b]
  BY StampedIs
<1>8. \A b \in DOMAIN m.conv_to_data : m.conv_to_data[b] = m.conv_to_data[k] => b = k
  BY DEF Sound, Inverses
<1> QED
  BY <1>6, <1>7, <1>8, StampedIs DEF UsedIn

(* Clearing is an expiry.                                                  *)
LEMMA ClearedExpire ==
    ASSUME NEW Data, NEW m, NEW u, NEW t, NEW E, Cleared(Data, m, t, E, u)
    PROVE  ExpiredIn(Stamped(m), Stamped(u), E, t) /\ E \in SUBSET DOMAIN Stamped(m)
<1>1. /\ u.conv_to_data = Without(m.conv_to_data, E) /\ E \subseteq DOMAIN m.conv_to_data
      /\ \A j \in DOMAIN m.conv_to_data \ E : Ts(u.q, j) = Ts(m.q, j)
  BY DEF Cleared
<1>2. /\ DOMAIN u.conv_to_data = DOMAIN m.conv_to_data \ E
      /\ \A j \in DOMAIN m.conv_to_data \ E : u.conv_to_data[j] = m.conv_to_data[j]
  BY <1>1 DEF Without
<1>3. Stamped(u) = [b \in DOMAIN m.conv_to_data \ E |->
                       [data |-> u.conv_to_data[b], ts |-> Ts(u.q, b)]]
  BY <1>2 DEF Stamped, Ts
<1>4. Stamped(u) = [b \in DOMAIN Stamped(m) \ E |-> Stamped(m)[b]]
  BY <1>1, <1>2, <1>3, StampedIs
<1>5. \A b \in DOMAIN m.conv_to_data : Stamped(m)[b].ts = Ts(m.q, b)
  BY StampedIs
<1>6. \A k \in E : t - Stamped(m)[k].ts >= conv_timeout
  BY <1>1, <1>5 DEF Cleared
<1>7. \A k \in E, b \in DOMAIN Stamped(m) \ E : Stamped(m)[k].ts <= Stamped(m)[b].ts
  BY <1>1, <1>5, StampedIs DEF Cleared
<1> QED
  BY <1>1, <1>4, <1>6, <1>7, StampedIs DEF ExpiredIn

(* The first state of the client's manager maps to an empty table.         *)
LEMMA ClientTableInit == Init => ClientTable!Init
<1> SUFFICES ASSUME Init PROVE now = 0 /\ Stamped(c) = << >>
  BY DEF ClientTable!Init
<1>1. c.conv_to_data = << >>
  BY DEF Init, EmptyManager
<1> QED
  BY <1>1 DEF Stamped, Init

(* The first state of the server's manager maps to an empty table.         *)
LEMMA ServerTableInit == Init => ServerTable!Init
<1> SUFFICES ASSUME Init PROVE now = 0 /\ Stamped(s) = << >>
  BY DEF ServerTable!Init
<1>1. s.conv_to_data = << >>
  BY DEF Init, EmptyManager
<1> QED
  BY <1>1 DEF Stamped, Init

(* A step of the client's manager is a step of ConvTable, or none.         *)
LEMMA ClientTableNext ==
    ASSUME IInv, [Next]_vars
    PROVE  [ClientTable!Next]_(ClientTable!vars)
<1>1. CASE c' = c /\ Tick
  <2>1. Stamped(c)' = Stamped(c) /\ now' = now + 1
    BY <1>1 DEF Stamped, Tick
  <2> QED
    BY <2>1 DEF ClientTable!Next, ClientTable!Tick
<1>2. CASE c' = c /\ now' = now
  <2>1. Stamped(c)' = Stamped(c) /\ now' = now
    BY <1>2 DEF Stamped
  <2> QED
    BY <2>1 DEF ClientTable!vars
<1>3. ASSUME NEW k \in Conv \ DOMAIN c.conv_to_data, NEW d \in App \ DOMAIN c.data_to_conv,
             Opened(App, c, k, d, now, c'), now' = now
      PROVE  ClientTable!Next
  <2>1. UsedIn(Stamped(c), Stamped(c'), k, d, now)
    BY <1>3, OpenedUse DEF IInv, Managers
  <2>2. ClientTable!Use(k, d)
    BY <1>3, <2>1 DEF UsedIn, ClientTable!Use
  <2> QED
    BY <2>2 DEF ClientTable!Next
<1>4. ASSUME NEW k \in DOMAIN c.conv_to_data, Refreshed(App, c, k, now, c'), now' = now
      PROVE  ClientTable!Next
  <2>1. PICK d : d = c.conv_to_data[k]
    OBVIOUS
  <2>2. UsedIn(Stamped(c), Stamped(c'), k, d, now)
    BY <1>4, <2>1, RefreshedUse DEF IInv, Managers
  <2>3. ClientTable!Use(k, d)
    BY <1>4, <2>2 DEF UsedIn, ClientTable!Use
  <2>4. k \in Conv /\ d \in App
    BY <2>1, ManagerParts DEF IInv, Managers, Sound
  <2> QED
    BY <2>3, <2>4 DEF ClientTable!Next
<1>5. ASSUME NEW E, Cleared(App, c, now, E, c'), now' = now
      PROVE  ClientTable!Next
  <2>1. ExpiredIn(Stamped(c), Stamped(c'), E, now) /\ E \in SUBSET DOMAIN Stamped(c)
    BY <1>5, ClearedExpire
  <2>2. ClientTable!Expire(E)
    BY <1>5, <2>1 DEF ExpiredIn, ClientTable!Expire
  <2> QED
    BY <2>1, <2>2 DEF ClientTable!Next
<1>6. CASE ManagerStep(App, c, c', now) /\ now' = now
  BY <1>2, <1>3, <1>4, <1>5, <1>6 DEF ManagerStep
<1> QED
  BY <1>1, <1>6, ClientSteps

(* A step of the server's manager is a step of ConvTable, or none.         *)
LEMMA ServerTableNext ==
    ASSUME IInv, [Next]_vars
    PROVE  [ServerTable!Next]_(ServerTable!vars)
<1>1. CASE s' = s /\ Tick
  <2>1. Stamped(s)' = Stamped(s) /\ now' = now + 1
    BY <1>1 DEF Stamped, Tick
  <2> QED
    BY <2>1 DEF ServerTable!Next, ServerTable!Tick
<1>2. CASE s' = s /\ now' = now
  <2>1. Stamped(s)' = Stamped(s) /\ now' = now
    BY <1>2 DEF Stamped
  <2> QED
    BY <2>1 DEF ServerTable!vars
<1>3. ASSUME NEW k \in Conv \ DOMAIN s.conv_to_data, NEW d \in Fd64 \ DOMAIN s.data_to_conv,
             Opened(Fd64, s, k, d, now, s'), now' = now
      PROVE  ServerTable!Next
  <2>1. UsedIn(Stamped(s), Stamped(s'), k, d, now)
    BY <1>3, OpenedUse DEF IInv, Managers
  <2>2. ServerTable!Use(k, d)
    BY <1>3, <2>1 DEF UsedIn, ServerTable!Use
  <2> QED
    BY <2>2 DEF ServerTable!Next
<1>4. ASSUME NEW k \in DOMAIN s.conv_to_data, Refreshed(Fd64, s, k, now, s'), now' = now
      PROVE  ServerTable!Next
  <2>1. PICK d : d = s.conv_to_data[k]
    OBVIOUS
  <2>2. UsedIn(Stamped(s), Stamped(s'), k, d, now)
    BY <1>4, <2>1, RefreshedUse DEF IInv, Managers
  <2>3. ServerTable!Use(k, d)
    BY <1>4, <2>2 DEF UsedIn, ServerTable!Use
  <2>4. k \in Conv /\ d \in Fd64
    BY <2>1, ManagerParts DEF IInv, Managers, Sound
  <2> QED
    BY <2>3, <2>4 DEF ServerTable!Next
<1>5. ASSUME NEW E, Cleared(Fd64, s, now, E, s'), now' = now
      PROVE  ServerTable!Next
  <2>1. ExpiredIn(Stamped(s), Stamped(s'), E, now) /\ E \in SUBSET DOMAIN Stamped(s)
    BY <1>5, ClearedExpire
  <2>2. ServerTable!Expire(E)
    BY <1>5, <2>1 DEF ExpiredIn, ServerTable!Expire
  <2> QED
    BY <2>1, <2>2 DEF ServerTable!Next
<1>6. CASE ManagerStep(Fd64, s, s', now) /\ now' = now
  BY <1>2, <1>3, <1>4, <1>5, <1>6 DEF ManagerStep
<1>7. CASE DOMAIN s'.conv_to_data = {} /\ now' = now
  <2>1. Stamped(s)' = << >>
    BY <1>7 DEF Stamped
  <2> QED
    BY <1>7, <2>1 DEF ServerTable!Next, ServerTable!GiveUp
<1> QED
  BY <1>1, <1>6, <1>7, ServerSteps

(* On either side the two maps and the list of conv_manager_t together     *)
(* behave like ConvTable's one table with time stamps: a number names one  *)
(* address, use refreshes it, and the longest idle go first and only after *)
(* conv_timeout.                                                           *)
THEOREM Refinement == Spec => ImplementsConvTable
<1>1. Spec => ClientTable!Spec
  BY ClientTableInit, ClientTableNext, SpecIInv, PTL DEF Spec, ClientTable!Spec
<1>2. Spec => ServerTable!Spec
  BY ServerTableInit, ServerTableNext, SpecIInv, PTL DEF Spec, ServerTable!Spec
<1> QED
  BY <1>1, <1>2 DEF ImplementsConvTable
=============================================================================
