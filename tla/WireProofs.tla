----------------------------- MODULE WireProofs -----------------------------
(***************************************************************************)
(* What is proved of the way of a packet: the anti-replay window keeps its *)
(* promise for every window size; the socket filters let through what the  *)
(* code behind them wants, and what the peer sends is received as it was   *)
(* sent, for every packet of the raw modes; and what is read from merged   *)
(* and cut packets is what was sent, for every mode of authentication and  *)
(* cipher and every number of packets.                                     *)
(***************************************************************************)
EXTENDS Wire, SequenceTheorems, FiniteSetTheorems, WellFoundedInduction, TLAPS

-----------------------------------------------------------------------------
(* The anti-replay window. *)

(* Two different numbers less than one window apart use different slots of *)
(* the window array.                                                       *)
LEMMA SlotsDistinct ==
    ASSUME NEW a \in Nat, NEW b \in Nat, a < b, b - a < WindowSize
    PROVE  SlotOf(a) # SlotOf(b)
<1> DEFINE qa == a \div WindowSize
           qb == b \div WindowSize
<1>1. /\ a = (WindowSize * qa) + (a % WindowSize)
      /\ b = (WindowSize * qb) + (b % WindowSize)
      /\ qa \in Int /\ qb \in Int
  BY WindowSizeAssumption
<1>2. SUFFICES ASSUME a % WindowSize = b % WindowSize
               PROVE  FALSE
  BY DEF SlotOf
<1>3. b - a = WindowSize * (qb - qa)
  BY <1>1, <1>2, WindowSizeAssumption
<1> HIDE DEF qa, qb
<1>4. qb - qa >= 1
  BY <1>1, <1>3, WindowSizeAssumption
<1>5. WindowSize * (qb - qa) >= WindowSize
  BY <1>1, <1>4, WindowSizeAssumption
<1>6. QED
  BY <1>3, <1>5, WindowSizeAssumption

(* A slot index stays inside the window array.                             *)
LEMMA SlotOfType == \A s \in Nat : SlotOf(s) \in Slot
  BY WindowSizeAssumption DEF SlotOf, Slot

(* What is inductive: the types, the exactness of the marks, and at most   *)
(* one delivery of each number.                                            *)
IInv == TypeOK /\ MarksExact /\ NoReplay

-----------------------------------------------------------------------------
(* The initial state satisfies it whatever the uninitialised window holds. *)
LEMMA InitIInv == Init => IInv
<1> SUFFICES ASSUME Init PROVE IInv
  OBVIOUS
<1>1. first_seq \in SeqNum
  BY SeqLimitAssumption DEF Init, SeqNum
<1>2. TypeOK
  BY <1>1, SeqLimitAssumption DEF Init, TypeOK, SeqNum
<1>3. MarksExact
  BY <1>2, SeqLimitAssumption DEF Init, MarksExact, SeqNum
<1>4. NoReplay
  BY DEF Init, NoReplay
<1> QED
  BY <1>2, <1>3, <1>4 DEF IInv

(* A number on the wire is a sequence number.                              *)
LEMMA SentType == TypeOK => Sent \subseteq SeqNum
  BY SeqLimitAssumption DEF TypeOK, Sent, SeqNum

(* Accepting a number ahead of the window: it was never accepted, and the  *)
(* moved window marks exactly the accepted numbers it covers.              *)
LEMMA AcceptAheadIInv ==
    ASSUME IInv, NEW s \in SeqNum, AcceptAhead(s)
    PROVE  IInv' /\ delivered[s] = 0 /\ delivered' = [delivered EXCEPT ![s] = 1]
<1> DEFINE mx == max_packet_received
<1> USE DEF IInv
<1>1. /\ s \in Nat /\ mx \in Nat /\ s > mx
      /\ SlotOf(s) \in Slot
  BY SlotOfType, SeqLimitAssumption DEF AcceptAhead, Ahead, SeqNum, TypeOK
<1>2. delivered[s] = 0
  BY <1>1 DEF MarksExact, TypeOK, SeqNum
<1>3. delivered' = [delivered EXCEPT ![s] = 1]
  BY <1>2 DEF AcceptAhead, HandUp, TypeOK
<1>4. TypeOK'
  <2>1. window' \in [Slot -> {0, 1}]
    BY DEF AcceptAhead, Advance, TypeOK
  <2> QED
    BY <2>1, <1>3 DEF AcceptAhead, TypeOK
<1>5. NoReplay'
  BY <1>3 DEF NoReplay, TypeOK
<1>6. /\ max_packet_received' = s
      /\ delivered'[s] = 1
      /\ \A t \in SeqNum : t # s => delivered'[t] = delivered[t]
      /\ window' = Advance(s)
  BY <1>3 DEF AcceptAhead, TypeOK
<1>7. ASSUME NEW t \in SeqNum, t <= s, s - t < WindowSize
      PROVE  /\ delivered'[t] > 0 => window'[SlotOf(t)] = 1
             /\ t # 0 /\ delivered'[t] = 0 => window'[SlotOf(t)] = 0
  <2>1. CASE t = s
    BY <2>1, <1>1, <1>6 DEF Advance
  <2>2. CASE t # s
    <3>1. t \in Nat /\ t < s /\ SlotOf(t) \in Slot
      BY <1>1, <1>7, <2>2, SlotOfType DEF SeqNum
    <3>2. SlotOf(t) # SlotOf(s)
      BY <1>1, <1>7, <3>1, SlotsDistinct
    <3>3. CASE s - mx >= WindowSize
      <4>1. t > mx
        BY <1>1, <1>7, <3>1, <3>3, WindowSizeAssumption
      <4>2. delivered[t] = 0
        BY <1>1, <3>1, <4>1 DEF MarksExact, TypeOK
      <4>3. window'[SlotOf(t)] = 0
        BY <1>6, <3>1, <3>2, <3>3 DEF Advance
      <4> QED
        BY <1>6, <2>2, <4>2, <4>3
    <3>4. CASE ~(s - mx >= WindowSize) /\ t > mx
      <4>1. delivered[t] = 0
        BY <1>1, <3>1, <3>4 DEF MarksExact, TypeOK
      <4>2. t \in (mx + 1) .. (s - 1)
        BY <1>1, <3>1, <3>4
      <4>3. window'[SlotOf(t)] = 0
        BY <1>6, <3>1, <3>2, <3>4, <4>2 DEF Advance
      <4> QED
        BY <1>6, <2>2, <4>1, <4>3
    <3>5. CASE ~(s - mx >= WindowSize) /\ ~(t > mx)
      <4>1. ASSUME NEW k \in (mx + 1) .. (s - 1) PROVE SlotOf(k) # SlotOf(t)
        <5>1. k \in Nat /\ t < k /\ k - t < WindowSize
          BY <1>1, <1>7, <3>1, <3>5, WindowSizeAssumption
        <5> QED
          BY <3>1, <5>1, SlotsDistinct
      <4>2. window'[SlotOf(t)] = window[SlotOf(t)]
        BY <1>6, <3>1, <3>2, <3>5, <4>1 DEF Advance
      <4>3. t <= mx /\ mx - t < WindowSize
        BY <1>1, <1>7, <3>1, <3>5, WindowSizeAssumption
      <4> QED
        BY <1>6, <2>2, <4>2, <4>3 DEF MarksExact
    <3> QED
      BY <3>3, <3>4, <3>5
  <2> QED
    BY <2>1, <2>2
<1>8. \A t \in SeqNum : delivered'[t] > 0 => t <= s /\ s > 0
  <2> SUFFICES ASSUME NEW t \in SeqNum, delivered'[t] > 0
               PROVE  t <= s /\ s > 0
    OBVIOUS
  <2>1. CASE t = s
    BY <2>1, <1>1
  <2>2. CASE t # s
    BY <2>2, <1>1, <1>6 DEF MarksExact, SeqNum
  <2> QED
    BY <2>1, <2>2
<1>9. MarksExact'
  BY <1>6, <1>7, <1>8 DEF MarksExact, SlotOf, SeqNum
<1> QED
  BY <1>2, <1>3, <1>4, <1>5, <1>9

(* Accepting a late number: its slot is unmarked, so it was never accepted,*)
(* and marking it touches no other number the window covers.               *)
LEMMA AcceptLateIInv ==
    ASSUME IInv, NEW s \in SeqNum, AcceptLate(s)
    PROVE  IInv' /\ delivered[s] = 0 /\ delivered' = [delivered EXCEPT ![s] = 1]
<1> DEFINE mx == max_packet_received
<1> USE DEF IInv
<1>1. /\ s \in Nat /\ mx \in Nat /\ s < mx /\ mx - s < WindowSize
      /\ SlotOf(s) \in Slot /\ window[SlotOf(s)] # 1
  BY SlotOfType, SeqLimitAssumption DEF AcceptLate, Late, SeqNum, TypeOK
<1>2. delivered[s] = 0
  BY <1>1 DEF MarksExact, TypeOK
<1>3. delivered' = [delivered EXCEPT ![s] = 1]
  BY <1>2 DEF AcceptLate, HandUp, TypeOK
<1>4. TypeOK'
  BY <1>1, <1>3 DEF AcceptLate, TypeOK
<1>5. NoReplay'
  BY <1>3 DEF NoReplay, TypeOK
<1>6. /\ max_packet_received' = mx
      /\ delivered'[s] = 1
      /\ \A t \in SeqNum : t # s => delivered'[t] = delivered[t]
      /\ window' = [window EXCEPT ![SlotOf(s)] = 1]
  BY <1>3 DEF AcceptLate, TypeOK
<1>7. ASSUME NEW t \in SeqNum, t <= mx, mx - t < WindowSize
      PROVE  /\ delivered'[t] > 0 => window'[SlotOf(t)] = 1
             /\ t # 0 /\ delivered'[t] = 0 => window'[SlotOf(t)] = 0
  <2>1. CASE t = s
    BY <2>1, <1>1, <1>6 DEF TypeOK
  <2>2. CASE t # s
    <3>1. t \in Nat /\ SlotOf(t) \in Slot
      BY SlotOfType DEF SeqNum
    <3>2. CASE t < s
      <4>1. s - t < WindowSize
        BY <1>1, <1>7, <3>1, <3>2, WindowSizeAssumption
      <4>2. SlotOf(t) # SlotOf(s)
        BY <1>1, <3>1, <3>2, <4>1, SlotsDistinct
      <4> QED
        BY <1>6, <1>7, <2>2, <4>2, <3>1 DEF MarksExact, TypeOK
    <3>3. CASE t > s
      <4>1. t - s < WindowSize
        BY <1>1, <1>7, <3>1, <3>3, WindowSizeAssumption
      <4>2. SlotOf(t) # SlotOf(s)
        BY <1>1, <3>1, <3>3, <4>1, SlotsDistinct
      <4> QED
        BY <1>6, <1>7, <2>2, <4>2, <3>1 DEF MarksExact, TypeOK
    <3> QED
      BY <1>1, <2>2, <3>1, <3>2, <3>3
  <2> QED
    BY <2>1, <2>2
<1>8. \A t \in SeqNum : delivered'[t] > 0 => t <= mx /\ mx > 0
  <2> SUFFICES ASSUME NEW t \in SeqNum, delivered'[t] > 0
               PROVE  t <= mx /\ mx > 0
    OBVIOUS
  <2>1. CASE t = s
    BY <2>1, <1>1
  <2>2. CASE t # s
    BY <2>2, <1>6 DEF MarksExact
  <2> QED
    BY <2>1, <2>2
<1>9. delivered'[mx] > 0
  BY <1>1, <1>6 DEF MarksExact, TypeOK
<1>10. MarksExact'
  BY <1>6, <1>7, <1>8, <1>9 DEF MarksExact, SlotOf, SeqNum
<1> QED
  BY <1>2, <1>3, <1>4, <1>5, <1>10

-----------------------------------------------------------------------------
(* Every step keeps the inductive invariant.                               *)
LEMMA NextIInv == IInv /\ [Next]_vars => IInv'
<1> SUFFICES ASSUME IInv, [Next]_vars PROVE IInv'
  OBVIOUS
<1>1. CASE get_new_seq_for_send
  <2>1. TypeOK'
    BY <1>1, SeqLimitAssumption DEF get_new_seq_for_send, IInv, TypeOK, SeqNum
  <2>2. MarksExact'
    BY <1>1 DEF get_new_seq_for_send, IInv, MarksExact, SlotOf
  <2> QED
    BY <1>1, <2>1, <2>2 DEF get_new_seq_for_send, IInv, NoReplay
<1>2. CASE re_init
  <2>1. TypeOK'
    BY <1>2, SeqLimitAssumption DEF re_init, IInv, TypeOK, SeqNum
  <2>2. MarksExact'
    BY <1>2, SeqLimitAssumption DEF re_init, MarksExact, SeqNum
  <2> QED
    BY <1>2, <2>1, <2>2 DEF re_init, IInv, NoReplay
<1>3. ASSUME NEW s \in Sent, Receive(s) PROVE IInv'
  <2>1. s \in SeqNum
    BY SentType DEF IInv
  <2>2. CASE Reject(s)
    BY <2>2 DEF Reject, vars, IInv, TypeOK, MarksExact, NoReplay, SlotOf
  <2> QED
    BY <1>3, <2>1, <2>2, AcceptAheadIInv, AcceptLateIInv DEF Receive
<1>4. CASE UNCHANGED vars
  BY <1>4 DEF vars, IInv, TypeOK, MarksExact, NoReplay, SlotOf
<1> QED
  BY <1>1, <1>2, <1>3, <1>4 DEF Next

(* The marks of the window are exact in every reachable state.             *)
THEOREM SpecIInv == Spec => []IInv
  BY InitIInv, NextIInv, PTL DEF Spec

(* Types are kept, for every window size and number range.                 *)
THEOREM TypeCorrect == Spec => []TypeOK
  BY SpecIInv, PTL DEF IInv

(* No sequence number passes is_vaild twice between two re_init calls,     *)
(* whatever the window held before and however packets arrive.             *)
THEOREM ReplayProtection == Spec => []NoReplay
  BY SpecIInv, PTL DEF IInv

(* A fresh number inside the window is never dropped.                      *)
THEOREM FreshPasses == Spec => []NoFalseDrop
<1>1. IInv => NoFalseDrop
  <2> SUFFICES ASSUME IInv, NEW s \in SeqNum \ {0}, delivered[s] = 0,
                      max_packet_received - s < WindowSize
               PROVE  is_vaild(s)
    BY DEF NoFalseDrop
  <2>1. /\ s \in Nat /\ s # 0 /\ max_packet_received \in Nat
        /\ max_packet_received \in SeqNum /\ delivered \in [SeqNum -> Nat]
    BY DEF IInv, TypeOK, SeqNum
  <2>2. s # max_packet_received
    BY <2>1 DEF IInv, MarksExact
  <2>3. CASE s < max_packet_received
    BY <2>1, <2>3 DEF IInv, MarksExact, is_vaild, Late
  <2> QED
    BY <2>1, <2>2, <2>3 DEF is_vaild, Ahead
<1> QED
  BY <1>1, SpecIInv, PTL

(* The window implements delivery at most once.                            *)
THEOREM Refinement == Spec => ImplementsAtMostOnce
<1>1. Init => Abstract!Init
  BY DEF Init, Abstract!Init
<1>2. IInv /\ [Next]_vars => [Abstract!Next]_delivered
  <2> SUFFICES ASSUME IInv, [Next]_vars PROVE [Abstract!Next]_delivered
    OBVIOUS
  <2>1. CASE get_new_seq_for_send
    BY <2>1 DEF get_new_seq_for_send
  <2>2. CASE re_init
    BY <2>2 DEF re_init, Abstract!Next, Abstract!Forget
  <2>3. ASSUME NEW s \in Sent, Receive(s) PROVE [Abstract!Next]_delivered
    <3>1. s \in SeqNum
      BY SentType DEF IInv
    <3>2. CASE Reject(s)
      BY <3>2 DEF Reject, vars
    <3>3. CASE AcceptAhead(s) \/ AcceptLate(s)
      <4>1. Abstract!Deliver(s)
        BY <3>1, <3>3, AcceptAheadIInv, AcceptLateIInv DEF Abstract!Deliver
      <4> QED
        BY <3>1, <4>1 DEF Abstract!Next
    <3> QED
      BY <2>3, <3>2, <3>3 DEF Receive
  <2>4. CASE UNCHANGED vars
    BY <2>4 DEF vars
  <2> QED
    BY <2>1, <2>2, <2>3, <2>4 DEF Next
<1> QED
  BY <1>1, <1>2, SpecIInv, PTL DEF Spec, ImplementsAtMostOnce, Abstract!Spec

-----------------------------------------------------------------------------
\* A set of natural numbers that is not empty has a least element.
LEMMA NatMin ==
    ASSUME NEW T \in SUBSET Nat, T # {}
    PROVE  \E x \in T : \A y \in T : x <= y
<1>1. PICK x \in T : \A y \in T : ~(<<y, x>> \in OpToRel(<, Nat))
  BY NatLessThanWellFounded, WFMin
<1>2. \A y \in T : ~(y < x)
  BY <1>1 DEF OpToRel
<1> QED
  BY <1>2

-----------------------------------------------------------------------------
(* The filters, executed. *)

Runs(run, code, p) ==
    /\ run[0] = S!State(1, 0, 0)
    /\ \A n \in 1 .. Len(code) :
          run[n] = IF run[n - 1].pc = 0 THEN run[n - 1] ELSE S!Step(code, p, run[n - 1])
    /\ S!Exec(code, p) = run[Len(code)].A

\* The recursive function of Exec exists: were there a least number of
\* instructions up to which it does not, it could be extended by one more.
LEMMA RunExists ==
    ASSUME NEW code, NEW p, Len(code) \in Nat PROVE \E run : Runs(run, code, p)
<1> DEFINE first == S!State(1, 0, 0)
           next(m) == IF m.pc = 0 THEN m ELSE S!Step(code, p, m)
           upto(g, m) == g = [n \in 0 .. m |-> IF n = 0 THEN first ELSE next(g[n - 1])]
           Bad == {m \in Nat : ~\E g : upto(g, m)}
<1>1. Bad = {}
  <2>1. SUFFICES ASSUME Bad # {} PROVE FALSE
    OBVIOUS
  <2>2. PICK m \in Bad : \A y \in Bad : m <= y
    BY <2>1, NatMin
  <2>3. CASE m = 0
    <3>1. upto([n \in 0 .. 0 |-> first], 0)
      OBVIOUS
    <3> QED
      BY <2>3, <3>1
  <2>4. CASE m # 0
    <3>1. m - 1 \in Nat /\ ~(m - 1 \in Bad)
      <4>1. m \in Nat
        OBVIOUS
      <4>2. m - 1 \in Nat /\ ~(m <= m - 1)
        BY <2>4, <4>1
      <4> HIDE DEF Bad
      <4> QED
        BY <2>2, <4>2
    <3>2. PICK g : upto(g, m - 1)
      BY <3>1
    <3> DEFINE h == [n \in 0 .. m |-> IF n = m THEN next(g[m - 1]) ELSE g[n]]
    <3>3. \A n \in 0 .. m - 1 : g[n] = IF n = 0 THEN first ELSE next(g[n - 1])
      BY <3>2
    <3> HIDE DEF first, next
    <3>4. \A n \in 0 .. m : h[n] = IF n = 0 THEN first ELSE next(h[n - 1])
      <4>1. TAKE n \in 0 .. m
      <4>2. CASE n = m
        <5>1. h[n] = next(g[m - 1]) /\ h[n - 1] = g[m - 1] /\ n # 0
          BY <3>1, <2>4, <4>2
        <5> QED
          BY <5>1, <4>2
      <4>3. CASE n # m
        <5>1. n \in 0 .. m - 1 /\ h[n] = g[n]
          BY <4>3
        <5>2. n # 0 => h[n - 1] = g[n - 1]
          BY <4>3
        <5> QED
          BY <3>3, <5>1, <5>2
      <4> QED
        BY <4>2, <4>3
    <3>5. h = [n \in 0 .. m |-> h[n]]
      OBVIOUS
    <3>6. upto(h, m)
      BY <3>4, <3>5, Zenon
    <3> QED
      BY <2>2, <3>6
  <2> QED
    BY <2>3, <2>4
<1>2. \E g : upto(g, Len(code))
  BY <1>1
<1>3. PICK run : run = CHOOSE g : upto(g, Len(code))
  OBVIOUS
<1>4. S!Exec(code, p) = run[Len(code)].A
  BY <1>3, Zenon DEF S!Exec
<1>5. upto(run, Len(code))
  BY <1>2, <1>3
<1>6. \A n \in 0 .. Len(code) : run[n] = IF n = 0 THEN first ELSE next(run[n - 1])
  BY <1>5
<1>7. run[0] = first /\ \A n \in 1 .. Len(code) : run[n] = next(run[n - 1])
  BY <1>6
<1> QED
  BY <1>4, <1>7, Zenon DEF Runs

\* A program that has returned has returned.
LEMMA RunReturned ==
    ASSUME NEW code, NEW p, Len(code) \in Nat, NEW run, Runs(run, code, p),
           NEW n \in 0 .. Len(code), run[n].pc = 0
    PROVE  S!Exec(code, p) = run[n].A
<1> DEFINE Bad == {m \in Nat : m \in n .. Len(code) /\ run[m] # run[n]}
<1>1. Bad = {}
  <2>1. SUFFICES ASSUME Bad # {} PROVE FALSE
    OBVIOUS
  <2>2. PICK m \in Bad : \A y \in Bad : m <= y
    BY <2>1, NatMin
  <2>3. m - 1 \in n .. Len(code) /\ m \in 1 .. Len(code) /\ m - 1 \in Nat /\ ~(m <= m - 1)
    OBVIOUS
  <2>4. m - 1 \notin Bad
    <3> HIDE DEF Bad
    <3> QED
      BY <2>2, <2>3
  <2>5. run[m - 1] = run[n]
    BY <2>3, <2>4
  <2>6. run[m] = run[m - 1]
    BY <2>3, <2>5 DEF Runs
  <2> QED
    BY <2>5, <2>6
<1>2. run[Len(code)] = run[n]
  BY <1>1
<1> QED
  BY <1>2 DEF Runs

\* The instructions.
LEMMA Instructions ==
    ASSUME NEW code, NEW p, NEW m
    PROVE  /\ code[m.pc][1] = \h30 =>
                 S!Step(code, p, m) = IF code[m.pc][4] + 1 > p.len THEN S!State(0, 0, m.X)
                                      ELSE S!State(m.pc + 1, S!Byte(p, code[m.pc][4]), m.X)
           /\ code[m.pc][1] = \h28 =>
                 S!Step(code, p, m) = IF code[m.pc][4] + 2 > p.len THEN S!State(0, 0, m.X)
                                      ELSE S!State(m.pc + 1, S!Half(p, code[m.pc][4]), m.X)
           /\ code[m.pc][1] = \h48 =>
                 S!Step(code, p, m) = IF m.X + code[m.pc][4] + 2 > p.len THEN S!State(0, 0, m.X)
                                      ELSE S!State(m.pc + 1, S!Half(p, m.X + code[m.pc][4]), m.X)
           /\ code[m.pc][1] = \hb1 =>
                 S!Step(code, p, m) = S!State(m.pc + 1, m.A, 4 * (S!Byte(p, code[m.pc][4]) % 16))
           /\ code[m.pc][1] = \h15 =>
                 S!Step(code, p, m) = S!State(m.pc + 1 + (IF m.A = code[m.pc][4] THEN code[m.pc][2]
                                                          ELSE code[m.pc][3]), m.A, m.X)
           /\ code[m.pc][1] = \h45 =>
                 S!Step(code, p, m) = S!State(m.pc + 1 + (IF m.A % (code[m.pc][4] + 1) # 0
                                                          THEN code[m.pc][2]
                                                          ELSE code[m.pc][3]), m.A, m.X)
           /\ code[m.pc][1] = \h6 => S!Step(code, p, m) = S!State(0, code[m.pc][4], m.X)
<1>1. ASSUME code[m.pc][1] = \h30
      PROVE  S!Step(code, p, m) = IF code[m.pc][4] + 1 > p.len THEN S!State(0, 0, m.X)
                                  ELSE S!State(m.pc + 1, S!Byte(p, code[m.pc][4]), m.X)
  <2>1. /\ code[m.pc][1] # \h28 /\ code[m.pc][1] # \h48 /\ code[m.pc][1] # \hb1
        /\ code[m.pc][1] # \h15 /\ code[m.pc][1] # \h45 /\ code[m.pc][1] # \h6
    BY <1>1
  <2> QED
    BY <1>1, <2>1, Zenon DEF S!Step
<1>2. ASSUME code[m.pc][1] = \h28
      PROVE  S!Step(code, p, m) = IF code[m.pc][4] + 2 > p.len THEN S!State(0, 0, m.X)
                                  ELSE S!State(m.pc + 1, S!Half(p, code[m.pc][4]), m.X)
  <2>1. /\ code[m.pc][1] # \h30 /\ code[m.pc][1] # \h48 /\ code[m.pc][1] # \hb1
        /\ code[m.pc][1] # \h15 /\ code[m.pc][1] # \h45 /\ code[m.pc][1] # \h6
    BY <1>2
  <2> QED
    BY <1>2, <2>1, Zenon DEF S!Step
<1>3. ASSUME code[m.pc][1] = \h48
      PROVE  S!Step(code, p, m) = IF m.X + code[m.pc][4] + 2 > p.len THEN S!State(0, 0, m.X)
                                  ELSE S!State(m.pc + 1, S!Half(p, m.X + code[m.pc][4]), m.X)
  <2>1. /\ code[m.pc][1] # \h30 /\ code[m.pc][1] # \h28 /\ code[m.pc][1] # \hb1
        /\ code[m.pc][1] # \h15 /\ code[m.pc][1] # \h45 /\ code[m.pc][1] # \h6
    BY <1>3
  <2> QED
    BY <1>3, <2>1, Zenon DEF S!Step
<1>4. ASSUME code[m.pc][1] = \hb1
      PROVE  S!Step(code, p, m) = S!State(m.pc + 1, m.A, 4 * (S!Byte(p, code[m.pc][4]) % 16))
  <2>1. /\ code[m.pc][1] # \h30 /\ code[m.pc][1] # \h28 /\ code[m.pc][1] # \h48
        /\ code[m.pc][1] # \h15 /\ code[m.pc][1] # \h45 /\ code[m.pc][1] # \h6
    BY <1>4
  <2> QED
    BY <1>4, <2>1, Zenon DEF S!Step
<1>5. ASSUME code[m.pc][1] = \h15
      PROVE  S!Step(code, p, m) = S!State(m.pc + 1 + (IF m.A = code[m.pc][4] THEN code[m.pc][2]
                                                      ELSE code[m.pc][3]), m.A, m.X)
  <2>1. /\ code[m.pc][1] # \h30 /\ code[m.pc][1] # \h28 /\ code[m.pc][1] # \h48
        /\ code[m.pc][1] # \hb1 /\ code[m.pc][1] # \h45 /\ code[m.pc][1] # \h6
    BY <1>5
  <2> QED
    BY <1>5, <2>1, Zenon DEF S!Step
<1>6. ASSUME code[m.pc][1] = \h45
      PROVE  S!Step(code, p, m) = S!State(m.pc + 1 + (IF m.A % (code[m.pc][4] + 1) # 0
                                                      THEN code[m.pc][2]
                                                      ELSE code[m.pc][3]), m.A, m.X)
  <2>1. /\ code[m.pc][1] # \h30 /\ code[m.pc][1] # \h28 /\ code[m.pc][1] # \h48
        /\ code[m.pc][1] # \hb1 /\ code[m.pc][1] # \h15 /\ code[m.pc][1] # \h6
    BY <1>6
  <2> QED
    BY <1>6, <2>1, Zenon DEF S!Step
<1>7. ASSUME code[m.pc][1] = \h6 PROVE S!Step(code, p, m) = S!State(0, code[m.pc][4], m.X)
  <2>1. /\ code[m.pc][1] # \h30 /\ code[m.pc][1] # \h28 /\ code[m.pc][1] # \h48
        /\ code[m.pc][1] # \hb1 /\ code[m.pc][1] # \h15 /\ code[m.pc][1] # \h45
    BY <1>7
  <2> QED
    BY <1>7, <2>1, Zenon DEF S!Step
<1> QED
  BY <1>1, <1>2, <1>3, <1>4, <1>5, <1>6, <1>7

\* The fields of a state of the filter's machine.
LEMMA StateFields ==
    \A pc, A, X : /\ S!State(pc, A, X).pc = pc /\ S!State(pc, A, X).A = A /\ S!State(pc, A, X).X = X
  BY DEF S!State

Is(m, pc, A, X) == m.pc = pc /\ m.A = A /\ m.X = X

\* The program arrives at instruction pc after n instructions.
At(run, code, p, n, pc, A, X) ==
    Runs(run, code, p) /\ n \in 0 .. Len(code) - 1 /\ pc # 0 /\ Is(run[n], pc, A, X)

\* The next instruction is the one the machine stands at; a 0 for pc returns A.
LEMMA AtStep ==
    ASSUME NEW code, NEW p, Len(code) \in Nat, NEW run, NEW n, NEW pc, NEW A, NEW X,
           At(run, code, p, n, pc, A, X)
    PROVE  /\ run[n].pc = pc /\ run[n].A = A /\ run[n].X = X
           /\ run[n + 1] = S!Step(code, p, run[n])
           /\ run[n + 1].pc = 0 => S!Exec(code, p) = run[n + 1].A
<1>1. run[n].pc = pc /\ run[n].A = A /\ run[n].X = X
  BY DEF At, Is
<1>2. n + 1 \in 1 .. Len(code) /\ (n + 1) - 1 = n
  BY DEF At
<1>3. run[n + 1] = S!Step(code, p, run[n])
  BY <1>1, <1>2 DEF At, Runs
<1>4. run[n + 1].pc = 0 => S!Exec(code, p) = run[n + 1].A
  <2>1. n + 1 \in 0 .. Len(code)
    BY <1>2
  <2> QED
    BY <2>1, RunReturned DEF At
<1> QED
  BY <1>1, <1>3, <1>4

Past(p, off, size) == off + size > p.len

\* ldb [k]: past the end of the packet the program returns 0.
LEMMA LoadByte ==
    ASSUME NEW code, NEW p, Len(code) \in Nat, NEW run, NEW n, NEW pc, NEW A, NEW X,
           At(run, code, p, n, pc, A, X), code[pc][1] = \h30
    PROVE  /\ Past(p, code[pc][4], 1) => S!Exec(code, p) = 0
           /\ ~Past(p, code[pc][4], 1) => Is(run[n + 1], pc + 1, S!Byte(p, code[pc][4]), X)
<1>1. PICK m : m = run[n]
  OBVIOUS
<1>2. /\ m.pc = pc /\ m.A = A /\ m.X = X /\ run[n + 1] = S!Step(code, p, m)
      /\ run[n + 1].pc = 0 => S!Exec(code, p) = run[n + 1].A
  BY <1>1, AtStep
<1>3. code[m.pc][1] = code[pc][1] /\ code[m.pc][2] = code[pc][2]
      /\ code[m.pc][3] = code[pc][3] /\ code[m.pc][4] = code[pc][4]
  BY <1>2
<1>4. \A v : S!State(0, v, X).pc = 0 /\ S!State(0, v, X).A = v
  BY StateFields
<1> QED
  BY <1>2, <1>3, <1>4, StateFields, Instructions DEF Past, Is

\* ldh [k].
LEMMA LoadHalf ==
    ASSUME NEW code, NEW p, Len(code) \in Nat, NEW run, NEW n, NEW pc, NEW A, NEW X,
           At(run, code, p, n, pc, A, X), code[pc][1] = \h28
    PROVE  /\ Past(p, code[pc][4], 2) => S!Exec(code, p) = 0
           /\ ~Past(p, code[pc][4], 2) => Is(run[n + 1], pc + 1, S!Half(p, code[pc][4]), X)
<1>1. PICK m : m = run[n]
  OBVIOUS
<1>2. /\ m.pc = pc /\ m.A = A /\ m.X = X /\ run[n + 1] = S!Step(code, p, m)
      /\ run[n + 1].pc = 0 => S!Exec(code, p) = run[n + 1].A
  BY <1>1, AtStep
<1>3. code[m.pc][1] = code[pc][1] /\ code[m.pc][2] = code[pc][2]
      /\ code[m.pc][3] = code[pc][3] /\ code[m.pc][4] = code[pc][4]
  BY <1>2
<1>4. \A v : S!State(0, v, X).pc = 0 /\ S!State(0, v, X).A = v
  BY StateFields
<1> QED
  BY <1>2, <1>3, <1>4, StateFields, Instructions DEF Past, Is

\* What a load from off leaves: 0 returned if it is past the end of the packet.
Loaded(run, code, p, n, pc, X, off) ==
    /\ Past(p, off, 2) => S!Exec(code, p) = 0
    /\ ~Past(p, off, 2) => Is(run[n + 1], pc + 1, S!Half(p, off), X)

\* Instruction pc loads from off, counted from the index register.
Indexed(code, pc, X, off) == code[pc][1] = \h48 /\ off = X + code[pc][4]

\* ldh [x + k].
LEMMA LoadIndexed ==
    ASSUME NEW code, NEW p, Len(code) \in Nat, NEW run, NEW n, NEW pc, NEW A, NEW X, NEW off,
           At(run, code, p, n, pc, A, X), Indexed(code, pc, X, off)
    PROVE  Loaded(run, code, p, n, pc, X, off)
<1>1. PICK m : m = run[n]
  OBVIOUS
<1>2. /\ m.pc = pc /\ m.A = A /\ m.X = X /\ run[n + 1] = S!Step(code, p, m)
      /\ run[n + 1].pc = 0 => S!Exec(code, p) = run[n + 1].A
  BY <1>1, AtStep
<1>3. code[m.pc][1] = code[pc][1] /\ code[m.pc][2] = code[pc][2]
      /\ code[m.pc][3] = code[pc][3] /\ code[m.pc][4] = code[pc][4]
  BY <1>2
<1>5. code[pc][1] = \h48 /\ off = X + code[pc][4]
  BY DEF Indexed
<1>4. \A v : S!State(0, v, X).pc = 0 /\ S!State(0, v, X).A = v
  BY StateFields
<1> QED
  BY <1>2, <1>3, <1>4, <1>5, StateFields, Instructions DEF Past, Is, Loaded

\* ldxb 4*([k]&0xf): the length of the IPv4 header.
LEMMA LoadIndex ==
    ASSUME NEW code, NEW p, Len(code) \in Nat, NEW run, NEW n, NEW pc, NEW A, NEW X,
           At(run, code, p, n, pc, A, X), code[pc][1] = \hb1
    PROVE  Is(run[n + 1], pc + 1, A, 4 * (S!Byte(p, code[pc][4]) % 16))
<1>1. PICK m : m = run[n]
  OBVIOUS
<1>2. /\ m.pc = pc /\ m.A = A /\ m.X = X /\ run[n + 1] = S!Step(code, p, m)
      /\ run[n + 1].pc = 0 => S!Exec(code, p) = run[n + 1].A
  BY <1>1, AtStep
<1>3. code[m.pc][1] = code[pc][1] /\ code[m.pc][2] = code[pc][2]
      /\ code[m.pc][3] = code[pc][3] /\ code[m.pc][4] = code[pc][4]
  BY <1>2
<1>4. \A v : S!State(0, v, X).pc = 0 /\ S!State(0, v, X).A = v
  BY StateFields
<1> QED
  BY <1>2, <1>3, <1>4, StateFields, Instructions DEF Is

\* jeq.
LEMMA JumpEqual ==
    ASSUME NEW code, NEW p, Len(code) \in Nat, NEW run, NEW n, NEW pc, NEW A, NEW X,
           At(run, code, p, n, pc, A, X), code[pc][1] = \h15
    PROVE  Is(run[n + 1], pc + 1 + (IF A = code[pc][4] THEN code[pc][2] ELSE code[pc][3]), A, X)
<1>1. PICK m : m = run[n]
  OBVIOUS
<1>2. /\ m.pc = pc /\ m.A = A /\ m.X = X /\ run[n + 1] = S!Step(code, p, m)
      /\ run[n + 1].pc = 0 => S!Exec(code, p) = run[n + 1].A
  BY <1>1, AtStep
<1>3. code[m.pc][1] = code[pc][1] /\ code[m.pc][2] = code[pc][2]
      /\ code[m.pc][3] = code[pc][3] /\ code[m.pc][4] = code[pc][4]
  BY <1>2
<1>4. \A v : S!State(0, v, X).pc = 0 /\ S!State(0, v, X).A = v
  BY StateFields
<1> QED
  BY <1>2, <1>3, <1>4, StateFields, Instructions DEF Is

\* jset with a mask of low bits.
LEMMA JumpMask ==
    ASSUME NEW code, NEW p, Len(code) \in Nat, NEW run, NEW n, NEW pc, NEW A, NEW X,
           At(run, code, p, n, pc, A, X), code[pc][1] = \h45
    PROVE  Is(run[n + 1], pc + 1 + (IF A % (code[pc][4] + 1) # 0 THEN code[pc][2]
                                          ELSE code[pc][3]), A, X)
<1>1. PICK m : m = run[n]
  OBVIOUS
<1>2. /\ m.pc = pc /\ m.A = A /\ m.X = X /\ run[n + 1] = S!Step(code, p, m)
      /\ run[n + 1].pc = 0 => S!Exec(code, p) = run[n + 1].A
  BY <1>1, AtStep
<1>3. code[m.pc][1] = code[pc][1] /\ code[m.pc][2] = code[pc][2]
      /\ code[m.pc][3] = code[pc][3] /\ code[m.pc][4] = code[pc][4]
  BY <1>2
<1>4. \A v : S!State(0, v, X).pc = 0 /\ S!State(0, v, X).A = v
  BY StateFields
<1> QED
  BY <1>2, <1>3, <1>4, StateFields, Instructions DEF Is

\* ret.
LEMMA Return ==
    ASSUME NEW code, NEW p, Len(code) \in Nat, NEW run, NEW n, NEW pc, NEW A, NEW X,
           At(run, code, p, n, pc, A, X), code[pc][1] = \h6
    PROVE  S!Exec(code, p) = code[pc][4]
<1>1. PICK m : m = run[n]
  OBVIOUS
<1>2. /\ m.pc = pc /\ m.A = A /\ m.X = X /\ run[n + 1] = S!Step(code, p, m)
      /\ run[n + 1].pc = 0 => S!Exec(code, p) = run[n + 1].A
  BY <1>1, AtStep
<1>3. code[m.pc][1] = code[pc][1] /\ code[m.pc][2] = code[pc][2]
      /\ code[m.pc][3] = code[pc][3] /\ code[m.pc][4] = code[pc][4]
  BY <1>2
<1>4. \A v : S!State(0, v, X).pc = 0 /\ S!State(0, v, X).A = v
  BY StateFields
<1> QED
  BY <1>2, <1>3, <1>4, StateFields, Instructions DEF Is

\* The size of an IPv4 header in words, and its fragment offset.
Sizes == 5 .. 15
Offsets == 0 .. 8191

\* The fields the filters look at.
Header(p) ==
    /\ p.ver \in {4, 6} /\ p.len \in Nat /\ p.ihl \in Sizes /\ p.frag \in Offsets
    /\ p.proto \in Nat /\ p.next \in Nat /\ p.sport \in Nat /\ p.dport \in Nat
    /\ p.type \in Nat /\ p.code \in Nat

\* The bytes of an IPv4 packet the programs load.
LEMMA Loads4 ==
    ASSUME NEW p, Header(p), p.ver = 4
    PROVE  /\ S!Byte(p, 0) = 64 + p.ihl /\ S!Byte(p, 9) = p.proto /\ S!Half(p, 6) = 16384 + p.frag
           /\ p.proto \in {6, 17} => S!Half(p, 4 * p.ihl + 2) = p.dport
<1>0. /\ p.ver # 6 /\ 0 # 9 /\ ~(0 >= S!PayloadAt(p)) /\ ~(9 >= S!PayloadAt(p))
      /\ ~(6 >= S!PayloadAt(p))
  BY DEF S!PayloadAt, Header, Sizes, Offsets
<1>1. S!Byte(p, 0) = 64 + p.ihl
  BY <1>0, Zenon DEF S!Byte
<1>2. S!Byte(p, 9) = p.proto
  BY <1>0, Zenon DEF S!Byte
<1>3. S!Half(p, 6) = 16384 + p.frag
  BY <1>0, SMT DEF S!Half
<1>4. ASSUME p.proto \in {6, 17} PROVE S!Half(p, 4 * p.ihl + 2) = p.dport
  <2>1. PICK off : off = 4 * p.ihl + 2
    OBVIOUS
  <2>2. off # 6 /\ off >= S!PayloadAt(p) /\ off - S!PayloadAt(p) = 2
    <3>1. PICK i \in Sizes : i = p.ihl
      BY DEF Header
    <3>2. S!PayloadAt(p) = 4 * i
      BY <3>1 DEF Header, S!PayloadAt
    <3>3. off = 4 * i + 2 /\ i \in 5 .. 15
      BY <2>1, <3>1 DEF Sizes
    <3> QED
      BY <3>2, <3>3
  <2>3. S!Half(p, off) = S!PayloadHalf(p, off - S!PayloadAt(p))
    <3>1. ~(p.ver = 4 /\ off = 6)
      BY <2>2
    <3> QED
      BY <2>2, <3>1, SMT DEF S!Half
  <2>4. S!PayloadHalf(p, 2) = p.dport
    <3>1. p.proto \in {S!TCP, S!UDP} /\ p.proto \notin {S!ICMP, S!ICMPV6} /\ p.proto # S!FRAGMENT
      BY <1>4 DEF S!TCP, S!UDP, S!ICMP, S!ICMPV6, S!FRAGMENT
    <3>2. 2 # 0
      OBVIOUS
    <3> QED
      BY <3>1, <3>2, Zenon DEF S!PayloadHalf
  <2> QED
    BY <2>1, <2>2, <2>3, <2>4
<1> QED
  BY <1>1, <1>2, <1>3, <1>4

\* The bytes of an IPv6 packet the programs load.
LEMMA Loads6 ==
    ASSUME NEW p, Header(p), p.ver = 6
    PROVE  /\ S!Byte(p, 6) = p.proto
           /\ p.proto \in {6, 17} => S!Half(p, 42) = p.dport
           /\ p.proto = 44 => S!Byte(p, 40) = p.next
<1>1. p.ver # 4 /\ S!PayloadAt(p) = 40
  BY DEF S!PayloadAt
<1>2. S!Byte(p, 6) = p.proto
  <2>1. ~(6 >= 40)
    OBVIOUS
  <2> QED
    BY <1>1, <2>1, Zenon DEF S!Byte
<1>3. ASSUME p.proto \in {6, 17} PROVE S!Half(p, 42) = p.dport
  <2>1. 42 >= 40 /\ 42 - 40 = 2 /\ 2 # 0
    OBVIOUS
  <2>2. S!Half(p, 42) = S!PayloadHalf(p, 2)
    <3>1. 42 >= S!PayloadAt(p) /\ 42 - S!PayloadAt(p) = 2 /\ ~(p.ver = 4 /\ 42 = 6)
      BY <1>1, <2>1
    <3>2. S!Half(p, 42) = S!PayloadHalf(p, 42 - S!PayloadAt(p))
      BY <3>1, SMT DEF S!Half
    <3> QED
      BY <3>1, <3>2
  <2>3. S!PayloadHalf(p, 2) = p.dport
    <3>1. p.proto \in {S!TCP, S!UDP} /\ p.proto \notin {S!ICMP, S!ICMPV6} /\ p.proto # S!FRAGMENT
      BY <1>3 DEF S!TCP, S!UDP, S!ICMP, S!ICMPV6, S!FRAGMENT
    <3> QED
      BY <2>1, <3>1, Zenon DEF S!PayloadHalf
  <2> QED
    BY <2>2, <2>3
<1>4. ASSUME p.proto = 44 PROVE S!Byte(p, 40) = p.next
  <2>1. 40 >= 40 /\ 40 - 40 = 0 /\ 40 # 6
    OBVIOUS
  <2>2. S!Byte(p, 40) = S!PayloadHalf(p, 0) \div 256
    BY <1>1, <2>1, Zenon DEF S!Byte
  <2>3. S!PayloadHalf(p, 0) = p.next * 256
    <3>1. p.proto \notin {S!TCP, S!UDP} /\ p.proto \notin {S!ICMP, S!ICMPV6} /\ p.proto = S!FRAGMENT
      BY <1>4 DEF S!TCP, S!UDP, S!ICMP, S!ICMPV6, S!FRAGMENT
    <3> QED
      BY <3>1, Zenon DEF S!PayloadHalf
  <2>4. (p.next * 256) \div 256 = p.next
    BY DEF Header
  <2> QED
    BY <2>2, <2>3, <2>4 DEF Past
<1> QED
  BY <1>2, <1>3, <1>4

\* The programs as they are attached.
Program4(code, q, port) ==
    /\ Len(code) = 9
    /\ code[1] = <<48, 0, 0, 9>> /\ code[2] = <<21, 0, 6, q>> /\ code[3] = <<40, 0, 0, 6>>
    /\ code[4] = <<69, 4, 0, 8191>> /\ code[5] = <<177, 0, 0, 0>>
    /\ code[6] = <<72, 0, 0, 2>> /\ code[7] = <<21, 0, 1, port>>
    /\ code[8] = <<6, 0, 0, 65535>> /\ code[9] = <<6, 0, 0, 0>>

Program6(code, q, port) ==
    /\ Len(code) = 6
    /\ code[1] = <<48, 0, 0, 6>> /\ code[2] = <<21, 0, 3, q>> /\ code[3] = <<40, 0, 0, 42>>
    /\ code[4] = <<21, 0, 1, port>> /\ code[5] = <<6, 0, 0, 262144>>
    /\ code[6] = <<6, 0, 0, 0>>

Icmp4(code) ==
    /\ Len(code) = 4
    /\ code[1] = <<48, 0, 0, 9>> /\ code[2] = <<21, 0, 1, 1>>
    /\ code[3] = <<6, 0, 0, 65535>> /\ code[4] = <<6, 0, 0, 0>>

Icmp6(code) ==
    /\ Len(code) = 7
    /\ code[1] = <<48, 0, 0, 6>> /\ code[2] = <<21, 3, 0, 58>> /\ code[3] = <<21, 0, 3, 44>>
    /\ code[4] = <<48, 0, 0, 40>> /\ code[5] = <<21, 0, 1, 58>>
    /\ code[6] = <<6, 0, 0, 262144>> /\ code[7] = <<6, 0, 0, 0>>

\* The arrays of network.cpp, with the port put in, are these programs.
LEMMA Programs ==
    ASSUME NEW port
    PROVE  /\ Icmp4(S!code_icmp) /\ Icmp6(S!code_icmp6)
           /\ Program4(S!WithPort(S!code_tcp, S!code_tcp_port_index, port), 6, port)
           /\ Program4(S!WithPort(S!code_udp, S!code_udp_port_index, port), 17, port)
           /\ Program6(S!WithPort(S!code_tcp6, S!code_tcp6_port_index, port), 6, port)
           /\ Program6(S!WithPort(S!code_udp6, S!code_udp6_port_index, port), 17, port)
<1>1. Program4(S!WithPort(S!code_tcp, S!code_tcp_port_index, port), 6, port)
  BY DEF Program4, S!WithPort, S!code_tcp, S!code_tcp_port_index, S!TCP
<1>2. Program4(S!WithPort(S!code_udp, S!code_udp_port_index, port), 17, port)
  BY DEF Program4, S!WithPort, S!code_udp, S!code_udp_port_index, S!UDP
<1>3. Program6(S!WithPort(S!code_tcp6, S!code_tcp6_port_index, port), 6, port)
  BY DEF Program6, S!WithPort, S!code_tcp6, S!code_tcp6_port_index, S!TCP
<1>4. Program6(S!WithPort(S!code_udp6, S!code_udp6_port_index, port), 17, port)
  BY DEF Program6, S!WithPort, S!code_udp6, S!code_udp6_port_index, S!UDP
<1>5. Icmp4(S!code_icmp)
  BY DEF Icmp4, S!code_icmp, S!ICMP
<1>6. Icmp6(S!code_icmp6)
  BY DEF Icmp6, S!code_icmp6, S!ICMPV6, S!FRAGMENT
<1> QED
  BY <1>1, <1>2, <1>3, <1>4, <1>5, <1>6

\* What code_tcp and code_udp let through of IPv4.
LEMMA Filter4 ==
    ASSUME NEW p, Header(p), p.ver = 4, NEW q \in {6, 17}, NEW port \in Nat, NEW code,
           Program4(code, q, port)
    PROVE  S!Exec(code, p) # 0 <=>
               /\ p.len >= 10 /\ p.proto = q /\ p.frag = 0
               /\ p.len >= 4 * p.ihl + 4 /\ p.dport = port
<1>2. Len(code) = 9 /\ Len(code) \in Nat
  BY DEF Program4
<1>1. PICK run : Runs(run, code, p)
  BY <1>2, RunExists
<1>3. At(run, code, p, 0, 1, 0, 0)
  <2>1. 0 \in 0 .. Len(code) - 1 /\ 1 # 0
    BY <1>2
  <2>2. Is(run[0], 1, 0, 0)
    BY <1>1, StateFields DEF Runs, Is
  <2> QED
    BY <1>1, <2>1, <2>2 DEF At
<1>a. /\ S!Byte(p, 0) = 64 + p.ihl /\ S!Byte(p, 9) = p.proto /\ S!Half(p, 6) = 16384 + p.frag
      /\ p.proto = q => S!Half(p, 4 * p.ihl + 2) = p.dport
  BY Loads4
<1>4. IF 10 > p.len THEN S!Exec(code, p) = 0 ELSE Is(run[1], 2, p.proto, 0)
  <2>1. code[1][1] = 48 /\ code[1][4] = 9
    BY DEF Program4
  <2>2. /\ Past(p, code[1][4], 1) => S!Exec(code, p) = 0
        /\ ~Past(p, code[1][4], 1) => Is(run[0 + 1], 1 + 1, S!Byte(p, code[1][4]), 0)
    BY <1>2, <1>3, <2>1, LoadByte
  <2>3. 0 + 1 = 1 /\ 1 + 1 = 2 /\ code[1][4] + 1 = 10
    BY <2>1
  <2>4. S!Byte(p, code[1][4]) = p.proto
    BY <1>a, <2>1
  <2> QED
    BY <2>2, <2>3, <2>4 DEF Past
<1>5. SUFFICES ASSUME p.len >= 10
               PROVE  S!Exec(code, p) # 0 <=> /\ p.proto = q /\ p.frag = 0
                                              /\ p.len >= 4 * p.ihl + 4 /\ p.dport = port
  BY <1>4 DEF Header
<1>6. IF p.proto = q THEN Is(run[2], 3, p.proto, 0) ELSE Is(run[2], 9, p.proto, 0)
  <2>1. code[2][1] = 21 /\ code[2][4] = q /\ code[2][2] = 0 /\ code[2][3] = 6
    BY DEF Program4
  <2>2. At(run, code, p, 1, 2, p.proto, 0)
    BY <1>1, <1>2, <1>4, <1>5 DEF At, Header
  <2> QED
    BY <1>2, <2>1, <2>2, JumpEqual
<1>7. ASSUME NEW n \in 0 .. 8, NEW A, NEW X, Is(run[n], 9, A, X)
      PROVE  S!Exec(code, p) = 0
  <2>1. code[9][1] = 6 /\ code[9][4] = 0
    BY DEF Program4
  <2>2. At(run, code, p, n, 9, A, X)
    BY <1>1, <1>2, <1>7 DEF At
  <2> QED
    BY <1>2, <2>1, <2>2, Return
<1>8. SUFFICES ASSUME p.proto = q
               PROVE  S!Exec(code, p) # 0 <=> /\ p.frag = 0
                                              /\ p.len >= 4 * p.ihl + 4 /\ p.dport = port
  BY <1>6, <1>7
<1>9. Is(run[3], 4, 16384 + p.frag, 0)
  <2>1. code[3][1] = 40 /\ code[3][4] = 6
    BY DEF Program4
  <2>2. At(run, code, p, 2, 3, p.proto, 0)
    BY <1>1, <1>2, <1>6, <1>8 DEF At
  <2>3. ~(6 + 2 > p.len)
    BY <1>5 DEF Header
  <2> QED
    <3>1. /\ Past(p, code[3][4], 2) => S!Exec(code, p) = 0
          /\ ~Past(p, code[3][4], 2) => Is(run[2 + 1], 3 + 1, S!Half(p, code[3][4]), 0)
      BY <1>2, <2>1, <2>2, LoadHalf
    <3>2. 2 + 1 = 3 /\ 3 + 1 = 4 /\ ~(code[3][4] + 2 > p.len)
      BY <2>1, <2>3
    <3>3. S!Half(p, code[3][4]) = 16384 + p.frag
      BY <1>a, <2>1
    <3> QED
      BY <3>1, <3>2, <3>3 DEF Past
<1>10. IF p.frag # 0 THEN Is(run[4], 9, 16384 + p.frag, 0)
                ELSE Is(run[4], 5, 16384 + p.frag, 0)
  <2>1. code[4][1] = 69 /\ code[4][4] = 8191 /\ code[4][2] = 4 /\ code[4][3] = 0
    BY DEF Program4
  <2>2. At(run, code, p, 3, 4, 16384 + p.frag, 0)
    BY <1>1, <1>2, <1>9 DEF At
  <2>3. (16384 + p.frag) % (8191 + 1) # 0 <=> p.frag # 0
    <3>1. PICK k \in Offsets : k = p.frag
      BY DEF Header
    <3>2. (16384 + k) % 8192 = k
      BY DEF Offsets
    <3> QED
      BY <3>1, <3>2
  <2> QED
    <3> DEFINE A == 16384 + p.frag
    <3>1. Is(run[3 + 1], 4 + 1 + (IF A % (code[4][4] + 1) # 0 THEN code[4][2] ELSE code[4][3]), A, 0)
      BY <1>2, <2>1, <2>2, JumpMask
    <3>2. 3 + 1 = 4 /\ A % (code[4][4] + 1) # 0 <=> p.frag # 0
      BY <2>1, <2>3
    <3> HIDE DEF A
    <3>3. 4 + 1 + (IF p.frag # 0 THEN code[4][2] ELSE code[4][3]) = IF p.frag # 0 THEN 9 ELSE 5
      BY <2>1
    <3> QED
      BY <3>1, <3>2, <3>3 DEF A
<1>11. SUFFICES ASSUME p.frag = 0
                PROVE  S!Exec(code, p) # 0 <=> p.len >= 4 * p.ihl + 4 /\ p.dport = port
  BY <1>7, <1>10
<1>12. Is(run[5], 6, 16384 + p.frag, 4 * p.ihl)
  <2>1. code[5][1] = 177 /\ code[5][4] = 0
    BY DEF Program4
  <2>2. At(run, code, p, 4, 5, 16384 + p.frag, 0)
    BY <1>1, <1>2, <1>10, <1>11 DEF At
  <2>3. (64 + p.ihl) % 16 = p.ihl
    BY DEF Header, Sizes, Offsets
  <2> QED
    BY <1>2, <2>1, <2>2, <2>3, LoadIndex, Loads4
<1>13. IF 4 * p.ihl + 4 > p.len THEN S!Exec(code, p) = 0
       ELSE Is(run[6], 7, p.dport, 4 * p.ihl)
  <2>1. code[6][1] = 72 /\ code[6][4] = 2
    BY DEF Program4
  <2>2. At(run, code, p, 5, 6, 16384 + p.frag, 4 * p.ihl)
    BY <1>1, <1>2, <1>12 DEF At
  <2>3. (4 * p.ihl) + 2 + 2 = 4 * p.ihl + 4
    BY DEF Header, Sizes, Offsets
  <2> QED
    <3>a. PICK A, X, off : A = 16384 + p.frag /\ X = 4 * p.ihl /\ off = X + code[6][4]
      OBVIOUS
    <3>b. At(run, code, p, 5, 6, A, X)
      BY <3>a, <2>2
    <3>1. /\ Past(p, off, 2) => S!Exec(code, p) = 0
          /\ ~Past(p, off, 2) => Is(run[5 + 1], 6 + 1, S!Half(p, off), X)
      <4>1. PICK pc, n : pc = 6 /\ n = 5
        OBVIOUS
      <4>2. Len(code) \in Nat /\ At(run, code, p, n, pc, A, X)
        BY <1>2, <3>b, <4>1
      <4>3. Indexed(code, pc, X, off)
        BY <2>1, <3>a, <4>1 DEF Indexed
      <4>4. Loaded(run, code, p, n, pc, X, off)
        BY <4>2, <4>3, LoadIndexed
      <4> QED
        BY <4>1, <4>4 DEF Loaded
    <3>2. 5 + 1 = 6 /\ 6 + 1 = 7 /\ off + 2 = 4 * p.ihl + 4
      BY <2>1, <2>3, <3>a
    <3>3. S!Half(p, off) = p.dport
      BY <1>8, <1>a, <2>1, <3>a
    <3> QED
      BY <3>1, <3>2, <3>3, <3>a DEF Past
<1>14. SUFFICES ASSUME p.len >= 4 * p.ihl + 4 PROVE S!Exec(code, p) # 0 <=> p.dport = port
  BY <1>13 DEF Header, Sizes, Offsets
<1>15. IF p.dport = port THEN Is(run[7], 8, p.dport, 4 * p.ihl)
                ELSE Is(run[7], 9, p.dport, 4 * p.ihl)
  <2>1. code[7][1] = 21 /\ code[7][4] = port /\ code[7][2] = 0 /\ code[7][3] = 1
    BY DEF Program4
  <2>2. At(run, code, p, 6, 7, p.dport, 4 * p.ihl)
    BY <1>1, <1>2, <1>13, <1>14 DEF At, Header, Sizes, Offsets
  <2> QED
    BY <1>2, <2>1, <2>2, JumpEqual
<1>16. p.dport = port => S!Exec(code, p) = 65535
  <2>1. code[8][1] = 6 /\ code[8][4] = 65535
    BY DEF Program4
  <2>2. p.dport = port => At(run, code, p, 7, 8, p.dport, 4 * p.ihl)
    BY <1>1, <1>2, <1>15 DEF At
  <2> QED
    BY <1>2, <2>1, <2>2, Return
<1> QED
  BY <1>7, <1>15, <1>16

\* What code_tcp6 and code_udp6 let through of IPv6.
LEMMA Filter6 ==
    ASSUME NEW p, Header(p), p.ver = 6, NEW q \in {6, 17}, NEW port \in Nat, NEW code,
           Program6(code, q, port)
    PROVE  S!Exec(code, p) # 0 <=> p.len >= 44 /\ p.proto = q /\ p.dport = port
<1>1. Len(code) = 6 /\ Len(code) \in Nat
  BY DEF Program6
<1>2. PICK run : Runs(run, code, p)
  BY <1>1, RunExists
<1>3. S!Byte(p, 6) = p.proto /\ (p.proto = q => S!Half(p, 42) = p.dport)
  BY Loads6
<1>4. At(run, code, p, 0, 1, 0, 0)
  <2>1. 0 \in 0 .. Len(code) - 1 /\ 1 # 0
    BY <1>1
  <2>2. Is(run[0], 1, 0, 0)
    BY <1>2, StateFields DEF Runs, Is
  <2> QED
    BY <1>2, <2>1, <2>2 DEF At
<1>5. IF 7 > p.len THEN S!Exec(code, p) = 0 ELSE Is(run[1], 2, p.proto, 0)
  <2>1. code[1][1] = 48 /\ code[1][4] = 6
    BY DEF Program6
  <2>2. /\ Past(p, code[1][4], 1) => S!Exec(code, p) = 0
        /\ ~Past(p, code[1][4], 1) => Is(run[0 + 1], 1 + 1, S!Byte(p, code[1][4]), 0)
    BY <1>1, <1>4, <2>1, LoadByte
  <2>3. 0 + 1 = 1 /\ 1 + 1 = 2 /\ code[1][4] + 1 = 7
    BY <2>1
  <2>4. S!Byte(p, code[1][4]) = p.proto
    BY <1>3, <2>1
  <2> QED
    BY <2>2, <2>3, <2>4 DEF Past
<1>6. SUFFICES ASSUME p.len >= 7
               PROVE  S!Exec(code, p) # 0 <=> p.len >= 44 /\ p.proto = q /\ p.dport = port
  BY <1>5 DEF Header
<1>7. IF p.proto = q THEN Is(run[2], 3, p.proto, 0) ELSE Is(run[2], 6, p.proto, 0)
  <2>1. code[2][1] = 21 /\ code[2][4] = q /\ code[2][2] = 0 /\ code[2][3] = 3
    BY DEF Program6
  <2>2. At(run, code, p, 1, 2, p.proto, 0)
    BY <1>1, <1>2, <1>5, <1>6 DEF At, Header
  <2> QED
    BY <1>1, <2>1, <2>2, JumpEqual
<1>8. ASSUME NEW n \in 0 .. 5, NEW A, NEW X, Is(run[n], 6, A, X) PROVE S!Exec(code, p) = 0
  <2>1. code[6][1] = 6 /\ code[6][4] = 0
    BY DEF Program6
  <2>2. At(run, code, p, n, 6, A, X)
    BY <1>1, <1>2, <1>8 DEF At
  <2> QED
    BY <1>1, <2>1, <2>2, Return
<1>9. SUFFICES ASSUME p.proto = q
               PROVE  S!Exec(code, p) # 0 <=> p.len >= 44 /\ p.dport = port
  BY <1>7, <1>8
<1>10. IF 44 > p.len THEN S!Exec(code, p) = 0 ELSE Is(run[3], 4, p.dport, 0)
  <2>1. code[3][1] = 40 /\ code[3][4] = 42
    BY DEF Program6
  <2>2. At(run, code, p, 2, 3, p.proto, 0)
    BY <1>1, <1>2, <1>7, <1>9 DEF At
  <2>3. /\ Past(p, code[3][4], 2) => S!Exec(code, p) = 0
        /\ ~Past(p, code[3][4], 2) => Is(run[2 + 1], 3 + 1, S!Half(p, code[3][4]), 0)
    BY <1>1, <2>1, <2>2, LoadHalf
  <2>4. 2 + 1 = 3 /\ 3 + 1 = 4 /\ code[3][4] + 2 = 44
    BY <2>1
  <2>5. S!Half(p, code[3][4]) = p.dport
    BY <1>3, <1>9, <2>1
  <2> QED
    BY <2>3, <2>4, <2>5 DEF Past
<1>11. SUFFICES ASSUME p.len >= 44 PROVE S!Exec(code, p) # 0 <=> p.dport = port
  BY <1>10 DEF Header
<1>12. IF p.dport = port THEN Is(run[4], 5, p.dport, 0) ELSE Is(run[4], 6, p.dport, 0)
  <2>1. code[4][1] = 21 /\ code[4][4] = port /\ code[4][2] = 0 /\ code[4][3] = 1
    BY DEF Program6
  <2>2. At(run, code, p, 3, 4, p.dport, 0)
    BY <1>1, <1>2, <1>10, <1>11 DEF At, Header
  <2> QED
    BY <1>1, <2>1, <2>2, JumpEqual
<1>13. p.dport = port => S!Exec(code, p) = 262144
  <2>1. code[5][1] = 6 /\ code[5][4] = 262144
    BY DEF Program6
  <2>2. p.dport = port => At(run, code, p, 4, 5, p.dport, 0)
    BY <1>1, <1>2, <1>12 DEF At
  <2> QED
    BY <1>1, <2>1, <2>2, Return
<1> QED
  BY <1>8, <1>12, <1>13

\* What code_icmp lets through.
LEMMA FilterIcmp4 ==
    ASSUME NEW p, Header(p), p.ver = 4, NEW code, Icmp4(code)
    PROVE  S!Exec(code, p) # 0 <=> p.len >= 10 /\ p.proto = 1
<1>2. Len(code) = 4 /\ Len(code) \in Nat
  BY DEF Icmp4
<1>3. PICK run : Runs(run, code, p)
  BY <1>2, RunExists
<1>4. S!Byte(p, 9) = p.proto
  BY Loads4
<1>5. At(run, code, p, 0, 1, 0, 0)
  <2>1. 0 \in 0 .. Len(code) - 1 /\ 1 # 0
    BY <1>2
  <2>2. Is(run[0], 1, 0, 0)
    BY <1>3, StateFields DEF Runs, Is
  <2> QED
    BY <1>3, <2>1, <2>2 DEF At
<1>6. IF 10 > p.len THEN S!Exec(code, p) = 0 ELSE Is(run[1], 2, p.proto, 0)
  <2>0. code[1][1] = 48 /\ code[1][4] = 9
    BY DEF Icmp4
  <2>1. /\ Past(p, code[1][4], 1) => S!Exec(code, p) = 0
        /\ ~Past(p, code[1][4], 1) => Is(run[0 + 1], 1 + 1, S!Byte(p, code[1][4]), 0)
    BY <1>2, <1>5, <2>0, LoadByte
  <2>2. 0 + 1 = 1 /\ 1 + 1 = 2 /\ code[1][4] + 1 = 10 /\ S!Byte(p, code[1][4]) = p.proto
    BY <1>4, <2>0
  <2> QED
    BY <2>1, <2>2 DEF Past
<1>7. SUFFICES ASSUME p.len >= 10 PROVE S!Exec(code, p) # 0 <=> p.proto = 1
  BY <1>6 DEF Header
<1>8. IF p.proto = 1 THEN Is(run[2], 3, p.proto, 0) ELSE Is(run[2], 4, p.proto, 0)
  <2>0. code[2][1] = 21 /\ code[2][2] = 0 /\ code[2][3] = 1 /\ code[2][4] = 1
    BY DEF Icmp4
  <2>1. At(run, code, p, 1, 2, p.proto, 0)
    BY <1>2, <1>3, <1>6, <1>7 DEF At, Header
  <2> QED
    BY <1>2, <2>1, <2>0, JumpEqual
<1>9. p.proto = 1 => S!Exec(code, p) = 65535
  <2>0. code[3][1] = 6 /\ code[3][4] = 65535
    BY DEF Icmp4
  <2>1. p.proto = 1 => At(run, code, p, 2, 3, p.proto, 0)
    BY <1>2, <1>3, <1>8 DEF At
  <2> QED
    BY <1>2, <2>1, <2>0, Return
<1>10. p.proto # 1 => S!Exec(code, p) = 0
  <2>0. code[4][1] = 6 /\ code[4][4] = 0
    BY DEF Icmp4
  <2>1. p.proto # 1 => At(run, code, p, 2, 4, p.proto, 0)
    BY <1>2, <1>3, <1>8 DEF At
  <2> QED
    BY <1>2, <2>1, <2>0, Return
<1> QED
  BY <1>9, <1>10

\* What code_icmp6 lets through.
LEMMA FilterIcmp6 ==
    ASSUME NEW p, Header(p), p.ver = 6, NEW code, Icmp6(code)
    PROVE  S!Exec(code, p) # 0 <=>
               p.len >= 7 /\ (p.proto = 58 \/ (p.proto = 44 /\ p.len >= 41 /\ p.next = 58))
<1>2. Len(code) = 7 /\ Len(code) \in Nat
  BY DEF Icmp6
<1>3. PICK run : Runs(run, code, p)
  BY <1>2, RunExists
<1>4. S!Byte(p, 6) = p.proto /\ (p.proto = 44 => S!Byte(p, 40) = p.next)
  BY Loads6
<1>5. At(run, code, p, 0, 1, 0, 0)
  <2>1. 0 \in 0 .. Len(code) - 1 /\ 1 # 0
    BY <1>2
  <2>2. Is(run[0], 1, 0, 0)
    BY <1>3, StateFields DEF Runs, Is
  <2> QED
    BY <1>3, <2>1, <2>2 DEF At
<1>6. IF 7 > p.len THEN S!Exec(code, p) = 0 ELSE Is(run[1], 2, p.proto, 0)
  <2>0. code[1][1] = 48 /\ code[1][4] = 6
    BY DEF Icmp6
  <2>1. /\ Past(p, code[1][4], 1) => S!Exec(code, p) = 0
        /\ ~Past(p, code[1][4], 1) => Is(run[0 + 1], 1 + 1, S!Byte(p, code[1][4]), 0)
    BY <1>2, <1>5, <2>0, LoadByte
  <2>2. 0 + 1 = 1 /\ 1 + 1 = 2 /\ code[1][4] + 1 = 7 /\ S!Byte(p, code[1][4]) = p.proto
    BY <1>4, <2>0
  <2> QED
    BY <2>1, <2>2 DEF Past
<1>7. SUFFICES ASSUME p.len >= 7
               PROVE  S!Exec(code, p) # 0 <=>
                         (p.proto = 58 \/ (p.proto = 44 /\ p.len >= 41 /\ p.next = 58))
  BY <1>6 DEF Header
<1>8. IF p.proto = 58 THEN Is(run[2], 6, p.proto, 0) ELSE Is(run[2], 3, p.proto, 0)
  <2>0. code[2][1] = 21 /\ code[2][2] = 3 /\ code[2][3] = 0 /\ code[2][4] = 58
    BY DEF Icmp6
  <2>1. At(run, code, p, 1, 2, p.proto, 0)
    BY <1>2, <1>3, <1>6, <1>7 DEF At, Header
  <2> QED
    BY <1>2, <2>1, <2>0, JumpEqual
<1>9. ASSUME NEW n \in 0 .. 6, NEW A, NEW X, Is(run[n], 6, A, X) PROVE S!Exec(code, p) = 262144
  <2>0. code[6][1] = 6 /\ code[6][4] = 262144
    BY DEF Icmp6
  <2>1. At(run, code, p, n, 6, A, X)
    BY <1>2, <1>3, <1>9 DEF At
  <2> QED
    BY <1>2, <2>1, <2>0, Return
<1>10. ASSUME NEW n \in 0 .. 6, NEW A, NEW X, Is(run[n], 7, A, X) PROVE S!Exec(code, p) = 0
  <2>0. code[7][1] = 6 /\ code[7][4] = 0
    BY DEF Icmp6
  <2>1. At(run, code, p, n, 7, A, X)
    BY <1>2, <1>3, <1>10 DEF At
  <2> QED
    BY <1>2, <2>1, <2>0, Return
<1>11. SUFFICES ASSUME p.proto # 58
                PROVE  S!Exec(code, p) # 0 <=> p.proto = 44 /\ p.len >= 41 /\ p.next = 58
  BY <1>8, <1>9
<1>12. IF p.proto = 44 THEN Is(run[3], 4, p.proto, 0) ELSE Is(run[3], 7, p.proto, 0)
  <2>0. code[3][1] = 21 /\ code[3][2] = 0 /\ code[3][3] = 3 /\ code[3][4] = 44
    BY DEF Icmp6
  <2>1. At(run, code, p, 2, 3, p.proto, 0)
    BY <1>2, <1>3, <1>8, <1>11 DEF At
  <2> QED
    BY <1>2, <2>1, <2>0, JumpEqual
<1>13. SUFFICES ASSUME p.proto = 44
                PROVE  S!Exec(code, p) # 0 <=> p.len >= 41 /\ p.next = 58
  BY <1>10, <1>12
<1>14. IF 41 > p.len THEN S!Exec(code, p) = 0 ELSE Is(run[4], 5, p.next, 0)
  <2>0. code[4][1] = 48 /\ code[4][4] = 40
    BY DEF Icmp6
  <2>1. At(run, code, p, 3, 4, p.proto, 0)
    BY <1>2, <1>3, <1>12, <1>13 DEF At
  <2>2. /\ Past(p, code[4][4], 1) => S!Exec(code, p) = 0
        /\ ~Past(p, code[4][4], 1) => Is(run[3 + 1], 4 + 1, S!Byte(p, code[4][4]), 0)
    BY <1>2, <2>1, <2>0, LoadByte
  <2>3. 3 + 1 = 4 /\ 4 + 1 = 5 /\ code[4][4] + 1 = 41 /\ S!Byte(p, code[4][4]) = p.next
    BY <1>4, <1>13, <2>0
  <2> QED
    BY <2>2, <2>3 DEF Past
<1>15. SUFFICES ASSUME p.len >= 41 PROVE S!Exec(code, p) # 0 <=> p.next = 58
  BY <1>14 DEF Header
<1>16. IF p.next = 58 THEN Is(run[5], 6, p.next, 0) ELSE Is(run[5], 7, p.next, 0)
  <2>0. code[5][1] = 21 /\ code[5][2] = 0 /\ code[5][3] = 1 /\ code[5][4] = 58
    BY DEF Icmp6
  <2>1. At(run, code, p, 4, 5, p.next, 0)
    BY <1>2, <1>3, <1>14, <1>15 DEF At, Header
  <2> QED
    BY <1>2, <2>1, <2>0, JumpEqual
<1>17. p.next = 58 => S!Exec(code, p) = 262144
  BY <1>9, <1>16
<1>18. p.next # 58 => S!Exec(code, p) = 0
  BY <1>10, <1>16
<1> QED
  BY <1>17, <1>18

\* What each of the attached programs lets through.
THEOREM FilterMeans ==
    ASSUME NEW mode \in {"faketcp", "udp", "icmp"}, NEW port \in Nat, NEW p, Header(p)
    PROVE  S!Passes(mode, p.ver, port, p) <=>
              IF mode = "icmp"
              THEN IF p.ver = 4 THEN p.len >= 10 /\ p.proto = 1
                   ELSE p.len >= 7 /\ (p.proto = 58 \/ (p.proto = 44 /\ p.len >= 41 /\ p.next = 58))
              ELSE /\ p.proto = (IF mode = "udp" THEN 17 ELSE 6)
                   /\ p.dport = port
                   /\ IF p.ver = 4 THEN p.len >= 10 /\ p.frag = 0 /\ p.len >= 4 * p.ihl + 4
                      ELSE p.len >= 44
<1>1. CASE mode = "icmp"
  <2>1. mode # "faketcp" /\ mode # "udp"
    BY <1>1
  <2>2. S!init_filter(mode, p.ver, port) = IF p.ver = 4 THEN S!code_icmp ELSE S!code_icmp6
    BY <1>1, <2>1, Zenon DEF S!init_filter
  <2>3. Icmp4(S!code_icmp) /\ Icmp6(S!code_icmp6)
    BY Programs
  <2>4. CASE p.ver = 4
    BY <1>1, <2>2, <2>3, <2>4, FilterIcmp4 DEF S!Passes
  <2>5. CASE p.ver # 4
    <3>1. p.ver = 6
      BY <2>5 DEF Header
    <3> QED
      BY <1>1, <2>2, <2>3, <2>5, <3>1, FilterIcmp6 DEF S!Passes
  <2> QED
    BY <2>4, <2>5
<1>2. CASE mode = "udp"
  <2>1. mode # "faketcp" /\ mode # "icmp"
    BY <1>2
  <2>2. S!init_filter(mode, p.ver, port) =
           IF p.ver = 4 THEN S!WithPort(S!code_udp, S!code_udp_port_index, port)
           ELSE S!WithPort(S!code_udp6, S!code_udp6_port_index, port)
    BY <1>2, <2>1, Zenon DEF S!init_filter
  <2>3. CASE p.ver = 4
    <3>1. PICK code : code = S!WithPort(S!code_udp, S!code_udp_port_index, port)
      OBVIOUS
    <3>2. Program4(code, 17, port)
      BY <3>1, Programs
    <3>3. S!Passes(mode, p.ver, port, p) <=> S!Exec(code, p) # 0
      BY <2>2, <2>3, <3>1 DEF S!Passes
    <3> QED
      BY <1>2, <2>1, <2>3, <3>2, <3>3, Filter4
  <2>4. CASE p.ver # 4
    <3>0. p.ver = 6
      BY <2>4 DEF Header
    <3>1. PICK code : code = S!WithPort(S!code_udp6, S!code_udp6_port_index, port)
      OBVIOUS
    <3>2. Program6(code, 17, port)
      BY <3>1, Programs
    <3>3. S!Passes(mode, p.ver, port, p) <=> S!Exec(code, p) # 0
      BY <2>2, <2>4, <3>1 DEF S!Passes
    <3> QED
      BY <1>2, <2>1, <2>4, <3>0, <3>2, <3>3, Filter6
  <2> QED
    BY <2>3, <2>4
<1>3. CASE mode = "faketcp"
  <2>1. mode # "udp" /\ mode # "icmp"
    BY <1>3
  <2>2. S!init_filter(mode, p.ver, port) =
           IF p.ver = 4 THEN S!WithPort(S!code_tcp, S!code_tcp_port_index, port)
           ELSE S!WithPort(S!code_tcp6, S!code_tcp6_port_index, port)
    BY <1>3, <2>1, Zenon DEF S!init_filter
  <2>3. CASE p.ver = 4
    <3>1. PICK code : code = S!WithPort(S!code_tcp, S!code_tcp_port_index, port)
      OBVIOUS
    <3>2. Program4(code, 6, port)
      BY <3>1, Programs
    <3>3. S!Passes(mode, p.ver, port, p) <=> S!Exec(code, p) # 0
      BY <2>2, <2>3, <3>1 DEF S!Passes
    <3> QED
      BY <1>3, <2>1, <2>3, <3>2, <3>3, Filter4
  <2>4. CASE p.ver # 4
    <3>0. p.ver = 6
      BY <2>4 DEF Header
    <3>1. PICK code : code = S!WithPort(S!code_tcp6, S!code_tcp6_port_index, port)
      OBVIOUS
    <3>2. Program6(code, 6, port)
      BY <3>1, Programs
    <3>3. S!Passes(mode, p.ver, port, p) <=> S!Exec(code, p) # 0
      BY <2>2, <2>4, <3>1 DEF S!Passes
    <3> QED
      BY <1>3, <2>1, <2>4, <3>0, <3>2, <3>3, Filter6
  <2> QED
    BY <2>3, <2>4
<1> QED
  BY <1>1, <1>2, <1>3

-----------------------------------------------------------------------------
(* Raw packets. *)

Hosts == {"me", "peer", "other"}
Packets ==
    [ver : {4, 6}, version : Nat, ihl : Sizes, frag : Offsets, next : Nat, proto : Nat,
     src : Hosts, dst : Hosts, tot : Int, ipsum : BOOLEAN, l4sum : BOOLEAN,
     sport : Nat, dport : Nat, doff : Nat, syn : BOOLEAN, ack : BOOLEAN, rst : BOOLEAN,
     l4len : Int, type : Nat, code : Nat, id : Nat, len : Nat]

Modes == {"faketcp", "udp", "icmp"}

\* The fields of a configuration.
LEMMA ConfigFields ==
    ASSUME NEW c \in Configs
    PROVE  /\ c.mode \in Modes /\ c.ver \in {4, 6} /\ c.prog \in {"client", "server"}
           /\ c.lower_level \in BOOLEAN /\ c.bind_addr_used \in BOOLEAN /\ c.fix_gro \in BOOLEAN
<1>1. PICK m \in {"faketcp", "udp", "icmp"}, v \in {4, 6}, g \in {"client", "server"},
           l \in BOOLEAN, f \in BOOLEAN :
        c = [mode |-> m, ver |-> v, prog |-> g, lower_level |-> l, bind_addr_used |-> l,
             fix_gro |-> f]
  BY DEF Configs
<1> QED
  BY <1>1 DEF Modes

\* The protocol number of each raw mode.
LEMMA ProtoIs ==
    /\ S!Proto("faketcp", 4) = 6 /\ S!Proto("faketcp", 6) = 6
    /\ S!Proto("udp", 4) = 17 /\ S!Proto("udp", 6) = 17
    /\ S!Proto("icmp", 4) = 1 /\ S!Proto("icmp", 6) = 58
<1>0. "faketcp" # "udp" /\ "faketcp" # "icmp" /\ "udp" # "icmp"
  OBVIOUS
<1>1. \A v : S!Proto("faketcp", v) = 6
  BY <1>0, Zenon DEF S!Proto, S!TCP
<1>2. \A v : S!Proto("udp", v) = 17
  BY <1>0, Zenon DEF S!Proto, S!UDP
<1>3. \A v : S!Proto("icmp", v) = IF v = 4 THEN 1 ELSE 58
  BY <1>0, Zenon DEF S!Proto, S!ICMP, S!ICMPV6
<1> QED
  BY <1>1, <1>2, <1>3

\* The layer-4 part of what the peer sends.
Layer4(c, n, syn, ack) ==
    CASE c.mode = "faketcp" -> S!send_raw_tcp(n, syn, ack)
      [] c.mode = "udp" -> S!send_raw_udp(n)
      [] c.mode = "icmp" -> S!send_raw_icmp(c.ver, S!Opposite(c.prog), n)

Segments ==
    [sport : Nat, dport : Nat, doff : Nat, syn : BOOLEAN, ack : BOOLEAN, rst : BOOLEAN,
     l4len : Int, type : Nat, code : Nat, id : Nat, size : Nat]

\* What send_raw_tcp, send_raw_udp or send_raw_icmp makes is a typed segment.
LEMMA Layer4Is ==
    ASSUME NEW c \in Configs, NEW n \in RawLengths, NEW syn \in BOOLEAN, NEW ack \in BOOLEAN,
           NEW l, l = Layer4(c, n, syn, ack)
    PROVE  /\ l \in Segments
           /\ c.mode = "faketcp" => l = S!send_raw_tcp(n, syn, ack)
           /\ c.mode = "udp" => l = S!send_raw_udp(n)
           /\ c.mode = "icmp" => l = S!send_raw_icmp(c.ver, S!Opposite(c.prog), n)
<1>0. n \in 0 .. 2200
  BY LengthsAssumption
<1>1. CASE c.mode = "faketcp"
  <2>1. c.mode # "udp" /\ c.mode # "icmp"
    BY <1>1
  <2>2. l = S!send_raw_tcp(n, syn, ack)
    BY <1>1, <2>1, Zenon DEF Layer4
  <2>3. S!send_raw_tcp(n, syn, ack) \in Segments
    BY <1>0 DEF S!send_raw_tcp, Segments, S!peer_port, S!my_port
  <2> QED
    BY <2>1, <2>2, <2>3
<1>2. CASE c.mode = "udp"
  <2>1. c.mode # "faketcp" /\ c.mode # "icmp"
    BY <1>2
  <2>2. l = S!send_raw_udp(n)
    BY <1>2, <2>1, Zenon DEF Layer4
  <2>3. S!send_raw_udp(n) \in Segments
    BY <1>0 DEF S!send_raw_udp, Segments, S!peer_port, S!my_port, S!udphdr
  <2> QED
    BY <2>1, <2>2, <2>3
<1>3. CASE c.mode = "icmp"
  <2>1. c.mode # "faketcp" /\ c.mode # "udp"
    BY <1>3
  <2>2. l = S!send_raw_icmp(c.ver, S!Opposite(c.prog), n)
    BY <1>3, <2>1, Zenon DEF Layer4
  <2>3. S!send_raw_icmp(c.ver, S!Opposite(c.prog), n) \in Segments
    BY <1>0 DEF S!send_raw_icmp, Segments, S!peer_port, S!icmphdr
  <2> QED
    BY <2>1, <2>2, <2>3
<1> QED
  BY <1>1, <1>2, <1>3, ConfigFields DEF Modes

\* A field is changed.
LEMMA Put_version ==
    ASSUME NEW p \in Packets, NEW v \in Nat, NEW o, o = [p EXCEPT !.version = v]
    PROVE  o \in Packets /\ o.ver = p.ver
  BY DEF Packets

\* A packet with another ihl is one of typed fields.
LEMMA Put_ihl ==
    ASSUME NEW p \in Packets, NEW v \in Sizes, NEW o, o = [p EXCEPT !.ihl = v]
    PROVE  o \in Packets /\ o.ver = p.ver
  BY DEF Packets

\* A packet with another frag is one of typed fields.
LEMMA Put_frag ==
    ASSUME NEW p \in Packets, NEW v \in Offsets, NEW o, o = [p EXCEPT !.frag = v]
    PROVE  o \in Packets /\ o.ver = p.ver
  BY DEF Packets

\* A packet with another next is one of typed fields.
LEMMA Put_next ==
    ASSUME NEW p \in Packets, NEW v \in Nat, NEW o, o = [p EXCEPT !.next = v]
    PROVE  o \in Packets /\ o.ver = p.ver
  BY DEF Packets

\* A packet with another proto is one of typed fields.
LEMMA Put_proto ==
    ASSUME NEW p \in Packets, NEW v \in Nat, NEW o, o = [p EXCEPT !.proto = v]
    PROVE  o \in Packets /\ o.ver = p.ver
  BY DEF Packets

\* A packet with another src is one of typed fields.
LEMMA Put_src ==
    ASSUME NEW p \in Packets, NEW v \in Hosts, NEW o, o = [p EXCEPT !.src = v]
    PROVE  o \in Packets /\ o.ver = p.ver
  BY DEF Packets

\* A packet with another dst is one of typed fields.
LEMMA Put_dst ==
    ASSUME NEW p \in Packets, NEW v \in Hosts, NEW o, o = [p EXCEPT !.dst = v]
    PROVE  o \in Packets /\ o.ver = p.ver
  BY DEF Packets

\* A packet with another tot is one of typed fields.
LEMMA Put_tot ==
    ASSUME NEW p \in Packets, NEW v \in Int, NEW o, o = [p EXCEPT !.tot = v]
    PROVE  o \in Packets /\ o.ver = p.ver
  BY DEF Packets

\* A packet with another ipsum is one of typed fields.
LEMMA Put_ipsum ==
    ASSUME NEW p \in Packets, NEW v \in BOOLEAN, NEW o, o = [p EXCEPT !.ipsum = v]
    PROVE  o \in Packets /\ o.ver = p.ver
  BY DEF Packets

\* A packet with another l4sum is one of typed fields.
LEMMA Put_l4sum ==
    ASSUME NEW p \in Packets, NEW v \in BOOLEAN, NEW o, o = [p EXCEPT !.l4sum = v]
    PROVE  o \in Packets /\ o.ver = p.ver
  BY DEF Packets

\* A packet with another sport is one of typed fields.
LEMMA Put_sport ==
    ASSUME NEW p \in Packets, NEW v \in Nat, NEW o, o = [p EXCEPT !.sport = v]
    PROVE  o \in Packets /\ o.ver = p.ver
  BY DEF Packets

\* A packet with another dport is one of typed fields.
LEMMA Put_dport ==
    ASSUME NEW p \in Packets, NEW v \in Nat, NEW o, o = [p EXCEPT !.dport = v]
    PROVE  o \in Packets /\ o.ver = p.ver
  BY DEF Packets

\* A packet with another doff is one of typed fields.
LEMMA Put_doff ==
    ASSUME NEW p \in Packets, NEW v \in Nat, NEW o, o = [p EXCEPT !.doff = v]
    PROVE  o \in Packets /\ o.ver = p.ver
  BY DEF Packets

\* A packet with another rst is one of typed fields.
LEMMA Put_rst ==
    ASSUME NEW p \in Packets, NEW v \in BOOLEAN, NEW o, o = [p EXCEPT !.rst = v]
    PROVE  o \in Packets /\ o.ver = p.ver
  BY DEF Packets

\* A packet with another l4len is one of typed fields.
LEMMA Put_l4len ==
    ASSUME NEW p \in Packets, NEW v \in Int, NEW o, o = [p EXCEPT !.l4len = v]
    PROVE  o \in Packets /\ o.ver = p.ver
  BY DEF Packets

\* A packet with another type is one of typed fields.
LEMMA Put_type ==
    ASSUME NEW p \in Packets, NEW v \in Nat, NEW o, o = [p EXCEPT !.type = v]
    PROVE  o \in Packets /\ o.ver = p.ver
  BY DEF Packets

\* A packet with another code is one of typed fields.
LEMMA Put_code ==
    ASSUME NEW p \in Packets, NEW v \in Nat, NEW o, o = [p EXCEPT !.code = v]
    PROVE  o \in Packets /\ o.ver = p.ver
  BY DEF Packets

\* A packet with another id is one of typed fields.
LEMMA Put_id ==
    ASSUME NEW p \in Packets, NEW v \in Nat, NEW o, o = [p EXCEPT !.id = v]
    PROVE  o \in Packets /\ o.ver = p.ver
  BY DEF Packets

\* A packet with another len is one of typed fields.
LEMMA Put_len ==
    ASSUME NEW p \in Packets, NEW v \in Nat, NEW o, o = [p EXCEPT !.len = v]
    PROVE  o \in Packets /\ o.ver = p.ver
  BY DEF Packets

\* What the peer's send_raw0 puts on the wire.
LEMMA PeerPacket ==
    ASSUME NEW c \in Configs, NEW n \in RawLengths, NEW syn \in BOOLEAN, NEW ack \in BOOLEAN,
           NEW l, l = Layer4(c, n, syn, ack), NEW p, p = S!send_raw0(c, n, syn, ack)
    PROVE  /\ p \in Packets
           /\ p.ver = c.ver /\ p.version = c.ver /\ p.ihl = 5 /\ p.frag = 0
           /\ p.proto = S!Proto(c.mode, c.ver) /\ p.src = "peer" /\ p.dst = "me"
           /\ p.tot = p.len /\ p.ipsum /\ p.l4sum
           /\ p.len = (IF c.ver = 4 THEN 20 ELSE 40) + l.size
           /\ p.dport = l.dport /\ p.doff = l.doff /\ p.l4len = l.l4len
           /\ p.type = l.type /\ p.code = l.code /\ p.id = l.id
<1>1. l \in Segments
  BY Layer4Is
<1>2. PICK q \in {1, 6, 17, 58} : q = S!Proto(c.mode, c.ver)
  BY ConfigFields, ProtoIs DEF Modes
<1>3. PICK h \in {20, 40} : h = S!sizeof_ip(c.ver) /\ h = IF c.ver = 4 THEN 20 ELSE 40
  BY DEF S!sizeof_ip
<1>4. PICK s : s = S!send_raw_ip(c.ver, q, c.lower_level, l)
  OBVIOUS
<1>5. p = S!kernel_completes(s, c.lower_level)
  BY <1>2, <1>4, Zenon DEF S!send_raw0, Layer4
<1>6. /\ s \in Packets
      /\ s.ver = c.ver /\ s.version = c.ver /\ s.ihl = 5 /\ s.frag = 0
      /\ s.proto = q /\ s.src = "peer" /\ s.dst = "me"
      /\ s.tot = (IF c.ver = 4 /\ ~c.lower_level THEN 0 ELSE s.len)
      /\ s.ipsum = (c.ver = 6 \/ c.lower_level) /\ s.l4sum = TRUE
      /\ s.len = h + l.size
      /\ s.dport = l.dport /\ s.doff = l.doff /\ s.l4len = l.l4len
      /\ s.type = l.type /\ s.code = l.code /\ s.id = l.id
  <2>1. PICK v \in {4, 6}, lower \in BOOLEAN : v = c.ver /\ lower = c.lower_level
    BY ConfigFields
  <2>2. s = S!send_raw_ip(v, q, lower, l)
    BY <1>4, <2>1
  <2>3. s = [ver |-> v, version |-> v, ihl |-> 5, frag |-> 0, next |-> 0, proto |-> q,
             src |-> "peer", dst |-> "me",
             tot |-> IF v = 4 /\ ~lower THEN 0 ELSE h + l.size,
             ipsum |-> v = 6 \/ lower, l4sum |-> TRUE,
             sport |-> l.sport, dport |-> l.dport, doff |-> l.doff, syn |-> l.syn,
             ack |-> l.ack, rst |-> l.rst, l4len |-> l.l4len, type |-> l.type,
             code |-> l.code, id |-> l.id, len |-> h + l.size]
    BY <1>3, <2>1, <2>2, Zenon DEF S!send_raw_ip, S!peer, S!me
  <2>4. /\ l.sport \in Nat /\ l.dport \in Nat /\ l.doff \in Nat /\ l.syn \in BOOLEAN
        /\ l.ack \in BOOLEAN /\ l.rst \in BOOLEAN /\ l.l4len \in Int /\ l.type \in Nat
        /\ l.code \in Nat /\ l.id \in Nat /\ l.size \in Nat
    BY <1>1 DEF Segments
  <2>5. s \in Packets
    <3>1. h + l.size \in Nat /\ (IF v = 4 /\ ~lower THEN 0 ELSE h + l.size) \in Int
          /\ (v = 6 \/ lower) \in BOOLEAN
      BY <1>3, <2>4
    <3> QED
      BY <2>3, <2>4, <3>1 DEF Packets, Hosts, Sizes, Offsets
  <2>6. /\ s.ver = v /\ s.version = v /\ s.ihl = 5 /\ s.frag = 0
        /\ s.proto = q /\ s.src = "peer" /\ s.dst = "me"
        /\ s.tot = (IF v = 4 /\ ~lower THEN 0 ELSE h + l.size)
        /\ s.ipsum = (v = 6 \/ lower) /\ s.l4sum = TRUE
        /\ s.len = h + l.size
        /\ s.dport = l.dport /\ s.doff = l.doff /\ s.l4len = l.l4len
        /\ s.type = l.type /\ s.code = l.code /\ s.id = l.id
    BY <2>3
  <2> QED
    BY <2>1, <2>5, <2>6
<1>7. CASE c.ver = 4 /\ ~c.lower_level
  <2>1. p = [s EXCEPT !.tot = s.len, !.ipsum = TRUE]
    BY <1>5, <1>6, <1>7 DEF S!kernel_completes
  <2>2. s.len \in Int /\ s.len \in Nat
    BY <1>6 DEF Packets
  <2>3. p \in Packets
    <3>1. PICK b \in BOOLEAN : b = TRUE
      OBVIOUS
    <3>2. PICK r : r = [s EXCEPT !.ipsum = b]
      OBVIOUS
    <3>3. r \in Packets
      BY <1>6, <3>2, Put_ipsum
    <3>4. p = [r EXCEPT !.tot = s.len]
      BY <2>1, <3>1, <3>2
    <3> QED
      BY <2>2, <3>3, <3>4, Put_tot
  <2>4. /\ p.ver = s.ver /\ p.version = s.version /\ p.ihl = s.ihl /\ p.frag = s.frag
        /\ p.proto = s.proto /\ p.src = s.src /\ p.dst = s.dst /\ p.l4sum = s.l4sum
        /\ p.len = s.len /\ p.dport = s.dport /\ p.doff = s.doff /\ p.l4len = s.l4len
        /\ p.type = s.type /\ p.code = s.code /\ p.id = s.id
    BY <2>1
  <2>5. p.tot = s.len /\ p.ipsum = TRUE
    BY <1>6, <2>1 DEF Packets
  <2> QED
    BY <1>2, <1>3, <1>6, <2>3, <2>4, <2>5
<1>8. CASE ~(c.ver = 4 /\ ~c.lower_level)
  <2>1. p = s
    BY <1>5, <1>6, <1>8 DEF S!kernel_completes
  <2>2. p.ver = c.ver /\ p.version = c.ver /\ p.len = (IF c.ver = 4 THEN 20 ELSE 40) + l.size
    BY <1>3, <1>6, <2>1
  <2>3. p.tot = p.len /\ p.ipsum /\ p.l4sum
    BY <1>6, <1>8, <2>1, ConfigFields
  <2>4. /\ p \in Packets /\ p.ihl = 5 /\ p.frag = 0
        /\ p.proto = S!Proto(c.mode, c.ver) /\ p.src = "peer" /\ p.dst = "me"
        /\ p.dport = l.dport /\ p.doff = l.doff /\ p.l4len = l.l4len
        /\ p.type = l.type /\ p.code = l.code /\ p.id = l.id
    BY <1>2, <1>6, <2>1
  <2> QED
    BY <2>2, <2>3, <2>4
<1> QED
  BY <1>7, <1>8

\* Every packet on the network is one of typed fields.
LEMMA OtherIpPackets ==
    ASSUME NEW p \in Packets, NEW o \in S!OtherIp(p)
    PROVE  o \in Packets /\ o.ver = p.ver
<1>1. /\ p.ver \in {4, 6} /\ 10 - p.ver \in Nat /\ p.tot + 1 \in Int /\ p.l4len + 1 \in Int
      /\ p.len - 1 \in Int /\ p.proto \in Nat
  BY DEF Packets
<1>2. CASE o = [p EXCEPT !.version = 10 - p.ver]
  <2>1. p.ver = 4 => o = [p EXCEPT !.version = 6]
    BY <1>2
  <2>2. p.ver = 6 => o = [p EXCEPT !.version = 4]
    BY <1>2
  <2>3. p.ver = 4 => o \in Packets /\ o.ver = p.ver
    BY <2>1, Put_version
  <2>4. p.ver = 6 => o \in Packets /\ o.ver = p.ver
    BY <2>2, Put_version
  <2>5. p.ver = 4 \/ p.ver = 6
    BY DEF Packets
  <2> QED
    BY <2>3, <2>4, <2>5
<1>3. CASE o = [p EXCEPT !.frag = 1]
  <2>1. PICK v \in Offsets : v = 1
    BY DEF Offsets
  <2>2. o = [p EXCEPT !.frag = v]
    BY <1>3, <2>1
  <2> QED
    BY <2>2, Put_frag
<1>4. CASE o = [p EXCEPT !.ihl = 15]
  <2>1. PICK v \in Sizes : v = 15
    BY DEF Sizes
  <2>2. o = [p EXCEPT !.ihl = v]
    BY <1>4, <2>1
  <2> QED
    BY <2>2, Put_ihl
<1>5. CASE o = [p EXCEPT !.src = S!other]
  BY <1>5, Put_src DEF Hosts, S!other
<1>6. CASE o = [p EXCEPT !.dst = S!other]
  BY <1>6, Put_dst DEF Hosts, S!other
<1>7. CASE o = [p EXCEPT !.ipsum = FALSE]
  <2>1. PICK b \in BOOLEAN : b = FALSE
    OBVIOUS
  <2> QED
    BY <1>7, <2>1, Put_ipsum
<1>8. CASE o = [p EXCEPT !.tot = @ + 1, !.l4len = @ + 1]
  <2>1. PICK q : q = [p EXCEPT !.tot = p.tot + 1]
    OBVIOUS
  <2>2. q \in Packets /\ q.ver = p.ver
    BY <1>1, <2>1, Put_tot
  <2>3. PICK v \in Int : v = p.l4len + 1
    BY <1>1
  <2>4. o = [q EXCEPT !.l4len = v]
    BY <1>8, <2>1, <2>3
  <2> QED
    BY <2>2, <2>4, Put_l4len
<1>9. CASE o = [p EXCEPT !.tot = p.len - 1]
  BY <1>1, <1>9, Put_tot
<1>10. CASE o = [p EXCEPT !.proto = S!FRAGMENT, !.next = p.proto]
  <2>1. PICK q : q = [p EXCEPT !.proto = 44]
    OBVIOUS
  <2>2. q \in Packets /\ q.ver = p.ver
    BY <2>1, Put_proto
  <2>3. o = [q EXCEPT !.next = p.proto]
    BY <1>10, <2>1 DEF S!FRAGMENT
  <2> QED
    BY <1>1, <2>2, <2>3, Put_next
<1>11. CASE \E q \in {6, 17, 1, 58} : o = [p EXCEPT !.proto = q]
  BY <1>11, Put_proto
<1> QED
  BY <1>2, <1>3, <1>4, <1>5, <1>6, <1>7, <1>8, <1>9, <1>10, <1>11
  DEF S!OtherIp, S!TCP, S!UDP, S!ICMP, S!ICMPV6

\* A packet with another field behind the IP header is one of typed fields.
LEMMA OtherPayloadPackets ==
    ASSUME NEW p \in Packets, NEW o \in S!OtherPayload(p)
    PROVE  o \in Packets /\ o.ver = p.ver
<1>1. /\ p.ver \in {4, 6} /\ 10 - p.ver \in Nat /\ p.tot + 1 \in Int /\ p.l4len + 1 \in Int
      /\ p.len - 1 \in Int /\ p.proto \in Nat
  BY DEF Packets
<1>2. CASE o = [p EXCEPT !.sport = 7]
  BY <1>2, Put_sport
<1>3. CASE o = [p EXCEPT !.dport = 7]
  BY <1>3, Put_dport
<1>4. CASE o = [p EXCEPT !.l4sum = FALSE]
  <2>1. PICK b \in BOOLEAN : b = FALSE
    OBVIOUS
  <2> QED
    BY <1>4, <2>1, Put_l4sum
<1>5. CASE o = [p EXCEPT !.rst = TRUE]
  <2>1. PICK b \in BOOLEAN : b = TRUE
    OBVIOUS
  <2> QED
    BY <1>5, <2>1, Put_rst
<1>6. CASE o = [p EXCEPT !.l4len = @ + 1]
  <2>1. PICK v \in Int : v = p.l4len + 1
    BY <1>1
  <2>2. o = [p EXCEPT !.l4len = v]
    BY <1>6, <2>1
  <2> QED
    BY <2>2, Put_l4len
<1>7. CASE o = [p EXCEPT !.code = 1]
  BY <1>7, Put_code
<1>8. CASE o = [p EXCEPT !.id = 7]
  BY <1>8, Put_id
<1>9. CASE \E d \in {0, 5, 15} : o = [p EXCEPT !.doff = d]
  BY <1>9, Put_doff
<1>10. CASE \E t \in {0, 8, 128, 129} : o = [p EXCEPT !.type = t]
  BY <1>10, Put_type
<1> QED
  BY <1>2, <1>3, <1>4, <1>5, <1>6, <1>7, <1>8, <1>9, <1>10 DEF S!OtherPayload

\* So is one with other lengths.
LEMMA OtherLengthPackets ==
    ASSUME NEW p \in Packets, NEW o \in S!OtherLength(p)
    PROVE  o \in Packets /\ o.ver = p.ver
<1>1. /\ p.ver \in {4, 6} /\ 10 - p.ver \in Nat /\ p.tot + 1 \in Int /\ p.l4len + 1 \in Int
      /\ p.len - 1 \in Int /\ p.proto \in Nat
  BY DEF Packets
<1>2. CASE o = [p EXCEPT !.len = 19] \/ o = [p EXCEPT !.len = 0]
  BY <1>2, Put_len
<1>3. CASE o = [p EXCEPT !.len = 65635 + 9, !.tot = 60000]
  <2>1. PICK v \in Nat : v = 65635 + 9
    OBVIOUS
  <2>2. PICK q : q = [p EXCEPT !.len = v]
    OBVIOUS
  <2>3. q \in Packets /\ q.ver = p.ver
    BY <2>2, Put_len
  <2>4. o = [q EXCEPT !.tot = 60000]
    BY <1>3, <2>1, <2>2
  <2> QED
    BY <2>3, <2>4, Put_tot
<1> QED
  BY <1>2, <1>3 DEF S!OtherLength

\* So is every packet of somebody else.
LEMMA OtherPackets ==
    ASSUME NEW p \in Packets, NEW o \in S!Others(p)
    PROVE  o \in Packets /\ o.ver = p.ver
  BY OtherIpPackets, OtherPayloadPackets, OtherLengthPackets DEF S!Others

\* What the lemmas about filters ask of a packet.
LEMMA PacketFields ==
    ASSUME NEW p \in Packets
    PROVE  Header(p) /\ p.tot \in Int /\ p.doff \in Nat /\ p.len \in Nat /\ p.ver \in {4, 6}
  BY DEF Packets, Header

-----------------------------------------------------------------------------
(* What recv_raw0 takes. *)

\* A packet the IP layer takes fits in what was read.
LEMMA IpTakes ==
    ASSUME NEW c \in Configs, NEW p \in Packets, p.ver = c.ver, NEW len \in Int,
           NEW peek \in BOOLEAN, NEW n, n = S!recv_raw_ip(c, p, len, peek), n # -1
    PROVE  /\ n = p.tot - S!PayloadAt(p) /\ n >= 0 /\ p.tot <= len
           /\ len >= (IF c.ver = 4 THEN 20 ELSE 40)
           /\ c.ver = 4 /\ ~peek => p.ipsum
           /\ c.bind_addr_used => p.dst = "me"
<1>1. S!PayloadAt(p) = (IF c.ver = 4 THEN 4 * p.ihl ELSE 40) /\ S!PayloadAt(p) \in Int
  BY PacketFields DEF S!PayloadAt, Header, Sizes, Offsets
<1>2. ~ \/ len < 1 \/ p.version # c.ver \/ len < S!sizeof_ip(c.ver)
        \/ c.bind_addr_used /\ p.dst # S!me
        \/ len < p.tot
        \/ c.ver = 4 /\ ~peek /\ ~p.ipsum
        \/ p.tot < S!PayloadAt(p)
  BY <1>1 DEF S!recv_raw_ip
<1>3. n = p.tot - S!PayloadAt(p)
  BY <1>1, <1>2 DEF S!recv_raw_ip
<1> QED
  BY <1>1, <1>2, <1>3, PacketFields DEF S!sizeof_ip, S!me

\* pre_recv_raw_packet returns no more than was sent, and all of it if the buffer is big enough.
LEMMA PreRecv ==
    ASSUME NEW c \in Configs, NEW p \in Packets, NEW len, len = S!pre_recv_raw_packet(c, p)
    PROVE  /\ len \in Int /\ len <= p.len
           /\ p.len <= 1800 \/ (c.fix_gro /\ p.len <= 65635) => len = p.len
<1>1. PICK l \in Nat : l = p.len
  BY PacketFields
<1>2. len = IF l > 65635 THEN (IF c.fix_gro THEN 65635 ELSE -1)
            ELSE IF l > 1800 /\ ~c.fix_gro THEN -1 ELSE l
  BY <1>1 DEF S!pre_recv_raw_packet
<1> QED
  BY <1>1, <1>2

\* The length of a layer 4 header.
LEMMA HeaderLenIs ==
    ASSUME NEW p
    PROVE  /\ p.proto = 6 => S!HeaderLen(p) = 4 * p.doff
           /\ p.proto # 6 => S!HeaderLen(p) = 8
<1>1. ASSUME p.proto = 6 PROVE S!HeaderLen(p) = 4 * p.doff
  BY <1>1, Zenon DEF S!HeaderLen, S!TCP
<1>2. ASSUME p.proto # 6 PROVE S!HeaderLen(p) = 8
  BY <1>2, Zenon DEF S!HeaderLen, S!TCP
<1> QED
  BY <1>1, <1>2

\* recv_raw0, for each mode.
LEMMA RecvMode ==
    ASSUME NEW c \in Configs, NEW p, NEW len, NEW n, n = S!recv_raw_ip(c, p, len, FALSE)
    PROVE  /\ n = -1 => S!recv_raw0(c, p, len) = -1
           /\ n # -1 /\ c.mode = "faketcp" => S!recv_raw0(c, p, len) = S!recv_raw_tcp(c, p, n)
           /\ n # -1 /\ c.mode = "udp" => S!recv_raw0(c, p, len) = S!recv_raw_udp(c, p, n)
           /\ n # -1 /\ c.mode = "icmp" => S!recv_raw0(c, p, len) = S!recv_raw_icmp(c, p, n)
<1>1. n = -1 => S!recv_raw0(c, p, len) = -1
  BY Zenon DEF S!recv_raw0, S!fail
<1>2. ASSUME n # -1, c.mode = "faketcp"
      PROVE  S!recv_raw0(c, p, len) = S!recv_raw_tcp(c, p, n)
  <2>1. c.mode # "udp" /\ c.mode # "icmp"
    BY <1>2
  <2> QED
    BY <1>2, <2>1, Zenon DEF S!recv_raw0
<1>3. ASSUME n # -1, c.mode = "udp" PROVE S!recv_raw0(c, p, len) = S!recv_raw_udp(c, p, n)
  <2>1. c.mode # "faketcp" /\ c.mode # "icmp"
    BY <1>3
  <2> QED
    BY <1>3, <2>1, Zenon DEF S!recv_raw0
<1>4. ASSUME n # -1, c.mode = "icmp" PROVE S!recv_raw0(c, p, len) = S!recv_raw_icmp(c, p, n)
  <2>1. c.mode # "faketcp" /\ c.mode # "udp"
    BY <1>4
  <2> QED
    BY <1>4, <2>1, Zenon DEF S!recv_raw0
<1> QED
  BY <1>1, <1>2, <1>3, <1>4

\* What is received was whole, and meant for this program.
LEMMA Received ==
    ASSUME NEW c \in Configs, NEW p \in Packets, p.ver = c.ver, NEW len \in Int,
           NEW g, g = S!recv_raw0(c, p, len), g # -1, g # -2
    PROVE  /\ p.proto = S!Proto(c.mode, c.ver)
           /\ g \in Int /\ g >= 0 /\ S!HeaderLen(p) >= 4
           /\ S!PayloadAt(p) + S!HeaderLen(p) + g = p.tot
           /\ p.tot <= len /\ len >= (IF c.ver = 4 THEN 20 ELSE 40)
           /\ c.mode # "icmp" => p.dport = 4096
           /\ c.ver = 4 => p.ipsum
           /\ c.mode # "faketcp" => p.l4sum
           /\ c.bind_addr_used => p.dst = "me"
<1>1. PICK n : n = S!recv_raw_ip(c, p, len, FALSE)
  OBVIOUS
<1>2. n # -1
  BY <1>1, RecvMode
<1>3. /\ n = p.tot - S!PayloadAt(p) /\ n >= 0 /\ p.tot <= len
      /\ len >= (IF c.ver = 4 THEN 20 ELSE 40)
      /\ c.ver = 4 => p.ipsum
      /\ c.bind_addr_used => p.dst = "me"
  BY <1>1, <1>2, IpTakes
<1>4. S!PayloadAt(p) \in Int /\ p.tot \in Int /\ p.doff \in Nat /\ c.ver \in {4, 6}
  BY PacketFields, ConfigFields DEF S!PayloadAt, Header, Sizes, Offsets
<1>5. CASE c.mode = "faketcp"
  <2>1. g = S!recv_raw_tcp(c, p, n)
    BY <1>1, <1>2, <1>5, RecvMode
  <2>2. p.proto = 6 /\ p.doff # 0 /\ ~(4 * p.doff > n) /\ p.dport = 4096 /\ g = n - 4 * p.doff
    BY <2>1 DEF S!recv_raw_tcp, S!TCP, S!fail, S!unset, S!my_port
  <2>3. S!HeaderLen(p) = 4 * p.doff /\ S!Proto(c.mode, c.ver) = 6
    BY <1>4, <1>5, <2>2, HeaderLenIs, ProtoIs
  <2>4. g \in Int /\ g >= 0 /\ S!HeaderLen(p) >= 4 /\ S!PayloadAt(p) + S!HeaderLen(p) + g = p.tot
    BY <1>3, <1>4, <2>2, <2>3
  <2> QED
    BY <1>3, <1>5, <2>2, <2>3, <2>4
<1>6. CASE c.mode = "udp"
  <2>1. g = S!recv_raw_udp(c, p, n)
    BY <1>1, <1>2, <1>6, RecvMode
  <2>2. p.proto = 17 /\ ~(n < 8) /\ p.dport = 4096 /\ p.l4sum /\ g = n - 8
    BY <2>1 DEF S!recv_raw_udp, S!UDP, S!fail, S!udphdr, S!my_port
  <2>3. S!HeaderLen(p) = 8 /\ S!Proto(c.mode, c.ver) = 17
    BY <1>4, <1>6, <2>2, HeaderLenIs, ProtoIs
  <2>4. g \in Int /\ g >= 0 /\ S!PayloadAt(p) + S!HeaderLen(p) + g = p.tot
    BY <1>3, <1>4, <2>2, <2>3
  <2> QED
    BY <1>3, <1>6, <2>2, <2>3, <2>4
<1>7. CASE c.mode = "icmp"
  <2>1. g = S!recv_raw_icmp(c, p, n)
    BY <1>1, <1>2, <1>7, RecvMode
  <2>2. p.proto = S!Proto("icmp", c.ver) /\ ~(n < 8) /\ p.l4sum /\ g = n - 8
    BY <2>1 DEF S!recv_raw_icmp, S!fail, S!icmphdr
  <2>3. S!HeaderLen(p) = 8
    BY <1>4, <2>2, HeaderLenIs, ProtoIs
  <2>4. g \in Int /\ g >= 0 /\ S!PayloadAt(p) + S!HeaderLen(p) + g = p.tot
    BY <1>3, <1>4, <2>2, <2>3
  <2> QED
    BY <1>3, <1>7, <2>2, <2>3, <2>4
<1> QED
  BY <1>5, <1>6, <1>7, ConfigFields DEF Modes

-----------------------------------------------------------------------------
(* The filter and the receiving functions, for every packet. *)

\* FilterExact, for every configuration and every packet of typed fields.
LEMMA FilterExactFor ==
    ASSUME NEW c \in Configs, NEW p \in Packets, p.ver = c.ver,
           NEW len, len = S!pre_recv_raw_packet(c, p)
    PROVE  /\ S!Passes(c.mode, c.ver, 4096, p) =>
                 /\ p.proto = S!Proto(c.mode, c.ver)
                    \/ (c.mode = "icmp" /\ p.proto = 44 /\ p.next = 58)
                 /\ c.mode # "icmp" => p.dport = 4096
                 /\ c.mode # "icmp" /\ c.ver = 4 => p.frag = 0
           /\ len # -1 /\ p.frag = 0 /\ S!recv_raw0(c, p, len) \notin {-1, -2} =>
                 S!Passes(c.mode, c.ver, 4096, p)
<1>1. /\ Header(p) /\ c.mode \in Modes /\ c.ver \in {4, 6} /\ p.len \in Int
      /\ p.tot \in Int /\ p.doff \in Nat
  BY PacketFields, ConfigFields
<1>2. S!Passes(c.mode, c.ver, 4096, p) <=>
         IF c.mode = "icmp"
         THEN IF p.ver = 4 THEN p.len >= 10 /\ p.proto = 1
              ELSE p.len >= 7 /\ (p.proto = 58 \/ (p.proto = 44 /\ p.len >= 41 /\ p.next = 58))
         ELSE /\ p.proto = (IF c.mode = "udp" THEN 17 ELSE 6)
              /\ p.dport = 4096
              /\ IF p.ver = 4 THEN p.len >= 10 /\ p.frag = 0 /\ p.len >= 4 * p.ihl + 4
                 ELSE p.len >= 44
  BY <1>1, FilterMeans DEF Modes
<1>3. S!Proto(c.mode, c.ver) = IF c.mode = "icmp" THEN (IF c.ver = 4 THEN 1 ELSE 58)
                               ELSE IF c.mode = "udp" THEN 17 ELSE 6
  BY <1>1, ProtoIs DEF Modes
<1>4. ASSUME S!Passes(c.mode, c.ver, 4096, p)
      PROVE  /\ p.proto = S!Proto(c.mode, c.ver)
                \/ (c.mode = "icmp" /\ p.proto = 44 /\ p.next = 58)
             /\ c.mode # "icmp" => p.dport = 4096
             /\ c.mode # "icmp" /\ c.ver = 4 => p.frag = 0
  BY <1>1, <1>2, <1>3, <1>4
<1>5. ASSUME len # -1, p.frag = 0, S!recv_raw0(c, p, len) \notin {-1, -2}
      PROVE  S!Passes(c.mode, c.ver, 4096, p)
  <2>1. len \in Int /\ len <= p.len
    BY PreRecv
  <2>2. PICK g : g = S!recv_raw0(c, p, len)
    OBVIOUS
  <2>3. /\ p.proto = S!Proto(c.mode, c.ver)
        /\ g >= 0 /\ S!HeaderLen(p) >= 4
        /\ S!PayloadAt(p) + S!HeaderLen(p) + g = p.tot
        /\ p.tot <= len /\ len >= (IF c.ver = 4 THEN 20 ELSE 40)
        /\ c.mode # "icmp" => p.dport = 4096
    BY <1>5, <2>1, <2>2, Received
  <2>4. g \in Int /\ S!HeaderLen(p) \in Int /\ S!PayloadAt(p) \in Int
    <3>1. S!HeaderLen(p) \in Int
      BY <1>1, HeaderLenIs
    <3>2. S!PayloadAt(p) \in Int
      BY <1>1 DEF S!PayloadAt, Header, Sizes, Offsets
    <3>3. g \in Int
      BY <1>5, <2>1, <2>2, Received
    <3> QED
      BY <3>1, <3>2, <3>3
  <2>5. p.len >= S!PayloadAt(p) + 4 /\ p.len >= (IF c.ver = 4 THEN 20 ELSE 40)
    BY <1>1, <2>1, <2>3, <2>4
  <2>6. S!PayloadAt(p) = IF c.ver = 4 THEN 4 * p.ihl ELSE 40
    BY DEF S!PayloadAt
  <2> QED
    BY <1>1, <1>2, <1>3, <1>5, <2>3, <2>5, <2>6
<1> QED
  BY <1>4, <1>5

\* What the peer sends is peeked at and received as it was sent.
LEMMA Arrives ==
    ASSUME NEW c \in Configs, NEW n \in RawLengths, NEW syn \in BOOLEAN,
           NEW ack \in BOOLEAN, NEW p, p = S!send_raw0(c, n, syn, ack), p.len <= 1800 \/ c.fix_gro,
           NEW len, len = S!pre_recv_raw_packet(c, p)
    PROVE  len = p.len /\ S!peek_raw(c, p, len) /\ S!recv_raw0(c, p, len) = n
<1>0. n \in Int /\ n >= 0 /\ n <= 2200 /\ c.mode \in Modes /\ c.ver \in {4, 6}
      /\ c.prog \in {"client", "server"}
  BY LengthsAssumption, ConfigFields
<1>2. PICK l : l = Layer4(c, n, syn, ack)
  OBVIOUS
<1>3. /\ c.mode = "faketcp" => l = S!send_raw_tcp(n, syn, ack)
      /\ c.mode = "udp" => l = S!send_raw_udp(n)
      /\ c.mode = "icmp" => l = S!send_raw_icmp(c.ver, S!Opposite(c.prog), n)
      /\ l \in Segments
  BY <1>2, Layer4Is
<1>5. /\ p \in Packets
      /\ p.ver = c.ver /\ p.version = c.ver /\ p.ihl = 5
      /\ p.proto = S!Proto(c.mode, c.ver) /\ p.dst = "me"
      /\ p.tot = p.len /\ p.ipsum /\ p.l4sum
      /\ p.len = (IF c.ver = 4 THEN 20 ELSE 40) + l.size
      /\ p.dport = l.dport /\ p.doff = l.doff /\ p.l4len = l.l4len
      /\ p.type = l.type /\ p.code = l.code /\ p.id = l.id
  BY <1>2, PeerPacket
<1>6. PICK z \in Nat : z = l.size
  BY <1>3 DEF Segments
<1>7. c.mode = "faketcp" => p.doff \in {8, 10} /\ z = 4 * p.doff + n /\ p.dport = 4096
  <2>1. c.mode = "faketcp" => l.doff \in {8, 10} /\ l.size = 4 * l.doff + n /\ l.dport = 4096
    BY <1>3 DEF S!send_raw_tcp, S!my_port
  <2> QED
    BY <1>5, <1>6, <2>1
<1>8. c.mode = "udp" => z = 8 + n /\ p.l4len = 8 + n /\ p.dport = 4096
  <2>1. c.mode = "udp" => l.size = 8 + n /\ l.l4len = 8 + n /\ l.dport = 4096
    BY <1>3 DEF S!send_raw_udp, S!my_port, S!udphdr
  <2> QED
    BY <1>5, <1>6, <2>1
<1>9. c.mode = "icmp" =>
         /\ z = 8 + n /\ p.code = 0 /\ p.id = 5000
         /\ p.type = (IF c.ver = 4 THEN (IF c.prog = "client" THEN 0 ELSE 8)
                      ELSE (IF c.prog = "client" THEN 129 ELSE 128))
  <2>1. c.mode = "icmp" => /\ l.size = 8 + n /\ l.code = 0 /\ l.id = 5000
                           /\ l.type = (IF c.ver = 4 THEN (IF c.prog = "client" THEN 0 ELSE 8)
                                        ELSE (IF c.prog = "client" THEN 129 ELSE 128))
    BY <1>0, <1>3 DEF S!send_raw_icmp, S!icmphdr, S!peer_port, S!Opposite
  <2> QED
    BY <1>5, <1>6, <2>1
<1>10. z >= 8 /\ z <= 2240 /\ (c.mode = "faketcp" => z >= 32)
  <2>1. CASE c.mode = "faketcp"
    BY <1>0, <1>7, <2>1
  <2>2. CASE c.mode = "udp" \/ c.mode = "icmp"
    BY <1>0, <1>8, <1>9, <2>2
  <2> QED
    BY <1>0, <2>1, <2>2 DEF Modes
<1>11. PICK h \in {20, 40} : /\ h = (IF c.ver = 4 THEN 20 ELSE 40) /\ h = S!sizeof_ip(c.ver)
                             /\ h = (IF c.ver = 4 THEN 4 * 5 ELSE 40)
  BY DEF S!sizeof_ip
<1>12. p.len = h + z /\ p.tot = h + z
  BY <1>5, <1>6, <1>11
<1>13. len = h + z /\ len = p.len
  <2>1. p.len <= 65635
    BY <1>10, <1>12
  <2>2. p \in Packets
    BY <1>5
  <2>3. len = p.len
    BY <2>1, <2>2, PreRecv
  <2> QED
    BY <1>12, <2>3
<1>14. ASSUME NEW peek \in BOOLEAN PROVE S!recv_raw_ip(c, p, len, peek) = z
  <2>1. p.version = c.ver /\ p.dst = S!me /\ p.ipsum /\ p.ihl = 5
    BY <1>5 DEF S!me
  <2>2. ~(len < 1) /\ ~(len < h) /\ ~(len < h + z) /\ ~(h + z < h) /\ h + z - h = z
    BY <1>10, <1>13
  <2>3. (IF c.ver = 4 THEN 4 * p.ihl ELSE 40) = h
    BY <1>11, <2>1
  <2>4. ~ \/ len < 1 \/ p.version # c.ver \/ len < S!sizeof_ip(c.ver)
          \/ c.bind_addr_used /\ p.dst # S!me
          \/ len < p.tot
          \/ c.ver = 4 /\ ~peek /\ ~p.ipsum
          \/ p.tot < (IF c.ver = 4 THEN 4 * p.ihl ELSE 40)
    BY <1>11, <1>12, <2>1, <2>2, <2>3
  <2>5. p.tot - (IF c.ver = 4 THEN 4 * p.ihl ELSE 40) = z
    BY <1>12, <2>2, <2>3
  <2> QED
    BY <2>4, <2>5, Zenon DEF S!recv_raw_ip
<1>15. p.proto = S!Proto(c.mode, c.ver) /\ p.l4sum
  BY <1>5
<1>16. S!peek_raw(c, p, len)
  <2>1. S!recv_raw_ip(c, p, len, TRUE) = z /\ z # -1
    <3>1. TRUE \in BOOLEAN
      OBVIOUS
    <3>2. z # -1
      OBVIOUS
    <3> QED
      BY <1>14, <3>1, <3>2, Zenon
  <2>2. CASE c.mode = "faketcp"
    <3>1. c.mode # "udp" /\ c.mode # "icmp" /\ z >= 20
      BY <1>10, <2>2
    <3>2. z >= CASE c.mode = "faketcp" -> 20 [] c.mode = "udp" -> 8 [] c.mode = "icmp" -> 8
      BY <2>2, <3>1, Zenon
    <3> QED
      BY <1>15, <2>1, <3>2, Zenon DEF S!peek_raw, S!tcphdr, S!udphdr
  <2>3. CASE c.mode = "udp" \/ c.mode = "icmp"
    <3>1. c.mode # "faketcp" /\ z >= 8
      BY <1>10, <2>3
    <3>2. z >= CASE c.mode = "faketcp" -> 20 [] c.mode = "udp" -> 8 [] c.mode = "icmp" -> 8
      BY <2>3, <3>1, Zenon
    <3> QED
      BY <1>15, <2>1, <3>2, Zenon DEF S!peek_raw, S!tcphdr, S!udphdr
  <2> QED
    BY <1>0, <2>2, <2>3 DEF Modes
<1>17. S!recv_raw0(c, p, len) = n
  <2>1. PICK k : k = S!recv_raw_ip(c, p, len, FALSE)
    OBVIOUS
  <2>2. k = z /\ k # -1 /\ k \in Nat
    <3>1. FALSE \in BOOLEAN
      OBVIOUS
    <3>2. k = z
      BY <1>14, <2>1, <3>1, Zenon
    <3> QED
      BY <3>2
  <2>3. CASE c.mode = "faketcp"
    <3>1. S!recv_raw0(c, p, len) = S!recv_raw_tcp(c, p, k)
      BY <2>1, <2>2, <2>3, RecvMode
    <3>2. PICK d \in {8, 10} : d = p.doff /\ k = 4 * d + n
      BY <1>7, <2>2, <2>3
    <3>3. p.proto = 6 /\ p.dport = 4096
      BY <1>0, <1>7, <1>15, <2>3, ProtoIs
    <3>4. d # 0 /\ ~(4 * d > k) /\ k - 4 * d = n
      BY <1>0, <3>2
    <3> QED
      BY <3>1, <3>2, <3>3, <3>4 DEF S!recv_raw_tcp, S!TCP, S!my_port
  <2>4. CASE c.mode = "udp"
    <3>1. S!recv_raw0(c, p, len) = S!recv_raw_udp(c, p, k)
      BY <2>1, <2>2, <2>4, RecvMode
    <3>2. p.proto = 17 /\ p.dport = 4096 /\ p.l4sum
      BY <1>0, <1>8, <1>15, <2>4, ProtoIs
    <3>3. ~(k < 8) /\ p.l4len = k /\ k - 8 = n
      BY <1>0, <1>8, <2>2, <2>4
    <3> QED
      BY <3>1, <3>2, <3>3 DEF S!recv_raw_udp, S!UDP, S!my_port, S!udphdr
  <2>5. CASE c.mode = "icmp"
    <3>1. S!recv_raw0(c, p, len) = S!recv_raw_icmp(c, p, k)
      BY <2>1, <2>2, <2>5, RecvMode
    <3>2. /\ p.proto = S!Proto("icmp", c.ver) /\ p.code = 0 /\ p.id = 5000 /\ p.l4sum
          /\ p.type = (IF c.ver = 4 THEN (IF c.prog = "client" THEN 0 ELSE 8)
                       ELSE (IF c.prog = "client" THEN 129 ELSE 128))
      BY <1>9, <1>15, <2>5
    <3>3. ~(k < 8) /\ k - 8 = n
      BY <1>0, <1>9, <2>2, <2>5
    <3> QED
      BY <3>1, <3>2, <3>3 DEF S!recv_raw_icmp, S!peer_port, S!icmphdr
  <2> QED
    BY <1>0, <2>3, <2>4, <2>5 DEF Modes
<1> QED
  BY <1>13, <1>16, <1>17

-----------------------------------------------------------------------------
(* The buffer. *)

\* What each access to the buffer does to the count of packets in it.
LEMMA AccessIs ==
    /\ S!Access(0, "pre") = 1 /\ S!Access(1, "peek") = 1
    /\ S!Access(1, "recv") = 0 /\ S!Access(1, "discard") = 0
  BY DEF S!Access, S!failed

\* At most three accesses: the recursive function is written out.
LEMMA AccessesThree ==
    ASSUME NEW count, NEW ops, Len(ops) \in 0 .. 3
    PROVE  S!Accesses(count, ops) =
              IF Len(ops) = 0 THEN count
              ELSE IF Len(ops) = 1 THEN S!Access(count, ops[1])
              ELSE IF Len(ops) = 2 THEN S!Access(S!Access(count, ops[1]), ops[2])
              ELSE S!Access(S!Access(S!Access(count, ops[1]), ops[2]), ops[3])
<1> DEFINE a == S!Access(count, ops[1])
           b == S!Access(a, ops[2])
           d == S!Access(b, ops[3])
           w == [i \in 0 .. Len(ops) |-> IF i = 0 THEN count ELSE IF i = 1 THEN a
                                         ELSE IF i = 2 THEN b ELSE d]
           is(g) == g = [i \in 0 .. Len(ops) |-> IF i = 0 THEN count
                                                 ELSE S!Access(g[i - 1], ops[i])]
<1>1. is(w)
  <2>1. ASSUME NEW i \in 0 .. Len(ops)
        PROVE  w[i] = IF i = 0 THEN count ELSE S!Access(w[i - 1], ops[i])
    <3>1. i = 0 \/ i = 1 \/ i = 2 \/ i = 3
      <4>1. PICK k \in 0 .. 3 : k = Len(ops)
        OBVIOUS
      <4>2. i \in 0 .. k
        BY <4>1
      <4> QED
        BY <4>2
    <3>2. CASE i = 0
      BY <3>2
    <3>3. CASE i = 1
      BY <3>3
    <3>4. CASE i = 2
      BY <3>4
    <3>5. CASE i = 3
      BY <3>5
    <3> QED
      BY <3>1, <3>2, <3>3, <3>4, <3>5
  <2>2. w = [i \in 0 .. Len(ops) |-> w[i]]
    OBVIOUS
  <2> HIDE DEF w
  <2> QED
    BY <2>1, <2>2, Zenon
<1>2. PICK g : g = CHOOSE h : is(h)
  OBVIOUS
<1>3. is(g)
  <2> HIDE DEF w, is
  <2> QED
    BY <1>1, <1>2
<1>4. S!Accesses(count, ops) = g[Len(ops)]
  BY <1>2, Zenon DEF S!Accesses
<1>5. \A i \in 0 .. Len(ops) : g[i] = IF i = 0 THEN count ELSE S!Access(g[i - 1], ops[i])
  BY <1>3, Zenon
<1>6. g[0] = count
  BY <1>5
<1>7. Len(ops) >= 1 => g[1] = a
  BY <1>5, <1>6
<1>8. Len(ops) >= 2 => g[2] = b
  BY <1>5, <1>7
<1>9. Len(ops) >= 3 => g[3] = d
  BY <1>5, <1>8
<1>10. Len(ops) = 0 \/ Len(ops) = 1 \/ Len(ops) = 2 \/ Len(ops) = 3
  OBVIOUS
<1> HIDE DEF a, b, d
<1>11. S!Accesses(count, ops) = IF Len(ops) = 0 THEN count ELSE IF Len(ops) = 1 THEN a
                                ELSE IF Len(ops) = 2 THEN b ELSE d
  <2>1. CASE Len(ops) = 0
    BY <1>4, <1>6, <2>1
  <2>2. CASE Len(ops) = 1
    BY <1>4, <1>7, <2>2
  <2>3. CASE Len(ops) = 2
    BY <1>4, <1>8, <2>3
  <2>4. CASE Len(ops) = 3
    BY <1>4, <1>9, <2>4
  <2> QED
    BY <1>10, <2>1, <2>2, <2>3, <2>4
<1> QED
  BY <1>11, Zenon DEF a, b, d

\* Whatever recv_raw0 does with a packet, the buffer is empty afterwards.
LEMMA Consumed ==
    ASSUME NEW c, NEW p
    PROVE  S!Accesses(0, S!Ops(c, p)) = 0
<1>1. PICK ops : ops = S!Ops(c, p)
  OBVIOUS
<1>2. \/ ops = << >>
      \/ ops = <<"pre", "discard">> \/ ops = <<"pre", "recv">>
      \/ ops = <<"pre", "peek", "discard">> \/ ops = <<"pre", "peek", "recv">>
  <2>1. \/ S!ClientOps(c, p) = << >> \/ S!ClientOps(c, p) = <<"pre", "discard">>
        \/ S!ClientOps(c, p) = <<"pre", "recv">>
    BY Zenon DEF S!ClientOps
  <2>2. \/ S!ServerOps(c, p) = << >> \/ S!ServerOps(c, p) = <<"pre", "peek", "discard">>
        \/ S!ServerOps(c, p) = <<"pre", "peek", "recv">>
    BY DEF S!ServerOps
  <2>3. ops = S!ClientOps(c, p) \/ ops = S!ServerOps(c, p)
    BY <1>1 DEF S!Ops
  <2> HIDE DEF S!ClientOps, S!ServerOps
  <2> QED
    BY <2>1, <2>2, <2>3, Zenon
<1>3. CASE ops = << >>
  <2>1. Len(ops) = 0
    BY <1>3
  <2> QED
    BY <1>1, <2>1, AccessesThree
<1>4. CASE ops = <<"pre", "discard">> \/ ops = <<"pre", "recv">>
  <2>1. Len(ops) = 2 /\ ops[1] = "pre" /\ ops[2] \in {"discard", "recv"}
    BY <1>4
  <2>2. S!Accesses(0, ops) = S!Access(S!Access(0, ops[1]), ops[2])
    BY <2>1, AccessesThree
  <2> QED
    BY <1>1, <2>1, <2>2, AccessIs
<1>5. CASE ops = <<"pre", "peek", "discard">> \/ ops = <<"pre", "peek", "recv">>
  <2>1. Len(ops) = 3 /\ ops[1] = "pre" /\ ops[2] = "peek" /\ ops[3] \in {"discard", "recv"}
    BY <1>5
  <2>2. S!Accesses(0, ops) = S!Access(S!Access(S!Access(0, ops[1]), ops[2]), ops[3])
    BY <2>1, AccessesThree
  <2> QED
    BY <1>1, <2>1, <2>2, AccessIs
<1> QED
  BY <1>2, <1>3, <1>4, <1>5

RawInv ==
    part = "raw" =>
       /\ cfg \in Configs
       /\ packet = S!NoPacket \/ (packet \in Packets /\ packet.ver = cfg.ver)
       /\ cnt = 0
       /\ rst_received \in Nat
       /\ disabled <=> (max_rst_allowed >= 0 /\ rst_received > max_rst_allowed)

\* The first state satisfies the invariant of the raw socket.
LEMMA RawInitial ==
    ASSUME WireInit PROVE RawInv
<1>1. part = "raw" => S!Init
  BY DEF WireInit
<1>2. S!Init => /\ cfg \in Configs /\ packet = S!NoPacket /\ cnt = 0
                /\ rst_received = 0 /\ ~disabled
  BY DEF S!Init
<1>3. max_rst_allowed >= 0 => ~(0 > max_rst_allowed)
  BY RstAssumption
<1> QED
  BY <1>1, <1>2, <1>3 DEF RawInv

\* A packet that is read keeps it.
LEMMA PacketStep ==
    ASSUME RawInv, part = "raw", NEW p, p \in Packets, p.ver = cfg.ver, S!Packet(p), part' = part
    PROVE  RawInv'
<1>1. /\ cfg' = cfg /\ packet' = p /\ cfg \in Configs /\ cnt = 0
  BY DEF S!Packet, RawInv
<1>2. cnt' = 0
  <2>1. cnt' = cnt \/ cnt' = S!Accesses(cnt, S!Ops(cfg, p))
    BY DEF S!Packet
  <2> QED
    BY <1>1, <2>1, Consumed
<1>3. \/ rst_received' = rst_received /\ disabled' = disabled
      \/ /\ rst_received' = rst_received + 1
         /\ disabled' = (disabled \/ (/\ max_rst_allowed >= 0
                                      /\ rst_received + 1 = max_rst_allowed + 1))
  BY DEF S!Packet
<1>4. /\ rst_received' \in Nat
      /\ disabled' <=> (max_rst_allowed >= 0 /\ rst_received' > max_rst_allowed)
  <2>1. /\ rst_received \in Nat /\ max_rst_allowed \in Int
        /\ disabled <=> (max_rst_allowed >= 0 /\ rst_received > max_rst_allowed)
    BY RstAssumption DEF RawInv
  <2>2. CASE rst_received' = rst_received /\ disabled' = disabled
    BY <2>1, <2>2
  <2>3. CASE /\ rst_received' = rst_received + 1
             /\ disabled' = (disabled \/ (/\ max_rst_allowed >= 0
                                          /\ rst_received + 1 = max_rst_allowed + 1))
    <3>1. disabled' <=> (disabled \/ (/\ max_rst_allowed >= 0
                                      /\ rst_received + 1 = max_rst_allowed + 1))
      BY <2>3
    <3>2. max_rst_allowed >= 0 =>
             (rst_received + 1 > max_rst_allowed <=>
                 \/ rst_received > max_rst_allowed
                 \/ rst_received + 1 = max_rst_allowed + 1)
      BY <2>1
    <3> QED
      BY <2>1, <2>3, <3>1, <3>2
  <2> QED
    BY <1>3, <2>2, <2>3
<1> QED
  BY <1>1, <1>2, <1>4 DEF RawInv

\* Every step keeps it.
LEMMA RawStep ==
    ASSUME RawInv, [WireNext]_<<part, vars, codec, raw>> PROVE RawInv'
<1>1. CASE UNCHANGED <<part, vars, codec, raw>>
  BY <1>1 DEF RawInv, raw, S!NoPacket
<1>2. CASE part = "replay" /\ Next /\ UNCHANGED <<part, codec, raw>>
  BY <1>2 DEF RawInv
<1>3. CASE part = "codec" /\ P!Next /\ UNCHANGED <<part, vars, raw>>
  BY <1>3 DEF RawInv
<1>4. CASE part = "raw" /\ S!Next /\ UNCHANGED <<part, vars, codec>>
  <2>1. part = "raw" /\ part' = part /\ S!Next
    BY <1>4
  <2>2. cfg \in Configs
    BY <2>1 DEF RawInv
  <2>3. ASSUME NEW n \in RawLengths, NEW syn \in BOOLEAN, NEW ack \in BOOLEAN,
               NEW p, p = S!send_raw0(cfg, n, syn, ack)
        PROVE  p \in Packets /\ p.ver = cfg.ver
    <3>1. PICK l : l = Layer4(cfg, n, syn, ack)
      OBVIOUS
    <3> QED
      BY <2>2, <2>3, <3>1, PeerPacket
  <2>4. CASE S!FromPeer
    <3>1. PICK n \in RawLengths, syn \in BOOLEAN, ack \in BOOLEAN :
             S!Packet(S!send_raw0(cfg, n, syn, ack))
      BY <2>4 DEF S!FromPeer
    <3>2. PICK p : p = S!send_raw0(cfg, n, syn, ack)
      OBVIOUS
    <3>3. S!Packet(p)
      BY <3>1, <3>2
    <3> QED
      BY <2>1, <2>3, <3>2, <3>3, PacketStep
  <2>5. CASE S!FromOthers
    <3>1. PICK n \in RawLengths, syn \in BOOLEAN :
             \E p \in S!Others(S!send_raw0(cfg, n, syn, TRUE)) : S!Packet(p)
      BY <2>5, Zenon DEF S!FromOthers
    <3>2. PICK ack \in BOOLEAN : ack = TRUE
      OBVIOUS
    <3>3. PICK q : q = S!send_raw0(cfg, n, syn, ack)
      OBVIOUS
    <3>4. PICK p \in S!Others(q) : S!Packet(p)
      BY <3>1, <3>2, <3>3, Zenon
    <3>5. q \in Packets /\ q.ver = cfg.ver
      BY <2>3, <3>3
    <3>6. p \in Packets /\ p.ver = cfg.ver
      BY <3>4, <3>5, OtherPackets
    <3> QED
      BY <2>1, <3>4, <3>6, PacketStep
  <2>6. CASE S!Loop
    <3>1. packet' = S!NoPacket /\ UNCHANGED <<cfg, cnt, rst_received, disabled>>
      BY <2>6 DEF S!Loop
    <3> QED
      BY <2>1, <3>1 DEF RawInv, S!NoPacket
  <2>7. CASE S!Reset
    <3>1. /\ rst_received' = 0 /\ ~disabled' /\ UNCHANGED <<cfg, cnt, packet>>
      BY <2>7 DEF S!Reset
    <3>2. max_rst_allowed >= 0 => ~(0 > max_rst_allowed)
      BY RstAssumption
    <3> QED
      BY <2>1, <3>1, <3>2 DEF RawInv, S!NoPacket
  <2> QED
    BY <2>1, <2>4, <2>5, <2>6, <2>7 DEF S!Next
<1> QED
  BY <1>1, <1>2, <1>3, <1>4 DEF WireNext

\* It holds in every reachable state.
LEMMA RawAlways ==
    WireSpec => []RawInv
<1>1. WireInit => RawInv
  BY RawInitial
<1>2. RawInv /\ [WireNext]_<<part, vars, codec, raw>> => RawInv'
  BY RawStep
<1> QED
  BY <1>1, <1>2, PTL DEF WireSpec

\* The kernel's filter and the code behind it want the same packets.
THEOREM FilterExactAlways ==
    WireSpec => []FilterExact
<1>1. RawInv => FilterExact
  <2>1. SUFFICES ASSUME RawInv, part = "raw", packet # S!NoPacket PROVE S!FilterExact
    BY DEF FilterExact, S!FilterExact
  <2>2. cfg \in Configs /\ packet \in Packets /\ packet.ver = cfg.ver
    BY <2>1 DEF RawInv
  <2>3. PICK len : len = S!pre_recv_raw_packet(cfg, packet)
    OBVIOUS
  <2>4. /\ S!Passes(cfg.mode, cfg.ver, 4096, packet) =>
              /\ packet.proto = S!Proto(cfg.mode, cfg.ver)
                 \/ (cfg.mode = "icmp" /\ packet.proto = 44 /\ packet.next = 58)
              /\ cfg.mode # "icmp" => packet.dport = 4096
              /\ cfg.mode # "icmp" /\ cfg.ver = 4 => packet.frag = 0
        /\ len # -1 /\ packet.frag = 0 /\ S!recv_raw0(cfg, packet, len) \notin {-1, -2} =>
              S!Passes(cfg.mode, cfg.ver, 4096, packet)
    BY <2>2, <2>3, FilterExactFor
  <2> QED
    BY <2>3, <2>4 DEF S!FilterExact, S!my_port, S!fail, S!unset, S!FRAGMENT, S!ICMPV6
<1> QED
  BY <1>1, RawAlways, PTL

\* What the peer sent is received as it was sent, and complete.
THEOREM RoundTripAlways ==
    WireSpec => []RoundTrip
<1>1. RawInv => RoundTrip
  <2>1. SUFFICES ASSUME RawInv, part = "raw", packet # S!NoPacket PROVE S!RoundTrip
    BY DEF RoundTrip, S!RoundTrip
  <2>2. cfg \in Configs /\ packet \in Packets /\ packet.ver = cfg.ver
    BY <2>1 DEF RawInv
  <2>3. PICK len : len = S!pre_recv_raw_packet(cfg, packet)
    OBVIOUS
  <2>4. PICK g : g = S!recv_raw0(cfg, packet, len)
    OBVIOUS
  <2>5. ASSUME NEW n \in RawLengths, NEW syn \in BOOLEAN,
               packet = S!send_raw0(cfg, n, syn, TRUE), packet.len <= 1800 \/ cfg.fix_gro
        PROVE  len = packet.len /\ S!peek_raw(cfg, packet, len) /\ g = n
    <3>1. PICK ack \in BOOLEAN : ack = TRUE
      OBVIOUS
    <3>2. packet = S!send_raw0(cfg, n, syn, ack)
      BY <2>5, <3>1, Zenon
    <3>3. packet.len <= 1800 \/ cfg.fix_gro
      BY <2>5, Zenon
    <3>4. PICK p : p = packet
      OBVIOUS
    <3>5. len = p.len /\ S!peek_raw(cfg, p, len) /\ S!recv_raw0(cfg, p, len) = n
      <4>1. p = S!send_raw0(cfg, n, syn, ack) /\ (p.len <= 1800 \/ cfg.fix_gro)
            /\ len = S!pre_recv_raw_packet(cfg, p)
        BY <2>3, <3>2, <3>3, <3>4, Zenon
      <4> QED
        BY <2>2, <4>1, Arrives
    <3> QED
      BY <2>4, <3>4, <3>5
  <2>6. ASSUME len # -1, g # -1, g # -2
        PROVE  /\ g >= 0 /\ S!PayloadAt(packet) + S!HeaderLen(packet) + g <= packet.len
               /\ cfg.ver = 4 => packet.ipsum
               /\ cfg.mode # "faketcp" => packet.l4sum
               /\ cfg.bind_addr_used => packet.dst = "me"
    <3>1. len \in Int /\ len <= packet.len
      BY <2>2, <2>3, PreRecv
    <3>2. /\ g \in Int /\ g >= 0
          /\ S!PayloadAt(packet) + S!HeaderLen(packet) + g = packet.tot /\ packet.tot <= len
          /\ cfg.ver = 4 => packet.ipsum
          /\ cfg.mode # "faketcp" => packet.l4sum
          /\ cfg.bind_addr_used => packet.dst = "me"
      BY <2>2, <2>4, <2>6, <3>1, Received
    <3>3. packet.tot \in Int /\ packet.len \in Int
      BY <2>2, PacketFields
    <3>4. packet.tot <= packet.len
      BY <3>1, <3>2, <3>3
    <3> QED
      BY <3>2, <3>4
  <2>7. \A n \in RawLengths, syn \in BOOLEAN :
           packet = S!send_raw0(cfg, n, syn, TRUE) /\ (packet.len <= 1800 \/ cfg.fix_gro) =>
              len = packet.len /\ S!peek_raw(cfg, packet, len) /\ g = n
    BY <2>5, Zenon
  <2>8. g \notin {S!fail, S!unset} => g # -1 /\ g # -2
    BY DEF S!fail, S!unset
  <2> QED
    BY <2>3, <2>4, <2>6, <2>7, <2>8, Zenon DEF S!RoundTrip, S!me
<1> QED
  BY <1>1, RawAlways, PTL

\* A packet that was read is consumed once; RSTs are counted.
THEOREM BufferOnceAlways ==
    WireSpec => []BufferOnce
<1>1. RawInv => BufferOnce
  BY DEF RawInv, BufferOnce, S!BufferOnce
<1> QED
  BY <1>1, RawAlways, PTL

-----------------------------------------------------------------------------
(* The layers around a payload. *)

Options ==
    /\ auth_mode \in {"none", "crc32", "simple", "md5", "hmac_sha1"}
    /\ cipher_mode \in {"none", "xor", "aes128cbc", "aes128cfb"}
    /\ g_fix_gro \in BOOLEAN /\ sender \in {"client", "server"}

Payloads == [id : Nat \ {0}, type : {"b", "h", "d"}, len : Nat]
Layers == {"auth", "cipher"} \X {P!key("encrypt")} \X Nat
Buffers == [payload : Payloads, len : Nat, layers : Seq(Layers)]

\* The authentication takes at most 20 bytes.
LEMMA AuthLenIs ==
    ASSUME Options PROVE P!AuthLen[auth_mode] \in 0 .. 20
<1>1. auth_mode = "none" => P!AuthLen[auth_mode] = 0
  BY DEF P!AuthLen
<1>2. auth_mode = "crc32" => P!AuthLen[auth_mode] = 4
  BY DEF P!AuthLen
<1>3. auth_mode = "simple" => P!AuthLen[auth_mode] = 8
  BY DEF P!AuthLen
<1>4. auth_mode = "md5" => P!AuthLen[auth_mode] = 16
  BY DEF P!AuthLen
<1>5. auth_mode = "hmac_sha1" => P!AuthLen[auth_mode] = 20
  BY DEF P!AuthLen
<1> QED
  BY <1>1, <1>2, <1>3, <1>4, <1>5 DEF Options

\* Both sides use the same key for the same direction.
LEMMA KeysAgree ==
    ASSUME Options PROVE P!key("encrypt") = P!key("decrypt")
<1>1. "encrypt" # "decrypt" /\ "client" # "server" /\ sender \in {"client", "server"}
  BY DEF Options
<1>2. CASE sender = "client"
  BY <1>1, <1>2 DEF P!key, P!Side
<1>3. CASE sender = "server"
  BY <1>1, <1>3 DEF P!key, P!Side
<1> QED
  BY <1>1, <1>2, <1>3

Grown(b, c, k) == c.payload = b.payload /\ c.len = b.len + k
TopIs(c, k) == P!Last(c.layers)[3] = k

\* A layer that was put on can be taken off.
LEMMA LayerOff ==
    ASSUME Options, NEW b \in Buffers, NEW kind \in {"auth", "cipher"}, NEW k \in Nat,
           NEW c, c = P!AddLayer(b, kind, k)
    PROVE  /\ c \in Buffers /\ Grown(b, c, k) /\ TopIs(c, k)
           /\ P!Removable(c, kind) /\ P!RemoveLayer(c) = b
<1>1. PICK x : x = <<kind, P!key("encrypt"), k>>
  OBVIOUS
<1>2. x \in Layers /\ x[1] = kind /\ x[2] = P!key("encrypt") /\ x[3] = k
  BY <1>1 DEF Layers
<1>3. /\ b.payload \in Payloads /\ b.len \in Nat /\ b.layers \in Seq(Layers)
      /\ b = [payload |-> b.payload, len |-> b.len, layers |-> b.layers]
  BY DEF Buffers
<1>4. c = [payload |-> b.payload, len |-> b.len + k, layers |-> Append(b.layers, x)]
  BY <1>1, <1>3 DEF P!AddLayer
<1>5. PICK s : s = Append(b.layers, x)
  OBVIOUS
<1>6. /\ s \in Seq(Layers) /\ Len(s) = Len(b.layers) + 1 /\ s[Len(s)] = x /\ s # << >>
      /\ P!Front(s) = b.layers
  <2>1. /\ s \in Seq(Layers) /\ Len(s) = Len(b.layers) + 1 /\ s[Len(b.layers) + 1] = x
    BY <1>2, <1>3, <1>5, AppendProperties
  <2>2. Len(b.layers) \in Nat
    BY <1>3
  <2>3. s # << >>
    BY <2>1, <2>2
  <2>4. SubSeq(s, 1, Len(s) - 1) = b.layers
    BY <1>2, <1>3, <1>5, <2>1, <2>2
  <2> QED
    BY <2>1, <2>3, <2>4 DEF P!Front
<1>7. c.payload = b.payload /\ c.len = b.len + k /\ c.layers = s
  BY <1>4, <1>5
<1>8. c \in Buffers
  BY <1>3, <1>4, <1>5, <1>6 DEF Buffers
<1>9. P!Last(c.layers) = x
  BY <1>6, <1>7 DEF P!Last
<1>10. P!Removable(c, kind)
  BY <1>2, <1>6, <1>7, <1>9, KeysAgree DEF P!Removable
<1>11. P!RemoveLayer(c) = b
  <2>1. P!RemoveLayer(c) = [c EXCEPT !.len = c.len - k, !.layers = b.layers]
    BY <1>2, <1>6, <1>7, <1>9, Zenon DEF P!RemoveLayer
  <2>2. c.len - k = b.len
    BY <1>3, <1>7
  <2>3. c \in [payload : Payloads, len : Nat, layers : Seq(Layers)]
    BY <1>8 DEF Buffers
  <2>4. PICK d : d = [c EXCEPT !.len = b.len]
    OBVIOUS
  <2>5. /\ d \in [payload : Payloads, len : Nat, layers : Seq(Layers)]
        /\ d.payload = b.payload /\ d.len = b.len
    BY <1>3, <1>7, <2>3, <2>4
  <2>6. PICK e : e = [d EXCEPT !.layers = b.layers]
    OBVIOUS
  <2>7. /\ e \in [payload : Payloads, len : Nat, layers : Seq(Layers)]
        /\ e.payload = b.payload /\ e.len = b.len /\ e.layers = b.layers
    BY <1>3, <2>5, <2>6
  <2>8. e = [payload |-> b.payload, len |-> b.len, layers |-> b.layers]
    BY <2>7
  <2>9. P!RemoveLayer(c) = e
    BY <2>1, <2>2, <2>4, <2>6
  <2> QED
    BY <1>3, <2>8, <2>9
<1>12. Grown(b, c, k) /\ TopIs(c, k)
  BY <1>2, <1>7, <1>9 DEF Grown, TopIs
<1> QED
  BY <1>8, <1>10, <1>11, <1>12

\* A buffer is not the failure.
LEMMA NotFailed ==
    ASSUME NEW b \in Buffers PROVE ~P!Failed(b)
  BY DEF Buffers, P!Failed, P!NoBuffer

\* Padding fills up the last block, and it can be told how much it added.
LEMMA PaddingIs ==
    ASSUME NEW len \in Nat
    PROVE  P!padding(len) \in 1 .. 16 /\ (len + P!padding(len)) % 16 = 0
<1>1. PICK q \in Nat, r \in 0 .. 15 : q = (len + 1) \div 16 /\ r = (len + 1) % 16
                                     /\ len + 1 = 16 * q + r
  OBVIOUS
<1>2. CASE r = 0
  <2>1. P!padding(len) = 1
    BY <1>1, <1>2 DEF P!padding
  <2> QED
    BY <1>1, <1>2, <2>1
<1>3. CASE r # 0
  <2>1. P!padding(len) = 17 - r
    BY <1>1, <1>3 DEF P!padding
  <2>2. len + (17 - r) = 16 * (q + 1)
    BY <1>1
  <2>3. (16 * (q + 1)) % 16 = 0
    OBVIOUS
  <2> QED
    BY <1>1, <1>3, <2>1, <2>2, <2>3
<1> QED
  BY <1>2, <1>3

\* auth_verify takes off what auth_cal put on.
LEMMA AuthOff ==
    ASSUME Options, NEW b \in Buffers, NEW c, c = P!auth_cal(b)
    PROVE  /\ c \in Buffers /\ c.payload = b.payload
           /\ c.len = b.len + P!AuthLen[auth_mode] /\ P!auth_verify(c) = b
<1>1. PICK k \in Nat : k = P!AuthLen[auth_mode]
  BY AuthLenIs
<1>2. c = P!AddLayer(b, "auth", k)
  BY <1>1 DEF P!auth_cal
<1>3. /\ c \in Buffers /\ c.payload = b.payload /\ c.len = b.len + k
      /\ P!Removable(c, "auth") /\ P!RemoveLayer(c) = b
  <2>1. PICK kind \in {"auth", "cipher"} : kind = "auth"
    OBVIOUS
  <2>2. c = P!AddLayer(b, kind, k) /\ k \in Nat
    BY <1>2, <2>1
  <2>3. /\ c \in Buffers /\ Grown(b, c, k) /\ TopIs(c, k)
        /\ P!Removable(c, kind) /\ P!RemoveLayer(c) = b
    BY <2>2, LayerOff
  <2> QED
    BY <2>1, <2>3 DEF Grown
<1>4. ~P!Failed(c) /\ ~(c.len < k)
  <2>1. b.len \in Nat
    BY DEF Buffers
  <2> QED
    BY <1>3, <2>1, NotFailed
<1> QED
  BY <1>1, <1>3, <1>4 DEF P!auth_verify

\* cipher_decrypt takes off what cipher_encrypt put on.
LEMMA CipherOff ==
    ASSUME Options, NEW b \in Buffers, b.len >= 16, NEW c, c = P!cipher_encrypt(b)
    PROVE  /\ c \in Buffers /\ c.payload = b.payload
           /\ c.len >= b.len /\ c.len <= b.len + 16 /\ P!cipher_decrypt(c) = b
<1>1. PICK n \in Nat : n = b.len
  BY DEF Buffers
<1>2. P!padding(n) \in 1 .. 16 /\ (n + P!padding(n)) % 16 = 0
  BY PaddingIs
<1>3. PICK k \in 0 .. 16 : /\ k = (IF cipher_mode = "aes128cbc" THEN P!padding(b.len) ELSE 0)
                           /\ cipher_mode = "aes128cbc" => k \in 1 .. 16 /\ (n + k) % 16 = 0
  BY <1>1, <1>2
<1>4. c = P!AddLayer(b, "cipher", k)
  BY <1>3 DEF P!cipher_encrypt
<1>5. /\ c \in Buffers /\ c.payload = b.payload /\ c.len = n + k
      /\ P!Removable(c, "cipher") /\ P!Last(c.layers)[3] = k /\ P!RemoveLayer(c) = b
  <2>1. PICK kind \in {"auth", "cipher"} : kind = "cipher"
    OBVIOUS
  <2>2. c = P!AddLayer(b, kind, k) /\ k \in Nat
    BY <1>4, <2>1
  <2>3. /\ c \in Buffers /\ Grown(b, c, k) /\ TopIs(c, k)
        /\ P!Removable(c, kind) /\ P!RemoveLayer(c) = b
    BY <2>2, LayerOff
  <2> QED
    BY <2>1, <2>3, <1>1 DEF Grown, TopIs
<1>6. ~P!Failed(c) /\ ~(c.len < 16) /\ c.len >= b.len /\ c.len <= b.len + 16
  BY <1>1, <1>5, NotFailed
<1>7. cipher_mode = "aes128cbc" => c.len % 16 = 0 /\ P!Last(c.layers)[3] \in 1 .. 16
  BY <1>3, <1>5
<1> QED
  BY <1>5, <1>6, <1>7 DEF P!cipher_decrypt

-----------------------------------------------------------------------------
(* What my_encrypt puts on, my_decrypt takes off. *)

\* my_encrypt refuses what is too long, and adds the layers to everything else.
LEMMA Coded ==
    ASSUME Options, NEW p \in Payloads, NEW n \in {17, 18}, NEW b, b = P!Around(p, n),
           NEW f, f = P!my_encrypt(b)
    PROVE  /\ b \in Buffers /\ b.payload = p /\ b.len = p.len + n
           /\ p.len + n > 1800 => f = P!NoBuffer
           /\ p.len + n <= 1800 =>
                 /\ f \in Buffers /\ f.payload = p /\ f.len >= p.len + n
                 /\ f.len <= p.len + n + P!AuthLen[auth_mode] + 16
                 /\ f.len > 1800 => P!my_decrypt(f) = P!NoBuffer
                 /\ f.len <= 1800 => P!my_decrypt(f) = b
<1>1. p.len \in Nat
  BY DEF Payloads
<1>2. b \in Buffers /\ b.payload = p /\ b.len = p.len + n
  <2>1. b = [payload |-> p, len |-> p.len + n, layers |-> << >>]
    BY DEF P!Around
  <2>2. << >> \in Seq(Layers) /\ p.len + n \in Nat
    BY <1>1
  <2> QED
    BY <2>1, <2>2 DEF Buffers
<1>3. p.len + n > 1800 => f = P!NoBuffer
  BY <1>2 DEF P!my_encrypt, P!max_data_len
<1>4. PICK a \in 0 .. 20 : a = P!AuthLen[auth_mode]
  BY AuthLenIs
<1>5. ASSUME p.len + n <= 1800
      PROVE  /\ f \in Buffers /\ f.payload = p /\ f.len >= p.len + n
             /\ f.len <= p.len + n + a + 16
             /\ f.len > 1800 => P!my_decrypt(f) = P!NoBuffer
             /\ f.len <= 1800 => P!my_decrypt(f) = b
  <2>1. ~(b.len > 1800) /\ b.len >= 16
    BY <1>1, <1>2, <1>5
  <2>2. CASE P!is_hmac_used
    <3>1. PICK c : c = P!cipher_encrypt(b)
      OBVIOUS
    <3>2. /\ c \in Buffers /\ c.payload = b.payload
          /\ c.len >= b.len /\ c.len <= b.len + 16 /\ P!cipher_decrypt(c) = b
      BY <1>2, <2>1, <3>1, CipherOff
    <3>3. f = P!auth_cal(c)
      BY <2>1, <2>2, <3>1 DEF P!my_encrypt, P!max_data_len
    <3>4. /\ f \in Buffers /\ f.payload = c.payload
          /\ f.len = c.len + a /\ P!auth_verify(f) = c
      BY <1>4, <3>2, <3>3, AuthOff
    <3>5. P!my_decrypt(f) = IF f.len > 1800 THEN P!NoBuffer ELSE b
      BY <2>2, <3>2, <3>4 DEF P!my_decrypt, P!max_data_len
    <3>6. c.len \in Nat /\ f.len \in Nat
      BY <3>2, <3>4 DEF Buffers
    <3> QED
      BY <1>1, <1>2, <3>2, <3>4, <3>5, <3>6
  <2>3. CASE ~P!is_hmac_used
    <3>1. PICK c : c = P!auth_cal(b)
      OBVIOUS
    <3>2. /\ c \in Buffers /\ c.payload = b.payload
          /\ c.len = b.len + a /\ P!auth_verify(c) = b
      BY <1>2, <1>4, <3>1, AuthOff
    <3>3. f = P!cipher_encrypt(c)
      BY <2>1, <2>3, <3>1 DEF P!my_encrypt, P!max_data_len
    <3>4. c.len \in Nat /\ c.len >= 16
      BY <1>1, <1>2, <2>1, <3>2
    <3>5. /\ f \in Buffers /\ f.payload = c.payload
          /\ f.len >= c.len /\ f.len <= c.len + 16 /\ P!cipher_decrypt(f) = c
      BY <3>2, <3>3, <3>4, CipherOff
    <3>6. P!my_decrypt(f) = IF f.len > 1800 THEN P!NoBuffer ELSE b
      BY <2>3, <3>2, <3>5 DEF P!my_decrypt, P!max_data_len
    <3>7. f.len \in Nat
      BY <3>5 DEF Buffers
    <3> QED
      BY <1>1, <1>2, <3>2, <3>4, <3>5, <3>6, <3>7
  <2> QED
    BY <2>2, <2>3
<1> QED
  BY <1>2, <1>3, <1>4, <1>5

-----------------------------------------------------------------------------
(* A frame is what send_safer or send_bare made of its payload. *)

FrameOf(p) == IF p.type = "b" THEN P!send_bare(p) ELSE P!Frame(p)
IsFrame(f) == f \in Buffers /\ f = FrameOf(f.payload)

\* Writing back the length a payload has changes nothing.
LEMMA PutLength ==
    ASSUME NEW p \in Payloads, NEW n \in Int, n = p.len PROVE [p EXCEPT !.len = n] = p
  BY DEF Payloads

\* Nor does writing back its type and length.
LEMMA PutBoth ==
    ASSUME NEW p \in Payloads, NEW n \in Int, n = p.len, NEW t, t = p.type
    PROVE  [p EXCEPT !.type = t, !.len = n] = p
  BY DEF Payloads

\* What is sent is as long as its payload and what is around it.
LEMMA Framed ==
    ASSUME Options, NEW p \in Payloads, NEW f, f = FrameOf(p),
           NEW n, n = IF p.type = "b" THEN 17 ELSE 18
    PROVE  /\ p.len + n > 1800 => f = P!NoBuffer
           /\ p.len + n <= 1800 =>
                 /\ IsFrame(f) /\ f.payload = p /\ f.len >= p.len + n
                 /\ f.len <= p.len + n + P!AuthLen[auth_mode] + 16
<1>1. PICK b : b = P!Around(p, n)
  OBVIOUS
<1>2. f = P!my_encrypt(b)
  BY <1>1 DEF FrameOf, P!Frame, P!send_bare, P!HeaderLen, P!BareLen
<1>3. n \in {17, 18}
  OBVIOUS
<1>4. /\ p.len + n > 1800 => f = P!NoBuffer
      /\ p.len + n <= 1800 =>
                 /\ f \in Buffers /\ f.payload = p /\ f.len >= p.len + n
                 /\ f.len <= p.len + n + P!AuthLen[auth_mode] + 16
  BY <1>1, <1>2, <1>3, Coded
<1> QED
  BY <1>4 DEF IsFrame

\* The length of a frame.
LEMMA FrameIs ==
    ASSUME Options, NEW f, IsFrame(f), NEW p, p = f.payload,
           NEW n, n = IF p.type = "b" THEN 17 ELSE 18
    PROVE  /\ p \in Payloads /\ p.len + n <= 1800 /\ f.len >= p.len + n
           /\ f.len <= p.len + n + P!AuthLen[auth_mode] + 16
<1>1. p \in Payloads /\ f = FrameOf(p)
  BY DEF IsFrame, Buffers
<1>2. f # P!NoBuffer
  BY NotFailed DEF IsFrame, P!Failed
<1>3. p.len \in Nat /\ n \in Nat
  BY <1>1 DEF Payloads
<1>4. p.len + n <= 1800
  BY <1>1, <1>2, <1>3, Framed
<1> QED
  BY <1>1, <1>4, Framed

\* It is read as its payload and as what it is.
LEMMA Parsed ==
    ASSUME Options, NEW f, IsFrame(f), NEW p, p = f.payload
    PROVE  /\ P!IsData(f) /\ f.len <= 1800 => P!Parse(f) = << p >>
           /\ ~(P!IsData(f) /\ f.len <= 1800) => P!Parse(f) = << >>
           /\ ~P!IsData(f) /\ f.len <= 1800 => P!reserved_parse_bare(f) = << p >>
           /\ ~(~P!IsData(f) /\ f.len <= 1800) => P!reserved_parse_bare(f) = << >>
<1>1. p \in Payloads /\ f = FrameOf(p) /\ f.len \in Nat
  BY DEF IsFrame, Buffers
<1>2. PICK n \in {17, 18} : n = IF p.type = "b" THEN 17 ELSE 18
  OBVIOUS
<1>3. PICK b : b = P!Around(p, n)
  OBVIOUS
<1>4. f = P!my_encrypt(b)
  BY <1>1, <1>2, <1>3 DEF FrameOf, P!Frame, P!send_bare, P!HeaderLen, P!BareLen
<1>5. p.len + n <= 1800
  BY <1>2, FrameIs
<1>6. PICK d : d = P!my_decrypt(f)
  OBVIOUS
<1>7. /\ b \in Buffers /\ b.payload = p /\ b.len = p.len + n
      /\ f.len > 1800 => d = P!NoBuffer
      /\ f.len <= 1800 => d = b
  BY <1>1, <1>3, <1>4, <1>5, <1>6, Coded
<1>8. P!IsData(f) <=> p.type # "b"
  BY DEF P!IsData
<1>9. p.type \in {"b", "h", "d"} /\ p.len \in Nat
  BY <1>1 DEF Payloads
<1>10. CASE f.len > 1800
  <2>1. P!Failed(d)
    BY <1>7, <1>10 DEF P!Failed
  <2>2. P!Parse(f) = << >> /\ P!reserved_parse_bare(f) = << >>
    BY <1>6, <2>1 DEF P!Parse, P!reserved_parse_bare
  <2> QED
    BY <1>1, <1>10, <2>2
<1>11. CASE f.len <= 1800
  <2>1. d = b /\ ~P!Failed(d) /\ d.payload = p /\ d.len = p.len + n
    BY <1>7, <1>11, NotFailed
  <2>2. CASE p.type = "b"
    <3>1. n = 17 /\ ~(d.len < 17) /\ d.len - 17 = p.len
      BY <1>2, <1>9, <2>1, <2>2
    <3>2. P!Parse(f) = << >>
      BY <1>6, <2>1, <2>2 DEF P!Parse
    <3>3. [p EXCEPT !.type = "b", !.len = d.len - 17] = p
      <4>1. PICK l \in Int, t \in {"b", "h", "d"} : l = p.len /\ t = p.type
        BY <1>9
      <4>2. [p EXCEPT !.type = t, !.len = l] = p
        BY <1>1, <4>1, PutBoth
      <4>3. d.len - 17 = l /\ t = "b"
        BY <2>2, <3>1, <4>1
      <4> QED
        BY <4>2, <4>3
    <3>4. P!reserved_parse_bare(f) = << p >>
      BY <1>6, <2>1, <2>2, <3>1, <3>3 DEF P!reserved_parse_bare, P!BareLen
    <3> QED
      BY <1>8, <1>11, <2>2, <3>2, <3>4
  <2>3. CASE p.type # "b"
    <3>1. n = 18 /\ ~(d.len < 18) /\ d.len - 18 = p.len
      BY <1>2, <1>9, <2>1, <2>3
    <3>2. P!reserved_parse_bare(f) = << >>
      BY <1>6, <2>1, <2>3 DEF P!reserved_parse_bare
    <3>3. [p EXCEPT !.len = d.len - 18] = p
      BY <1>1, <1>9, <3>1, PutLength
    <3>4. P!Parse(f) = << p >>
      BY <1>6, <1>9, <2>1, <2>3, <3>1, <3>3 DEF P!Parse, P!HeaderLen
    <3> QED
      BY <1>8, <1>11, <2>3, <3>2, <3>4
  <2> QED
    BY <2>2, <2>3
<1> QED
  BY <1>1, <1>10, <1>11

-----------------------------------------------------------------------------
(* What FlattenSeq and From compute for merged packets. *)

\* A set of positions has a longest prefix without any of them.
LEMMA Prefix ==
    ASSUME NEW n \in Nat, NEW B \in SUBSET (1 .. n)
    PROVE  \E m \in 0 .. n :
              /\ \A i \in 1 .. n : (\A j \in 1 .. i : j \notin B) <=> i <= m
              /\ m < n => m + 1 \in B
<1>1. CASE B = {}
  <2>1. \A i \in 1 .. n : (\A j \in 1 .. i : j \notin B) <=> i <= n
    BY <1>1
  <2> QED
    BY <2>1
<1>2. CASE B # {}
  <2>1. B \in SUBSET Nat
    OBVIOUS
  <2>2. PICK b \in B : \A y \in B : b <= y
    BY <1>2, <2>1, NatMin
  <2>3. b \in 1 .. n /\ b - 1 \in 0 .. n /\ (b - 1) + 1 = b
    OBVIOUS
  <2>4. ASSUME NEW i \in 1 .. n PROVE (\A j \in 1 .. i : j \notin B) <=> i <= b - 1
    <3>1. CASE i <= b - 1
      <4>1. ASSUME NEW j \in 1 .. i PROVE j \notin B
        <5>1. ~(b <= j)
          BY <2>3, <3>1
        <5> QED
          BY <2>2, <5>1
      <4> QED
        BY <3>1, <4>1
    <3>2. CASE ~(i <= b - 1)
      <4>1. b \in 1 .. i
        BY <2>3, <3>2
      <4> QED
        BY <3>2, <4>1
    <3> QED
      BY <3>1, <3>2
  <2> QED
    BY <2>3, <2>4
<1> QED
  BY <1>1, <1>2

\* The first m of v, one by one, and nothing after them.
LEMMA Flattened ==
    ASSUME NEW T, NEW v \in Seq(T), NEW n, n = Len(v), NEW m \in 0 .. n,
           NEW parts, parts = [i \in 1 .. n |-> IF i <= m THEN << v[i] >> ELSE << >>]
    PROVE  P!FlattenSeq(parts) = SubSeq(v, 1, m)
<1> DEFINE w == [i \in 1 .. n |-> SubSeq(v, 1, IF i <= m THEN i ELSE m)]
           is(g) == g = [i \in 1 .. n |-> IF i = 1 THEN parts[i] ELSE g[i - 1] \o parts[i]]
<1>1. n \in Nat /\ \A i \in 1 .. n : v[i] \in T
  BY ElementOfSeq, LenProperties
<1>2. parts \in Seq(Seq(T)) /\ Len(parts) = n
  <2>1. \A i \in 1 .. n : << v[i] >> \in Seq(T) /\ << >> \in Seq(T)
    BY <1>1
  <2>2. parts \in [1 .. n -> Seq(T)]
    BY <2>1
  <2> QED
    BY <1>1, <2>2
<1>3. ASSUME NEW i \in 1 .. n
      PROVE  /\ SubSeq(v, 1, IF i <= m THEN i ELSE m) \in Seq(T)
             /\ i = 1 => SubSeq(v, 1, IF i <= m THEN i ELSE m) = parts[i]
             /\ i # 1 => SubSeq(v, 1, IF i <= m THEN i ELSE m) =
                            SubSeq(v, 1, IF i - 1 <= m THEN i - 1 ELSE m) \o parts[i]
  <2>1. ASSUME NEW k \in 0 .. n PROVE SubSeq(v, 1, k) \in Seq(T)
    <3>1. \A j \in 1 .. k : v[j] \in T
      BY <1>1
    <3>2. 1 \in Int /\ k \in Int
      BY <1>1
    <3> QED
      BY <3>1, <3>2, SubSeqProperties
  <2>2. CASE i <= m
    <3>1. parts[i] = << v[i] >>
      BY <2>2
    <3>2. SubSeq(v, 1, i) = SubSeq(v, 1, i - 1) \o << v[i] >>
      <4>1. 1 \in 1 .. Len(v) /\ i \in 1 .. Len(v)
        BY <1>1
      <4> QED
        BY <4>1, SubSeqRecursiveSecond
    <3>3. SubSeq(v, 1, 0) = << >>
      BY SubSeqEmpty
    <3>4. << v[i] >> \in Seq(T)
      BY <1>1
    <3>5. i = 1 => SubSeq(v, 1, i) = parts[i]
      <4>1. << >> \o << v[i] >> = << v[i] >>
        BY <3>4, ConcatEmptySeq
      <4>2. i = 1 => i - 1 = 0
        OBVIOUS
      <4> QED
        BY <3>1, <3>2, <3>3, <4>1, <4>2
    <3>6. SubSeq(v, 1, i) \in Seq(T) /\ i - 1 <= m
      BY <1>1, <2>1, <2>2
    <3> QED
      BY <2>2, <3>1, <3>2, <3>5, <3>6
  <2>3. CASE ~(i <= m)
    <3>1. parts[i] = << >>
      BY <2>3
    <3>2. SubSeq(v, 1, m) \in Seq(T)
      BY <2>1
    <3>3. SubSeq(v, 1, m) \o << >> = SubSeq(v, 1, m)
      BY <3>2, ConcatEmptySeq
    <3>4. i = 1 => SubSeq(v, 1, m) = << >>
      BY <1>1, <2>3, SubSeqEmpty
    <3>5. (IF i - 1 <= m THEN i - 1 ELSE m) = m
      BY <1>1, <2>3
    <3> QED
      BY <2>3, <3>1, <3>2, <3>3, <3>4, <3>5
  <2> QED
    BY <2>2, <2>3
<1>4. is(w)
  <2>1. ASSUME NEW i \in 1 .. n
        PROVE  w[i] = IF i = 1 THEN parts[i] ELSE w[i - 1] \o parts[i]
    <3>1. CASE i = 1
      <4>1. w[i] = SubSeq(v, 1, IF i <= m THEN i ELSE m)
        OBVIOUS
      <4> QED
        BY <1>3, <3>1, <4>1
    <3>2. CASE i # 1
      <4>1. w[i] = SubSeq(v, 1, IF i <= m THEN i ELSE m)
        OBVIOUS
      <4>2. w[i - 1] = SubSeq(v, 1, IF i - 1 <= m THEN i - 1 ELSE m)
        BY <1>1, <3>2
      <4> HIDE DEF w
      <4> QED
        BY <1>3, <3>2, <4>1, <4>2
    <3> QED
      BY <3>1, <3>2
  <2>2. w = [i \in 1 .. n |-> w[i]]
    OBVIOUS
  <2> HIDE DEF w
  <2> QED
    BY <2>1, <2>2, Zenon
<1>5. PICK g : g = CHOOSE h : is(h)
  OBVIOUS
<1>6. is(g)
  <2> HIDE DEF w, is
  <2> QED
    BY <1>4, <1>5
<1>7. \A i \in 1 .. n : g[i] = w[i]
  <2> DEFINE Bad == {i \in 1 .. n : g[i] # w[i]}
  <2>1. SUFFICES ASSUME Bad # {} PROVE FALSE
    OBVIOUS
  <2>2. Bad \in SUBSET Nat
    BY <1>1
  <2>3. PICK i \in Bad : \A y \in Bad : i <= y
    <3> HIDE DEF Bad
    <3> QED
      BY <2>1, <2>2, NatMin
  <2>4. i \in 1 .. n /\ g[i] # w[i]
    OBVIOUS
  <2>5. g[i] = IF i = 1 THEN parts[i] ELSE g[i - 1] \o parts[i]
    BY <1>6, <2>4
  <2>6. w[i] = IF i = 1 THEN parts[i] ELSE w[i - 1] \o parts[i]
    <3> HIDE DEF w
    <3> QED
      BY <1>4, <2>4
  <2>7. i # 1 => g[i - 1] = w[i - 1]
    <3>1. i # 1 => i - 1 \in 1 .. n /\ ~(i <= i - 1)
      BY <1>1, <2>4
    <3>2. i # 1 => i - 1 \notin Bad
      <4> HIDE DEF Bad
      <4> QED
        BY <2>3, <3>1
    <3> HIDE DEF w
    <3> QED
      BY <3>1, <3>2
  <2> HIDE DEF w
  <2> QED
    BY <2>4, <2>5, <2>6, <2>7
<1>8. CASE n = 0
  <2>1. parts = << >>
    BY <1>2, <1>8
  <2>2. P!FlattenSeq(parts) = << >>
    BY <1>2, <1>8, <2>1 DEF P!FlattenSeq
  <2>3. SubSeq(v, 1, m) = << >>
    BY <1>8, SubSeqEmpty
  <2> QED
    BY <2>2, <2>3
<1>9. CASE n # 0
  <2>1. P!FlattenSeq(parts) = g[n]
    BY <1>2, <1>5, <1>9, Zenon DEF P!FlattenSeq
  <2>2. n \in 1 .. n
    BY <1>1, <1>9
  <2>3. w[n] = SubSeq(v, 1, IF n <= m THEN n ELSE m) /\ g[n] = w[n]
    BY <1>7, <2>2
  <2>4. (IF n <= m THEN n ELSE m) = m
    BY <1>1
  <2> HIDE DEF w
  <2> QED
    BY <2>1, <2>3, <2>4
<1> QED
  BY <1>8, <1>9

\* The rest of the bytes holds at least this packet and the next one.
LEMMA Rest ==
    ASSUME NEW fs \in Seq(Buffers), NEW i \in 1 .. Len(fs)
    PROVE  /\ P!From(fs, i) \in Nat
           /\ i = Len(fs) => P!From(fs, i) = fs[i].len + 2
           /\ i # Len(fs) => P!From(fs, i) >= fs[i].len + 2 + fs[i + 1].len + 2
<1>1. PICK n : n = Len(fs)
  OBVIOUS
<1>2. n \in Nat /\ \A j \in 1 .. n : fs[j].len \in Nat
  <2>1. \A j \in 1 .. n : fs[j] \in Buffers
    BY <1>1, ElementOfSeq
  <2> QED
    BY <1>1, <2>1 DEF Buffers
<1> DEFINE last(j) == fs[n - j + 1].len + 2
           upto(g, m) == g = [j \in 0 .. m |-> IF j = 0 THEN 0 ELSE last(j) + g[j - 1]]
           Bad == {m \in Nat : ~\E g : upto(g, m)}
<1>3. Bad = {}
  <2>1. SUFFICES ASSUME Bad # {} PROVE FALSE
    OBVIOUS
  <2>2. PICK m \in Bad : \A y \in Bad : m <= y
    BY <2>1, NatMin
  <2>3. CASE m = 0
    <3>1. upto([j \in 0 .. 0 |-> 0], 0)
      OBVIOUS
    <3> QED
      BY <2>3, <3>1
  <2>4. CASE m # 0
    <3>1. m - 1 \in Nat /\ ~(m - 1 \in Bad)
      <4>1. m \in Nat
        OBVIOUS
      <4>2. m - 1 \in Nat /\ ~(m <= m - 1)
        BY <2>4, <4>1
      <4> HIDE DEF Bad
      <4> QED
        BY <2>2, <4>2
    <3>2. PICK g : upto(g, m - 1)
      BY <3>1
    <3> DEFINE h == [j \in 0 .. m |-> IF j = m THEN last(m) + g[m - 1] ELSE g[j]]
    <3>3. \A j \in 0 .. m - 1 : g[j] = IF j = 0 THEN 0 ELSE last(j) + g[j - 1]
      BY <3>2
    <3> HIDE DEF last
    <3>4. \A j \in 0 .. m : h[j] = IF j = 0 THEN 0 ELSE last(j) + h[j - 1]
      <4>1. TAKE j \in 0 .. m
      <4>2. CASE j = m
        <5>1. h[j] = last(m) + g[m - 1] /\ h[j - 1] = g[m - 1] /\ j # 0
          BY <3>1, <2>4, <4>2
        <5> QED
          BY <5>1, <4>2
      <4>3. CASE j # m
        <5>1. j \in 0 .. m - 1 /\ h[j] = g[j]
          BY <4>3
        <5>2. j # 0 => h[j - 1] = g[j - 1]
          BY <4>3
        <5> QED
          BY <3>3, <5>1, <5>2
      <4> QED
        BY <4>2, <4>3
    <3>5. h = [j \in 0 .. m |-> h[j]]
      OBVIOUS
    <3>6. upto(h, m)
      BY <3>4, <3>5, Zenon
    <3> QED
      BY <2>2, <3>6
  <2> QED
    BY <2>3, <2>4
<1>4. \E g : upto(g, n)
  BY <1>2, <1>3
<1>5. PICK g : g = CHOOSE h : upto(h, n)
  OBVIOUS
<1>6. upto(g, n)
  BY <1>4, <1>5
<1>7. P!From(fs, i) = g[n - i + 1]
  BY <1>1, <1>5, Zenon DEF P!From
<1>8. \A j \in 0 .. n : g[j] = IF j = 0 THEN 0 ELSE last(j) + g[j - 1]
  BY <1>6
<1>9. \A j \in 1 .. n : last(j) \in Nat
  <2>1. TAKE j \in 1 .. n
  <2>2. n - j + 1 \in 1 .. n
    BY <1>2
  <2> QED
    BY <1>2, <2>2
<1> HIDE DEF last
<1>10. \A j \in 0 .. n : g[j] \in Nat
  <2> DEFINE Wrong == {j \in 0 .. n : g[j] \notin Nat}
  <2>1. SUFFICES ASSUME Wrong # {} PROVE FALSE
    OBVIOUS
  <2>2. Wrong \in SUBSET Nat
    BY <1>2
  <2>3. PICK j \in Wrong : \A y \in Wrong : j <= y
    <3> HIDE DEF Wrong
    <3> QED
      BY <2>1, <2>2, NatMin
  <2>4. j \in 0 .. n /\ g[j] \notin Nat
    OBVIOUS
  <2>5. j # 0
    BY <1>8, <2>4
  <2>6. j - 1 \in 0 .. n /\ ~(j <= j - 1)
    BY <1>2, <2>4, <2>5
  <2>7. j - 1 \notin Wrong
    <3> HIDE DEF Wrong
    <3> QED
      BY <2>3, <2>6
  <2>8. g[j - 1] \in Nat
    BY <2>6, <2>7
  <2>9. g[j] = last(j) + g[j - 1] /\ last(j) \in Nat
    BY <1>2, <1>8, <1>9, <2>4, <2>5
  <2> QED
    BY <2>4, <2>8, <2>9
<1>11. PICK k \in 1 .. n : k = n - i + 1
  <2>1. i \in 1 .. n
    BY <1>1
  <2>2. n - i + 1 \in 1 .. n
    BY <1>2, <2>1
  <2> QED
    BY <2>2
<1>12. P!From(fs, i) \in Nat
  BY <1>7, <1>10, <1>11
<1>13. P!From(fs, i) = last(k) + g[k - 1] /\ last(k) = fs[i].len + 2 /\ g[k - 1] \in Nat
  <2>1. g[k] = last(k) + g[k - 1]
    BY <1>2, <1>8, <1>11
  <2>2. n - k + 1 = i
    BY <1>1, <1>2, <1>11
  <2>3. k - 1 \in 0 .. n
    BY <1>2, <1>11
  <2> QED
    BY <1>7, <1>10, <1>11, <2>1, <2>2, <2>3 DEF last
<1>14. ASSUME i = n PROVE P!From(fs, i) = fs[i].len + 2
  <2>1. k - 1 = 0
    BY <1>2, <1>11, <1>14
  <2>2. g[0] = 0
    BY <1>2, <1>8
  <2>3. fs[i].len \in Nat
    BY <1>1, <1>2
  <2> QED
    BY <1>13, <2>1, <2>2, <2>3
<1>15. ASSUME i # n PROVE P!From(fs, i) >= fs[i].len + 2 + fs[i + 1].len + 2
  <2>1. k - 1 \in 1 .. n /\ (k - 1) - 1 \in 0 .. n /\ n - (k - 1) + 1 = i + 1 /\ k - 1 # 0
    BY <1>1, <1>2, <1>11, <1>15
  <2>2. k - 1 \in 0 .. n
    BY <2>1
  <2>3. g[k - 1] = last(k - 1) + g[(k - 1) - 1]
    BY <1>8, <2>1, <2>2
  <2>4. last(k - 1) = fs[i + 1].len + 2
    BY <2>1 DEF last
  <2>5. fs[i].len \in Nat /\ fs[i + 1].len \in Nat /\ g[(k - 1) - 1] \in Nat
    <3>1. i + 1 \in 1 .. n
      BY <1>1, <1>2, <1>15
    <3> QED
      BY <1>1, <1>2, <1>10, <2>1, <3>1
  <2>6. PICK a \in Nat, b \in Nat, c \in Nat :
           a = fs[i].len /\ b = fs[i + 1].len /\ c = g[(k - 1) - 1]
    BY <2>5
  <2>7. P!From(fs, i) = (a + 2) + ((b + 2) + c)
    BY <1>13, <2>3, <2>4, <2>6
  <2>8. (a + 2) + ((b + 2) + c) >= a + 2 + b + 2
    OBVIOUS
  <2> QED
    BY <2>6, <2>7, <2>8
<1> QED
  BY <1>1, <1>12, <1>14, <1>15

\* While another frame follows, the length checks of the loop succeed, cut or not.
LEMMA Left ==
    ASSUME NEW l \in Nat, NEW q \in Nat, NEW r \in Nat, NEW cut \in {0, 1},
           l >= 17, q >= 17, r >= l + 2 + q + 2
    PROVE  r - cut >= 16 /\ l <= (r - cut) - 2
  OBVIOUS

\* The loop gets past a packet unless it is too long or not complete.
LEMMA ReadableIs ==
    ASSUME NEW fs \in Seq(Buffers), NEW i \in 1 .. Len(fs), NEW cut \in {0, 1},
           \A j \in 1 .. Len(fs) : fs[j].len >= 17
    PROVE  P!Readable(fs, i, cut) <=> fs[i].len <= 1800 /\ ~(i = Len(fs) /\ cut = 1)
<1>1. PICK l \in Nat, r \in Nat : l = fs[i].len /\ r = P!From(fs, i) /\ l >= 17
  <2>1. fs[i] \in Buffers
    BY ElementOfSeq
  <2> QED
    BY <2>1, Rest DEF Buffers
<1>2. P!Readable(fs, i, cut) <=> r - cut >= 16 /\ l <= (r - cut) - 2 /\ l <= 1800
  BY <1>1 DEF P!Readable, P!max_data_len
<1>3. CASE i = Len(fs)
  <2>1. r = l + 2
    BY <1>1, <1>3, Rest
  <2> QED
    BY <1>1, <1>2, <1>3, <2>1
<1>4. CASE i # Len(fs)
  <2>1. i + 1 \in 1 .. Len(fs)
    BY <1>4
  <2>2. PICK q \in Nat : q = fs[i + 1].len /\ q >= 17
    <3>1. fs[i + 1] \in Buffers
      BY <2>1, ElementOfSeq
    <3> QED
      BY <2>1, <3>1 DEF Buffers
  <2>3. r >= l + 2 + q + 2
    BY <1>1, <1>4, <2>2, Rest
  <2>4. r - cut >= 16 /\ l <= (r - cut) - 2
    BY <1>1, <2>2, <2>3, Left
  <2> QED
    BY <1>1, <1>2, <1>4, <2>4
<1> QED
  BY <1>3, <1>4

-----------------------------------------------------------------------------
(* What a connection reads from the frames it is handed over. *)

AreFrames(fs) == fs \in Seq(Buffers) /\ \A i \in 1 .. Len(fs) : IsFrame(fs[i])
Contents(fs) == [i \in 1 .. Len(fs) |-> fs[i].payload]

\* Where the loop of recv_safer_multi stops, and where it should.
Unread(fs, cut) ==
    {i \in 1 .. Len(fs) : \/ ~P!IsData(fs[i])
                          \/ fs[i].len > 1800
                          \/ i = Len(fs) /\ cut = 1}
Missing(fs, cut) ==
    {i \in 1 .. Len(fs) : ~P!IsData(fs[i]) \/ (i = Len(fs) /\ cut = 1)}

\* The frames of a sequence and their payloads.
LEMMA FrameTypes ==
    ASSUME Options, NEW fs, AreFrames(fs)
    PROVE  /\ fs \in Seq(Buffers) /\ Len(fs) \in Nat /\ DOMAIN fs = 1 .. Len(fs)
           /\ Contents(fs) \in Seq(Payloads) /\ Len(Contents(fs)) = Len(fs)
           /\ \A i \in 1 .. Len(fs) : /\ Contents(fs)[i] = fs[i].payload
                                      /\ fs[i] \in Buffers /\ fs[i].payload \in Payloads
                                      /\ fs[i].len \in Nat /\ fs[i].len >= 17
<1>1. fs \in Seq(Buffers) /\ Len(fs) \in Nat /\ DOMAIN fs = 1 .. Len(fs)
  BY LenProperties DEF AreFrames
<1>2. ASSUME NEW i \in 1 .. Len(fs)
      PROVE  /\ fs[i] \in Buffers /\ fs[i].payload \in Payloads
             /\ fs[i].len \in Nat /\ fs[i].len >= 17
  <2>1. IsFrame(fs[i])
    BY DEF AreFrames
  <2>2. PICK f, p, n : f = fs[i] /\ p = f.payload /\ n = IF p.type = "b" THEN 17 ELSE 18
    OBVIOUS
  <2>3. p \in Payloads /\ f.len >= p.len + n
    BY <2>1, <2>2, FrameIs
  <2>4. f \in Buffers /\ f.len \in Nat /\ p.len \in Nat /\ (n = 17 \/ n = 18)
    BY <2>1, <2>2, <2>3 DEF IsFrame, Buffers, Payloads
  <2> QED
    BY <2>2, <2>3, <2>4
<1>3. Contents(fs) \in [1 .. Len(fs) -> Payloads]
  BY <1>2 DEF Contents
<1>4. Contents(fs) \in Seq(Payloads) /\ Len(Contents(fs)) = Len(fs)
  BY <1>1, <1>3
<1> QED
  BY <1>1, <1>2, <1>4 DEF Contents

\* Split reads the frames before the first one that stops the loop.
LEMMA SplitIs ==
    ASSUME Options, NEW fs, AreFrames(fs), NEW cut \in {0, 1}
    PROVE  \E m \in 0 .. Len(fs) :
              /\ P!Split(fs, cut) = SubSeq(Contents(fs), 1, m)
              /\ \A i \in 1 .. m : i \notin Unread(fs, cut)
              /\ m < Len(fs) => m + 1 \in Unread(fs, cut)
<1>1. PICK n \in Nat, v \in Seq(Payloads) : n = Len(fs) /\ v = Contents(fs) /\ Len(v) = n
  BY FrameTypes
<1>2. PICK B : B = Unread(fs, cut)
  OBVIOUS
<1>3. B \in SUBSET (1 .. n)
  BY <1>1, <1>2 DEF Unread
<1>4. PICK m \in 0 .. n : /\ \A i \in 1 .. n : (\A j \in 1 .. i : j \notin B) <=> i <= m
                          /\ m < n => m + 1 \in B
  BY <1>1, <1>3, Prefix
<1>5. ASSUME NEW j \in 1 .. n
      PROVE  j \notin B <=> P!IsData(fs[j]) /\ P!Readable(fs, j, cut)
  <2>1. P!Readable(fs, j, cut) <=> fs[j].len <= 1800 /\ ~(j = Len(fs) /\ cut = 1)
    <3>1. \A i \in 1 .. Len(fs) : fs[i].len >= 17
      BY FrameTypes
    <3>2. fs \in Seq(Buffers) /\ j \in 1 .. Len(fs)
      BY <1>1, FrameTypes
    <3> QED
      BY <3>1, <3>2, ReadableIs
  <2>2. fs[j].len \in Nat
    BY <1>1, FrameTypes
  <2> QED
    BY <1>1, <1>2, <2>1, <2>2 DEF Unread
<1> DEFINE Reached(i) == \A j \in 1 .. i : P!IsData(fs[j]) /\ P!Readable(fs, j, cut)
<1>6. ASSUME NEW i \in 1 .. n PROVE Reached(i) <=> i <= m
  <2>1. \A j \in 1 .. i : j \in 1 .. n
    BY <1>1
  <2>2. (\A j \in 1 .. i : j \notin B) <=> Reached(i)
    BY <1>5, <2>1
  <2> QED
    BY <1>4, <2>2
<1>7. ASSUME NEW i \in 1 .. n, i <= m PROVE P!Parse(fs[i]) = << v[i] >>
  <2>1. i \notin B
    <3>1. i \in 1 .. i
      OBVIOUS
    <3> QED
      BY <1>4, <1>7, <3>1
  <2>2. P!IsData(fs[i]) /\ ~(fs[i].len > 1800)
    BY <1>1, <1>2, <2>1 DEF Unread
  <2>3. IsFrame(fs[i]) /\ v[i] = fs[i].payload /\ fs[i].len \in Nat
    BY <1>1, FrameTypes DEF AreFrames
  <2> QED
    BY <2>2, <2>3, Parsed
<1> DEFINE parts == [i \in 1 .. n |-> IF i <= m THEN << v[i] >> ELSE << >>]
<1>8. [i \in 1 .. Len(fs) |-> IF Reached(i) THEN P!Parse(fs[i]) ELSE << >>] = parts
  <2> HIDE DEF Reached
  <2> QED
    BY <1>1, <1>6, <1>7
<1>9. P!Split(fs, cut) = P!FlattenSeq(parts)
  BY <1>8, Zenon DEF P!Split
<1>10. PICK s : s = parts
  OBVIOUS
<1>11. P!FlattenSeq(s) = SubSeq(v, 1, m)
  <2>1. /\ v \in Seq(Payloads) /\ n = Len(v) /\ m \in 0 .. n
        /\ s = [i \in 1 .. n |-> IF i <= m THEN << v[i] >> ELSE << >>]
    BY <1>1, <1>10
  <2> QED
    BY <2>1, Flattened, Zenon
<1>12. \A i \in 1 .. m : i \notin B
  <2>1. TAKE i \in 1 .. m
  <2>2. i \in 1 .. n /\ i \in 1 .. i /\ i <= m
    BY <1>1
  <2> QED
    BY <1>4, <2>2
<1> HIDE DEF parts
<1> QED
  BY <1>1, <1>2, <1>4, <1>9, <1>10, <1>11, <1>12

\* Complete are the frames before the first handshake or cut one.
LEMMA CompleteIs ==
    ASSUME Options, NEW fs, AreFrames(fs), fs # << >>, NEW cut \in {0, 1}, g_fix_gro
    PROVE  \E c \in 0 .. Len(fs) :
              /\ P!Complete(fs, cut) = SubSeq(fs, 1, c)
              /\ \A i \in 1 .. c : i \notin Missing(fs, cut)
              /\ c < Len(fs) => c + 1 \in Missing(fs, cut)
<1>1. PICK l \in Nat \ {0} : l = Len(fs) /\ fs \in Seq(Buffers)
  BY FrameTypes, EmptySeq
<1>2. PICK n \in Nat : n = l - cut
  <2>1. l - cut \in Nat
    BY cut = 0 \/ cut = 1
  <2> QED
    BY <2>1
<1>3. PICK w : w = IF cut = 0 THEN fs ELSE P!Front(fs)
  OBVIOUS
<1>4. \A i \in 1 .. l : fs[i] \in Buffers
  BY <1>1, FrameTypes
<1>5. /\ w \in Seq(Buffers) /\ Len(w) = n /\ n <= l
      /\ \A i \in 1 .. n : w[i] = fs[i]
      /\ \A c \in 0 .. n : SubSeq(w, 1, c) = SubSeq(fs, 1, c)
  <2>1. CASE cut = 0
    BY <1>1, <1>2, <1>3, <2>1
  <2>2. CASE cut = 1
    <3>1. w = SubSeq(fs, 1, n)
      BY <1>1, <1>2, <1>3, <2>2 DEF P!Front
    <3>2. /\ 1 \in Int /\ n \in Int /\ \A i \in 1 .. n : fs[i] \in Buffers
      BY <1>1, <1>2, <1>4, <2>2
    <3>3. /\ w \in Seq(Buffers) /\ Len(w) = n
          /\ \A i \in 1 .. n : w[i] = fs[i]
      <4>1. /\ w \in Seq(Buffers)
            /\ Len(w) = IF 1 <= n THEN n - 1 + 1 ELSE 0
            /\ \A i \in 1 .. n - 1 + 1 : w[i] = fs[1 + i - 1]
        BY <3>1, <3>2, SubSeqProperties
      <4> QED
        BY <4>1
    <3>4. ASSUME NEW c \in 0 .. n PROVE SubSeq(w, 1, c) = SubSeq(fs, 1, c)
      <4>1. CASE c = 0
        BY <4>1, SubSeqEmpty
      <4>2. CASE c # 0
        <5>1. 1 \in 1 .. Len(fs) /\ n \in 1 .. Len(fs)
              /\ 1 \in 1 .. n - 1 + 1 /\ c \in 1 .. n - 1 + 1
          BY <1>1, <1>2, <2>2, <4>2
        <5>2. SubSeq(SubSeq(fs, 1, n), 1, c) = SubSeq(fs, 1 + 1 - 1, 1 + c - 1)
          BY <1>1, <5>1, SubSeqOfSubSeq
        <5>3. 1 + 1 - 1 = 1 /\ 1 + c - 1 = c
          OBVIOUS
        <5> QED
          BY <3>1, <5>2, <5>3
      <4> QED
        BY <4>1, <4>2
    <3> QED
      BY <1>1, <1>2, <2>2, <3>3, <3>4
  <2> QED
    BY <2>1, <2>2
<1>6. PICK B : B = {i \in 1 .. n : ~P!IsData(w[i])}
  OBVIOUS
<1>7. PICK c \in 0 .. n : /\ \A i \in 1 .. n : (\A j \in 1 .. i : j \notin B) <=> i <= c
                          /\ c < n => c + 1 \in B
  <2>1. B \in SUBSET (1 .. n)
    BY <1>6
  <2> QED
    BY <2>1, Prefix
<1>8. ASSUME NEW i \in 1 .. n PROVE (\A j \in 1 .. i : P!IsData(w[j])) <=> i <= c
  <2>1. \A j \in 1 .. i : j \in 1 .. n
    OBVIOUS
  <2>2. (\A j \in 1 .. i : j \notin B) <=> \A j \in 1 .. i : P!IsData(w[j])
    BY <1>6, <2>1
  <2> QED
    BY <1>7, <2>2
<1> DEFINE parts == [i \in 1 .. n |-> IF i <= c THEN << w[i] >> ELSE << >>]
<1>9. DOMAIN w = 1 .. n
  BY <1>5, LenProperties
<1>10. [i \in DOMAIN w |-> IF \A j \in 1 .. i : P!IsData(w[j]) THEN << w[i] >> ELSE << >>] = parts
  BY <1>8, <1>9
<1>11. P!Complete(fs, cut) = P!FlattenSeq(parts)
  BY <1>3, <1>10, Zenon DEF P!Complete
<1>12. PICK s : s = parts
  OBVIOUS
<1>13. P!FlattenSeq(s) = SubSeq(w, 1, c)
  <2>1. w \in Seq(Buffers) /\ n = Len(w)
    BY <1>5
  <2>2. s = [i \in 1 .. n |-> IF i <= c THEN << w[i] >> ELSE << >>]
    BY <1>12
  <2> HIDE DEF parts
  <2> QED
    BY <2>1, <2>2, Flattened
<1>14. P!Complete(fs, cut) = SubSeq(fs, 1, c)
  <2> HIDE DEF parts
  <2> QED
    BY <1>5, <1>11, <1>12, <1>13
<1>15. ASSUME NEW i \in 1 .. c PROVE i \notin Missing(fs, cut)
  <2>1. i \in 1 .. n /\ i \in 1 .. i /\ i <= c
    OBVIOUS
  <2>2. P!IsData(fs[i])
    BY <1>5, <1>8, <2>1
  <2>3. ~(i = Len(fs) /\ cut = 1)
    BY <1>1, <1>2, <2>1
  <2> QED
    BY <2>2, <2>3 DEF Missing
<1>16. ASSUME c < l PROVE c + 1 \in Missing(fs, cut)
  <2>1. c + 1 \in 1 .. l
    BY <1>1, <1>2, <1>16
  <2>2. CASE c < n
    <3>1. c + 1 \in 1 .. n /\ ~P!IsData(fs[c + 1])
      BY <1>5, <1>6, <1>7, <2>2
    <3> QED
      BY <1>1, <2>1, <3>1 DEF Missing
  <2>3. CASE ~(c < n)
    <3>1. c + 1 = l /\ cut = 1
      BY <1>1, <1>2, <1>16, <2>3
    <3> QED
      BY <1>1, <2>1, <3>1 DEF Missing
  <2> QED
    BY <2>2, <2>3
<1>17. c \in 0 .. Len(fs)
  BY <1>1, <1>5
<1> QED
  BY <1>1, <1>14, <1>15, <1>16, <1>17

NoneLong(fs, c) == \A i \in 1 .. c : fs[i].len <= 1800

\* r is what was read of fs and done what should have been.
Read(fs, r, done) ==
    \E m \in 0 .. Len(fs), c \in 0 .. Len(fs), g \in P!Misread :
       /\ r = SubSeq(Contents(fs), 1, m) \o g
       /\ done = SubSeq(fs, 1, c)
       /\ NoneLong(fs, c) => m = c

Short(f) == f.len <= 1800

\* The form in which what was read is stated.
LEMMA ReadIs ==
    ASSUME NEW fs, NEW r, NEW done, NEW m \in 0 .. Len(fs), NEW c \in 0 .. Len(fs),
           NEW g \in P!Misread, r = SubSeq(Contents(fs), 1, m) \o g, done = SubSeq(fs, 1, c),
           NoneLong(fs, c) => m = c
    PROVE  Read(fs, r, done)
  BY DEF Read

\* What may be read of bytes that are no buffer of the sender.
LEMMA Misreads ==
    /\ << >> \in P!Misread
    /\ \A g \in P!Misread : g \in Seq({P!Garbled})
    /\ auth_mode # "none" => P!Misread = {<< >>}
<1>1. << >> \in Seq({P!Garbled}) /\ << P!Garbled >> \in Seq({P!Garbled})
  OBVIOUS
<1>2. CASE auth_mode = "none"
  <2>1. P!Misread = {<< >>, << P!Garbled >>}
    BY <1>2 DEF P!Misread
  <2> QED
    BY <1>1, <1>2, <2>1
<1>3. CASE auth_mode # "none"
  <2>1. P!Misread = {<< >>}
    BY <1>3 DEF P!Misread
  <2> QED
    BY <1>1, <1>3, <2>1
<1> QED
  BY <1>2, <1>3

\* Nothing is read of the frames but perhaps something else.
LEMMA ReadNothing ==
    ASSUME Options, NEW fs, AreFrames(fs), NEW r \in P!Misread
    PROVE  Read(fs, r, << >>)
<1>1. Len(fs) \in Nat /\ 0 \in 0 .. Len(fs)
  BY FrameTypes
<1>2. SubSeq(Contents(fs), 1, 0) = << >> /\ SubSeq(fs, 1, 0) = << >>
  BY SubSeqEmpty
<1>3. << >> \o r = r
  <2>1. r \in Seq({P!Garbled})
    BY Misreads
  <2> QED
    BY <2>1, ConcatEmptySeq
<1>4. r = SubSeq(Contents(fs), 1, 0) \o r
  BY <1>2, <1>3
<1> QED
  BY <1>1, <1>2, <1>4, ReadIs

OneRead(fs, read) == IF read THEN << fs[1].payload >> ELSE << >>
OneDone(fs, wanted) == IF wanted THEN fs ELSE << >>

\* One frame alone: read if it is wanted and not too long.
LEMMA ReadOne ==
    ASSUME Options, NEW fs, AreFrames(fs), Len(fs) = 1, NEW wanted \in BOOLEAN,
           NEW read \in BOOLEAN, read <=> wanted /\ Short(fs[1])
    PROVE  Read(fs, OneRead(fs, read), OneDone(fs, wanted))
<1>1. PICK v \in Seq(Payloads), p \in Payloads :
         v = Contents(fs) /\ Len(v) = 1 /\ v[1] = p /\ p = fs[1].payload
  <2>1. 1 \in 1 .. Len(fs)
    OBVIOUS
  <2> QED
    BY <2>1, FrameTypes
<1>2. SubSeq(v, 1, 0) = << >> /\ SubSeq(fs, 1, 0) = << >>
  BY SubSeqEmpty
<1>3. SubSeq(v, 1, 1) = << p >> /\ SubSeq(fs, 1, 1) = fs
  <2>1. v = << v[1] >>
    BY <1>1
  <2>2. SubSeq(v, 1, 1) = v
    BY <1>1, SubSeqFull
  <2>3. fs \in Seq(Buffers)
    BY FrameTypes
  <2> QED
    BY <1>1, <2>1, <2>2, <2>3, SubSeqFull
<1>4. << p >> \o << >> = << p >> /\ << >> \o << >> = << >>
  <2>1. << p >> \in Seq(Payloads) /\ << >> \in Seq(Payloads)
    OBVIOUS
  <2> QED
    BY <2>1, ConcatEmptySeq
<1>5. PICK zero \in 0 .. Len(fs), one \in 0 .. Len(fs), g \in P!Misread :
         zero = 0 /\ one = 1 /\ g = << >>
  BY Misreads
<1>6. PICK r, done : r = OneRead(fs, read) /\ done = OneDone(fs, wanted)
  OBVIOUS
<1>7. CASE wanted /\ read
  <2>1. r = SubSeq(Contents(fs), 1, one) \o g /\ done = SubSeq(fs, 1, one)
    BY <1>1, <1>3, <1>4, <1>5, <1>6, <1>7 DEF OneRead, OneDone
  <2>3. Read(fs, r, done)
    BY <2>1, ReadIs
  <2> QED
    BY <1>6, <2>3
<1>8. CASE wanted /\ ~read
  <2>1. r = SubSeq(Contents(fs), 1, zero) \o g /\ done = SubSeq(fs, 1, one)
    BY <1>1, <1>2, <1>3, <1>4, <1>5, <1>6, <1>8 DEF OneRead, OneDone
  <2>2. ~NoneLong(fs, one)
    <3>1. 1 \in 1 .. 1
      OBVIOUS
    <3> QED
      BY <1>5, <1>8, <3>1 DEF NoneLong, Short
  <2>3. Read(fs, r, done)
    BY <2>1, <2>2, ReadIs
  <2> QED
    BY <1>6, <2>3
<1>9. CASE ~wanted
  <2>1. ~read
    BY <1>9
  <2>2. r = << >> /\ done = << >>
    BY <1>6, <1>9, <2>1 DEF OneRead, OneDone
  <2>3. r = SubSeq(Contents(fs), 1, zero) \o g /\ done = SubSeq(fs, 1, zero)
    BY <1>1, <1>2, <1>4, <1>5, <2>2
  <2>4. Read(fs, r, done)
    BY <2>3, ReadIs
  <2> QED
    BY <1>6, <2>4
<1> QED
  BY <1>7, <1>8, <1>9

\* recv_safer_multi, with --fix-gro or without it.
LEMMA SaferReads ==
    ASSUME Options, NEW fs, AreFrames(fs), fs # << >>, NEW cut \in {0, 1},
           NEW r \in P!recv_safer_multi(fs, cut)
    PROVE  Read(fs, r, P!Complete(fs, cut))
<1>1. CASE g_fix_gro
  <2>1. PICK m \in 0 .. Len(fs) :
           /\ P!Split(fs, cut) = SubSeq(Contents(fs), 1, m)
           /\ \A i \in 1 .. m : i \notin Unread(fs, cut)
           /\ m < Len(fs) => m + 1 \in Unread(fs, cut)
    BY SplitIs
  <2>2. PICK c \in 0 .. Len(fs) :
           /\ P!Complete(fs, cut) = SubSeq(fs, 1, c)
           /\ \A i \in 1 .. c : i \notin Missing(fs, cut)
           /\ c < Len(fs) => c + 1 \in Missing(fs, cut)
    BY <1>1, CompleteIs
  <2>3. PICK g \in P!Misread : r = P!Split(fs, cut) \o g
    <3>1. P!recv_safer_multi(fs, cut) =
             {P!Split(fs, cut) \o g : g \in IF \A i \in DOMAIN fs : P!IsData(fs[i])
                                            THEN {<< >>} ELSE P!Misread}
      BY <1>1 DEF P!recv_safer_multi
    <3> QED
      BY <3>1, Misreads
  <2>4. ASSUME NoneLong(fs, c) PROVE m = c
    <3>1. Len(fs) \in Nat
      BY FrameTypes
    <3>2. ASSUME m < c PROVE FALSE
      <4>1. m + 1 \in 1 .. c /\ m + 1 \in 1 .. Len(fs) /\ m < Len(fs)
        BY <3>1, <3>2
      <4>2. m + 1 \in Unread(fs, cut) /\ m + 1 \notin Missing(fs, cut)
        BY <2>1, <2>2, <4>1
      <4>3. fs[m + 1].len <= 1800 /\ fs[m + 1].len \in Nat
        BY <2>4, <4>1, FrameTypes DEF NoneLong
      <4>4. P!IsData(fs[m + 1]) /\ ~(m + 1 = Len(fs) /\ cut = 1)
        BY <4>1, <4>2 DEF Missing
      <4>5. fs[m + 1].len > 1800
        BY <4>2, <4>4 DEF Unread
      <4> QED
        BY <4>3, <4>5
    <3>3. ASSUME c < m PROVE FALSE
      <4>1. c + 1 \in 1 .. m /\ c + 1 \in 1 .. Len(fs) /\ c < Len(fs)
        BY <3>1, <3>3
      <4>2. c + 1 \notin Unread(fs, cut) /\ c + 1 \in Missing(fs, cut)
        BY <2>1, <2>2, <4>1
      <4> QED
        BY <4>1, <4>2 DEF Missing, Unread
    <3> QED
      BY <3>1, <3>2, <3>3
  <2> QED
    BY <2>1, <2>2, <2>3, <2>4, ReadIs
<1>2. CASE ~g_fix_gro /\ Len(fs) = 1 /\ cut = 0
  <2>1. r = P!Parse(fs[1])
    BY <1>2 DEF P!recv_safer_multi
  <2>2. IsFrame(fs[1])
    BY <1>2 DEF AreFrames
  <2>3. PICK wanted \in BOOLEAN : wanted <=> P!IsData(fs[1])
    OBVIOUS
  <2>4. PICK read \in BOOLEAN : read <=> wanted /\ Short(fs[1])
    OBVIOUS
  <2>5. r = OneRead(fs, read)
    BY <2>1, <2>2, <2>3, <2>4, Parsed DEF OneRead, Short
  <2>6. P!Complete(fs, cut) = OneDone(fs, wanted)
    BY <1>2, <2>3 DEF P!Complete, OneDone
  <2> QED
    BY <1>2, <2>4, <2>5, <2>6, ReadOne
<1>3. CASE ~g_fix_gro /\ ~(Len(fs) = 1 /\ cut = 0)
  <2>1. r \in P!Misread
    BY <1>3 DEF P!recv_safer_multi
  <2>2. P!Complete(fs, cut) = << >>
    BY <1>3 DEF P!Complete
  <2> QED
    BY <2>1, <2>2, ReadNothing
<1> QED
  BY <1>1, <1>2, <1>3

Alone(fs, cut) == Len(fs) = 1 /\ cut = 0 /\ ~P!IsData(fs[1])

\* recv_bare.
LEMMA BareReads ==
    ASSUME Options, NEW fs, AreFrames(fs), fs # << >>, NEW cut \in {0, 1},
           NEW r \in P!recv_bare(fs, cut),
           NEW wanted \in BOOLEAN, wanted <=> Alone(fs, cut)
    PROVE  Read(fs, r, OneDone(fs, wanted))
<1>1. Len(fs) \in Nat \ {0}
  BY FrameTypes, EmptySeq
<1>2. CASE Len(fs) > 1 \/ cut # 0 \/ (g_fix_gro /\ P!IsData(fs[1]))
  <2>1. r \in P!Misread
    BY <1>2 DEF P!recv_bare
  <2>2. ~wanted
    BY <1>1, <1>2 DEF Alone
  <2>3. OneDone(fs, wanted) = << >>
    BY <2>2 DEF OneDone
  <2> QED
    BY <2>1, <2>3, ReadNothing
<1>3. CASE ~(Len(fs) > 1 \/ cut # 0 \/ (g_fix_gro /\ P!IsData(fs[1])))
  <2>1. r = P!reserved_parse_bare(fs[1]) /\ Len(fs) = 1 /\ cut = 0
    BY <1>1, <1>3 DEF P!recv_bare
  <2>2. IsFrame(fs[1])
    BY <2>1 DEF AreFrames
  <2>3. wanted <=> ~P!IsData(fs[1])
    BY <2>1 DEF Alone
  <2>4. PICK read \in BOOLEAN : read <=> wanted /\ Short(fs[1])
    OBVIOUS
  <2>5. r = OneRead(fs, read)
    BY <2>1, <2>2, <2>3, <2>4, Parsed DEF OneRead, Short
  <2> QED
    BY <2>1, <2>4, <2>5, ReadOne
<1> QED
  BY <1>2, <1>3

-----------------------------------------------------------------------------
(* Sequences of frames and of their payloads. *)

\* The payloads of a sequence of buffers.
LEMMA ContentsIs ==
    ASSUME NEW fs \in Seq(Buffers)
    PROVE  /\ Contents(fs) \in Seq(Payloads) /\ Len(Contents(fs)) = Len(fs) /\ Len(fs) \in Nat
           /\ \A i \in 1 .. Len(fs) : Contents(fs)[i] = fs[i].payload
<1>1. Len(fs) \in Nat /\ \A i \in 1 .. Len(fs) : fs[i].payload \in Payloads
  <2>1. Len(fs) \in Nat /\ \A i \in 1 .. Len(fs) : fs[i] \in Buffers
    BY LenProperties, ElementOfSeq
  <2> QED
    BY <2>1 DEF Buffers
<1>2. Contents(fs) \in [1 .. Len(fs) -> Payloads]
  BY <1>1 DEF Contents
<1>3. Contents(fs) \in Seq(Payloads) /\ Len(Contents(fs)) = Len(fs)
  BY <1>1, <1>2
<1> QED
  BY <1>1, <1>3 DEF Contents

\* A piece of a sequence.
LEMMA Piece ==
    ASSUME NEW T, NEW s \in Seq(T), NEW a \in 0 .. Len(s), NEW b \in a .. Len(s),
           NEW u, u = SubSeq(s, a + 1, b)
    PROVE  u \in Seq(T) /\ Len(u) = b - a /\ \A i \in 1 .. b - a : u[i] = s[a + i]
<1>1. Len(s) \in Nat
  BY LenProperties
<1>2. /\ a \in Int /\ b \in Int /\ a + 1 \in Int
      /\ (IF a + 1 <= b THEN b - (a + 1) + 1 ELSE 0) = b - a
      /\ b - (a + 1) + 1 = b - a
  BY <1>1
<1>3. \A i \in a + 1 .. b : s[i] \in T
  <2>1. TAKE i \in a + 1 .. b
  <2>2. i \in 1 .. Len(s)
    BY <1>1, <1>2
  <2> QED
    BY <2>2, ElementOfSeq
<1>4. /\ SubSeq(s, a + 1, b) \in Seq(T)
      /\ Len(SubSeq(s, a + 1, b)) = IF a + 1 <= b THEN b - (a + 1) + 1 ELSE 0
      /\ \A i \in 1 .. b - (a + 1) + 1 : SubSeq(s, a + 1, b)[i] = s[(a + 1) + i - 1]
  BY <1>2, <1>3, SubSeqProperties
<1>5. ASSUME NEW i \in 1 .. b - a PROVE u[i] = s[a + i]
  <2>1. (a + 1) + i - 1 = a + i
    BY <1>2
  <2> QED
    BY <1>2, <1>4, <2>1
<1> QED
  BY <1>2, <1>4, <1>5

\* The payloads of a piece are that piece of the payloads.
LEMMA ContentsPiece ==
    ASSUME NEW fs \in Seq(Buffers), NEW a \in 0 .. Len(fs), NEW b \in a .. Len(fs)
    PROVE  Contents(SubSeq(fs, a + 1, b)) = SubSeq(Contents(fs), a + 1, b)
<1>1. PICK u, v, w : u = SubSeq(fs, a + 1, b) /\ v = Contents(fs) /\ w = SubSeq(v, a + 1, b)
  OBVIOUS
<1>2. v \in Seq(Payloads) /\ Len(v) = Len(fs) /\ Len(fs) \in Nat
      /\ \A i \in 1 .. Len(fs) : v[i] = fs[i].payload
  BY <1>1, ContentsIs
<1>3. u \in Seq(Buffers) /\ Len(u) = b - a /\ \A i \in 1 .. b - a : u[i] = fs[a + i]
  BY <1>1, Piece
<1>4. w \in Seq(Payloads) /\ Len(w) = b - a /\ \A i \in 1 .. b - a : w[i] = v[a + i]
  <2>1. a \in 0 .. Len(v) /\ b \in a .. Len(v)
    BY <1>2
  <2> QED
    BY <1>1, <1>2, <2>1, Piece
<1>5. /\ Contents(u) \in Seq(Payloads) /\ Len(Contents(u)) = b - a
      /\ \A i \in 1 .. b - a : Contents(u)[i] = u[i].payload
  BY <1>3, ContentsIs
<1>6. ASSUME NEW i \in 1 .. b - a PROVE Contents(u)[i] = w[i]
  <2>1. a + i \in 1 .. Len(fs)
    BY <1>2
  <2> QED
    BY <1>2, <1>3, <1>4, <1>5, <2>1
<1> QED
  BY <1>1, <1>4, <1>5, <1>6, SeqEqual

\* The payloads of two sequences, one after the other.
LEMMA ContentsJoined ==
    ASSUME NEW fs \in Seq(Buffers), NEW gs \in Seq(Buffers)
    PROVE  fs \o gs \in Seq(Buffers) /\ Contents(fs \o gs) = Contents(fs) \o Contents(gs)
<1>1. PICK h, v, w, x :
         h = fs \o gs /\ v = Contents(fs) /\ w = Contents(gs) /\ x = v \o w
  OBVIOUS
<1>2. PICK n \in Nat, l \in Nat : n = Len(fs) /\ l = Len(gs)
  BY LenProperties
<1>3. /\ v \in Seq(Payloads) /\ Len(v) = n /\ \A i \in 1 .. n : v[i] = fs[i].payload
      /\ w \in Seq(Payloads) /\ Len(w) = l /\ \A i \in 1 .. l : w[i] = gs[i].payload
  BY <1>1, <1>2, ContentsIs
<1>4. /\ h \in Seq(Buffers) /\ Len(h) = n + l
      /\ \A i \in 1 .. n + l : h[i] = IF i <= n THEN fs[i] ELSE gs[i - n]
  BY <1>1, <1>2, ConcatProperties
<1>5. /\ x \in Seq(Payloads) /\ Len(x) = n + l
      /\ \A i \in 1 .. n + l : x[i] = IF i <= n THEN v[i] ELSE w[i - n]
  <2>1. v \in Seq(Payloads) /\ w \in Seq(Payloads)
    BY <1>3
  <2>2. Len(v) = n /\ Len(w) = l
    BY <1>3
  <2>3. /\ x \in Seq(Payloads) /\ Len(x) = Len(v) + Len(w)
        /\ \A i \in 1 .. Len(v) + Len(w) : x[i] = IF i <= Len(v) THEN v[i] ELSE w[i - Len(v)]
    BY <1>1, <2>1, ConcatProperties
  <2> QED
    BY <2>2, <2>3
<1>6. /\ Contents(h) \in Seq(Payloads) /\ Len(Contents(h)) = n + l
      /\ \A i \in 1 .. n + l : Contents(h)[i] = h[i].payload
  BY <1>4, ContentsIs
<1>7. ASSUME NEW i \in 1 .. n + l PROVE Contents(h)[i] = x[i]
  <2>1. CASE i <= n
    <3>1. i \in 1 .. n
      BY <1>2, <2>1
    <3> QED
      <4>1. x[i] = v[i] /\ v[i] = fs[i].payload
        BY <1>3, <1>5, <2>1, <3>1
      <4>2. h[i] = fs[i] /\ Contents(h)[i] = h[i].payload
        BY <1>4, <1>6, <2>1
      <4> QED
        BY <4>1, <4>2
  <2>2. CASE ~(i <= n)
    <3>1. i - n \in 1 .. l
      BY <1>2, <2>2
    <3> QED
      BY <1>3, <1>4, <1>5, <1>6, <2>2, <3>1
  <2> QED
    BY <2>1, <2>2
<1> QED
  <2>1. Len(Contents(h)) = Len(x)
    BY <1>5, <1>6
  <2>2. \A i \in 1 .. Len(Contents(h)) : Contents(h)[i] = x[i]
    BY <1>6, <1>7
  <2>3. Contents(h) = x
    BY <1>5, <1>6, <2>1, <2>2, SeqEqual
  <2> QED
    BY <1>1, <1>4, <2>3

-----------------------------------------------------------------------------
(* The order of what is read. *)

Readables == Payloads \cup {P!Garbled}
Before(q, p) == q # P!Garbled /\ p # P!Garbled => q.id < p.id
Rising(s) == \A i, j \in 1 .. Len(s) : i < j => Before(s[i], s[j])
Earlier(s, v) == \A i \in 1 .. Len(s), j \in 1 .. Len(v) : Before(s[i], v[j])

\* t is made of s, v and g, and u of v.
DrawnFrom(t, s, v, g) ==
    \A i \in 1 .. Len(t) : \/ \E j \in 1 .. Len(s) : t[i] = s[j]
                           \/ \E j \in 1 .. Len(v) : t[i] = v[j]
                           \/ t[i] = P!Garbled /\ g # << >>
PartOf(u, v) == \A i \in 1 .. Len(u) : \E j \in 1 .. Len(v) : u[i] = v[j]

Extended(s, v, m, g) == s \o (SubSeq(v, 1, m) \o g)
Remains(v, k) == SubSeq(v, k + 1, Len(v))

\* What was misread has no place in the order.
LEMMA NotBefore ==
    \A q : Before(q, P!Garbled) /\ Before(P!Garbled, q)
  BY DEF Before

\* What is read of the first frames on the way keeps the order.
LEMMA InOrder ==
    ASSUME NEW s \in Seq(Readables), NEW v \in Seq(Payloads),
           Rising(s), Rising(v), Earlier(s, v),
           NEW k \in 0 .. Len(v), NEW m \in 0 .. k, NEW g \in Seq({P!Garbled}),
           NEW t, t = Extended(s, v, m, g), NEW u, u = Remains(v, k)
    PROVE  /\ t \in Seq(Readables) /\ u \in Seq(Payloads)
           /\ Rising(t) /\ Rising(u) /\ Earlier(t, u) /\ DrawnFrom(t, s, v, g) /\ PartOf(u, v)
<1>1. PICK n \in Nat, l \in Nat, z \in Nat : n = Len(s) /\ l = Len(v) /\ z = Len(g)
  BY LenProperties
<1>2. PICK a : a = SubSeq(v, 1, m)
  OBVIOUS
<1>3. a \in Seq(Payloads) /\ Len(a) = m /\ \A i \in 1 .. m : a[i] = v[i]
  <2>1. 0 \in 0 .. Len(v) /\ m \in 0 .. Len(v) /\ 0 + 1 = 1 /\ m - 0 = m
    BY <1>1
  <2>2. a = SubSeq(v, 0 + 1, m)
    BY <1>2, <2>1
  <2>3. a \in Seq(Payloads) /\ Len(a) = m - 0 /\ \A i \in 1 .. m - 0 : a[i] = v[0 + i]
    BY <2>1, <2>2, Piece
  <2> QED
    BY <2>1, <2>3
<1>4. u \in Seq(Payloads) /\ Len(u) = l - k /\ \A i \in 1 .. l - k : u[i] = v[k + i]
  <2>1. l \in k .. Len(v)
    BY <1>1
  <2> QED
    BY <1>1, <2>1, Piece DEF Remains
<1>5. a \in Seq(Readables) /\ g \in Seq(Readables)
  <2>1. Payloads \subseteq Readables /\ {P!Garbled} \subseteq Readables
    BY DEF Readables
  <2> QED
    BY <1>3, <2>1, SeqMonotonic
<1>6. PICK r : r = a \o g
  OBVIOUS
<1>7. /\ r \in Seq(Readables) /\ Len(r) = m + z
      /\ \A i \in 1 .. m + z : r[i] = IF i <= m THEN a[i] ELSE g[i - m]
  BY <1>1, <1>3, <1>5, <1>6, ConcatProperties
<1>8. /\ t \in Seq(Readables) /\ Len(t) = n + (m + z)
      /\ \A i \in 1 .. n + (m + z) : t[i] = IF i <= n THEN s[i] ELSE r[i - n]
  <2>1. t = s \o r
    BY <1>2, <1>6 DEF Extended
  <2>2. r \in Seq(Readables) /\ Len(r) = m + z
    BY <1>7
  <2>3. /\ t \in Seq(Readables) /\ Len(t) = Len(s) + Len(r)
        /\ \A i \in 1 .. Len(s) + Len(r) : t[i] = IF i <= Len(s) THEN s[i] ELSE r[i - Len(s)]
    <3>1. PICK T : T = Readables
      OBVIOUS
    <3>2. s \in Seq(T) /\ r \in Seq(T)
      BY <2>2, <3>1
    <3>3. /\ s \o r \in Seq(T) /\ Len(s \o r) = Len(s) + Len(r)
          /\ \A i \in 1 .. Len(s) + Len(r) : (s \o r)[i] = IF i <= Len(s) THEN s[i] ELSE r[i - Len(s)]
      BY <3>2, ConcatProperties
    <3> QED
      BY <2>1, <3>1, <3>3
  <2> QED
    BY <1>1, <2>2, <2>3
<1>9. \A i \in 1 .. z : g[i] = P!Garbled
  <2>1. \A i \in 1 .. z : g[i] \in {P!Garbled}
    BY <1>1, ElementOfSeq
  <2> QED
    BY <2>1
<1>10. ASSUME NEW i \in 1 .. n + (m + z)
       PROVE  \/ i \in 1 .. n /\ t[i] = s[i]
              \/ i - n \in 1 .. m /\ t[i] = v[i - n]
              \/ t[i] = P!Garbled /\ z # 0
  <2>1. CASE i <= n
    BY <1>1, <1>8, <2>1
  <2>2. CASE ~(i <= n) /\ i - n <= m
    <3>1. i - n \in 1 .. m /\ i - n \in 1 .. m + z
      BY <1>1, <2>2
    <3>2. t[i] = r[i - n] /\ r[i - n] = a[i - n] /\ a[i - n] = v[i - n]
      BY <1>3, <1>7, <1>8, <2>2, <3>1
    <3> QED
      BY <3>1, <3>2
  <2>3. CASE ~(i <= n) /\ ~(i - n <= m)
    <3>1. i - n \in 1 .. m + z /\ (i - n) - m \in 1 .. z /\ z # 0
      BY <1>1, <2>3
    <3>2. t[i] = r[i - n] /\ r[i - n] = g[(i - n) - m]
      BY <1>7, <1>8, <2>3, <3>1
    <3> QED
      BY <1>9, <3>1, <3>2
  <2> QED
    BY <2>1, <2>2, <2>3
<1>11. Rising(t)
  <2>1. SUFFICES ASSUME NEW i \in 1 .. n + (m + z), NEW j \in 1 .. n + (m + z), i < j
                 PROVE  Before(t[i], t[j])
    BY <1>8 DEF Rising
  <2>2. CASE t[i] = P!Garbled \/ t[j] = P!Garbled
    BY <2>2, NotBefore
  <2>3. CASE i \in 1 .. n /\ t[i] = s[i] /\ j \in 1 .. n /\ t[j] = s[j]
    BY <1>1, <2>1, <2>3 DEF Rising
  <2>4. CASE i \in 1 .. n /\ t[i] = s[i] /\ j - n \in 1 .. m /\ t[j] = v[j - n]
    <3>1. j - n \in 1 .. l
      BY <1>1, <2>4
    <3> QED
      BY <1>1, <2>4, <3>1 DEF Earlier
  <2>5. CASE i - n \in 1 .. m /\ t[i] = v[i - n] /\ j - n \in 1 .. m /\ t[j] = v[j - n]
    <3>1. j - n \in 1 .. l /\ i - n \in 1 .. l /\ i - n < j - n
      BY <1>1, <2>1, <2>5, SMTT(30)
    <3> QED
      BY <1>1, <2>5, <3>1 DEF Rising
  <2>6. CASE i - n \in 1 .. m /\ j \in 1 .. n
    BY <1>1, <2>1, <2>6
  <2> QED
    BY <1>10, <2>2, <2>3, <2>4, <2>5, <2>6
<1>12. Rising(u)
  <2>1. SUFFICES ASSUME NEW i \in 1 .. l - k, NEW j \in 1 .. l - k, i < j
                 PROVE  Before(u[i], u[j])
    BY <1>4 DEF Rising
  <2>2. k + i \in 1 .. l /\ k + j \in 1 .. l /\ k + i < k + j
    BY <1>1, <2>1
  <2> QED
    BY <1>1, <1>4, <2>2 DEF Rising
<1>13. Earlier(t, u)
  <2>1. SUFFICES ASSUME NEW i \in 1 .. n + (m + z), NEW j \in 1 .. l - k
                 PROVE  Before(t[i], u[j])
    BY <1>4, <1>8 DEF Earlier
  <2>2. k + j \in 1 .. l /\ u[j] = v[k + j]
    <3>1. k \in Nat /\ l \in Nat
      BY <1>1
    <3>2. k + j \in 1 .. l
      BY <3>1
    <3> QED
      BY <1>4, <3>2
  <2>3. CASE i \in 1 .. n /\ t[i] = s[i]
    BY <1>1, <2>2, <2>3 DEF Earlier
  <2>4. CASE i - n \in 1 .. m /\ t[i] = v[i - n]
    <3>1. i - n \in 1 .. l /\ i - n < k + j
      BY <1>1, <2>4
    <3> QED
      BY <1>1, <2>2, <2>4, <3>1 DEF Rising
  <2>5. CASE t[i] = P!Garbled
    BY <2>5, NotBefore
  <2> QED
    BY <1>10, <2>3, <2>4, <2>5
<1>14. ASSUME NEW i \in 1 .. n + (m + z)
       PROVE  \/ \E j \in 1 .. Len(s) : t[i] = s[j]
              \/ \E j \in 1 .. Len(v) : t[i] = v[j]
              \/ t[i] = P!Garbled /\ g # << >>
  <2>1. z # 0 => g # << >>
    BY <1>1
  <2>2. i - n \in 1 .. m => i - n \in 1 .. Len(v)
    BY <1>1
  <2> QED
    BY <1>1, <1>10, <2>1, <2>2
<1>15. ASSUME NEW i \in 1 .. l - k PROVE \E j \in 1 .. Len(v) : u[i] = v[j]
  <2>1. k + i \in 1 .. Len(v)
    BY <1>1
  <2> QED
    BY <1>4, <2>1
<1>16. DrawnFrom(t, s, v, g) /\ PartOf(u, v)
  BY <1>4, <1>8, <1>14, <1>15 DEF DrawnFrom, PartOf
<1> QED
  BY <1>4, <1>8, <1>11, <1>12, <1>13, <1>16

-----------------------------------------------------------------------------
(* The options do not change, and with them nothing that is made of them. *)

SameOptions ==
    auth_mode' = auth_mode /\ cipher_mode' = cipher_mode
    /\ g_fix_gro' = g_fix_gro /\ sender' = sender

\* The keys and layers are those of the options.
LEMMA LayersStay ==
    ASSUME SameOptions, NEW b, NEW kind, NEW n
    PROVE  /\ P!key("encrypt")' = P!key("encrypt")
           /\ P!AddLayer(b, kind, n)' = P!AddLayer(b, kind, n)
<1>1. P!key("encrypt")' = P!key("encrypt")
  BY DEF SameOptions, P!key, P!Side, P!is_hmac_used
<1> QED
  BY <1>1 DEF P!AddLayer

\* So are the frames.
LEMMA FrameStays ==
    ASSUME SameOptions, NEW p
    PROVE  FrameOf(p)' = FrameOf(p)
<1>1. \A b, kind, n : P!AddLayer(b, kind, n)' = P!AddLayer(b, kind, n)
  BY LayersStay
<1>2. \A b : P!auth_cal(b)' = P!auth_cal(b)
  BY <1>1 DEF P!auth_cal, P!AuthLen, SameOptions
<1>3. \A b : P!cipher_encrypt(b)' = P!cipher_encrypt(b)
  BY <1>1 DEF P!cipher_encrypt, P!padding, SameOptions
<1>4. P!is_hmac_used' = P!is_hmac_used
  BY DEF P!is_hmac_used, SameOptions
<1>5. \A b : P!my_encrypt(b)' = P!my_encrypt(b)
  BY <1>2, <1>3, <1>4 DEF P!my_encrypt, P!max_data_len, P!NoBuffer, P!Garbled
<1> QED
  BY <1>5 DEF FrameOf, P!send_bare, P!Frame, P!Around, P!HeaderLen, P!BareLen

\* What is a frame stays one.
LEMMA FramesStay ==
    ASSUME SameOptions
    PROVE  Buffers' = Buffers /\ \A f : IsFrame(f)' <=> IsFrame(f)
<1>1. Buffers' = Buffers
  BY LayersStay DEF Buffers, Layers, Payloads
<1>2. ASSUME NEW f PROVE IsFrame(f)' <=> IsFrame(f)
  <2>1. PICK p : p = f.payload
    OBVIOUS
  <2>2. FrameOf(p)' = FrameOf(p)
    BY FrameStays
  <2> QED
    BY <1>1, <2>1, <2>2 DEF IsFrame
<1> QED
  BY <1>1, <1>2

-----------------------------------------------------------------------------
(* The invariant of the codec. *)

NumberedSent ==
    /\ sent \in Seq(Payloads)
    /\ \A i \in 1 .. Len(sent) : sent[i].id = i /\ (sent[i].type = "b" => sent[i].len = 12)

\* What is in s was sent.
Own(s) ==
    \A i \in 1 .. Len(s) :
       s[i] # P!Garbled => s[i].id \in 1 .. Len(sent) /\ s[i] = sent[s[i].id]

OnTheWay ==
    /\ AreFrames(wire) /\ Own(Contents(wire)) /\ Rising(Contents(wire))

WhatWasRead ==
    /\ got \in Seq(Readables) /\ Own(got) /\ Rising(got) /\ Earlier(got, Contents(wire))
    /\ auth_mode # "none" => \A i \in 1 .. Len(got) : got[i] # P!Garbled

AsItArrived ==
    /\ arrived \in Seq(Buffers)
    /\ auth_mode # "none" /\ NoneLong(arrived, Len(arrived)) => got = Contents(arrived)

CodecInv ==
    part = "codec" => Options /\ NumberedSent /\ OnTheWay /\ WhatWasRead /\ AsItArrived

\* The first state satisfies the invariant of the codec.
LEMMA CodecInitial ==
    ASSUME WireInit PROVE CodecInv
<1>1. SUFFICES ASSUME part = "codec" PROVE CodecInv
  BY DEF CodecInv
<1>2. P!Init
  BY <1>1 DEF WireInit
<1>3. Options /\ sent = << >> /\ wire = << >> /\ arrived = << >> /\ got = << >>
  BY <1>2 DEF P!Init, Options
<1>4. << >> \in Seq(Payloads) /\ << >> \in Seq(Buffers) /\ << >> \in Seq(Readables)
      /\ Len(<< >>) = 0
  OBVIOUS
<1>5. Contents(<< >>) = << >>
  <2>1. PICK e \in Seq(Buffers) : e = << >>
    BY <1>4
  <2>2. Contents(e) \in Seq(Payloads) /\ Len(Contents(e)) = 0
    BY <1>4, <2>1, ContentsIs
  <2>3. Contents(e) = << >>
    BY <2>2, EmptySeq
  <2> QED
    BY <2>1, <2>3
<1>6. NumberedSent
  BY <1>3, <1>4 DEF NumberedSent
<1>7. OnTheWay
  BY <1>3, <1>4, <1>5 DEF OnTheWay, AreFrames, Own, Rising
<1>8. WhatWasRead
  BY <1>3, <1>4, <1>5 DEF WhatWasRead, Own, Rising, Earlier
<1>9. AsItArrived
  BY <1>3, <1>4, <1>5 DEF AsItArrived
<1> QED
  BY <1>3, <1>6, <1>7, <1>8, <1>9 DEF CodecInv

\* A piece of a sequence of frames is one.
LEMMA FramesPiece ==
    ASSUME NEW fs, AreFrames(fs), NEW a \in 0 .. Len(fs), NEW b \in a .. Len(fs),
           NEW u, u = SubSeq(fs, a + 1, b)
    PROVE  AreFrames(u) /\ Len(u) = b - a
<1>1. fs \in Seq(Buffers) /\ Len(fs) \in Nat
  BY LenProperties DEF AreFrames
<1>2. u \in Seq(Buffers) /\ Len(u) = b - a /\ \A i \in 1 .. b - a : u[i] = fs[a + i]
  BY <1>1, Piece
<1>3. ASSUME NEW i \in 1 .. b - a PROVE IsFrame(u[i])
  <2>1. a + i \in 1 .. Len(fs)
    BY <1>1
  <2> QED
    BY <1>2, <2>1 DEF AreFrames
<1> QED
  BY <1>2, <1>3 DEF AreFrames

\* The first k frames are handed over.
HandedOver(k, r, done) ==
    /\ part' = part /\ SameOptions /\ sent' = sent
    /\ got' = got \o r /\ arrived' = arrived \o done
    /\ wire' = SubSeq(wire, k + 1, Len(wire))

\* Reading the first k frames keeps the invariant.
LEMMA ReadStep ==
    ASSUME CodecInv, part = "codec", NEW k \in 0 .. Len(wire), NEW fs, fs = SubSeq(wire, 1, k),
           NEW r, NEW done, Read(fs, r, done), HandedOver(k, r, done)
    PROVE  CodecInv'
<1>0. /\ part' = part /\ SameOptions /\ sent' = sent
      /\ got' = got \o r /\ arrived' = arrived \o done
      /\ wire' = SubSeq(wire, k + 1, Len(wire))
  BY DEF HandedOver
<1>1. Options /\ NumberedSent /\ OnTheWay /\ WhatWasRead /\ AsItArrived
  BY DEF CodecInv
<1>2. wire \in Seq(Buffers) /\ Len(wire) \in Nat /\ k \in Nat
  BY <1>1, LenProperties DEF OnTheWay, AreFrames
<1>3. PICK v : v = Contents(wire)
  OBVIOUS
<1>4. v \in Seq(Payloads) /\ Len(v) = Len(wire)
  BY <1>2, <1>3, ContentsIs
<1>5. PICK l : l = Len(wire)
  OBVIOUS
<1>6. /\ 0 \in 0 .. Len(wire) /\ k \in 0 .. Len(wire) /\ l \in k .. Len(wire) /\ 0 + 1 = 1
      /\ k - 0 = k
  BY <1>2, <1>5
<1>7. AreFrames(fs) /\ Len(fs) = k /\ fs \in Seq(Buffers) /\ Contents(fs) = SubSeq(v, 1, k)
  <2>1. AreFrames(fs) /\ Len(fs) = k - 0
    <3>1. AreFrames(wire)
      BY <1>1 DEF OnTheWay
    <3>2. PICK z \in 0 .. Len(wire) : z = 0
      BY <1>6
    <3>3. fs = SubSeq(wire, z + 1, k) /\ k \in z .. Len(wire)
      BY <1>2, <1>6, <3>2
    <3>4. AreFrames(fs) /\ Len(fs) = k - z
      BY <3>1, <3>3, FramesPiece
    <3> QED
      BY <3>2, <3>4
  <2>2. Contents(SubSeq(wire, 0 + 1, k)) = SubSeq(Contents(wire), 0 + 1, k)
    BY <1>2, <1>6, ContentsPiece
  <2> QED
    BY <1>3, <1>6, <2>1, <2>2 DEF AreFrames
<1>8. PICK w : w = SubSeq(wire, k + 1, l)
  OBVIOUS
<1>9. AreFrames(w) /\ wire' = w /\ Contents(w) = SubSeq(v, k + 1, Len(v))
  <2>1. AreFrames(w)
    BY <1>1, <1>6, <1>8, FramesPiece DEF OnTheWay
  <2>2. Contents(SubSeq(wire, k + 1, l)) = SubSeq(Contents(wire), k + 1, l)
    BY <1>2, <1>6, ContentsPiece
  <2> QED
    BY <1>0, <1>3, <1>4, <1>5, <1>8, <2>1, <2>2
<1>10. PICK m \in 0 .. Len(fs), c \in 0 .. Len(fs), g \in P!Misread :
          /\ r = SubSeq(Contents(fs), 1, m) \o g
          /\ done = SubSeq(fs, 1, c)
          /\ NoneLong(fs, c) => m = c
  BY DEF Read
<1>11. m \in 0 .. k /\ c \in 0 .. k
  BY <1>7, <1>10
<1>12. SubSeq(Contents(fs), 1, m) = SubSeq(v, 1, m) /\ SubSeq(Contents(fs), 1, c) = SubSeq(v, 1, c)
  <2>1. ASSUME NEW n \in 0 .. k PROVE SubSeq(SubSeq(v, 1, k), 1, n) = SubSeq(v, 1, n)
    <3>1. CASE n = 0
      BY <3>1, SubSeqEmpty
    <3>2. CASE n # 0
      <4>1. /\ 1 \in 1 .. Len(v) /\ k \in 1 .. Len(v)
            /\ 1 \in 1 .. k - 1 + 1 /\ n \in 1 .. k - 1 + 1
            /\ 1 + 1 - 1 = 1 /\ 1 + n - 1 = n
        BY <1>2, <1>4, <3>2
      <4>2. SubSeq(SubSeq(v, 1, k), 1, n) = SubSeq(v, 1 + 1 - 1, 1 + n - 1)
        BY <1>4, <4>1, SubSeqOfSubSeq
      <4> QED
        BY <4>1, <4>2
    <3> QED
      BY <3>1, <3>2
  <2> QED
    BY <1>7, <1>11, <2>1
<1>13. PICK t : t = got \o (SubSeq(v, 1, m) \o g)
  OBVIOUS
<1>14. got' = t
  BY <1>0, <1>10, <1>12, <1>13
<1>15. PICK u : u = SubSeq(v, k + 1, Len(v))
  OBVIOUS
<1>16. g \in Seq({P!Garbled}) /\ (auth_mode # "none" => g = << >>)
  BY <1>10, Misreads
<1>17. /\ t \in Seq(Readables) /\ u \in Seq(Payloads)
       /\ Rising(t) /\ Rising(u) /\ Earlier(t, u) /\ DrawnFrom(t, got, v, g) /\ PartOf(u, v)
  <2>1. got \in Seq(Readables) /\ Rising(got) /\ Rising(v) /\ Earlier(got, v)
    BY <1>1, <1>3 DEF WhatWasRead, OnTheWay
  <2>2. k \in 0 .. Len(v)
    BY <1>4
  <2>3. PICK s \in Seq(Readables), x \in Seq(Payloads), h \in Seq({P!Garbled}) :
           s = got /\ x = v /\ h = g
    BY <1>4, <1>16, <2>1
  <2>4. PICK n \in 0 .. Len(x) : n = k
    BY <2>2, <2>3
  <2>5. PICK o \in 0 .. n : o = m
    BY <1>11, <2>4
  <2>6. /\ Rising(s) /\ Rising(x) /\ Earlier(s, x)
        /\ t = Extended(s, x, o, h) /\ u = Remains(x, n)
    BY <1>13, <1>15, <2>1, <2>3, <2>4, <2>5 DEF Extended, Remains
  <2>7. /\ t \in Seq(Readables) /\ u \in Seq(Payloads)
        /\ Rising(t) /\ Rising(u) /\ Earlier(t, u) /\ DrawnFrom(t, s, x, h) /\ PartOf(u, x)
    BY <2>6, InOrder
  <2> QED
    BY <2>3, <2>7
<1>18. Own(got) /\ Own(v)
  BY <1>1, <1>3 DEF WhatWasRead, OnTheWay
<1>19. Own(t) /\ Own(u)
  <2>1. ASSUME NEW i \in 1 .. Len(t), t[i] # P!Garbled
        PROVE  t[i].id \in 1 .. Len(sent) /\ t[i] = sent[t[i].id]
    BY <1>17, <1>18, <2>1 DEF Own, DrawnFrom
  <2>2. ASSUME NEW i \in 1 .. Len(u), u[i] # P!Garbled
        PROVE  u[i].id \in 1 .. Len(sent) /\ u[i] = sent[u[i].id]
    BY <1>17, <1>18, <2>2 DEF Own, PartOf
  <2> QED
    BY <2>1, <2>2 DEF Own
<1>20. \A s : Own(s)' <=> Own(s)
  BY <1>0 DEF Own, P!Garbled
<1>21. Buffers' = Buffers /\ \A f : IsFrame(f)' <=> IsFrame(f)
  BY <1>0, FramesStay
<1>22. Options' /\ NumberedSent'
  BY <1>0, <1>1 DEF Options, NumberedSent, SameOptions, Payloads
<1>23. OnTheWay'
  <2>1. AreFrames(wire)'
    BY <1>9, <1>21 DEF AreFrames
  <2>2. Contents(wire)' = u
    BY <1>9, <1>15 DEF Contents
  <2>3. Own(u)' /\ Rising(u)
    BY <1>17, <1>19, <1>20
  <2>4. Own(Contents(wire))' /\ Rising(Contents(wire))'
    BY <2>2, <2>3 DEF Own, Rising, Before, P!Garbled
  <2> QED
    BY <2>1, <2>4 DEF OnTheWay
<1>24. WhatWasRead'
  <2>1. Contents(wire)' = u
    BY <1>9, <1>15 DEF Contents
  <2>2. got' \in Seq(Readables') /\ Own(got)' /\ Rising(got)' /\ Earlier(got, Contents(wire))'
    <3>1. Own(t)'
      BY <1>19, <1>20
    <3>2. Readables' = Readables /\ got' = t
      BY <1>14 DEF Readables, Payloads, P!Garbled
    <3>3. got' \in Seq(Readables')
      BY <1>17, <3>2
    <3>4. Own(got)'
      BY <3>1, <3>2 DEF Own, P!Garbled
    <3>5. Rising(got)'
      BY <1>17, <3>2 DEF Rising, Before, P!Garbled
    <3>6. Earlier(got, Contents(wire))'
      <4>1. Earlier(t, u)
        BY <1>17
      <4> QED
        BY <2>1, <3>2, <4>1 DEF Earlier, Before, P!Garbled
    <3> QED
      BY <3>3, <3>4, <3>5, <3>6
  <2>3. ASSUME auth_mode # "none", NEW i \in 1 .. Len(t) PROVE t[i] # P!Garbled
    <3>1. g = << >>
      BY <1>16, <2>3
    <3>2. \A j \in 1 .. Len(got) : got[j] # P!Garbled
      BY <1>1, <2>3 DEF WhatWasRead
    <3>3. \A j \in 1 .. Len(v) : v[j] # P!Garbled
      <4>1. \A j \in 1 .. Len(v) : v[j] \in Payloads
        BY <1>4, ElementOfSeq
      <4> QED
        BY <4>1 DEF Payloads, P!Garbled
    <3> QED
      BY <1>17, <3>1, <3>2, <3>3 DEF DrawnFrom
  <2> QED
    BY <1>0, <1>14, <2>2, <2>3 DEF WhatWasRead, SameOptions, P!Garbled
<1>25. AsItArrived'
  <2>1. done \in Seq(Buffers)
    <3>1. 0 \in 0 .. Len(fs) /\ c \in 0 .. Len(fs) /\ 0 + 1 = 1
      BY <1>2, <1>7, <1>11
    <3>2. done = SubSeq(fs, 0 + 1, c)
      BY <1>10, <3>1
    <3> QED
      BY <1>7, <3>1, <3>2, Piece
  <2>2. arrived \in Seq(Buffers)
    BY <1>1 DEF AsItArrived
  <2>3. PICK a : a = arrived \o done
    OBVIOUS
  <2>4. a \in Seq(Buffers) /\ Contents(a) = Contents(arrived) \o Contents(done)
    BY <2>1, <2>2, <2>3, ContentsJoined
  <2>5. ASSUME auth_mode # "none", NoneLong(a, Len(a)) PROVE t = Contents(a)
    <3>1. /\ Len(arrived) \in Nat /\ Len(done) = c /\ Len(a) = Len(arrived) + c
          /\ \A i \in 1 .. Len(arrived) : a[i] = arrived[i]
          /\ \A i \in 1 .. c : a[Len(arrived) + i] = fs[i]
      <4>1. Len(done) = c /\ \A i \in 1 .. c : done[i] = fs[i]
        <5>1. 0 \in 0 .. Len(fs) /\ c \in 0 .. Len(fs) /\ 0 + 1 = 1 /\ c - 0 = c
          BY <1>2, <1>7, <1>11
        <5>2. done = SubSeq(fs, 0 + 1, c)
          BY <1>10, <5>1
        <5>3. Len(done) = c - 0 /\ \A i \in 1 .. c - 0 : done[i] = fs[0 + i]
          BY <1>7, <5>1, <5>2, Piece
        <5> QED
          BY <5>1, <5>3
      <4>2. PICK n \in Nat : n = Len(arrived)
        BY <2>2, LenProperties
      <4>3. /\ Len(a) = Len(arrived) + Len(done)
            /\ \A i \in 1 .. Len(arrived) + Len(done) :
                  a[i] = IF i <= Len(arrived) THEN arrived[i] ELSE done[i - Len(arrived)]
        BY <2>1, <2>2, <2>3, ConcatProperties
      <4>4. ASSUME NEW i \in 1 .. n PROVE a[i] = arrived[i]
        BY <4>1, <4>2, <4>3
      <4>5. ASSUME NEW i \in 1 .. c PROVE a[n + i] = fs[i]
        <5>1. n + i \in 1 .. n + c /\ ~(n + i <= n) /\ (n + i) - n = i
          BY <1>11, <4>2
        <5> QED
          BY <4>1, <4>2, <4>3, <5>1
      <4> QED
        BY <4>1, <4>2, <4>3, <4>4, <4>5
    <3>2. NoneLong(arrived, Len(arrived))
      <4>1. \A i \in 1 .. Len(arrived) : i \in 1 .. Len(a)
        BY <1>11, <3>1
      <4> QED
        BY <2>5, <3>1, <4>1 DEF NoneLong
    <3>3. NoneLong(fs, c)
      <4>1. \A i \in 1 .. c : Len(arrived) + i \in 1 .. Len(a)
        BY <1>11, <3>1
      <4> QED
        BY <2>5, <3>1, <4>1 DEF NoneLong
    <3>4. m = c /\ g = << >> /\ got = Contents(arrived)
      BY <1>1, <1>10, <1>16, <2>5, <3>2, <3>3 DEF AsItArrived
    <3>5. Contents(done) = SubSeq(v, 1, c)
      <4>1. 0 \in 0 .. Len(fs) /\ c \in 0 .. Len(fs) /\ 0 + 1 = 1
        BY <1>2, <1>7, <1>11
      <4>2. Contents(SubSeq(fs, 0 + 1, c)) = SubSeq(Contents(fs), 0 + 1, c)
        BY <1>7, <4>1, ContentsPiece
      <4> QED
        BY <1>10, <1>12, <4>1, <4>2
    <3>6. SubSeq(v, 1, c) \o << >> = SubSeq(v, 1, c)
      <4>1. Contents(done) \in Seq(Payloads)
        BY <2>1, ContentsIs
      <4> QED
        BY <3>5, <4>1, ConcatEmptySeq
    <3> QED
      BY <1>13, <2>4, <3>4, <3>5, <3>6
  <2>6. arrived' = a /\ got' = t /\ auth_mode' = auth_mode /\ Buffers' = Buffers
    BY <1>0, <1>14, <1>21, <2>3 DEF SameOptions
  <2> QED
    <3>1. a \in Seq(Buffers)
      BY <2>4
    <3> QED
      BY <2>5, <2>6, <3>1 DEF AsItArrived
<1> QED
  BY <1>0, <1>22, <1>23, <1>24, <1>25 DEF CodecInv

\* A packet that is lost leaves the others as they were.
LEMMA LoseStep ==
    ASSUME CodecInv, part = "codec", part' = part, P!Lose PROVE CodecInv'
<1>1. Options /\ OnTheWay /\ WhatWasRead /\ AsItArrived
  BY DEF CodecInv
<1>2. wire \in Seq(Buffers) /\ Len(wire) \in Nat /\ wire # << >> /\ Len(wire) # 0
  BY <1>1, EmptySeq DEF P!Lose, OnTheWay, AreFrames
<1>3. PICK k \in 0 .. Len(wire) : k = 1
  BY <1>2
<1>4. PICK fs : fs = SubSeq(wire, 1, k)
  OBVIOUS
<1>5. AreFrames(fs)
  <2>1. AreFrames(wire)
    BY <1>1 DEF OnTheWay
  <2>2. PICK z \in 0 .. Len(wire) : z = 0
    BY <1>2
  <2>3. fs = SubSeq(wire, z + 1, k) /\ k \in z .. Len(wire)
    BY <1>2, <1>4, <2>2
  <2> QED
    BY <2>1, <2>3, FramesPiece
<1>6. PICK r : r = << >>
  OBVIOUS
<1>7. Read(fs, r, r)
  <2>1. r \in P!Misread
    BY <1>6, Misreads
  <2> QED
    BY <1>1, <1>5, <1>6, <2>1, ReadNothing
<1>8. HandedOver(k, r, r)
  <2>1. got' = got /\ arrived' = arrived /\ sent' = sent /\ SameOptions
    BY DEF P!Lose, P!options, SameOptions
  <2>2. got \o r = got /\ arrived \o r = arrived
    <3>1. got \in Seq(Readables) /\ arrived \in Seq(Buffers)
      BY <1>1 DEF WhatWasRead, AsItArrived
    <3> QED
      BY <1>6, <3>1, ConcatEmptySeq
  <2>3. wire' = SubSeq(wire, k + 1, Len(wire))
    <3>1. wire' = Tail(wire) /\ k + 1 = 2
      BY <1>3 DEF P!Lose
    <3> QED
      BY <1>2, <3>1, TailIsSubSeq
  <2> QED
    BY <2>1, <2>2, <2>3 DEF HandedOver
<1> QED
  BY <1>4, <1>7, <1>8, ReadStep

\* The first k frames as a sequence of their own.
LEMMA FirstFrames ==
    ASSUME CodecInv, part = "codec", NEW k \in Nat \ {0}, k <= Len(wire),
           NEW fs, fs = SubSeq(wire, 1, k)
    PROVE  k \in 0 .. Len(wire) /\ AreFrames(fs) /\ Len(fs) = k /\ fs # << >>
<1>1. AreFrames(wire) /\ Len(wire) \in Nat
  BY LenProperties DEF CodecInv, OnTheWay, AreFrames
<1>2. PICK z \in 0 .. Len(wire), n \in 0 .. Len(wire) : z = 0 /\ n = k
  BY <1>1
<1>3. fs = SubSeq(wire, z + 1, n) /\ n \in z .. Len(wire)
  BY <1>1, <1>2
<1>4. AreFrames(fs) /\ Len(fs) = n - z
  BY <1>1, <1>3, FramesPiece
<1>5. Len(fs) = k /\ k # 0
  BY <1>2, <1>4
<1>6. fs # << >>
  BY <1>5
<1> QED
  BY <1>2, <1>4, <1>5, <1>6

\* A connection that is ready is handed over packets.
LEMMA SaferStep ==
    ASSUME CodecInv, part = "codec", part' = part, NEW k \in Nat \ {0}, k <= Len(wire),
           NEW cut \in {0, 1}, P!ReceiveSafer(k, cut)
    PROVE  CodecInv'
<1>1. PICK fs : fs = SubSeq(wire, 1, k)
  OBVIOUS
<1>2. k \in 0 .. Len(wire) /\ AreFrames(fs) /\ fs # << >>
  BY <1>1, FirstFrames
<1>3. PICK r \in P!recv_safer_multi(fs, cut) : got' = got \o r
  BY <1>1 DEF P!ReceiveSafer
<1>4. Options
  BY DEF CodecInv
<1>5. Read(fs, r, P!Complete(fs, cut))
  BY <1>2, <1>4, SaferReads
<1>6. HandedOver(k, r, P!Complete(fs, cut))
  BY <1>1, <1>3 DEF P!ReceiveSafer, P!options, HandedOver, SameOptions
<1> QED
  BY <1>1, <1>2, <1>5, <1>6, ReadStep

\* One that waits for a handshake is.
LEMMA BareStep ==
    ASSUME CodecInv, part = "codec", part' = part, NEW k \in Nat \ {0}, k <= Len(wire),
           NEW cut \in {0, 1}, P!ReceiveBare(k, cut)
    PROVE  CodecInv'
<1>1. PICK fs : fs = SubSeq(wire, 1, k)
  OBVIOUS
<1>2. k \in 0 .. Len(wire) /\ AreFrames(fs) /\ fs # << >> /\ Len(fs) = k
  BY <1>1, FirstFrames
<1>3. PICK r \in P!recv_bare(fs, cut) : got' = got \o r
  BY <1>1 DEF P!ReceiveBare
<1>4. Options
  BY DEF CodecInv
<1>5. PICK wanted \in BOOLEAN : wanted <=> Alone(fs, cut)
  OBVIOUS
<1>6. Read(fs, r, OneDone(fs, wanted))
  BY <1>2, <1>4, <1>5, BareReads
<1>7. arrived' = arrived \o OneDone(fs, wanted)
  BY <1>1, <1>2, <1>5 DEF P!ReceiveBare, OneDone, Alone
<1>8. HandedOver(k, r, OneDone(fs, wanted))
  BY <1>1, <1>3, <1>7 DEF P!ReceiveBare, P!options, HandedOver, SameOptions
<1> QED
  BY <1>1, <1>2, <1>6, <1>8, ReadStep

\* One more payload, and its frame if my_encrypt made one.
LEMMA SendStep ==
    ASSUME CodecInv, part = "codec", part' = part,
           NEW p \in Payloads, p.id = Len(sent) + 1, p.type = "b" => p.len = 12,
           NEW f, f = FrameOf(p), P!Transmit(p, f)
    PROVE  CodecInv'
<1>1. Options /\ NumberedSent /\ OnTheWay /\ WhatWasRead /\ AsItArrived
  BY DEF CodecInv
<1>2. /\ sent' = Append(sent, p) /\ got' = got /\ arrived' = arrived /\ SameOptions
      /\ wire' = IF P!Failed(f) THEN wire ELSE Append(wire, f)
  BY DEF P!Transmit, P!options, SameOptions
<1>3. PICK n \in Nat : n = Len(sent)
  BY <1>1, LenProperties DEF NumberedSent
<1>4. PICK ss : ss = sent'
  OBVIOUS
<1>5. /\ ss \in Seq(Payloads) /\ Len(ss) = n + 1 /\ ss[n + 1] = p
      /\ \A i \in 1 .. n : ss[i] = sent[i]
  BY <1>1, <1>2, <1>3, <1>4, AppendProperties DEF NumberedSent
<1>6. Options' /\ NumberedSent'
  <2>1. ASSUME NEW i \in 1 .. n + 1
        PROVE  ss[i].id = i /\ (ss[i].type = "b" => ss[i].len = 12)
    <3>1. CASE i = n + 1
      BY <1>3, <1>5, <3>1
    <3>2. CASE i # n + 1
      <4>1. i \in 1 .. n
        BY <3>2
      <4> QED
        BY <1>1, <1>3, <1>5, <4>1 DEF NumberedSent
    <3> QED
      BY <3>1, <3>2
  <2>2. Payloads' = Payloads
    BY DEF Payloads
  <2>3. NumberedSent'
    BY <1>4, <1>5, <2>1, <2>2 DEF NumberedSent
  <2> QED
    BY <1>1, <1>2, <2>3 DEF Options, SameOptions
<1>7. ASSUME NEW s, Own(s) PROVE Own(s)'
  <2>1. ASSUME NEW i \in 1 .. Len(s), s[i] # P!Garbled
        PROVE  s[i].id \in 1 .. n + 1 /\ s[i] = ss[s[i].id]
    <3>1. s[i].id \in 1 .. n /\ s[i] = sent[s[i].id]
      BY <1>3, <1>7, <2>1 DEF Own
    <3> QED
      BY <1>3, <1>5, <3>1
  <2> QED
    BY <1>4, <1>5, <2>1 DEF Own, P!Garbled
<1>8. Buffers' = Buffers /\ \A b : IsFrame(b)' <=> IsFrame(b)
  BY <1>2, FramesStay
<1>9. PICK v : v = Contents(wire)
  OBVIOUS
<1>10. /\ AreFrames(wire) /\ wire \in Seq(Buffers)
       /\ v \in Seq(Payloads) /\ Len(v) = Len(wire) /\ Own(v) /\ Rising(v)
  BY <1>1, <1>9, ContentsIs DEF OnTheWay, AreFrames
<1>11. got \in Seq(Readables) /\ Own(got) /\ Rising(got) /\ Earlier(got, v)
  BY <1>1, <1>9 DEF WhatWasRead
<1>12. AsItArrived'
  BY <1>1, <1>2, <1>8 DEF AsItArrived, SameOptions
<1>13. Readables' = Readables
  BY DEF Readables, Payloads, P!Garbled
<1>14. CASE P!Failed(f)
  <2>1. wire' = wire
    BY <1>2, <1>14
  <2>2. Contents(wire)' = v
    BY <1>9, <2>1 DEF Contents
  <2>3. OnTheWay'
    <3>1. AreFrames(wire)'
      BY <1>8, <1>10, <2>1 DEF AreFrames
    <3>2. Own(v)'
      BY <1>7, <1>10
    <3>3. Own(Contents(wire))'
      BY <2>2, <3>2 DEF Own, P!Garbled
    <3>4. Rising(Contents(wire))'
      BY <1>10, <2>2 DEF Rising, Before, P!Garbled
    <3> QED
      BY <3>1, <3>3, <3>4 DEF OnTheWay
  <2>4. WhatWasRead'
    <3>1. PICK g : g = got
      OBVIOUS
    <3>2. Own(g)' /\ got' = g
      BY <1>2, <1>7, <1>11, <3>1
    <3>3. Own(got)'
      BY <3>2 DEF Own, P!Garbled
    <3>4. Earlier(got, Contents(wire))'
      BY <1>2, <1>11, <2>2 DEF Earlier, Before, P!Garbled
    <3> QED
      BY <1>1, <1>2, <1>11, <1>13, <3>3, <3>4
      DEF WhatWasRead, SameOptions, Rising, Before, P!Garbled
  <2> QED
    BY <1>2, <1>6, <1>12, <2>3, <2>4 DEF CodecInv
<1>15. CASE ~P!Failed(f)
  <2>1. PICK w : w = Append(wire, f)
    OBVIOUS
  <2>2. IsFrame(f) /\ f.payload = p /\ f \in Buffers
    <3>1. f # P!NoBuffer
      BY <1>15 DEF P!Failed
    <3>2. PICK m : m = IF p.type = "b" THEN 17 ELSE 18
      OBVIOUS
    <3>3. p.len + m \in Nat
      BY <3>2 DEF Payloads
    <3>4. ~(p.len + m > 1800)
      BY <1>1, <3>1, <3>2, Framed
    <3>5. p.len + m <= 1800
      BY <3>3, <3>4
    <3> QED
      BY <1>1, <3>2, <3>5, Framed DEF IsFrame
  <2>3. PICK l \in Nat : l = Len(wire)
    BY <1>10, LenProperties
  <2>4. /\ w \in Seq(Buffers) /\ Len(w) = l + 1 /\ w[l + 1] = f
        /\ \A i \in 1 .. l : w[i] = wire[i]
    BY <1>10, <2>1, <2>2, <2>3, AppendProperties
  <2>5. AreFrames(w)
    <3>1. ASSUME NEW i \in 1 .. l + 1 PROVE IsFrame(w[i])
      <4>1. CASE i = l + 1
        BY <2>2, <2>4, <4>1
      <4>2. CASE i # l + 1
        <5>1. i \in 1 .. l
          BY <4>2
        <5> QED
          BY <1>10, <2>3, <2>4, <5>1 DEF AreFrames
      <4> QED
        BY <4>1, <4>2
    <3> QED
      BY <2>4, <3>1 DEF AreFrames
  <2>6. PICK u : u = Contents(w)
    OBVIOUS
  <2>7. /\ u \in Seq(Payloads) /\ Len(u) = l + 1 /\ u[l + 1] = p
        /\ \A i \in 1 .. l : u[i] = v[i]
    <3>1. /\ u \in Seq(Payloads) /\ Len(u) = l + 1 /\ \A i \in 1 .. l + 1 : u[i] = w[i].payload
      BY <2>4, <2>6, ContentsIs
    <3>2. \A i \in 1 .. l : v[i] = wire[i].payload
      BY <1>9, <1>10, <2>3, ContentsIs
    <3>3. l + 1 \in 1 .. l + 1 /\ \A i \in 1 .. l : i \in 1 .. l + 1
      OBVIOUS
    <3> QED
      BY <2>2, <2>4, <3>1, <3>2, <3>3
  <2>8. ASSUME NEW s, Own(s), NEW i \in 1 .. Len(s) PROVE Before(s[i], p)
    <3>1. CASE s[i] = P!Garbled
      BY <3>1, NotBefore
    <3>2. CASE s[i] # P!Garbled
      <4>1. s[i].id \in 1 .. n /\ p.id = n + 1
        BY <1>3, <2>8, <3>2 DEF Own
      <4> QED
        BY <4>1 DEF Before
    <3> QED
      BY <3>1, <3>2
  <2>9. Rising(u)
    <3>1. ASSUME NEW i \in 1 .. l + 1, NEW j \in 1 .. l + 1, i < j PROVE Before(u[i], u[j])
      <4>1. i \in 1 .. l
        BY <3>1
      <4>2. CASE j = l + 1
        BY <1>10, <2>3, <2>7, <2>8, <4>1, <4>2
      <4>3. CASE j # l + 1
        <5>1. j \in 1 .. l
          BY <4>3
        <5> QED
          BY <1>10, <2>3, <2>7, <3>1, <4>1, <5>1 DEF Rising
      <4> QED
        BY <4>2, <4>3
    <3> QED
      BY <2>7, <3>1 DEF Rising
  <2>10. Earlier(got, u)
    <3>1. ASSUME NEW i \in 1 .. Len(got), NEW j \in 1 .. l + 1 PROVE Before(got[i], u[j])
      <4>1. CASE j = l + 1
        <5>1. PICK g : g = got
          OBVIOUS
        <5>2. Before(g[i], p)
          BY <1>11, <2>8, <5>1
        <5> QED
          BY <2>7, <4>1, <5>1, <5>2
      <4>2. CASE j # l + 1
        <5>1. j \in 1 .. l
          BY <4>2
        <5> QED
          BY <1>10, <1>11, <2>3, <2>7, <5>1 DEF Earlier
      <4> QED
        BY <4>1, <4>2
    <3> QED
      BY <2>7, <3>1 DEF Earlier
  <2>11. Own(u)'
    <3>1. Own(v)'
      BY <1>7, <1>10
    <3>2. \A i \in 1 .. l : v[i] # P!Garbled => v[i].id \in 1 .. n + 1 /\ v[i] = ss[v[i].id]
      BY <1>4, <1>5, <1>10, <2>3, <3>1 DEF Own, P!Garbled
    <3>3. ASSUME NEW i \in 1 .. l + 1, u[i] # P!Garbled
          PROVE  u[i].id \in 1 .. n + 1 /\ u[i] = ss[u[i].id]
      <4>1. CASE i = l + 1
        <5>1. u[i] = p /\ p.id = n + 1
          BY <1>3, <2>7, <4>1
        <5> QED
          BY <1>5, <5>1
      <4>2. CASE i # l + 1
        <5>1. i \in 1 .. l
          BY <4>2
        <5> QED
          BY <2>7, <3>2, <3>3, <5>1
      <4> QED
        BY <4>1, <4>2
    <3> QED
      BY <1>4, <1>5, <2>7, <3>3 DEF Own, P!Garbled
  <2>12. wire' = w /\ Contents(wire)' = u
    BY <1>2, <1>15, <2>1, <2>6 DEF Contents
  <2>13. OnTheWay'
    <3>1. AreFrames(wire)'
      BY <1>8, <2>5, <2>12 DEF AreFrames
    <3>2. Own(Contents(wire))'
      BY <2>11, <2>12 DEF Own, P!Garbled
    <3>3. Rising(Contents(wire))'
      BY <2>9, <2>12 DEF Rising, Before, P!Garbled
    <3> QED
      BY <3>1, <3>2, <3>3 DEF OnTheWay
  <2>14. WhatWasRead'
    <3>1. PICK g : g = got
      OBVIOUS
    <3>2. Own(g)' /\ got' = g
      BY <1>2, <1>7, <1>11, <3>1
    <3>3. Own(got)'
      BY <3>2 DEF Own, P!Garbled
    <3>4. Earlier(got, Contents(wire))'
      BY <1>2, <2>10, <2>12 DEF Earlier, Before, P!Garbled
    <3> QED
      BY <1>1, <1>2, <1>11, <1>13, <3>3, <3>4
      DEF WhatWasRead, SameOptions, Rising, Before, P!Garbled
  <2> QED
    BY <1>2, <1>6, <1>12, <2>13, <2>14 DEF CodecInv
<1> QED
  BY <1>14, <1>15

\* A step that leaves the codec alone keeps its invariant.
LEMMA CodecRest ==
    ASSUME CodecInv, part' = part, SameOptions, UNCHANGED <<sent, wire, arrived, got>>
    PROVE  CodecInv'
<1>1. SUFFICES ASSUME part = "codec" PROVE CodecInv'
  BY DEF CodecInv
<1>2. Options /\ NumberedSent /\ OnTheWay /\ WhatWasRead /\ AsItArrived
  BY <1>1 DEF CodecInv
<1>3. Buffers' = Buffers /\ \A b : IsFrame(b)' <=> IsFrame(b)
  BY FramesStay
<1>4. \A s : Own(s)' <=> Own(s)
  BY DEF Own, P!Garbled
<1>5. PICK v, g : v = Contents(wire) /\ g = got
  OBVIOUS
<1>6. Contents(wire)' = v /\ got' = g
  BY <1>5 DEF Contents
<1>7. Own(v)' /\ Own(g)' /\ Rising(v) /\ Rising(g) /\ Earlier(g, v)
  BY <1>2, <1>4, <1>5 DEF OnTheWay, WhatWasRead
<1>8. /\ Own(Contents(wire))' /\ Own(got)' /\ Rising(Contents(wire))' /\ Rising(got)'
      /\ Earlier(got, Contents(wire))'
  BY <1>6, <1>7 DEF Own, Rising, Earlier, Before, P!Garbled
<1>9. AreFrames(wire)'
  BY <1>2, <1>3 DEF AreFrames, OnTheWay
<1>10. Options' /\ NumberedSent' /\ OnTheWay'
  BY <1>2, <1>8, <1>9 DEF Options, NumberedSent, OnTheWay, SameOptions, Payloads
<1>11. WhatWasRead'
  BY <1>2, <1>8 DEF WhatWasRead, SameOptions, Readables, Payloads, P!Garbled
<1>12. AsItArrived'
  BY <1>2, <1>3 DEF AsItArrived, SameOptions
<1> QED
  BY <1>10, <1>11, <1>12 DEF CodecInv

\* Every step keeps the invariant of the codec.
LEMMA CodecStep ==
    ASSUME CodecInv, [WireNext]_<<part, vars, codec, raw>> PROVE CodecInv'
<1>1. CASE UNCHANGED <<part, vars, codec, raw>>
  <2>1. /\ part' = part /\ SameOptions /\ UNCHANGED <<sent, wire, arrived, got>>
    BY <1>1 DEF codec, SameOptions
  <2> QED
    BY <2>1, CodecRest
<1>2. CASE part = "replay" /\ Next /\ UNCHANGED <<part, codec, raw>>
  BY <1>2 DEF CodecInv
<1>3. CASE part = "raw" /\ S!Next /\ UNCHANGED <<part, vars, codec>>
  BY <1>3 DEF CodecInv
<1>4. CASE part = "codec" /\ P!Next /\ UNCHANGED <<part, vars, raw>>
  <2>1. part = "codec" /\ part' = part /\ P!Next
    BY <1>4
  <2>2. ASSUME NEW len \in Nat, NEW type \in {"d", "h"}, P!Send(len, type) PROVE CodecInv'
    <3>1. PICK p : p = [id |-> Len(sent) + 1, type |-> type, len |-> len]
      OBVIOUS
    <3>2. PICK n \in Nat : n = Len(sent)
      BY <2>1, LenProperties DEF CodecInv, NumberedSent
    <3>3. p \in Payloads /\ p.id = Len(sent) + 1 /\ p.type # "b"
      <4>1. type # "b" /\ type \in {"b", "h", "d"} /\ n + 1 \in Nat \ {0}
        OBVIOUS
      <4> QED
        BY <3>1, <3>2, <4>1 DEF Payloads
    <3>4. PICK f : f = FrameOf(p)
      OBVIOUS
    <3>5. P!Transmit(p, f)
      BY <2>2, <3>1, <3>3, <3>4 DEF P!Send, FrameOf
    <3> QED
      BY <2>1, <3>3, <3>4, <3>5, SendStep
  <2>3. CASE \E len \in PayloadLengths : P!Send(len, "d")
    <3>1. PICK len \in PayloadLengths : P!Send(len, "d")
      BY <2>3
    <3>2. len \in Nat
      BY LengthsAssumption
    <3>3. PICK type \in {"d", "h"} : type = "d"
      OBVIOUS
    <3>4. P!Send(len, type)
      BY <3>1, <3>3
    <3> QED
      BY <2>2, <3>2, <3>4
  <2>4. CASE P!Send(0, "h")
    <3>1. PICK len \in Nat, type \in {"d", "h"} : len = 0 /\ type = "h"
      OBVIOUS
    <3>2. P!Send(len, type)
      BY <2>4, <3>1
    <3> QED
      BY <2>2, <3>2
  <2>5. CASE P!send_handshake
    <3>1. PICK type \in {"b", "h", "d"}, len \in Nat : type = "b" /\ len = 12
      OBVIOUS
    <3>2. PICK p : p = [id |-> Len(sent) + 1, type |-> type, len |-> len]
      OBVIOUS
    <3>3. PICK n \in Nat : n = Len(sent)
      BY <2>1, LenProperties DEF CodecInv, NumberedSent
    <3>4. p \in Payloads /\ p.id = Len(sent) + 1 /\ p.type = "b" /\ p.len = 12
      <4>1. n + 1 \in Nat \ {0}
        OBVIOUS
      <4> QED
        BY <3>1, <3>2, <3>3, <4>1 DEF Payloads
    <3>5. PICK f : f = FrameOf(p)
      OBVIOUS
    <3>6. P!Transmit(p, f)
      BY <2>5, <3>1, <3>2, <3>4, <3>5 DEF P!send_handshake, P!HandshakeLen, FrameOf
    <3> QED
      BY <2>1, <3>4, <3>5, <3>6, SendStep
  <2>6. CASE P!Lose
    BY <2>1, <2>6, LoseStep
  <2>7. ASSUME NEW k \in 1 .. MaxMerge, NEW cut \in {0, 1}, k <= Len(wire),
               P!ReceiveSafer(k, cut) \/ P!ReceiveBare(k, cut)
        PROVE  CodecInv'
    <3>1. k \in Nat \ {0}
      BY PacketsAssumption
    <3>2. CASE P!ReceiveSafer(k, cut)
      BY <2>1, <2>7, <3>1, <3>2, SaferStep
    <3>3. CASE P!ReceiveBare(k, cut)
      BY <2>1, <2>7, <3>1, <3>3, BareStep
    <3> QED
      BY <2>7, <3>2, <3>3
  <2> QED
    BY <2>1, <2>3, <2>4, <2>5, <2>6, <2>7 DEF P!Next
<1> QED
  BY <1>1, <1>2, <1>3, <1>4 DEF WireNext

\* It holds in every reachable state.
LEMMA CodecAlways ==
    WireSpec => []CodecInv
<1>1. WireInit => CodecInv
  BY CodecInitial
<1>2. CodecInv /\ [WireNext]_<<part, vars, codec, raw>> => CodecInv'
  BY CodecStep
<1> QED
  BY <1>1, <1>2, PTL DEF WireSpec

Fits(len, data) == len + 2 \in 1 .. 1800 + 400 /\ data + 18 \in 1 .. 1800

\* What is on the way fits, and what leaves room for the layers is not refused.
LEMMA Room ==
    ASSUME CodecInv, part = "codec" PROVE P!RoomEnough
<1>1. Options /\ NumberedSent /\ OnTheWay
  BY DEF CodecInv
<1>2. PICK a \in 0 .. 20 : a = P!AuthLen[auth_mode]
  BY <1>1, AuthLenIs
<1>3. DOMAIN wire = 1 .. Len(wire) /\ DOMAIN sent = 1 .. Len(sent) /\ sent \in Seq(Payloads)
  BY <1>1, LenProperties DEF OnTheWay, AreFrames, NumberedSent
<1>4. ASSUME NEW i \in 1 .. Len(wire)
      PROVE  Fits(wire[i].len, wire[i].payload.len)
  <2>1. PICK f, p, n : f = wire[i] /\ p = f.payload /\ n = IF p.type = "b" THEN 17 ELSE 18
    OBVIOUS
  <2>2. IsFrame(f)
    BY <1>1, <2>1 DEF OnTheWay, AreFrames
  <2>3. p \in Payloads /\ p.len + n <= 1800 /\ f.len >= p.len + n /\ f.len <= p.len + n + a + 16
    BY <1>1, <1>2, <2>1, <2>2, FrameIs
  <2>4. f.len \in Nat /\ p.len \in Nat
    BY <2>2, <2>3 DEF IsFrame, Buffers, Payloads
  <2>5. p.type = "b" => p.len = 12
    <3>1. Contents(wire)[i] = p /\ Len(Contents(wire)) = Len(wire)
      BY <1>1, <2>1, FrameTypes DEF OnTheWay
    <3>2. p # P!Garbled
      BY <2>3 DEF Payloads, P!Garbled
    <3>3. p.id \in 1 .. Len(sent) /\ p = sent[p.id]
      BY <1>1, <3>1, <3>2 DEF OnTheWay, Own
    <3> QED
      BY <1>1, <3>3 DEF NumberedSent
  <2>6. (n = 17 /\ p.len = 12) \/ n = 18
    BY <2>1, <2>5
  <2>7. PICK x \in Nat, y \in Nat : x = f.len /\ y = p.len
    BY <2>4
  <2>8. /\ y + n <= 1800 /\ x >= y + n /\ x <= y + n + a + 16
        /\ ((n = 17 /\ y = 12) \/ n = 18)
    BY <2>3, <2>6, <2>7
  <2>9. Fits(x, y)
    BY <2>8 DEF Fits
  <2>10. x = wire[i].len /\ y = wire[i].payload.len
    BY <2>1, <2>7
  <2> QED
    BY <2>9, <2>10
<1>5. ASSUME NEW i \in 1 .. Len(sent), sent[i].len <= 1800 - 18 - a - 16
      PROVE  ~P!Failed(FrameOf(sent[i])) /\ FrameOf(sent[i]).len <= 1800
  <2>1. PICK p \in Payloads : p = sent[i]
    BY <1>3, ElementOfSeq
  <2>2. PICK n \in {17, 18}, f \in {FrameOf(p)} : n = IF p.type = "b" THEN 17 ELSE 18
    OBVIOUS
  <2>3. PICK y \in Nat : y = p.len
    BY DEF Payloads
  <2>4. y + n <= 1800 /\ y + n + a + 16 <= 1800
    BY <1>5, <2>1, <2>3, SMTT(30)
  <2>5. IsFrame(f) /\ f.len <= y + n + a + 16
    BY <1>1, <1>2, <2>2, <2>3, <2>4, Framed
  <2>6. f.len \in Nat /\ ~P!Failed(f)
    BY <2>5, NotFailed DEF IsFrame, Buffers
  <2> QED
    BY <2>1, <2>2, <2>4, <2>5, <2>6
<1>6. ASSUME NEW i \in DOMAIN wire
      PROVE  /\ wire[i].len + 2 \in 1 .. P!max_data_len + 400
             /\ wire[i].payload.len + P!HeaderLen \in 1 .. P!max_data_len
  <2>1. PICK x, y : x = wire[i].len /\ y = wire[i].payload.len
    OBVIOUS
  <2>2. Fits(x, y)
    BY <1>3, <1>4, <2>1
  <2>3. x + 2 \in 1 .. 1800 + 400 /\ y + 18 \in 1 .. 1800
    BY <2>2 DEF Fits
  <2>4. x + 2 \in 1 .. P!max_data_len + 400 /\ y + P!HeaderLen \in 1 .. P!max_data_len
    BY <2>3, Zenon DEF P!max_data_len, P!HeaderLen
  <2>5. QED
    BY <2>1, <2>4, Zenon
<1>7. ASSUME NEW i \in DOMAIN sent,
             sent[i].len <= P!max_data_len - P!HeaderLen - P!AuthLen[auth_mode] - 16
      PROVE  ~P!Failed(FrameOf(sent[i])) /\ FrameOf(sent[i]).len <= P!max_data_len
  <2>1. P!max_data_len = 1800 /\ P!HeaderLen = 18
    BY DEF P!max_data_len, P!HeaderLen
  <2>2. sent[i].len <= 1800 - 18 - a - 16
    BY <1>2, <1>7, <2>1
  <2> QED
    BY <1>3, <1>5, <2>1, <2>2
<1> QED
  BY <1>6, <1>7, Zenon DEF P!RoomEnough, FrameOf

\* Whatever the kernel merges, what arrives complete is read as it was sent.
THEOREM ReadBackAlways ==
    WireSpec => []ReadBack
<1>1. CodecInv => ReadBack
  <2>1. SUFFICES ASSUME CodecInv, part = "codec" PROVE P!ReadBack
    BY Room DEF ReadBack
  <2>2. arrived \in Seq(Buffers)
        /\ (auth_mode # "none" /\ NoneLong(arrived, Len(arrived)) => got = Contents(arrived))
    BY <2>1 DEF CodecInv, AsItArrived
  <2>3. DOMAIN arrived = 1 .. Len(arrived)
    BY <2>2, LenProperties
  <2>4. ASSUME ~\E f \in {arrived[i] : i \in DOMAIN arrived} : f.len > 1800
        PROVE  NoneLong(arrived, Len(arrived))
    <3>1. ASSUME NEW i \in 1 .. Len(arrived) PROVE arrived[i].len <= 1800
      <4>1. ~(arrived[i].len > 1800)
        BY <2>3, <2>4
      <4>2. arrived[i].len \in Nat
        <5>1. arrived[i] \in Buffers
          BY <2>2, ElementOfSeq
        <5> QED
          BY <5>1 DEF Buffers
      <4> QED
        BY <4>1, <4>2
    <3> QED
      BY <3>1 DEF NoneLong
  <2> QED
    BY <2>2, <2>3, <2>4 DEF P!ReadBack, P!max_data_len, Contents
<1> QED
  BY <1>1, CodecAlways, PTL

\* What is read was sent, once, in that order, as what it was.
THEOREM OnlySentAlways ==
    WireSpec => []OnlySent
<1>1. CodecInv => OnlySent
  <2>1. SUFFICES ASSUME CodecInv, part = "codec" PROVE P!OnlySent
    BY DEF OnlySent
  <2>2. WhatWasRead /\ NumberedSent
    BY <2>1 DEF CodecInv
  <2>3. DOMAIN got = 1 .. Len(got) /\ DOMAIN sent = 1 .. Len(sent)
    BY <2>2, LenProperties DEF WhatWasRead, NumberedSent
  <2> DEFINE meant == {i \in DOMAIN got : got[i] # P!Garbled}
             f == [i \in meant |-> got[i].id]
  <2>4. f \in [meant -> DOMAIN sent]
    BY <2>2, <2>3 DEF WhatWasRead, Own
  <2>5. \A i \in meant : got[i] = sent[f[i]]
    BY <2>2, <2>3 DEF WhatWasRead, Own
  <2>6. \A i, j \in meant : i < j => f[i] < f[j]
    BY <2>2, <2>3 DEF WhatWasRead, Rising, Before
  <2>7. auth_mode # "none" => meant = DOMAIN got
    BY <2>2, <2>3 DEF WhatWasRead
  <2> QED
    BY <2>4, <2>5, <2>6, <2>7, Zenon DEF P!OnlySent
<1> QED
  BY <1>1, CodecAlways, PTL
=============================================================================
