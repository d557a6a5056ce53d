-------------------------- MODULE PcapReaderProofs --------------------------
(***************************************************************************)
(* The hand-over from the pcap thread to the event loop is safe for every  *)
(* length of the ring and any number of packets.                           *)
(***************************************************************************)
EXTENDS PcapReader, SequenceTheorems, TLAPS

(* Why the slot stays intact: from the pop on, the borrowed slot is the    *)
(* one just before head, which full() keeps the reader from filling.       *)
Borrowing ==
    main \in {"copy", "copy_header"} =>
        head = (slot + 1) % queue_len /\ data[slot] = borrowed

(* Who holds pcap_mutex is known from where the threads are.               *)
Locking ==
    /\ reader \in {"loop", "queue", "signal"} <=> pcap_mutex = "reader"
    /\ main = "filter" <=> pcap_mutex = "main"

(* No wakeup is lost while the event loop is outside async_cb, whether it  *)
(* waits for an event or is busy in init_filter.                           *)
Wakeup ==
    main \in {"idle", "try", "filter"} /\ ~empty /\ ~pending =>
        reader = "signal" \/ early

(* Contents without the remainders: the ring holds Held packets, the i-th  *)
(* of them at At(i), and they are the last ones queued.                    *)
Held == IF tail >= head THEN tail - head ELSE tail + queue_len - head
At(i) == IF head + i - 1 < queue_len THEN head + i - 1 ELSE head + i - 1 - queue_len
Ordered ==
    /\ Len(queued) = Len(dequeued) + Held
    /\ \A i \in 1 .. Len(dequeued) : queued[i] = dequeued[i]
    /\ \A i \in 1 .. Held : queued[Len(dequeued) + i] = data[At(i)]

IInv == TypeOK /\ Borrowing /\ Locking /\ Wakeup /\ Ordered

-----------------------------------------------------------------------------
(* The index after a slot is a slot.                                       *)
LEMMA SlotAfter == \A s \in Slots : (s + 1) % queue_len \in Slots
  BY ConstantsAssumption DEF Slots

(* The ring starts empty, unborrowed and unlocked.                         *)
LEMMA InitIInv == Init => IInv
<1> SUFFICES ASSUME Init PROVE IInv
  OBVIOUS
<1>1. NoPacket \in Packets /\ 0 \in Slots
  BY ConstantsAssumption DEF NoPacket, Packets, Slots
<1>2. TypeOK
  BY <1>1 DEF Init, TypeOK
<1>3. Borrowing /\ Locking /\ Wakeup
  BY DEF Init, Borrowing, Locking, Wakeup, empty
<1>4. Ordered
  BY DEF Init, Ordered, Held
<1> QED
  BY <1>2, <1>3, <1>4 DEF IInv

(* Taking a packet out keeps the ring and the borrowed packet well formed. *)
LEMMA PopTypes ==
    ASSUME TypeOK, pop_front
    PROVE  /\ data' \in [Slots -> Packets] /\ head' \in Slots /\ tail' \in Slots
           /\ slot' \in Slots /\ borrowed' \in Packets
           /\ dequeued' \in Seq(Packets)
<1>1. data[head] \in Packets
  BY DEF TypeOK
<1>2. dequeued' \in Seq(Packets)
  BY <1>1 DEF TypeOK, pop_front
<1> QED
  BY <1>1, <1>2, SlotAfter DEF TypeOK, pop_front

(* So does putting one in.                                                 *)
LEMMA PushTypes ==
    ASSUME TypeOK, push_back(pkt)
    PROVE  data' \in [Slots -> Packets] /\ head' \in Slots /\ tail' \in Slots
  BY SlotAfter DEF TypeOK, push_back

(* Every step keeps the types.                                             *)
LEMMA StepTypeOK == TypeOK /\ [Next]_vars => TypeOK'
<1> SUFFICES ASSUME TypeOK, [Next]_vars PROVE TypeOK'
  OBVIOUS
<1> USE DEF TypeOK
<1>0. CASE UNCHANGED vars
  BY <1>0 DEF vars, ring, lock
<1>1. CASE ReaderLock
  BY <1>1 DEF ReaderLock, ring, lock
<1>2. CASE Capture
  BY <1>2, ConstantsAssumption DEF Capture, ring, lock, Packets
<1>3. CASE QueuePacket
  BY SMTT(30), <1>3, PushTypes DEF QueuePacket, ring, lock
<1>4. CASE AsyncSend
  BY <1>4 DEF AsyncSend, ring, lock
<1>5. CASE LoopReturns
  BY <1>5 DEF LoopReturns, ring, lock
<1>6. CASE ReaderWakes
  BY <1>6 DEF ReaderWakes, ring, lock
<1>7. CASE AsyncCb
  BY <1>7 DEF AsyncCb, ring, lock
<1>8. CASE TakeHeader
  BY <1>8, PopTypes DEF TakeHeader, ring, lock
<1>9. CASE CopyHeader
  BY <1>9 DEF CopyHeader, ring, lock
<1>10. CASE TakeFront
  BY <1>10, PopTypes DEF TakeFront, ring, lock
<1>11. CASE HandlePacket
  BY <1>11 DEF HandlePacket, ring, lock
<1>12. CASE InitFilter
  BY <1>12 DEF InitFilter, ring, lock
<1>13. CASE TryLockFails
  BY <1>13 DEF TryLockFails, ring, lock
<1>14. CASE TryLockSucceeds
  BY <1>14 DEF TryLockSucceeds, ring, lock
<1>15. CASE SetFilter
  BY <1>15 DEF SetFilter, ring, lock
<1> QED
  BY <1>0, <1>1, <1>2, <1>3, <1>4, <1>5, <1>6, <1>7, <1>8, <1>9, <1>10, <1>11, <1>12, <1>13,
     <1>14, <1>15
  DEF Next, Reader, Main

(* A push at tail leaves the slot before head alone, because a ring in     *)
(* which tail is that slot counts as full.                                 *)
LEMMA PushSparesBorrowed ==
    ASSUME TypeOK, Borrowing, ~full, NEW x, push_back(x)
    PROVE  main \in {"copy", "copy_header"} => data'[slot] = borrowed
  BY DEF TypeOK, Borrowing, full, push_back

(* Every step leaves a borrowed slot as it is.                             *)
LEMMA StepBorrowing == TypeOK /\ Borrowing /\ [Next]_vars => Borrowing'
<1> SUFFICES ASSUME TypeOK, Borrowing, [Next]_vars PROVE Borrowing'
  OBVIOUS
<1>0. CASE UNCHANGED vars
  BY <1>0 DEF Borrowing, vars, ring, lock
<1>1. CASE ReaderLock
  BY <1>1 DEF ReaderLock, Borrowing, ring, lock
<1>2. CASE Capture
  BY <1>2 DEF Capture, Borrowing, ring, lock
<1>3. CASE QueuePacket
  <2>1. CASE full /\ UNCHANGED <<ring, queued>>
    BY <1>3, <2>1 DEF QueuePacket, Borrowing, ring
  <2>2. CASE ~full /\ push_back(pkt)
    BY <1>3, <2>2, PushSparesBorrowed DEF QueuePacket, Borrowing, push_back
  <2> QED
    BY <1>3, <2>1, <2>2 DEF QueuePacket
<1>4. CASE AsyncSend
  BY <1>4 DEF AsyncSend, Borrowing, ring, lock
<1>5. CASE LoopReturns
  BY <1>5 DEF LoopReturns, Borrowing, ring, lock
<1>6. CASE ReaderWakes
  BY <1>6 DEF ReaderWakes, Borrowing, ring, lock
<1>7. CASE AsyncCb
  BY <1>7 DEF AsyncCb, Borrowing, ring, lock
<1>8. CASE TakeHeader
  BY <1>8 DEF TakeHeader, Borrowing, ring, lock, pop_front, TypeOK
<1>9. CASE CopyHeader
  BY <1>9 DEF CopyHeader, Borrowing, ring, lock
<1>10. CASE TakeFront
  BY <1>10 DEF TakeFront, Borrowing, ring, lock, pop_front, TypeOK
<1>11. CASE HandlePacket
  BY <1>11 DEF HandlePacket, Borrowing, ring, lock
<1>12. CASE InitFilter
  BY <1>12 DEF InitFilter, Borrowing, ring, lock
<1>13. CASE TryLockFails
  BY <1>13 DEF TryLockFails, Borrowing, ring, lock
<1>14. CASE TryLockSucceeds
  BY <1>14 DEF TryLockSucceeds, Borrowing, ring, lock
<1>15. CASE SetFilter
  BY <1>15 DEF SetFilter, Borrowing, ring, lock
<1> QED
  BY <1>0, <1>1, <1>2, <1>3, <1>4, <1>5, <1>6, <1>7, <1>8, <1>9, <1>10, <1>11, <1>12, <1>13,
     <1>14, <1>15
  DEF Next, Reader, Main

(* Every step moves the mutex together with the thread.                    *)
LEMMA StepLocking == TypeOK /\ Locking /\ [Next]_vars => Locking'
<1> SUFFICES ASSUME TypeOK, Locking, [Next]_vars PROVE Locking'
  OBVIOUS
<1> USE DEF Locking
<1>0. CASE UNCHANGED vars
  BY <1>0 DEF vars, ring, lock
<1>1. CASE ReaderLock
  BY <1>1 DEF ReaderLock, ring, lock, TypeOK
<1>2. CASE Capture
  BY <1>2 DEF Capture, ring, lock, TypeOK
<1>3. CASE QueuePacket
  BY <1>3 DEF QueuePacket, ring, lock, TypeOK
<1>4. CASE AsyncSend
  BY <1>4 DEF AsyncSend, ring, lock, TypeOK
<1>5. CASE LoopReturns
  BY <1>5 DEF LoopReturns, ring, lock, TypeOK
<1>6. CASE ReaderWakes
  BY <1>6 DEF ReaderWakes, ring, lock, TypeOK
<1>7. CASE AsyncCb
  BY <1>7 DEF AsyncCb, ring, lock, TypeOK
<1>8. CASE TakeHeader
  BY <1>8 DEF TakeHeader, ring, lock, TypeOK
<1>9. CASE CopyHeader
  BY <1>9 DEF CopyHeader, ring, lock, TypeOK
<1>10. CASE TakeFront
  BY <1>10 DEF TakeFront, ring, lock, TypeOK
<1>11. CASE HandlePacket
  BY <1>11 DEF HandlePacket, ring, lock, TypeOK
<1>12. CASE InitFilter
  BY <1>12 DEF InitFilter, ring, lock, TypeOK
<1>13. CASE TryLockFails
  BY <1>13 DEF TryLockFails, ring, lock, TypeOK
<1>14. CASE TryLockSucceeds
  BY <1>14 DEF TryLockSucceeds, ring, lock, TypeOK
<1>15. CASE SetFilter
  BY <1>15 DEF SetFilter, ring, lock, TypeOK
<1> QED
  BY <1>0, <1>1, <1>2, <1>3, <1>4, <1>5, <1>6, <1>7, <1>8, <1>9, <1>10, <1>11, <1>12, <1>13,
     <1>14, <1>15
  DEF Next, Reader, Main

(* Every push is followed by a signal, and async_cb returns with the ring  *)
(* empty or says that it returned early.                                   *)
LEMMA StepWakeup == TypeOK /\ Wakeup /\ [Next]_vars => Wakeup'
<1> SUFFICES ASSUME TypeOK, Wakeup, [Next]_vars PROVE Wakeup'
  OBVIOUS
<1> USE DEF Wakeup, empty
<1>0. CASE UNCHANGED vars
  BY <1>0 DEF vars, ring, lock
<1>1. CASE ReaderLock
  BY <1>1 DEF ReaderLock, ring, lock, TypeOK
<1>2. CASE Capture
  BY <1>2 DEF Capture, ring, lock, TypeOK
<1>3. CASE QueuePacket
  BY <1>3 DEF QueuePacket, ring, lock, TypeOK, push_back
<1>4. CASE AsyncSend
  BY <1>4 DEF AsyncSend, ring, lock, TypeOK
<1>5. CASE LoopReturns
  BY <1>5 DEF LoopReturns, ring, lock, TypeOK
<1>6. CASE ReaderWakes
  BY <1>6 DEF ReaderWakes, ring, lock, TypeOK
<1>7. CASE AsyncCb
  BY <1>7 DEF AsyncCb, ring, lock, TypeOK
<1>8. CASE TakeHeader
  BY <1>8 DEF TakeHeader, ring, lock, TypeOK, pop_front
<1>9. CASE CopyHeader
  BY <1>9 DEF CopyHeader, ring, lock, TypeOK
<1>10. CASE TakeFront
  BY <1>10 DEF TakeFront, ring, lock, TypeOK, pop_front
<1>11. CASE HandlePacket
  BY <1>11 DEF HandlePacket, ring, lock, TypeOK
<1>12. CASE InitFilter
  BY <1>12 DEF InitFilter, ring, lock, TypeOK
<1>13. CASE TryLockFails
  BY <1>13 DEF TryLockFails, ring, lock, TypeOK
<1>14. CASE TryLockSucceeds
  BY <1>14 DEF TryLockSucceeds, ring, lock, TypeOK
<1>15. CASE SetFilter
  BY <1>15 DEF SetFilter, ring, lock, TypeOK
<1> QED
  BY <1>0, <1>1, <1>2, <1>3, <1>4, <1>5, <1>6, <1>7, <1>8, <1>9, <1>10, <1>11, <1>12, <1>13,
     <1>14, <1>15
  DEF Next, Reader, Main

(* A remainder below twice the divisor.                                    *)
LEMMA Remainder ==
    \A n \in Nat : n < 2 * queue_len =>
        n % queue_len = IF n < queue_len THEN n ELSE n - queue_len
<1>1. queue_len \in Nat \ {0}
  BY ConstantsAssumption
<1> QED
  BY <1>1

(* The index after an index.                                               *)
LEMMA Successor ==
    \A s \in Slots : (s + 1) % queue_len = IF s + 1 < queue_len THEN s + 1 ELSE 0
<1> SUFFICES ASSUME NEW s \in Slots
             PROVE  (s + 1) % queue_len = IF s + 1 < queue_len THEN s + 1 ELSE 0
  OBVIOUS
<1>1. PICK n \in Nat : n = s + 1
  BY DEF Slots
<1>2. n < 2 * queue_len /\ (~(n < queue_len) => n - queue_len = 0)
  BY <1>1, ConstantsAssumption DEF Slots
<1>3. n % queue_len = IF n < queue_len THEN n ELSE n - queue_len
  BY <1>2, Remainder
<1> QED
  BY <1>1, <1>2, <1>3

(* Where the ring's indices are.                                           *)
LEMMA Indices ==
    ASSUME TypeOK
    PROVE  /\ queue_len \in Nat \ {0} /\ head \in Nat /\ tail \in Nat
           /\ head < queue_len /\ tail < queue_len
           /\ Held \in Nat /\ Held < queue_len
           /\ \A i \in 1 .. Held : At(i) \in Slots /\ At(i) # tail
  BY ConstantsAssumption DEF TypeOK, Slots, Held, At

(* Taking the front out moves one packet from the ring to dequeued.        *)
LEMMA PopOrdered ==
    ASSUME TypeOK, Ordered, ~empty, pop_front, queued' = queued
    PROVE  Ordered'
<1>1. /\ queue_len \in Nat \ {0} /\ head \in Nat /\ tail \in Nat
      /\ head < queue_len /\ tail < queue_len /\ head # tail
  BY Indices DEF empty
<1>2. /\ head' = IF head + 1 < queue_len THEN head + 1 ELSE 0
      /\ tail' = tail /\ data' = data
  BY Successor DEF pop_front, TypeOK
<1>3. Held \in 1 .. queue_len /\ Held' = Held - 1
  BY <1>1, <1>2 DEF Held
<1>4. \A i \in 1 .. Held - 1 : At(i)' = At(i + 1)
  BY <1>1, <1>2, <1>3 DEF At
<1>5. At(1) = head
  BY <1>1 DEF At
<1>6. /\ dequeued \in Seq(Packets) /\ data[head] \in Packets
      /\ dequeued' = Append(dequeued, data[head])
  BY DEF TypeOK, pop_front
<1>7. /\ Len(dequeued) \in Nat /\ Len(dequeued') = Len(dequeued) + 1
      /\ \A i \in 1 .. Len(dequeued) : dequeued'[i] = dequeued[i]
      /\ dequeued'[Len(dequeued) + 1] = data[head]
  BY <1>6, AppendProperties, LenProperties
<1> DEFINE n == Len(dequeued)
<1>8. queued[n + 1] = data[head]
  BY <1>3, <1>5 DEF Ordered
<1>9. ASSUME NEW i \in 1 .. Held - 1 PROVE queued[(n + 1) + i] = data[At(i + 1)]
  <2>1. i + 1 \in 1 .. Held /\ n + (i + 1) = (n + 1) + i
    BY <1>3, <1>7
  <2>2. queued[n + (i + 1)] = data[At(i + 1)]
    BY <2>1 DEF Ordered
  <2> QED
    BY <2>1, <2>2
<1>10. Len(queued') = Len(dequeued') + Held'
  <2>1. Len(queued') = n + Held
    BY DEF Ordered
  <2> QED
    BY <1>3, <1>7, <2>1
<1>11. ASSUME NEW i \in 1 .. Len(dequeued') PROVE queued'[i] = dequeued'[i]
  <2>1. i \in 1 .. n \/ i = n + 1
    BY <1>7
  <2> QED
    BY <1>7, <1>8, <2>1 DEF Ordered
<1>12. ASSUME NEW i \in 1 .. Held' PROVE queued'[Len(dequeued') + i] = data'[At(i)']
  BY <1>2, <1>3, <1>4, <1>7, <1>9
<1> QED
  BY <1>10, <1>11, <1>12 DEF Ordered

(* Putting a packet in appends it to the ring's contents.                  *)
LEMMA PushOrdered ==
    ASSUME TypeOK, Ordered, ~full, push_back(pkt),
           queued' = Append(queued, pkt), dequeued' = dequeued
    PROVE  Ordered'
<1>1. /\ queue_len \in Nat \ {0} /\ head \in Nat /\ tail \in Nat
      /\ head < queue_len /\ tail < queue_len
  BY Indices
<1>2. /\ tail' = IF tail + 1 < queue_len THEN tail + 1 ELSE 0
      /\ head' = head /\ head # tail' /\ data' = [data EXCEPT ![tail] = pkt]
  BY Successor DEF push_back, full, TypeOK
<1>3. Held \in Nat /\ Held' = Held + 1
  BY <1>1, <1>2 DEF Held
<1>4. \A i : At(i)' = At(i)
  BY <1>2 DEF At
<1>5. At(Held + 1) = tail
  BY <1>1, <1>2 DEF At, Held
<1>6. \A i \in 1 .. Held : At(i) \in Slots /\ At(i) # tail
  BY Indices
<1>7. /\ \A i \in 1 .. Held : data'[At(i)] = data[At(i)]
      /\ data'[tail] = pkt
  BY <1>2, <1>6 DEF TypeOK
<1>8. queued \in Seq(Packets) /\ pkt \in Packets /\ Len(dequeued) \in Nat
  BY LenProperties DEF TypeOK
<1>9. /\ Len(queued) \in Nat /\ Len(queued') = Len(queued) + 1
      /\ \A i \in 1 .. Len(queued) : queued'[i] = queued[i]
      /\ queued'[Len(queued) + 1] = pkt
  BY <1>8, AppendProperties, LenProperties
<1> DEFINE n == Len(dequeued)
<1>10. Len(queued) = n + Held
  BY DEF Ordered
<1>11. Len(queued') = Len(dequeued') + Held'
  BY <1>3, <1>8, <1>9, <1>10
<1>12. ASSUME NEW i \in 1 .. Len(dequeued') PROVE queued'[i] = dequeued'[i]
  <2>1. i \in 1 .. Len(queued) /\ i \in 1 .. n
    BY <1>3, <1>8, <1>10
  <2> QED
    BY <1>9, <2>1 DEF Ordered
<1>13. ASSUME NEW i \in 1 .. Held + 1 PROVE queued'[n + i] = data'[At(i)]
  <2>1. CASE i \in 1 .. Held
    <3>1. n + i \in 1 .. Len(queued)
      BY <1>3, <1>8, <1>10, <2>1
    <3> QED
      BY <1>7, <1>9, <2>1, <3>1 DEF Ordered
  <2>2. CASE i = Held + 1
    <3>1. n + i = Len(queued) + 1
      BY <1>3, <1>8, <1>10, <2>2
    <3> QED
      BY <1>5, <1>7, <1>9, <2>2, <3>1
  <2>3. i \in 1 .. Held \/ i = Held + 1
    BY <1>3
  <2> QED
    BY <2>1, <2>2, <2>3
<1> QED
  BY <1>3, <1>4, <1>11, <1>12, <1>13 DEF Ordered

(* The pointwise form says the same as InOrder.                            *)
LEMMA OrderedInOrder == ASSUME TypeOK, Ordered PROVE InOrder
<1>1. /\ queue_len \in Nat \ {0} /\ head \in Nat /\ tail \in Nat
      /\ head < queue_len /\ tail < queue_len
      /\ Held \in Nat /\ Held < queue_len
      /\ \A i \in 1 .. Held : At(i) \in Slots
  BY Indices
<1>2. (tail + queue_len - head) % queue_len = Held
  <2>1. tail + queue_len - head \in Nat /\ tail + queue_len - head < 2 * queue_len
    BY <1>1
  <2> QED
    BY <1>1, <2>1, Remainder DEF Held
<1>3. \A i \in 1 .. Held : (head + i - 1) % queue_len = At(i)
  <2>1. \A i \in 1 .. Held : head + i - 1 \in Nat /\ head + i - 1 < 2 * queue_len
    BY <1>1
  <2> QED
    BY <1>1, <2>1, Remainder DEF At
<1>4. Contents = [i \in 1 .. Held |-> data[At(i)]]
  BY <1>2, <1>3 DEF Contents
<1>5. Contents \in Seq(Packets) /\ Len(Contents) = Held
  <2>1. \A i \in 1 .. Held : data[At(i)] \in Packets
    BY <1>1 DEF TypeOK
  <2> QED
    BY <1>1, <1>4, <2>1, IsASeq, LenProperties
<1>6. queued \in Seq(Packets) /\ dequeued \in Seq(Packets)
  BY DEF TypeOK
<1> DEFINE n == Len(dequeued)
           s == dequeued \o Contents
<1>7. n \in Nat
  BY <1>6, LenProperties
<1>8. /\ s \in Seq(Packets) /\ Len(s) = n + Held
      /\ \A i \in 1 .. n + Held : s[i] = IF i <= n THEN dequeued[i] ELSE Contents[i - n]
  BY <1>5, <1>6, ConcatProperties
<1>9. ASSUME NEW i \in 1 .. Len(queued) PROVE queued[i] = s[i]
  <2>1. i \in 1 .. n + Held
    BY DEF Ordered
  <2>2. CASE i <= n
    BY <1>7, <1>8, <2>1, <2>2 DEF Ordered
  <2>3. CASE ~(i <= n)
    <3>1. i - n \in 1 .. Held /\ n + (i - n) = i
      BY <1>1, <1>7, <2>1, <2>3
    <3>2. queued[n + (i - n)] = data[At(i - n)]
      BY <3>1 DEF Ordered
    <3>3. s[i] = Contents[i - n]
      BY <1>8, <2>1, <2>3
    <3> QED
      BY <1>4, <3>1, <3>2, <3>3
  <2> QED
    BY <2>2, <2>3
<1>10. Len(queued) = Len(s)
  BY <1>8 DEF Ordered
<1> HIDE DEF s
<1>11. queued = s
  BY <1>6, <1>8, <1>9, <1>10, SeqEqual
<1> QED
  BY <1>11 DEF InOrder, s

(* Every step keeps the order.                                             *)
LEMMA StepOrdered == TypeOK /\ Ordered /\ [Next]_vars => Ordered'
<1> SUFFICES ASSUME TypeOK, Ordered, [Next]_vars PROVE Ordered'
  OBVIOUS
<1>1. ASSUME UNCHANGED <<ring, queued, dequeued>> PROVE Ordered'
  BY <1>1 DEF Ordered, Held, At, ring
<1>2. CASE QueuePacket
  BY <1>1, <1>2, PushOrdered DEF QueuePacket
<1>3. CASE TakeHeader
  BY <1>1, <1>3, PopOrdered DEF TakeHeader
<1>4. CASE TakeFront
  BY <1>1, <1>4, PopOrdered DEF TakeFront
<1>5. \/ UNCHANGED <<ring, queued, dequeued>>
      \/ QueuePacket \/ TakeHeader \/ TakeFront
  BY DEF vars, Next, Reader, Main, ReaderLock, Capture, AsyncSend, LoopReturns, ReaderWakes,
         AsyncCb, CopyHeader, HandlePacket, InitFilter, TryLockFails, TryLockSucceeds, SetFilter
<1> QED
  BY <1>1, <1>2, <1>3, <1>4, <1>5

(* The inductive invariant of the hand-over.                               *)
THEOREM SpecIInv == Spec => []IInv
<1>1. IInv /\ [Next]_vars => IInv'
  BY StepTypeOK, StepBorrowing, StepLocking, StepWakeup, StepOrdered DEF IInv
<1> QED
  BY <1>1, InitIInv, PTL DEF Spec

(* Indices, program points and packets keep their types.                   *)
THEOREM TypeCorrect == Spec => []TypeOK
<1>1. IInv => TypeOK
  BY DEF IInv
<1> QED
  BY <1>1, SpecIInv, PTL

(* async_cb copies the packet it dequeued although it copies it after it   *)
(* released queue_mutex.                                                   *)
THEOREM BorrowedSlotSafe == Spec => []SlotIntact
<1>1. IInv => SlotIntact
  BY DEF IInv, Borrowing, SlotIntact
<1> QED
  BY <1>1, SpecIInv, PTL

(* init_filter replaces the filter only while the reader is out of         *)
(* pcap_loop.                                                              *)
THEOREM FilterMutex == Spec => []FilterExclusive
<1>1. IInv => FilterExclusive
  BY DEF IInv, Locking, FilterExclusive, TypeOK
<1> QED
  BY <1>1, SpecIInv, PTL

(* A packet that async_cb did not leave behind itself is never left in the *)
(* ring without a signal to come.                                          *)
THEOREM WakeupKept == Spec => []NoLostWakeup
<1>1. IInv => NoLostWakeup
  BY DEF IInv, Wakeup, NoLostWakeup
<1> QED
  BY <1>1, SpecIInv, PTL

(* InOrder: for a ring of any length, what the reader queued is what the   *)
(* event loop dequeued followed by what lies between head and tail.        *)
THEOREM RingOrder == Spec => []InOrder
<1>1. IInv => InOrder
  BY OrderedInOrder DEF IInv
<1> QED
  BY <1>1, SpecIInv, PTL
=============================================================================
