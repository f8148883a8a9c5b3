-------------------------- MODULE OrderQueueProofs --------------------------
(***************************************************************************)
(* Proofs about OrderQueue: in a ring of at least two slots, a consumer    *)
(* finds at its position the order that was accepted there, and the queue  *)
(* implements OrderFifo, for any number of threads and orders.             *)
(*                                                                         *)
(* The argument.  The positions tail .. tail + Capacity - 1 have a slot    *)
(* each.  The sequence of a slot says what its position is up to: q, free  *)
(* or being written; q + 1, published or, one lap on, being taken out.  A  *)
(* thread that writes or takes out owns its slot, and nobody else changes  *)
(* it; a compare-and-swap succeeds only while what the thread read of the  *)
(* slot still holds, because positions only grow.  With two slots or more  *)
(* q + 1 and q + Capacity differ and neighbours have different slots; with *)
(* one slot neither is true.                                               *)
(*                                                                         *)
(* On top of it FInv follows an order from its offer to its position, and  *)
(* every step is then a step of OrderFifo or changes nothing of it.        *)
(***************************************************************************)
EXTENDS OrderQueue, SequenceTheorems, TLAPS

-----------------------------------------------------------------------------
(* Positions and slots.                                                    *)

\* What quotient and remainder are.
LEMMA DivMod ==
  \A a \in Nat, c \in Nat \ {0} :
    a = (c * (a \div c)) + (a % c) /\ a % c \in 0..c - 1 /\ a \div c \in Nat
  BY Z3

\* Positions less than c apart have different remainders modulo c.
LEMMA ModUnique ==
  ASSUME NEW c \in Nat \ {0}, NEW q \in Nat, NEW r \in Nat,
         (q % c) = (r % c), q <= r, r < q + c
  PROVE  q = r
<1> DEFINE a == q \div c
           b == r \div c
           m == q % c
<1>1. /\ q = (c * a) + m /\ r = (c * b) + m
      /\ a \in Nat /\ b \in Nat /\ m \in Nat
  <2>1. q = (c * (q \div c)) + (q % c) /\ q % c \in 0..c - 1 /\ q \div c \in Nat
    BY DivMod
  <2>2. r = (c * (r \div c)) + (r % c) /\ r \div c \in Nat
    BY DivMod
  <2> QED BY <2>1, <2>2
<1> HIDE DEF a, b, m
<1>2. c * (b - a) = r - q  BY <1>1, SMT
<1>3. b > a => c * (b - a) >= c
  <2> SUFFICES ASSUME b - a >= 1 PROVE c * (b - a) >= c  BY <1>1
  <2> QED BY <1>1, SMT
<1>4. b <= a => c * (b - a) <= 0
  <2> SUFFICES ASSUME b - a <= 0 PROVE c * (b - a) <= 0  BY <1>1
  <2> QED BY <1>1, SMT
<1> QED BY <1>1, <1>2, <1>3, <1>4

\* One lap on, the remainder is the same.
LEMMA ModShift ==
  ASSUME NEW c \in Nat \ {0}, NEW q \in Nat
  PROVE  ((q + c) % c) = (q % c)
<1> DEFINE a == q \div c
           m == q % c
           b == (q + c) \div c
           n == (q + c) % c
<1>1. /\ q = (c * a) + m /\ q + c = (c * b) + n
      /\ a \in Nat /\ b \in Nat /\ m \in 0..c - 1 /\ n \in 0..c - 1
  <2>1. q = (c * (q \div c)) + (q % c) /\ q % c \in 0..c - 1 /\ q \div c \in Nat
    BY DivMod
  <2>2. q + c \in Nat  OBVIOUS
  <2>3. /\ q + c = (c * ((q + c) \div c)) + ((q + c) % c)
        /\ (q + c) % c \in 0..c - 1 /\ (q + c) \div c \in Nat
    BY <2>2, DivMod
  <2> QED BY <2>1, <2>3
<1> HIDE DEF a, b, m, n
<1>2. c * (b - (a + 1)) = m - n  BY <1>1, SMT
<1>3. b > a + 1 => c * (b - (a + 1)) >= c
  <2> SUFFICES ASSUME b - (a + 1) >= 1 PROVE c * (b - (a + 1)) >= c  BY <1>1
  <2> QED BY <1>1, SMT
<1>4. b < a + 1 => c * (b - (a + 1)) <= -c
  <2> SUFFICES ASSUME b - (a + 1) <= -1 PROVE c * (b - (a + 1)) <= -c  BY <1>1
  <2> QED BY <1>1, SMT
<1>5. b = a + 1  BY <1>1, <1>2, <1>3, <1>4
<1> QED BY <1>1, <1>5 DEF m, n

\* Slots as the proof uses them: neighbours and positions within one lap have
\* different slots, the same position one lap on has the same.
LEMMA RingSlots ==
  ASSUME Capacity >= 2
  PROVE  /\ \A q \in Nat : QSlot(q) \in 0..Capacity - 1
         /\ \A b \in Nat : \A q, r \in b..b + Capacity - 1 :
              QSlot(q) = QSlot(r) => q = r
         /\ \A q \in Nat : QSlot(q + Capacity) = QSlot(q)
         /\ \A q \in Nat : QSlot(q) # QSlot(q + 1)
<1>0. Capacity \in Nat \ {0}  BY QueueAssumption DEF QueueAssumption
<1>1. \A q \in Nat : QSlot(q) \in 0..Capacity - 1
  BY <1>0, DivMod DEF QSlot
<1>2. \A q, r \in Nat :
        QSlot(q) = QSlot(r) /\ q <= r /\ r < q + Capacity => q = r
  BY <1>0, ModUnique DEF QSlot
<1>3. \A q \in Nat : QSlot(q + Capacity) = QSlot(q)
  BY <1>0, ModShift DEF QSlot
<1>4. \A q \in Nat : QSlot(q) # QSlot(q + 1)
  <2> SUFFICES ASSUME NEW q \in Nat, QSlot(q) = QSlot(q + 1)  PROVE FALSE
    OBVIOUS
  <2> QED BY <1>0, <1>2
<1>5. \A b \in Nat : \A q, r \in b..b + Capacity - 1 : QSlot(q) = QSlot(r) => q = r
  <2> SUFFICES ASSUME NEW b \in Nat, NEW q \in b..b + Capacity - 1,
                      NEW r \in b..b + Capacity - 1, QSlot(q) = QSlot(r)
               PROVE  q = r
    OBVIOUS
  <2>1. /\ q \in Nat /\ r \in Nat
        /\ (q <= r /\ r < q + Capacity) \/ (r <= q /\ q < r + Capacity)
    BY <1>0
  <2> QED BY <2>1, <1>2
<1> QED BY <1>1, <1>3, <1>4, <1>5

-----------------------------------------------------------------------------
(* The inductive invariant.                                                *)

Writing(t) == t \in Producers /\ qpc[t] \in {"write", "publish"}
Taking(t)  == t \in Consumers /\ qpc[t] \in {"take", "free"}

Window == tail <= head /\ head <= tail + Capacity

ClaimedSlots ==
  \A q \in tail..head - 1 :
    \/ slotSeq[QSlot(q)] = q
    \/ slotSeq[QSlot(q)] = q + 1 /\ slotData[QSlot(q)] = accepted[q + 1]

FreeSlots ==
  \A q \in head..tail + Capacity - 1 :
    slotSeq[QSlot(q)] = q \/ slotSeq[QSlot(q)] = q - Capacity + 1

WritersOwn ==
  /\ \A t \in Producers : Writing(t) =>
       /\ position[t] \in tail..head - 1
       /\ slotSeq[QSlot(position[t])] = position[t]
       /\ order[t] = accepted[position[t] + 1]
       /\ qpc[t] = "publish" => slotData[QSlot(position[t])] = order[t]
  /\ \A t, u \in Producers :
       Writing(t) /\ Writing(u) /\ t # u => position[t] # position[u]

TakersOwn ==
  /\ \A t \in Consumers : Taking(t) =>
       /\ position[t] \in tail - Capacity..tail - 1
       /\ slotSeq[QSlot(position[t])] = position[t] + 1
       /\ qpc[t] = "take" => slotData[QSlot(position[t])] = accepted[position[t] + 1]
  /\ \A t, u \in Consumers :
       Taking(t) /\ Taking(u) /\ t # u => position[t] # position[u]

SlotAsRead ==
  /\ \A t \in Producers :
       /\ position[t] <= head
       /\ qpc[t] # "idle" => order[t] # NoOrder
       /\ qpc[t] = "claim_free" /\ position[t] = head =>
            slotSeq[QSlot(position[t])] = position[t]
  /\ \A t \in Consumers :
       /\ position[t] <= tail
       /\ qpc[t] = "claim_full" /\ position[t] = tail =>
            slotSeq[QSlot(position[t])] = position[t] + 1

QInv ==
  /\ QueueTypeOK
  /\ Window /\ ClaimedSlots /\ FreeSlots /\ WritersOwn /\ TakersOwn /\ SlotAsRead

\* The initial ring satisfies it.
LEMMA QInvInit ==
  ASSUME Capacity >= 2, QueueInit
  PROVE  QInv
<1> USE QueueAssumption DEF QueueAssumption
<1>1. QueueTypeOK
  BY DEF QueueInit, QueueTypeOK, QueueThreads, NoOrder
<1>2. Window /\ ClaimedSlots  BY DEF QueueInit, Window, ClaimedSlots
<1>3. FreeSlots
  <2> SUFFICES ASSUME NEW q \in 0..Capacity - 1 PROVE slotSeq[QSlot(q)] = q
    BY DEF QueueInit, FreeSlots
  <2>1. QSlot(q) \in 0..Capacity - 1  BY RingSlots
  <2>2. QSlot(q) = q
    BY DEF QSlot
  <2> QED BY <2>2 DEF QueueInit
<1>4. WritersOwn /\ TakersOwn /\ SlotAsRead
  BY DEF QueueInit, WritersOwn, TakersOwn, SlotAsRead, Writing, Taking, QueueThreads
<1> QED BY <1>1, <1>2, <1>3, <1>4 DEF QInv

-----------------------------------------------------------------------------
(* The steps.  The first lemma gives the types after a step, the others     *)
(* the rest of the invariant.                                               *)

Rest == Window /\ ClaimedSlots /\ FreeSlots /\ WritersOwn /\ TakersOwn /\ SlotAsRead

\* Every step keeps the types.
LEMMA TypeStep ==
  ASSUME QueueTypeOK, SlotAsRead, QueueNext
  PROVE  QueueTypeOK'
<1> USE QueueAssumption DEF QueueAssumption, QueueTypeOK, QueueSteps, Goes, Works
<1> USE DEF slots, counters, threads, queueHistory
<1>1. CASE \E t \in Producers :
       Offer(t) \/ LoadHead(t) \/ CheckFull(t) \/ CheckFree(t)
       \/ ClaimFree(t) \/ Write(t) \/ Publish(t) \/ CountUp(t)
  <2> PICK t \in Producers :
       Offer(t) \/ LoadHead(t) \/ CheckFull(t) \/ CheckFree(t)
       \/ ClaimFree(t) \/ Write(t) \/ Publish(t) \/ CountUp(t)
    BY <1>1
  <2> t \in QueueThreads  BY DEF QueueThreads
  <2>1. CASE Offer(t)      BY <2>1 DEF Offer
  <2>2. CASE LoadHead(t)   BY <2>2 DEF LoadHead
  <2>3. CASE CheckFull(t)  BY <2>3 DEF CheckFull
  <2>4. CASE CheckFree(t)  BY <2>4 DEF CheckFree
  <2>5. CASE ClaimFree(t)
    <3>1. UNCHANGED <<tail, slotSeq, slotData, count, droppedCount, position,
                      order, offered>>
      BY <2>5 DEF ClaimFree
    <3>2. qpc' \in [QueueThreads -> QueueSteps]  BY <2>5 DEF ClaimFree
    <3>3. /\ head' \in Nat
          /\ accepted' \in Seq(1..MaxOrders) /\ Len(accepted') = head'
      <4>1. CASE UNCHANGED <<head, accepted>>
        BY <4>1
      <4>2. CASE qpc[t] = "claim_free" /\ head' = head + 1
                 /\ accepted' = Append(accepted, order[t])
        <5>1. order[t] \in 1..MaxOrders  BY <4>2 DEF SlotAsRead, NoOrder
        <5> QED BY <4>2, <5>1
      <4> QED BY <2>5, <4>1, <4>2 DEF ClaimFree
    <3> QED BY <3>1, <3>2, <3>3
  <2>6. CASE Write(t)      BY <2>6 DEF Write
  <2>7. CASE Publish(t)
    <3>1. position[t] + 1 \in Nat  OBVIOUS
    <3>2. slotSeq' \in [0..Capacity - 1 -> Nat]  BY <2>7, <3>1 DEF Publish
    <3> QED BY <2>7, <3>2 DEF Publish
  <2>8. CASE CountUp(t)    BY <2>8 DEF CountUp
  <2> QED BY <2>1, <2>2, <2>3, <2>4, <2>5, <2>6, <2>7, <2>8
<1>2. CASE \E t \in Consumers :
       LoadTail(t) \/ CheckEmpty(t) \/ CheckPublished(t) \/ ClaimFull(t)
       \/ TakeData(t) \/ Free(t) \/ CountDown(t) \/ Judge(t)
  <2> PICK t \in Consumers :
       LoadTail(t) \/ CheckEmpty(t) \/ CheckPublished(t) \/ ClaimFull(t)
       \/ TakeData(t) \/ Free(t) \/ CountDown(t) \/ Judge(t)
    BY <1>2
  <2> t \in QueueThreads  BY DEF QueueThreads
  <2>1. CASE LoadTail(t)        BY <2>1 DEF LoadTail
  <2>2. CASE CheckEmpty(t)      BY <2>2 DEF CheckEmpty
  <2>3. CASE CheckPublished(t)  BY <2>3 DEF CheckPublished
  <2>4. CASE ClaimFull(t)
    <3>1. tail' \in Nat  BY <2>4 DEF ClaimFull
    <3>2. qpc' \in [QueueThreads -> QueueSteps]  BY <2>4 DEF ClaimFull
    <3> QED BY <2>4, <3>1, <3>2 DEF ClaimFull
  <2>5. CASE TakeData(t)
    <3>1. QSlot(position[t]) \in 0..Capacity - 1  BY DivMod DEF QSlot
    <3> QED BY <2>5, <3>1 DEF TakeData, NoOrder
  <2>6. CASE Free(t)
    <3>1. position[t] + Capacity \in Nat  OBVIOUS
    <3>2. slotSeq' \in [0..Capacity - 1 -> Nat]  BY <2>6, <3>1 DEF Free
    <3> QED BY <2>6, <3>2 DEF Free
  <2>7. CASE CountDown(t)       BY <2>7 DEF CountDown
  <2>8. CASE Judge(t)
    <3>1. droppedCount' \in Nat  BY <2>8 DEF Judge
    <3>2. /\ Goes(t, "judge", "idle")
          /\ UNCHANGED <<head, tail, slots, count, threads, queueHistory>>
      BY <2>8 DEF Judge
    <3> QED BY <3>1, <3>2
  <2> QED BY <2>1, <2>2, <2>3, <2>4, <2>5, <2>6, <2>7, <2>8
<1> QED BY <1>1, <1>2 DEF QueueNext

\* A step of a producer that changes neither the ring nor what the others do.
LEMMA QuietProducer ==
  ASSUME QInv, NEW t \in Producers,
         Offer(t) \/ LoadHead(t) \/ CheckFull(t) \/ CheckFree(t) \/ CountUp(t)
  PROVE  Rest'
<1> USE QueueAssumption DEF QueueAssumption, QInv
<1> t \in QueueThreads  BY DEF QueueThreads
<1>1. UNCHANGED <<head, tail, slotSeq, slotData, accepted>>
  BY DEF Offer, LoadHead, CheckFull, CheckFree, CountUp, slots, queueHistory
<1>2. Window' /\ ClaimedSlots' /\ FreeSlots'
  BY <1>1 DEF Window, ClaimedSlots, FreeSlots
<1>3. \A u \in QueueThreads \ {t} :
        qpc'[u] = qpc[u] /\ position'[u] = position[u] /\ order'[u] = order[u]
  BY DEF Offer, LoadHead, CheckFull, CheckFree, CountUp, Goes, Works, threads,
         QueueTypeOK
<1>4. qpc'[t] \notin {"write", "publish"}
  BY DEF Offer, LoadHead, CheckFull, CheckFree, CountUp, Goes, QueueTypeOK
<1>5. WritersOwn'
  <2>1. \A u \in Producers : Writing(u)' =>
          u # t /\ Writing(u) /\ u \in QueueThreads \ {t}
    BY <1>3, <1>4 DEF Writing, QueueThreads
  <2> QED BY <1>1, <1>3, <2>1 DEF WritersOwn
<1>6. TakersOwn'
  <2>1. \A u \in Consumers : u \in QueueThreads \ {t}
    BY DEF QueueThreads
  <2> QED BY <1>1, <1>3, <2>1 DEF TakersOwn, Taking
<1>7. SlotAsRead'
  <2>1. position'[t] <= head
    BY DEF Offer, LoadHead, CheckFull, CheckFree, CountUp, Works, threads,
           QueueTypeOK, SlotAsRead
  <2>2. qpc'[t] # "idle" => order'[t] # NoOrder
    BY DEF Offer, LoadHead, CheckFull, CheckFree, CountUp, Goes, threads,
           QueueTypeOK, SlotAsRead, NoOrder
  <2>3. qpc'[t] = "claim_free" => slotSeq[QSlot(position'[t])] = position'[t]
    BY DEF Offer, LoadHead, CheckFull, CheckFree, CountUp, Goes, threads,
           QueueTypeOK
  <2>4. \A u \in Producers \union Consumers : u = t \/ u \in QueueThreads \ {t}
    BY DEF QueueThreads
  <2>5. t \notin Consumers  OBVIOUS
  <2> QED BY <1>1, <1>3, <2>1, <2>2, <2>3, <2>4, <2>5 DEF SlotAsRead
<1> QED BY <1>2, <1>5, <1>6, <1>7 DEF Rest

\* The same of a consumer.
LEMMA QuietConsumer ==
  ASSUME QInv, NEW t \in Consumers,
         LoadTail(t) \/ CheckEmpty(t) \/ CheckPublished(t) \/ CountDown(t)
         \/ Judge(t)
  PROVE  Rest'
<1> USE QueueAssumption DEF QueueAssumption, QInv
<1> t \in QueueThreads  BY DEF QueueThreads
<1>1. UNCHANGED <<head, tail, slotSeq, slotData, accepted, order>>
  BY DEF LoadTail, CheckEmpty, CheckPublished, CountDown, Judge, slots, threads,
         queueHistory
<1>2. Window' /\ ClaimedSlots' /\ FreeSlots'
  BY <1>1 DEF Window, ClaimedSlots, FreeSlots
<1>3. \A u \in QueueThreads \ {t} :
        qpc'[u] = qpc[u] /\ position'[u] = position[u] /\ order'[u] = order[u]
  BY DEF LoadTail, CheckEmpty, CheckPublished, CountDown, Judge, Goes, Works,
         threads, QueueTypeOK
<1>4. qpc'[t] \notin {"take", "free"}
  BY DEF LoadTail, CheckEmpty, CheckPublished, CountDown, Judge, Goes, QueueTypeOK
<1>5. WritersOwn'
  <2>1. \A u \in Producers : u \in QueueThreads \ {t}
    BY DEF QueueThreads
  <2> QED BY <1>1, <1>3, <2>1 DEF WritersOwn, Writing
<1>6. TakersOwn'
  <2>1. \A u \in Consumers : Taking(u)' =>
          u # t /\ Taking(u) /\ u \in QueueThreads \ {t}
    BY <1>3, <1>4 DEF Taking, QueueThreads
  <2> QED BY <1>1, <1>3, <2>1 DEF TakersOwn
<1>7. SlotAsRead'
  <2>1. position'[t] <= tail
    BY DEF LoadTail, CheckEmpty, CheckPublished, CountDown, Judge, Works, threads,
           QueueTypeOK, SlotAsRead
  <2>2. qpc'[t] = "claim_full" => slotSeq[QSlot(position'[t])] = position'[t] + 1
    BY DEF LoadTail, CheckEmpty, CheckPublished, CountDown, Judge, Goes, threads,
           QueueTypeOK
  <2>3. \A u \in Producers \union Consumers : u = t \/ u \in QueueThreads \ {t}
    BY DEF QueueThreads
  <2>4. t \notin Producers  OBVIOUS
  <2> QED BY <1>1, <1>3, <2>1, <2>2, <2>3, <2>4 DEF SlotAsRead
<1> QED BY <1>2, <1>5, <1>6, <1>7 DEF Rest

\* A producer claims the head position: its slot is free, and the ring is not
\* full, for the slot of a full ring's head is that of its tail.
LEMMA ClaimFreeStep ==
  ASSUME Capacity >= 2, QInv, NEW t \in Producers, ClaimFree(t)
  PROVE  Rest'
<1> USE QueueAssumption DEF QueueAssumption, QInv
<1> DEFINE p == position[t]
<1>0. /\ t \in QueueThreads /\ t \notin Consumers
      /\ p \in Nat /\ head \in Nat /\ tail \in Nat
      /\ \A u \in Producers \union Consumers : position[u] \in Nat
      /\ \A u \in Producers \union Consumers : u = t \/ u \in QueueThreads \ {t}
  BY DEF QueueThreads, QueueTypeOK
<1>1. UNCHANGED <<tail, slotSeq, slotData, position, order>>
  BY DEF ClaimFree, slots, threads
<1>2. \A u \in QueueThreads \ {t} : qpc'[u] = qpc[u]
  BY DEF ClaimFree, Goes, QueueTypeOK
<1>3. CASE qpc' = [qpc EXCEPT ![t] = "load_head"] /\ UNCHANGED <<head, accepted>>
  <2>1. qpc'[t] = "load_head"  BY <1>0, <1>3 DEF QueueTypeOK
  <2>2. Window' /\ ClaimedSlots' /\ FreeSlots'
    BY <1>1, <1>3 DEF Window, ClaimedSlots, FreeSlots
  <2>3. WritersOwn'
    <3>1. \A u \in Producers : Writing(u)' => Writing(u)
      BY <1>0, <1>2, <2>1 DEF Writing
    <3>2. \A u \in Producers : Writing(u)' => qpc'[u] = qpc[u]
      BY <1>0, <1>2, <2>1 DEF Writing
    <3> QED BY <1>1, <1>3, <3>1, <3>2 DEF WritersOwn
  <2>4. TakersOwn'
    BY <1>0, <1>1, <1>2, <1>3 DEF TakersOwn, Taking
  <2>5. SlotAsRead'
    <3>1. order[t] # NoOrder  BY DEF SlotAsRead, ClaimFree, Goes
    <3> QED BY <1>0, <1>1, <1>2, <1>3, <2>1, <3>1 DEF SlotAsRead
  <2> QED BY <2>2, <2>3, <2>4, <2>5 DEF Rest
<1>4. CASE /\ head = p /\ qpc[t] = "claim_free" /\ qpc' = [qpc EXCEPT ![t] = "write"]
           /\ head' = head + 1 /\ accepted' = Append(accepted, order[t])
  <2>1. qpc'[t] = "write" /\ slotSeq[QSlot(p)] = p
    BY <1>0, <1>4 DEF QueueTypeOK, SlotAsRead
  <2>2. /\ accepted'[p + 1] = order[t]
        /\ \A q \in Nat : q < head => accepted'[q + 1] = accepted[q + 1]
    BY <1>0, <1>4 DEF QueueTypeOK
  <2>3. head < tail + Capacity
    <3> SUFFICES ASSUME head = tail + Capacity PROVE FALSE
      BY <1>0 DEF Window, QueueTypeOK
    <3>1. QSlot(p) = QSlot(tail)  BY <1>0, <1>4, RingSlots
    <3>2. slotSeq[QSlot(tail)] \in {tail, tail + 1}
      BY <1>0 DEF ClaimedSlots
    <3> QED BY <1>0, <1>4, <2>1, <3>1, <3>2
  <2>4. Window'  BY <1>0, <1>1, <1>4, <2>3 DEF Window
  <2>5. ClaimedSlots'
    <3> SUFFICES ASSUME NEW q \in tail..head
                 PROVE  \/ slotSeq[QSlot(q)] = q
                        \/ /\ slotSeq[QSlot(q)] = q + 1
                           /\ slotData[QSlot(q)] = accepted'[q + 1]
      <4>1. tail' = tail /\ head' - 1 = head  BY <1>0, <1>1, <1>4
      <4> QED BY <1>1, <4>1 DEF ClaimedSlots
    <3>1. CASE q = head  BY <3>1, <1>4, <2>1
    <3>2. CASE q < head  BY <1>0, <3>2, <2>2 DEF ClaimedSlots
    <3> QED BY <1>0, <3>1, <3>2
  <2>6. FreeSlots'
    BY <1>0, <1>1, <1>4 DEF FreeSlots
  <2>7. WritersOwn'
    <3>1. \A u \in Producers : Writing(u)' => u = t \/ (Writing(u) /\ qpc'[u] = qpc[u])
      <4>1. \A u \in Producers : u # t => qpc'[u] = qpc[u]  BY <1>0, <1>2
      <4> QED BY <4>1 DEF Writing
    <3>2. \A u \in Producers : Writing(u) => position[u] \in tail..head - 1
      BY DEF WritersOwn
    <3>3. p \in tail..head  BY <1>0, <1>4 DEF Window
    <3>4. \A u \in Producers : Writing(u)' =>
            /\ position[u] \in tail..head
            /\ slotSeq[QSlot(position[u])] = position[u]
            /\ order[u] = accepted'[position[u] + 1]
            /\ qpc'[u] = "publish" => slotData[QSlot(position[u])] = order[u]
      <4> SUFFICES ASSUME NEW u \in Producers, Writing(u)'
                   PROVE  /\ position[u] \in tail..head
                          /\ slotSeq[QSlot(position[u])] = position[u]
                          /\ order[u] = accepted'[position[u] + 1]
                          /\ qpc'[u] = "publish" => slotData[QSlot(position[u])] = order[u]
        OBVIOUS
      <4>1. CASE u = t  BY <4>1, <2>1, <2>2, <3>3
      <4>2. CASE u # t
        BY <1>0, <2>2, <3>1, <3>2, <4>2 DEF WritersOwn
      <4> QED BY <4>1, <4>2
    <3>5. \A u, v \in Producers :
            Writing(u)' /\ Writing(v)' /\ u # v => position[u] # position[v]
      BY <1>0, <1>4, <3>1, <3>2 DEF WritersOwn
    <3>6. tail' = tail /\ head' - 1 = head  BY <1>0, <1>1, <1>4
    <3> QED BY <1>1, <3>4, <3>5, <3>6 DEF WritersOwn
  <2>8. TakersOwn'
    <3>1. \A u \in Consumers : qpc'[u] = qpc[u] /\ (Taking(u)' <=> Taking(u))
      BY <1>0, <1>2 DEF Taking
    <3>2. \A u \in Consumers : Taking(u) => position[u] < head
      BY <1>0 DEF TakersOwn, Window
    <3> QED BY <1>0, <1>1, <2>2, <3>1, <3>2 DEF TakersOwn
  <2>9. SlotAsRead'
    BY <1>0, <1>1, <1>2, <1>4, <2>1 DEF SlotAsRead
  <2> QED BY <2>4, <2>5, <2>6, <2>7, <2>8, <2>9 DEF Rest
<1> QED BY <1>3, <1>4 DEF ClaimFree, Goes

\* The owner of a slot writes its order into it: the slot is not published and
\* no consumer has it.
LEMMA WriteStep ==
  ASSUME Capacity >= 2, QInv, NEW t \in Producers, Write(t)
  PROVE  Rest'
<1> USE QueueAssumption DEF QueueAssumption, QInv
<1> DEFINE p == position[t]
<1>0. /\ t \in QueueThreads /\ p \in Nat /\ head \in Nat /\ tail \in Nat
      /\ \A u \in Producers \union Consumers : position[u] \in Nat
      /\ \A u \in Producers \union Consumers : u = t \/ u \in QueueThreads \ {t}
      /\ Producers \intersect Consumers = {}
  BY DEF QueueThreads, QueueTypeOK
<1>1. UNCHANGED <<head, tail, slotSeq, position, order, accepted>>
  BY DEF Write, threads, queueHistory
<1>2. /\ qpc[t] = "write" /\ qpc'[t] = "publish"
      /\ \A u \in QueueThreads \ {t} : qpc'[u] = qpc[u]
  BY <1>0 DEF Write, Goes, QueueTypeOK
<1>3. /\ p \in tail..head - 1 /\ slotSeq[QSlot(p)] = p /\ order[t] = accepted[p + 1]
      /\ \A u \in Producers : Writing(u) /\ u # t => position[u] # p
  BY <1>2 DEF WritersOwn, Writing
<1>4. /\ slotData'[QSlot(p)] = order[t]
      /\ \A q \in Nat : QSlot(q) # QSlot(p) => slotData'[QSlot(q)] = slotData[QSlot(q)]
  BY <1>0, RingSlots DEF Write, QueueTypeOK
<1>5. Window' /\ FreeSlots'
  BY <1>1 DEF Window, FreeSlots
<1>6. ClaimedSlots'
  <2> SUFFICES ASSUME NEW q \in tail..head - 1
               PROVE  \/ slotSeq[QSlot(q)] = q
                      \/ /\ slotSeq[QSlot(q)] = q + 1
                         /\ slotData'[QSlot(q)] = accepted[q + 1]
    BY <1>1 DEF ClaimedSlots
  <2>1. CASE QSlot(q) = QSlot(p)
    <3>1. p \in tail..tail + Capacity - 1 /\ q \in tail..tail + Capacity - 1
      BY <1>0, <1>3 DEF Window
    <3>2. q = p  BY <1>0, <2>1, <3>1, RingSlots
    <3> QED BY <3>2, <1>3
  <2>2. CASE QSlot(q) # QSlot(p)
    BY <1>0, <1>4, <2>2 DEF ClaimedSlots
  <2> QED BY <2>1, <2>2
<1>7. WritersOwn'
  <2>1. \A u \in Producers : u # t => qpc'[u] = qpc[u]  BY <1>0, <1>2
  <2>2. \A u \in Producers : Writing(u)' => Writing(u)
    BY <1>2, <2>1 DEF Writing
  <2>3. \A u \in Producers : Writing(u) /\ u # t =>
          slotData'[QSlot(position[u])] = slotData[QSlot(position[u])]
    BY <1>0, <1>3, <1>4 DEF WritersOwn
  <2> QED BY <1>1, <1>3, <1>4, <2>1, <2>2, <2>3 DEF WritersOwn
<1>8. TakersOwn'
  <2>1. \A u \in Consumers : qpc'[u] = qpc[u] /\ (Taking(u)' <=> Taking(u))
    BY <1>0, <1>2 DEF Taking
  <2>2. ASSUME NEW u \in Consumers, Taking(u)
        PROVE  slotData'[QSlot(position[u])] = slotData[QSlot(position[u])]
    <3>1. slotSeq[QSlot(position[u])] = position[u] + 1
      BY <2>2 DEF TakersOwn
    <3>2. QSlot(position[u]) = QSlot(p) => p = position[u] + 1
      BY <1>3, <3>1
    <3>3. QSlot(position[u]) # QSlot(p)
      BY <1>0, <3>2, RingSlots
    <3> QED BY <1>0, <1>4, <3>3
  <2> QED BY <1>1, <2>1, <2>2 DEF TakersOwn
<1>9. SlotAsRead'
  BY <1>0, <1>1, <1>2 DEF SlotAsRead
<1> QED BY <1>5, <1>6, <1>7, <1>8, <1>9 DEF Rest

\* It publishes the slot.
LEMMA PublishStep ==
  ASSUME Capacity >= 2, QInv, NEW t \in Producers, Publish(t)
  PROVE  Rest'
<1> USE QueueAssumption DEF QueueAssumption, QInv
<1> DEFINE p == position[t]
<1>0. /\ t \in QueueThreads /\ p \in Nat /\ head \in Nat /\ tail \in Nat
      /\ \A u \in Producers \union Consumers : position[u] \in Nat
      /\ \A u \in Producers \union Consumers : u = t \/ u \in QueueThreads \ {t}
      /\ Producers \intersect Consumers = {}
  BY DEF QueueThreads, QueueTypeOK
<1>1. UNCHANGED <<head, tail, slotData, position, order, accepted>>
  BY DEF Publish, threads, queueHistory
<1>2. /\ qpc[t] = "publish" /\ qpc'[t] = "count_up"
      /\ \A u \in QueueThreads \ {t} : qpc'[u] = qpc[u]
  BY <1>0 DEF Publish, Goes, QueueTypeOK
<1>3. /\ p \in tail..head - 1 /\ slotSeq[QSlot(p)] = p
      /\ slotData[QSlot(p)] = accepted[p + 1]
      /\ \A u \in Producers : Writing(u) /\ u # t => position[u] # p
  BY <1>2 DEF WritersOwn, Writing
<1>4. /\ slotSeq'[QSlot(p)] = p + 1
      /\ \A q \in Nat : QSlot(q) # QSlot(p) => slotSeq'[QSlot(q)] = slotSeq[QSlot(q)]
  BY <1>0, RingSlots DEF Publish, QueueTypeOK
<1>5. \A q \in tail..tail + Capacity - 1 : QSlot(q) = QSlot(p) => q = p
  <2>1. p \in tail..tail + Capacity - 1  BY <1>0, <1>3 DEF Window
  <2> QED BY <1>0, <2>1, RingSlots
<1>6. Window'
  BY <1>1 DEF Window
<1>7. ClaimedSlots'
  <2> SUFFICES ASSUME NEW q \in tail..head - 1
               PROVE  \/ slotSeq'[QSlot(q)] = q
                      \/ /\ slotSeq'[QSlot(q)] = q + 1
                         /\ slotData[QSlot(q)] = accepted[q + 1]
    BY <1>1 DEF ClaimedSlots
  <2>1. q \in tail..tail + Capacity - 1  BY <1>0 DEF Window
  <2>2. CASE QSlot(q) = QSlot(p)  BY <1>3, <1>4, <1>5, <2>1, <2>2
  <2>3. CASE QSlot(q) # QSlot(p)
    BY <1>0, <1>4, <2>3 DEF ClaimedSlots
  <2> QED BY <2>2, <2>3
<1>8. FreeSlots'
  <2> SUFFICES ASSUME NEW q \in head..tail + Capacity - 1
               PROVE  slotSeq'[QSlot(q)] = q \/ slotSeq'[QSlot(q)] = q - Capacity + 1
    BY <1>1 DEF FreeSlots
  <2>1. QSlot(q) # QSlot(p)  BY <1>0, <1>3, <1>5 DEF Window
  <2> QED BY <1>0, <1>4, <2>1 DEF FreeSlots
<1>9. WritersOwn'
  <2>1. \A u \in Producers : u # t => qpc'[u] = qpc[u]  BY <1>0, <1>2
  <2>2. \A u \in Producers : Writing(u)' => Writing(u) /\ u # t
    BY <1>2, <2>1 DEF Writing
  <2>3. \A u \in Producers : Writing(u) /\ u # t =>
          slotSeq'[QSlot(position[u])] = slotSeq[QSlot(position[u])]
    BY <1>0, <1>3, <1>4 DEF WritersOwn
  <2> QED BY <1>1, <2>1, <2>2, <2>3 DEF WritersOwn
<1>10. TakersOwn'
  <2>1. \A u \in Consumers : qpc'[u] = qpc[u] /\ (Taking(u)' <=> Taking(u))
    BY <1>0, <1>2 DEF Taking
  <2>2. ASSUME NEW u \in Consumers, Taking(u)
        PROVE  slotSeq'[QSlot(position[u])] = slotSeq[QSlot(position[u])]
    <3>1. slotSeq[QSlot(position[u])] = position[u] + 1
      BY <2>2 DEF TakersOwn
    <3>2. QSlot(position[u]) = QSlot(p) => p = position[u] + 1
      BY <1>3, <3>1
    <3>3. QSlot(position[u]) # QSlot(p)
      BY <1>0, <3>2, RingSlots
    <3> QED BY <1>0, <1>4, <3>3
  <2> QED BY <1>1, <2>1, <2>2 DEF TakersOwn
<1>11. SlotAsRead'
  <2>1. \A u \in Producers \union Consumers : u # t => qpc'[u] = qpc[u]
    BY <1>0, <1>2
  <2>2. slotSeq[QSlot(head)] = head => slotSeq'[QSlot(head)] = head
    BY <1>0, <1>3, <1>4
  <2>3. slotSeq[QSlot(tail)] = tail + 1 => slotSeq'[QSlot(tail)] = tail + 1
    BY <1>0, <1>3, <1>4, RingSlots
  <2> QED BY <1>0, <1>1, <1>2, <2>1, <2>2, <2>3 DEF SlotAsRead
<1> QED BY <1>6, <1>7, <1>8, <1>9, <1>10, <1>11 DEF Rest

\* A consumer claims the tail position: its slot is published, so no writer is
\* left behind, and the slot is the one of the position that enters the window.
LEMMA ClaimFullStep ==
  ASSUME Capacity >= 2, QInv, NEW t \in Consumers, ClaimFull(t)
  PROVE  Rest'
<1> USE QueueAssumption DEF QueueAssumption, QInv
<1> DEFINE p == position[t]
<1>0. /\ t \in QueueThreads /\ p \in Nat /\ head \in Nat /\ tail \in Nat
      /\ \A u \in Producers \union Consumers : position[u] \in Nat
      /\ \A u \in Producers \union Consumers : u = t \/ u \in QueueThreads \ {t}
      /\ Producers \intersect Consumers = {}
  BY DEF QueueThreads, QueueTypeOK
<1>1. UNCHANGED <<head, slotSeq, slotData, position, order, accepted>>
  BY DEF ClaimFull, slots, threads, queueHistory
<1>2. \A u \in Producers \union Consumers : u # t => qpc'[u] = qpc[u]
  BY <1>0 DEF ClaimFull, Goes, QueueTypeOK
<1>3. CASE qpc' = [qpc EXCEPT ![t] = "idle"] /\ UNCHANGED tail
  <2>1. qpc'[t] = "idle"  BY <1>0, <1>3 DEF QueueTypeOK
  <2>2. Window' /\ ClaimedSlots' /\ FreeSlots'
    BY <1>1, <1>3 DEF Window, ClaimedSlots, FreeSlots
  <2>3. WritersOwn'
    <3>1. \A u \in Producers : qpc'[u] = qpc[u]  BY <1>0, <1>2
    <3> QED BY <1>1, <1>3, <3>1 DEF WritersOwn, Writing
  <2>4. TakersOwn'
    <3>1. \A u \in Consumers : Taking(u)' => Taking(u) /\ qpc'[u] = qpc[u]
      BY <1>2, <2>1 DEF Taking
    <3> QED BY <1>1, <1>3, <3>1 DEF TakersOwn
  <2>5. SlotAsRead'
    BY <1>0, <1>1, <1>2, <1>3, <2>1 DEF SlotAsRead
  <2> QED BY <2>2, <2>3, <2>4, <2>5 DEF Rest
<1>4. CASE /\ tail = p /\ qpc[t] = "claim_full" /\ qpc' = [qpc EXCEPT ![t] = "take"]
           /\ tail' = tail + 1
  <2>1. /\ qpc'[t] = "take" /\ slotSeq[QSlot(p)] = p + 1
    BY <1>0, <1>4 DEF QueueTypeOK, SlotAsRead
  <2>2. p < head
    <3> SUFFICES ASSUME head = tail PROVE FALSE
      BY <1>0, <1>4 DEF Window
    <3>1. slotSeq[QSlot(p)] = p \/ slotSeq[QSlot(p)] = p - Capacity + 1
      BY <1>0, <1>4 DEF FreeSlots
    <3> QED BY <1>0, <2>1, <3>1
  <2>3. slotData[QSlot(p)] = accepted[p + 1]
    BY <1>0, <1>4, <2>1, <2>2 DEF ClaimedSlots
  <2>4. Window'  BY <1>0, <1>1, <1>4, <2>2 DEF Window
  <2>5. ClaimedSlots'
    BY <1>0, <1>1, <1>4 DEF ClaimedSlots
  <2>6. FreeSlots'
    <3> SUFFICES ASSUME NEW q \in head..tail + Capacity
                 PROVE  slotSeq[QSlot(q)] = q \/ slotSeq[QSlot(q)] = q - Capacity + 1
      <4>1. head' = head /\ tail' + Capacity - 1 = tail + Capacity
        BY <1>0, <1>1, <1>4
      <4> QED BY <1>1, <4>1 DEF FreeSlots
    <3>1. CASE q = tail + Capacity
      BY <1>0, <1>4, <2>1, <3>1, RingSlots
    <3>2. CASE q < tail + Capacity
      BY <1>0, <3>2 DEF FreeSlots
    <3> QED BY <1>0, <3>1, <3>2
  <2>7. WritersOwn'
    <3>1. \A u \in Producers : qpc'[u] = qpc[u] /\ (Writing(u)' <=> Writing(u))
      BY <1>0, <1>2 DEF Writing
    <3>2. \A u \in Producers : Writing(u) => position[u] # p
      BY <1>0, <2>1 DEF WritersOwn
    <3>3. \A u \in Producers : Writing(u) => position[u] \in tail'..head' - 1
      BY <1>0, <1>1, <1>4, <3>2 DEF WritersOwn
    <3> QED BY <1>1, <3>1, <3>3 DEF WritersOwn
  <2>8. TakersOwn'
    <3>1. \A u \in Consumers : Taking(u)' => u = t \/ (Taking(u) /\ qpc'[u] = qpc[u])
      BY <1>2 DEF Taking
    <3>2. \A u \in Consumers : Taking(u) => position[u] \in tail - Capacity + 1..tail - 1
      <4> SUFFICES ASSUME NEW u \in Consumers, Taking(u), position[u] = tail - Capacity
                   PROVE  FALSE
        BY <1>0 DEF TakersOwn
      <4>1. slotSeq[QSlot(position[u])] = position[u] + 1  BY DEF TakersOwn
      <4>2. QSlot(position[u]) = QSlot(position[u] + Capacity)  BY <1>0, RingSlots
      <4>3. position[u] + Capacity = p  BY <1>0, <1>4
      <4> QED BY <1>0, <1>4, <2>1, <4>1, <4>2, <4>3
    <3>3. \A u \in Consumers : Taking(u)' =>
            /\ position[u] \in tail' - Capacity..tail' - 1
            /\ slotSeq[QSlot(position[u])] = position[u] + 1
            /\ qpc'[u] = "take" => slotData[QSlot(position[u])] = accepted[position[u] + 1]
      <4> SUFFICES ASSUME NEW u \in Consumers, Taking(u)'
                   PROVE  /\ position[u] \in tail' - Capacity..tail' - 1
                          /\ slotSeq[QSlot(position[u])] = position[u] + 1
                          /\ qpc'[u] = "take" =>
                               slotData[QSlot(position[u])] = accepted[position[u] + 1]
        OBVIOUS
      <4>1. CASE u = t  BY <1>0, <1>4, <4>1, <2>1, <2>3
      <4>2. CASE u # t
        <5>1. Taking(u) /\ qpc'[u] = qpc[u]  BY <3>1, <4>2
        <5>2. position[u] \in tail' - Capacity..tail' - 1  BY <1>0, <1>4, <3>2, <5>1
        <5> QED BY <5>1, <5>2 DEF TakersOwn
      <4> QED BY <4>1, <4>2
    <3>4. \A u, v \in Consumers :
            Taking(u)' /\ Taking(v)' /\ u # v => position[u] # position[v]
      BY <1>0, <1>4, <3>1, <3>2 DEF TakersOwn
    <3> QED BY <1>1, <3>3, <3>4 DEF TakersOwn
  <2>9. SlotAsRead'
    BY <1>0, <1>1, <1>2, <1>4, <2>1 DEF SlotAsRead
  <2> QED BY <2>4, <2>5, <2>6, <2>7, <2>8, <2>9 DEF Rest
<1> QED BY <1>3, <1>4 DEF ClaimFull, Goes

\* What is behind the tail has been claimed by no producer for the next lap, as
\* long as its consumer has not freed it.
LEMMA TakerBehind ==
  ASSUME Capacity >= 2, QInv, NEW t \in Consumers, Taking(t)
  PROVE  /\ position[t] + Capacity \in head..tail + Capacity - 1
         /\ \A q \in tail..tail + Capacity - 1 :
              QSlot(q) = QSlot(position[t]) => q = position[t] + Capacity
         /\ \A u \in Producers : Writing(u) => QSlot(position[u]) # QSlot(position[t])
<1> USE QueueAssumption DEF QueueAssumption, QInv
<1> DEFINE p == position[t]
<1>0. /\ p \in Nat /\ head \in Nat /\ tail \in Nat
      /\ p \in tail - Capacity..tail - 1
      /\ slotSeq[QSlot(p)] = p + 1 /\ QSlot(p + Capacity) = QSlot(p)
      /\ \A u \in Producers : position[u] \in Nat
  BY RingSlots DEF QueueTypeOK, QueueThreads, TakersOwn
<1>1. p + Capacity \in tail..tail + Capacity - 1
  BY <1>0
<1>2. p + Capacity >= head
  <2> SUFFICES ASSUME p + Capacity \in tail..head - 1  PROVE FALSE
    BY <1>0, <1>1
  <2>1. slotSeq[QSlot(p + Capacity)] \in {p + Capacity, p + Capacity + 1}
    BY DEF ClaimedSlots
  <2> QED BY <1>0, <2>1
<1>3. \A q \in tail..tail + Capacity - 1 : QSlot(q) = QSlot(p) => q = p + Capacity
  BY <1>0, <1>1, RingSlots
<1>4. \A u \in Producers : Writing(u) => QSlot(position[u]) # QSlot(p)
  BY <1>0, <1>2, <1>3 DEF WritersOwn, Window
<1> QED BY <1>0, <1>1, <1>2, <1>3, <1>4

\* The owner of a published slot takes its order out.
LEMMA TakeDataStep ==
  ASSUME Capacity >= 2, QInv, NEW t \in Consumers, TakeData(t)
  PROVE  Rest'
<1> USE QueueAssumption DEF QueueAssumption, QInv
<1> DEFINE p == position[t]
<1>0. /\ t \in QueueThreads /\ p \in Nat /\ head \in Nat /\ tail \in Nat
      /\ \A u \in Producers \union Consumers : position[u] \in Nat
      /\ \A u \in Producers \union Consumers : u = t \/ u \in QueueThreads \ {t}
      /\ Producers \intersect Consumers = {}
  BY DEF QueueThreads, QueueTypeOK
<1>1. UNCHANGED <<head, tail, slotSeq, position, accepted>>
  BY DEF TakeData
<1>2. /\ qpc[t] = "take" /\ qpc'[t] = "free" /\ Taking(t)
      /\ \A u \in Producers \union Consumers : u # t => qpc'[u] = qpc[u]
      /\ \A u \in Producers : order'[u] = order[u]
  BY <1>0 DEF TakeData, Goes, Taking, QueueTypeOK
<1>3. \A q \in Nat : QSlot(q) # QSlot(p) => slotData'[QSlot(q)] = slotData[QSlot(q)]
  BY <1>0, RingSlots DEF TakeData, QueueTypeOK
<1>4. Window' /\ FreeSlots'
  BY <1>1 DEF Window, FreeSlots
<1>5. ClaimedSlots'
  <2>1. \A q \in tail..head - 1 : QSlot(q) # QSlot(p)
    BY <1>0, <1>2, TakerBehind DEF Window
  <2> QED BY <1>0, <1>1, <1>3, <2>1 DEF ClaimedSlots
<1>6. WritersOwn'
  <2>1. \A u \in Producers : qpc'[u] = qpc[u] /\ (Writing(u)' <=> Writing(u))
    BY <1>0, <1>2 DEF Writing
  <2>2. \A u \in Producers : Writing(u) =>
          slotData'[QSlot(position[u])] = slotData[QSlot(position[u])]
    BY <1>0, <1>2, <1>3, TakerBehind
  <2> QED BY <1>1, <1>2, <2>1, <2>2 DEF WritersOwn
<1>7. TakersOwn'
  <2>1. \A u \in Consumers : Taking(u)' <=> Taking(u)
    BY <1>2 DEF Taking
  <2>2. \A u \in Consumers : Taking(u) /\ u # t =>
          slotData'[QSlot(position[u])] = slotData[QSlot(position[u])]
    BY <1>0, <1>2, <1>3 DEF TakersOwn
  <2> QED BY <1>1, <1>2, <2>1, <2>2 DEF TakersOwn
<1>8. SlotAsRead'
  BY <1>0, <1>1, <1>2 DEF SlotAsRead
<1> QED BY <1>4, <1>5, <1>6, <1>7, <1>8 DEF Rest

\* It hands the slot over to the next lap.
LEMMA FreeStep ==
  ASSUME Capacity >= 2, QInv, NEW t \in Consumers, Free(t)
  PROVE  Rest'
<1> USE QueueAssumption DEF QueueAssumption, QInv
<1> DEFINE p == position[t]
<1>0. /\ t \in QueueThreads /\ p \in Nat /\ head \in Nat /\ tail \in Nat
      /\ \A u \in Producers \union Consumers : position[u] \in Nat
      /\ \A u \in Producers \union Consumers : u = t \/ u \in QueueThreads \ {t}
      /\ Producers \intersect Consumers = {}
  BY DEF QueueThreads, QueueTypeOK
<1>1. UNCHANGED <<head, tail, slotData, position, order, accepted>>
  BY DEF Free, threads, queueHistory
<1>2. /\ qpc[t] = "free" /\ qpc'[t] = "count_down" /\ Taking(t)
      /\ \A u \in Producers \union Consumers : u # t => qpc'[u] = qpc[u]
  BY <1>0 DEF Free, Goes, Taking, QueueTypeOK
<1>3. /\ slotSeq[QSlot(p)] = p + 1 /\ p < tail
      /\ \A u \in Consumers : Taking(u) /\ u # t => position[u] # p
  BY <1>0, <1>2 DEF TakersOwn
<1>4. /\ slotSeq'[QSlot(p)] = p + Capacity
      /\ \A q \in Nat : QSlot(q) # QSlot(p) => slotSeq'[QSlot(q)] = slotSeq[QSlot(q)]
  BY <1>0, RingSlots DEF Free, QueueTypeOK
<1>5. Window'
  BY <1>1 DEF Window
<1>6. ClaimedSlots'
  <2>1. \A q \in tail..head - 1 : QSlot(q) # QSlot(p)
    BY <1>0, <1>2, TakerBehind DEF Window
  <2> QED BY <1>0, <1>1, <1>4, <2>1 DEF ClaimedSlots
<1>7. FreeSlots'
  <2> SUFFICES ASSUME NEW q \in head..tail + Capacity - 1
               PROVE  slotSeq'[QSlot(q)] = q \/ slotSeq'[QSlot(q)] = q - Capacity + 1
    BY <1>1 DEF FreeSlots
  <2>1. CASE QSlot(q) = QSlot(p)
    <3>1. q = p + Capacity  BY <1>0, <1>2, <2>1, TakerBehind DEF Window
    <3> QED BY <1>4, <2>1, <3>1
  <2>2. CASE QSlot(q) # QSlot(p)
    BY <1>0, <1>4, <2>2 DEF FreeSlots
  <2> QED BY <2>1, <2>2
<1>8. WritersOwn'
  <2>1. \A u \in Producers : qpc'[u] = qpc[u] /\ (Writing(u)' <=> Writing(u))
    BY <1>0, <1>2 DEF Writing
  <2>2. \A u \in Producers : Writing(u) =>
          slotSeq'[QSlot(position[u])] = slotSeq[QSlot(position[u])]
    BY <1>0, <1>2, <1>4, TakerBehind
  <2> QED BY <1>1, <2>1, <2>2 DEF WritersOwn
<1>9. TakersOwn'
  <2>1. \A u \in Consumers : Taking(u)' => Taking(u) /\ u # t /\ qpc'[u] = qpc[u]
    BY <1>2 DEF Taking
  <2>2. \A u \in Consumers : Taking(u) /\ u # t =>
          slotSeq'[QSlot(position[u])] = slotSeq[QSlot(position[u])]
    BY <1>0, <1>3, <1>4 DEF TakersOwn
  <2> QED BY <1>1, <2>1, <2>2 DEF TakersOwn
<1>10. SlotAsRead'
  <2>1. slotSeq[QSlot(head)] = head => slotSeq'[QSlot(head)] = head
    BY <1>0, <1>3, <1>4, RingSlots
  <2>2. slotSeq[QSlot(tail)] = tail + 1 => slotSeq'[QSlot(tail)] = tail + 1
    BY <1>0, <1>3, <1>4
  <2> QED BY <1>0, <1>1, <1>2, <2>1, <2>2 DEF SlotAsRead
<1> QED BY <1>5, <1>6, <1>7, <1>8, <1>9, <1>10 DEF Rest

-----------------------------------------------------------------------------
\* Every step keeps the invariant.
LEMMA QInvStep ==
  ASSUME Capacity >= 2, QInv, [QueueNext]_queueVars
  PROVE  QInv'
<1>1. CASE UNCHANGED queueVars
  <2>1. UNCHANGED <<head, tail, slotSeq, slotData, count, droppedCount, qpc, position,
                    order, offered, accepted>>
    BY <1>1 DEF queueVars, slots, counters, threads, queueHistory
  <2>2. QueueTypeOK'  BY <2>1 DEF QInv, QueueTypeOK
  <2>3. Window' /\ ClaimedSlots' /\ FreeSlots'
    BY <2>1 DEF QInv, Window, ClaimedSlots, FreeSlots
  <2>4. WritersOwn' /\ TakersOwn' /\ SlotAsRead'
    BY <2>1 DEF QInv, WritersOwn, TakersOwn, SlotAsRead, Writing, Taking
  <2> QED BY <2>2, <2>3, <2>4 DEF QInv
<1>2. CASE QueueNext
  <2>1. QueueTypeOK'  BY <1>2, TypeStep DEF QInv
  <2>2. Rest'
    BY <1>2, QuietProducer, ClaimFreeStep, WriteStep, PublishStep, QuietConsumer,
       ClaimFullStep, TakeDataStep, FreeStep DEF QueueNext
  <2> QED BY <2>1, <2>2 DEF QInv, Rest
<1> QED BY <1>1, <1>2

\* In a ring of at least two slots the positions, slots and threads of the queue
\* stay in the states the code names, and head counts the orders accepted.
THEOREM QueueTypeCorrect ==
  ASSUME Capacity >= 2
  PROVE  QueueSpec => []QueueTypeOK
<1>1. QueueInit => QInv  BY QInvInit
<1>2. QInv /\ [QueueNext]_queueVars => QInv'  BY QInvStep
<1>3. QInv => QueueTypeOK  BY DEF QInv
<1> QED BY <1>1, <1>2, <1>3, PTL DEF QueueSpec

\* In a ring of at least two slots, however threads that enqueue and dequeue
\* interleave, a consumer that has claimed a position finds at it the order
\* that was accepted there, and has it alone.
THEOREM TakenIsPutHolds ==
  ASSUME Capacity >= 2
  PROVE  QueueSpec => []TakenIsPut
<1>1. QueueInit => QInv  BY QInvInit
<1>2. QInv /\ [QueueNext]_queueVars => QInv'  BY QInvStep
<1>3. QInv => TakenIsPut
  BY DEF QInv, TakersOwn, Taking, TakenIsPut
<1> QED BY <1>1, <1>2, <1>3, PTL DEF QueueSpec

-----------------------------------------------------------------------------
(* The queue as a queue.  FInv says where an order can be: offered and not   *)
(* placed yet, at one position, or refused.                                  *)

Offering(t) ==
  t \in Producers /\ qpc[t] \in {"load_head", "load_tail", "check_free", "claim_free"}

FInv ==
  /\ \A t \in Producers : Offering(t) =>
       /\ order[t] \in 1..offered /\ order[t] \notin refused
       /\ \A i \in 1..head : accepted[i] # order[t]
  /\ \A t, u \in Producers : Offering(t) /\ Offering(u) /\ t # u => order[t] # order[u]
  /\ \A i \in 1..head : accepted[i] \in 1..offered
  /\ refused \subseteq 1..offered
  /\ \A o \in taken : \E i \in 1..head : accepted[i] = o

\* A step that leaves the orders where they are.
LEMMA FInvKept ==
  ASSUME FInv, UNCHANGED <<head, order, queueHistory>>,
         \A t \in Producers : Offering(t)' => Offering(t)
  PROVE  FInv'
BY DEF FInv, queueHistory

\* Every step keeps FInv.
LEMMA FInvStep ==
  ASSUME QInv, FInv, QueueNext
  PROVE  FInv'
<1> USE QueueAssumption DEF QueueAssumption, QInv
<1>0. /\ head \in Nat /\ offered \in Nat /\ Len(accepted) = head
      /\ accepted \in Seq(1..MaxOrders)
      /\ \A t \in Producers : t \in QueueThreads /\ t \notin Consumers
      /\ \A t \in Consumers : t \in QueueThreads /\ t \notin Producers
  BY DEF QueueTypeOK, QueueThreads
<1>1. ASSUME NEW t \in Producers, Offer(t) PROVE FInv'
  <2>1. /\ UNCHANGED <<head, accepted, refused, taken>> /\ offered' = offered + 1
        /\ order'[t] = offered + 1
        /\ \A u \in Producers : u # t => order'[u] = order[u] /\ qpc'[u] = qpc[u]
    BY <1>0, <1>1 DEF Offer, Goes, QueueTypeOK
  <2>2. \A u \in Producers : u # t /\ Offering(u)' => Offering(u)
    BY <2>1 DEF Offering
  <2>3. /\ \A i \in 1..offered : i \in 1..offered' /\ i # offered + 1
        /\ offered + 1 \in 1..offered'
    BY <1>0, <2>1
  <2>4. /\ \A i \in 1..head' : accepted'[i] \in 1..offered' /\ accepted'[i] # offered + 1
        /\ refused' \subseteq 1..offered' /\ offered + 1 \notin refused'
        /\ \A o \in taken' : \E i \in 1..head' : accepted'[i] = o
    BY <2>1, <2>3 DEF FInv
  <2>5. ASSUME NEW u \in Producers, Offering(u)'
        PROVE  /\ order'[u] \in 1..offered' /\ order'[u] \notin refused'
               /\ \A i \in 1..head' : accepted'[i] # order'[u]
    <3>1. CASE u = t
      BY <2>1, <2>3, <2>4, <3>1
    <3>2. CASE u # t
      <4>1. Offering(u) /\ order'[u] = order[u]
        BY <2>1, <2>2, <2>5, <3>2
      <4> QED BY <2>1, <2>3, <4>1 DEF FInv
    <3> QED BY <3>1, <3>2
  <2>6. ASSUME NEW u \in Producers, NEW v \in Producers, Offering(u)', Offering(v)', u # v
        PROVE  order'[u] # order'[v]
    <3>1. \A w \in Producers : Offering(w) => order[w] # offered + 1
      BY <2>3 DEF FInv
    <3>2. CASE u = t
      BY <2>1, <2>2, <2>6, <3>1, <3>2
    <3>3. CASE v = t
      BY <2>1, <2>2, <2>6, <3>1, <3>3
    <3>4. CASE u # t /\ v # t
      <4>1. Offering(u) /\ Offering(v) /\ order'[u] = order[u] /\ order'[v] = order[v]
        BY <2>1, <2>2, <2>6, <3>4
      <4> QED BY <2>6, <4>1 DEF FInv
    <3> QED BY <3>2, <3>3, <3>4
  <2> QED BY <2>4, <2>5, <2>6 DEF FInv
<1>2. ASSUME NEW t \in Producers, LoadHead(t) \/ CheckFree(t) PROVE FInv'
  <2>1. UNCHANGED <<head, order, queueHistory>> /\ Offering(t)
    BY <1>0, <1>2 DEF LoadHead, CheckFree, Goes, Offering, threads
  <2>2. \A u \in Producers : u # t => qpc'[u] = qpc[u]
    BY <1>0, <1>2 DEF LoadHead, CheckFree, Goes, QueueTypeOK
  <2> QED BY <2>1, <2>2, FInvKept DEF Offering
<1>3. ASSUME NEW t \in Producers, CheckFull(t) PROVE FInv'
  <2>1. /\ UNCHANGED <<head, order, offered, accepted, taken>> /\ Offering(t)
        /\ \A u \in Producers : Offering(u)' => Offering(u)
    BY <1>0, <1>3 DEF CheckFull, Goes, Offering, threads, QueueTypeOK
  <2>2. CASE Full(position[t])
    <3>1. qpc'[t] = "idle" /\ refused' = refused \union {order[t]}
      BY <1>0, <1>3, <2>2 DEF CheckFull, Goes, QueueTypeOK
    <3> QED BY <2>1, <3>1 DEF FInv, Offering
  <2>3. CASE ~Full(position[t])
    <3>1. refused' = refused
      BY <1>3, <2>3 DEF CheckFull
    <3> QED BY <2>1, <3>1, FInvKept DEF queueHistory
  <2> QED BY <2>2, <2>3
<1>4. ASSUME NEW t \in Producers, ClaimFree(t) PROVE FInv'
  <2>1. /\ UNCHANGED <<order, offered, refused, taken>> /\ Offering(t)
        /\ \A u \in Producers : u # t => qpc'[u] = qpc[u]
    BY <1>0, <1>4 DEF ClaimFree, Goes, Offering, threads, QueueTypeOK
  <2>2. CASE UNCHANGED <<head, accepted>>
    BY <2>1, <2>2, FInvKept DEF Offering, queueHistory
  <2>3. CASE head' = head + 1 /\ accepted' = Append(accepted, order[t]) /\ qpc'[t] = "write"
    <3>1. /\ \A i \in 1..head : accepted'[i] = accepted[i]
          /\ accepted'[head + 1] = order[t]
      BY <1>0, <2>3
    <3>2. \A u \in Producers : Offering(u)' => Offering(u) /\ u # t
      BY <2>1, <2>3 DEF Offering
    <3>3. \A i \in 1..head' : i \in 1..head \/ i = head + 1
      BY <1>0, <2>3
    <3>4. \A i \in 1..head : i \in 1..head'
      BY <1>0, <2>3
    <3>5. \A i \in 1..head' : accepted'[i] \in 1..offered
      BY <2>1, <3>1, <3>3 DEF FInv
    <3>6. ASSUME NEW u \in Producers, Offering(u)'
          PROVE  /\ order[u] \in 1..offered /\ order[u] \notin refused
                 /\ \A i \in 1..head' : accepted'[i] # order[u]
      BY <2>1, <3>1, <3>2, <3>3, <3>6 DEF FInv
    <3>7. \A o \in taken : \E i \in 1..head' : accepted'[i] = o
      BY <3>1, <3>4 DEF FInv
    <3>8. \A u, v \in Producers : Offering(u)' /\ Offering(v)' /\ u # v => order[u] # order[v]
      BY <3>2 DEF FInv
    <3> QED BY <2>1, <3>5, <3>6, <3>7, <3>8 DEF FInv
  <2> QED BY <1>0, <1>4, <2>2, <2>3 DEF ClaimFree, Goes, QueueTypeOK
<1>5. ASSUME NEW t \in Producers, Write(t) \/ Publish(t) \/ CountUp(t) PROVE FInv'
  <2>1. UNCHANGED <<head, order, queueHistory>>
    BY <1>5 DEF Write, Publish, CountUp, threads
  <2>2. \A u \in Producers : Offering(u)' => Offering(u)
    BY <1>0, <1>5 DEF Write, Publish, CountUp, Goes, Offering, QueueTypeOK
  <2> QED BY <2>1, <2>2, FInvKept
<1>6. ASSUME NEW t \in Consumers,
             \/ LoadTail(t) \/ CheckEmpty(t) \/ CheckPublished(t) \/ ClaimFull(t)
             \/ Free(t) \/ CountDown(t) \/ Judge(t)
      PROVE  FInv'
  <2>1. UNCHANGED <<head, order, queueHistory>>
    BY <1>6 DEF LoadTail, CheckEmpty, CheckPublished, ClaimFull, Free, CountDown, Judge, threads
  <2>2. \A u \in Producers : qpc'[u] = qpc[u]
    BY <1>0, <1>6 DEF LoadTail, CheckEmpty, CheckPublished, ClaimFull, Free, CountDown, Judge,
      Goes, QueueTypeOK
  <2> QED BY <2>1, <2>2, FInvKept DEF Offering
<1>7. ASSUME NEW t \in Consumers, TakeData(t) PROVE FInv'
  <2>1. /\ UNCHANGED <<head, offered, accepted, refused>>
        /\ \A u \in Producers : order'[u] = order[u] /\ qpc'[u] = qpc[u]
    BY <1>0, <1>7 DEF TakeData, Goes, QueueTypeOK
  <2>2. /\ taken' = taken \union {accepted[position[t] + 1]}
        /\ position[t] + 1 \in 1..head
    BY <1>0, <1>7 DEF TakeData, Goes, Taking, TakersOwn, Window, QueueTypeOK
  <2>3. \A u \in Producers : Offering(u)' <=> Offering(u)
    BY <2>1 DEF Offering
  <2>4. \A o \in taken' : \E i \in 1..head' : accepted'[i] = o
    BY <2>1, <2>2 DEF FInv
  <2> QED BY <2>1, <2>3, <2>4 DEF FInv
<1> QED BY <1>1, <1>2, <1>3, <1>4, <1>5, <1>6, <1>7 DEF QueueNext

-----------------------------------------------------------------------------
(* The refinement.                                                           *)

Waiting == SubSeq(accepted, tail + 1, head)

\* What waits, element by element.
LEMMA WaitingIs ==
  ASSUME QInv
  PROVE  /\ Waiting \in Seq(1..MaxOrders) /\ Len(Waiting) = head - tail
         /\ \A i \in 1..head - tail : Waiting[i] = accepted[tail + i]
<1>1. /\ head \in Nat /\ tail \in Nat /\ tail <= head
      /\ accepted \in Seq(1..MaxOrders) /\ Len(accepted) = head
  BY DEF QInv, QueueTypeOK, Window
<1>2. \A i \in tail + 1..head : accepted[i] \in 1..MaxOrders
  <2> SUFFICES ASSUME NEW i \in tail + 1..head PROVE accepted[i] \in 1..MaxOrders
    OBVIOUS
  <2>1. i \in 1..Len(accepted)
    BY <1>1
  <2> QED BY <1>1, <2>1, ElementOfSeq
<1>3. /\ Waiting \in Seq(1..MaxOrders)
      /\ Len(Waiting) = IF tail + 1 <= head THEN head - (tail + 1) + 1 ELSE 0
      /\ \A i \in 1..head - (tail + 1) + 1 : Waiting[i] = accepted[tail + 1 + i - 1]
  BY <1>1, <1>2, SubSeqProperties DEF Waiting
<1> QED BY <1>1, <1>3

\* An order that a producer is offering is nowhere in the queue.
LEMMA OfferedIsFresh ==
  ASSUME QInv, FInv, NEW t \in Producers, Offering(t)
  PROVE  Fifo!Fresh(order[t]) /\ order[t] \in 1..MaxOrders
<1>1. /\ head \in Nat /\ tail \in Nat /\ tail <= head /\ offered \in 0..MaxOrders
      /\ \A c \in Consumers : position[c] \in Nat
  BY DEF QInv, QueueTypeOK, Window, QueueThreads
<1>2. \A i \in 1..head : accepted[i] # order[t]
  BY DEF FInv
<1>3. \A i \in 1..head - tail : Waiting[i] # order[t]
  BY <1>1, <1>2, WaitingIs
<1>4. \A c \in Consumers : qpc[c] = "take" => position[c] + 1 \in 1..head
  BY <1>1 DEF QInv, TakersOwn, Taking
<1>5. order[t] \notin taken \union OnTheWay
  BY <1>2, <1>4 DEF FInv, OnTheWay
<1>6. DOMAIN Waiting = 1..head - tail
  BY <1>1, WaitingIs
<1>7. order[t] \notin refused /\ order[t] \in 1..MaxOrders
  <2>1. order[t] \in 1..offered /\ order[t] \notin refused
    BY DEF FInv, Offering
  <2>2. \A n \in 1..offered : n \in 1..MaxOrders
    BY <1>1, QueueAssumption DEF QueueAssumption
  <2> QED BY <2>1, <2>2
<1> QED BY <1>3, <1>5, <1>6, <1>7 DEF Fifo!Fresh, Waiting

\* A step that changes none of what the mapping reads.
LEMMA Stutters ==
  ASSUME UNCHANGED <<head, tail, accepted, refused, taken, position>>,
         \A c \in Consumers : qpc'[c] = "take" <=> qpc[c] = "take"
  PROVE  UNCHANGED Fifo!fifoVars
<1>1. OnTheWay' = OnTheWay
  BY DEF OnTheWay
<1> QED BY <1>1 DEF Fifo!fifoVars

\* A claim of the head accepts the order; there is room.
LEMMA AcceptStep ==
  ASSUME Capacity >= 2, QInv, FInv, NEW t \in Producers, ClaimFree(t), head' # head
  PROVE  Fifo!Accept(order[t])
<1> USE QueueAssumption DEF QueueAssumption
<1>1. /\ head \in Nat /\ tail \in Nat /\ tail <= head
      /\ accepted \in Seq(1..MaxOrders) /\ Len(accepted) = head
      /\ t \in QueueThreads /\ t \notin Consumers
      /\ Consumers \subseteq QueueThreads
  BY DEF QInv, QueueTypeOK, Window, QueueThreads
<1>2. /\ qpc[t] = "claim_free" /\ head' = head + 1 /\ accepted' = Append(accepted, order[t])
      /\ UNCHANGED <<tail, refused, taken, position>>
      /\ \A c \in Consumers : qpc'[c] = qpc[c]
  BY <1>1 DEF ClaimFree, Goes, threads, QInv, QueueTypeOK
<1>3. Fifo!Fresh(order[t]) /\ order[t] \in 1..MaxOrders
  BY <1>2, OfferedIsFresh DEF Offering
<1>4. Window' /\ QueueTypeOK'
  BY ClaimFreeStep, TypeStep DEF Rest, QInv, QueueNext
<1>5. head - tail < Capacity
  BY <1>1, <1>2, <1>4 DEF Window
<1>6. Waiting' = Append(Waiting, order[t])
  <2>1. /\ Waiting \in Seq(1..MaxOrders) /\ Len(Waiting) = head - tail
        /\ \A i \in 1..head - tail : Waiting[i] = accepted[tail + i]
    BY WaitingIs
  <2>2. \A i \in tail + 1..head + 1 : accepted'[i] \in 1..MaxOrders
    BY <1>1, <1>2, <1>3
  <2>3. /\ Waiting' \in Seq(1..MaxOrders)
        /\ Len(Waiting') = head - tail + 1
        /\ \A i \in 1..head - tail + 1 : Waiting'[i] = accepted'[tail + i]
    <3>1. Waiting' = SubSeq(accepted', tail + 1, head + 1)
      BY <1>2 DEF Waiting
    <3>2. /\ SubSeq(accepted', tail + 1, head + 1) \in Seq(1..MaxOrders)
          /\ Len(SubSeq(accepted', tail + 1, head + 1)) =
               IF tail + 1 <= head + 1 THEN head + 1 - (tail + 1) + 1 ELSE 0
          /\ \A i \in 1..head + 1 - (tail + 1) + 1 :
               SubSeq(accepted', tail + 1, head + 1)[i] = accepted'[tail + 1 + i - 1]
      BY <1>1, <2>2, SubSeqProperties
    <3> QED BY <1>1, <3>1, <3>2
  <2> DEFINE app == Append(Waiting, order[t])
  <2>4. /\ app \in Seq(1..MaxOrders) /\ Len(app) = head - tail + 1
        /\ \A i \in 1..head - tail : app[i] = Waiting[i]
        /\ app[head - tail + 1] = order[t]
    BY <1>3, <2>1, AppendProperties
  <2>5. /\ \A i \in 1..head : accepted'[i] = accepted[i]
        /\ accepted'[head + 1] = order[t]
    BY <1>1, <1>2
  <2>6. \A i \in 1..head - tail + 1 : Waiting'[i] = app[i]
    <3> SUFFICES ASSUME NEW i \in 1..head - tail + 1 PROVE Waiting'[i] = app[i]
      OBVIOUS
    <3>1. CASE i \in 1..head - tail
      <4>1. tail + i \in 1..head
        BY <1>1, <3>1
      <4> QED BY <2>1, <2>3, <2>4, <2>5, <3>1, <4>1
    <3>2. CASE i = head - tail + 1
      <4>1. tail + i = head + 1
        BY <1>1, <3>2
      <4> QED BY <2>3, <2>4, <2>5, <3>2, <4>1
    <3>3. head - tail \in Nat
      BY <1>1
    <3>4. i \in 1..head - tail \/ i = head - tail + 1
      BY <3>3
    <3> QED BY <3>1, <3>2, <3>4
  <2> HIDE DEF app
  <2>7. Waiting' = app
    BY <2>3, <2>4, <2>6, SeqEqual
  <2> QED BY <2>7 DEF app
<1>7. OnTheWay' = OnTheWay
  <2>1. \A c \in Consumers : qpc[c] = "take" => accepted'[position[c] + 1] = accepted[position[c] + 1]
    <3> SUFFICES ASSUME NEW c \in Consumers, qpc[c] = "take"
                 PROVE  accepted'[position[c] + 1] = accepted[position[c] + 1]
      OBVIOUS
    <3>1. position[c] + 1 \in 1..head
      BY <1>1 DEF QInv, QueueTypeOK, TakersOwn, Taking
    <3> QED BY <1>1, <1>2, <3>1
  <2> QED BY <1>2, <2>1 DEF OnTheWay
<1>8. Len(Waiting) < Capacity
  BY <1>5, WaitingIs
<1> QED BY <1>2, <1>3, <1>6, <1>7, <1>8 DEF Fifo!Accept, Waiting

\* A claim of the tail takes the oldest order.
LEMMA TakeStep ==
  ASSUME Capacity >= 2, QInv, NEW t \in Consumers, ClaimFull(t), tail' # tail
  PROVE  Fifo!Take
<1> USE QueueAssumption DEF QueueAssumption
<1>1. /\ head \in Nat /\ tail \in Nat /\ tail <= head
      /\ accepted \in Seq(1..MaxOrders) /\ Len(accepted) = head
      /\ Consumers \subseteq QueueThreads /\ t \in QueueThreads
  BY DEF QInv, QueueTypeOK, Window, QueueThreads
<1>2. /\ tail = position[t] /\ tail' = tail + 1 /\ qpc[t] = "claim_full" /\ qpc'[t] = "take"
      /\ UNCHANGED <<head, accepted, refused, taken, position>>
      /\ \A c \in Consumers : c # t => qpc'[c] = qpc[c]
  BY <1>1 DEF ClaimFull, Goes, threads, queueHistory, QInv, QueueTypeOK
<1>3. Window'
  BY ClaimFullStep DEF Rest
<1>4. tail + 1 \in 1..head
  BY <1>1, <1>2, <1>3 DEF Window
<1>5. Head(Waiting) = accepted[tail + 1] /\ Tail(Waiting) = SubSeq(accepted, tail + 1 + 1, head)
  BY <1>1, <1>4, HeadTailOfSubSeq DEF Waiting
<1>6. Waiting # <<>>
  <2>1. Len(Waiting) >= 1
    BY <1>1, <1>4, WaitingIs
  <2> QED BY <2>1
<1>7. Waiting' = Tail(Waiting)
  BY <1>2, <1>5 DEF Waiting
<1>8. OnTheWay' = OnTheWay \union {accepted[tail + 1]}
  BY <1>2 DEF OnTheWay
<1> QED BY <1>2, <1>5, <1>6, <1>7, <1>8 DEF Fifo!Take, Waiting

\* Every step is a step of the queue's contract, or none.
LEMMA FifoStep ==
  ASSUME Capacity >= 2, QInv, FInv, [QueueNext]_queueVars
  PROVE  [Fifo!FifoNext]_Fifo!fifoVars
<1> USE QueueAssumption DEF QueueAssumption
<1>0. /\ \A t \in Producers : t \in QueueThreads /\ t \notin Consumers
      /\ Consumers \subseteq QueueThreads /\ qpc \in [QueueThreads -> QueueSteps]
      /\ order \in [QueueThreads -> 0..MaxOrders]
  BY DEF QInv, QueueTypeOK, QueueThreads
<1>1. ASSUME NEW t \in Producers, CheckFull(t) PROVE [Fifo!FifoNext]_Fifo!fifoVars
  <2>1. /\ UNCHANGED <<head, tail, accepted, taken, position>> /\ Offering(t)
        /\ \A c \in Consumers : qpc'[c] = qpc[c]
    BY <1>0, <1>1 DEF CheckFull, Goes, Offering, threads
  <2>2. CASE refused' = refused
    BY <2>1, <2>2, Stutters
  <2>3. CASE refused' = refused \union {order[t]}
    <3>1. OnTheWay' = OnTheWay
      BY <2>1 DEF OnTheWay
    <3>2. Fifo!Fresh(order[t]) /\ order[t] \in 1..MaxOrders
      BY <2>1, OfferedIsFresh
    <3>3. Fifo!Refuse(order[t])
      BY <2>1, <2>3, <3>1, <3>2 DEF Fifo!Refuse
    <3> QED BY <3>2, <3>3 DEF Fifo!FifoNext
  <2> QED BY <1>1, <2>2, <2>3 DEF CheckFull
<1>2. ASSUME NEW t \in Producers, ClaimFree(t) PROVE [Fifo!FifoNext]_Fifo!fifoVars
  <2>1. CASE head' # head
    <3>1. order[t] \in 1..MaxOrders
      BY <1>2, OfferedIsFresh DEF ClaimFree, Goes, Offering
    <3> QED BY <1>2, <2>1, <3>1, AcceptStep DEF Fifo!FifoNext
  <2>2. CASE head' = head
    <3>1. head \in Nat
      BY DEF QInv, QueueTypeOK
    <3>2. UNCHANGED <<head, tail, accepted, refused, taken, position>>
      BY <1>2, <2>2, <3>1 DEF ClaimFree, threads
    <3>3. \A c \in Consumers : qpc'[c] = qpc[c]
      BY <1>0, <1>2 DEF ClaimFree, Goes
    <3> QED BY <3>2, <3>3, Stutters
  <2> QED BY <2>1, <2>2
<1>3. ASSUME NEW t \in Producers,
             Offer(t) \/ LoadHead(t) \/ CheckFree(t) \/ Write(t) \/ Publish(t) \/ CountUp(t)
      PROVE  UNCHANGED Fifo!fifoVars
  <2>1. \A c \in Consumers : qpc'[c] = qpc[c]
    BY <1>0, <1>3 DEF Offer, LoadHead, CheckFree, Write, Publish, CountUp, Goes
  <2>2. UNCHANGED <<head, tail, accepted, refused, taken>>
    BY <1>3 DEF Offer, LoadHead, CheckFree, Write, Publish, CountUp, queueHistory
  <2>3. OnTheWay' = OnTheWay
    <3>1. \A c \in Consumers : position'[c] = position[c]
      BY <1>0, <1>3 DEF Offer, LoadHead, CheckFree, Write, Publish, CountUp, Works, threads,
        QInv, QueueTypeOK
    <3> QED BY <2>1, <2>2, <3>1 DEF OnTheWay
  <2> QED BY <2>2, <2>3 DEF Fifo!fifoVars
<1>4. ASSUME NEW t \in Consumers,
             LoadTail(t) \/ CheckEmpty(t) \/ CheckPublished(t) \/ Free(t) \/ CountDown(t) \/ Judge(t)
      PROVE  UNCHANGED Fifo!fifoVars
  <2>1. UNCHANGED <<head, tail, accepted, refused, taken>>
    BY <1>4 DEF LoadTail, CheckEmpty, CheckPublished, Free, CountDown, Judge, queueHistory
  <2>2. qpc[t] # "take" /\ qpc'[t] # "take"
    BY <1>0, <1>4 DEF LoadTail, CheckEmpty, CheckPublished, Free, CountDown, Judge, Goes
  <2>3. \A c \in Consumers : c # t => qpc'[c] = qpc[c] /\ position'[c] = position[c]
    BY <1>0, <1>4 DEF LoadTail, CheckEmpty, CheckPublished, Free, CountDown, Judge, Goes, Works,
      threads, QInv, QueueTypeOK
  <2>4. OnTheWay' = OnTheWay
    BY <2>1, <2>2, <2>3 DEF OnTheWay
  <2> QED BY <2>1, <2>4 DEF Fifo!fifoVars
<1>5. ASSUME NEW t \in Consumers, ClaimFull(t) PROVE [Fifo!FifoNext]_Fifo!fifoVars
  <2>1. CASE tail' # tail
    BY <1>5, <2>1, TakeStep DEF Fifo!FifoNext
  <2>2. CASE tail' = tail
    <3>1. tail \in Nat
      BY DEF QInv, QueueTypeOK
    <3>2. /\ UNCHANGED <<head, tail, accepted, refused, taken, position>>
          /\ qpc[t] # "take" /\ qpc'[t] # "take"
          /\ \A c \in Consumers : c # t => qpc'[c] = qpc[c]
      BY <1>0, <1>5, <2>2, <3>1 DEF ClaimFull, Goes, threads, queueHistory
    <3> QED BY <3>2, Stutters
  <2> QED BY <2>1, <2>2
<1>6. ASSUME NEW t \in Consumers, TakeData(t) PROVE UNCHANGED Fifo!fifoVars
  <2>1. /\ UNCHANGED <<head, tail, accepted, refused, position>>
        /\ qpc[t] = "take" /\ qpc'[t] = "free"
        /\ taken' = taken \union {accepted[position[t] + 1]}
        /\ \A c \in Consumers : c # t => qpc'[c] = qpc[c]
    BY <1>0, <1>6 DEF TakeData, Goes, QInv, TakersOwn, Taking
  <2>2. taken' \union OnTheWay' = taken \union OnTheWay
    <3>1. \A o : o \in OnTheWay' => o \in OnTheWay
      BY <2>1 DEF OnTheWay
    <3>2. \A o : o \in OnTheWay => o \in OnTheWay' \/ o = accepted[position[t] + 1]
      BY <2>1 DEF OnTheWay
    <3>3. accepted[position[t] + 1] \in OnTheWay
      BY <2>1 DEF OnTheWay
    <3> QED BY <2>1, <3>1, <3>2, <3>3
  <2> QED BY <2>1, <2>2 DEF Fifo!fifoVars
<1>7. CASE UNCHANGED queueVars
  BY <1>7, Stutters DEF queueVars, threads, queueHistory
<1> QED BY <1>1, <1>2, <1>3, <1>4, <1>5, <1>6, <1>7 DEF QueueNext

\* In a ring of at least two slots the queue keeps its promise: what it accepts
\* comes out once and in order, and it never holds more than it has room for.
THEOREM ImplementsFifoHolds ==
  ASSUME Capacity >= 2
  PROVE  QueueSpec => ImplementsFifo
<1>1. QueueInit => QInv
  BY QInvInit
<1>2. QInv /\ [QueueNext]_queueVars => QInv'
  BY QInvStep
<1>3. QueueInit => FInv
  BY QInvInit DEF QueueInit, FInv, Offering, QInv, QueueTypeOK, QueueThreads
<1>4. QInv /\ FInv /\ [QueueNext]_queueVars => FInv'
  <2> SUFFICES ASSUME QInv, FInv, [QueueNext]_queueVars PROVE FInv'
    OBVIOUS
  <2>1. CASE UNCHANGED queueVars
    BY <2>1, FInvKept DEF queueVars, threads, Offering
  <2> QED BY <2>1, FInvStep
<1>5. QInv /\ FInv /\ [QueueNext]_queueVars => [Fifo!FifoNext]_Fifo!fifoVars
  BY FifoStep
<1>6. QueueInit => Fifo!FifoInit
  <2> SUFFICES ASSUME QueueInit PROVE Fifo!FifoInit
    OBVIOUS
  <2>1. SubSeq(accepted, tail + 1, head) = <<>>
    BY SubSeqEmpty DEF QueueInit
  <2>2. OnTheWay = {}
    BY DEF QueueInit, OnTheWay, QueueThreads
  <2> QED BY <2>1, <2>2 DEF QueueInit, Fifo!FifoInit
<1> QED BY <1>1, <1>2, <1>3, <1>4, <1>5, <1>6, PTL DEF QueueSpec, ImplementsFifo, Fifo!FifoSpec
=============================================================================
