----------------------------- MODULE OrderQueue -----------------------------
(***************************************************************************)
(* LockFreeOrderQueue of nexus_risk (gatekeeper/lock_free_order_queue.rs): *)
(* a ring of slots with a sequence number each, between threads that       *)
(* enqueue orders and threads that take them out and validate them.  One   *)
(* action per atomic access; the accesses to a slot's data, which are not  *)
(* atomic, are actions of their own.                                       *)
(*                                                                         *)
(* The counters of positions are u64 and never wrap here; count is a usize *)
(* that wraps below zero where this one is negative.  A take that returns  *)
(* Ok(None) and one that goes round its loop are the same: the caller      *)
(* calls again.                                                            *)
(***************************************************************************)
EXTENDS Integers, Sequences

CONSTANTS
  Producers, Consumers,   \* threads in try_enqueue and in try_dequeue
  Capacity,
  MaxOrders               \* bound on calls of try_enqueue

ASSUME QueueAssumption ==
  /\ Capacity \in Nat \ {0} /\ MaxOrders \in Nat
  /\ Producers \intersect Consumers = {}

VARIABLES
  head, tail,          \* the next position to fill, to take
  slotSeq, slotData,   \* the slots
  count, droppedCount,
  qpc, position, order,  \* per thread: what it does next, the position and
                         \*   the order it works on
  offered,             \* calls of try_enqueue so far; an order is its number
  accepted,            \* history: the orders by position
  refused, taken       \* history: orders returned as Err, orders taken out

slots == <<slotSeq, slotData>>
counters == <<count, droppedCount>>
threads == <<position, order>>
queueHistory == <<offered, accepted, refused, taken>>
queueVars == <<head, tail, slots, counters, qpc, threads, queueHistory>>

QueueThreads == Producers \union Consumers
NoOrder == 0
QSlot(p) == p % Capacity

QueueInit ==
  /\ head = 0 /\ tail = 0
  /\ slotSeq = [i \in 0..Capacity - 1 |-> i]
  /\ slotData = [i \in 0..Capacity - 1 |-> NoOrder]
  /\ count = 0 /\ droppedCount = 0
  /\ qpc = [t \in QueueThreads |-> "idle"]
  /\ position = [t \in QueueThreads |-> 0]
  /\ order = [t \in QueueThreads |-> NoOrder]
  /\ offered = 0 /\ accepted = <<>> /\ refused = {} /\ taken = {}

Goes(t, from, to) == qpc[t] = from /\ qpc' = [qpc EXCEPT ![t] = to]
Works(t, p) == position' = [position EXCEPT ![t] = p]

-----------------------------------------------------------------------------
(* try_enqueue.                                                            *)

Offer(t) ==
  /\ offered < MaxOrders
  /\ Goes(t, "idle", "load_head")
  /\ offered' = offered + 1 /\ order' = [order EXCEPT ![t] = offered + 1]
  /\ UNCHANGED <<head, tail, slots, counters, position, accepted, refused, taken>>

LoadHead(t) ==
  /\ Goes(t, "load_head", "load_tail") /\ Works(t, head)
  /\ UNCHANGED <<head, tail, slots, counters, order, queueHistory>>

\* head.wrapping_sub(tail) >= capacity: so it is also when the tail has passed
\* the head that was read.
Full(p) == p < tail \/ p - tail >= Capacity

CheckFull(t) ==
  /\ Goes(t, "load_tail", IF Full(position[t]) THEN "idle" ELSE "check_free")
  /\ refused' = IF Full(position[t]) THEN refused \union {order[t]} ELSE refused
  /\ UNCHANGED <<head, tail, slots, counters, threads, offered, accepted, taken>>

BugCheckFree(t) ==
  /\ Goes(t, "check_free", "claim_free")
  /\ UNCHANGED <<head, tail, slots, counters, threads, queueHistory>>
CheckFree(t) ==
  /\ Goes(t, "check_free", IF slotSeq[QSlot(position[t])] = position[t]
                           THEN "claim_free" ELSE "load_head")
  /\ UNCHANGED <<head, tail, slots, counters, threads, queueHistory>>

\* compare_exchange_weak, which may fail for no reason.
ClaimFree(t) ==
  /\ \/ /\ head = position[t] /\ Goes(t, "claim_free", "write")
        /\ head' = head + 1 /\ accepted' = Append(accepted, order[t])
     \/ Goes(t, "claim_free", "load_head") /\ UNCHANGED <<head, accepted>>
  /\ UNCHANGED <<tail, slots, counters, threads, offered, refused, taken>>

Write(t) ==
  /\ Goes(t, "write", "publish")
  /\ slotData' = [slotData EXCEPT ![QSlot(position[t])] = order[t]]
  /\ UNCHANGED <<head, tail, slotSeq, counters, threads, queueHistory>>

Publish(t) ==
  /\ Goes(t, "publish", "count_up")
  /\ slotSeq' = [slotSeq EXCEPT ![QSlot(position[t])] = position[t] + 1]
  /\ UNCHANGED <<head, tail, slotData, counters, threads, queueHistory>>

CountUp(t) ==
  /\ Goes(t, "count_up", "idle") /\ count' = count + 1
  /\ UNCHANGED <<head, tail, slots, droppedCount, threads, queueHistory>>

-----------------------------------------------------------------------------
(* try_dequeue.                                                            *)

LoadTail(t) ==
  /\ Goes(t, "idle", "load_end") /\ Works(t, tail)
  /\ UNCHANGED <<head, tail, slots, counters, order, queueHistory>>

CheckEmpty(t) ==
  /\ Goes(t, "load_end", IF position[t] >= head THEN "idle" ELSE "check_full")
  /\ UNCHANGED <<head, tail, slots, counters, threads, queueHistory>>

CheckPublished(t) ==
  /\ Goes(t, "check_full", IF slotSeq[QSlot(position[t])] = position[t] + 1
                           THEN "claim_full" ELSE "idle")
  /\ UNCHANGED <<head, tail, slots, counters, threads, queueHistory>>

BugClaimFull(t) ==
  /\ Goes(t, "claim_full", IF tail = position[t] THEN "take" ELSE "idle")
  /\ tail' = tail + 1
  /\ UNCHANGED <<head, slots, counters, threads, queueHistory>>
ClaimFull(t) ==
  /\ \/ /\ tail = position[t] /\ Goes(t, "claim_full", "take")
        /\ tail' = tail + 1
     \/ Goes(t, "claim_full", "idle") /\ UNCHANGED tail
  /\ UNCHANGED <<head, slots, counters, threads, queueHistory>>

TakeData(t) ==
  /\ Goes(t, "take", "free")
  /\ order' = [order EXCEPT ![t] = slotData[QSlot(position[t])]]
  /\ taken' = taken \union {slotData[QSlot(position[t])]}
  /\ slotData' = [slotData EXCEPT ![QSlot(position[t])] = NoOrder]
  /\ UNCHANGED <<head, tail, slotSeq, counters, position, offered, accepted, refused>>

Free(t) ==
  /\ Goes(t, "free", "count_down")
  /\ slotSeq' = [slotSeq EXCEPT ![QSlot(position[t])] = position[t] + Capacity]
  /\ UNCHANGED <<head, tail, slotData, counters, threads, queueHistory>>

CountDown(t) ==
  /\ Goes(t, "count_down", "judge") /\ count' = count - 1
  /\ UNCHANGED <<head, tail, slots, droppedCount, threads, queueHistory>>

\* The validator's verdict on the order, if there was one.
Judge(t) ==
  /\ Goes(t, "judge", "idle")
  /\ \E valid \in BOOLEAN :
       droppedCount' = IF order[t] # NoOrder /\ ~valid THEN droppedCount + 1
                       ELSE droppedCount
  /\ UNCHANGED <<head, tail, slots, count, threads, queueHistory>>

-----------------------------------------------------------------------------
QueueNext ==
  \/ \E t \in Producers :
       \/ Offer(t) \/ LoadHead(t) \/ CheckFull(t) \/ CheckFree(t)
       \/ ClaimFree(t) \/ Write(t) \/ Publish(t) \/ CountUp(t)
  \/ \E t \in Consumers :
       \/ LoadTail(t) \/ CheckEmpty(t) \/ CheckPublished(t) \/ ClaimFull(t)
       \/ TakeData(t) \/ Free(t) \/ CountDown(t) \/ Judge(t)

QueueSpec == QueueInit /\ [][QueueNext]_queueVars

-----------------------------------------------------------------------------
QueueSteps ==
  {"idle", "load_head", "load_tail", "check_free", "claim_free", "write",
   "publish", "count_up", "load_end", "check_full", "claim_full", "take",
   "free", "count_down", "judge"}

QueueTypeOK ==
  /\ head \in Nat /\ tail \in Nat
  /\ slotSeq \in [0..Capacity - 1 -> Nat]
  /\ slotData \in [0..Capacity - 1 -> 0..MaxOrders]
  /\ count \in Int /\ droppedCount \in Nat
  /\ qpc \in [QueueThreads -> QueueSteps]
  /\ position \in [QueueThreads -> Nat]
  /\ order \in [QueueThreads -> 0..MaxOrders]
  /\ offered \in 0..MaxOrders
  /\ accepted \in Seq(1..MaxOrders) /\ Len(accepted) = head

\* A consumer that has claimed a position finds there the order that was
\* accepted at it: not an older lap's, not one half written, and no other
\* consumer has the position.
TakenIsPut ==
  \A c \in Consumers : qpc[c] = "take" =>
    /\ slotData[QSlot(position[c])] = accepted[position[c] + 1]
    /\ \A d \in Consumers \ {c} : qpc[d] = "take" => position[d] # position[c]

\* The queue is a first-in first-out queue with room for Capacity orders: an
\* order is in it from the claim of its position on, and out of it when the
\* position is claimed by a consumer, who then takes that order and no other.
OnTheWay == {accepted[position[c] + 1] : c \in {d \in Consumers : qpc[d] = "take"}}
Fifo == INSTANCE OrderFifo WITH
  Orders <- 1..MaxOrders, Room <- Capacity,
  waiting <- SubSeq(accepted, tail + 1, head),
  done <- taken \union OnTheWay, returned <- refused
ImplementsFifo == Fifo!FifoSpec
=============================================================================
