----------------------------- MODULE OrderFifo -----------------------------
(***************************************************************************)
(* What a queue of orders between the strategy and the risk check promises *)
(* (nexus_risk, gatekeeper/lock_free_order_queue.rs): an order that was    *)
(* accepted comes out once, in the order of acceptance; one that was       *)
(* refused stays with its caller.                                          *)
(***************************************************************************)
EXTENDS Naturals, Sequences

CONSTANTS Orders, Room

VARIABLES
  waiting,   \* the orders in the queue, oldest first
  done,      \* the orders that were taken out
  returned   \* the orders that were refused

fifoVars == <<waiting, done, returned>>

Fresh(o) == o \notin done \union returned /\ \A k \in DOMAIN waiting : waiting[k] # o

FifoInit == waiting = <<>> /\ done = {} /\ returned = {}

Accept(o) ==
  /\ Fresh(o) /\ Len(waiting) < Room
  /\ waiting' = Append(waiting, o) /\ UNCHANGED <<done, returned>>

Refuse(o) ==
  /\ Fresh(o)
  /\ returned' = returned \union {o} /\ UNCHANGED <<waiting, done>>

Take ==
  /\ waiting # <<>>
  /\ done' = done \union {Head(waiting)} /\ waiting' = Tail(waiting)
  /\ UNCHANGED returned

FifoNext == Take \/ \E o \in Orders : Accept(o) \/ Refuse(o)
FifoSpec == FifoInit /\ [][FifoNext]_fifoVars
=============================================================================
