------------------------ MODULE OrderStateMachine ------------------------
(***************************************************************************)
(* The order tracker of nexus_oms (state_machine/order_state.rs): the map  *)
(* of live orders, their life cycle, the arithmetic of fills and the       *)
(* queue through which terminal orders are forgotten.                      *)
(*                                                                         *)
(* The HashMap active_orders is the set "active" of its keys and one       *)
(* function per field of Order.  A field keeps its last value after the    *)
(* order is purged; nothing reads it then.  Instant::now() is the clock    *)
(* "now", which counts abstract ticks.  symbol, side, type, time in force, *)
(* the client and exchange identifiers and the time stamps of the record   *)
(* are left out: no operation of the tracker reads them.                   *)
(***************************************************************************)
EXTENDS Integers, FiniteSets

CONSTANTS
  MaxOrders,      \* bound: how many identifiers generate_order_id hands out
  Quantities,     \* the quantities an order may be created with
  FillQuantities, \* the fill quantities a report may carry, bad ones too
  Prices,         \* the prices a fill may carry
  Word,           \* 2^64: i64 wraps round (the release build checks nothing)
  PurgeAfter,     \* Order.purge_after_ms, in ticks
  MaxTime         \* bound on the clock

ASSUME OrdersAssumption     == MaxOrders \in Nat \ {0}
ASSUME QuantitiesAssumption == Quantities \subseteq Nat \ {0}
ASSUME FillsAssumption      == FillQuantities \subseteq Int
ASSUME PricesAssumption     == Prices \subseteq Nat
ASSUME WordAssumption       == Word \in Nat \ {0}
ASSUME PurgeAssumption      == PurgeAfter \in Nat
ASSUME TimeAssumption       == MaxTime \in Nat

VARIABLES
  now,            \* the clock
  idCounter,      \* the next identifier to hand out
  active,         \* the keys of active_orders
  quantity, filled, remaining, avgPrice, state,   \* the fields of an Order
  purgeQueue,     \* entries [id, at]: remove order id once now >= at
  totalCreated, totalFilled, totalRejected        \* the statistics

orderVars == <<active, quantity, filled, remaining, avgPrice, state>>
statVars  == <<totalCreated, totalFilled, totalRejected>>
vars      == <<now, idCounter, orderVars, purgeQueue, statVars>>

OrderIds   == 1..MaxOrders
OrderState == {"PendingNew", "Open", "PartiallyFilled",
               "Filled", "Canceled", "Rejected"}
Terminal   == {"Filled", "Canceled", "Rejected"}

\* is_valid_transition: the states a state may be changed to.
BugValidNext(from) ==
  CASE from = "PendingNew" -> OrderState \ {"PendingNew"}
    [] from \in {"Open", "PartiallyFilled", "Filled"}
                           -> {"PartiallyFilled", "Filled", "Canceled"} \ {from}
    [] OTHER               -> {}
ValidNext(from) ==
  CASE from = "PendingNew"      -> OrderState \ {"PendingNew"}
    [] from = "Open"            -> {"PartiallyFilled", "Filled", "Canceled"}
    [] from = "PartiallyFilled" -> {"Filled", "Canceled"}
    [] OTHER                    -> {}

\* What is scheduled when order o changes to state s: its purge, if it ends.
BugQueued(o, s) ==
  IF s \in Terminal THEN purgeQueue \union {[id |-> o, at |-> now + PurgeAfter]}
                    ELSE purgeQueue
Queued(o, s) ==
  IF s # state[o] /\ s \in Terminal
  THEN purgeQueue \union {[id |-> o, at |-> now + PurgeAfter]}
  ELSE purgeQueue

\* What an i64 makes of the integer i, and its division, which truncates.
Wrapped(i) == ((i + Word \div 2) % Word) - Word \div 2
Quotient(i, d) == IF i < 0 THEN -((-i) \div d) ELSE i \div d

\* The average price after a fill of q at p.
BugAverage(o, q, p) ==
  Quotient(Wrapped(filled[o] * avgPrice[o] + q * p), quantity[o])
Average(o, q, p) ==
  Quotient(Wrapped(filled[o] * avgPrice[o] + q * p), filled[o] + q)

Init ==
  /\ now = 0
  /\ idCounter = 1
  /\ active = {}
  /\ quantity  = [o \in OrderIds |-> 0]
  /\ filled    = [o \in OrderIds |-> 0]
  /\ remaining = [o \in OrderIds |-> 0]
  /\ avgPrice  = [o \in OrderIds |-> 0]
  /\ state     = [o \in OrderIds |-> "PendingNew"]
  /\ purgeQueue = {}
  /\ totalCreated = 0 /\ totalFilled = 0 /\ totalRejected = 0

\* Order::new with a fresh identifier from generate_order_id, then add_order.
\* The identifier is new, so the "already exists" branch is not taken.
AddOrder(q) ==
  /\ idCounter \in OrderIds
  /\ idCounter' = idCounter + 1
  /\ active'    = active \union {idCounter}
  /\ quantity'  = [quantity  EXCEPT ![idCounter] = q]
  /\ filled'    = [filled    EXCEPT ![idCounter] = 0]
  /\ remaining' = [remaining EXCEPT ![idCounter] = q]
  /\ avgPrice'  = [avgPrice  EXCEPT ![idCounter] = 0]
  /\ state'     = [state     EXCEPT ![idCounter] = "PendingNew"]
  /\ totalCreated' = totalCreated + 1
  /\ UNCHANGED <<now, purgeQueue, totalFilled, totalRejected>>

CanTransition(o, s) == o \in active /\ s \in ValidNext(state[o])

\* transition, when it succeeds; otherwise the call changes nothing.
Transition(o, s) ==
  /\ CanTransition(o, s)
  /\ state' = [state EXCEPT ![o] = s]
  /\ purgeQueue' = Queued(o, s)
  /\ totalFilled'   = IF s = "Filled"   THEN totalFilled + 1   ELSE totalFilled
  /\ totalRejected' = IF s = "Rejected" THEN totalRejected + 1 ELSE totalRejected
  /\ UNCHANGED <<now, idCounter, active, quantity, filled, remaining,
                 avgPrice, totalCreated>>

BugCanFill(o, q) ==
  /\ o \in active
  /\ state[o] \notin {"Rejected", "Canceled"}
  /\ 0 < q

CanFill(o, q) ==
  /\ o \in active
  /\ state[o] \notin {"Rejected", "Canceled"}
  /\ 0 < q /\ q <= remaining[o]

\* The state a fill of q leaves order o in.
FilledState(o, q) ==
  IF remaining[o] = q THEN "Filled"
  ELSE IF state[o] \in {"PendingNew", "Open"} THEN "PartiallyFilled"
  ELSE state[o]

BugApplyFill(o, q, p) ==
  /\ CanFill(o, q)
  /\ filled'    = [filled    EXCEPT ![o] = @ + q]
  /\ avgPrice'  = [avgPrice  EXCEPT ![o] = Average(o, q, p)]
  /\ state'     = [state     EXCEPT ![o] = FilledState(o, q)]
  /\ purgeQueue' = Queued(o, FilledState(o, q))
  /\ UNCHANGED <<now, idCounter, active, quantity, remaining, statVars>>

\* apply_fill, when it returns Ok.  A fill that completes the order queues it
\* for purging but leaves total_orders_filled alone.
ApplyFill(o, q, p) ==
  /\ CanFill(o, q)
  /\ filled'    = [filled    EXCEPT ![o] = @ + q]
  /\ remaining' = [remaining EXCEPT ![o] = @ - q]
  /\ avgPrice'  = [avgPrice  EXCEPT ![o] = Average(o, q, p)]
  /\ state'     = [state     EXCEPT ![o] = FilledState(o, q)]
  /\ purgeQueue' = Queued(o, FilledState(o, q))
  /\ UNCHANGED <<now, idCounter, active, quantity, statVars>>

Expired == {e \in purgeQueue : now >= e.at}

\* purge_terminal_orders: every expired entry leaves the queue together with
\* the order it names (the order in which swap_remove takes them is immaterial).
PurgeTerminalOrders ==
  /\ Expired # {}
  /\ purgeQueue' = purgeQueue \ Expired
  /\ active' = active \ {e.id : e \in Expired}
  /\ UNCHANGED <<now, idCounter, quantity, filled, remaining, avgPrice, state,
                 statVars>>

Tick ==
  /\ now < MaxTime
  /\ now' = now + 1
  /\ UNCHANGED <<idCounter, orderVars, purgeQueue, statVars>>

Next ==
  \/ \E q \in Quantities : AddOrder(q)
  \/ \E o \in OrderIds, s \in OrderState : Transition(o, s)
  \/ \E o \in OrderIds, q \in FillQuantities, p \in Prices : ApplyFill(o, q, p)
  \/ PurgeTerminalOrders
  \/ Tick

Spec == Init /\ [][Next]_vars

-----------------------------------------------------------------------------
TypeOK ==
  /\ now \in Nat
  /\ idCounter \in Nat \ {0}
  /\ active \subseteq OrderIds
  /\ quantity  \in [OrderIds -> Nat]
  /\ filled    \in [OrderIds -> Nat]
  /\ remaining \in [OrderIds -> Nat]
  /\ avgPrice  \in [OrderIds -> Int]
  /\ state     \in [OrderIds -> OrderState]
  /\ purgeQueue \subseteq [id : OrderIds, at : Nat]
  /\ totalCreated \in Nat /\ totalFilled \in Nat /\ totalRejected \in Nat

\* However fills, transitions and purges interleave, what an order has filled
\* and what remains of it add up to what was ordered: apply_fill never loses
\* or invents quantity and no fill of a Filled, Canceled or Rejected order
\* slips past its remainder.
FillAccounting == \A o \in OrderIds : filled[o] + remaining[o] = quantity[o]

\* The purge queue holds exactly the terminal orders of the map, each once: a
\* terminal order that is not queued would stay in active_orders for ever
\* (the leak purge_terminal_orders is there to prevent), a live order that is
\* queued would vanish while the exchange still works it.
PurgeQueueExact ==
  /\ \A o \in active :
       state[o] \in Terminal <=> \E e \in purgeQueue : e.id = o
  /\ \A e \in purgeQueue : e.id \in active
  /\ \A e, f \in purgeQueue : e.id = f.id => e = f

\* The running average is truncated at every fill, computed from truncated
\* averages and from products that may wrap round, yet it never leaves the
\* range of the prices fills are made at, as long as the order as a whole is
\* worth less than an i64 can hold at each of them.
Fits(o) == \A p \in Prices : quantity[o] * p < Word \div 2
AverageInRange ==
  \A o \in OrderIds : filled[o] > 0 /\ Fits(o) =>
    \E lo, hi \in Prices : lo <= avgPrice[o] /\ avgPrice[o] <= hi

\* A terminal order never comes back to life: it is purged or keeps its state,
\* whatever report arrives, and quantity once filled is never given back.
TerminalIsFinal ==
  [][\A o \in active :
       /\ state[o] \in Terminal => o \notin active' \/ state'[o] = state[o]
       /\ filled'[o] >= filled[o]]_vars
=============================================================================
