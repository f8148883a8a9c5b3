--------------------- MODULE OrderStateMachineProofs ---------------------
(***************************************************************************)
(* Proofs about OrderStateMachine, for any number of orders, quantities,   *)
(* prices and retention time.  The inductive invariant is the conjunction  *)
(* of the type invariant with the two accounting invariants; each action   *)
(* is one step of each proof.                                              *)
(***************************************************************************)
EXTENDS OrderStateMachine, TLAPS

\* The constants' assumptions under one name.
Assumptions ==
  /\ MaxOrders \in Nat \ {0}
  /\ Quantities \subseteq Nat \ {0}
  /\ FillQuantities \subseteq Int
  /\ Prices \subseteq Nat
  /\ Word \in Nat \ {0}
  /\ PurgeAfter \in Nat
  /\ MaxTime \in Nat

\* The assumptions on the constants, gathered.
LEMMA ConstantsOK == Assumptions
  BY OrdersAssumption, QuantitiesAssumption, FillsAssumption,
     PricesAssumption, WordAssumption, PurgeAssumption, TimeAssumption DEF Assumptions

\* Every next state of the life cycle table is a state.
LEMMA ValidNextType ==
  ASSUME NEW s \in OrderState PROVE ValidNext(s) \subseteq OrderState
  BY DEF ValidNext, OrderState

\* The table offers no way out of a terminal state, and none back to itself.
LEMMA ValidNextLeavesTerminal ==
  ASSUME NEW s \in OrderState, NEW t \in ValidNext(s)
  PROVE  s \notin Terminal /\ t # s
  BY DEF ValidNext, OrderState, Terminal

\* Division by a positive number stays among the integers.
LEMMA QuotientType ==
  ASSUME NEW i \in Int, NEW d \in Nat \ {0} PROVE Quotient(i, d) \in Int
  BY DEF Quotient

\* A word is an integer.
LEMMA WrappedType ==
  ASSUME NEW i \in Int PROVE Wrapped(i) \in Int
<1>1. Word \in Nat \ {0} /\ Word \div 2 \in Nat
  BY ConstantsOK DEF Assumptions
<1>2. ((i + Word \div 2) % Word) \in Int
  BY <1>1
<1> QED BY <1>1, <1>2 DEF Wrapped

\* The average is an integer, wrapped or not.
LEMMA AverageType ==
  ASSUME NEW f \in Nat, NEW a \in Int, NEW q \in Nat \ {0}, NEW p \in Nat
  PROVE  Quotient(Wrapped(f * a + q * p), f + q) \in Int
<1>1. f * a \in Int /\ q * p \in Int
  OBVIOUS
<1>2. f * a + q * p \in Int /\ f + q \in Nat \ {0}
  BY <1>1
<1> QED BY <1>2, WrappedType, QuotientType

\* Type correctness and the accounting of fills, together: what remains of an
\* order stays a natural number because a fill never exceeds it.
OrderInv == TypeOK /\ FillAccounting

LEMMA InitOrderInv == Init => OrderInv
  BY ConstantsOK DEF Init, OrderInv, TypeOK, FillAccounting, OrderState, Assumptions

LEMMA NextOrderInv == OrderInv /\ [Next]_vars => OrderInv'
<1> SUFFICES ASSUME OrderInv, [Next]_vars PROVE OrderInv'
  OBVIOUS
<1> USE ConstantsOK DEF OrderInv, Assumptions
<1>1. ASSUME NEW q \in Quantities, AddOrder(q) PROVE OrderInv'
  <2>a. q \in Nat /\ "PendingNew" \in OrderState
    BY DEF OrderState
  <2>1. TypeOK'
    BY <1>1, <2>a DEF AddOrder, TypeOK
  <2>2. FillAccounting'
    BY <1>1 DEF AddOrder, TypeOK, FillAccounting, OrderIds
  <2> QED BY <2>1, <2>2
<1>2. ASSUME NEW o \in OrderIds, NEW s \in OrderState, Transition(o, s)
      PROVE OrderInv'
  <2>1. Queued(o, s) \subseteq [id : OrderIds, at : Nat]
    BY DEF TypeOK, Queued
  <2>2. TypeOK'
    BY <1>2, <2>1 DEF Transition, TypeOK
  <2>3. FillAccounting'
    BY <1>2 DEF Transition, FillAccounting
  <2> QED BY <2>2, <2>3
<1>3. ASSUME NEW o \in OrderIds, NEW q \in FillQuantities, NEW p \in Prices,
             ApplyFill(o, q, p)
      PROVE OrderInv'
  <2>1. /\ q \in Nat \ {0} /\ q <= remaining[o] /\ p \in Nat
        /\ filled[o] \in Nat /\ avgPrice[o] \in Int /\ remaining[o] \in Nat
    BY <1>3 DEF ApplyFill, CanFill, TypeOK
  <2>2. Average(o, q, p) \in Int
    BY <2>1, AverageType DEF Average
  <2>3. FilledState(o, q) \in OrderState
    BY DEF FilledState, OrderState, TypeOK
  <2>4. Queued(o, FilledState(o, q)) \subseteq [id : OrderIds, at : Nat]
    BY DEF TypeOK, Queued
  <2>5. TypeOK'
    BY <1>3, <2>1, <2>2, <2>3, <2>4 DEF ApplyFill, TypeOK, statVars
  <2>6. FillAccounting'
    BY <1>3, <2>1 DEF ApplyFill, FillAccounting, TypeOK
  <2> QED BY <2>5, <2>6
<1>4. CASE PurgeTerminalOrders
  BY <1>4 DEF PurgeTerminalOrders, TypeOK, FillAccounting, statVars
<1>5. CASE Tick
  BY <1>5 DEF Tick, TypeOK, FillAccounting, orderVars, statVars
<1>6. CASE UNCHANGED vars
  BY <1>6 DEF vars, orderVars, statVars, TypeOK, FillAccounting
<1> QED BY <1>1, <1>2, <1>3, <1>4, <1>5, <1>6 DEF Next

\* Fills, transitions and purges in any order keep every field well typed (no
\* remainder ever goes negative).
THEOREM TypeCorrect == Spec => []TypeOK
<1>1. OrderInv => TypeOK
  BY DEF OrderInv
<1> QED BY InitOrderInv, NextOrderInv, <1>1, PTL DEF Spec

\* Filled and remaining quantity always add up to the ordered quantity.
THEOREM FillAccountingHolds == Spec => []FillAccounting
<1>1. OrderInv => FillAccounting
  BY DEF OrderInv
<1> QED BY InitOrderInv, NextOrderInv, <1>1, PTL DEF Spec

-----------------------------------------------------------------------------
\* The purge queue.  That a new order is not queued already follows from its
\* identifier being new: FreshIds is the strengthening.
FreshIds == \A o \in active : o < idCounter

QInv == TypeOK /\ FreshIds /\ PurgeQueueExact

LEMMA InitQInv == Init => QInv
<1>1. Init => TypeOK
  BY InitOrderInv DEF OrderInv
<1> QED BY <1>1 DEF Init, QInv, FreshIds, PurgeQueueExact

\* A change of state queues the order exactly when the new state is terminal
\* and the old one was not, and so keeps the queue exact.
LEMMA QueuedExact ==
  ASSUME PurgeQueueExact, NEW o \in active, NEW s,
         state[o] \in Terminal => s \in Terminal,
         s # state[o] => state[o] \notin Terminal
  PROVE  /\ s \in Terminal <=> \E e \in Queued(o, s) : e.id = o
         /\ \A e \in Queued(o, s) : e \in purgeQueue \/ e.id = o
         /\ purgeQueue \subseteq Queued(o, s)
         /\ \A e, f \in Queued(o, s) : e.id = f.id => e = f
<1>1. CASE s # state[o] /\ s \in Terminal
  <2> DEFINE new == [id |-> o, at |-> now + PurgeAfter]
  <2>1. Queued(o, s) = purgeQueue \union {new} /\ new.id = o
    BY <1>1 DEF Queued
  <2>2. \A e \in purgeQueue : e.id # o
    BY <1>1 DEF PurgeQueueExact
  <2> HIDE DEF new
  <2> QED BY <1>1, <2>1, <2>2 DEF PurgeQueueExact
<1>2. CASE ~(s # state[o] /\ s \in Terminal)
  <2>1. Queued(o, s) = purgeQueue
    BY <1>2 DEF Queued
  <2>2. s \in Terminal <=> state[o] \in Terminal
    BY <1>2
  <2> QED BY <2>1, <2>2 DEF PurgeQueueExact
<1> QED BY <1>1, <1>2

\* A step that only changes the state of o, to s, and queues accordingly.
LEMMA StateChangeKeepsQueue ==
  ASSUME TypeOK, PurgeQueueExact, NEW o \in active, NEW s \in OrderState,
         state[o] \in Terminal => s \in Terminal,
         s # state[o] => state[o] \notin Terminal,
         state' = [state EXCEPT ![o] = s],
         purgeQueue' = Queued(o, s), active' = active
  PROVE  PurgeQueueExact'
<1>1. /\ s \in Terminal <=> \E e \in Queued(o, s) : e.id = o
      /\ \A e \in Queued(o, s) : e \in purgeQueue \/ e.id = o
      /\ purgeQueue \subseteq Queued(o, s)
      /\ \A e, f \in Queued(o, s) : e.id = f.id => e = f
  BY QueuedExact
<1>2. /\ state'[o] = s
      /\ \A p \in active : p # o => state'[p] = state[p]
  BY DEF TypeOK
<1>3. ASSUME NEW p \in active
      PROVE  state'[p] \in Terminal <=> \E e \in purgeQueue' : e.id = p
  <2>1. CASE p = o
    BY <1>1, <1>2, <2>1
  <2>2. CASE p # o
    <3>1. state'[p] = state[p]
      BY <1>2, <2>2
    <3>2. (\E e \in purgeQueue' : e.id = p) <=> (\E e \in purgeQueue : e.id = p)
      BY <1>1, <2>2
    <3> QED BY <3>1, <3>2 DEF PurgeQueueExact
  <2> QED BY <2>1, <2>2
<1>4. \A e \in purgeQueue' : e.id \in active'
  BY <1>1 DEF PurgeQueueExact
<1> QED BY <1>1, <1>3, <1>4 DEF PurgeQueueExact

LEMMA NextQInv == OrderInv /\ QInv /\ [Next]_vars => QInv'
<1> SUFFICES ASSUME OrderInv, QInv, [Next]_vars PROVE QInv'
  OBVIOUS
<1>0. TypeOK'
  BY NextOrderInv DEF OrderInv
<1>1. ASSUME NEW q \in Quantities, AddOrder(q) PROVE QInv'
  <2>1. idCounter \notin active /\ \A e \in purgeQueue : e.id # idCounter
    BY DEF QInv, FreshIds, TypeOK, PurgeQueueExact
  <2>2. FreshIds'
    BY <1>1 DEF AddOrder, QInv, FreshIds, TypeOK
  <2>3. /\ purgeQueue' = purgeQueue
        /\ active' = active \union {idCounter}
        /\ \A o \in active : state'[o] = state[o]
        /\ state'[idCounter] \notin Terminal
    BY <1>1, <2>1 DEF AddOrder, QInv, TypeOK, Terminal, OrderIds
  <2>4. PurgeQueueExact'
    BY <2>1, <2>3 DEF QInv, PurgeQueueExact
  <2> QED BY <1>0, <2>2, <2>4 DEF QInv
<1>2. ASSUME NEW o \in OrderIds, NEW s \in OrderState, Transition(o, s)
      PROVE QInv'
  <2>1. o \in active /\ state[o] \notin Terminal
    BY <1>2, ValidNextLeavesTerminal
       DEF Transition, CanTransition, QInv, TypeOK
  <2>2. PurgeQueueExact'
    BY <1>2, <2>1, StateChangeKeepsQueue DEF Transition, QInv
  <2>3. FreshIds'
    BY <1>2 DEF Transition, QInv, FreshIds
  <2> QED BY <1>0, <2>2, <2>3 DEF QInv
<1>3. ASSUME NEW o \in OrderIds, NEW q \in FillQuantities, NEW p \in Prices,
             ApplyFill(o, q, p)
      PROVE QInv'
  <2> DEFINE s == FilledState(o, q)
  <2>1. o \in active /\ s \in OrderState
    BY <1>3 DEF ApplyFill, CanFill, FilledState, QInv, TypeOK, OrderState
  <2>2. state[o] \in Terminal => state[o] = "Filled"
    BY <1>3 DEF ApplyFill, CanFill, Terminal
  <2>3. state[o] = "Filled" => s = "Filled"
    BY DEF FilledState
  <2>4. (state[o] \in Terminal => s \in Terminal)
        /\ (s # state[o] => state[o] \notin Terminal)
    BY <2>2, <2>3 DEF Terminal
  <2>5. state' = [state EXCEPT ![o] = s] /\ purgeQueue' = Queued(o, s)
        /\ active' = active /\ idCounter' = idCounter
    BY <1>3 DEF ApplyFill
  <2> HIDE DEF s
  <2>6. PurgeQueueExact'
    BY <2>1, <2>4, <2>5, StateChangeKeepsQueue DEF QInv
  <2>7. FreshIds'
    BY <2>5 DEF QInv, FreshIds
  <2> QED BY <1>0, <2>6, <2>7 DEF QInv
<1>4. CASE PurgeTerminalOrders
  <2>1. PurgeQueueExact'
    BY <1>4 DEF PurgeTerminalOrders, QInv, PurgeQueueExact, Expired
  <2>2. FreshIds'
    BY <1>4 DEF PurgeTerminalOrders, QInv, FreshIds
  <2> QED BY <1>0, <2>1, <2>2 DEF QInv
<1>5. CASE Tick
  BY <1>0, <1>5 DEF Tick, QInv, FreshIds, PurgeQueueExact, orderVars
<1>6. CASE UNCHANGED vars
  BY <1>0, <1>6 DEF vars, QInv, FreshIds, PurgeQueueExact, orderVars
<1> QED BY <1>1, <1>2, <1>3, <1>4, <1>5, <1>6 DEF Next

\* The purge queue always holds exactly the terminal orders of the map, each
\* once: no terminal order leaks, no live order is scheduled for removal.
THEOREM PurgeQueueExactHolds == Spec => []PurgeQueueExact
<1>1. QInv => PurgeQueueExact
  BY DEF QInv
<1> QED BY InitOrderInv, NextOrderInv, InitQInv, NextQInv, <1>1, PTL DEF Spec

-----------------------------------------------------------------------------
\* No step revives a terminal order or gives filled quantity back.
THEOREM TerminalIsFinalHolds == Spec => TerminalIsFinal
<1> DEFINE Kept == \A o \in active :
             /\ state[o] \in Terminal => o \notin active' \/ state'[o] = state[o]
             /\ filled'[o] >= filled[o]
<1>1. ASSUME TypeOK, FreshIds, [Next]_vars PROVE [Kept]_vars
  <2> SUFFICES ASSUME Next PROVE Kept
    BY <1>1
  <2> SUFFICES ASSUME NEW u \in active
               PROVE  /\ state[u] \in Terminal
                           => u \notin active' \/ state'[u] = state[u]
                      /\ filled'[u] >= filled[u]
    OBVIOUS
  <2>0. u \in OrderIds /\ filled[u] \in Nat
    BY <1>1 DEF TypeOK
  <2>1. ASSUME NEW q \in Quantities, AddOrder(q)
        PROVE state'[u] = state[u] /\ filled'[u] >= filled[u]
    <3>1. u # idCounter
      BY <1>1 DEF TypeOK, FreshIds
    <3> QED BY <1>1, <2>0, <2>1, <3>1 DEF AddOrder, TypeOK
  <2>2. ASSUME NEW o \in OrderIds, NEW s \in OrderState, Transition(o, s)
        PROVE /\ state[u] \in Terminal => state'[u] = state[u]
              /\ filled'[u] >= filled[u]
    <3>1. state[o] \notin Terminal
      BY <1>1, <2>2, ValidNextLeavesTerminal
         DEF Transition, CanTransition, TypeOK
    <3> QED BY <1>1, <2>0, <2>2, <3>1 DEF Transition, TypeOK
  <2>3. ASSUME NEW o \in OrderIds, NEW q \in FillQuantities, NEW p \in Prices,
               ApplyFill(o, q, p)
        PROVE /\ state[u] \in Terminal => state'[u] = state[u]
              /\ filled'[u] >= filled[u]
    <3>1. q \in Nat
      BY FillsAssumption, <1>1, <2>3 DEF ApplyFill, CanFill, TypeOK
    <3>2. filled'[u] >= filled[u]
      BY <1>1, <2>0, <2>3, <3>1 DEF ApplyFill, TypeOK
    <3>3. state[o] \in Terminal => FilledState(o, q) = state[o]
      BY <2>3 DEF ApplyFill, CanFill, FilledState, Terminal
    <3> QED BY <1>1, <2>0, <2>3, <3>2, <3>3 DEF ApplyFill, TypeOK
  <2>4. CASE PurgeTerminalOrders
    BY <2>0, <2>4 DEF PurgeTerminalOrders
  <2>5. CASE Tick
    BY <2>0, <2>5 DEF Tick, orderVars
  <2> QED BY <2>1, <2>2, <2>3, <2>4, <2>5 DEF Next
<1>2. QInv => TypeOK /\ FreshIds
  BY DEF QInv
<1> QED BY InitOrderInv, NextOrderInv, InitQInv, NextQInv, <1>1, <1>2, PTL
        DEF Spec, TerminalIsFinal

-----------------------------------------------------------------------------
(* The average price.  What is divided is a weighted sum of prices: it fits *)
(* into a word because the order does, and lies between the bounds because  *)
(* the old average and the new price do.                                    *)

\* What fits into the upper half of a word is not changed by wrapping.
LEMMA SmallIsUnwrapped ==
  ASSUME NEW i \in Nat, i < Word \div 2 PROVE Wrapped(i) = i
<1> DEFINE h == Word \div 2
<1>1. Word \in Nat \ {0} /\ h \in Nat /\ 2 * h <= Word
  BY ConstantsOK DEF Assumptions
<1>2. i < h
  OBVIOUS
<1> HIDE DEF h
<1>3. i + h \in 0..Word - 1
  BY <1>1, <1>2
<1>4. (i + h) % Word = i + h
  BY <1>1, <1>3
<1> QED BY <1>1, <1>4 DEF Wrapped, h

\* Multiplication by a natural number keeps the order.
LEMMA TimesKeepsOrder ==
  ASSUME NEW c \in Nat, NEW i \in Int, NEW j \in Int, i <= j PROVE c * i <= c * j
<1>1. j - i \in Nat
  OBVIOUS
<1>2. c * (j - i) \in Nat
  BY <1>1
<1> QED BY <1>2

\* Division undoes it.
LEMMA QuotientBetween ==
  ASSUME NEW d \in Nat \ {0}, NEW n \in Nat, NEW lo \in Nat, NEW hi \in Nat,
         d * lo <= n, n <= d * hi
  PROVE  lo <= n \div d /\ n \div d <= hi
<1> DEFINE k == n \div d
<1>1. k \in Nat /\ d * k <= n /\ n < d * (k + 1)
  OBVIOUS
<1> HIDE DEF k
<1>2. ASSUME k < lo PROVE FALSE
  <2>1. d * (k + 1) <= d * lo
    BY <1>1, <1>2, TimesKeepsOrder
  <2> QED BY <1>1, <2>1
<1>3. ASSUME hi < k PROVE FALSE
  <2>1. d * (hi + 1) <= d * k
    BY <1>1, <1>3, TimesKeepsOrder
  <2>2. d * (hi + 1) = d * hi + d
    OBVIOUS
  <2>3. d * hi \in Nat /\ d * k \in Nat
    BY <1>1
  <2> QED BY <1>1, <2>1, <2>2, <2>3
<1> QED BY <1>1, <1>2, <1>3 DEF k

\* The average of prices between two bounds is between them.
LEMMA AverageBetween ==
  ASSUME NEW f \in Nat, NEW a \in Int, NEW q \in Nat \ {0}, NEW p \in Nat,
         NEW lo \in Nat, NEW hi \in Nat, NEW whole \in Nat,
         f > 0 => lo <= a /\ a <= hi, lo <= p, p <= hi,
         f + q <= whole, whole * hi < Word \div 2
  PROVE  /\ lo <= Quotient(Wrapped(f * a + q * p), f + q)
         /\ Quotient(Wrapped(f * a + q * p), f + q) <= hi
<1> DEFINE n == f * a + q * p
           d == f + q
<1>1. f * lo <= f * a /\ f * a <= f * hi
  <2>1. CASE f = 0
    BY <2>1
  <2>2. CASE f > 0
    BY <2>2, TimesKeepsOrder
  <2> QED BY <2>1, <2>2
<1>2. q * lo <= q * p /\ q * p <= q * hi
  BY TimesKeepsOrder
<1>3. d * lo = f * lo + q * lo /\ d * hi = f * hi + q * hi
  OBVIOUS
<1>4. /\ f * a \in Int /\ q * p \in Int /\ f * lo \in Nat /\ q * lo \in Nat
      /\ f * hi \in Nat /\ q * hi \in Nat
  OBVIOUS
<1>5. n \in Nat /\ d \in Nat \ {0} /\ d * lo <= n /\ n <= d * hi
  BY <1>1, <1>2, <1>3, <1>4
<1>6. hi * d <= hi * whole
  BY TimesKeepsOrder
<1>7. hi * d = d * hi /\ hi * whole = whole * hi /\ whole * hi \in Nat /\ d * hi \in Nat
  OBVIOUS
<1>8. Word \div 2 \in Nat
  BY ConstantsOK DEF Assumptions
<1>9. n < Word \div 2
  BY <1>5, <1>6, <1>7, <1>8
<1> HIDE DEF n, d
<1>10. Wrapped(n) = n
  BY <1>5, <1>9, SmallIsUnwrapped
<1>11. lo <= n \div d /\ n \div d <= hi
  BY <1>5, QuotientBetween
<1>12. Quotient(n, d) = n \div d
  BY <1>5 DEF Quotient
<1> QED BY <1>10, <1>11, <1>12 DEF n, d

AInv == OrderInv /\ AverageInRange

\* A fill keeps the average between the lowest and the highest price paid.
LEMMA FillKeepsAverage ==
  ASSUME OrderInv, AverageInRange, NEW o \in OrderIds, NEW q \in FillQuantities, NEW p \in Prices,
         ApplyFill(o, q, p)
  PROVE  AverageInRange'
<1> USE ConstantsOK DEF Assumptions
<1>1. /\ q \in Nat \ {0} /\ q <= remaining[o] /\ p \in Nat
      /\ filled[o] \in Nat /\ avgPrice[o] \in Int /\ remaining[o] \in Nat
      /\ quantity[o] \in Nat /\ filled[o] + q <= quantity[o]
  BY DEF ApplyFill, CanFill, OrderInv, TypeOK, FillAccounting
<1>2. \A r \in OrderIds \ {o} : filled'[r] = filled[r] /\ avgPrice'[r] = avgPrice[r]
  BY DEF ApplyFill, OrderInv, TypeOK
<1>3. avgPrice'[o] = Average(o, q, p) /\ quantity' = quantity
  BY DEF ApplyFill, OrderInv, TypeOK
<1>4. ASSUME Fits(o)
      PROVE  \E lo, hi \in Prices : lo <= Average(o, q, p) /\ Average(o, q, p) <= hi
  <2>1. \E lo, hi \in Prices :
          /\ filled[o] > 0 => lo <= avgPrice[o] /\ avgPrice[o] <= hi
          /\ lo <= p /\ p <= hi
    <3>1. CASE filled[o] = 0
      BY <1>1, <3>1
    <3>2. CASE filled[o] > 0
      <4>1. PICK lo, hi \in Prices : lo <= avgPrice[o] /\ avgPrice[o] <= hi
        BY <1>4, <3>2 DEF AverageInRange
      <4>2. lo \in Nat /\ hi \in Nat
        OBVIOUS
      <4>3. \E low \in Prices : low <= lo /\ low <= p
        BY <1>1, <4>2
      <4>4. PICK low \in Prices : low <= lo /\ low <= p
        BY <4>3
      <4>5. \E high \in Prices : hi <= high /\ p <= high
        BY <1>1, <4>2
      <4>6. PICK high \in Prices : hi <= high /\ p <= high
        BY <4>5
      <4>7. low \in Nat /\ high \in Nat
        OBVIOUS
      <4>8. low <= avgPrice[o] /\ avgPrice[o] <= high
        BY <1>1, <4>1, <4>2, <4>4, <4>6, <4>7
      <4> QED BY <4>4, <4>6, <4>8
    <3> QED BY <1>1, <3>1, <3>2
  <2>2. PICK lo, hi \in Prices :
          /\ filled[o] > 0 => lo <= avgPrice[o] /\ avgPrice[o] <= hi
          /\ lo <= p /\ p <= hi
    BY <2>1
  <2>3. lo \in Nat /\ hi \in Nat
    OBVIOUS
  <2>4. quantity[o] * hi < Word \div 2
    BY <1>4 DEF Fits
  <2>5. lo <= Average(o, q, p) /\ Average(o, q, p) <= hi
    BY <1>1, <2>2, <2>3, <2>4, AverageBetween DEF Average
  <2> QED BY <2>5
<1> QED BY <1>2, <1>3, <1>4 DEF AverageInRange, Fits

\* Every step keeps the averages in range.
LEMMA NextAInv == AInv /\ [Next]_vars => AInv'
<1> SUFFICES ASSUME AInv, [Next]_vars PROVE AverageInRange'
  BY NextOrderInv DEF AInv
<1> USE DEF AInv, OrderInv
<1>1. ASSUME NEW q \in Quantities, AddOrder(q) PROVE AverageInRange'
  <2>1. filled'[idCounter] = 0
    BY <1>1 DEF AddOrder, TypeOK
  <2>2. \A r \in OrderIds \ {idCounter} :
          filled'[r] = filled[r] /\ avgPrice'[r] = avgPrice[r] /\ quantity'[r] = quantity[r]
    BY <1>1 DEF AddOrder, TypeOK
  <2> QED BY <2>1, <2>2 DEF AverageInRange, Fits
<1>2. ASSUME NEW o \in OrderIds, NEW s \in OrderState, Transition(o, s) PROVE AverageInRange'
  BY <1>2 DEF Transition, AverageInRange, Fits
<1>3. ASSUME NEW o \in OrderIds, NEW q \in FillQuantities, NEW p \in Prices,
             ApplyFill(o, q, p)
      PROVE  AverageInRange'
  BY <1>3, FillKeepsAverage
<1>4. CASE UNCHANGED <<quantity, filled, avgPrice>>
  BY <1>4 DEF AverageInRange, Fits
<1> QED
  BY <1>1, <1>2, <1>3, <1>4 DEF Next, PurgeTerminalOrders, Tick, vars, orderVars

\* However often the average is recomputed from its own truncated value, it
\* stays within the prices paid, unless the order's worth exceeds a word.
THEOREM AverageInRangeHolds == Spec => []AverageInRange
<1>1. Init => AverageInRange
  BY DEF Init, AverageInRange
<1>2. AInv => AverageInRange
  BY DEF AInv
<1> QED BY InitOrderInv, NextAInv, <1>1, <1>2, PTL DEF Spec, AInv
=============================================================================
