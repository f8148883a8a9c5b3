--------------------- MODULE LiveOrderManagementProofs ---------------------
(***************************************************************************)
(* Proofs about LiveOrderManagement: that its books mirror the exchange's, *)
(* that it drives the order tracker by the tracker's own calls only, and   *)
(* that the two registries of cancels agree.                               *)
(*                                                                         *)
(*   1. Sums over sets of reports.  MapThenSumSet is recursive, so what it *)
(*      computes is proved by induction on the number of reports.          *)
(*   2. The invariant: the tracker's books, the market and its reports,    *)
(*      what was delivered, the fills that were and were not taken and,    *)
(*      with an ordered feed, the window of numbers the reconciler keeps.  *)
(*   3. Every step keeps it; the properties follow.                        *)
(*   4. The registries of cancels, under the condition they agree on.      *)
(***************************************************************************)
EXTENDS LiveOrderManagement, FiniteSetTheorems, WellFoundedInduction, TLAPS

-----------------------------------------------------------------------------
(* Sums over sets of reports.                                              *)

\* Induction on the natural numbers, for sets: every nonempty set of numbers
\* has a least element.
LEMMA Induction ==
  ASSUME NEW S, 0 \in S, \A n \in Nat : n \in S => n + 1 \in S
  PROVE  \A n \in Nat : n \in S
<1> DEFINE T == {n \in Nat : n \notin S}
           less == {ss \in Nat \X Nat : ss[1] < ss[2]}
<1>1. SUFFICES ASSUME T # {} PROVE FALSE
  OBVIOUS
<1>2. IsWellFoundedOn(less, Nat)
  BY NatLessThanWellFounded DEF OpToRel
<1>3. PICK x \in T : \A y \in T : <<y, x>> \notin less
  BY <1>1, <1>2, WFMin
<1>4. \A y \in T : ~(y < x)
  BY <1>3
<1>5. x # 0 /\ x - 1 \in Nat
  OBVIOUS
<1>6. x - 1 \in S
  BY <1>4, <1>5
<1> QED BY <1>5, <1>6

\* The sum of the quantities of the reports in S, as FillsMirrored takes it.
Traded(r, S) == MapThenSumSet(LAMBDA n : r[n].qty, S)

\* What MapThenSumSet makes of a set s of indices, given the sums of smaller ones.
SumStep(r, g, s) ==
  IF s = {} THEN 0
  ELSE LET x == CHOOSE x \in s : TRUE IN r[x].qty + g[s \ {x}]
Sums(r, T) == CHOOSE g : g = [s \in SUBSET T |-> SumStep(r, g, s)]

\* That recursion, unfolded from the community module.
LEMMA TradedIsSum ==
  ASSUME NEW r, NEW S PROVE Traded(r, S) = Sums(r, S)[S]
BY DEF Traded, MapThenSumSet, MapThenFoldSet, Sums, SumStep

\* Taking an element out leaves a smaller set.
LEMMA OneLess ==
  ASSUME NEW T, IsFiniteSet(T), NEW s \in SUBSET T, NEW x \in s,
         NEW n \in Nat, Cardinality(s) <= n + 1
  PROVE  s \ {x} \in SUBSET T /\ Cardinality(s \ {x}) <= n
<1>1. IsFiniteSet(s) /\ IsFiniteSet(s \ {x})
  BY FS_Subset
<1>2. Cardinality(s \ {x}) = Cardinality(s) - 1 /\ Cardinality(s) \in Nat
  BY <1>1, FS_RemoveElement, FS_CardinalityType
<1> QED BY <1>2

\* The sets the recursion starts from.
LEMMA EmptyOrOne ==
  ASSUME NEW T, IsFiniteSet(T), NEW s \in SUBSET T
  PROVE  /\ Cardinality(s) \in Nat /\ Cardinality(s) <= Cardinality(T)
         /\ Cardinality(T) \in Nat
         /\ Cardinality(s) <= 0 => s = {}
<1>1. IsFiniteSet(s) /\ Cardinality(s) <= Cardinality(T)
  BY FS_Subset
<1>2. Cardinality(s) \in Nat /\ Cardinality(T) \in Nat /\ (Cardinality(s) = 0 <=> s = {})
  BY <1>1, FS_CardinalityType, FS_EmptySet
<1> QED BY <1>1, <1>2

\* The recursion has a solution: CHOOSE finds a function that satisfies it.
LEMMA SumsUnfold ==
  ASSUME NEW r, NEW T, IsFiniteSet(T)
  PROVE  Sums(r, T) = [s \in SUBSET T |-> SumStep(r, Sums(r, T), s)]
<1> DEFINE Good(g, n) == \A s \in SUBSET T : Cardinality(s) <= n => g[s] = SumStep(r, g, s)
           S == {n \in Nat : \E g : g = [s \in SUBSET T |-> g[s]] /\ Good(g, n)}
<1>1. 0 \in S
  <2> DEFINE g == [s \in SUBSET T |-> 0]
  <2>1. Good(g, 0)
    BY EmptyOrOne DEF SumStep
  <2> QED BY <2>1
<1>2. ASSUME NEW n \in Nat, n \in S PROVE n + 1 \in S
  <2>1. PICK g : g = [s \in SUBSET T |-> g[s]] /\ Good(g, n)
    BY <1>2
  <2> DEFINE h == [s \in SUBSET T |-> SumStep(r, g, s)]
  <2>2. ASSUME NEW s \in SUBSET T, Cardinality(s) <= n + 1 PROVE h[s] = SumStep(r, h, s)
    <3>1. CASE s = {}
      BY <3>1 DEF SumStep
    <3>2. CASE s # {}
      <4> DEFINE x == CHOOSE x \in s : TRUE
      <4>1. x \in s
        BY <3>2
      <4>2. s \ {x} \in SUBSET T /\ Cardinality(s \ {x}) <= n
        BY <2>2, <4>1, OneLess
      <4> HIDE DEF x
      <4>3. h[s \ {x}] = g[s \ {x}]
        BY <2>1, <4>2
      <4> HIDE DEF h
      <4>4. SumStep(r, g, s) = SumStep(r, h, s)
        BY <3>2, <4>3 DEF SumStep, x
      <4> QED BY <4>4 DEF h
    <3> QED BY <3>1, <3>2
  <2>3. h = [s \in SUBSET T |-> h[s]] /\ Good(h, n + 1)
    BY <2>2
  <2>4. n + 1 \in Nat
    OBVIOUS
  <2> HIDE DEF h, Good
  <2> QED BY <2>3, <2>4
<1>3. Cardinality(T) \in S
  <2> HIDE DEF S
  <2> QED BY <1>1, <1>2, Induction, FS_CardinalityType
<1>4. PICK g : g = [s \in SUBSET T |-> g[s]] /\ Good(g, Cardinality(T))
  BY <1>3
<1>5. g = [s \in SUBSET T |-> SumStep(r, g, s)]
  <2>1. \A s \in SUBSET T : g[s] = SumStep(r, g, s)
    BY <1>4, EmptyOrOne
  <2> QED BY <1>4, <2>1
<1> QED BY <1>5 DEF Sums

\* The recursion at one set.
LEMMA SumsAt ==
  ASSUME NEW r, NEW T, IsFiniteSet(T), NEW s \in SUBSET T
  PROVE  Sums(r, T)[s] = SumStep(r, Sums(r, T), s)
<1> DEFINE g == Sums(r, T)
<1>1. g = [t \in SUBSET T |-> SumStep(r, g, t)]
  BY SumsUnfold
<1> HIDE DEF g
<1>2. g[s] = SumStep(r, g, s)
  BY <1>1
<1> QED BY <1>2 DEF g

\* The sum of a set depends on the quantities in it only.
LEMMA SumsAgree ==
  ASSUME NEW r, NEW r2, NEW S, NEW T, IsFiniteSet(T), S \subseteq T,
         \A n \in S : r[n].qty = r2[n].qty
  PROVE  \A s \in SUBSET S : Sums(r, S)[s] = Sums(r2, T)[s]
<1> DEFINE g == Sums(r, S)
           h == Sums(r2, T)
           I == {n \in Nat : \A s \in SUBSET S : Cardinality(s) <= n => g[s] = h[s]}
<1>1. IsFiniteSet(S)
  BY FS_Subset
<1>2. /\ \A s \in SUBSET S : g[s] = SumStep(r, g, s)
      /\ \A s \in SUBSET S : h[s] = SumStep(r2, h, s)
  <2>1. \A s \in SUBSET S : s \in SUBSET T
    OBVIOUS
  <2> QED BY <1>1, <2>1, SumsAt
<1> HIDE DEF g, h
<1>3. 0 \in I
  BY <1>1, <1>2, EmptyOrOne DEF SumStep
<1>4. ASSUME NEW n \in Nat, n \in I PROVE n + 1 \in I
  <2>1. ASSUME NEW s \in SUBSET S, Cardinality(s) <= n + 1 PROVE g[s] = h[s]
    <3>1. CASE s = {}
      BY <1>2, <3>1 DEF SumStep
    <3>2. CASE s # {}
      <4> DEFINE x == CHOOSE x \in s : TRUE
      <4>1. x \in s /\ x \in S
        BY <3>2
      <4>2. s \ {x} \in SUBSET S /\ Cardinality(s \ {x}) <= n
        BY <1>1, <2>1, <4>1, OneLess
      <4>3. g[s] = r[x].qty + g[s \ {x}] /\ h[s] = r2[x].qty + h[s \ {x}]
        BY <1>2, <3>2 DEF SumStep
      <4> HIDE DEF x
      <4>4. g[s \ {x}] = h[s \ {x}]
        BY <1>4, <4>2
      <4> QED BY <4>1, <4>3, <4>4
    <3> QED BY <3>1, <3>2
  <2> QED BY <2>1
<1>5. Cardinality(S) \in I
  <2> HIDE DEF I
  <2> QED BY <1>1, <1>3, <1>4, Induction, FS_CardinalityType
<1> QED BY <1>1, <1>5, EmptyOrOne DEF g, h

\* It does not matter which one is taken first.
LEMMA SumsTakeAny ==
  ASSUME NEW r, NEW T, IsFiniteSet(T), \A n \in T : r[n].qty \in Nat
  PROVE  \A s \in SUBSET T :
           /\ Sums(r, T)[s] \in Nat
           /\ \A y \in s : Sums(r, T)[s] = r[y].qty + Sums(r, T)[s \ {y}]
<1> DEFINE g == Sums(r, T)
           Fine(s) == g[s] \in Nat /\ \A y \in s : g[s] = r[y].qty + g[s \ {y}]
           I == {n \in Nat : \A s \in SUBSET T : Cardinality(s) <= n => Fine(s)}
<1>1. \A s \in SUBSET T : g[s] = SumStep(r, g, s)
  <2>1. g = [s \in SUBSET T |-> SumStep(r, g, s)]
    BY SumsUnfold
  <2> HIDE DEF g
  <2> QED BY <2>1
<1> HIDE DEF g
<1>2. 0 \in I
  BY <1>1, EmptyOrOne DEF SumStep
<1>3. ASSUME NEW n \in Nat, n \in I PROVE n + 1 \in I
  <2>1. ASSUME NEW s \in SUBSET T, Cardinality(s) <= n + 1 PROVE Fine(s)
    <3>1. CASE s = {}
      BY <1>1, <3>1 DEF SumStep
    <3>2. CASE s # {}
      <4> DEFINE x == CHOOSE x \in s : TRUE
      <4>1. x \in s /\ x \in T /\ r[x].qty \in Nat
        BY <3>2
      <4>2. g[s] = r[x].qty + g[s \ {x}]
        BY <1>1, <3>2 DEF SumStep
      <4> HIDE DEF x
      <4>3. \A y \in s : s \ {y} \in SUBSET T /\ Fine(s \ {y})
        <5>1. \A y \in s : s \ {y} \in SUBSET T /\ Cardinality(s \ {y}) <= n
          BY <2>1, OneLess
        <5> QED BY <1>3, <5>1
      <4>4. g[s \ {x}] \in Nat
        BY <4>1, <4>3
      <4>5. ASSUME NEW y \in s, y # x PROVE g[s] = r[y].qty + g[s \ {y}]
        <5>1. g[s \ {x}] = r[y].qty + g[(s \ {x}) \ {y}]
          BY <4>1, <4>3, <4>5
        <5>2. g[s \ {y}] = r[x].qty + g[(s \ {y}) \ {x}]
          BY <4>1, <4>3, <4>5
        <5>3. (s \ {x}) \ {y} = (s \ {y}) \ {x}
          OBVIOUS
        <5>4. r[y].qty \in Nat /\ g[(s \ {x}) \ {y}] \in Nat
          <6>1. (s \ {x}) \ {y} \in SUBSET T /\ Cardinality((s \ {x}) \ {y}) <= n
            <7>1. IsFiniteSet(s \ {x}) /\ Cardinality(s \ {x}) <= n
              BY <2>1, <4>1, OneLess, FS_Subset
            <7>2. Cardinality((s \ {x}) \ {y}) <= Cardinality(s \ {x})
              BY <7>1, FS_Subset
            <7>3. Cardinality((s \ {x}) \ {y}) \in Nat /\ Cardinality(s \ {x}) \in Nat
              BY <7>1, FS_Subset, FS_CardinalityType
            <7> QED BY <7>1, <7>2, <7>3
          <6> QED BY <1>3, <6>1
        <5>5. g[s] = r[x].qty + (r[y].qty + g[(s \ {y}) \ {x}])
          BY <4>2, <5>1, <5>3
        <5>6. g[(s \ {y}) \ {x}] \in Nat
          BY <5>3, <5>4
        <5>7. r[x].qty + (r[y].qty + g[(s \ {y}) \ {x}]) = r[y].qty + (r[x].qty + g[(s \ {y}) \ {x}])
          BY <4>1, <5>4, <5>6
        <5> QED BY <5>2, <5>5, <5>7
      <4>6. g[s] \in Nat
        BY <4>1, <4>2, <4>4
      <4>7. \A y \in s : g[s] = r[y].qty + g[s \ {y}]
        BY <4>2, <4>5
      <4> QED BY <4>6, <4>7
    <3> QED BY <3>1, <3>2
  <2> QED BY <2>1
<1>4. Cardinality(T) \in I
  <2> HIDE DEF I
  <2> QED BY <1>2, <1>3, Induction, FS_CardinalityType
<1> QED BY <1>4, EmptyOrOne DEF g

\* No reports sum to nothing.
LEMMA TradedNone ==
  ASSUME NEW r PROVE Traded(r, {}) = 0
<1>1. IsFiniteSet({})
  BY FS_EmptySet
<1> DEFINE g == Sums(r, {})
<1>3. {} \in SUBSET {}
  OBVIOUS
<1>4. g[{}] = SumStep(r, g, {})
  BY <1>1, <1>3, SumsAt
<1> HIDE DEF g
<1>5. SumStep(r, g, {}) = 0
  BY DEF SumStep
<1> QED BY <1>4, <1>5, TradedIsSum DEF g

\* One more report adds its quantity.
LEMMA TradedOneMore ==
  ASSUME NEW r, NEW S, IsFiniteSet(S), NEW y, y \notin S,
         \A n \in S \union {y} : r[n].qty \in Nat
  PROVE  /\ Traded(r, S) \in Nat
         /\ Traded(r, S \union {y}) = Traded(r, S) + r[y].qty
<1> DEFINE T == S \union {y}
<1>1. IsFiniteSet(T) /\ T \ {y} = S /\ S \in SUBSET S /\ S \in SUBSET T /\ T \in SUBSET T /\ y \in T
  BY FS_AddElement
<1>2. Sums(r, S)[S] = Sums(r, T)[S]
  BY <1>1, SumsAgree
<1>3. Sums(r, T)[S] \in Nat /\ Sums(r, T)[T] = r[y].qty + Sums(r, T)[S]
  BY <1>1, SumsTakeAny
<1>4. r[y].qty \in Nat
  OBVIOUS
<1> QED BY <1>2, <1>3, <1>4, TradedIsSum

\* In particular, the sum of one set in two lists of reports.
LEMMA TradedAgree ==
  ASSUME NEW r, NEW r2, NEW S, IsFiniteSet(S), \A n \in S : r[n].qty = r2[n].qty
  PROVE  Traded(r, S) = Traded(r2, S)
BY SumsAgree, TradedIsSum

-----------------------------------------------------------------------------
(* The invariant.                                                          *)

ReportTypes == {"NewOrderAck", "CancelAck", "Reject", "Trade", "StatusUpdate"}
ReportRecord == [type : ReportTypes, order : OrderIds,
                 qty : FillQuantities \union {0}, price : Prices \union {0}, at : Nat]
Standings == {"unsent", "sent", "live", "filled", "canceled", "rejected"}

\* The values of the tracker's variables.
TrackerTypes ==
  /\ now \in Nat
  /\ idCounter \in Nat \ {0}
  /\ active \subseteq OrderIds
  /\ quantity  \in [OrderIds -> Nat]
  /\ filled    \in [OrderIds -> Nat]
  /\ remaining \in [OrderIds -> Nat]
  /\ state     \in [OrderIds -> OSM!OrderState]
  /\ \A e \in purgeQueue : e.id \in OrderIds

\* The values of the other variables.
FeedTypes ==
  /\ feed \in Feeds
  /\ exState \in [OrderIds -> Standings]
  /\ exFilled \in [OrderIds -> Nat]
  /\ reports \in Seq(ReportRecord)
  /\ Len(reports) <= MaxReports
  /\ \A n \in DOMAIN reports : reports[n].type = "Trade" =>
       reports[n].qty \in FillQuantities /\ reports[n].price \in Prices
  /\ times   \in [ReportIds -> Nat]
  /\ applied \in [ReportIds -> Nat]
  /\ verdict = [n \in ReportIds |-> verdict[n]]
  /\ lastSequence \in Nat
  /\ seenSequences \in Seq(Nat \ {0})

\* The tracker's own books.
Books ==
  /\ \A o \in OrderIds : filled[o] + remaining[o] = quantity[o]
  /\ \A o \in OrderIds : state[o] = "Filled" => remaining[o] = 0
  /\ \A o \in OrderIds : o < idCounter /\ state[o] \notin Terminal => o \in active
  /\ \A e \in purgeQueue : state[e.id] \in Terminal
  /\ \A o \in OrderIds : o >= idCounter => state[o] = "PendingNew" /\ filled[o] = 0

USE DEF OrderIds, Terminal, OSM!OrderIds, OSM!Terminal, OSM!OrderState

\* Whatever call of the tracker is made, its books stay in order.
LEMMA AddOrderKeepsBooks ==
  ASSUME TrackerTypes, Books, NEW q \in Quantities, OSM!AddOrder(q)
  PROVE  TrackerTypes' /\ Books'
<1> USE TrackerAssumption DEF OSM!AddOrder
<1>1. q \in Nat /\ idCounter \in OrderIds
  OBVIOUS
<1>2. /\ quantity' = [quantity EXCEPT ![idCounter] = q] /\ filled' = [filled EXCEPT ![idCounter] = 0]
      /\ remaining' = [remaining EXCEPT ![idCounter] = q]
      /\ state' = [state EXCEPT ![idCounter] = "PendingNew"]
      /\ idCounter' = idCounter + 1 /\ active' = active \union {idCounter}
      /\ purgeQueue' = purgeQueue /\ now' = now
  OBVIOUS
<1>3. TrackerTypes'
  BY <1>1, <1>2 DEF TrackerTypes
<1>4. \A o \in OrderIds : filled'[o] + remaining'[o] = quantity'[o]
  BY <1>1, <1>2 DEF TrackerTypes, Books
<1>5. \A o \in OrderIds : state'[o] = IF o = idCounter THEN "PendingNew" ELSE state[o]
  BY <1>1, <1>2 DEF TrackerTypes
<1>6. \A o \in OrderIds : state'[o] = "Filled" => remaining'[o] = 0
  BY <1>1, <1>2, <1>5 DEF TrackerTypes, Books
<1>7. \A o \in OrderIds : o < idCounter' => o = idCounter \/ o < idCounter
  BY <1>2 DEF TrackerTypes
<1>8. \A o \in OrderIds : o < idCounter' /\ state'[o] \notin Terminal => o \in active'
  BY <1>2, <1>5, <1>7 DEF Books
<1>9. \A e \in purgeQueue' : e.id # idCounter
  <2>1. idCounter >= idCounter
    BY <1>1
  <2>2. state[idCounter] = "PendingNew"
    BY <1>1, <2>1 DEF Books
  <2> QED BY <1>2, <2>2 DEF Books
<1>10. \A e \in purgeQueue' : state'[e.id] \in Terminal
  BY <1>2, <1>5, <1>9 DEF TrackerTypes, Books
<1>11. \A o \in OrderIds : o >= idCounter' => o >= idCounter /\ o # idCounter
  BY <1>2 DEF TrackerTypes
<1>12. \A o \in OrderIds : o >= idCounter' => state'[o] = "PendingNew" /\ filled'[o] = 0
  BY <1>1, <1>2, <1>5, <1>11 DEF TrackerTypes, Books
<1> QED BY <1>3, <1>4, <1>6, <1>8, <1>10, <1>12 DEF Books

\* A transition is made by an order that has not ended.
LEMMA TransitionKeepsBooks ==
  ASSUME TrackerTypes, Books, NEW o \in OrderIds, o < idCounter,
         NEW s \in {"Open", "Canceled", "Rejected"}, OSM!Transition(o, s)
  PROVE  /\ TrackerTypes' /\ Books'
         /\ state[o] \notin Terminal
<1>1. /\ state' = [state EXCEPT ![o] = s] /\ purgeQueue' = OSM!Queued(o, s)
      /\ idCounter' = idCounter /\ active' = active /\ quantity' = quantity
      /\ filled' = filled /\ remaining' = remaining /\ now' = now
      /\ o \in active
  BY DEF OSM!Transition, OSM!CanTransition
<1>2. state[o] \notin Terminal
  BY DEF OSM!Transition, OSM!CanTransition, OSM!ValidNext, TrackerTypes
<1>3. s # state[o]
  BY DEF OSM!Transition, OSM!CanTransition, OSM!ValidNext, TrackerTypes
<1>4. \A e \in purgeQueue' : e \in purgeQueue \/ (e.id = o /\ s \in Terminal)
  BY <1>1 DEF OSM!Queued
<1>5. TrackerTypes'
  BY <1>1, <1>4 DEF TrackerTypes
<1>6. \A x \in OrderIds : state'[x] = IF x = o THEN s ELSE state[x]
  BY <1>1 DEF TrackerTypes
<1>7. \A e \in purgeQueue' : state'[e.id] \in Terminal
  BY <1>2, <1>4, <1>6 DEF TrackerTypes, Books
<1>8. \A x \in OrderIds : state'[x] = "Filled" => remaining'[x] = 0
  BY <1>1, <1>6 DEF Books
<1>9. \A x \in OrderIds : x >= idCounter' => state'[x] = "PendingNew" /\ filled'[x] = 0
  BY <1>1, <1>6 DEF Books, TrackerTypes
<1>10. \A x \in OrderIds : x < idCounter' /\ state'[x] \notin Terminal => x \in active'
  BY <1>1, <1>2, <1>6 DEF Books
<1> QED BY <1>1, <1>2, <1>5, <1>7, <1>8, <1>9, <1>10 DEF Books

\* A fill is taken by an order that has not ended.
LEMMA ApplyFillKeepsBooks ==
  ASSUME TrackerTypes, Books, NEW o \in OrderIds, o < idCounter,
         NEW q \in Nat, NEW p, OSM!ApplyFill(o, q, p)
  PROVE  /\ TrackerTypes' /\ Books'
         /\ state[o] \notin Terminal
         /\ filled' = [filled EXCEPT ![o] = filled[o] + q] /\ q > 0
         /\ state'[o] \in {"PartiallyFilled", "Filled"}
         /\ \A x \in OrderIds \ {o} : state'[x] = state[x]
<1>1. /\ state' = [state EXCEPT ![o] = OSM!FilledState(o, q)]
      /\ purgeQueue' = OSM!Queued(o, OSM!FilledState(o, q))
      /\ idCounter' = idCounter /\ active' = active /\ quantity' = quantity
      /\ filled' = [filled EXCEPT ![o] = filled[o] + q]
      /\ remaining' = [remaining EXCEPT ![o] = remaining[o] - q] /\ now' = now
  BY DEF OSM!ApplyFill, OSM!statVars
<1>2. 0 < q /\ q <= remaining[o] /\ o \in active /\ state[o] \notin {"Rejected", "Canceled"}
  BY DEF OSM!ApplyFill, OSM!CanFill
<1>3. state[o] # "Filled"
  BY <1>2 DEF Books, TrackerTypes
<1>4. state[o] \in {"PendingNew", "Open", "PartiallyFilled"}
  BY <1>2, <1>3 DEF TrackerTypes
<1>5. /\ OSM!FilledState(o, q) \in {"PartiallyFilled", "Filled"}
      /\ OSM!FilledState(o, q) = "Filled" <=> remaining[o] = q
  BY <1>4 DEF OSM!FilledState
<1>6. \A x \in OrderIds : state'[x] = IF x = o THEN OSM!FilledState(o, q) ELSE state[x]
  BY <1>1 DEF TrackerTypes
<1>7. /\ \A x \in OrderIds : remaining'[x] = IF x = o THEN remaining[o] - q ELSE remaining[x]
      /\ \A x \in OrderIds : filled'[x] = IF x = o THEN filled[o] + q ELSE filled[x]
  BY <1>1 DEF TrackerTypes
<1>8. \A e \in purgeQueue' : e \in purgeQueue \/ (e.id = o /\ OSM!FilledState(o, q) \in Terminal)
  BY <1>1 DEF OSM!Queued
<1>9. remaining[o] - q \in Nat /\ filled[o] + q \in Nat
  BY <1>2 DEF TrackerTypes
<1>10. TrackerTypes'
  <2>1. state' \in [OrderIds -> OSM!OrderState]
    BY <1>1, <1>5 DEF TrackerTypes
  <2>2. \A e \in purgeQueue' : e.id \in OrderIds
    BY <1>8 DEF TrackerTypes
  <2> QED BY <1>1, <1>9, <2>1, <2>2 DEF TrackerTypes
<1>11. \A x \in OrderIds : filled'[x] + remaining'[x] = quantity'[x]
  <2>1. (filled[o] + q) + (remaining[o] - q) = filled[o] + remaining[o]
    BY DEF TrackerTypes
  <2> QED BY <1>1, <1>7, <2>1 DEF Books
<1>12. \A x \in OrderIds : state'[x] = "Filled" => remaining'[x] = 0
  <2>1. remaining[o] = q => remaining[o] - q = 0
    BY DEF TrackerTypes
  <2> QED BY <1>5, <1>6, <1>7, <2>1 DEF Books
<1>13. \A e \in purgeQueue' : state'[e.id] \in Terminal
  BY <1>3, <1>4, <1>6, <1>8 DEF TrackerTypes, Books
<1>14. \A x \in OrderIds : x >= idCounter' => state'[x] = "PendingNew" /\ filled'[x] = 0
  <2>1. \A x \in OrderIds : x >= idCounter => x # o
    BY DEF TrackerTypes
  <2> QED BY <1>1, <1>6, <1>7, <2>1 DEF Books
<1>15. \A x \in OrderIds : x < idCounter' /\ state'[x] \notin Terminal => x \in active'
  BY <1>1, <1>2, <1>6 DEF Books
<1>16. /\ state[o] \notin Terminal
       /\ state'[o] \in {"PartiallyFilled", "Filled"}
       /\ \A x \in OrderIds \ {o} : state'[x] = state[x]
  BY <1>4, <1>5, <1>6
<1> QED BY <1>1, <1>2, <1>10, <1>11, <1>12, <1>13, <1>14, <1>15, <1>16 DEF Books

\* A purge forgets orders that have ended.
LEMMA PurgeKeepsBooks ==
  ASSUME TrackerTypes, Books, OSM!PurgeTerminalOrders
  PROVE  TrackerTypes' /\ Books'
<1>1. /\ UNCHANGED <<now, idCounter, quantity, filled, remaining, state>>
      /\ \A e \in purgeQueue' : e \in purgeQueue
      /\ active' \subseteq active
      /\ \A o \in active : o \in active' \/ \E e \in purgeQueue : e.id = o
  BY DEF OSM!PurgeTerminalOrders, OSM!Expired
<1> QED BY <1>1 DEF TrackerTypes, Books

\* The clock is in none of the books.
LEMMA TickKeepsBooks ==
  ASSUME TrackerTypes, Books, OSM!Tick
  PROVE  TrackerTypes' /\ Books'
BY DEF TrackerTypes, Books, OSM!Tick, OSM!orderVars

\* Nor is what a refused call leaves as it was.
LEMMA IdleKeepsBooks ==
  ASSUME TrackerTypes, Books, UNCHANGED orderState
  PROVE  TrackerTypes' /\ Books'
BY DEF TrackerTypes, Books, orderState

-----------------------------------------------------------------------------
(* The exchange.                                                           *)

\* How the exchange's orders, its reports and the tracker's states relate.
Market ==
  /\ \A o \in OrderIds : exState[o] = "unsent" <=> o >= idCounter
  /\ \A o \in OrderIds : exState[o] # "unsent" => quantity[o] > 0
  /\ \A o \in OrderIds :
       /\ exFilled[o] <= quantity[o]
       /\ exState[o] \in {"live", "canceled"} => exFilled[o] < quantity[o]
       /\ exState[o] \in {"unsent", "sent", "rejected"} => exFilled[o] = 0
  /\ \A n \in DOMAIN reports :
       /\ reports[n].type = "Reject" => exState[reports[n].order] = "rejected"
       /\ reports[n].type # "Reject" =>
            exState[reports[n].order] \in {"live", "filled", "canceled"}
       /\ reports[n].type = "CancelAck" => exState[reports[n].order] = "canceled"
  /\ \A m, n \in DOMAIN reports :
       reports[m].type = "CancelAck" /\ reports[n].type = "Trade"
         /\ reports[m].order = reports[n].order => n < m
  /\ \A o \in OrderIds :
       /\ state[o] = "Rejected" => exState[o] = "rejected"
       /\ state[o] = "Canceled" => exState[o] = "canceled"
       /\ state[o] \in {"Open", "PartiallyFilled", "Filled"} =>
            exState[o] \in {"live", "filled", "canceled"}

\* One event at the exchange: order o comes to stand at x with f filled.
ExchangeStep(o, type, q, p, x, f) ==
  /\ Report(type, o, q, p)
  /\ exState' = [exState EXCEPT ![o] = x] /\ exFilled' = [exFilled EXCEPT ![o] = f]
  /\ type = "Trade" => q \in FillQuantities /\ p \in Prices
  /\ \/ type = "NewOrderAck"  /\ exState[o] = "sent" /\ x = "live"     /\ f = exFilled[o]
     \/ type = "Reject"       /\ exState[o] = "sent" /\ x = "rejected" /\ f = exFilled[o]
     \/ type = "CancelAck"    /\ exState[o] = "live" /\ x = "canceled" /\ f = exFilled[o]
     \/ type = "StatusUpdate" /\ exState[o] = "live" /\ x = "live"     /\ f = exFilled[o]
     \/ /\ type = "Trade" /\ exState[o] = "live"
        /\ f = exFilled[o] + q /\ f <= quantity[o]
        /\ x = IF f = quantity[o] THEN "filled" ELSE "live"

\* A sequence and one element more.
LEMMA Appended ==
  ASSUME NEW S, NEW s \in Seq(S), NEW e \in S
  PROVE  /\ Append(s, e) \in Seq(S)
         /\ Len(s) \in Nat /\ Len(Append(s, e)) = Len(s) + 1
         /\ DOMAIN Append(s, e) = DOMAIN s \union {Len(s) + 1}
         /\ Len(s) + 1 \notin DOMAIN s
         /\ \A i \in DOMAIN s : Append(s, e)[i] = s[i] /\ i < Len(s) + 1
         /\ Append(s, e)[Len(s) + 1] = e
OBVIOUS

\* The fields of the reports.
LEMMA ReportsTyped ==
  ASSUME FeedTypes
  PROVE  \A n \in DOMAIN reports :
           /\ n \in ReportIds
           /\ reports[n].order \in OrderIds /\ reports[n].type \in ReportTypes
           /\ reports[n].qty \in Nat
<1>1. \A n \in DOMAIN reports : reports[n] \in ReportRecord
  BY DEF FeedTypes
<1>2. \A n \in DOMAIN reports : n \in ReportIds
  BY FeedAssumption DEF FeedTypes, ReportIds
<1>3. FillQuantities \union {0} \subseteq Nat
  BY TrackerAssumption
<1>4. \A r \in ReportRecord : /\ r.order \in OrderIds /\ r.type \in ReportTypes
                              /\ r.qty \in FillQuantities \union {0}
  BY DEF ReportRecord
<1> QED BY <1>1, <1>2, <1>3, <1>4

\* What a report adds.
LEMMA Reported ==
  ASSUME TrackerTypes, FeedTypes, NEW o \in OrderIds, NEW type \in ReportTypes,
         NEW q \in FillQuantities \union {0}, NEW p \in Prices \union {0},
         Report(type, o, q, p)
  PROVE  /\ reports' \in Seq(ReportRecord) /\ Len(reports') <= MaxReports
         /\ Len(reports) \in Nat /\ Len(reports') = Len(reports) + 1
         /\ DOMAIN reports' = DOMAIN reports \union {Len(reports) + 1}
         /\ Len(reports) + 1 \notin DOMAIN reports
         /\ \A n \in DOMAIN reports : reports'[n] = reports[n] /\ n < Len(reports) + 1
         /\ reports'[Len(reports) + 1].type = type
         /\ reports'[Len(reports) + 1].order = o
         /\ reports'[Len(reports) + 1].qty = q
         /\ reports'[Len(reports) + 1].price = p
<1> DEFINE r == [type |-> type, order |-> o, qty |-> q, price |-> p, at |-> now]
<1>1. r \in ReportRecord
  BY DEF ReportRecord, TrackerTypes
<1>2. reports' = Append(reports, r) /\ Len(reports) < MaxReports /\ reports \in Seq(ReportRecord)
  BY DEF Report, FeedTypes
<1>3. r.type = type /\ r.order = o /\ r.qty = q /\ r.price = p
  OBVIOUS
<1> HIDE DEF r
<1>4. MaxReports \in Nat
  BY FeedAssumption
<1> QED BY <1>1, <1>2, <1>3, <1>4, Appended

\* Each of the exchange's actions is such an event.
LEMMA ExchangeSteps ==
  ASSUME TrackerTypes, FeedTypes, NEW o \in OrderIds,
         \/ ExchangeAccept(o)
         \/ ExchangeReject(o)
         \/ \E q \in FillQuantities, p \in Prices : ExchangeMatch(o, q, p)
         \/ ExchangeCancel(o)
         \/ ExchangeStatus(o)
  PROVE  \E type \in ReportTypes, q \in FillQuantities \union {0}, p \in Prices \union {0},
            x \in Standings, f \in Nat : ExchangeStep(o, type, q, p, x, f)
<1>0. exFilled[o] \in Nat
  BY DEF FeedTypes
<1>1. exFilled = [exFilled EXCEPT ![o] = exFilled[o]] /\ exState = [exState EXCEPT ![o] = exState[o]]
  BY DEF FeedTypes
<1>2. CASE ExchangeAccept(o)
  <2>1. ExchangeStep(o, "NewOrderAck", 0, 0, "live", exFilled[o])
    BY <1>1, <1>2 DEF ExchangeAccept, ExchangeStep
  <2> QED BY <1>0, <2>1 DEF ReportTypes, Standings
<1>3. CASE ExchangeReject(o)
  <2>1. ExchangeStep(o, "Reject", 0, 0, "rejected", exFilled[o])
    BY <1>1, <1>3 DEF ExchangeReject, ExchangeStep
  <2> QED BY <1>0, <2>1 DEF ReportTypes, Standings
<1>4. ASSUME NEW q \in FillQuantities, NEW p \in Prices, ExchangeMatch(o, q, p)
      PROVE  \E x \in Standings, f \in Nat : ExchangeStep(o, "Trade", q, p, x, f)
  <2> DEFINE f == exFilled[o] + q
             x == IF f = quantity[o] THEN "filled" ELSE "live"
  <2>1. f \in Nat /\ x \in Standings
    BY <1>0, TrackerAssumption DEF Standings
  <2>2. ExchangeStep(o, "Trade", q, p, x, f)
    BY <1>4 DEF ExchangeMatch, ExchangeStep
  <2> HIDE DEF f, x
  <2> QED BY <2>1, <2>2
<1>5. CASE ExchangeCancel(o)
  <2>1. ExchangeStep(o, "CancelAck", 0, 0, "canceled", exFilled[o])
    BY <1>1, <1>5 DEF ExchangeCancel, ExchangeStep
  <2> QED BY <1>0, <2>1 DEF ReportTypes, Standings
<1>6. CASE ExchangeStatus(o)
  <2>1. ExchangeStep(o, "StatusUpdate", 0, 0, "live", exFilled[o])
    BY <1>1, <1>6 DEF ExchangeStatus, ExchangeStep
  <2> QED BY <1>0, <2>1 DEF ReportTypes, Standings
<1>7. "Trade" \in ReportTypes
  BY DEF ReportTypes
<1> QED BY <1>2, <1>3, <1>4, <1>5, <1>6, <1>7

\* An event keeps the market in order.
LEMMA ExchangeKeepsMarket ==
  ASSUME TrackerTypes, FeedTypes, Books, Market,
         NEW o \in OrderIds, NEW type \in ReportTypes,
         NEW q \in FillQuantities \union {0}, NEW p \in Prices \union {0},
         NEW x \in Standings, NEW f \in Nat, ExchangeStep(o, type, q, p, x, f)
  PROVE  FeedTypes' /\ Market'
<1>1. /\ UNCHANGED <<orderState, rPending, trackerVars, pendingCancels, feed, historyVars>>
      /\ Report(type, o, q, p)
      /\ exState' = [exState EXCEPT ![o] = x] /\ exFilled' = [exFilled EXCEPT ![o] = f]
  BY DEF ExchangeStep, Report
<1>2. /\ UNCHANGED <<idCounter, quantity, filled, state, feed, times, applied, verdict,
                     lastSequence, seenSequences>>
  BY <1>1 DEF orderState, trackerVars, historyVars
<1>3. /\ \A z \in OrderIds : exState'[z] = IF z = o THEN x ELSE exState[z]
      /\ \A z \in OrderIds : exFilled'[z] = IF z = o THEN f ELSE exFilled[z]
  BY <1>1 DEF FeedTypes
<1> DEFINE k == Len(reports) + 1
<1>4. /\ reports' \in Seq(ReportRecord) /\ Len(reports') <= MaxReports
      /\ DOMAIN reports' = DOMAIN reports \union {k}
      /\ k \notin DOMAIN reports
      /\ \A n \in DOMAIN reports : reports'[n] = reports[n] /\ n < k
      /\ reports'[k].type = type /\ reports'[k].order = o
      /\ reports'[k].qty = q /\ reports'[k].price = p
  BY <1>1, Reported
<1> HIDE DEF k
<1>5. \A n \in DOMAIN reports : reports[n].order \in OrderIds
  BY ReportsTyped
<1>6. FeedTypes'
  <2>1. \A n \in DOMAIN reports' : reports'[n].type = "Trade" =>
          reports'[n].qty \in FillQuantities /\ reports'[n].price \in Prices
    BY <1>4 DEF ExchangeStep, FeedTypes
  <2>2. exState' \in [OrderIds -> Standings] /\ exFilled' \in [OrderIds -> Nat]
    BY <1>1 DEF FeedTypes
  <2> QED BY <1>2, <1>4, <2>1, <2>2 DEF FeedTypes
<1>7. exState[o] \in {"sent", "live"} /\ x \in {"live", "rejected", "canceled", "filled"}
  BY DEF ExchangeStep
<1>8. \A z \in OrderIds : exState'[z] = "unsent" <=> z >= idCounter'
  BY <1>2, <1>3, <1>7 DEF Market
<1>9. \A z \in OrderIds : exState'[z] # "unsent" => quantity'[z] > 0
  BY <1>2, <1>3, <1>7 DEF Market
<1>10. /\ f <= quantity[o]
       /\ x \in {"live", "canceled"} => f < quantity[o]
       /\ x \in {"unsent", "sent", "rejected"} => f = 0
  <2>0. quantity[o] > 0 /\ quantity[o] \in Nat
    BY <1>7 DEF Market, TrackerTypes
  <2>1. CASE type \in {"NewOrderAck", "Reject"}
    <3>1. exState[o] = "sent" /\ f = exFilled[o]
      BY <2>1 DEF ExchangeStep
    <3>2. f = 0
      BY <3>1 DEF Market
    <3> QED BY <2>0, <3>2
  <2>2. CASE type \in {"CancelAck", "StatusUpdate"}
    <3>1. exState[o] = "live" /\ f = exFilled[o] /\ x \in {"live", "canceled"}
      BY <2>2 DEF ExchangeStep
    <3>2. f < quantity[o]
      BY <3>1 DEF Market
    <3> QED BY <2>0, <3>1, <3>2
  <2>3. CASE type = "Trade"
    <3>1. f <= quantity[o] /\ x = IF f = quantity[o] THEN "filled" ELSE "live"
      BY <2>3 DEF ExchangeStep
    <3>2. f # quantity[o] => f < quantity[o]
      BY <2>0, <3>1
    <3> QED BY <3>1, <3>2
  <2> QED BY <2>1, <2>2, <2>3 DEF ReportTypes
<1>11. \A z \in OrderIds :
         /\ exFilled'[z] <= quantity'[z]
         /\ exState'[z] \in {"live", "canceled"} => exFilled'[z] < quantity'[z]
         /\ exState'[z] \in {"unsent", "sent", "rejected"} => exFilled'[z] = 0
  BY <1>2, <1>3, <1>10 DEF Market
<1>12. \A n \in DOMAIN reports' :
         /\ reports'[n].type = "Reject" => exState'[reports'[n].order] = "rejected"
         /\ reports'[n].type # "Reject" =>
              exState'[reports'[n].order] \in {"live", "filled", "canceled"}
         /\ reports'[n].type = "CancelAck" => exState'[reports'[n].order] = "canceled"
  <2>1. /\ type = "Reject" => x = "rejected"
        /\ type # "Reject" => x \in {"live", "filled", "canceled"}
        /\ type = "CancelAck" => x = "canceled"
    BY DEF ExchangeStep
  <2>2. \A n \in DOMAIN reports : reports[n].order = o =>
          reports[n].type \notin {"Reject", "CancelAck"} /\ exState[o] = "live"
    BY <1>7 DEF Market
  <2>3. exState[o] = "live" => type # "Reject" /\ x \in {"live", "filled", "canceled"}
    BY DEF ExchangeStep
  <2>4. ASSUME NEW n \in DOMAIN reports
        PROVE  /\ reports'[n].type = "Reject" => exState'[reports'[n].order] = "rejected"
               /\ reports'[n].type # "Reject" =>
                    exState'[reports'[n].order] \in {"live", "filled", "canceled"}
               /\ reports'[n].type = "CancelAck" => exState'[reports'[n].order] = "canceled"
    <3>1. CASE reports[n].order = o
      BY <1>3, <1>4, <2>2, <2>3, <3>1
    <3>2. CASE reports[n].order # o
      BY <1>3, <1>4, <1>5, <3>2 DEF Market
    <3> QED BY <3>1, <3>2
  <2> QED BY <1>3, <1>4, <2>1, <2>4
<1>13. \A m, n \in DOMAIN reports' :
         reports'[m].type = "CancelAck" /\ reports'[n].type = "Trade"
           /\ reports'[m].order = reports'[n].order => n < m
  <2>1. \A m \in DOMAIN reports : reports[m].type = "CancelAck" /\ reports[m].order = o => FALSE
    BY <1>7 DEF Market
  <2>2. ASSUME NEW m \in DOMAIN reports', NEW n \in DOMAIN reports',
               reports'[m].type = "CancelAck", reports'[n].type = "Trade",
               reports'[m].order = reports'[n].order
        PROVE  n < m
    <3>1. CASE m = k
      <4>1. n # k
        BY <1>4, <2>2, <3>1
      <4> QED BY <1>4, <3>1, <4>1
    <3>2. CASE m # k
      <4>1. m \in DOMAIN reports /\ reports[m].type = "CancelAck" /\ n # k
        BY <1>4, <2>1, <2>2, <3>2
      <4> QED BY <1>4, <2>2, <4>1 DEF Market
    <3> QED BY <3>1, <3>2
  <2> QED BY <2>2
<1>14. \A z \in OrderIds :
         /\ state'[z] = "Rejected" => exState'[z] = "rejected"
         /\ state'[z] = "Canceled" => exState'[z] = "canceled"
         /\ state'[z] \in {"Open", "PartiallyFilled", "Filled"} =>
              exState'[z] \in {"live", "filled", "canceled"}
  <2>1. state[o] \notin {"Rejected", "Canceled"}
    BY <1>7 DEF Market
  <2>2. state[o] \in {"Open", "PartiallyFilled", "Filled"} => x \in {"live", "filled", "canceled"}
    <3>1. state[o] \in {"Open", "PartiallyFilled", "Filled"} => exState[o] = "live"
      BY <1>7 DEF Market
    <3> QED BY <3>1 DEF ExchangeStep
  <2> QED BY <1>2, <1>3, <2>1, <2>2 DEF Market
<1> QED BY <1>6, <1>8, <1>9, <1>11, <1>12, <1>13, <1>14 DEF Market

\* So does a new order, which the exchange has not seen.
LEMMA AddOrderKeepsMarket ==
  ASSUME TrackerTypes, FeedTypes, Books, Market, NEW q \in Quantities, AddOrder(q)
  PROVE  FeedTypes' /\ Market'
<1>1. /\ UNCHANGED <<rPending, trackerVars, pendingCancels, feed, exFilled, reports, historyVars>>
      /\ exState' = [exState EXCEPT ![idCounter] = "sent"]
      /\ idCounter \in OrderIds /\ idCounter' = idCounter + 1
      /\ quantity' = [quantity EXCEPT ![idCounter] = q]
      /\ state' = [state EXCEPT ![idCounter] = "PendingNew"]
  BY DEF AddOrder, OSM!AddOrder
<1>2. UNCHANGED <<feed, exFilled, reports, times, applied, verdict, lastSequence, seenSequences>>
  BY <1>1 DEF trackerVars, historyVars
<1>3. FeedTypes'
  <2>1. exState' \in [OrderIds -> Standings]
    BY <1>1 DEF FeedTypes, Standings
  <2> QED BY <1>2, <2>1 DEF FeedTypes
<1>4. /\ \A z \in OrderIds : exState'[z] = IF z = idCounter THEN "sent" ELSE exState[z]
      /\ \A z \in OrderIds : quantity'[z] = IF z = idCounter THEN q ELSE quantity[z]
      /\ \A z \in OrderIds : state'[z] = IF z = idCounter THEN "PendingNew" ELSE state[z]
  BY <1>1 DEF FeedTypes, TrackerTypes
<1>5. exState[idCounter] = "unsent" /\ exFilled[idCounter] = 0
  <2>1. idCounter >= idCounter
    BY <1>1
  <2> QED BY <1>1, <2>1 DEF Market
<1>6. q \in Nat /\ q > 0
  BY TrackerAssumption
<1>7. \A z \in OrderIds : exState'[z] = "unsent" <=> z >= idCounter'
  <2>1. \A z \in OrderIds : z >= idCounter + 1 <=> z # idCounter /\ z >= idCounter
    BY <1>1
  <2> QED BY <1>1, <1>4, <2>1 DEF Market
<1>8. \A z \in OrderIds : exState'[z] # "unsent" => quantity'[z] > 0
  BY <1>4, <1>6 DEF Market
<1>9. \A z \in OrderIds :
         /\ exFilled'[z] <= quantity'[z]
         /\ exState'[z] \in {"live", "canceled"} => exFilled'[z] < quantity'[z]
         /\ exState'[z] \in {"unsent", "sent", "rejected"} => exFilled'[z] = 0
  <2>1. 0 <= q
    BY <1>6
  <2> QED BY <1>2, <1>4, <1>5, <2>1 DEF Market
<1>10. \A n \in DOMAIN reports' :
         /\ reports'[n].type = "Reject" => exState'[reports'[n].order] = "rejected"
         /\ reports'[n].type # "Reject" =>
              exState'[reports'[n].order] \in {"live", "filled", "canceled"}
         /\ reports'[n].type = "CancelAck" => exState'[reports'[n].order] = "canceled"
  <2>1. \A n \in DOMAIN reports : reports[n].order # idCounter
    BY <1>5 DEF Market
  <2> QED BY <1>2, <1>4, <2>1, ReportsTyped DEF Market
<1>11. \A z \in OrderIds :
         /\ state'[z] = "Rejected" => exState'[z] = "rejected"
         /\ state'[z] = "Canceled" => exState'[z] = "canceled"
         /\ state'[z] \in {"Open", "PartiallyFilled", "Filled"} =>
              exState'[z] \in {"live", "filled", "canceled"}
  BY <1>4 DEF Market
<1>12. \A m, n \in DOMAIN reports' :
       reports'[m].type = "CancelAck" /\ reports'[n].type = "Trade"
         /\ reports'[m].order = reports'[n].order => n < m
  BY <1>2 DEF Market
<1> QED BY <1>3, <1>7, <1>8, <1>9, <1>10, <1>11, <1>12 DEF Market

-----------------------------------------------------------------------------
(* The delivery of a report.                                               *)

Sequence(n) == IF feed = "unstamped" THEN 0 ELSE n

\* What a delivery leaves alone, and how it counts.
LEMMA Delivering ==
  ASSUME FeedTypes, Market, TrackerTypes, NEW n \in ReportIds, Deliver(n)
  PROVE  /\ n \in DOMAIN reports
         /\ reports[n].order \in OrderIds /\ reports[n].order < idCounter
         /\ times' = [times EXCEPT ![n] = times[n] + 1]
         /\ UNCHANGED <<feed, exState, exFilled, reports, rPending, cancels>>
         /\ verdict' = [m \in ReportIds |-> verdict'[m]]
         /\ \A m \in ReportIds : verdict'[m] = verdict[m] \/ (m = n /\ reports[n].type = "Trade")
         /\ ProcessReport(n, Sequence(n), reports[n])
<1>1. /\ n \in DOMAIN reports
      /\ times' = [times EXCEPT ![n] = times[n] + 1]
      /\ UNCHANGED <<feed, exState, exFilled, reports, rPending, cancels>>
      /\ ProcessReport(n, Sequence(n), reports[n])
  BY DEF Deliver, MayDeliver, exchangeVars, Sequence
<1>2. \/ verdict' = verdict
      \/ /\ reports[n].type = "Trade"
         /\ \E v : verdict' = [verdict EXCEPT ![n] = v]
  BY DEF Deliver
<1>3. reports[n].order \in OrderIds
  BY <1>1, ReportsTyped
<1>4. exState[reports[n].order] # "unsent"
  BY <1>1 DEF Market
<1>5. ~(reports[n].order >= idCounter)
  BY <1>3, <1>4 DEF Market
<1>6. reports[n].order < idCounter
  BY <1>3, <1>5 DEF TrackerTypes
<1>7. verdict' = [m \in ReportIds |-> verdict'[m]]
  BY <1>2 DEF FeedTypes
<1>8. \A m \in ReportIds : verdict'[m] = verdict[m] \/ (m = n /\ reports[n].type = "Trade")
  BY <1>2 DEF FeedTypes
<1> QED BY <1>1, <1>3, <1>6, <1>7, <1>8

\* What a delivery does to the tracker.
Idles(n) == UNCHANGED orderState /\ UNCHANGED applied
Moves(n) ==
  /\ ~IsDuplicate(Sequence(n)) /\ UNCHANGED applied
  /\ \/ reports[n].type = "NewOrderAck" /\ OSM!Transition(reports[n].order, "Open")
     \/ reports[n].type = "CancelAck"   /\ OSM!Transition(reports[n].order, "Canceled")
     \/ reports[n].type = "Reject"      /\ OSM!Transition(reports[n].order, "Rejected")
Fills(n) ==
  /\ ~IsDuplicate(Sequence(n)) /\ reports[n].type = "Trade"
  /\ OSM!ApplyFill(reports[n].order, reports[n].qty, reports[n].price)
  /\ applied' = [applied EXCEPT ![n] = applied[n] + 1]

\* A delivery is one call of the tracker, or none.
LEMMA DeliveryEffect ==
  ASSUME TrackerTypes, FeedTypes, Books, Market, NEW n \in ReportIds, Deliver(n)
  PROVE  Idles(n) \/ Moves(n) \/ Fills(n)
<1> DEFINE r == reports[n]
           o == reports[n].order
<1>1. n \in DOMAIN reports /\ o \in OrderIds /\ o < idCounter /\ ProcessReport(n, Sequence(n), r)
      /\ r.qty \in Nat
  BY Delivering, ReportsTyped
<1>2. CASE IsDuplicate(Sequence(n))
  BY <1>1, <1>2 DEF ProcessReport, Idles
<1>3. CASE ~IsDuplicate(Sequence(n))
  <2>1. applied' = [applied EXCEPT ![n] = IF filled' # filled THEN @ + 1 ELSE @]
    BY <1>1, <1>3 DEF ProcessReport
  <2>2. filled' = filled => applied' = applied
    BY <2>1 DEF FeedTypes
  <2>3. CASE UNCHANGED orderState
    BY <2>2, <2>3 DEF Idles, orderState
  <2>4. \A s : OSM!Transition(o, s) => filled' = filled
    BY DEF OSM!Transition
  <2>5. CASE r.type = "NewOrderAck" /\ HandleNewOrderAck(o)
    BY <1>3, <2>2, <2>3, <2>4, <2>5 DEF HandleNewOrderAck, TryTransition, Moves
  <2>6. CASE r.type = "CancelAck" /\ HandleCancelAck(o)
    BY <1>3, <2>2, <2>3, <2>4, <2>6 DEF HandleCancelAck, TryTransition, Moves
  <2>7. CASE r.type = "Reject" /\ HandleReject(o)
    BY <1>3, <2>2, <2>3, <2>4, <2>7 DEF HandleReject, TryTransition, Moves
  <2>8. CASE r.type = "StatusUpdate" /\ HandleStatusUpdate
    BY <2>3, <2>8 DEF HandleStatusUpdate
  <2>9. CASE r.type = "Trade" /\ HandleTrade(o, r.qty, r.price)
    <3>1. CASE ~OSM!CanFill(o, r.qty)
      BY <2>3, <2>9, <3>1 DEF HandleTrade
    <3>2. CASE OSM!CanFill(o, r.qty)
      <4>1. OSM!ApplyFill(o, r.qty, r.price)
        BY <2>9, <3>2 DEF HandleTrade
      <4>2. filled' # filled
        <5>1. filled' = [filled EXCEPT ![o] = filled[o] + r.qty] /\ r.qty > 0
          BY <1>1, <4>1, ApplyFillKeepsBooks
        <5>2. filled'[o] = filled[o] + r.qty
          BY <1>1, <5>1 DEF TrackerTypes
        <5>3. filled[o] + r.qty # filled[o]
          BY <1>1, <5>1 DEF TrackerTypes
        <5> QED BY <5>2, <5>3
      <4> QED BY <1>3, <2>1, <2>9, <4>1, <4>2 DEF Fills
    <3> QED BY <3>1, <3>2
  <2> QED BY <1>1, <1>3, <2>5, <2>6, <2>7, <2>8, <2>9 DEF ProcessReport
<1> QED BY <1>2, <1>3

\* How a delivery changes the state of the report's order, and of no other.
LEMMA DeliveryKeepsBooks ==
  ASSUME TrackerTypes, FeedTypes, Books, Market, NEW n \in ReportIds, Deliver(n)
  PROVE  /\ TrackerTypes' /\ Books' /\ Market'
         /\ UNCHANGED <<idCounter, quantity>>
         /\ \A z \in OrderIds : state[z] \in Terminal => state'[z] = state[z]
         /\ \A z \in OrderIds : z # reports[n].order => state'[z] = state[z] /\ filled'[z] = filled[z]
<1> DEFINE o == reports[n].order
<1>1. /\ n \in DOMAIN reports /\ o \in OrderIds /\ o < idCounter
      /\ UNCHANGED <<exState, exFilled, reports>>
      /\ reports[n].qty \in Nat
  BY Delivering, ReportsTyped
<1>2. /\ TrackerTypes' /\ Books' /\ UNCHANGED <<idCounter, quantity>>
      /\ \/ state' = state
         \/ \E s : state' = [state EXCEPT ![o] = s] /\ state[o] \notin Terminal
      /\ \A z \in OrderIds : z # o => filled'[z] = filled[z]
      /\ state'[o] = "Rejected" => state[o] = "Rejected" \/ reports[n].type = "Reject"
      /\ state'[o] = "Canceled" => state[o] = "Canceled" \/ reports[n].type = "CancelAck"
      /\ state'[o] \in {"Open", "PartiallyFilled", "Filled"} =>
           state'[o] = state[o] \/ reports[n].type \in {"NewOrderAck", "Trade"}
  <2>1. CASE Idles(n)
    BY <2>1, IdleKeepsBooks DEF Idles, orderState
  <2>2. ASSUME NEW s \in {"Open", "Canceled", "Rejected"}, OSM!Transition(o, s)
        PROVE  /\ TrackerTypes' /\ Books' /\ UNCHANGED <<idCounter, quantity>>
               /\ state' = [state EXCEPT ![o] = s] /\ state[o] \notin Terminal /\ filled' = filled
               /\ state'[o] = s
    <3>1. TrackerTypes' /\ Books' /\ state[o] \notin Terminal
      BY <1>1, <2>2, TransitionKeepsBooks
    <3>2. state' = [state EXCEPT ![o] = s] /\ UNCHANGED <<idCounter, quantity, filled>>
      BY <2>2 DEF OSM!Transition
    <3> QED BY <1>1, <3>1, <3>2 DEF TrackerTypes
  <2>3. CASE Moves(n)
    BY <2>2, <2>3 DEF Moves
  <2>4. CASE Fills(n)
    <3>1. OSM!ApplyFill(o, reports[n].qty, reports[n].price)
      BY <2>4 DEF Fills
    <3>2. /\ TrackerTypes' /\ Books' /\ state[o] \notin Terminal
          /\ filled' = [filled EXCEPT ![o] = filled[o] + reports[n].qty]
          /\ state'[o] \in {"PartiallyFilled", "Filled"}
      BY <1>1, <3>1, ApplyFillKeepsBooks
    <3>3. /\ state' = [state EXCEPT ![o] = OSM!FilledState(o, reports[n].qty)]
          /\ UNCHANGED <<idCounter, quantity>>
      BY <3>1 DEF OSM!ApplyFill
    <3>4. reports[n].type = "Trade"
      BY <2>4 DEF Fills
    <3>5. \A z \in OrderIds : z # o => filled'[z] = filled[z]
      BY <3>2 DEF TrackerTypes
    <3> QED BY <3>2, <3>3, <3>4, <3>5
  <2> QED BY <2>1, <2>3, <2>4, DeliveryEffect
<1>3. \A z \in OrderIds : state[z] \in Terminal => state'[z] = state[z]
  BY <1>1, <1>2 DEF TrackerTypes
<1>4. \A z \in OrderIds : z # o => state'[z] = state[z] /\ filled'[z] = filled[z]
  BY <1>1, <1>2 DEF TrackerTypes
<1>5. \A z \in OrderIds :
         /\ state'[z] = "Rejected" => exState'[z] = "rejected"
         /\ state'[z] = "Canceled" => exState'[z] = "canceled"
         /\ state'[z] \in {"Open", "PartiallyFilled", "Filled"} =>
              exState'[z] \in {"live", "filled", "canceled"}
  <2>1. /\ state'[o] = "Rejected" => exState[o] = "rejected"
        /\ state'[o] = "Canceled" => exState[o] = "canceled"
        /\ state'[o] \in {"Open", "PartiallyFilled", "Filled"} =>
             exState[o] \in {"live", "filled", "canceled"}
    BY <1>1, <1>2 DEF Market
  <2> QED BY <1>1, <1>4, <2>1 DEF Market
<1> QED BY <1>1, <1>2, <1>3, <1>4, <1>5 DEF Market

-----------------------------------------------------------------------------
(* What was delivered.                                                     *)

Deliveries ==
  /\ \A n \in ReportIds : times[n] > 0 => n \in DOMAIN reports
  /\ \A n \in ReportIds : applied[n] > 0 => times[n] > 0 /\ IsTrade(n)
  /\ \A n \in ReportIds : verdict[n] # "none" => times[n] > 0 /\ IsTrade(n)
  /\ \A i \in DOMAIN seenSequences :
       seenSequences[i] \in ReportIds /\ times[seenSequences[i]] > 0
  /\ feed = "unstamped" => lastSequence = 0

\* What the reconciler remembers after a new number.
LEMMA Recorded ==
  ASSUME FeedTypes, NEW seq \in Nat, Record(seq)
  PROVE  /\ lastSequence' = IF seq > lastSequence THEN seq ELSE lastSequence
         /\ seenSequences' \in Seq(Nat \ {0})
         /\ \A i \in DOMAIN seenSequences' :
              \/ seenSequences'[i] = seq /\ seq > lastSequence
              \/ \E j \in DOMAIN seenSequences : seenSequences'[i] = seenSequences[j]
         /\ seq > lastSequence /\ Len(seenSequences) >= SeqHistory =>
              /\ Len(seenSequences') = Len(seenSequences)
              /\ \A i \in 1..Len(seenSequences) :
                   seenSequences'[i] = IF i = Len(seenSequences) THEN seq ELSE seenSequences[i + 1]
         /\ seq > lastSequence /\ Len(seenSequences) < SeqHistory =>
              /\ Len(seenSequences') = Len(seenSequences) + 1
              /\ \A i \in 1..Len(seenSequences) + 1 :
                   seenSequences'[i] = IF i = Len(seenSequences) + 1 THEN seq ELSE seenSequences[i]
<1> DEFINE s == seenSequences
<1>0. s \in Seq(Nat \ {0}) /\ Len(s) \in Nat /\ DOMAIN s = 1..Len(s) /\ lastSequence \in Nat
      /\ SeqHistory \in Nat \ {0}
  BY FeedAssumption DEF FeedTypes
<1>1. CASE ~(seq > lastSequence)
  BY <1>0, <1>1 DEF Record, trackerVars
<1>2. CASE seq > lastSequence /\ Len(s) >= SeqHistory
  <2>1. lastSequence' = seq /\ seenSequences' = Append(Tail(s), seq)
    BY <1>2 DEF Record
  <2>2. Tail(s) \in Seq(Nat \ {0}) /\ Len(Tail(s)) = Len(s) - 1 /\ \A i \in 1..Len(s) - 1 : Tail(s)[i] = s[i + 1]
    BY <1>0, <1>2
  <2>3. seq \in Nat \ {0}
    BY <1>0, <1>2
  <2> DEFINE t == Tail(s)
  <2>8. Len(s) > 0 /\ Len(t) + 1 = Len(s)
    BY <1>0, <1>2, <2>2
  <2> HIDE DEF t
  <2>9. /\ Append(t, seq) \in Seq(Nat \ {0}) /\ Len(Append(t, seq)) = Len(t) + 1
        /\ \A i \in 1..Len(t) : Append(t, seq)[i] = t[i]
        /\ Append(t, seq)[Len(t) + 1] = seq
    BY <2>2, <2>3 DEF t
  <2>12. \A k \in Nat : \A i \in 1..k : i # k => i \in 1..k - 1 /\ i + 1 \in 1..k
    OBVIOUS
  <2>13. \A i \in 1..Len(s) : i # Len(s) => i \in 1..Len(s) - 1 /\ i + 1 \in 1..Len(s)
    BY <1>0, <2>12
  <2> HIDE DEF s
  <2>10. \A i \in 1..Len(s) : i # Len(s) => i \in 1..Len(s) - 1
    BY <2>13
  <2>11. \A i \in 1..Len(s) : i # Len(s) => Append(t, seq)[i] = s[i + 1]
    BY <2>2, <2>8, <2>9, <2>10 DEF t
  <2>4. /\ seenSequences' \in Seq(Nat \ {0}) /\ Len(seenSequences') = Len(s)
        /\ \A i \in 1..Len(s) : seenSequences'[i] = IF i = Len(s) THEN seq ELSE s[i + 1]
    BY <2>1, <2>8, <2>9, <2>11 DEF t
  <2>5. DOMAIN seenSequences' = 1..Len(s)
    BY <2>4
  <2>6. \A i \in 1..Len(s) : i # Len(s) => i + 1 \in DOMAIN s
    <3>1. DOMAIN s = 1..Len(s)
      BY <1>0 DEF s
    <3> QED BY <3>1, <2>13
  <2>7. ~(Len(s) < SeqHistory)
    BY <1>0, <1>2
  <2> QED BY <1>2, <2>1, <2>4, <2>5, <2>6, <2>7 DEF s
<1>3. CASE seq > lastSequence /\ Len(s) < SeqHistory
  <2>1. lastSequence' = seq /\ seenSequences' = Append(s, seq)
    BY <1>0, <1>3 DEF Record
  <2>3. seq \in Nat \ {0}
    BY <1>0, <1>3
  <2> HIDE DEF s
  <2>4. /\ seenSequences' \in Seq(Nat \ {0}) /\ Len(seenSequences') = Len(s) + 1
        /\ \A i \in 1..Len(s) + 1 : seenSequences'[i] = IF i = Len(s) + 1 THEN seq ELSE s[i]
    BY <1>0, <2>1, <2>3
  <2>5. DOMAIN seenSequences' = 1..Len(s) + 1
    BY <2>4
  <2>6. \A i \in 1..Len(s) + 1 : i # Len(s) + 1 => i \in DOMAIN s
    BY <1>0
  <2>7. ~(Len(s) >= SeqHistory)
    BY <1>0, <1>3
  <2> QED BY <1>3, <2>1, <2>4, <2>5, <2>6, <2>7 DEF s
<1>4. Len(s) >= SeqHistory \/ Len(s) < SeqHistory
  BY <1>0
<1> QED BY <1>1, <1>2, <1>3, <1>4

\* A duplicate is not recorded.
LEMMA DeliveryRecorded ==
  ASSUME NEW n \in ReportIds, Deliver(n)
  PROVE  /\ IsDuplicate(Sequence(n)) => UNCHANGED trackerVars
         /\ ~IsDuplicate(Sequence(n)) => Record(Sequence(n))
BY DEF Deliver, ProcessReport, Sequence

\* A delivery is counted, and only a trade's is applied or judged.
LEMMA DeliveryKeepsDeliveries ==
  ASSUME TrackerTypes, FeedTypes, Books, Market, Deliveries, NEW n \in ReportIds, Deliver(n)
  PROVE  /\ FeedTypes' /\ Deliveries'
         /\ \A m \in ReportIds : m # n => times'[m] = times[m]
         /\ times'[n] = times[n] + 1 /\ times'[n] > 0
<1>0. /\ n \in DOMAIN reports
      /\ times' = [times EXCEPT ![n] = times[n] + 1]
      /\ UNCHANGED <<feed, exState, exFilled, reports>>
      /\ verdict' = [m \in ReportIds |-> verdict'[m]]
      /\ \A m \in ReportIds : verdict'[m] = verdict[m] \/ (m = n /\ reports[n].type = "Trade")
  BY Delivering
<1>1. \/ applied' = applied
      \/ applied' = [applied EXCEPT ![n] = applied[n] + 1] /\ reports[n].type = "Trade"
  BY DeliveryEffect DEF Idles, Moves, Fills
<1>2. n \in Nat /\ Sequence(n) \in Nat
  BY DEF ReportIds, Sequence
<1>3. /\ times' \in [ReportIds -> Nat]
      /\ \A m \in ReportIds : m # n => times'[m] = times[m]
      /\ times'[n] = times[n] + 1 /\ times'[n] > 0
  BY <1>0 DEF FeedTypes
<1>4. /\ applied' \in [ReportIds -> Nat]
      /\ \A m \in ReportIds : applied'[m] = applied[m] \/ (m = n /\ reports[n].type = "Trade")
  <2>1. CASE applied' = applied
    BY <2>1 DEF FeedTypes
  <2>2. CASE applied' = [applied EXCEPT ![n] = applied[n] + 1] /\ reports[n].type = "Trade"
    <3>1. applied' \in [ReportIds -> Nat]
      BY <2>2 DEF FeedTypes
    <3>2. \A m \in ReportIds : m # n => applied'[m] = applied[m]
      BY <2>2 DEF FeedTypes
    <3> QED BY <2>2, <3>1, <3>2
  <2> QED BY <1>1, <2>1, <2>2
<1>5. /\ lastSequence' \in Nat /\ seenSequences' \in Seq(Nat \ {0})
      /\ feed = "unstamped" => lastSequence' = 0
      /\ \A i \in DOMAIN seenSequences' :
           \/ seenSequences'[i] = n
           \/ \E j \in DOMAIN seenSequences : seenSequences'[i] = seenSequences[j]
  <2>1. CASE IsDuplicate(Sequence(n))
    <3>1. UNCHANGED <<lastSequence, seenSequences>>
      BY <2>1, DeliveryRecorded DEF trackerVars
    <3> QED BY <3>1 DEF FeedTypes, Deliveries
  <2>2. CASE ~IsDuplicate(Sequence(n))
    <3>1. /\ lastSequence' = IF Sequence(n) > lastSequence THEN Sequence(n) ELSE lastSequence
          /\ seenSequences' \in Seq(Nat \ {0})
          /\ \A i \in DOMAIN seenSequences' :
               \/ seenSequences'[i] = Sequence(n) /\ Sequence(n) > lastSequence
               \/ \E j \in DOMAIN seenSequences : seenSequences'[i] = seenSequences[j]
      BY <1>2, <2>2, DeliveryRecorded, Recorded
    <3>2. lastSequence \in Nat /\ (feed = "unstamped" => lastSequence = 0)
      BY DEF FeedTypes, Deliveries
    <3>3. feed = "unstamped" => Sequence(n) = 0
      BY DEF Sequence
    <3>4. Sequence(n) > lastSequence => Sequence(n) = n
      BY <3>2 DEF Sequence
    <3>5. lastSequence' \in Nat /\ (feed = "unstamped" => lastSequence' = 0)
      BY <1>2, <3>1, <3>2, <3>3
    <3> QED BY <3>1, <3>4, <3>5
  <2> QED BY <2>1, <2>2
<1>6. FeedTypes'
  BY <1>0, <1>3, <1>4, <1>5 DEF FeedTypes
<1>7. \A m \in ReportIds : IsTrade(m)' <=> IsTrade(m)
  BY <1>0 DEF IsTrade
<1>8. \A m \in ReportIds : times[m] > 0 => times'[m] > 0
  BY <1>3
<1>9. \A m \in ReportIds : times'[m] > 0 => m \in DOMAIN reports'
  BY <1>0, <1>3 DEF Deliveries
<1>10. reports[n].type = "Trade" => IsTrade(n)
  BY <1>0 DEF IsTrade
<1>11. \A m \in ReportIds : applied'[m] > 0 => times'[m] > 0 /\ IsTrade(m)'
  BY <1>3, <1>4, <1>7, <1>8, <1>10 DEF Deliveries
<1>12. \A m \in ReportIds : verdict'[m] # "none" => times'[m] > 0 /\ IsTrade(m)'
  BY <1>0, <1>3, <1>7, <1>8, <1>10 DEF Deliveries
<1>13. \A i \in DOMAIN seenSequences' :
         seenSequences'[i] \in ReportIds /\ times'[seenSequences'[i]] > 0
  BY <1>3, <1>5, <1>8 DEF Deliveries
<1> QED BY <1>0, <1>3, <1>5, <1>6, <1>9, <1>11, <1>12, <1>13 DEF Deliveries

\* Nothing else delivers.
LEMMA OthersKeepDeliveries ==
  ASSUME FeedTypes, Deliveries, UNCHANGED <<trackerVars, feed, times, applied, verdict>>,
         \A n \in DOMAIN reports : n \in DOMAIN reports' /\ reports'[n] = reports[n]
  PROVE  Deliveries'
<1>1. UNCHANGED <<lastSequence, seenSequences>>
  BY DEF trackerVars
<1>2. \A n \in ReportIds : IsTrade(n) => IsTrade(n)'
  BY DEF IsTrade
<1> QED BY <1>1, <1>2 DEF Deliveries

-----------------------------------------------------------------------------
(* An ordered feed, and the duplicates of each.                            *)

\* With an ordered feed what came is a prefix, and what the reconciler
\* remembers is the end of it.
Window ==
  /\ \A n \in ReportIds : times[n] > 0 <=> n <= lastSequence
  /\ lastSequence <= Len(reports)
  /\ Len(seenSequences) = IF lastSequence < SeqHistory THEN lastSequence ELSE SeqHistory
  /\ \A i \in DOMAIN seenSequences :
       seenSequences[i] = (lastSequence - Len(seenSequences)) + i

\* The highest report delivered is the last number recorded.
LEMMA DeliveredIsLast ==
  ASSUME FeedTypes, Window PROVE Delivered = lastSequence
<1> DEFINE S == {0} \union {n \in ReportIds : times[n] > 0}
<1>0. lastSequence \in Nat /\ Len(reports) \in Nat /\ Len(reports) <= MaxReports /\ MaxReports \in Nat
  BY FeedAssumption DEF FeedTypes
<1>1. lastSequence \in S
  <2>1. CASE lastSequence = 0
    BY <2>1
  <2>2. CASE lastSequence # 0
    <3>1. lastSequence \in ReportIds
      BY <1>0, <2>2 DEF Window, ReportIds
    <3>2. lastSequence <= lastSequence
      BY <1>0
    <3> QED BY <3>1, <3>2 DEF Window
  <2> QED BY <2>1, <2>2
<1>2. \A y \in S : lastSequence >= y
  BY <1>0 DEF Window, ReportIds
<1>3. \A x \in S : (\A y \in S : x >= y) => x = lastSequence
  <2>1. \A x \in S : x \in Nat
    BY DEF ReportIds
  <2> QED BY <1>0, <1>1, <1>2, <2>1
<1> HIDE DEF S
<1>4. Max(S) = lastSequence
  BY <1>1, <1>2, <1>3 DEF Max
<1> QED BY <1>4 DEF S, Delivered

\* A report is a duplicate to the reconciler if and only if it came before.
LEMMA DuplicatesCameBefore ==
  ASSUME FeedTypes, Deliveries, feed # "chaotic", feed = "ordered" => Window,
         NEW n \in ReportIds, Deliver(n)
  PROVE  /\ IsDuplicate(Sequence(n)) => times[n] > 0
         /\ ~IsDuplicate(Sequence(n)) => times[n] = 0
         /\ feed = "ordered" /\ ~IsDuplicate(Sequence(n)) => n = lastSequence + 1
<1>0. n \in Nat \ {0} /\ times[n] \in Nat /\ lastSequence \in Nat /\ SeqHistory \in Nat \ {0}
  BY FeedAssumption DEF FeedTypes, ReportIds
<1>1. MayDeliver(n)
  BY DEF Deliver
<1>2. CASE feed \in {"reordered", "unstamped"}
  <2>1. times[n] = 0
    BY <1>1, <1>2 DEF MayDeliver
  <2>2. ASSUME IsDuplicate(Sequence(n)) PROVE FALSE
    <3>1. PICK i \in DOMAIN seenSequences : seenSequences[i] = Sequence(n)
      BY <2>2 DEF IsDuplicate
    <3>2. seenSequences[i] # 0 /\ times[seenSequences[i]] > 0
      BY DEF FeedTypes, Deliveries
    <3> QED BY <2>1, <3>1, <3>2 DEF Sequence
  <2> QED BY <1>2, <2>1, <2>2
<1>3. CASE feed = "ordered"
  <2>1. Window /\ Delivered = lastSequence /\ Sequence(n) = n
    BY <1>3, DeliveredIsLast DEF Sequence
  <2>2. \/ n = lastSequence + 1
        \/ n <= lastSequence /\ lastSequence - n < SeqHistory
    BY <1>1, <1>3, <2>1 DEF MayDeliver
  <2>3. CASE n = lastSequence + 1
    <3>1. ~(n <= lastSequence)
      BY <1>0, <2>3
    <3>2. ~IsDuplicate(n) /\ ~(times[n] > 0)
      BY <2>1, <3>1 DEF IsDuplicate, Window
    <3> QED BY <1>0, <2>1, <2>3, <3>2
  <2>4. CASE n <= lastSequence /\ lastSequence - n < SeqHistory
    <3> DEFINE L == Len(seenSequences)
               i == n - (lastSequence - L)
    <3>1. L = IF lastSequence < SeqHistory THEN lastSequence ELSE SeqHistory
      BY <2>1 DEF Window
    <3>2. L \in Nat /\ DOMAIN seenSequences = 1..L
      BY DEF FeedTypes
    <3> HIDE DEF L
    <3>3. i \in 1..L /\ (lastSequence - L) + i = n
      BY <1>0, <2>4, <3>1, <3>2
    <3> HIDE DEF i
    <3>4. i \in DOMAIN seenSequences /\ seenSequences[i] = n
      BY <2>1, <3>2, <3>3 DEF Window, L
    <3>5. IsDuplicate(n) /\ times[n] > 0
      BY <2>1, <2>4, <3>4 DEF IsDuplicate, Window
    <3> QED BY <2>1, <3>5
  <2> QED BY <2>2, <2>3, <2>4
<1>4. feed \in {"ordered", "reordered", "unstamped"}
  BY FeedAssumption DEF FeedTypes
<1> QED BY <1>2, <1>3, <1>4

\* A new report extends the prefix by one, a duplicate leaves it.
LEMMA DeliveryKeepsWindow ==
  ASSUME TrackerTypes, FeedTypes, Books, Market, Deliveries, feed = "ordered", Window,
         NEW n \in ReportIds, Deliver(n)
  PROVE  Window'
<1> DEFINE L == Len(seenSequences)
<1>0. /\ n \in DOMAIN reports /\ n <= Len(reports) /\ UNCHANGED <<feed, reports>>
      /\ \A m \in ReportIds : m # n => times'[m] = times[m]
      /\ times'[n] > 0 /\ Sequence(n) = n
  BY Delivering, DeliveryKeepsDeliveries DEF Sequence, FeedTypes
<1>1. n \in Nat \ {0} /\ lastSequence \in Nat /\ SeqHistory \in Nat \ {0} /\ L \in Nat
      /\ DOMAIN seenSequences = 1..L
  BY FeedAssumption DEF FeedTypes, ReportIds
<1>2. CASE IsDuplicate(n)
  <2>1. UNCHANGED <<lastSequence, seenSequences>> /\ times[n] > 0
    BY <1>0, <1>2, DeliveryRecorded, DuplicatesCameBefore DEF trackerVars
  <2> QED BY <1>0, <2>1 DEF Window
<1>3. CASE ~IsDuplicate(n)
  <2>1. n = lastSequence + 1 /\ Record(n) /\ n > lastSequence
    BY <1>0, <1>1, <1>3, DeliveryRecorded, DuplicatesCameBefore
  <2>2. lastSequence' = n
    BY <1>1, <2>1, Recorded
  <2>3. \A m \in ReportIds : times'[m] > 0 <=> m <= lastSequence'
    <3>1. \A m \in ReportIds : m <= n <=> m = n \/ m <= lastSequence
      BY <1>1, <2>1 DEF ReportIds
    <3> QED BY <1>0, <2>2, <3>1 DEF Window
  <2>4. L = IF lastSequence < SeqHistory THEN lastSequence ELSE SeqHistory
    BY DEF Window
  <2>5. \A i \in 1..L : seenSequences[i] = (lastSequence - L) + i
    BY <1>1 DEF Window
  <2>6. Len(seenSequences') \in Nat /\ DOMAIN seenSequences' = 1..Len(seenSequences')
    BY DeliveryKeepsDeliveries DEF FeedTypes
  <2>7. CASE L >= SeqHistory
    <3>1. /\ Len(seenSequences') = L
          /\ \A i \in 1..L : seenSequences'[i] = IF i = L THEN n ELSE seenSequences[i + 1]
      BY <1>1, <2>1, <2>7, Recorded
    <3> HIDE DEF L
    <3>2. L = SeqHistory /\ ~(n < SeqHistory)
      BY <1>1, <2>1, <2>4, <2>7
    <3>3. \A i \in 1..L : seenSequences'[i] = (n - L) + i
      <4>1. \A i \in 1..L : i # L => i + 1 \in 1..L /\ (lastSequence - L) + (i + 1) = (n - L) + i
        BY <1>1, <2>1
      <4>2. (n - L) + L = n
        BY <1>1
      <4> QED BY <2>5, <3>1, <4>1, <4>2
    <3> QED BY <1>0, <2>2, <2>3, <2>6, <3>1, <3>2, <3>3 DEF Window
  <2>8. CASE L < SeqHistory
    <3>1. /\ Len(seenSequences') = L + 1
          /\ \A i \in 1..L + 1 : seenSequences'[i] = IF i = L + 1 THEN n ELSE seenSequences[i]
      BY <1>1, <2>1, <2>8, Recorded
    <3> HIDE DEF L
    <3>2. L = lastSequence /\ L + 1 = IF n < SeqHistory THEN n ELSE SeqHistory
      BY <1>1, <2>1, <2>4, <2>8
    <3>3. \A i \in 1..L + 1 : seenSequences'[i] = (n - (L + 1)) + i
      <4>1. \A i \in 1..L + 1 : i # L + 1 => i \in 1..L /\ (lastSequence - L) + i = (n - (L + 1)) + i
        BY <1>1, <2>1, <3>2
      <4>2. (n - (L + 1)) + (L + 1) = n
        BY <1>1
      <4> QED BY <2>5, <3>1, <4>1, <4>2
    <3> QED BY <1>0, <2>2, <2>3, <2>6, <3>1, <3>2, <3>3 DEF Window
  <2>9. L >= SeqHistory \/ L < SeqHistory
    BY <1>1
  <2> QED BY <2>7, <2>8, <2>9
<1> QED BY <1>2, <1>3

\* Nothing else touches it.
LEMMA OthersKeepWindow ==
  ASSUME FeedTypes, Window, UNCHANGED <<trackerVars, times>>, Len(reports') >= Len(reports),
         Len(reports') \in Nat
  PROVE  Window'
<1>1. UNCHANGED <<lastSequence, seenSequences>> /\ Len(reports) \in Nat /\ lastSequence \in Nat
  BY DEF trackerVars, FeedTypes
<1>2. lastSequence' <= Len(reports')
  BY <1>1 DEF Window
<1> QED BY <1>1, <1>2 DEF Window

-----------------------------------------------------------------------------
(* The fills.                                                              *)

Trades(o)  == {n \in DOMAIN reports : reports[n].type = "Trade" /\ reports[n].order = o}
Pending(o) == {n \in Trades(o) : applied[n] = 0}
Taken(o)   == {n \in Trades(o) : applied[n] > 0}

\* Unless the feed repeats at will, the exchange's fills of an order are those
\* the tracker has taken and those it has not, and a trade that came and was
\* not taken, or an end that came, finds the order ended.
Settled ==
  /\ \A o \in OrderIds : filled[o] + Traded(reports, Pending(o)) = exFilled[o]
  /\ \A o \in OrderIds : filled[o] = Traded(reports, Taken(o))
  /\ \A n \in ReportIds : applied[n] <= 1
  /\ \A n \in ReportIds :
       Came(n) /\ IsTrade(n) /\ applied[n] = 0 => state[reports[n].order] = "Canceled"
  /\ \A n \in DOMAIN reports : Came(n) =>
       /\ reports[n].type = "CancelAck" => state[reports[n].order] = "Canceled"
       /\ reports[n].type = "Reject"    => state[reports[n].order] = "Rejected"

\* With an ordered feed every trade that came was taken.
NoneDropped ==
  /\ \A o \in OrderIds : state[o] = "Canceled" =>
       \E m \in DOMAIN reports :
         reports[m].type = "CancelAck" /\ reports[m].order = o /\ Came(m)
  /\ \A n \in ReportIds : Came(n) /\ IsTrade(n) => applied[n] > 0

\* The sets that are summed are finite sets of numbers.
LEMMA FiniteTrades ==
  ASSUME FeedTypes
  PROVE  \A o : /\ IsFiniteSet(Trades(o)) /\ IsFiniteSet(Pending(o)) /\ IsFiniteSet(Taken(o))
                /\ \A n \in Trades(o) : reports[n].qty \in Nat
<1>1. IsFiniteSet(DOMAIN reports)
  <2>1. DOMAIN reports = 1..Len(reports) /\ 1 \in Int /\ Len(reports) \in Int
    BY DEF FeedTypes
  <2> QED BY <2>1, FS_Interval
<1>2. \A o : Trades(o) \subseteq DOMAIN reports /\ Pending(o) \subseteq Trades(o) /\ Taken(o) \subseteq Trades(o)
  BY DEF Trades, Pending, Taken
<1>3. \A o : \A n \in Trades(o) : reports[n].qty \in Nat
  BY ReportsTyped DEF Trades
<1>4. \A o : IsFiniteSet(Trades(o)) /\ IsFiniteSet(Pending(o)) /\ IsFiniteSet(Taken(o))
  BY <1>1, <1>2, FS_Subset
<1> QED BY <1>3, <1>4

\* A trade the tracker has not taken fits into what remains of the order.
LEMMA PendingFits ==
  ASSUME TrackerTypes, FeedTypes, Books, Market, Settled,
         NEW o \in OrderIds, NEW n \in Pending(o)
  PROVE  /\ Pending(o) \ {n} \in SUBSET Trades(o)
         /\ Traded(reports, Pending(o) \ {n}) \in Nat
         /\ Traded(reports, Pending(o)) = Traded(reports, Pending(o) \ {n}) + reports[n].qty
         /\ reports[n].qty \in Nat /\ 0 < reports[n].qty /\ reports[n].qty <= remaining[o]
<1> DEFINE P == Pending(o) \ {n}
<1>1. /\ n \in Trades(o) /\ n \in DOMAIN reports /\ reports[n].type = "Trade"
      /\ reports[n].qty \in Nat /\ P \subseteq Trades(o)
      /\ \A m \in P \union {n} : reports[m].qty \in Nat
      /\ IsFiniteSet(P)
  BY FiniteTrades, FS_Subset DEF Pending, Trades
<1>2. P \union {n} = Pending(o) /\ n \notin P
  OBVIOUS
<1>3. /\ Traded(reports, P) \in Nat
      /\ Traded(reports, P \union {n}) = Traded(reports, P) + reports[n].qty
  BY <1>1, <1>2, TradedOneMore
<1>4. reports[n].qty > 0
  BY <1>1, TrackerAssumption DEF FeedTypes
<1>5. /\ filled[o] + Traded(reports, Pending(o)) = exFilled[o]
      /\ exFilled[o] <= quantity[o] /\ filled[o] + remaining[o] = quantity[o]
      /\ filled[o] \in Nat /\ remaining[o] \in Nat /\ quantity[o] \in Nat
  BY DEF Settled, Market, Books, TrackerTypes
<1> HIDE DEF P
<1>6. Traded(reports, Pending(o)) = Traded(reports, P) + reports[n].qty
  BY <1>2, <1>3
<1>7. reports[n].qty <= remaining[o]
  BY <1>1, <1>3, <1>5, <1>6
<1> QED BY <1>1, <1>3, <1>4, <1>6, <1>7 DEF P

\* An exchange's event keeps the sums.
LEMMA ExchangeKeepsSettled ==
  ASSUME TrackerTypes, FeedTypes, Books, Market, Deliveries, Settled,
         NEW o \in OrderIds, NEW type \in ReportTypes,
         NEW q \in FillQuantities \union {0}, NEW p \in Prices \union {0},
         NEW x \in Standings, NEW f \in Nat, ExchangeStep(o, type, q, p, x, f)
  PROVE  Settled'
<1> DEFINE k == Len(reports) + 1
<1>1. /\ UNCHANGED <<orderState, rPending, trackerVars, pendingCancels, feed, historyVars>>
      /\ Report(type, o, q, p)
      /\ exFilled' = [exFilled EXCEPT ![o] = f]
  BY DEF ExchangeStep, Report
<1>2. UNCHANGED <<filled, state, times, applied>>
  BY <1>1 DEF orderState, historyVars
<1>3. /\ DOMAIN reports' = DOMAIN reports \union {k}
      /\ k \notin DOMAIN reports /\ Len(reports') <= MaxReports /\ Len(reports') = k /\ Len(reports) \in Nat
      /\ \A n \in DOMAIN reports : reports'[n] = reports[n]
      /\ reports'[k].type = type /\ reports'[k].order = o /\ reports'[k].qty = q
  BY <1>1, Reported
<1>4. k \in ReportIds
  BY <1>3, FeedAssumption DEF ReportIds
<1> HIDE DEF k
<1>5. times[k] = 0 /\ applied[k] = 0
  BY <1>3, <1>4 DEF Deliveries, FeedTypes
<1>6. \A z \in OrderIds : exFilled'[z] = IF z = o THEN f ELSE exFilled[z]
  BY <1>1 DEF FeedTypes
<1>7. \A z : Trades(z)' = IF type = "Trade" /\ z = o THEN Trades(z) \union {k} ELSE Trades(z)
  BY <1>3 DEF Trades
<1>8. \A z : /\ Pending(z)' = IF type = "Trade" /\ z = o THEN Pending(z) \union {k} ELSE Pending(z)
             /\ Taken(z)' = Taken(z)
  BY <1>2, <1>5, <1>7 DEF Pending, Taken
<1>9. \A z : /\ IsFiniteSet(Trades(z)) /\ IsFiniteSet(Pending(z)) /\ IsFiniteSet(Taken(z))
             /\ Pending(z) \subseteq Trades(z) /\ Taken(z) \subseteq Trades(z)
             /\ \A n \in Trades(z) : n \in DOMAIN reports /\ reports'[n] = reports[n] /\ reports[n].qty \in Nat
  BY <1>3, FiniteTrades DEF Trades, Pending, Taken
<1>10. \A z : /\ Traded(reports', Pending(z)) = Traded(reports, Pending(z))
              /\ Traded(reports', Taken(z)) = Traded(reports, Taken(z))
  <2> SUFFICES ASSUME NEW z PROVE /\ Traded(reports', Pending(z)) = Traded(reports, Pending(z))
                                  /\ Traded(reports', Taken(z)) = Traded(reports, Taken(z))
    OBVIOUS
  <2>1. \A n \in Trades(z) : reports'[n].qty = reports[n].qty
    BY <1>9
  <2>2. \A n \in Pending(z) : reports'[n].qty = reports[n].qty
    BY <1>9, <2>1
  <2>3. \A n \in Taken(z) : reports'[n].qty = reports[n].qty
    BY <1>9, <2>1
  <2>4. Traded(reports', Pending(z)) = Traded(reports, Pending(z))
    BY <1>9, <2>2, TradedAgree
  <2>5. Traded(reports', Taken(z)) = Traded(reports, Taken(z))
    BY <1>9, <2>3, TradedAgree
  <2> QED BY <2>4, <2>5
<1>11. \A z \in OrderIds : filled'[z] = Traded(reports', Taken(z)')
  BY <1>2, <1>8, <1>10 DEF Settled
<1>12. \A z \in OrderIds : filled'[z] + Traded(reports', Pending(z)') = exFilled'[z]
  <2>1. ASSUME NEW z \in OrderIds, ~(type = "Trade" /\ z = o)
        PROVE  filled'[z] + Traded(reports', Pending(z)') = exFilled'[z]
    <3>1. exFilled'[z] = exFilled[z]
      BY <1>6, <2>1 DEF ExchangeStep
    <3> QED BY <1>2, <1>8, <1>10, <2>1, <3>1 DEF Settled
  <2>2. CASE type = "Trade"
    <3>1. f = exFilled[o] + q /\ q \in Nat /\ filled[o] \in Nat
      BY <2>2, TrackerAssumption DEF ExchangeStep, TrackerTypes
    <3>2. k \notin Pending(o)
      BY <1>3, <1>9
    <3>3. \A n \in Pending(o) \union {k} : reports'[n].qty \in Nat
      BY <1>3, <1>9, <3>1
    <3>4. /\ Traded(reports', Pending(o)) \in Nat
          /\ Traded(reports', Pending(o) \union {k}) = Traded(reports', Pending(o)) + q
      BY <1>3, <1>9, <3>2, <3>3, TradedOneMore
    <3>5. filled[o] + Traded(reports', Pending(o)) = exFilled[o]
      BY <1>10 DEF Settled
    <3>6. filled[o] + (Traded(reports', Pending(o)) + q) = exFilled[o] + q
      BY <3>1, <3>4, <3>5
    <3>7. filled'[o] + Traded(reports', Pending(o)') = exFilled'[o]
      BY <1>2, <1>6, <1>8, <2>2, <3>1, <3>4, <3>6
    <3> QED BY <2>1, <3>7
  <2> QED BY <2>1, <2>2
<1>13. \A n \in ReportIds : Came(n)' => n \in DOMAIN reports /\ reports'[n] = reports[n] /\ Came(n)
  BY <1>2, <1>3, <1>5 DEF Came, Deliveries
<1>14. \A n \in ReportIds : Came(n)' /\ IsTrade(n)' => Came(n) /\ IsTrade(n)
  BY <1>13 DEF IsTrade
<1>15. DOMAIN reports' \subseteq ReportIds
  BY <1>3, <1>4, ReportsTyped
<1>16. \A n \in ReportIds :
         Came(n)' /\ IsTrade(n)' /\ applied'[n] = 0 => state'[reports'[n].order] = "Canceled"
  BY <1>2, <1>13, <1>14 DEF Settled
<1>17. \A n \in DOMAIN reports' : Came(n)' =>
       /\ reports'[n].type = "CancelAck" => state'[reports'[n].order] = "Canceled"
       /\ reports'[n].type = "Reject"    => state'[reports'[n].order] = "Rejected"
  BY <1>2, <1>13, <1>15 DEF Settled
<1>18. \A n \in ReportIds : applied'[n] <= 1
  BY <1>2 DEF Settled
<1> QED BY <1>11, <1>12, <1>16, <1>17, <1>18 DEF Settled

\* New reports have not come.
LEMMA ExchangeKeepsNoneDropped ==
  ASSUME TrackerTypes, FeedTypes, Deliveries, NoneDropped,
         NEW o \in OrderIds, NEW type \in ReportTypes,
         NEW q \in FillQuantities \union {0}, NEW p \in Prices \union {0},
         NEW x \in Standings, NEW f \in Nat, ExchangeStep(o, type, q, p, x, f)
  PROVE  NoneDropped'
<1>1. Report(type, o, q, p) /\ UNCHANGED <<state, times, applied>>
  BY DEF ExchangeStep, Report, orderState, historyVars
<1>2. \A n \in DOMAIN reports : n \in DOMAIN reports' /\ reports'[n] = reports[n]
  BY <1>1, Reported
<1>3. \A n \in ReportIds : Came(n)' => n \in DOMAIN reports /\ reports'[n] = reports[n] /\ Came(n)
  BY <1>1, <1>2 DEF Came, Deliveries
<1>4. \A n \in ReportIds : Came(n)' /\ IsTrade(n)' => Came(n) /\ IsTrade(n)
  BY <1>3 DEF IsTrade
<1>5. \A n : Came(n)' <=> Came(n)
  BY <1>1 DEF Came
<1>6. \A n \in ReportIds : Came(n)' /\ IsTrade(n)' => applied'[n] > 0
  BY <1>1, <1>4 DEF NoneDropped
<1>7. \A z \in OrderIds : state'[z] = "Canceled" =>
       \E m \in DOMAIN reports' :
         reports'[m].type = "CancelAck" /\ reports'[m].order = z /\ Came(m)'
  BY <1>1, <1>2, <1>5 DEF NoneDropped
<1> QED BY <1>6, <1>7 DEF NoneDropped

\* A delivery keeps them too.
LEMMA DeliveryKeepsSettled ==
  ASSUME TrackerTypes, FeedTypes, Books, Market, Deliveries, Settled,
         feed # "chaotic", feed = "ordered" => Window,
         NEW n \in ReportIds, Deliver(n)
  PROVE  /\ Settled'
         /\ reports[n].type = "Trade" /\ state[reports[n].order] # "Canceled" => applied'[n] > 0
         /\ reports[n].type # "CancelAck" /\ state'[reports[n].order] = "Canceled"
              => state[reports[n].order] = "Canceled"
<1> DEFINE o == reports[n].order
           q == reports[n].qty
<1>1. /\ n \in DOMAIN reports /\ o \in OrderIds /\ o < idCounter
      /\ UNCHANGED <<feed, exState, exFilled, reports>>
      /\ q \in Nat /\ n \in ReportIds /\ reports[n].type \in ReportTypes
  BY Delivering, ReportsTyped
<1>2. /\ \A m \in ReportIds : m # n => times'[m] = times[m]
      /\ times'[n] > 0
  BY DeliveryKeepsDeliveries
<1>3. /\ \A z \in OrderIds : state[z] \in Terminal => state'[z] = state[z]
      /\ \A z \in OrderIds : z # o => state'[z] = state[z] /\ filled'[z] = filled[z]
  BY DeliveryKeepsBooks
<1>4. \A z : Trades(z)' = Trades(z)
  BY <1>1 DEF Trades
<1>5. /\ \A z \in OrderIds : filled'[z] + Traded(reports', Pending(z)') = exFilled'[z]
      /\ \A z \in OrderIds : filled'[z] = Traded(reports', Taken(z)')
      /\ \A m \in ReportIds : applied'[m] <= 1
      /\ \A m \in ReportIds : m # n => applied'[m] = applied[m]
  <2>1. CASE applied' = applied /\ filled' = filled
    <3>1. \A z : Pending(z)' = Pending(z) /\ Taken(z)' = Taken(z)
      BY <1>4, <2>1 DEF Pending, Taken
    <3> QED BY <1>1, <2>1, <3>1 DEF Settled
  <2>2. CASE Fills(n)
    <3>1. /\ ~IsDuplicate(Sequence(n)) /\ reports[n].type = "Trade"
          /\ OSM!ApplyFill(o, q, reports[n].price)
          /\ applied' = [applied EXCEPT ![n] = applied[n] + 1]
      BY <2>2 DEF Fills
    <3>2. times[n] = 0
      BY <3>1, DuplicatesCameBefore
    <3>3. applied[n] = 0
      <4>1. applied[n] \in Nat /\ times[n] \in Nat
        BY DEF FeedTypes
      <4>2. ~(applied[n] > 0)
        BY <3>2 DEF Deliveries
      <4> QED BY <4>1, <4>2
    <3>4. filled' = [filled EXCEPT ![o] = filled[o] + q]
      BY <1>1, <3>1, ApplyFillKeepsBooks
    <3>5. \A m \in ReportIds : applied'[m] = IF m = n THEN 1 ELSE applied[m]
      BY <3>1, <3>3 DEF FeedTypes
    <3>0. PICK c \in OrderIds : c = o
      BY <1>1
    <3>6. n \in Pending(c) /\ n \in Trades(c) /\ n \notin Taken(c) /\ \A z : z # c => n \notin Trades(z)
      BY <3>0, <1>1, <3>1, <3>3 DEF Pending, Trades, Taken
    <3>7. \A z : Trades(z) \subseteq ReportIds
      BY <3>0, ReportsTyped DEF Trades
    <3>8. /\ Pending(c)' = Pending(c) \ {n} /\ Taken(c)' = Taken(c) \union {n}
          /\ \A z : z # c => Pending(z)' = Pending(z) /\ Taken(z)' = Taken(z)
      <4>1. \A z : /\ Pending(z)' = {m \in Trades(z) : applied'[m] = 0}
                   /\ Taken(z)' = {m \in Trades(z) : applied'[m] > 0}
        BY <3>0, <1>4 DEF Pending, Taken
      <4>2. \A z : \A m \in Trades(z) : applied'[m] = IF m = n THEN 1 ELSE applied[m]
        BY <3>0, <3>5, <3>7
      <4>3. Pending(c)' = Pending(c) \ {n} /\ Taken(c)' = Taken(c) \union {n}
        BY <3>0, <3>6, <4>1, <4>2 DEF Pending, Taken
      <4>4. ASSUME NEW z, z # c PROVE Pending(z)' = Pending(z) /\ Taken(z)' = Taken(z)
        <5>1. \A m \in Trades(z) : applied'[m] = applied[m]
          BY <3>0, <3>6, <4>2, <4>4
        <5> QED BY <4>1, <5>1 DEF Pending, Taken
      <4> QED BY <4>3, <4>4
    <3>9. /\ Traded(reports, Pending(c) \ {n}) \in Nat
          /\ Traded(reports, Pending(c)) = Traded(reports, Pending(c) \ {n}) + q
      BY <3>0, <1>1, <3>6, PendingFits
    <3>10. IsFiniteSet(Taken(c)) /\ \A m \in Taken(c) \union {n} : reports[m].qty \in Nat
      BY <3>0, <1>1, FiniteTrades DEF Taken
    <3>11. /\ Traded(reports, Taken(c)) \in Nat
           /\ Traded(reports, Taken(c) \union {n}) = Traded(reports, Taken(c)) + q
      BY <3>0, <3>6, <3>10, TradedOneMore
    <3>12. filled[c] \in Nat /\ filled'[c] = filled[c] + q
           /\ filled[c] = Traded(reports, Taken(c))
           /\ filled[c] + Traded(reports, Pending(c)) = exFilled[c]
      BY <3>0, <1>1, <3>4 DEF TrackerTypes, Settled
    <3>13. filled'[c] = Traded(reports', Taken(c)')
      BY <3>0, <1>1, <3>8, <3>11, <3>12
    <3>14. (filled[c] + q) + Traded(reports, Pending(c) \ {n}) = exFilled[c]
      BY <3>0, <1>1, <3>9, <3>12
    <3>15. filled'[c] + Traded(reports', Pending(c)') = exFilled'[c]
      BY <3>0, <1>1, <3>8, <3>12, <3>14
    <3>16. \A z \in OrderIds : z # c => /\ filled'[z] + Traded(reports', Pending(z)') = exFilled'[z]
                                        /\ filled'[z] = Traded(reports', Taken(z)')
      BY <3>0, <1>1, <1>3, <3>8 DEF Settled
    <3>17. \A m \in ReportIds : applied'[m] <= 1
      BY <3>0, <3>5 DEF Settled
    <3>18. \A z \in OrderIds : filled'[z] + Traded(reports', Pending(z)') = exFilled'[z]
      BY <3>0, <3>15, <3>16
    <3>19. \A z \in OrderIds : filled'[z] = Traded(reports', Taken(z)')
      BY <3>0, <3>13, <3>16
    <3>20. \A m \in ReportIds : m # n => applied'[m] = applied[m]
      BY <3>0, <3>5
    <3> QED BY <3>17, <3>18, <3>19, <3>20
  <2>3. CASE Idles(n)
    BY <2>1, <2>3 DEF Idles, orderState
  <2>4. CASE Moves(n)
    BY <2>1, <2>4 DEF Moves, OSM!Transition
  <2> QED BY <2>2, <2>3, <2>4, DeliveryEffect
<1>6. ASSUME reports[n].type = "Trade", state[o] # "Canceled", applied[n] = 0
      PROVE  OSM!CanFill(o, q)
  <2>1. n \in Pending(o)
    BY <1>1, <1>6 DEF Pending, Trades
  <2>2. 0 < q /\ q <= remaining[o] /\ remaining[o] \in Nat
    BY <1>1, <2>1, PendingFits DEF TrackerTypes
  <2>3. state[o] # "Filled"
    BY <1>1, <2>2 DEF Books
  <2>4. state[o] # "Rejected"
    BY <1>1, <1>6 DEF Market
  <2>5. state[o] \notin Terminal
    BY <1>6, <2>3, <2>4
  <2>6. o \in active
    BY <1>1, <2>5 DEF Books
  <2> QED BY <1>6, <2>2, <2>4, <2>6 DEF OSM!CanFill
<1>7. reports[n].type = "Trade" /\ state[o] # "Canceled" => applied'[n] > 0
  <2>1. CASE applied[n] > 0
    <3>1. applied'[n] >= applied[n]
      <4>1. CASE UNCHANGED applied
        BY <1>1, <4>1 DEF FeedTypes
      <4>2. CASE applied' = [applied EXCEPT ![n] = applied[n] + 1]
        BY <1>1, <4>2 DEF FeedTypes
      <4> QED BY <4>1, <4>2, DeliveryEffect DEF Idles, Moves, Fills
    <3>2. applied'[n] \in Nat /\ applied[n] \in Nat
      BY DeliveryKeepsDeliveries DEF FeedTypes
    <3> QED BY <2>1, <3>1, <3>2
  <2>2. ASSUME applied[n] = 0, reports[n].type = "Trade", state[o] # "Canceled" PROVE applied'[n] > 0
    <3>1. ~IsDuplicate(Sequence(n))
      <4>1. ~Came(n)
        BY <1>1, <2>2 DEF Settled, IsTrade
      <4> QED BY <4>1, DuplicatesCameBefore DEF Came
    <3>2. HandleTrade(o, q, reports[n].price) /\ applied' = [applied EXCEPT ![n] = IF filled' # filled THEN @ + 1 ELSE @]
      BY <1>1, <2>2, <3>1, Delivering DEF ProcessReport
    <3>3. OSM!ApplyFill(o, q, reports[n].price)
      BY <1>6, <2>2, <3>2 DEF HandleTrade
    <3>4. filled' = [filled EXCEPT ![o] = filled[o] + q] /\ q > 0
      BY <1>1, <3>3, ApplyFillKeepsBooks
    <3>5. filled'[o] = filled[o] + q /\ filled[o] + q # filled[o]
      BY <1>1, <3>4 DEF TrackerTypes
    <3>6. filled' # filled
      BY <3>5
    <3>7. applied'[n] = 1
      BY <2>2, <3>2, <3>6 DEF FeedTypes
    <3> QED BY <3>7
  <2>3. applied[n] \in Nat
    BY DEF FeedTypes
  <2> QED BY <2>1, <2>2, <2>3
<1>8. \A m : Came(m)' /\ m \in ReportIds => Came(m) \/ m = n
  BY <1>2 DEF Came
<1>9. \A m \in ReportIds : IsTrade(m)' <=> IsTrade(m)
  BY <1>1 DEF IsTrade
<1>10. \A m \in ReportIds :
       Came(m)' /\ IsTrade(m)' /\ applied'[m] = 0 => state'[reports'[m].order] = "Canceled"
  <2>1. ASSUME NEW m \in ReportIds, m # n, Came(m)', IsTrade(m)', applied'[m] = 0
        PROVE  state'[reports'[m].order] = "Canceled"
    <3>1. Came(m) /\ IsTrade(m) /\ applied[m] = 0 /\ m \in DOMAIN reports
      BY <1>5, <1>8, <1>9, <2>1 DEF IsTrade
    <3>2. state[reports[m].order] = "Canceled" /\ reports[m].order \in OrderIds
      BY <3>1, ReportsTyped DEF Settled
    <3> QED BY <1>1, <1>3, <3>2
  <2>2. ASSUME IsTrade(n)', applied'[n] = 0
        PROVE  state'[reports'[n].order] = "Canceled"
    <3>1. reports[n].type = "Trade"
      BY <1>1, <2>2 DEF IsTrade
    <3>2. state[o] = "Canceled"
      BY <1>7, <2>2, <3>1
    <3> QED BY <1>1, <1>3, <3>2
  <2> QED BY <2>1, <2>2
<1>11. ASSUME reports[n].type = "CancelAck" PROVE state'[o] = "Canceled"
  <2>1. exState[o] = "canceled"
    BY <1>1, <1>11 DEF Market
  <2>2. state[o] \notin {"Filled", "Rejected"}
    <3>1. state[o] # "Rejected"
      BY <1>1, <2>1 DEF Market
    <3>2. exFilled[o] < quantity[o] /\ exFilled[o] \in Nat /\ quantity[o] \in Nat
      BY <1>1, <2>1 DEF Market, FeedTypes, TrackerTypes
    <3>3. IsFiniteSet(Pending(o)) /\ Traded(reports, Pending(o)) \in Nat
      <4>1. CASE Pending(o) = {}
        BY <4>1, TradedNone, FiniteTrades
      <4>2. ASSUME NEW m \in Pending(o) PROVE Traded(reports, Pending(o)) \in Nat
        <5>1. /\ Traded(reports, Pending(o) \ {m}) \in Nat /\ reports[m].qty \in Nat
              /\ Traded(reports, Pending(o)) = Traded(reports, Pending(o) \ {m}) + reports[m].qty
          BY <1>1, <4>2, PendingFits
        <5> QED BY <5>1
      <4> QED BY <4>1, <4>2, FiniteTrades
    <3>4. filled[o] + Traded(reports, Pending(o)) = exFilled[o] /\ filled[o] \in Nat
      BY <1>1 DEF Settled, TrackerTypes
    <3>5. filled[o] < quantity[o]
      BY <3>2, <3>3, <3>4
    <3>6. filled[o] + remaining[o] = quantity[o] /\ remaining[o] \in Nat
      BY <1>1 DEF Books, TrackerTypes
    <3>7. remaining[o] # 0
      BY <3>2, <3>4, <3>5, <3>6
    <3>8. state[o] # "Filled"
      BY <1>1, <3>7 DEF Books
    <3> QED BY <3>1, <3>8
  <2>3. CASE state[o] = "Canceled"
    BY <1>1, <1>3, <2>3
  <2>4. CASE state[o] # "Canceled"
    <3>1. state[o] \in {"PendingNew", "Open", "PartiallyFilled"} /\ o \in active
      BY <1>1, <2>2, <2>4 DEF TrackerTypes, Books
    <3>2. OSM!CanTransition(o, "Canceled")
      BY <3>1 DEF OSM!CanTransition, OSM!ValidNext
    <3>3. ~IsDuplicate(Sequence(n))
      <4>1. ~Came(n)
        BY <1>1, <1>11, <2>4 DEF Settled
      <4> QED BY <4>1, DuplicatesCameBefore DEF Came
    <3>4. HandleCancelAck(o)
      BY <1>1, <1>11, <3>3, Delivering DEF ProcessReport
    <3>5. OSM!Transition(o, "Canceled")
      BY <3>2, <3>4 DEF HandleCancelAck, TryTransition
    <3> QED BY <1>1, <3>5 DEF OSM!Transition, TrackerTypes
  <2> QED BY <2>3, <2>4
<1>12. ASSUME reports[n].type = "Reject" PROVE state'[o] = "Rejected"
  <2>1. exState[o] = "rejected"
    BY <1>1, <1>12 DEF Market
  <2>2. state[o] \in {"PendingNew", "Rejected"}
    BY <1>1, <2>1 DEF Market, TrackerTypes
  <2>3. CASE state[o] = "Rejected"
    BY <1>1, <1>3, <2>3
  <2>4. CASE state[o] = "PendingNew"
    <3>1. o \in active
      BY <1>1, <2>4 DEF Books
    <3>2. OSM!CanTransition(o, "Rejected")
      BY <2>4, <3>1 DEF OSM!CanTransition, OSM!ValidNext
    <3>3. ~IsDuplicate(Sequence(n))
      <4>1. ~Came(n)
        BY <1>1, <1>12, <2>4 DEF Settled
      <4> QED BY <4>1, DuplicatesCameBefore DEF Came
    <3>4. HandleReject(o)
      BY <1>1, <1>12, <3>3, Delivering DEF ProcessReport
    <3>5. OSM!Transition(o, "Rejected")
      BY <3>2, <3>4 DEF HandleReject, TryTransition
    <3> QED BY <1>1, <3>5 DEF OSM!Transition, TrackerTypes
  <2> QED BY <2>2, <2>3, <2>4
<1>13. \A m \in DOMAIN reports' : Came(m)' =>
       /\ reports'[m].type = "CancelAck" => state'[reports'[m].order] = "Canceled"
       /\ reports'[m].type = "Reject"    => state'[reports'[m].order] = "Rejected"
  <2>1. ASSUME NEW m \in DOMAIN reports, m # n, Came(m)'
        PROVE  /\ reports[m].type = "CancelAck" => state'[reports[m].order] = "Canceled"
               /\ reports[m].type = "Reject"    => state'[reports[m].order] = "Rejected"
    <3>1. m \in ReportIds /\ reports[m].order \in OrderIds
      BY ReportsTyped
    <3>2. Came(m)
      BY <1>8, <2>1, <3>1
    <3>3. /\ reports[m].type = "CancelAck" => state[reports[m].order] = "Canceled"
          /\ reports[m].type = "Reject"    => state[reports[m].order] = "Rejected"
      BY <3>2 DEF Settled
    <3> QED BY <1>3, <3>1, <3>3
  <2> QED BY <1>1, <1>11, <1>12, <2>1
<1>14. reports[n].type # "CancelAck" /\ state'[o] = "Canceled" => state[o] = "Canceled"
  <2>1. CASE Idles(n)
    BY <2>1 DEF Idles, orderState
  <2>2. CASE Moves(n)
    BY <1>1, <2>2 DEF Moves, OSM!Transition, TrackerTypes
  <2>3. CASE Fills(n)
    <3>1. state'[o] \in {"PartiallyFilled", "Filled"}
      BY <1>1, <2>3, ApplyFillKeepsBooks DEF Fills
    <3> QED BY <3>1
  <2> QED BY <2>1, <2>2, <2>3, DeliveryEffect
<1> QED BY <1>5, <1>7, <1>10, <1>13, <1>14 DEF Settled

\* A trade comes before the acknowledgement of a cancel, so the order takes it.
LEMMA DeliveryKeepsNoneDropped ==
  ASSUME TrackerTypes, FeedTypes, Books, Market, Deliveries, Settled, feed = "ordered", Window,
         NoneDropped, NEW n \in ReportIds, Deliver(n)
  PROVE  NoneDropped'
<1> DEFINE o == reports[n].order
<1>1. n \in DOMAIN reports /\ o \in OrderIds /\ UNCHANGED reports
  BY Delivering
<1>2. /\ \A m \in ReportIds : m # n => times'[m] = times[m]
      /\ times'[n] > 0
  BY DeliveryKeepsDeliveries
<1>3. \A m \in ReportIds : Came(m) => Came(m)'
  BY <1>2 DEF Came
<1>4. \A m \in DOMAIN reports : m \in ReportIds
  BY ReportsTyped
<1>5. ASSUME NEW z \in OrderIds, state'[z] = "Canceled"
      PROVE  \E m \in DOMAIN reports' :
               reports'[m].type = "CancelAck" /\ reports'[m].order = z /\ Came(m)'
  <2>1. CASE state[z] = "Canceled"
    BY <1>1, <1>3, <1>4, <1>5, <2>1 DEF NoneDropped
  <2>2. CASE state[z] # "Canceled"
    <3>1. z = o
      BY <1>5, <2>2, DeliveryKeepsBooks
    <3>2. reports[n].type = "CancelAck"
      BY <1>5, <2>2, <3>1, DeliveryKeepsSettled
    <3> QED BY <1>1, <1>2, <3>1, <3>2 DEF Came
  <2> QED BY <2>1, <2>2
<1>6. ASSUME NEW m \in ReportIds, Came(m)', IsTrade(m)' PROVE applied'[m] > 0
  <2>0. IsTrade(m)
    BY <1>1, <1>6 DEF IsTrade
  <2>1. CASE m # n
    <3>1. Came(m) /\ applied'[m] = applied[m]
      <4>1. CASE UNCHANGED applied
        BY <1>2, <1>6, <2>1, <4>1 DEF Came
      <4>2. CASE applied' = [applied EXCEPT ![n] = applied[n] + 1]
        BY <1>2, <1>6, <2>1, <4>2 DEF Came, FeedTypes
      <4> QED BY <4>1, <4>2, DeliveryEffect DEF Idles, Moves, Fills
    <3> QED BY <2>0, <3>1 DEF NoneDropped
  <2>2. CASE m = n
    <3>1. reports[n].type = "Trade"
      BY <2>0, <2>2 DEF IsTrade
    <3>2. CASE state[o] # "Canceled"
      BY <2>2, <3>1, <3>2, DeliveryKeepsSettled
    <3>3. CASE state[o] = "Canceled" /\ Came(n)
      <4>1. applied[n] > 0
        BY <2>0, <2>2, <3>3 DEF NoneDropped
      <4>2. applied[n] \in Nat
        BY DEF FeedTypes
      <4>3. CASE UNCHANGED applied
        BY <2>2, <4>1, <4>3
      <4>4. CASE applied' = [applied EXCEPT ![n] = applied[n] + 1]
        <5>1. applied'[n] = applied[n] + 1
          BY <4>4 DEF FeedTypes
        <5> QED BY <2>2, <4>2, <5>1
      <4> QED BY <4>3, <4>4, DeliveryEffect DEF Idles, Moves, Fills
    <3>4. CASE state[o] = "Canceled" /\ ~Came(n)
      <4>1. PICK c \in DOMAIN reports :
              reports[c].type = "CancelAck" /\ reports[c].order = o /\ Came(c)
        BY <1>1, <3>4 DEF NoneDropped
      <4>2. n < c
        BY <1>1, <3>1, <4>1 DEF Market
      <4>3. c \in ReportIds /\ c <= lastSequence
        BY <1>4, <4>1 DEF Window, Came
      <4>4. ~(n <= lastSequence)
        BY <3>4 DEF Window, Came
      <4>5. n \in Nat /\ c \in Nat /\ lastSequence \in Nat
        BY <4>3 DEF ReportIds, FeedTypes
      <4> QED BY <4>2, <4>3, <4>4, <4>5
    <3> QED BY <3>2, <3>3, <3>4
  <2> QED BY <2>1, <2>2
<1> QED BY <1>5, <1>6 DEF NoneDropped

-----------------------------------------------------------------------------
(* The invariant holds.                                                    *)

Inv ==
  /\ TrackerTypes /\ FeedTypes /\ Books /\ Market /\ Deliveries
  /\ feed # "chaotic" => Settled
  /\ feed = "ordered" => Window /\ NoneDropped

\* Initially nothing has happened.
LEMMA InvInit == Init => Inv
<1> SUFFICES ASSUME Init PROVE Inv
  OBVIOUS
<1>1. /\ now = 0 /\ idCounter = 1 /\ active = {} /\ purgeQueue = {}
      /\ quantity = [o \in OrderIds |-> 0] /\ filled = [o \in OrderIds |-> 0]
      /\ remaining = [o \in OrderIds |-> 0] /\ state = [o \in OrderIds |-> "PendingNew"]
      /\ lastSequence = 0 /\ seenSequences = <<>> /\ feed \in Feeds
      /\ exState = [o \in OrderIds |-> "unsent"] /\ exFilled = [o \in OrderIds |-> 0]
      /\ reports = <<>> /\ times = [n \in ReportIds |-> 0]
      /\ applied = [n \in ReportIds |-> 0] /\ verdict = [n \in ReportIds |-> "none"]
  BY DEF Init, OSM!Init
<1>2. TrackerTypes
  BY <1>1 DEF TrackerTypes
<1>3. FeedTypes
  <2>1. reports \in Seq(ReportRecord) /\ Len(reports) = 0 /\ DOMAIN reports = {}
        /\ seenSequences \in Seq(Nat \ {0})
    BY <1>1
  <2>2. Len(reports) <= MaxReports
    BY <2>1, FeedAssumption
  <2>3. verdict = [n \in ReportIds |-> verdict[n]]
    BY <1>1
  <2>4. exState \in [OrderIds -> Standings]
    BY <1>1 DEF Standings
  <2> QED BY <1>1, <2>1, <2>2, <2>3, <2>4 DEF FeedTypes
<1>4. Books
  <2>1. \A o \in OrderIds : o >= idCounter
    BY <1>1
  <2>2. \A o \in OrderIds : ~(o < idCounter)
    BY <1>1
  <2> QED BY <1>1, <2>1, <2>2 DEF Books
<1>5. DOMAIN reports = {} /\ DOMAIN seenSequences = {} /\ Len(seenSequences) = 0 /\ Len(reports) = 0
  BY <1>1
<1>6. Market
  <2>1. \A o \in OrderIds : o >= idCounter
    BY <1>1
  <2> QED BY <1>1, <1>5, <2>1 DEF Market
<1>7. Deliveries
  BY <1>1, <1>5 DEF Deliveries
<1>8. Settled
  <2>1. \A o : Pending(o) = {} /\ Taken(o) = {}
    BY <1>5 DEF Pending, Taken, Trades
  <2>2. /\ \A o \in OrderIds : filled[o] = 0 /\ exFilled[o] = 0
        /\ \A n \in ReportIds : applied[n] = 0 /\ ~IsTrade(n)
    BY <1>1, <1>5 DEF IsTrade
  <2>3. Traded(reports, {}) = 0
    BY TradedNone
  <2>4. /\ \A o \in OrderIds : filled[o] + Traded(reports, Pending(o)) = exFilled[o]
        /\ \A o \in OrderIds : filled[o] = Traded(reports, Taken(o))
    <3> SUFFICES ASSUME NEW o \in OrderIds
                 PROVE  /\ filled[o] + Traded(reports, Pending(o)) = exFilled[o]
                        /\ filled[o] = Traded(reports, Taken(o))
      OBVIOUS
    <3>1. Traded(reports, Pending(o)) = 0 /\ Traded(reports, Taken(o)) = 0
      BY <2>1, <2>3
    <3> QED BY <2>2, <3>1
  <2>5. \A n \in ReportIds : applied[n] <= 1
    BY <2>2
  <2> QED BY <1>5, <2>2, <2>4, <2>5 DEF Settled
<1>9. Window
  <2>1. \A n \in ReportIds : ~(times[n] > 0) /\ ~(n <= lastSequence)
    BY <1>1 DEF ReportIds
  <2> QED BY <1>1, <1>5, <2>1, FeedAssumption DEF Window
<1>10. NoneDropped
  BY <1>1 DEF NoneDropped, Came
<1> QED BY <1>2, <1>3, <1>4, <1>6, <1>7, <1>8, <1>9, <1>10 DEF Inv

\* Steps that neither report nor deliver.
LEMMA QuietSteps ==
  ASSUME Inv, TrackerTypes' /\ Books' /\ FeedTypes' /\ Market',
         UNCHANGED <<filled, state, feed, exFilled, reports, trackerVars, times, applied, verdict>>
  PROVE  Inv'
<1>1. Deliveries'
  BY OthersKeepDeliveries DEF Inv
<1>2. feed # "chaotic" => Settled'
  <2>1. \A o : Pending(o)' = Pending(o) /\ Taken(o)' = Taken(o)
    BY DEF Pending, Taken, Trades
  <2> QED BY <2>1 DEF Inv, Settled, Came, IsTrade
<1>3. feed = "ordered" => Window' /\ NoneDropped'
  <2>1. Len(reports) \in Nat /\ Len(reports) >= Len(reports)
    BY DEF Inv, FeedTypes
  <2> QED BY <2>1, OthersKeepWindow DEF Inv, NoneDropped, Came, IsTrade
<1> QED BY <1>1, <1>2, <1>3 DEF Inv

\* Every step keeps the invariant.
LEMMA InvNext == ASSUME Inv, [Next]_vars PROVE Inv'
<1>1. ASSUME NEW q \in Quantities, AddOrder(q) PROVE Inv'
  <2>1. OSM!AddOrder(q) /\ UNCHANGED <<feed, exFilled, reports, trackerVars, times, applied, verdict>>
    BY <1>1 DEF AddOrder, historyVars
  <2>2. TrackerTypes' /\ Books' /\ FeedTypes' /\ Market'
    BY <1>1, <2>1, AddOrderKeepsBooks, AddOrderKeepsMarket DEF Inv
  <2>3. /\ idCounter \in OrderIds /\ idCounter >= idCounter
        /\ filled' = [filled EXCEPT ![idCounter] = 0] /\ state' = [state EXCEPT ![idCounter] = "PendingNew"]
    BY <2>1 DEF OSM!AddOrder
  <2>4. filled[idCounter] = 0 /\ state[idCounter] = "PendingNew"
    BY <2>3 DEF Inv, Books
  <2>5. filled' = filled /\ state' = state
    BY <2>3, <2>4 DEF Inv, TrackerTypes
  <2> QED BY <2>1, <2>2, <2>5, QuietSteps
<1>2. ASSUME UNCHANGED <<idCounter, quantity, filled, state, exchangeVars, trackerVars, times, applied, verdict>>,
             TrackerTypes' /\ Books'
      PROVE  Inv'
  <2>1. UNCHANGED <<feed, exState, exFilled, reports, lastSequence, seenSequences>>
    BY <1>2 DEF exchangeVars, trackerVars
  <2>2. FeedTypes'
    BY <1>2, <2>1 DEF Inv, FeedTypes
  <2>3. Market'
    BY <1>2, <2>1 DEF Inv, Market
  <2> QED BY <1>2, <2>1, <2>2, <2>3, QuietSteps
<1>3. ASSUME NEW o \in active, RegisterCancelRequest(o) PROVE Inv'
  <2>1. UNCHANGED <<orderState, trackerVars, exchangeVars, times, applied, verdict>>
    BY <1>3 DEF RegisterCancelRequest
  <2> QED BY <1>2, <2>1, IdleKeepsBooks DEF Inv, orderState
<1>4. CASE PurgeTerminalOrders
  <2>1. OSM!PurgeTerminalOrders /\ UNCHANGED <<exchangeVars, trackerVars, times, applied, verdict>>
    BY <1>4 DEF PurgeTerminalOrders, historyVars
  <2>2. UNCHANGED <<idCounter, quantity, filled, state>>
    BY <2>1 DEF OSM!PurgeTerminalOrders
  <2> QED BY <1>2, <2>1, <2>2, PurgeKeepsBooks DEF Inv
<1>5. CASE Tick
  <2>1. OSM!Tick /\ UNCHANGED <<exchangeVars, trackerVars, times, applied, verdict>>
    BY <1>5 DEF Tick, historyVars
  <2>2. UNCHANGED <<idCounter, quantity, filled, state>>
    BY <2>1 DEF OSM!Tick, OSM!orderVars
  <2> QED BY <1>2, <2>1, <2>2, TickKeepsBooks DEF Inv
<1>6. ASSUME NEW n \in ReportIds, Deliver(n) PROVE Inv'
  <2>1. feed' = feed
    BY <1>6, Delivering DEF Inv
  <2>2. TrackerTypes' /\ Books' /\ Market'
    BY <1>6, DeliveryKeepsBooks DEF Inv
  <2>3. FeedTypes' /\ Deliveries'
    BY <1>6, DeliveryKeepsDeliveries DEF Inv
  <2>4. feed # "chaotic" => Settled'
    BY <1>6, DeliveryKeepsSettled DEF Inv
  <2>5. feed = "ordered" => Window'
    BY <1>6, DeliveryKeepsWindow DEF Inv
  <2>6. feed = "ordered" => NoneDropped'
    BY <1>6, DeliveryKeepsNoneDropped DEF Inv
  <2> QED BY <2>1, <2>2, <2>3, <2>4, <2>5, <2>6 DEF Inv
<1>7. ASSUME NEW o \in OrderIds,
             \/ ExchangeAccept(o)
             \/ ExchangeReject(o)
             \/ \E q \in FillQuantities, p \in Prices : ExchangeMatch(o, q, p)
             \/ ExchangeCancel(o)
             \/ ExchangeStatus(o)
      PROVE  Inv'
  <2>1. PICK type \in ReportTypes, q \in FillQuantities \union {0}, p \in Prices \union {0},
             x \in Standings, f \in Nat : ExchangeStep(o, type, q, p, x, f)
    BY <1>7, ExchangeSteps DEF Inv
  <2>2. Report(type, o, q, p)
    BY <2>1 DEF ExchangeStep
  <2>3. UNCHANGED <<orderState, trackerVars, feed, times, applied, verdict>>
    BY <2>2 DEF Report, historyVars
  <2>4. TrackerTypes' /\ Books'
    BY <2>3, IdleKeepsBooks DEF Inv
  <2>5. FeedTypes' /\ Market'
    BY <2>1, ExchangeKeepsMarket DEF Inv
  <2>6. Deliveries'
    <3>1. \A n \in DOMAIN reports : n \in DOMAIN reports' /\ reports'[n] = reports[n]
      BY <2>2, Reported DEF Inv
    <3> QED BY <2>3, <3>1, OthersKeepDeliveries DEF Inv
  <2>7. feed # "chaotic" => Settled'
    BY <2>1, ExchangeKeepsSettled DEF Inv
  <2>8. feed = "ordered" => Window'
    <3>1. Len(reports) \in Nat /\ Len(reports') = Len(reports) + 1
      BY <2>2, Reported DEF Inv
    <3>2. Len(reports') >= Len(reports) /\ Len(reports') \in Nat
      BY <3>1
    <3> QED BY <2>3, <3>2, OthersKeepWindow DEF Inv
  <2>9. feed = "ordered" => NoneDropped'
    BY <2>1, ExchangeKeepsNoneDropped DEF Inv
  <2> QED BY <2>3, <2>4, <2>5, <2>6, <2>7, <2>8, <2>9 DEF Inv
<1>8. CASE UNCHANGED vars
  <2>1. UNCHANGED <<orderState, exchangeVars, trackerVars, times, applied, verdict>>
    BY <1>8 DEF vars, historyVars
  <2> QED BY <1>2, <2>1, IdleKeepsBooks DEF Inv, orderState
<1> QED BY <1>1, <1>3, <1>4, <1>5, <1>6, <1>7, <1>8 DEF Next

\* The invariant holds of every behaviour.
LEMMA InvHolds == Spec => []Inv
<1> QED BY InvInit, InvNext, PTL DEF Spec

-----------------------------------------------------------------------------
(* What follows from it.                                                   *)

\* FillsMirrored: with an ordered feed the tracker's filled quantity of an
\* order is the sum of the trade reports delivered for it.
THEOREM FillsMirroredHolds == Spec => []FillsMirrored
<1>1. ASSUME Inv PROVE FillsMirrored
  <2> SUFFICES ASSUME feed = "ordered", NEW o \in OrderIds
               PROVE  filled[o] = MapThenSumSet(LAMBDA n : reports[n].qty,
                        {n \in ReportIds : Came(n) /\ IsTrade(n) /\ reports[n].order = o})
    BY DEF FillsMirrored
  <2>1. {n \in ReportIds : Came(n) /\ IsTrade(n) /\ reports[n].order = o} = Taken(o)
    <3>1. \A n \in ReportIds : IsTrade(n) => (Came(n) <=> applied[n] > 0)
      BY <1>1 DEF Inv, NoneDropped, Deliveries, Came
    <3>2. \A n : n \in Trades(o) <=> IsTrade(n) /\ reports[n].order = o
      BY DEF Trades, IsTrade
    <3>3. Trades(o) \subseteq ReportIds
      BY <1>1, ReportsTyped DEF Inv, Trades
    <3> QED BY <3>1, <3>2, <3>3 DEF Taken
  <2>2. filled[o] = Traded(reports, Taken(o))
    BY <1>1 DEF Inv, Settled
  <2> QED BY <2>1, <2>2 DEF Traded
<1> QED BY <1>1, InvHolds, PTL

\* EndsMirrored: a delivered acknowledgement of a cancel, or a delivered
\* rejection, is and stays the tracker's end of the order.
THEOREM EndsMirroredHolds == Spec => []EndsMirrored
<1>1. ASSUME Inv PROVE EndsMirrored
  BY <1>1 DEF Inv, Settled, EndsMirrored
<1> QED BY <1>1, InvHolds, PTL

\* FillWins: with an ordered feed a fill the resolver found authoritative over
\* a pending cancel is applied to the order.
THEOREM FillWinsHolds == Spec => []FillWins
<1>1. ASSUME Inv PROVE FillWins
  <2> SUFFICES ASSUME feed = "ordered", NEW n \in ReportIds, verdict[n] = "FillAuthoritative"
               PROVE  applied[n] >= 1
    BY DEF FillWins
  <2>1. Came(n) /\ IsTrade(n)
    BY <1>1 DEF Inv, Deliveries, Came
  <2>2. applied[n] > 0 /\ applied[n] \in Nat
    BY <1>1, <2>1 DEF Inv, NoneDropped, FeedTypes
  <2> QED BY <2>2
<1> QED BY <1>1, InvHolds, PTL

\* DropsOnlyAfterCancel: with a feed that reorders but does not repeat, stamped
\* or not, a delivered trade that was not applied finds its order canceled.
THEOREM DropsOnlyAfterCancelHolds == Spec => []DropsOnlyAfterCancel
<1>1. ASSUME Inv PROVE DropsOnlyAfterCancel
  BY <1>1 DEF Inv, Settled, DropsOnlyAfterCancel
<1> QED BY <1>1, InvHolds, PTL

\* Unless the feed repeats at will, no report's fill counts twice.
THEOREM NoFillCountsTwice == Spec => [](feed # "chaotic" => FillsOnce)
<1>1. ASSUME Inv PROVE feed # "chaotic" => FillsOnce
  BY <1>1 DEF Inv, Settled, FillsOnce
<1> QED BY <1>1, InvHolds, PTL

\* ImplementsTracker: every step of the whole system is, for the order tracker,
\* one of its own calls or none.
THEOREM ImplementsTrackerHolds == Spec => ImplementsTracker
<1>1. Init => OSM!Init
  BY DEF Init
<1>2. ASSUME Inv, [Next]_vars PROVE [OSM!Next]_(OSM!vars)
  <2>1. UNCHANGED orderState => UNCHANGED OSM!vars
    BY DEF orderState, OSM!vars, OSM!orderVars, OSM!statVars
  <2>2. ASSUME NEW q \in Quantities, AddOrder(q) PROVE OSM!Next
    BY <2>2 DEF AddOrder, OSM!Next
  <2>3. ASSUME NEW o \in active, RegisterCancelRequest(o) PROVE UNCHANGED orderState
    BY <2>3 DEF RegisterCancelRequest
  <2>4. ASSUME NEW n \in ReportIds, Deliver(n) PROVE OSM!Next \/ UNCHANGED orderState
    <3>1. n \in DOMAIN reports /\ reports[n].order \in OrderIds
      BY <1>2, <2>4, Delivering DEF Inv
    <3>2. CASE Idles(n)
      BY <3>2 DEF Idles
    <3>3. CASE Moves(n)
      BY <3>1, <3>3 DEF Moves, OSM!Next
    <3>4. CASE Fills(n)
      <4>1. reports[n].qty \in FillQuantities /\ reports[n].price \in Prices
        BY <1>2, <3>1, <3>4 DEF Fills, Inv, FeedTypes
      <4> QED BY <3>1, <3>4, <4>1 DEF Fills, OSM!Next
    <3> QED BY <1>2, <2>4, <3>2, <3>3, <3>4, DeliveryEffect DEF Inv
  <2>5. CASE PurgeTerminalOrders
    BY <2>5 DEF PurgeTerminalOrders, OSM!Next
  <2>6. CASE Tick
    BY <2>6 DEF Tick, OSM!Next
  <2>7. ASSUME NEW o \in OrderIds,
               \/ ExchangeAccept(o)
               \/ ExchangeReject(o)
               \/ \E q \in FillQuantities, p \in Prices : ExchangeMatch(o, q, p)
               \/ ExchangeCancel(o)
               \/ ExchangeStatus(o)
        PROVE  UNCHANGED orderState
    BY <2>7 DEF ExchangeAccept, ExchangeReject, ExchangeMatch, ExchangeCancel, ExchangeStatus, Report
  <2>8. CASE UNCHANGED vars
    BY <2>1, <2>8 DEF vars
  <2> QED BY <1>2, <2>1, <2>2, <2>3, <2>4, <2>5, <2>6, <2>7, <2>8 DEF Next
<1> QED BY <1>1, <1>2, InvHolds, PTL DEF Spec, ImplementsTracker, OSM!Spec

-----------------------------------------------------------------------------
(* The two registries of cancels.                                          *)

CancelRecord == [order : OrderIds, requested : Nat, exchange : Int]

\* Both registries are well formed, and the resolver's is no longer than the
\* requests that were made.
Registries ==
  /\ now \in Nat
  /\ active \subseteq OrderIds
  /\ cancels \in Nat /\ cancels <= MaxCancels
  /\ rPending \in Seq(CancelRecord) /\ Len(rPending) <= cancels
  /\ \A c \in pendingCancels : c.at \in Nat
  /\ PendingCancelsKnown

\* The resolver's history takes one more cancel, if there is one to come.
HasRoom == cancels < MaxCancels => Len(rPending) < MaxHistory \div 2

\* The least of a set of numbers is in it.
LEMMA LeastExists ==
  ASSUME NEW S \in SUBSET Nat, NEW s \in S
  PROVE  Min(S) \in S /\ \A y \in S : Min(S) <= y
<1> DEFINE less == {ss \in Nat \X Nat : ss[1] < ss[2]}
<1>1. IsWellFoundedOn(less, Nat)
  BY NatLessThanWellFounded DEF OpToRel
<1>2. PICK x \in S : \A y \in S : <<y, x>> \notin less
  BY <1>1, WFMin
<1>3. x \in Nat /\ \A y \in S : y \in Nat
  OBVIOUS
<1>4. \A y \in S : ~(y < x)
  BY <1>2, <1>3
<1>5. \A y \in S : x <= y
  BY <1>3, <1>4
<1> QED BY <1>5 DEF Min

\* A registry that is not full is not trimmed.
LEMMA NewestKeepsAll ==
  ASSUME NEW S, NEW s \in Seq(S), NEW n \in Nat, Len(s) <= n
  PROVE  Resolver!Newest(s, n) = s
<1>1. Len(s) - n + 1 <= 1 /\ Len(s) - n + 1 \in Int
  OBVIOUS
<1> DEFINE T == {1, Len(s) - n + 1}
<1>2. 1 \in T /\ \A y \in T : 1 >= y
  BY <1>1
<1>3. \A x \in T : (\A y \in T : x >= y) => x = 1
  BY <1>1
<1> HIDE DEF T
<1>4. (CHOOSE x \in T : \A y \in T : x >= y) = 1
  BY <1>2, <1>3
<1>5. Resolver!Newest(s, n) = SubSeq(s, 1, Len(s))
  BY <1>4 DEF Resolver!Newest, Resolver!Max, T
<1>6. SubSeq(s, 1, Len(s)) = s
  OBVIOUS
<1> QED BY <1>5, <1>6

\* What has not expired is kept.
LEMMA FreshAreKept ==
  ASSUME NEW s \in Seq(CancelRecord)
  PROVE  /\ Resolver!WithoutExpired(s) \in Seq(CancelRecord)
         /\ Len(Resolver!WithoutExpired(s)) <= Len(s)
         /\ \A i \in DOMAIN s : Resolver!Fresh(s[i]) =>
              \E j \in DOMAIN Resolver!WithoutExpired(s) : Resolver!WithoutExpired(s)[j] = s[i]
<1> DEFINE I == {i \in DOMAIN s : Resolver!Fresh(s[i])} \union {Len(s) + 1}
           m == Min(I)
<1>1. Len(s) \in Nat /\ DOMAIN s = 1..Len(s)
  OBVIOUS
<1>2. I \in SUBSET Nat /\ Len(s) + 1 \in I /\ \A i \in I : i >= 1
  BY <1>1
<1>3. m \in I /\ \A y \in I : m <= y
  BY <1>2, LeastExists
<1>4. \A i \in DOMAIN s : Resolver!Fresh(s[i]) => m <= i
  BY <1>3
<1>5. m \in 1..Len(s) + 1
  BY <1>1, <1>2, <1>3
<1>6. Resolver!WithoutExpired(s) = SubSeq(s, m, Len(s))
  BY DEF Resolver!WithoutExpired, Resolver!Min, Min
<1> HIDE DEF I, m
<1>7. /\ SubSeq(s, m, Len(s)) \in Seq(CancelRecord)
      /\ Len(SubSeq(s, m, Len(s))) = Len(s) - m + 1
      /\ \A j \in 1..(Len(s) - m + 1) : SubSeq(s, m, Len(s))[j] = s[m + j - 1]
  BY <1>1, <1>5
<1>8. ASSUME NEW i \in DOMAIN s, m <= i
      PROVE  \E j \in DOMAIN SubSeq(s, m, Len(s)) : SubSeq(s, m, Len(s))[j] = s[i]
  <2>1. i - m + 1 \in 1..(Len(s) - m + 1) /\ m + (i - m + 1) - 1 = i
    BY <1>1, <1>5, <1>8
  <2>2. DOMAIN SubSeq(s, m, Len(s)) = 1..(Len(s) - m + 1)
    BY <1>7
  <2> QED BY <1>7, <2>1, <2>2
<1>9. Len(s) - m + 1 <= Len(s)
  BY <1>1, <1>5
<1> QED BY <1>4, <1>6, <1>7, <1>8, <1>9

\* Both registries start empty.
LEMMA RegistriesInit == Init => Registries
<1> SUFFICES ASSUME Init PROVE Registries
  OBVIOUS
<1>1. /\ now = 0 /\ active = {} /\ cancels = 0 /\ pendingCancels = {} /\ rPending = <<>>
  BY DEF Init, OSM!Init, Resolver!ResolverInit
<1> QED BY <1>1, FeedAssumption DEF Registries, PendingCancelsKnown

\* A request enters both; what leaves the resolver's has left the reconciler's.
LEMMA RegistriesNext ==
  ASSUME CancelTimeout <= ResolverTimeout, HasRoom,
         Registries, Inv, Inv', [Next]_vars
  PROVE  Registries'
<1>0. now' \in Nat /\ active' \subseteq OrderIds
  BY DEF Inv, TrackerTypes
<1>1. ASSUME UNCHANGED <<rPending, cancels>>, \A c \in pendingCancels' : c \in pendingCancels
      PROVE  Registries'
  BY <1>0, <1>1 DEF Registries, PendingCancelsKnown
<1>2. ASSUME NEW q \in Quantities, AddOrder(q) PROVE Registries'
  BY <1>1, <1>2 DEF AddOrder, historyVars
<1>3. ASSUME NEW o \in active, RegisterCancelRequest(o) PROVE Registries'
  <2> DEFINE cancel == [order |-> o, requested |-> now, exchange |-> Resolver!Unknown]
             s == Append(rPending, cancel)
  <2>1. /\ cancels < MaxCancels /\ cancels' = cancels + 1
        /\ pendingCancels' = {c \in pendingCancels \union {[order |-> o, at |-> now]} : Fresh(c)}
        /\ rPending' = Resolver!WithoutExpired(Resolver!Newest(s, MaxHistory \div 2))
        /\ now' = now
    BY <1>3 DEF RegisterCancelRequest, Resolver!RegisterCancel, orderState
  <2>2. cancel \in CancelRecord
    BY DEF Registries, CancelRecord, Resolver!Unknown
  <2>3. /\ s \in Seq(CancelRecord) /\ Len(s) = Len(rPending) + 1 /\ Len(rPending) \in Nat
        /\ DOMAIN s = DOMAIN rPending \union {Len(rPending) + 1}
        /\ \A i \in DOMAIN rPending : s[i] = rPending[i]
        /\ s[Len(rPending) + 1] = cancel
    BY <2>2, Appended DEF Registries
  <2>4. cancel.order = o /\ cancel.requested = now
    OBVIOUS
  <2> HIDE DEF cancel, s
  <2>5. MaxHistory \div 2 \in Nat /\ Len(s) <= MaxHistory \div 2
    BY <2>1, <2>3, FeedAssumption DEF HasRoom
  <2>6. rPending' = Resolver!WithoutExpired(s)
    BY <2>1, <2>3, <2>5, NewestKeepsAll
  <2>7. /\ rPending' \in Seq(CancelRecord) /\ Len(rPending') <= Len(s) /\ Len(rPending') \in Nat
        /\ \A i \in DOMAIN s : Resolver!Fresh(s[i]) => \E j \in DOMAIN rPending' : rPending'[j] = s[i]
    BY <2>3, <2>6, FreshAreKept
  <2>8. cancels' \in Nat /\ cancels' <= MaxCancels /\ Len(rPending') <= cancels'
    BY <2>1, <2>3, <2>7, FeedAssumption DEF Registries
  <2>9. \A c \in pendingCancels' : c.at \in Nat
    BY <2>1 DEF Registries
  <2>10. ASSUME NEW c \in pendingCancels'
         PROVE  \E j \in DOMAIN rPending' : rPending'[j].order = c.order /\ rPending'[j].requested = c.at
    <3>1. now - c.at < CancelTimeout /\ c.at \in Nat
      BY <2>1, <2>9, <2>10 DEF Fresh
    <3>2. now - c.at < ResolverTimeout
      BY <3>1, FeedAssumption DEF Registries
    <3>3. \E i \in DOMAIN s : s[i].order = c.order /\ s[i].requested = c.at
      <4>1. CASE c \in pendingCancels
        BY <2>3, <4>1 DEF Registries, PendingCancelsKnown
      <4>2. CASE c = [order |-> o, at |-> now]
        BY <2>3, <2>4, <4>2
      <4> QED BY <2>1, <4>1, <4>2
    <3>4. PICK i \in DOMAIN s : s[i].order = c.order /\ s[i].requested = c.at
      BY <3>3
    <3>5. Resolver!Fresh(s[i])
      BY <3>2, <3>4 DEF Resolver!Fresh
    <3> QED BY <2>7, <3>4, <3>5
  <2>11. PendingCancelsKnown'
    BY <2>10 DEF PendingCancelsKnown
  <2> QED BY <1>0, <2>7, <2>8, <2>9, <2>11 DEF Registries
<1>4. ASSUME NEW n \in ReportIds, Deliver(n) PROVE Registries'
  <2>1. UNCHANGED <<rPending, cancels>> /\ ProcessReport(n, Sequence(n), reports[n])
    BY <1>4, Delivering DEF Inv
  <2>2. \A c \in pendingCancels' : c \in pendingCancels
    BY <2>1 DEF ProcessReport, HandleNewOrderAck, HandleCancelAck, HandleReject, HandleTrade,
                HandleStatusUpdate, WithoutCancels
  <2> QED BY <1>1, <2>1, <2>2
<1>5. CASE PurgeTerminalOrders
  BY <1>1, <1>5 DEF PurgeTerminalOrders, historyVars
<1>6. CASE Tick
  BY <1>1, <1>6 DEF Tick, historyVars
<1>7. ASSUME NEW o \in OrderIds,
             \/ ExchangeAccept(o)
             \/ ExchangeReject(o)
             \/ \E q \in FillQuantities, p \in Prices : ExchangeMatch(o, q, p)
             \/ ExchangeCancel(o)
             \/ ExchangeStatus(o)
      PROVE  Registries'
  <2>1. UNCHANGED <<rPending, pendingCancels, historyVars>>
    BY <1>7 DEF ExchangeAccept, ExchangeReject, ExchangeMatch, ExchangeCancel, ExchangeStatus, Report
  <2> QED BY <1>1, <2>1 DEF historyVars
<1>8. CASE UNCHANGED vars
  BY <1>1, <1>8 DEF vars, historyVars
<1> QED BY <1>2, <1>3, <1>4, <1>5, <1>6, <1>7, <1>8 DEF Next

\* PendingCancelsKnown: as long as the resolver's timeout is no shorter than
\* the reconciler's and its history is never full, what the reconciler still
\* expects the resolver still knows.
THEOREM PendingCancelsKnownHolds ==
  ASSUME CancelTimeout <= ResolverTimeout
  PROVE  Spec /\ []HasRoom => []PendingCancelsKnown
<1>1. HasRoom /\ Registries /\ Inv /\ Inv' /\ [Next]_vars => Registries'
  BY RegistriesNext
<1>2. Registries => PendingCancelsKnown
  BY DEF Registries
<1> QED BY <1>1, <1>2, RegistriesInit, InvHolds, PTL DEF Spec

\* In particular if no more cancels are requested in all than the half of its
\* history that the resolver keeps.
THEOREM FewCancelsAreKnown ==
  ASSUME CancelTimeout <= ResolverTimeout, MaxCancels <= MaxHistory \div 2
  PROVE  Spec => []PendingCancelsKnown
<1>1. Registries /\ Inv /\ Inv' /\ [Next]_vars => Registries'
  <2>1. Registries => HasRoom
    BY FeedAssumption DEF Registries, HasRoom
  <2> QED BY <2>1, RegistriesNext
<1>2. Registries => PendingCancelsKnown
  BY DEF Registries
<1> QED BY <1>1, <1>2, RegistriesInit, InvHolds, PTL DEF Spec
=============================================================================
