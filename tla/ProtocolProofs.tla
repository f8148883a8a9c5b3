-------------------------- MODULE ProtocolProofs --------------------------
(***************************************************************************)
(* Proofs about the components that each keep to a protocol with one other *)
(* party: the liquidation and its orders (RiskGate), the order book and    *)
(* the exchange's stream (BookHealer), the telemetry and its clients       *)
(* (TelemetryHub), a node and the leader it follows (LeaderDetection).     *)
(* They have nothing in common; each part has an invariant and theorems of *)
(* its own.  The types of the module that puts them side by side come      *)
(* last, those of orders, log and replicas from the modules that prove     *)
(* them.                                                                   *)
(***************************************************************************)
EXTENDS MCProtocols, OrderStateMachineProofs, RaftLogProofs, TLAPS

-----------------------------------------------------------------------------
(***************************************************************************)
(* RiskGate, for any orders, quantities and limits: what the liquidation   *)
(* believes is what the position is until an order fills behind its back,  *)
(* and an order that is alone stays within the limit.                      *)
(***************************************************************************)

\* next_slice never asks for more than is left.
LEMMA SliceFits ==
  ASSUME RiskTypeOK
  PROVE  NextSlice(router) \in Nat /\ NextSlice(router) <= router.left
<1> USE RiskAssumption DEF RiskAssumption
<1> DEFINE share == router.total \div NumSlices
           size  == IF router.slice >= NumSlices - 1 THEN router.left ELSE share
<1>1. router.total \in Nat /\ router.left \in Nat /\ router.slice \in Nat
  BY DEF RiskTypeOK
<1>2. share \in Nat
  <2>1. \A a \in Nat, c \in Nat \ {0} : a \div c \in Nat  BY Z3
  <2> QED BY <1>1, <2>1
<1> HIDE DEF share
<1>3. size \in Nat  BY <1>1, <1>2
<1>4. NextSlice(router) =
        IF size < MinOrder /\ router.left >= MinOrder THEN MinOrder
                                                      ELSE Lower(size, router.left)
  BY DEF NextSlice, share
<1> HIDE DEF size
<1> QED BY <1>1, <1>3, <1>4 DEF Lower

\* The types.
LEMMA RiskTypeStep ==
  ASSUME RiskTypeOK, RiskNext
  PROVE  RiskTypeOK'
<1> USE RiskAssumption DEF RiskAssumption, RiskTypeOK
<1> USE DEF gatekeeperVars, flattenVars, riskHistory
<1>1. ASSUME NEW o \in RiskOrders, NEW d \in Deltas, Submit(o, d)
      PROVE  RiskTypeOK'
  BY <1>1 DEF Submit, Becomes
<1>2. ASSUME NEW o \in RiskOrders, Approve(o)
      PROVE  RiskTypeOK'
  <2>1. riskOrder[o].open \in Int  OBVIOUS
  <2>2. Becomes(o, "open", riskOrder[o].open) \/ Becomes(o, "over", 0)
    BY <1>2 DEF Approve
  <2>3. riskOrder' \in [RiskOrders ->
          [status : {"new", "checking", "open", "over"}, open : Int]]
    BY <2>1, <2>2 DEF Becomes
  <2> QED BY <1>2, <2>3 DEF Approve
<1>3. ASSUME NEW o \in RiskOrders, NEW d \in Deltas \union {-1, 1}, FillOrder(o, d)
      PROVE  RiskTypeOK'
  <2>1. d \in Int /\ riskOrder[o].open - d \in Int /\ position' \in Int
    BY <1>3 DEF FillOrder
  <2>2. riskOrder' \in [RiskOrders ->
          [status : {"new", "checking", "open", "over"}, open : Int]]
    BY <1>3, <2>1 DEF FillOrder, Becomes
  <2> QED BY <1>3, <2>1, <2>2 DEF FillOrder
<1>4. ASSUME NEW o \in RiskOrders, CancelOrder(o)
      PROVE  RiskTypeOK'
  BY <1>4 DEF CancelOrder, Becomes
<1>5. CASE ActivateKillSwitch  BY <1>5 DEF ActivateKillSwitch
<1>6. CASE InitiateFlatten
  <2>1. Magnitude(position) \in Nat  BY DEF Magnitude
  <2> QED BY <1>6, <2>1 DEF InitiateFlatten
<1>7. CASE BeginTWAPLiquidation
  <2>1. Magnitude(position) \in Nat  BY DEF Magnitude
  <2>2. router' \in [total : Nat, left : Nat, slice : Nat, long : BOOLEAN]
    BY <1>7, <2>1 DEF BeginTWAPLiquidation
  <2> QED BY <1>7, <2>2 DEF BeginTWAPLiquidation
<1>8. ASSUME NEW q \in 0..router.left + MinOrder, ExecuteSlice(q)
      PROVE  RiskTypeOK'
  <2>1. /\ q \in Nat /\ Less(router.left, q) \in Nat /\ Less(toFlatten, q) \in Nat
        /\ router.slice + 1 \in Nat
    BY DEF Less
  <2> HIDE DEF RiskAssumption
  <2>2. router' \in [total : Nat, left : Nat, slice : Nat, long : BOOLEAN]
    BY <1>8, <2>1 DEF ExecuteSlice
  <2>3. toFlatten' \in Nat /\ position' \in Int
    BY <1>8, <2>1 DEF ExecuteSlice
  <2> QED BY <1>8, <2>2, <2>3 DEF ExecuteSlice
<1>9. CASE CheckLiquidationComplete  BY <1>9 DEF CheckLiquidationComplete
<1>10. CASE ResetAll  BY <1>10 DEF ResetAll, NoRouter
<1> QED BY <1>1, <1>2, <1>3, <1>4, <1>5, <1>6, <1>7, <1>8, <1>9, <1>10 DEF RiskNext

LEMMA RiskTypeInit ==
  ASSUME RiskInit
  PROVE  RiskTypeOK
<1>1. router \in [total : Nat, left : Nat, slice : Nat, long : BOOLEAN]
  BY DEF RiskInit, NoRouter
<1>2. riskOrder \in [RiskOrders ->
        [status : {"new", "checking", "open", "over"}, open : Int]]
  BY DEF RiskInit
<1>3. killed \in BOOLEAN /\ overlapped \in BOOLEAN /\ stray \in BOOLEAN
  BY DEF RiskInit
<1>4. /\ position \in Int /\ toFlatten \in Nat
      /\ flatten \in {"Trading", "CancellingOrders", "TWAPLiquidation", "FlatAndHalted"}
  BY DEF RiskInit
<1> QED BY <1>1, <1>2, <1>3, <1>4 DEF RiskTypeOK

\* The liquidation starts with what the accumulator shows, and its direction.
LEMMA BeginMeans ==
  ASSUME RiskTypeOK, BeginTWAPLiquidation
  PROVE  /\ router'.left = Magnitude(position)
         /\ IF router'.long THEN position >= 0 ELSE position <= 0
<1>1. router' = [total |-> Magnitude(position), left |-> Magnitude(position),
                 slice |-> 0, long |-> position > 0]
  BY DEF BeginTWAPLiquidation
<1>2. CASE position > 0
  <2>1. router'.long = TRUE  BY <1>1, <1>2
  <2> QED BY <1>1, <1>2, <2>1 DEF RiskTypeOK
<1>3. CASE ~(position > 0)
  <2>1. ~router'.long
    <3>1. router'.long = (position > 0)  BY <1>1
    <3> QED BY <1>3, <3>1
  <2> QED BY <1>1, <1>3, <2>1 DEF RiskTypeOK
<1> QED BY <1>2, <1>3

-----------------------------------------------------------------------------
\* The router and the FSM count down with the position, whose sign was noted
\* when the liquidation began.
LEMMA LiquidationStep ==
  ASSUME RiskTypeOK, LiquidationIsExact, RiskNext
  PROVE  LiquidationIsExact'
<1> USE DEF RiskTypeOK, LiquidationIsExact, gatekeeperVars, flattenVars, riskHistory
<1>1. ASSUME NEW o \in RiskOrders, NEW d \in Deltas, Submit(o, d)
      PROVE  LiquidationIsExact'
  BY <1>1 DEF Submit
<1>2. ASSUME NEW o \in RiskOrders, Approve(o)
      PROVE  LiquidationIsExact'
  BY <1>2 DEF Approve
<1>3. ASSUME NEW o \in RiskOrders, NEW d \in Deltas \union {-1, 1}, FillOrder(o, d)
      PROVE  LiquidationIsExact'
  <2>1. stray' \/ flatten' = "Trading"  BY <1>3 DEF FillOrder
  <2> QED BY <2>1
<1>4. ASSUME NEW o \in RiskOrders, CancelOrder(o)
      PROVE  LiquidationIsExact'
  BY <1>4 DEF CancelOrder
<1>5. CASE ActivateKillSwitch  BY <1>5 DEF ActivateKillSwitch
<1>6. CASE InitiateFlatten     BY <1>6 DEF InitiateFlatten
<1>7. CASE BeginTWAPLiquidation
  <2>1. UNCHANGED <<position, toFlatten, stray>> /\ flatten = "CancellingOrders"
    BY <1>7 DEF BeginTWAPLiquidation
  <2> QED BY <1>7, <2>1, BeginMeans DEF Magnitude
<1>8. ASSUME NEW q \in 0..router.left + MinOrder, ExecuteSlice(q)
      PROVE  LiquidationIsExact'
  <2>1. q \in Nat /\ q <= router.left  BY <1>8, SliceFits DEF ExecuteSlice
  <2>2. /\ UNCHANGED <<flatten, stray>> /\ flatten = "TWAPLiquidation"
        /\ router'.left = Less(router.left, q) /\ router'.long = router.long
        /\ toFlatten' = Less(toFlatten, q)
        /\ position' = position - (IF router.long THEN q ELSE -q)
    BY <1>8 DEF ExecuteSlice
  <2> QED BY <2>1, <2>2 DEF Less, Magnitude
<1>9. CASE CheckLiquidationComplete  BY <1>9 DEF CheckLiquidationComplete
<1>10. CASE ResetAll  BY <1>10 DEF ResetAll
<1> QED BY <1>1, <1>2, <1>3, <1>4, <1>5, <1>6, <1>7, <1>8, <1>9, <1>10 DEF RiskNext

-----------------------------------------------------------------------------
(* An order that is alone.                                                 *)

\* What one order may do to the position stays within the limit, partly filled
\* or in full; a liquidation of a system where nothing overlaps runs alone.
LoneOrders ==
  /\ flatten # "Trading" => killed
  /\ ~overlapped =>
       /\ Magnitude(position) <= MaxPosition
       /\ \A o, p \in RiskOrders : OnItsWay(o) /\ OnItsWay(p) => o = p
       /\ \A o \in RiskOrders : riskOrder[o].status = "open" =>
            Magnitude(position + riskOrder[o].open) <= MaxPosition
       /\ flatten \in {"TWAPLiquidation", "FlatAndHalted"} =>
            \A o \in RiskOrders : ~OnItsWay(o)
       /\ flatten = "TWAPLiquidation" =>
            /\ router.left = Magnitude(position)
            /\ IF router.long THEN position >= 0 ELSE position <= 0

LEMMA AloneStep ==
  ASSUME RiskTypeOK, LoneOrders, RiskNext
  PROVE  LoneOrders'
<1> USE RiskAssumption
        DEF RiskAssumption, RiskTypeOK, LoneOrders, OnItsWay,
            gatekeeperVars, flattenVars, riskHistory
<1>1. ASSUME NEW o \in RiskOrders, NEW d \in Deltas, Submit(o, d)
      PROVE  LoneOrders'
  <2>1. UNCHANGED <<killed, position, flatten, router>>
    BY <1>1 DEF Submit
  <2>2. \A p \in RiskOrders \ {o} : riskOrder'[p] = riskOrder[p]
    BY <1>1 DEF Submit, Becomes
  <2>3. riskOrder'[o].status = (IF killed THEN "over" ELSE "checking")
    BY <1>1 DEF Submit, Becomes
  <2>4. ~overlapped' => ~overlapped /\ \A p \in RiskOrders \ {o} : ~OnItsWay(p)
    BY <1>1 DEF Submit
  <2> QED BY <2>1, <2>2, <2>3, <2>4
<1>2. ASSUME NEW o \in RiskOrders, Approve(o)
      PROVE  LoneOrders'
  <2>1. UNCHANGED <<killed, position, flatten, router, overlapped>>
    BY <1>2 DEF Approve
  <2>2. \A p \in RiskOrders \ {o} : riskOrder'[p] = riskOrder[p]
    BY <1>2 DEF Approve, Becomes
  <2>3. /\ OnItsWay(o)
        /\ \/ riskOrder'[o].status = "over"
           \/ /\ riskOrder'[o].status = "open"
              /\ Magnitude(position + riskOrder'[o].open) <= MaxPosition
    BY <1>2 DEF Approve, Becomes, Exceeds, Magnitude
  <2> QED BY <2>1, <2>2, <2>3
<1>3. ASSUME NEW o \in RiskOrders, NEW d \in Deltas \union {-1, 1}, FillOrder(o, d)
      PROVE  LoneOrders'
  <2> DEFINE w == riskOrder[o].open
  <2>1. /\ UNCHANGED <<killed, flatten, router, overlapped>>
        /\ position' = position + d /\ OnItsWay(o) /\ riskOrder[o].status = "open"
        /\ d \in Int /\ w \in Int /\ d * w > 0 /\ Magnitude(d) <= Magnitude(w)
    BY <1>3 DEF FillOrder
  <2>2. \A p \in RiskOrders \ {o} : riskOrder'[p] = riskOrder[p]
    BY <1>3 DEF FillOrder, Becomes
  <2>3. riskOrder'[o].status \in {"over", "open"} /\ riskOrder'[o].open = w - d
    BY <1>3 DEF FillOrder, Becomes
  <2> HIDE DEF w
  <2>4. (d > 0 /\ w > 0) \/ (d < 0 /\ w < 0)
    <3>1. d * w > 0 /\ d \in Int /\ w \in Int  BY <2>1
    <3> QED BY ONLY <3>1, Z3
  <2>5. ~overlapped => Magnitude(position + d) <= MaxPosition
    BY <2>1, <2>4 DEF Magnitude, w
  <2> QED BY <2>1, <2>2, <2>3, <2>5 DEF w
<1>4. ASSUME NEW o \in RiskOrders, CancelOrder(o)
      PROVE  LoneOrders'
  <2>1. \A p \in RiskOrders : riskOrder'[p] = riskOrder[p] \/ riskOrder'[p].status = "over"
    BY <1>4 DEF CancelOrder, Becomes
  <2>2. UNCHANGED <<killed, position, flatten, router, overlapped>>
    BY <1>4 DEF CancelOrder
  <2> QED BY <2>1, <2>2
<1>5. CASE ActivateKillSwitch  BY <1>5 DEF ActivateKillSwitch
<1>6. CASE InitiateFlatten     BY <1>6 DEF InitiateFlatten
<1>7. CASE BeginTWAPLiquidation
  <2>1. /\ UNCHANGED <<killed, position, riskOrder>>
        /\ flatten = "CancellingOrders" /\ flatten' = "TWAPLiquidation"
    BY <1>7 DEF BeginTWAPLiquidation
  <2>2. ~overlapped' => ~overlapped /\ \A o \in RiskOrders : ~OnItsWay(o)
    BY <1>7 DEF BeginTWAPLiquidation
  <2> QED BY <1>7, <2>1, <2>2, BeginMeans DEF Magnitude
<1>8. ASSUME NEW q \in 0..router.left + MinOrder, ExecuteSlice(q)
      PROVE  LoneOrders'
  <2>1. q \in Nat /\ q <= router.left  BY <1>8, SliceFits DEF ExecuteSlice
  <2>2. /\ UNCHANGED <<killed, riskOrder, flatten, overlapped>>
        /\ flatten = "TWAPLiquidation"
        /\ router'.left = router.left - q /\ router'.long = router.long
        /\ position' = position - (IF router.long THEN q ELSE -q)
    BY <1>8, <2>1 DEF ExecuteSlice, Less
  <2>3. ~overlapped => /\ Magnitude(position') <= MaxPosition
                       /\ router'.left = Magnitude(position')
                       /\ IF router.long THEN position' >= 0 ELSE position' <= 0
    BY <2>1, <2>2 DEF Magnitude
  <2> QED BY <2>2, <2>3
<1>9. CASE CheckLiquidationComplete  BY <1>9 DEF CheckLiquidationComplete
<1>10. CASE ResetAll  BY <1>10 DEF ResetAll
<1> QED BY <1>1, <1>2, <1>3, <1>4, <1>5, <1>6, <1>7, <1>8, <1>9, <1>10 DEF RiskNext

-----------------------------------------------------------------------------
RInv == RiskTypeOK /\ LiquidationIsExact /\ LoneOrders

LEMMA RInvInit ==
  ASSUME RiskInit
  PROVE  RInv
<1>1. RiskTypeOK  BY RiskTypeInit
<1>2. LiquidationIsExact  BY DEF RiskInit, LiquidationIsExact
<1>3. LoneOrders
  BY RiskAssumption DEF RiskAssumption, RiskInit, LoneOrders, OnItsWay, Magnitude
<1> QED BY <1>1, <1>2, <1>3 DEF RInv

LEMMA RInvStep ==
  ASSUME RInv, [RiskNext]_riskVars
  PROVE  RInv'
<1>1. CASE RiskNext
  BY <1>1, RiskTypeStep, LiquidationStep, AloneStep DEF RInv
<1>2. CASE UNCHANGED riskVars
  <2> USE <1>2 DEF riskVars, gatekeeperVars, flattenVars, riskHistory, RInv
  <2>1. RiskTypeOK'  BY DEF RiskTypeOK
  <2>2. LiquidationIsExact'  BY DEF LiquidationIsExact
  <2>3. LoneOrders'  BY DEF LoneOrders, OnItsWay
  <2> QED BY <2>1, <2>2, <2>3
<1> QED BY <1>1, <1>2

\* The kill switch, the accumulator, the orders and the liquidation stay in the
\* states the code names; what is left to liquidate never goes below zero.
THEOREM RiskTypeCorrect == RiskSpec => []RiskTypeOK
<1>1. RiskInit => RInv  BY RInvInit
<1>2. RInv /\ [RiskNext]_riskVars => RInv'  BY RInvStep
<1>3. RInv => RiskTypeOK  BY DEF RInv
<1> QED BY <1>1, <1>2, <1>3, PTL DEF RiskSpec

\* Until an order fills behind its back, the liquidation knows what is left to
\* sell or buy and never turns the position round, for any position, number
\* and size of slices, and any partial fills.
THEOREM LiquidationIsExactHolds == RiskSpec => []LiquidationIsExact
<1>1. RiskInit => RInv  BY RInvInit
<1>2. RInv /\ [RiskNext]_riskVars => RInv'  BY RInvStep
<1>3. RInv => LiquidationIsExact  BY DEF RInv
<1> QED BY <1>1, <1>2, <1>3, PTL DEF RiskSpec

\* As long as no two orders overlap, and none a liquidation, the position stays
\* within its limit for any orders, fills, cancels, flattenings and resets.
THEOREM OneAtATimeStaysInLimitHolds == RiskSpec => []OneAtATimeStaysInLimit
<1>1. RiskInit => RInv  BY RInvInit
<1>2. RInv /\ [RiskNext]_riskVars => RInv'  BY RInvStep
<1>3. RInv => OneAtATimeStaysInLimit  BY DEF RInv, LoneOrders, OneAtATimeStaysInLimit
<1> QED BY <1>1, <1>2, <1>3, PTL DEF RiskSpec

\* A flattening that measured the position when no order was on its way meets
\* none later: the switch is on, and it is on until the reset.
Rested ==
  /\ flatten # "Trading" => ~stray /\ \A o \in RiskOrders : ~OnItsWay(o)
  /\ flatten = "FlatAndHalted" => toFlatten = 0

RestedInv == RInv /\ Rested

LEMMA RestedStep ==
  ASSUME RestedInv, RiskNext, MeasuredAtRest
  PROVE  Rested'
<1> USE DEF RestedInv, Rested, OnItsWay, gatekeeperVars, flattenVars, riskHistory
<1>1. ASSUME NEW o \in RiskOrders, NEW d \in Deltas, Submit(o, d)
      PROVE  Rested'
  <2>1. flatten # "Trading" => killed
    BY DEF RInv, LoneOrders
  <2>2. killed => riskOrder'[o].status = "over"
    BY <1>1 DEF Submit, Becomes, RInv, RiskTypeOK
  <2>3. \A p \in RiskOrders \ {o} : riskOrder'[p] = riskOrder[p]
    BY <1>1 DEF Submit, Becomes, RInv, RiskTypeOK
  <2> QED BY <1>1, <2>1, <2>2, <2>3 DEF Submit
<1>2. ASSUME NEW o \in RiskOrders, OnItsWay(o), UNCHANGED <<flatten, toFlatten>>
      PROVE  Rested'
  BY <1>2
<1>3. ASSUME NEW o \in RiskOrders, Approve(o) \/ CancelOrder(o)
      PROVE  Rested'
  BY <1>2, <1>3 DEF Approve, CancelOrder
<1>4. ASSUME NEW o \in RiskOrders, NEW d \in Deltas \union {-1, 1}, FillOrder(o, d)
      PROVE  Rested'
  BY <1>2, <1>4 DEF FillOrder
<1>5. CASE ActivateKillSwitch  BY <1>5 DEF ActivateKillSwitch
<1>6. CASE InitiateFlatten     BY <1>6 DEF InitiateFlatten, MeasuredAtRest
<1>7. CASE BeginTWAPLiquidation  BY <1>7 DEF BeginTWAPLiquidation
<1>8. ASSUME NEW q \in 0..router.left + MinOrder, ExecuteSlice(q)
      PROVE  Rested'
  BY <1>8 DEF ExecuteSlice
<1>9. CASE CheckLiquidationComplete  BY <1>9 DEF CheckLiquidationComplete
<1>10. CASE ResetAll  BY <1>10 DEF ResetAll
<1> QED BY <1>1, <1>3, <1>4, <1>5, <1>6, <1>7, <1>8, <1>9, <1>10 DEF RiskNext

\* "All positions flat, system halted": a liquidation that is complete leaves
\* nothing, if the position it was measured by was at rest, for any orders
\* before it, and any slices and partial fills.
THEOREM RestedFlatIsFlat == RestedSpec => []FlatIsFlat
<1>1. RiskInit => RestedInv
  BY RInvInit DEF RiskInit, RestedInv, Rested
<1>2. RestedInv /\ [RiskNext /\ MeasuredAtRest]_riskVars => RestedInv'
  <2>1. CASE RiskNext /\ MeasuredAtRest
    BY <2>1, RInvStep, RestedStep DEF RestedInv
  <2>2. CASE UNCHANGED riskVars
    BY <2>2, RInvStep DEF riskVars, gatekeeperVars, flattenVars, riskHistory, RestedInv, Rested,
       OnItsWay
  <2> QED BY <2>1, <2>2
<1>3. RestedInv => FlatIsFlat
  BY DEF RestedInv, Rested, RInv, RiskTypeOK, LiquidationIsExact, FlatIsFlat, Magnitude
<1> QED BY <1>1, <1>2, <1>3, PTL DEF RestedSpec

-----------------------------------------------------------------------------
(***************************************************************************)
(* BookHealer, for any number of updates, tolerance of gaps and snapshots: *)
(* between the swap of a snapshot and its record the book is the snapshot, *)
(* unless an update crosses (SwapIsRecorded), so that the record puts the  *)
(* healer where the book is.                                               *)
(***************************************************************************)

Healing == [step : {"idle", "fetch", "swap", "record", "resume", "fatal"}, id : 0..MaxId]

SwapIsRecorded == healing.step = "record" /\ ~crossed => book = healing.id

BookInv == BookTypeOK /\ healing \in Healing /\ SwapIsRecorded /\ InSequence

LEMMA InitBookInv == BookInit => BookInv
<1> SUFFICES ASSUME BookInit PROVE BookInv
  OBVIOUS
<1> USE BookAssumption DEF BookInit
<1>1. healing \in Healing
  BY DEF Healing
<1>2. BookTypeOK
  <2>1. paused \in BOOLEAN /\ crossed \in BOOLEAN
    OBVIOUS
  <2>2. /\ newest \in 0..MaxId /\ lastUpdate \in 0..MaxId /\ expected \in 0..MaxId + 1
        /\ failures \in 0..MaxFailures /\ book \in 0..MaxId
    OBVIOUS
  <2>3. healing.step \in {"idle", "fetch", "swap", "record", "resume", "fatal"} /\ healing.id \in 0..MaxId
    BY <1>1 DEF Healing
  <2> HIDE DEF BookInit
  <2> QED BY <2>1, <2>2, <2>3 DEF BookTypeOK
<1>3. SwapIsRecorded /\ InSequence
  BY DEF SwapIsRecorded, InSequence
<1> QED BY <1>1, <1>2, <1>3 DEF BookInv

LEMMA NextBookInv == BookInv /\ [BookNext]_bookVars => BookInv'
<1> SUFFICES ASSUME BookInv, [BookNext]_bookVars PROVE BookInv'
  OBVIOUS
<1> USE BookAssumption DEF BookInv, BookTypeOK, Healing, SwapIsRecorded, InSequence, healerVars, HealTo
<1>1. CASE Publish
  BY <1>1 DEF Publish
<1>2. ASSUME NEW id \in 1..newest, AcceptUpdate(id) PROVE BookInv'
  <2>1. id \in 1..MaxId /\ newest' = newest /\ lastUpdate' = id /\ expected' = id + 1 /\ book' = id
    BY <1>2 DEF AcceptUpdate, Expect
  <2>2. /\ crossed' = (crossed \/ healing.step = "record") /\ UNCHANGED <<paused, failures, healing>>
    BY <1>2 DEF AcceptUpdate
  <2>3. BookTypeOK' /\ healing' \in Healing
    BY <2>1, <2>2
  <2> QED BY <2>1, <2>2, <2>3
<1>3. ASSUME NEW id \in 1..newest, MissUpdate(id) PROVE BookInv'
  BY <1>3 DEF MissUpdate
<1>4. CASE FetchSnapshot
  BY <1>4 DEF FetchSnapshot
<1>5. CASE FetchFails
  BY <1>5 DEF FetchFails
<1>6. CASE ExecuteSwap
  BY <1>6 DEF ExecuteSwap
<1>7. CASE RecordSnapshotSuccess
  BY <1>7 DEF RecordSnapshotSuccess, Expect
<1>8. CASE ResumeTrading
  <2>1. healing' \in Healing /\ healing'.step = "idle" /\ healing'.id = 0
    BY <1>8 DEF ResumeTrading
  <2>2. /\ paused' = FALSE /\ failures' = 0 /\ UNCHANGED <<newest, lastUpdate, expected, book, crossed>>
        /\ healing.step = "resume"
    BY <1>8 DEF ResumeTrading
  <2>3. paused' \in BOOLEAN /\ crossed' \in BOOLEAN
    BY <2>2
  <2>4. /\ newest' \in 0..MaxId /\ lastUpdate' \in 0..MaxId /\ expected' \in 0..MaxId + 1
        /\ failures' \in 0..MaxFailures /\ book' \in 0..MaxId
    BY <2>2, SMT
  <2>5. BookTypeOK'
    BY <2>1, <2>3, <2>4
  <2> QED BY <2>1, <2>2, <2>5
<1>9. CASE ResetHealer
  <2>1. healing' \in Healing /\ healing'.step = "idle" /\ healing'.id = 0
    BY <1>9 DEF ResetHealer
  <2>2. /\ lastUpdate' = 0 /\ expected' = 0 /\ paused' = FALSE /\ failures' = 0
        /\ UNCHANGED <<newest, book, crossed>>
    BY <1>9 DEF ResetHealer
  <2>3. paused' \in BOOLEAN /\ crossed' \in BOOLEAN
    BY <2>2
  <2>4. /\ newest' \in 0..MaxId /\ lastUpdate' \in 0..MaxId /\ expected' \in 0..MaxId + 1
        /\ failures' \in 0..MaxFailures /\ book' \in 0..MaxId
    BY <2>2, SMT
  <2>5. BookTypeOK'
    BY <2>1, <2>3, <2>4
  <2> QED BY <2>1, <2>2, <2>5
<1>10. CASE UNCHANGED bookVars
  BY <1>10 DEF bookVars
<1> QED
  BY <1>1, <1>2, <1>3, <1>4, <1>5, <1>6, <1>7, <1>8, <1>9, <1>10 DEF BookNext

LEMMA SpecBookInv == BookSpec => []BookInv
  BY InitBookInv, NextBookInv, PTL DEF BookSpec

\* The healer's numbers and its task stay in the states the code names.
THEOREM BookTypeCorrect == BookSpec => []BookTypeOK
<1>1. BookInv => BookTypeOK
  BY DEF BookInv
<1> QED BY <1>1, SpecBookInv, PTL

\* validate_sequence expects the update after the last one in the book, however
\* gaps, snapshots, failures and resets follow each other, unless an update was
\* taken between execute_swap and record_snapshot_success.
THEOREM BookInSequence == BookSpec => []InSequence
<1>1. BookInv => InSequence
  BY DEF BookInv
<1> QED BY <1>1, SpecBookInv, PTL

-----------------------------------------------------------------------------
(***************************************************************************)
(* TelemetryHub, for any clients, capacities and pushes.                   *)
(*                                                                         *)
(* The argument: the four places a frame can be on its way to a client are *)
(* in order, each of them and each before the next (InOrder), and none     *)
(* holds a frame later than the last push.  A step moves the first frame   *)
(* of a place to the end of the place before it, adds the newest frame, or *)
(* loses frames.                                                           *)
(***************************************************************************)

Frames == Seq(Nat)

\* All of s comes before all of t.
Before(s, t) == \A j \in 1..Len(s), k \in 1..Len(t) : s[j] < t[k]
UpTo(s, n) == \A j \in 1..Len(s) : s[j] <= n

HubSequences ==
  /\ pushed \in Nat /\ frames \in Frames /\ hand \in Frames
  /\ inbox \in [Clients -> Frames] /\ got \in [Clients -> Frames]

InOrder(c) ==
  /\ Increasing(got[c]) /\ Increasing(inbox[c])
  /\ Before(got[c], inbox[c]) /\ Before(got[c], hand) /\ Before(got[c], frames)
  /\ Before(inbox[c], hand) /\ Before(inbox[c], frames)
  /\ UpTo(got[c], pushed) /\ UpTo(inbox[c], pushed)

HubInv ==
  /\ HubSequences
  /\ Increasing(hand) /\ Increasing(frames) /\ Before(hand, frames)
  /\ UpTo(hand, pushed) /\ UpTo(frames, pushed)
  /\ \A c \in Clients : InOrder(c)

-----------------------------------------------------------------------------
(* Increasing sequences.                                                   *)

LEMMA IncreasingConcat ==
  ASSUME NEW s \in Frames, NEW t \in Frames
  PROVE  Increasing(s \o t) <=> Increasing(s) /\ Increasing(t) /\ Before(s, t)
<1> DEFINE m == Len(s)
           n == Len(t)
<1>1. /\ m \in Nat /\ n \in Nat /\ s \o t \in Frames /\ Len(s \o t) = m + n
      /\ DOMAIN s = 1..m /\ DOMAIN t = 1..n /\ DOMAIN (s \o t) = 1..m + n
  BY DEF Frames
<1>2. /\ \A j \in 1..m : (s \o t)[j] = s[j]
      /\ \A j \in 1..n : (s \o t)[m + j] = t[j]
  BY DEF Frames
<1>3. ASSUME Increasing(s \o t) PROVE Increasing(s) /\ Increasing(t) /\ Before(s, t)
  <2> DEFINE u == s \o t
  <2>1. \A j, k \in 1..m + n : j < k => u[j] < u[k]
    BY <1>1, <1>3 DEF Increasing
  <2> HIDE DEF u, m, n
  <2>2. /\ \A j \in 1..m : u[j] = s[j]
        /\ \A j \in 1..n : u[m + j] = t[j]
    BY <1>2 DEF u
  <2>3. \A j, k \in 1..m : j < k => s[j] < s[k]
    BY <1>1, <2>1, <2>2
  <2>4. ASSUME NEW j \in 1..n, NEW k \in 1..n, j < k PROVE t[j] < t[k]
    <3>1. m + j \in 1..m + n /\ m + k \in 1..m + n /\ m + j < m + k
      BY <1>1, <2>4
    <3> QED BY <2>1, <2>2, <3>1
  <2>5. ASSUME NEW j \in 1..m, NEW k \in 1..n PROVE s[j] < t[k]
    <3>1. j \in 1..m + n /\ m + k \in 1..m + n /\ j < m + k
      BY <1>1
    <3> QED BY <2>1, <2>2, <3>1
  <2> QED BY <1>1, <2>3, <2>4, <2>5 DEF Increasing, Before, m, n
<1>4. ASSUME Increasing(s), Increasing(t), Before(s, t) PROVE Increasing(s \o t)
  <2> DEFINE u == s \o t
  <2>1. /\ \A j, k \in 1..m : j < k => s[j] < s[k]
        /\ \A j, k \in 1..n : j < k => t[j] < t[k]
        /\ \A j \in 1..m, k \in 1..n : s[j] < t[k]
    BY <1>1, <1>4 DEF Increasing, Before
  <2> HIDE DEF u, m, n
  <2>2. /\ \A j \in 1..m : u[j] = s[j]
        /\ \A j \in 1..n : u[m + j] = t[j]
    BY <1>2 DEF u
  <2>3. ASSUME NEW j \in 1..m + n, NEW k \in 1..m + n, j < k PROVE u[j] < u[k]
    <3>1. CASE k <= m
      BY <1>1, <2>1, <2>2, <2>3, <3>1
    <3>2. CASE j <= m /\ k > m
      <4>1. k - m \in 1..n /\ k = m + (k - m) /\ j \in 1..m
        BY <1>1, <3>2
      <4> QED BY <2>1, <2>2, <4>1
    <3>3. CASE j > m
      <4>1. k - m \in 1..n /\ k = m + (k - m) /\ j - m \in 1..n /\ j = m + (j - m) /\ j - m < k - m
        BY <1>1, <2>3, <3>3
      <4> QED BY <2>1, <2>2, <4>1
    <3> QED BY <1>1, <3>1, <3>2, <3>3
  <2> QED BY <1>1, <2>3 DEF Increasing, u
<1> QED BY <1>3, <1>4

LEMMA BeforeConcat ==
  ASSUME NEW s \in Frames, NEW t \in Frames, NEW u \in Frames
  PROVE  /\ Before(s \o t, u) <=> Before(s, u) /\ Before(t, u)
         /\ Before(u, s \o t) <=> Before(u, s) /\ Before(u, t)
<1> DEFINE m == Len(s)
           n == Len(t)
           v == s \o t
<1>1. m \in Nat /\ n \in Nat /\ Len(v) = m + n
  BY DEF Frames
<1>2. /\ \A j \in 1..m : v[j] = s[j]
      /\ \A j \in 1..n : v[m + j] = t[j]
  BY DEF Frames
<1> HIDE DEF m, n, v
<1>3. \A j \in 1..m + n : j \in 1..m \/ (j - m \in 1..n /\ j = m + (j - m))
  BY <1>1
<1>4. \A j \in 1..m : j \in 1..m + n
  BY <1>1
<1>5. \A j \in 1..n : m + j \in 1..m + n
  BY <1>1
<1>6. Before(v, u) <=> Before(s, u) /\ Before(t, u)
  <2>1. ASSUME Before(v, u) PROVE Before(s, u) /\ Before(t, u)
    BY <1>1, <1>2, <1>4, <1>5, <2>1 DEF Before, m, n
  <2>2. ASSUME Before(s, u), Before(t, u), NEW j \in 1..m + n, NEW k \in 1..Len(u) PROVE v[j] < u[k]
    BY <1>2, <1>3, <2>2 DEF Before, m, n
  <2> QED BY <1>1, <2>1, <2>2 DEF Before
<1>7. Before(u, v) <=> Before(u, s) /\ Before(u, t)
  <2>1. ASSUME Before(u, v) PROVE Before(u, s) /\ Before(u, t)
    BY <1>1, <1>2, <1>4, <1>5, <2>1 DEF Before, m, n
  <2>2. ASSUME Before(u, s), Before(u, t), NEW j \in 1..m + n, NEW k \in 1..Len(u) PROVE u[k] < v[j]
    BY <1>2, <1>3, <2>2 DEF Before, m, n
  <2> QED BY <1>1, <2>1, <2>2 DEF Before
<1> QED BY <1>6, <1>7 DEF v

LEMMA UpToConcat ==
  ASSUME NEW s \in Frames, NEW t \in Frames, NEW b \in Nat
  PROVE  UpTo(s \o t, b) <=> UpTo(s, b) /\ UpTo(t, b)
<1> DEFINE m == Len(s)
           n == Len(t)
           v == s \o t
<1>1. m \in Nat /\ n \in Nat /\ Len(v) = m + n
  BY DEF Frames
<1>2. /\ \A j \in 1..m : v[j] = s[j]
      /\ \A j \in 1..n : v[m + j] = t[j]
  BY DEF Frames
<1> HIDE DEF m, n, v
<1>3. \A j \in 1..m + n : j \in 1..m \/ (j - m \in 1..n /\ j = m + (j - m))
  BY <1>1
<1>4. ASSUME UpTo(v, b) PROVE UpTo(s, b) /\ UpTo(t, b)
  <2>1. \A j \in 1..m : j \in 1..m + n
    BY <1>1
  <2>2. \A j \in 1..n : m + j \in 1..m + n
    BY <1>1
  <2> QED BY <1>1, <1>2, <1>4, <2>1, <2>2 DEF UpTo, m, n
<1>5. ASSUME UpTo(s, b), UpTo(t, b), NEW j \in 1..m + n PROVE v[j] <= b
  BY <1>2, <1>3, <1>5 DEF UpTo, m, n
<1> QED BY <1>1, <1>4, <1>5 DEF UpTo, v

\* A sequence is its first element and the rest.
LEMMA HeadThenTail ==
  ASSUME NEW s \in Frames, s # <<>>
  PROVE  /\ <<Head(s)>> \in Frames /\ Tail(s) \in Frames
         /\ s = <<Head(s)>> \o Tail(s)
BY DEF Frames

\* One frame alone is in order, and nothing is in order with everything.
LEMMA SmallSequences ==
  /\ Increasing(<<>>) /\ <<>> \in Frames
  /\ \A s \in Frames, n \in Nat : Before(<<>>, s) /\ Before(s, <<>>) /\ UpTo(<<>>, n)
  /\ \A x \in Nat : /\ <<x>> \in Frames /\ Increasing(<<x>>) /\ UpTo(<<x>>, x)
  /\ \A s \in Frames : \A n \in Nat : UpTo(s, n) => UpTo(s, n + 1) /\ Before(s, <<n + 1>>)
<1>1. Increasing(<<>>) /\ <<>> \in Frames
  BY DEF Increasing, Frames
<1>2. \A s \in Frames, n \in Nat : Before(<<>>, s) /\ Before(s, <<>>) /\ UpTo(<<>>, n)
  BY DEF Before, UpTo
<1>3. ASSUME NEW x \in Nat PROVE <<x>> \in Frames /\ Increasing(<<x>>) /\ UpTo(<<x>>, x)
  BY DEF Frames, Increasing, UpTo
<1>4. ASSUME NEW s \in Frames, NEW n \in Nat, UpTo(s, n) PROVE UpTo(s, n + 1) /\ Before(s, <<n + 1>>)
  <2>1. \A j \in 1..Len(s) : s[j] \in Nat /\ s[j] <= n
    BY <1>4 DEF UpTo, Frames
  <2> QED BY <2>1 DEF UpTo, Before
<1> QED BY <1>1, <1>2, <1>3, <1>4

-----------------------------------------------------------------------------
(* The invariant and the steps.                                            *)

LEMMA InitHubInv ==
  ASSUME HubInit
  PROVE  HubInv
<1>1. HubSequences
  BY SmallSequences DEF HubInit, HubSequences
<1>2. ASSUME NEW c \in Clients PROVE InOrder(c)
  <2>1. got[c] = <<>> /\ inbox[c] = <<>> /\ hand = <<>> /\ frames = <<>> /\ pushed = 0
    BY DEF HubInit
  <2> QED BY <2>1, SmallSequences DEF InOrder
<1>3. hand = <<>> /\ frames = <<>> /\ pushed = 0
  BY DEF HubInit
<1> QED BY <1>1, <1>2, <1>3, SmallSequences DEF HubInv

\* The newest frame goes behind every other, or is lost.
LEMMA PushInOrder ==
  ASSUME HubInv, Push
  PROVE  HubInv'
<1>1. pushed \in Nat /\ pushed' = pushed + 1 /\ pushed' \in Nat
  BY DEF HubInv, HubSequences, Push
<1>2. hand' = hand /\ inbox' = inbox /\ got' = got
  BY DEF Push
<1>3. /\ frames \in Frames /\ hand \in Frames
      /\ inbox \in [Clients -> Frames] /\ got \in [Clients -> Frames]
  BY DEF HubInv, HubSequences
<1>4. /\ Increasing(hand) /\ Increasing(frames) /\ Before(hand, frames)
      /\ UpTo(hand, pushed) /\ UpTo(frames, pushed)
      /\ \A c \in Clients : InOrder(c)
  BY DEF HubInv
<1>5. UpTo(hand, pushed') /\ UpTo(frames, pushed')
      /\ \A c \in Clients : UpTo(got[c], pushed') /\ UpTo(inbox[c], pushed')
  BY <1>1, <1>3, <1>4, SmallSequences DEF InOrder
<1>6. CASE frames' = frames
  BY <1>1, <1>2, <1>3, <1>4, <1>5, <1>6 DEF HubInv, HubSequences, InOrder
<1>7. CASE frames' = Append(frames, pushed')
  <2> DEFINE lastPushed == <<pushed'>>
  <2>1. lastPushed \in Frames /\ Increasing(lastPushed) /\ UpTo(lastPushed, pushed')
    BY <1>1, SmallSequences
  <2>2. frames' = frames \o lastPushed
    BY <1>1, <1>3, <1>7 DEF Frames
  <2>3. Before(hand, lastPushed) /\ Before(frames, lastPushed)
    BY <1>1, <1>3, <1>4, SmallSequences
  <2>4. \A c \in Clients : Before(got[c], lastPushed) /\ Before(inbox[c], lastPushed)
    BY <1>1, <1>3, <1>4, SmallSequences DEF InOrder
  <2> HIDE DEF lastPushed
  <2>5. frames' \in Frames
    BY <1>3, <2>1, <2>2 DEF Frames
  <2>6. Increasing(frames')
    BY <1>3, <1>4, <2>1, <2>2, <2>3, IncreasingConcat
  <2>7. UpTo(frames', pushed')
    BY <1>1, <1>3, <1>5, <2>1, <2>2, UpToConcat
  <2>8. Before(hand, frames')
    BY <1>3, <1>4, <2>1, <2>2, <2>3, BeforeConcat
  <2>9. ASSUME NEW c \in Clients PROVE InOrder(c)'
    <3>1. got[c] \in Frames /\ inbox[c] \in Frames
      BY <1>3
    <3>2. Before(got[c], frames') /\ Before(inbox[c], frames')
      BY <1>3, <1>4, <2>1, <2>2, <2>4, <3>1, BeforeConcat DEF InOrder
    <3>3. InOrder(c)
      BY <1>4
    <3> QED BY <1>2, <1>5, <3>2, <3>3 DEF InOrder
  <2> QED BY <1>1, <1>2, <1>3, <1>4, <1>5, <2>5, <2>6, <2>7, <2>8, <2>9 DEF HubInv, HubSequences
<1> QED BY <1>6, <1>7 DEF Push

LEMMA TakeInOrder ==
  ASSUME HubInv, TakeFrame
  PROVE  HubInv'
<1> DEFINE first == <<Head(frames)>>
           rest  == Tail(frames)
<1>1. hand = <<>> /\ hand' = first /\ frames' = rest
      /\ pushed' = pushed /\ inbox' = inbox /\ got' = got
  BY DEF TakeFrame, producerVars
<1>2. /\ frames \in Frames /\ frames # <<>> /\ pushed \in Nat
      /\ inbox \in [Clients -> Frames] /\ got \in [Clients -> Frames]
  BY DEF HubInv, HubSequences, TakeFrame
<1>3. first \in Frames /\ rest \in Frames /\ frames = first \o rest
  BY <1>2, HeadThenTail
<1> HIDE DEF first, rest
<1>4. Increasing(frames) /\ UpTo(frames, pushed) /\ \A c \in Clients : InOrder(c)
  BY DEF HubInv
<1>5. Increasing(first) /\ Increasing(rest) /\ Before(first, rest)
  BY <1>3, <1>4, IncreasingConcat
<1>6. UpTo(first, pushed) /\ UpTo(rest, pushed)
  BY <1>2, <1>3, <1>4, UpToConcat
<1>7. ASSUME NEW c \in Clients PROVE InOrder(c)'
  <2>1. InOrder(c) /\ got[c] \in Frames /\ inbox[c] \in Frames
    BY <1>2, <1>4
  <2>2. /\ Before(got[c], first) /\ Before(got[c], rest)
        /\ Before(inbox[c], first) /\ Before(inbox[c], rest)
    BY <1>2, <1>3, <2>1, BeforeConcat DEF InOrder
  <2> QED BY <1>1, <2>1, <2>2 DEF InOrder
<1> QED BY <1>1, <1>2, <1>3, <1>5, <1>6, <1>7 DEF HubInv, HubSequences

LEMMA BroadcastInOrder ==
  ASSUME HubInv, BroadcastFrame
  PROVE  HubInv'
<1>1. hand' = <<>> /\ frames' = frames /\ pushed' = pushed /\ got' = got
  BY DEF BroadcastFrame, producerVars
<1>2. /\ frames \in Frames /\ hand \in Frames /\ pushed \in Nat
      /\ inbox \in [Clients -> Frames] /\ got \in [Clients -> Frames]
  BY DEF HubInv, HubSequences
<1>3. /\ Increasing(hand) /\ Increasing(frames) /\ Before(hand, frames)
      /\ UpTo(hand, pushed) /\ UpTo(frames, pushed)
      /\ \A c \in Clients : InOrder(c)
  BY DEF HubInv
<1>4. \A c \in Clients : inbox'[c] = inbox[c] \o hand \/ inbox'[c] = inbox[c]
  BY DEF BroadcastFrame
<1>5. \A c \in Clients : inbox'[c] \in Frames
  <2>1. \A s, t \in Frames : s \o t \in Frames
    BY DEF Frames
  <2> QED BY <1>2, <1>4, <2>1
<1>6. inbox' = [c \in Clients |-> inbox'[c]]
  BY DEF BroadcastFrame
<1>7. inbox' \in [Clients -> Frames]
  BY <1>5, <1>6
<1>8. ASSUME NEW c \in Clients PROVE InOrder(c)'
  <2>1. InOrder(c) /\ got[c] \in Frames /\ inbox[c] \in Frames
    BY <1>2, <1>3
  <2>2. Before(got[c], <<>>) /\ Before(inbox'[c], <<>>)
    BY <1>2, <1>5, <2>1, SmallSequences
  <2>3. CASE inbox'[c] = inbox[c]
    BY <1>1, <2>1, <2>2, <2>3 DEF InOrder
  <2>4. CASE inbox'[c] = inbox[c] \o hand
    <3> DEFINE s == inbox[c]
               box == s \o hand
    <3>1. Increasing(s) /\ Before(s, hand) /\ Before(s, frames) /\ UpTo(s, pushed)
          /\ Before(got[c], s) /\ Before(got[c], hand)
      BY <2>1 DEF InOrder
    <3>2. Increasing(box)
      BY <1>2, <1>3, <2>1, <3>1, IncreasingConcat
    <3>3. Before(got[c], box) /\ Before(box, frames)
      BY <1>2, <1>3, <2>1, <3>1, BeforeConcat
    <3>4. UpTo(box, pushed)
      BY <1>2, <1>3, <2>1, <3>1, UpToConcat
    <3>5. inbox'[c] = box
      BY <2>4
    <3> HIDE DEF box
    <3> QED BY <1>1, <2>1, <2>2, <3>2, <3>3, <3>4, <3>5 DEF InOrder
  <2> QED BY <1>4, <2>3, <2>4
<1>9. Increasing(<<>>) /\ <<>> \in Frames /\ Before(<<>>, frames) /\ UpTo(<<>>, pushed)
  BY <1>2, SmallSequences
<1> QED BY <1>1, <1>2, <1>3, <1>7, <1>8, <1>9 DEF HubInv, HubSequences

LEMMA ForwardInOrder ==
  ASSUME HubInv, NEW d \in Clients, Forward(d)
  PROVE  HubInv'
<1> DEFINE first == <<Head(inbox[d])>>
           rest  == Tail(inbox[d])
<1>1. hand' = hand /\ frames' = frames /\ pushed' = pushed
  BY DEF Forward, producerVars
<1>2. /\ frames \in Frames /\ hand \in Frames /\ pushed \in Nat
      /\ inbox \in [Clients -> Frames] /\ got \in [Clients -> Frames]
  BY DEF HubInv, HubSequences
<1>3. /\ Increasing(hand) /\ Increasing(frames) /\ Before(hand, frames)
      /\ UpTo(hand, pushed) /\ UpTo(frames, pushed)
      /\ \A c \in Clients : InOrder(c)
  BY DEF HubInv
<1>4. inbox[d] # <<>>
  BY DEF Forward
<1>5. first \in Frames /\ rest \in Frames /\ inbox[d] = first \o rest
  BY <1>2, <1>4, HeadThenTail
<1>6. got' = [got EXCEPT ![d] = got[d] \o first]
  <2>1. Head(inbox[d]) \in Nat
    BY <1>2, <1>4 DEF Frames
  <2>2. Append(got[d], Head(inbox[d])) = got[d] \o first
    BY <1>2, <2>1 DEF Frames
  <2>3. got' = [got EXCEPT ![d] = Append(got[d], Head(inbox[d]))]
    BY DEF Forward
  <2> QED BY <2>2, <2>3
<1>7. inbox' = [inbox EXCEPT ![d] = rest]
  BY DEF Forward
<1> HIDE DEF first, rest
<1>8. got[d] \o first \in Frames
  BY <1>2, <1>5 DEF Frames
<1>9. inbox' \in [Clients -> Frames] /\ got' \in [Clients -> Frames]
  BY <1>2, <1>5, <1>6, <1>7, <1>8
<1>10. InOrder(d)'
  <2>1. InOrder(d) /\ got[d] \in Frames /\ inbox[d] \in Frames
    BY <1>2, <1>3
  <2>2. got'[d] = got[d] \o first /\ inbox'[d] = rest
    BY <1>2, <1>6, <1>7
  <2>3. Increasing(first) /\ Increasing(rest) /\ Before(first, rest)
    BY <1>5, <2>1, IncreasingConcat DEF InOrder
  <2>4. /\ Before(got[d], first) /\ Before(got[d], rest)
        /\ Before(first, hand) /\ Before(rest, hand)
        /\ Before(first, frames) /\ Before(rest, frames)
    BY <1>2, <1>5, <2>1, BeforeConcat DEF InOrder
  <2>5. UpTo(first, pushed) /\ UpTo(rest, pushed)
    BY <1>2, <1>5, <2>1, UpToConcat DEF InOrder
  <2>6. Increasing(got'[d])
    BY <1>5, <2>1, <2>2, <2>3, <2>4, IncreasingConcat DEF InOrder
  <2>7. Before(got'[d], rest) /\ Before(got'[d], hand) /\ Before(got'[d], frames)
    BY <1>2, <1>5, <2>1, <2>2, <2>3, <2>4, BeforeConcat DEF InOrder
  <2>8. UpTo(got'[d], pushed)
    BY <1>2, <1>5, <2>1, <2>2, <2>5, UpToConcat DEF InOrder
  <2> QED BY <1>1, <2>2, <2>3, <2>4, <2>5, <2>6, <2>7, <2>8 DEF InOrder
<1>11. ASSUME NEW c \in Clients, c # d PROVE InOrder(c)'
  <2>1. got'[c] = got[c] /\ inbox'[c] = inbox[c]
    BY <1>2, <1>6, <1>7, <1>11
  <2> QED BY <1>1, <1>3, <2>1 DEF InOrder
<1> QED BY <1>1, <1>2, <1>3, <1>9, <1>10, <1>11 DEF HubInv, HubSequences

\* A frame is lost, or all that waited are.
LEMMA SendFailsInOrder ==
  ASSUME HubInv, NEW d \in Clients, SendFails(d)
  PROVE  HubInv'
<1> DEFINE first == <<Head(inbox[d])>>
           rest  == Tail(inbox[d])
<1>1. hand' = hand /\ frames' = frames /\ pushed' = pushed /\ got' = got
      /\ (inbox' = [inbox EXCEPT ![d] = rest] \/ inbox' = [inbox EXCEPT ![d] = <<>>])
  BY DEF SendFails, producerVars
<1>2. /\ frames \in Frames /\ hand \in Frames /\ pushed \in Nat
      /\ inbox \in [Clients -> Frames] /\ got \in [Clients -> Frames]
  BY DEF HubInv, HubSequences
<1>3. /\ Increasing(hand) /\ Increasing(frames) /\ Before(hand, frames)
      /\ UpTo(hand, pushed) /\ UpTo(frames, pushed)
      /\ \A c \in Clients : InOrder(c)
  BY DEF HubInv
<1>4. inbox[d] # <<>>
  BY DEF SendFails
<1>5. first \in Frames /\ rest \in Frames /\ inbox[d] = first \o rest
  BY <1>2, <1>4, HeadThenTail
<1> HIDE DEF first, rest
<1>6. /\ Increasing(rest) /\ Before(got[d], rest) /\ UpTo(rest, pushed)
      /\ Before(rest, hand) /\ Before(rest, frames)
  <2>1. InOrder(d) /\ got[d] \in Frames
    BY <1>2, <1>3
  <2>2. Increasing(rest)
    BY <1>5, <2>1, IncreasingConcat DEF InOrder
  <2>3. Before(got[d], rest) /\ Before(rest, hand) /\ Before(rest, frames)
    BY <1>2, <1>5, <2>1, BeforeConcat DEF InOrder
  <2>4. UpTo(rest, pushed)
    BY <1>2, <1>5, <2>1, UpToConcat DEF InOrder
  <2> QED BY <2>2, <2>3, <2>4
<1>7. inbox' \in [Clients -> Frames]
  BY <1>1, <1>2, <1>5, SmallSequences
<1>8. ASSUME NEW c \in Clients PROVE InOrder(c)'
  <2>1. inbox'[c] = inbox[c] \/ inbox'[c] = <<>> \/ (c = d /\ inbox'[c] = rest)
    BY <1>1, <1>2
  <2>2. got[c] \in Frames /\ InOrder(c)
    BY <1>2, <1>3
  <2>3. /\ Increasing(<<>>) /\ Before(got[c], <<>>) /\ UpTo(<<>>, pushed)
        /\ Before(<<>>, hand) /\ Before(<<>>, frames)
    BY <1>2, <2>2, SmallSequences
  <2> QED BY <1>1, <1>6, <2>1, <2>2, <2>3 DEF InOrder
<1> QED BY <1>1, <1>2, <1>3, <1>7, <1>8 DEF HubInv, HubSequences

LEMMA NextHubInv ==
  ASSUME HubInv, [HubNext]_hubVars
  PROVE  HubInv'
<1>1. CASE UNCHANGED <<pushed, frames, hand, inbox, got>>
  BY <1>1 DEF HubInv, HubSequences, InOrder
<1>2. CASE CountFrame \/ StopHub
  BY <1>1, <1>2 DEF CountFrame, StopHub
<1>3. CASE Push
  BY <1>3, PushInOrder
<1>4. CASE TakeFrame
  BY <1>4, TakeInOrder
<1>5. CASE BroadcastFrame
  BY <1>5, BroadcastInOrder
<1>6. CASE \E c \in Clients : Connect(c) \/ EndForward(c) \/ Close(c) \/ Unregister(c)
  BY <1>1, <1>6 DEF Connect, EndForward, Close, Unregister, producerVars
<1>7. CASE \E c \in Clients : Forward(c)
  BY <1>7, ForwardInOrder
<1>8. CASE \E c \in Clients : SendFails(c)
  BY <1>8, SendFailsInOrder
<1>9. CASE UNCHANGED hubVars
  BY <1>1, <1>9 DEF hubVars, producerVars
<1> QED BY <1>2, <1>3, <1>4, <1>5, <1>6, <1>7, <1>8, <1>9 DEF HubNext

\* Whatever clients connect, leave and are moved about in the vector, no client
\* gets a frame twice or a frame after a later one
\* (broadcast_to_clients, unregister_client).
THEOREM FramesInOrderHolds == HubSpec => []FramesInOrder
<1>1. HubInit => HubInv
  BY InitHubInv
<1>2. HubInv /\ [HubNext]_hubVars => HubInv'
  BY NextHubInv
<1>3. HubInv => FramesInOrder
  <2> SUFFICES ASSUME HubInv, NEW c \in Clients
               PROVE  Increasing(got[c] \o inbox[c] \o hand \o frames)
    BY DEF FramesInOrder
  <2> DEFINE s == got[c] \o inbox[c]
             t == s \o hand
  <2>1. got[c] \in Frames /\ inbox[c] \in Frames /\ hand \in Frames /\ frames \in Frames
    BY DEF HubInv, HubSequences
  <2>2. s \in Frames /\ t \in Frames
    BY <2>1 DEF Frames
  <2>3. InOrder(c) /\ Increasing(hand) /\ Increasing(frames) /\ Before(hand, frames)
    BY DEF HubInv
  <2>4. Increasing(s) /\ Before(s, hand) /\ Before(s, frames)
    BY <2>1, <2>3, IncreasingConcat, BeforeConcat DEF InOrder
  <2> HIDE DEF s
  <2>5. Increasing(t) /\ Before(t, frames)
    BY <2>1, <2>2, <2>3, <2>4, IncreasingConcat, BeforeConcat
  <2> HIDE DEF t
  <2>6. Increasing(t \o frames)
    BY <2>1, <2>2, <2>3, <2>5, IncreasingConcat
  <2> QED BY <2>6 DEF s, t
<1> QED BY <1>1, <1>2, <1>3, PTL DEF HubSpec

-----------------------------------------------------------------------------
(* The hub's limits.  A frame that was sent and not counted yet is one of   *)
(* the pushed ones, and clients come and go one at a time.                  *)

PushedCounted == sequence <= pushed /\ (counting => sequence < pushed)

HubLimits ==
  /\ HubTypeOK /\ PushedCounted
  /\ registered \in Seq(Clients)
  /\ hand \in Frames /\ frames \in Frames /\ inbox \in [Clients -> Frames]

\* swap_remove of a place in the vector leaves one client fewer.
LEMMA SwapRemoveShortens ==
  ASSUME NEW s \in Seq(Clients), NEW i \in Nat, i < Len(s)
  PROVE  SwapRemove(s, i) \in Seq(Clients) /\ Len(SwapRemove(s, i)) = Len(s) - 1
<1> DEFINE moved == [s EXCEPT ![i + 1] = s[Len(s)]]
<1>1. Len(s) \in Nat \ {0} /\ i + 1 \in 1..Len(s) /\ s[Len(s)] \in Clients
  OBVIOUS
<1>2. moved \in Seq(Clients) /\ Len(moved) = Len(s)
  BY <1>1
<1> HIDE DEF moved
<1>3. SubSeq(moved, 1, Len(s) - 1) \in Seq(Clients) /\ Len(SubSeq(moved, 1, Len(s) - 1)) = Len(s) - 1
  BY <1>1, <1>2
<1> QED BY <1>3 DEF SwapRemove, moved

\* How long the sequences are that the hub makes of a sequence.
LEMMA Lengths ==
  ASSUME NEW T, NEW s \in Seq(T)
  PROVE  /\ Len(s) \in Nat /\ <<>> \in Seq(T) /\ Len(<<>>) = 0
         /\ s # <<>> => /\ Len(s) >= 1
                        /\ <<Head(s)>> \in Seq(T) /\ Len(<<Head(s)>>) = 1
                        /\ Tail(s) \in Seq(T) /\ Len(Tail(s)) = Len(s) - 1
         /\ \A x \in T : Append(s, x) \in Seq(T) /\ Len(Append(s, x)) = Len(s) + 1
         /\ \A t \in Seq(T) : s \o t \in Seq(T) /\ Len(s \o t) = Len(s) + Len(t)
<1>1. Len(s) \in Nat /\ <<>> \in Seq(T) /\ Len(<<>>) = 0
  OBVIOUS
<1>2. ASSUME s # <<>>
      PROVE  /\ Len(s) >= 1 /\ <<Head(s)>> \in Seq(T) /\ Len(<<Head(s)>>) = 1
             /\ Tail(s) \in Seq(T) /\ Len(Tail(s)) = Len(s) - 1
  BY <1>2
<1>3. \A x \in T : Append(s, x) \in Seq(T) /\ Len(Append(s, x)) = Len(s) + 1
  OBVIOUS
<1>4. \A t \in Seq(T) : s \o t \in Seq(T) /\ Len(s \o t) = Len(s) + Len(t)
  OBVIOUS
<1> QED BY <1>1, <1>2, <1>3, <1>4

LEMMA NextHubLimits ==
  ASSUME HubLimits, [HubNext]_hubVars
  PROVE  HubLimits'
<1> USE DEF producerVars, socketVars
<1> DEFINE Sockets == {"none", "open", "closing", "closed", "rejected"}
<1>a. /\ live \in BOOLEAN /\ counting \in BOOLEAN
      /\ pushed \in Nat /\ sequence \in Nat /\ pushed <= MaxFrames
      /\ sequence <= pushed /\ (counting => sequence < pushed)
      /\ MaxFrames \in Nat /\ BufferCapacity \in Nat /\ InboxCapacity \in Nat /\ MaxClients \in Nat
  BY HubAssumption DEF HubLimits, HubTypeOK, PushedCounted
<1>b. /\ frames \in Seq(Nat) /\ hand \in Seq(Nat)
      /\ Len(frames) <= BufferCapacity /\ Len(hand) <= 1
  BY DEF HubLimits, HubTypeOK, Frames
<1>c. registered \in Seq(Clients) /\ Len(registered) <= MaxClients
  BY DEF HubLimits, HubTypeOK
<1>d. /\ socket \in [Clients -> Sockets] /\ hubId \in [Clients -> 0..MaxFrames]
      /\ sending \in [Clients -> BOOLEAN]
  BY DEF HubLimits, HubTypeOK
<1>e. /\ inbox \in [Clients -> Seq(Nat)]
      /\ \A c \in Clients : Len(inbox[c]) <= InboxCapacity
  BY DEF HubLimits, HubTypeOK, Frames
<1>f. SUFFICES
        /\ /\ live' \in BOOLEAN /\ counting' \in BOOLEAN
           /\ pushed' \in 0..MaxFrames /\ sequence' \in 0..MaxFrames
           /\ sequence' <= pushed' /\ (counting' => sequence' < pushed')
        /\ /\ frames' \in Seq(Nat) /\ hand' \in Seq(Nat)
           /\ Len(frames') <= BufferCapacity /\ Len(hand') <= 1
        /\ registered' \in Seq(Clients) /\ Len(registered') <= MaxClients
        /\ socket' \in [Clients -> Sockets] /\ hubId' \in [Clients -> 0..MaxFrames]
        /\ sending' \in [Clients -> BOOLEAN]
        /\ inbox' \in [Clients -> Seq(Nat)]
        /\ \A c \in Clients : Len(inbox'[c]) <= InboxCapacity
  BY DEF HubLimits, HubTypeOK, PushedCounted, Frames
<1> HIDE DEF Sockets
<1>1. CASE Push
  <2>1. /\ live' = live /\ pushed' = pushed + 1 /\ pushed' <= MaxFrames /\ sequence' = sequence
        /\ \/ frames' = Append(frames, pushed') /\ Len(frames) < BufferCapacity /\ counting' = TRUE
           \/ frames' = frames /\ counting' = counting
        /\ ~counting /\ UNCHANGED <<hand, registered, socket, hubId, sending, inbox>>
    BY <1>1, <1>a DEF Push
  <2>2. pushed' \in Nat
    BY <2>1, <1>a
  <2>3. /\ Append(frames, pushed') \in Seq(Nat)
        /\ Len(Append(frames, pushed')) = Len(frames) + 1 /\ Len(frames) \in Nat
    BY <2>2, <1>b, Lengths
  <2>4. frames' \in Seq(Nat) /\ Len(frames') <= BufferCapacity
    <3>1. CASE frames' = Append(frames, pushed') /\ Len(frames) < BufferCapacity
      BY <2>3, <3>1, <1>a
    <3>2. CASE frames' = frames
      BY <3>2, <1>b
    <3> QED BY <2>1, <3>1, <3>2
  <2>5. /\ pushed' \in 0..MaxFrames /\ sequence' \in 0..MaxFrames
        /\ sequence' <= pushed' /\ sequence' < pushed'
    BY <2>1, <2>2, <1>a
  <2>6. counting' \in BOOLEAN /\ live' \in BOOLEAN
    BY <2>1, <1>a
  <2> QED BY <2>1, <2>4, <2>5, <2>6, <1>b, <1>c, <1>d, <1>e
<1>2. CASE CountFrame
  <2>1. counting /\ counting' = FALSE /\ sequence' = sequence + 1
        /\ UNCHANGED <<live, pushed, frames, hand, registered, socket, hubId, sending, inbox>>
    BY <1>2 DEF CountFrame
  <2>2. /\ pushed' \in 0..MaxFrames /\ sequence' \in 0..MaxFrames
        /\ sequence' <= pushed' /\ (counting' => sequence' < pushed')
    BY <2>1, <1>a
  <2> QED BY <2>1, <2>2, <1>a, <1>b, <1>c, <1>d, <1>e
<1>3. CASE StopHub
  <2>1. live' = FALSE
        /\ UNCHANGED <<pushed, counting, sequence, frames, hand, registered, socket, hubId, sending, inbox>>
    BY <1>3 DEF StopHub
  <2>2. /\ pushed' \in 0..MaxFrames /\ sequence' \in 0..MaxFrames
        /\ sequence' <= pushed' /\ (counting' => sequence' < pushed')
    BY <2>1, <1>a
  <2>3. live' \in BOOLEAN /\ counting' \in BOOLEAN
    BY <2>1, <1>a
  <2> QED BY <2>1, <2>2, <2>3, <1>b, <1>c, <1>d, <1>e
<1>4. CASE TakeFrame
  <2>1. /\ frames # <<>> /\ hand' = <<Head(frames)>> /\ frames' = Tail(frames)
        /\ UNCHANGED <<live, pushed, counting, sequence, registered, socket, hubId, sending, inbox>>
    BY <1>4 DEF TakeFrame
  <2>2. /\ <<Head(frames)>> \in Seq(Nat) /\ Len(<<Head(frames)>>) = 1
        /\ Tail(frames) \in Seq(Nat) /\ Len(Tail(frames)) = Len(frames) - 1
    BY <2>1, <1>b, Lengths
  <2>3. Len(frames') <= BufferCapacity
    <3>1. Len(frames) \in Nat
      BY <1>b
    <3> QED BY <2>1, <2>2, <3>1, <1>a, <1>b
  <2> QED BY <2>1, <2>2, <2>3, <1>a, <1>c, <1>d, <1>e
<1>5. CASE BroadcastFrame
  <2>1. /\ hand # <<>> /\ hand' = <<>>
        /\ inbox' = [c \in Clients |->
             IF IsRegistered(c) /\ sending[c] /\ Len(inbox[c]) < InboxCapacity
             THEN inbox[c] \o hand ELSE inbox[c]]
        /\ UNCHANGED <<live, pushed, counting, sequence, frames, registered, socket, hubId, sending>>
    BY <1>5 DEF BroadcastFrame
  <2>2. Len(hand) = 1 /\ hand' \in Seq(Nat) /\ Len(hand') = 0
    <3>1. Len(hand) >= 1 /\ Len(hand) \in Nat
      BY <2>1, <1>b, Lengths
    <3>2. Len(hand) = 1
      <4>1. Len(hand) <= 1
        BY <1>b
      <4> QED BY <3>1, <4>1
    <3> QED BY <2>1, <3>2, <1>b, Lengths
  <2>3. ASSUME NEW c \in Clients
        PROVE  inbox'[c] \in Seq(Nat) /\ Len(inbox'[c]) <= InboxCapacity
    <3>1. inbox'[c] = inbox[c] \/ (Len(inbox[c]) < InboxCapacity /\ inbox'[c] = inbox[c] \o hand)
      BY <2>1
    <3>2. inbox[c] \in Seq(Nat) /\ Len(inbox[c]) \in Nat /\ Len(inbox[c]) <= InboxCapacity
      BY <1>e
    <3>3. inbox[c] \o hand \in Seq(Nat) /\ Len(inbox[c] \o hand) = Len(inbox[c]) + 1
      <4>1. /\ inbox[c] \o hand \in Seq(Nat)
            /\ Len(inbox[c] \o hand) = Len(inbox[c]) + Len(hand)
        BY <3>2, <1>b, Lengths
      <4> QED BY <2>2, <4>1
    <3>4. CASE Len(inbox[c]) < InboxCapacity /\ inbox'[c] = inbox[c] \o hand
      BY <3>2, <3>3, <3>4, <1>a
    <3>5. CASE inbox'[c] = inbox[c]
      BY <3>2, <3>5
    <3> QED BY <3>1, <3>4, <3>5
  <2>4. inbox' \in [Clients -> Seq(Nat)]
    BY <2>1, <2>3
  <2> QED BY <2>1, <2>2, <2>3, <2>4, <1>a, <1>b, <1>c, <1>d
<1>6. ASSUME NEW c \in Clients, Connect(c)
      PROVE  /\ UNCHANGED <<live, pushed, counting, sequence, frames, hand, inbox>>
             /\ registered' \in Seq(Clients) /\ Len(registered') <= MaxClients
             /\ socket' \in [Clients -> Sockets] /\ hubId' \in [Clients -> 0..MaxFrames]
             /\ sending' \in [Clients -> BOOLEAN]
  <2>1. /\ UNCHANGED <<live, pushed, counting, sequence, frames, hand, inbox>>
        /\ \/ registered' = registered
           \/ Len(registered) < MaxClients /\ registered' = Append(registered, c)
        /\ socket' = [socket EXCEPT ![c] = "rejected"] \/ socket' = [socket EXCEPT ![c] = "open"]
        /\ hubId' = hubId \/ hubId' = [hubId EXCEPT ![c] = sequence]
        /\ sending' = sending \/ sending' = [sending EXCEPT ![c] = TRUE]
    <3>1. Len(registered) \in Nat
      BY <1>c
    <3> QED BY <1>6, <1>a, <3>1 DEF Connect
  <2>2. /\ Append(registered, c) \in Seq(Clients)
        /\ Len(Append(registered, c)) = Len(registered) + 1 /\ Len(registered) \in Nat
    BY <1>c
  <2>3. registered' \in Seq(Clients) /\ Len(registered') <= MaxClients
    BY <2>1, <2>2, <1>a, <1>c
  <2>4. sequence \in 0..MaxFrames
    BY <1>a
  <2> QED BY <2>1, <2>3, <2>4, <1>d DEF Sockets
<1>7. ASSUME NEW c \in Clients,
             Forward(c) \/ SendFails(c) \/ EndForward(c) \/ Close(c) \/ Unregister(c)
      PROVE  /\ UNCHANGED <<live, pushed, counting, sequence, frames, hand, hubId>>
             /\ registered' \in Seq(Clients) /\ Len(registered') <= MaxClients
             /\ socket' \in [Clients -> Sockets] /\ sending' \in [Clients -> BOOLEAN]
             /\ inbox' \in [Clients -> Seq(Nat)]
             /\ \A d \in Clients : Len(inbox'[d]) <= InboxCapacity
  <2>1. /\ UNCHANGED <<live, pushed, counting, sequence, frames, hand, hubId>>
        /\ \/ socket' = socket \/ socket' = [socket EXCEPT ![c] = "closing"]
           \/ socket' = [socket EXCEPT ![c] = "closed"]
        /\ sending' = sending \/ sending' = [sending EXCEPT ![c] = FALSE]
        /\ \/ registered' = registered
           \/ hubId[c] < Len(registered) /\ registered' = SwapRemove(registered, hubId[c])
        /\ \/ inbox' = inbox \/ inbox' = [inbox EXCEPT ![c] = <<>>]
           \/ inbox[c] # <<>> /\ inbox' = [inbox EXCEPT ![c] = Tail(inbox[c])]
    BY <1>7 DEF Forward, SendFails, EndForward, Close, Unregister
  <2>2. registered' \in Seq(Clients) /\ Len(registered') <= MaxClients
    <3>1. hubId[c] \in Nat /\ Len(registered) \in Nat
      BY <1>c, <1>d
    <3>2. CASE hubId[c] < Len(registered) /\ registered' = SwapRemove(registered, hubId[c])
      BY <1>a, <1>c, <3>1, <3>2, SwapRemoveShortens
    <3> QED BY <2>1, <3>2, <1>c
  <2>3. socket' \in [Clients -> Sockets] /\ sending' \in [Clients -> BOOLEAN]
    BY <2>1, <1>d DEF Sockets
  <2>4. /\ inbox[c] # <<>> => Tail(inbox[c]) \in Seq(Nat) /\ Len(Tail(inbox[c])) <= InboxCapacity
        /\ <<>> \in Seq(Nat) /\ Len(<<>>) <= InboxCapacity
    <3>1. inbox[c] \in Seq(Nat) /\ Len(inbox[c]) \in Nat /\ Len(inbox[c]) <= InboxCapacity
      BY <1>e
    <3>2. inbox[c] # <<>> => Tail(inbox[c]) \in Seq(Nat) /\ Len(Tail(inbox[c])) = Len(inbox[c]) - 1
      BY <3>1
    <3>3. <<>> \in Seq(Nat) /\ Len(<<>>) = 0
      OBVIOUS
    <3> QED BY <3>1, <3>2, <3>3, <1>a
  <2>5. inbox' \in [Clients -> Seq(Nat)] /\ \A d \in Clients : Len(inbox'[d]) <= InboxCapacity
    BY <2>1, <2>4, <1>e
  <2> QED BY <2>1, <2>2, <2>3, <2>5
<1>8. CASE \E c \in Clients :
             Connect(c) \/ Forward(c) \/ SendFails(c) \/ EndForward(c) \/ Close(c) \/ Unregister(c)
  <2>1. CASE \E c \in Clients : Connect(c)
    BY <1>6, <2>1, <1>a, <1>b, <1>e
  <2>2. CASE \E c \in Clients :
               Forward(c) \/ SendFails(c) \/ EndForward(c) \/ Close(c) \/ Unregister(c)
    BY <1>7, <2>2, <1>a, <1>b, <1>d
  <2> QED BY <1>8, <2>1, <2>2
<1>9. CASE UNCHANGED hubVars
  BY <1>9, <1>a, <1>b, <1>c, <1>d, <1>e DEF hubVars
<1> QED BY <1>1, <1>2, <1>3, <1>4, <1>5, <1>8, <1>9 DEF HubNext

\* No channel and not the vector of clients ever holds more than its capacity,
\* the loop one frame at a time, and no frame is counted that was not pushed
\* (push, register_client, broadcast_to_clients).
THEOREM HubTypeCorrect == HubSpec => []HubTypeOK
<1>1. HubInit => HubLimits
  <2> SUFFICES ASSUME HubInit PROVE HubLimits
    OBVIOUS
  <2>1. /\ frames = <<>> /\ hand = <<>> /\ registered = <<>> /\ counting = FALSE
        /\ pushed = 0 /\ sequence = 0 /\ live = TRUE
        /\ inbox = [c \in Clients |-> <<>>] /\ hubId = [c \in Clients |-> 0]
        /\ socket = [c \in Clients |-> "none"] /\ sending = [c \in Clients |-> FALSE]
    BY DEF HubInit
  <2>2. <<>> \in Seq(Nat) /\ <<>> \in Seq(Clients) /\ Len(<<>>) = 0
    OBVIOUS
  <2>3. /\ 0 \in 0..MaxFrames /\ Len(<<>>) <= BufferCapacity /\ Len(<<>>) <= 1
        /\ Len(<<>>) <= MaxClients /\ Len(<<>>) <= InboxCapacity
    BY <2>2, HubAssumption
  <2>4. PushedCounted
    BY <2>1 DEF PushedCounted
  <2>5. HubTypeOK
    BY <2>1, <2>3 DEF HubTypeOK
  <2> QED BY <2>1, <2>2, <2>4, <2>5 DEF HubLimits, Frames
<1>2. HubLimits /\ [HubNext]_hubVars => HubLimits'
  BY NextHubLimits
<1>3. HubLimits => HubTypeOK
  BY DEF HubLimits
<1> QED BY <1>1, <1>2, <1>3, PTL DEF HubSpec

-----------------------------------------------------------------------------
(***************************************************************************)
(* LeaderDetection, for any nodes, terms, timeout and number of misses.    *)
(*                                                                         *)
(* The argument: whatever makes the followed leader younger also makes     *)
(* quiet 0 (QuietAsLong), and whatever raises the count of misses is a     *)
(* check (MissesAreChecks), whose count is cut off at max_missed_heartbeats *)
(* where that of the misses never goes on, for the alarm forgets the       *)
(* leader.  Neither compares terms: a reset to an older term clears the    *)
(* leader and the misses, and disturbs neither.                            *)
(***************************************************************************)

QuietAsLong == \A n \in Monitors : Heard(n) => age[n][monLeader[n]] <= quiet[n]

MissesAreChecks ==
  \A n \in Monitors :
    /\ missed[n] <= checks[n]
    /\ monLeader[n] # NoLeader => missed[n] < MaxMissed

DetectionInv == DetectionTypeOK /\ QuietAsLong /\ MissesAreChecks

LEMMA InitDetectionInv == DetectionInit => DetectionInv
  BY MonitorAssumption DEF DetectionInit, MonitorInit, DetectionInv, DetectionTypeOK, QuietAsLong,
     MissesAreChecks, Heard, NoLeader, Late, Never

LEMMA HeartbeatKeeps ==
  ASSUME DetectionInv, NEW n \in Monitors, NEW l \in Leaders, NEW t \in 0..MaxTerm, Heartbeat(n, l, t)
  PROVE  DetectionInv'
<1>a. age \in [Monitors -> [Leaders -> 0..Never]] /\ 0 \in 0..Never
  BY MonitorAssumption DEF DetectionInv, DetectionTypeOK, Late, Never
<1>b. ASSUME t >= monTerm[n] PROVE age' \in [Monitors -> [Leaders -> 0..Never]]
  <2>1. age' = [age EXCEPT ![n] = [age[n] EXCEPT ![l] = 0]]
    BY <1>b DEF Heartbeat, RecordHeartbeat
  <2>2. [age[n] EXCEPT ![l] = 0] \in [Leaders -> 0..Never]
    BY <1>a
  <2> QED BY <1>a, <2>1, <2>2
<1> USE MonitorAssumption DEF DetectionInv, DetectionTypeOK, Heartbeat, RecordHeartbeat, monitorVars,
        NoLeader, Late, Never
<1>1. CASE t >= monTerm[n]
  <2>a. age' \in [Monitors -> [Leaders -> 0..Never]]
    BY <1>1, <1>b
  <2>b. /\ monTerm' \in [Monitors -> 0..MaxTerm] /\ monLeader' \in [Monitors -> Leaders \union {NoLeader}]
        /\ missed' \in [Monitors -> 0..MaxMissed]
    <3>1. /\ monTerm' = [monTerm EXCEPT ![n] = t] /\ monLeader' = [monLeader EXCEPT ![n] = l]
          /\ missed' = [missed EXCEPT ![n] = 0] /\ 0 \in 0..MaxMissed
      BY <1>1
    <3> QED BY <3>1
  <2>c. quiet' \in [Monitors -> 0..Late] /\ checks' \in [Monitors -> 0..MaxMissed]
    <3>1. /\ quiet' = [quiet EXCEPT ![n] = 0] /\ checks' = [checks EXCEPT ![n] = 0]
          /\ 0 \in 0..Late /\ 0 \in 0..MaxMissed
      BY <1>1
    <3> QED BY <3>1
  <2>d. alarmed' \in [Monitors -> BOOLEAN] /\ leading' \in [Monitors -> BOOLEAN]
    BY <1>1
  <2>1. DetectionTypeOK'
    BY <2>a, <2>b, <2>c, <2>d
  <2>2. QuietAsLong'
    BY <1>1 DEF QuietAsLong, Heard
  <2>3. MissesAreChecks'
    BY <1>1 DEF MissesAreChecks
  <2> QED BY <2>1, <2>2, <2>3
<1>2. CASE ~(t >= monTerm[n])
  BY <1>2 DEF QuietAsLong, Heard, MissesAreChecks
<1> QED BY <1>1, <1>2

\* A reset to any term forgets the leader and the misses.
LEMMA ResetForgets ==
  ASSUME DetectionInv, NEW n \in Monitors, NEW t \in 0..MaxTerm, Reset(n, t)
  PROVE  /\ monTerm' \in [Monitors -> 0..MaxTerm]
         /\ monLeader' = [monLeader EXCEPT ![n] = NoLeader]
         /\ missed' = [missed EXCEPT ![n] = 0]
         /\ age' \in [Monitors -> [Leaders -> 0..Never]]
         /\ \A m \in Monitors \ {n} : age'[m] = age[m]
BY MonitorAssumption DEF DetectionInv, DetectionTypeOK, Reset, Late, Never

\* A check counts at most one miss, and an alarm resets the monitor.
LEMMA CheckKeeps ==
  ASSUME DetectionInv, NEW n \in Monitors, Check(n)
  PROVE  DetectionInv'
<1> USE MonitorAssumption DEF DetectionInv
<1>a. checks' \in [Monitors -> 0..MaxMissed] /\ alarmed' \in [Monitors -> BOOLEAN]
      /\ leading' = leading /\ quiet' = quiet
  <2>1. (alarmed[n] \/ Alarm(n)) \in BOOLEAN
    OBVIOUS
  <2> QED BY <2>1 DEF Check, DetectionTypeOK
<1>b. checks' = [checks EXCEPT ![n] = IF checks[n] < MaxMissed THEN checks[n] + 1 ELSE checks[n]]
  BY DEF Check
<1>1. CASE Alarm(n)
  <2>1. PICK t \in 1..MaxTerm : Reset(n, t)
    BY <1>1 DEF Check, StartElection
  <2>2. /\ monTerm' \in [Monitors -> 0..MaxTerm]
        /\ monLeader' = [monLeader EXCEPT ![n] = NoLeader]
        /\ missed' = [missed EXCEPT ![n] = 0]
        /\ age' \in [Monitors -> [Leaders -> 0..Never]]
        /\ \A m \in Monitors \ {n} : age'[m] = age[m]
    BY <2>1, ResetForgets
  <2>3. DetectionTypeOK'
    BY <1>a, <2>2 DEF DetectionTypeOK
  <2>4. QuietAsLong'
    BY <1>a, <2>2 DEF DetectionTypeOK, QuietAsLong, Heard
  <2>5. MissesAreChecks'
    BY <1>b, <2>2 DEF DetectionTypeOK, MissesAreChecks
  <2> QED BY <2>3, <2>4, <2>5
<1>2. CASE ~Alarm(n)
  <2>1. CheckLeaderTimeout(n)
    BY <1>2 DEF Check
  <2>2. /\ missed[n] \in 0..MaxMissed /\ checks[n] \in 0..MaxMissed
        /\ IsLate(n) => missed[n] + 1 < MaxMissed
    BY <1>2 DEF DetectionTypeOK, Alarm
  <2>3. DetectionTypeOK'
    BY <1>a, <2>1, <2>2 DEF DetectionTypeOK, CheckLeaderTimeout
  <2>4. QuietAsLong'
    BY <1>a, <1>2, <2>1 DEF DetectionTypeOK, QuietAsLong, Heard, CheckLeaderTimeout
  <2>5. MissesAreChecks'
    BY <1>b, <1>2, <2>1, <2>2 DEF DetectionTypeOK, MissesAreChecks, CheckLeaderTimeout
  <2> QED BY <2>3, <2>4, <2>5
<1> QED BY <1>1, <1>2

LEMMA StepDownKeeps ==
  ASSUME DetectionInv, NEW n \in Monitors, NEW t \in 0..MaxTerm, StepDown(n, t)
  PROVE  DetectionInv'
<1>1. /\ monTerm' \in [Monitors -> 0..MaxTerm]
      /\ monLeader' = [monLeader EXCEPT ![n] = NoLeader]
      /\ missed' = [missed EXCEPT ![n] = 0]
      /\ age' \in [Monitors -> [Leaders -> 0..Never]]
      /\ \A m \in Monitors \ {n} : age'[m] = age[m]
      /\ leading' = [leading EXCEPT ![n] = FALSE] /\ UNCHANGED <<quiet, checks, alarmed>>
  BY ResetForgets DEF StepDown
<1> USE MonitorAssumption DEF DetectionInv
<1>2. DetectionTypeOK'
  BY <1>1 DEF DetectionTypeOK
<1>3. QuietAsLong'
  BY <1>1 DEF DetectionTypeOK, QuietAsLong, Heard
<1>4. MissesAreChecks'
  BY <1>1 DEF DetectionTypeOK, MissesAreChecks
<1> QED BY <1>2, <1>3, <1>4

LEMMA BecomeLeaderKeeps ==
  ASSUME DetectionInv, NEW n \in Monitors, BecomeLeader(n)
  PROVE  DetectionInv'
BY DEF DetectionInv, DetectionTypeOK, QuietAsLong, MissesAreChecks, Heard, BecomeLeader, monitorVars

LEMMA ResponseKeeps ==
  ASSUME DetectionInv, NEW n \in Monitors, NEW f \in Leaders \ {n}, NEW t \in 0..MaxTerm,
         Response(n, f, t)
  PROVE  DetectionInv'
<1> USE MonitorAssumption DEF DetectionInv, DetectionTypeOK, Response, ProcessHeartbeatResponse,
        NoLeader, Late, Never
<1>1. DetectionTypeOK'
  OBVIOUS
<1>2. QuietAsLong'
  BY DEF QuietAsLong, Heard
<1>3. MissesAreChecks'
  BY DEF MissesAreChecks
<1> QED BY <1>1, <1>2, <1>3

LEMMA TimeKeeps ==
  ASSUME DetectionInv, TimePasses
  PROVE  DetectionInv'
<1> USE MonitorAssumption DEF DetectionInv, DetectionTypeOK, TimePasses, MonitorTick, Older,
        NoLeader, Late, Never
<1>1. DetectionTypeOK'
  OBVIOUS
<1>2. QuietAsLong'
  BY DEF QuietAsLong, Heard
<1>3. MissesAreChecks'
  BY DEF MissesAreChecks
<1> QED BY <1>1, <1>2, <1>3

LEMMA NextDetectionInv == DetectionInv /\ [DetectionNext]_detectionVars => DetectionInv'
<1> SUFFICES ASSUME DetectionInv, UNCHANGED detectionVars PROVE DetectionInv'
  BY HeartbeatKeeps, CheckKeeps, BecomeLeaderKeeps, StepDownKeeps, ResponseKeeps, TimeKeeps
     DEF DetectionNext
<1> QED
  BY DEF DetectionInv, DetectionTypeOK, QuietAsLong, MissesAreChecks, Heard, detectionVars, monitorVars

LEMMA SpecDetectionInv == DetectionSpec => []DetectionInv
  BY InitDetectionInv, NextDetectionInv, PTL DEF DetectionSpec

\* The monitors' counters stay in range; the count of misses does without a
\* bound of its own.
THEOREM DetectionTypeCorrect == DetectionSpec => []DetectionTypeOK
<1>1. DetectionInv => DetectionTypeOK
  BY DEF DetectionInv
<1> QED BY <1>1, SpecDetectionInv, PTL

\* At an alarm the followed leader, and with it everybody, has been silent for
\* longer than the timeout, and this check completes the count.
LEMMA AlarmComesLate ==
  ASSUME DetectionInv, NEW n \in Monitors, Check(n), Alarm(n)
  PROVE  quiet[n] = Late /\ checks'[n] = MaxMissed
<1>1. Heard(n) /\ age[n][monLeader[n]] = Late /\ missed[n] + 1 >= MaxMissed
  BY DEF Alarm, IsLate
<1>2. /\ quiet[n] \in 0..Late /\ missed[n] \in 0..MaxMissed /\ checks[n] \in 0..MaxMissed
      /\ MaxMissed \in Nat /\ Late \in Nat
  BY MonitorAssumption DEF DetectionInv, DetectionTypeOK, Late
<1>3. Late <= quiet[n] /\ missed[n] <= checks[n]
  BY <1>1 DEF DetectionInv, QuietAsLong, MissesAreChecks
<1>4. checks'[n] = IF checks[n] < MaxMissed THEN checks[n] + 1 ELSE checks[n]
  BY DEF Check, DetectionInv, DetectionTypeOK
<1> QED BY <1>1, <1>2, <1>3, <1>4

\* check_leader_timeout returns true, and an election starts, only after a
\* silence longer than the timeout and max_missed_heartbeats checks in it, also
\* when elections and step_down reset monitors to terms older than theirs.
THEOREM AlarmsAreEarned == DetectionSpec => AlarmIsEarned
<1> DEFINE Earned == \A n \in Monitors :
             alarmed'[n] /\ ~alarmed[n] => quiet[n] = Late /\ checks'[n] = MaxMissed
<1>1. DetectionInv /\ [DetectionNext]_detectionVars => Earned
  <2> SUFFICES ASSUME DetectionInv, [DetectionNext]_detectionVars, NEW n \in Monitors,
                      alarmed'[n], ~alarmed[n]
               PROVE  quiet[n] = Late /\ checks'[n] = MaxMissed
    OBVIOUS
  <2> USE DEF DetectionInv, DetectionTypeOK
  <2>1. PICK m \in Monitors : Check(m)
    <3>1. alarmed' # alarmed
      OBVIOUS
    <3>2. ASSUME NEW m \in Monitors, NEW l \in Leaders, NEW t \in 0..MaxTerm, Heartbeat(m, l, t)
          PROVE  FALSE
      BY <3>1, <3>2 DEF Heartbeat
    <3> QED
      BY <3>1, <3>2 DEF DetectionNext, detectionVars, BecomeLeader, StepDown, Response,
            TimePasses
  <2>2. m = n /\ Alarm(n)
    BY <2>1 DEF Check
  <2> QED BY <2>1, <2>2, AlarmComesLate
<1> QED
  BY <1>1, SpecDetectionInv, PTL DEF DetectionSpec, AlarmIsEarned

-----------------------------------------------------------------------------
(* The parts beside each other, for any values of their constants.  The log *)
(* is driven by itself or by its replicas.                                 *)

\* A behaviour of the whole is one of every part that has its variables alone;
\* detection is fair only where it is the part that runs.
LEMMA PartsOfProtocols ==
  MCSpec => /\ Spec /\ RiskSpec /\ BookSpec /\ HubSpec
            /\ DetectionInit /\ [][DetectionNext]_detectionVars
<1>1. MCInit => Init /\ RiskInit /\ BookInit /\ HubInit /\ DetectionInit
  BY DEF MCInit
<1>2. [MCNext]_All =>
        /\ [Next]_vars /\ [RiskNext]_riskVars /\ [BookNext]_bookVars /\ [HubNext]_hubVars
        /\ [DetectionNext]_detectionVars
  BY DEF MCNext, All
<1> QED BY <1>1, <1>2, PTL DEF MCSpec, Spec, RiskSpec, BookSpec, HubSpec

LogAndReplicas == LogTypes /\ Roles /\ ReplicaTypes /\ BoundInv /\ ReplicaBounds

LEMMA LogAndReplicasStep ==
  ASSUME LogAndReplicas, [LogNext]_logVars /\ UNCHANGED ReplicationOnly
  PROVE  LogAndReplicas'
<1> USE DEF LogAndReplicas
<1>1. LogTypes' /\ Roles' /\ BoundInv'
  <2>1. CASE LogNext
    BY <2>1, LogNextIsAnyStep, LogTypesKept, BoundedStep
  <2>2. CASE UNCHANGED logVars
    BY <2>2 DEF logVars, counters, locals, history, LogTypes, Roles, Appending, BoundInv,
       CallsClaimed, CallsCounted, Bounds, InFlight
  <2> QED BY <2>1, <2>2
<1>2. ReplicaTypes'
  BY DEF ReplicationOnly, replicaVars, compactorVars, ReplicaTypes
<1>3. ReplicaBounds'
  BY DEF ReplicationOnly, replicaVars, compactorVars, ReplicaBounds, CompactionBounds,
     CursorBounds, Entries
<1> QED BY <1>1, <1>2, <1>3

\* Whichever part runs, all that it keeps stays in the states the code names.
THEOREM ProtocolsTypeCorrect == MCSpec => []TypesOK
<1>1. MCInit => LogAndReplicas
  BY InitTypes, InitReplicaBounded DEF MCInit, LogAndReplicas
<1>2. LogAndReplicas /\ [MCNext]_All => LogAndReplicas'
  <2> SUFFICES ASSUME LogAndReplicas, [MCNext]_All PROVE LogAndReplicas'
    OBVIOUS
  <2>1. \/ [ReplicationNext]_replicationVars
        \/ [LogNext]_logVars /\ UNCHANGED ReplicationOnly
    BY DEF MCNext, All
  <2> QED BY <2>1, NextTypes, ReplicaBoundedStep, LogAndReplicasStep DEF LogAndReplicas
<1>3. LogAndReplicas => ReplicationTypeOK
  BY BoundedReplicaTypes DEF LogAndReplicas
<1>4. MCSpec => []ReplicationTypeOK
  BY <1>1, <1>2, <1>3, PTL DEF MCSpec
<1>5. TypeOK /\ DetectionTypeOK /\ ReplicationTypeOK /\ RiskTypeOK /\ BookTypeOK /\ HubTypeOK
        => TypesOK
  BY DEF TypesOK
<1>6. DetectionInv => DetectionTypeOK
  BY DEF DetectionInv
<1>7. MCSpec => []DetectionTypeOK
  BY <1>6, PartsOfProtocols, InitDetectionInv, NextDetectionInv, PTL
<1> QED BY <1>4, <1>5, <1>7, PartsOfProtocols, TypeCorrect, RiskTypeCorrect, BookTypeCorrect,
           HubTypeCorrect, PTL
=============================================================================
