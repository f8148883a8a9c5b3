------------------------------ MODULE RiskGate ------------------------------
(***************************************************************************)
(* The pre-trade risk gatekeeper of nexus_risk (gatekeeper/                *)
(* pre_trade_filter.rs with position_accumulator.rs) and the kill switch   *)
(* that flattens the portfolio (kill_switch/flatten_fsm.rs with            *)
(* twap_liquidation_router.rs), for one symbol.                            *)
(*                                                                         *)
(* An order is validated in two steps, the kill switch and the position;   *)
(* everything else validate looks at is data of the order and may reject   *)
(* it.  Approved orders are open at the exchange and fill in parts.        *)
(*                                                                         *)
(* External: the exchange, and the driver of the kill switch, which no     *)
(* file of src/ contains.  It activates the switch, flattens the position  *)
(* the accumulator shows, waits until no order is open, hands what the     *)
(* accumulator then shows to the router and reports every slice's fill.    *)
(***************************************************************************)
EXTENDS Integers

CONSTANTS
  RiskOrders, Deltas,   \* the orders, and what they may do to the position
  MaxPosition,          \* max_position_size
  NumSlices, MinOrder   \* num_slices, min_order_size

ASSUME RiskAssumption ==
  /\ Deltas \subseteq Int \ {0} /\ MaxPosition \in Nat
  /\ NumSlices \in Nat \ {0} /\ MinOrder \in Nat

VARIABLES
  killed,              \* kill_switch_active
  position,            \* the accumulator's net position
  riskOrder,           \* per order: its status, and what is yet to fill
  flatten, toFlatten,  \* FlattenFSM: state, remaining_position
  router,              \* the router: total, remaining, slice, is_long
  overlapped,          \* history: has an order been on its way beside another
                       \*   order or a liquidation?
  stray                \* history: has an order filled since the flattening began?

gatekeeperVars == <<killed, position, riskOrder>>
flattenVars == <<flatten, toFlatten, router>>
riskHistory == <<overlapped, stray>>
riskVars == <<gatekeeperVars, flattenVars, riskHistory>>

Magnitude(i) == IF i < 0 THEN -i ELSE i
Lower(a, b) == IF a < b THEN a ELSE b
OnItsWay(o) == riskOrder[o].status \in {"checking", "open"}
NoRouter == [total |-> 0, left |-> 0, slice |-> 0, long |-> TRUE]

RiskInit ==
  /\ killed = FALSE /\ position = 0
  /\ riskOrder = [o \in RiskOrders |-> [status |-> "new", open |-> 0]]
  /\ flatten = "Trading" /\ toFlatten = 0 /\ router = NoRouter
  /\ overlapped = FALSE /\ stray = FALSE

-----------------------------------------------------------------------------
(* Orders.                                                                 *)

Becomes(o, status, open) ==
  riskOrder' = [riskOrder EXCEPT ![o] = [status |-> status, open |-> open]]

\* validate, up to the load of the kill switch.
Submit(o, d) ==
  /\ riskOrder[o].status = "new"
  /\ IF killed THEN Becomes(o, "over", 0) ELSE Becomes(o, "checking", d)
  /\ overlapped' = (overlapped \/ \E p \in RiskOrders \ {o} : OnItsWay(p))
  /\ UNCHANGED <<killed, position, flattenVars, stray>>

Exceeds(d) == Magnitude(position + d) > MaxPosition

\* The rest of validate.
BugApprove(o) ==
  /\ riskOrder[o].status = "checking"
  /\ \E acceptable \in BOOLEAN :
       IF acceptable /\ Magnitude(position) <= MaxPosition
       THEN Becomes(o, "open", riskOrder[o].open) ELSE Becomes(o, "over", 0)
  /\ UNCHANGED <<killed, position, flattenVars, riskHistory>>
Approve(o) ==
  /\ riskOrder[o].status = "checking"
  /\ \E acceptable \in BOOLEAN :
       IF acceptable /\ ~Exceeds(riskOrder[o].open)
       THEN Becomes(o, "open", riskOrder[o].open) ELSE Becomes(o, "over", 0)
  /\ UNCHANGED <<killed, position, flattenVars, riskHistory>>

\* The exchange fills a part d of the order, and record_fill adds it up.
FillOrder(o, d) ==
  /\ riskOrder[o].status = "open"
  /\ d * riskOrder[o].open > 0 /\ Magnitude(d) <= Magnitude(riskOrder[o].open)
  /\ Becomes(o, IF d = riskOrder[o].open THEN "over" ELSE "open", riskOrder[o].open - d)
  /\ position' = position + d
  /\ stray' = (stray \/ flatten # "Trading")
  /\ UNCHANGED <<killed, flattenVars, overlapped>>

\* record_cancel leaves the position alone.
CancelOrder(o) ==
  /\ riskOrder[o].status = "open"
  /\ Becomes(o, "over", 0)
  /\ UNCHANGED <<killed, position, flattenVars, riskHistory>>

-----------------------------------------------------------------------------
(* The kill switch and the liquidation.                                    *)

ActivateKillSwitch ==
  /\ killed' = TRUE
  /\ UNCHANGED <<position, riskOrder, flattenVars, riskHistory>>

InitiateFlatten ==
  /\ killed /\ flatten = "Trading"
  /\ flatten' = "CancellingOrders" /\ toFlatten' = Magnitude(position)
  /\ stray' = FALSE
  /\ UNCHANGED <<gatekeeperVars, router, overlapped>>

\* begin_twap_liquidation "after all orders cancelled", and initialize.
BeginTWAPLiquidation ==
  /\ flatten = "CancellingOrders"
  /\ \A o \in RiskOrders : riskOrder[o].status # "open"
  /\ flatten' = "TWAPLiquidation"
  /\ router' = [total |-> Magnitude(position), left |-> Magnitude(position),
                slice |-> 0, long |-> position > 0]
  /\ overlapped' = (overlapped \/ \E o \in RiskOrders : OnItsWay(o))
  /\ UNCHANGED <<gatekeeperVars, toFlatten, stray>>

\* next_slice: the quantity, 0 where the code returns None.
BugNextSlice(r) ==
  LET size == IF r.slice >= NumSlices - 1 THEN r.left ELSE r.total \div NumSlices
  IN  IF size < MinOrder THEN MinOrder ELSE Lower(size, r.left)
NextSlice(r) ==
  LET size == IF r.slice >= NumSlices - 1 THEN r.left ELSE r.total \div NumSlices
  IN  IF size < MinOrder /\ r.left >= MinOrder THEN MinOrder ELSE Lower(size, r.left)

\* checked_sub(q).ok(): what is too much leaves the counter as it was.
Less(counter, q) == IF q <= counter THEN counter - q ELSE counter

\* A slice is sent and q of it filled: mark_slice_executed,
\* record_liquidation_fill and record_fill.
ExecuteSlice(q) ==
  /\ flatten = "TWAPLiquidation" /\ router.left > 0
  /\ NextSlice(router) > 0 /\ q \in 0..NextSlice(router)
  /\ router.slice < NumSlices \/ q > 0     \* bound: fruitless slices
  /\ router' = [router EXCEPT !.slice = @ + 1, !.left = Less(@, q)]
  /\ toFlatten' = Less(toFlatten, q)
  /\ position' = position - (IF router.long THEN q ELSE -q)
  /\ UNCHANGED <<killed, riskOrder, flatten, overlapped, stray>>

CheckLiquidationComplete ==
  /\ flatten = "TWAPLiquidation" /\ toFlatten = 0
  /\ flatten' = "FlatAndHalted"
  /\ UNCHANGED <<gatekeeperVars, toFlatten, router, riskHistory>>

\* The manual intervention: both resets, and the switch is deactivated.
ResetAll ==
  /\ flatten # "Trading"
  /\ killed' = FALSE /\ flatten' = "Trading" /\ toFlatten' = 0 /\ router' = NoRouter
  /\ UNCHANGED <<position, riskOrder, riskHistory>>

-----------------------------------------------------------------------------
RiskNext ==
  \/ \E o \in RiskOrders :
       \/ \E d \in Deltas : Submit(o, d)
       \/ Approve(o)
       \/ \E d \in Deltas \union {-1, 1} : FillOrder(o, d)
       \/ CancelOrder(o)
  \/ ActivateKillSwitch \/ InitiateFlatten \/ BeginTWAPLiquidation
  \/ \E q \in 0..router.left + MinOrder : ExecuteSlice(q)
  \/ CheckLiquidationComplete \/ ResetAll

RiskSpec == RiskInit /\ [][RiskNext]_riskVars

\* The same, if the flattening measures the position when no order is on its way.
MeasuredAtRest == flatten = "Trading" /\ flatten' # flatten => \A o \in RiskOrders : ~OnItsWay(o)
RestedSpec == RiskInit /\ [][RiskNext /\ MeasuredAtRest]_riskVars

-----------------------------------------------------------------------------
RiskTypeOK ==
  /\ killed \in BOOLEAN /\ position \in Int
  /\ riskOrder \in [RiskOrders ->
       [status : {"new", "checking", "open", "over"}, open : Int]]
  /\ flatten \in {"Trading", "CancellingOrders", "TWAPLiquidation", "FlatAndHalted"}
  /\ toFlatten \in Nat
  /\ router \in [total : Nat, left : Nat, slice : Nat, long : BOOLEAN]
  /\ overlapped \in BOOLEAN /\ stray \in BOOLEAN

\* The position stays within the limit as long as no order is validated,
\* open or filling beside another or beside a liquidation: validate compares
\* with the filled position only and reserves nothing for what it approved.
OneAtATimeStaysInLimit == ~overlapped => Magnitude(position) <= MaxPosition

\* As long as no order fills after the flattening began, the FSM, the router
\* and the accumulator agree on what is left, and slices never turn the
\* position round; a liquidation that is complete has left nothing.
LiquidationIsExact ==
  ~stray /\ flatten # "Trading" =>
    /\ toFlatten = Magnitude(position)
    /\ flatten # "CancellingOrders" =>
         /\ router.left = toFlatten
         /\ IF router.long THEN position >= 0 ELSE position <= 0

\* "All positions flat, system halted."
FlatIsFlat == flatten = "FlatAndHalted" => position = 0
=============================================================================
