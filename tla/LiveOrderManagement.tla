----------------------- MODULE LiveOrderManagement -----------------------
(***************************************************************************)
(* LiveOrderManagementSystem of nexus_oms (lib.rs): the order tracker      *)
(* (OrderStateMachine), the execution report reconciler                    *)
(* (reconciliation/execution_report_handler.rs, written out here) and the  *)
(* cancel/fill resolver (RaceConditionResolver), composed as the code      *)
(* composes them, and the exchange they talk to.                           *)
(*                                                                         *)
(* The exchange is external.  It works the orders it is sent and appends   *)
(* one report per event to "reports"; the report's place is its sequence   *)
(* number.  Deliver(n) is process_execution_report on report n.  The feed  *)
(* is one of four: "ordered", reports arrive in sequence and only recent  *)
(* ones are sent again; "reordered", they arrive in any order, once each;  *)
(* "unstamped", likewise, and carry the number 0 that the convenience      *)
(* constructors give them; "chaotic", in any order and again.              *)
(***************************************************************************)
EXTENDS Integers, Sequences, FiniteSets, FiniteSetsExt

CONSTANTS
  MaxOrders, Quantities, FillQuantities, Prices, Word, PurgeAfter, MaxTime,
  SeqHistory,       \* max_history of the SequenceTracker
  CancelTimeout,    \* cancel_timeout_ms of the reconciler, in ticks
  ResolverTimeout,  \* cancel_timeout of the resolver, in ticks
  MaxHistory,       \* max_history_size of the resolver
  Feeds,            \* the kinds of feed there may be
  MaxReports,       \* bound on what the exchange reports
  MaxDeliveries,    \* bound on the deliveries of one report
  MaxCancels,       \* bound on cancel requests
  MaxEvents         \* bound on reports and cancel requests together

ASSUME TrackerAssumption ==
  /\ MaxOrders \in Nat \ {0} /\ PurgeAfter \in Nat
  /\ Quantities \subseteq Nat \ {0} /\ FillQuantities \subseteq Nat \ {0}

ASSUME FeedAssumption ==
  /\ SeqHistory \in Nat \ {0} /\ MaxHistory \in Nat
  /\ CancelTimeout \in Nat \ {0} /\ ResolverTimeout \in Nat \ {0}
  /\ Feeds \subseteq {"ordered", "reordered", "unstamped", "chaotic"}
  /\ MaxReports \in Nat /\ MaxCancels \in Nat

VARIABLES
  \* the order tracker
  now, idCounter, active, quantity, filled, remaining, avgPrice, state,
  purgeQueue, totalCreated, totalFilled, totalRejected,
  \* the resolver
  rPending,
  \* the reconciler
  lastSequence,    \* SequenceTracker.last_sequence
  seenSequences,   \* SequenceTracker.seen_sequences, oldest first
  pendingCancels,  \* pending_cancels, a set of [order, at]: nothing asks for
                   \*   their order or number
  \* the exchange and the feed
  feed, exState, exFilled, reports,
  times,           \* how often each report was delivered
  cancels,         \* cancel requests made
  \* history
  applied,         \* how often report n's fill was applied
  verdict          \* what the resolver said of report n when it first came

OSM == INSTANCE OrderStateMachine
Resolver == INSTANCE RaceConditionResolver
              WITH Orders <- OSM!OrderIds

orderState    == <<now, idCounter, active, quantity, filled, remaining,
                   avgPrice, state, purgeQueue,
                   totalCreated, totalFilled, totalRejected>>
trackerVars   == <<lastSequence, seenSequences>>
exchangeVars  == <<feed, exState, exFilled, reports>>
historyVars   == <<times, cancels, applied, verdict>>
vars == <<orderState, rPending, trackerVars, pendingCancels,
          exchangeVars, historyVars>>

OrderIds  == OSM!OrderIds
Terminal  == OSM!Terminal
ReportIds == 1..MaxReports

Init ==
  /\ OSM!Init
  /\ Resolver!ResolverInit
  /\ lastSequence = 0 /\ seenSequences = <<>> /\ pendingCancels = {}
  /\ feed \in Feeds
  /\ exState = [o \in OrderIds |-> "unsent"]
  /\ exFilled = [o \in OrderIds |-> 0]
  /\ reports = <<>>
  /\ times = [n \in ReportIds |-> 0] /\ cancels = 0
  /\ applied = [n \in ReportIds |-> 0]
  /\ verdict = [n \in ReportIds |-> "none"]

-----------------------------------------------------------------------------
(* The reconciler.                                                         *)

\* SequenceTracker::is_duplicate
BugIsDuplicate(seq) ==
  /\ seq <= lastSequence
  /\ lastSequence - seq < SeqHistory - 1
  /\ seq \in {seenSequences[i] : i \in DOMAIN seenSequences}
BugIsDuplicateNoLookup(seq) ==
  seq <= lastSequence /\ lastSequence - seq < SeqHistory
IsDuplicate(seq) ==
  /\ seq <= lastSequence
  /\ lastSequence - seq < SeqHistory
  /\ seq \in {seenSequences[i] : i \in DOMAIN seenSequences}

\* SequenceTracker::record: only a new highest number is remembered.
Record(seq) ==
  IF seq > lastSequence
  THEN /\ lastSequence' = seq
       /\ seenSequences' =
            Append(IF Len(seenSequences) >= SeqHistory THEN Tail(seenSequences)
                                                       ELSE seenSequences, seq)
  ELSE UNCHANGED trackerVars

HasPendingCancel(o) == \E c \in pendingCancels : c.order = o

WithoutCancels(o) == {c \in pendingCancels : c.order # o}

\* A transition the tracker refuses (or an order it does not know) is counted
\* and otherwise ignored by every handler.
TryTransition(o, s) ==
  IF OSM!CanTransition(o, s) THEN OSM!Transition(o, s) ELSE UNCHANGED orderState

HandleNewOrderAck(o) ==
  TryTransition(o, "Open") /\ UNCHANGED pendingCancels

BugHandleCancelAck(o) ==
  pendingCancels' = WithoutCancels(o) /\ UNCHANGED orderState
BugHandleCancelAckDirect(o) ==
  /\ pendingCancels' = WithoutCancels(o)
  /\ state' = [state EXCEPT ![o] = "Canceled"]
  /\ UNCHANGED <<now, idCounter, active, quantity, filled, remaining, avgPrice,
                 purgeQueue, totalCreated, totalFilled, totalRejected>>
HandleCancelAck(o) ==
  pendingCancels' = WithoutCancels(o) /\ TryTransition(o, "Canceled")

HandleReject(o) ==
  TryTransition(o, "Rejected") /\ UNCHANGED pendingCancels

BugHandleTrade(o, q, p) ==
  /\ pendingCancels' = WithoutCancels(o)
  /\ IF OSM!CanFill(o, q) /\ ~HasPendingCancel(o)
     THEN OSM!ApplyFill(o, q, p) ELSE UNCHANGED orderState
HandleTrade(o, q, p) ==
  /\ pendingCancels' = WithoutCancels(o)
  /\ IF OSM!CanFill(o, q) THEN OSM!ApplyFill(o, q, p) ELSE UNCHANGED orderState

HandleStatusUpdate == UNCHANGED <<orderState, pendingCancels>>

\* process_report, and in "applied" whether it applied a fill.
ProcessReport(n, seq, r) ==
  IF IsDuplicate(seq)
  THEN UNCHANGED <<orderState, pendingCancels, trackerVars, applied>>
  ELSE /\ \/ r.type = "NewOrderAck"  /\ HandleNewOrderAck(r.order)
          \/ r.type = "CancelAck"    /\ HandleCancelAck(r.order)
          \/ r.type = "Reject"       /\ HandleReject(r.order)
          \/ r.type = "Trade"        /\ HandleTrade(r.order, r.qty, r.price)
          \/ r.type = "StatusUpdate" /\ HandleStatusUpdate
       /\ Record(seq)
       /\ applied' = [applied EXCEPT ![n] =
            IF filled' # filled THEN @ + 1 ELSE @]

\* cleanup_expired_cancels, as register_cancel_request runs it after the push.
BugFresh(c) == TRUE
Fresh(c) == now - c.at < CancelTimeout

-----------------------------------------------------------------------------
(* The system's operations.                                                *)

AddOrder(q) ==
  /\ OSM!AddOrder(q)
  /\ exState' = [exState EXCEPT ![idCounter] = "sent"]
  /\ UNCHANGED <<rPending, trackerVars, pendingCancels, feed, exFilled,
                 reports, historyVars>>

RegisterCancelRequest(o) ==
  /\ cancels < MaxCancels /\ cancels + Len(reports) < MaxEvents
  /\ cancels' = cancels + 1
  /\ pendingCancels' =
       {c \in pendingCancels \union {[order |-> o, at |-> now]} : Fresh(c)}
  /\ Resolver!RegisterCancel(o, Resolver!Unknown)
  /\ UNCHANGED <<orderState, trackerVars, exchangeVars, times, applied, verdict>>

\* The highest report delivered so far.
Delivered == Max({0} \union {n \in ReportIds : times[n] > 0})

\* External: what the feed may deliver next.
MayDeliver(n) ==
  /\ n \in DOMAIN reports
  /\ times[n] < MaxDeliveries
  /\ \/ feed = "ordered" /\ (\/ n = Delivered + 1
                             \/ n <= Delivered /\ Delivered - n < SeqHistory)
     \/ feed \in {"reordered", "unstamped"} /\ times[n] = 0
     \/ feed = "chaotic"

Deliver(n) ==
  /\ MayDeliver(n)
  /\ times' = [times EXCEPT ![n] = @ + 1]
  /\ LET r == reports[n] IN
       /\ IF r.type = "Trade"
          THEN verdict' = [verdict EXCEPT ![n] =
                 IF @ = "none" THEN Resolver!Verdict(r.order, r.at) ELSE @]
          ELSE UNCHANGED verdict
       /\ ProcessReport(n, IF feed = "unstamped" THEN 0 ELSE n, r)
  /\ UNCHANGED <<rPending, exchangeVars, cancels>>

PurgeTerminalOrders ==
  /\ OSM!PurgeTerminalOrders
  /\ UNCHANGED <<rPending, trackerVars, pendingCancels, exchangeVars,
                 historyVars>>

Tick ==
  /\ OSM!Tick
  /\ UNCHANGED <<rPending, trackerVars, pendingCancels, exchangeVars,
                 historyVars>>

-----------------------------------------------------------------------------
(* External: the exchange.                                                 *)

Report(type, o, q, p) ==
  /\ Len(reports) < MaxReports /\ cancels + Len(reports) < MaxEvents
  /\ reports' = Append(reports, [type |-> type, order |-> o, qty |-> q,
                                 price |-> p, at |-> now])
  /\ UNCHANGED <<orderState, rPending, trackerVars, pendingCancels, feed,
                 historyVars>>

ExchangeAccept(o) ==
  /\ exState[o] = "sent"
  /\ exState' = [exState EXCEPT ![o] = "live"]
  /\ Report("NewOrderAck", o, 0, 0) /\ UNCHANGED exFilled

ExchangeReject(o) ==
  /\ exState[o] = "sent"
  /\ exState' = [exState EXCEPT ![o] = "rejected"]
  /\ Report("Reject", o, 0, 0) /\ UNCHANGED exFilled

ExchangeMatch(o, q, p) ==
  /\ exState[o] = "live"
  /\ exFilled[o] + q <= quantity[o]
  /\ exFilled' = [exFilled EXCEPT ![o] = @ + q]
  /\ exState' = [exState EXCEPT ![o] =
                   IF exFilled[o] + q = quantity[o] THEN "filled" ELSE @]
  /\ Report("Trade", o, q, p)

ExchangeCancel(o) ==
  /\ exState[o] = "live"
  /\ exState' = [exState EXCEPT ![o] = "canceled"]
  /\ Report("CancelAck", o, 0, 0) /\ UNCHANGED exFilled

ExchangeStatus(o) ==
  /\ exState[o] = "live"
  /\ Report("StatusUpdate", o, 0, 0) /\ UNCHANGED <<exState, exFilled>>

Next ==
  \/ \E q \in Quantities : AddOrder(q)
  \/ \E o \in active : RegisterCancelRequest(o)
  \/ \E n \in ReportIds : Deliver(n)
  \/ PurgeTerminalOrders
  \/ Tick
  \/ \E o \in OrderIds :
       \/ ExchangeAccept(o)
       \/ ExchangeReject(o)
       \/ \E q \in FillQuantities, p \in Prices : ExchangeMatch(o, q, p)
       \/ ExchangeCancel(o)
       \/ ExchangeStatus(o)

Spec == Init /\ [][Next]_vars

-----------------------------------------------------------------------------
\* Every step of the whole system is, for the tracker, one of its own calls or
\* none: no handler reaches around the tracker's rules.
ImplementsTracker == OSM!Spec

IsTrade(n) == n \in DOMAIN reports /\ reports[n].type = "Trade"
Came(n)    == times[n] > 0

\* "Duplicate report (already processed)": no report's fill counts twice.
FillsOnce == \A n \in ReportIds : applied[n] <= 1

\* What the tracker says was filled is what the delivered trade reports say,
\* through cancels, purges and redeliveries: none lost, none counted twice.
FillsMirrored ==
  feed = "ordered" => \A o \in OrderIds :
    filled[o] = MapThenSumSet(LAMBDA n : reports[n].qty,
                  {n \in ReportIds : Came(n) /\ IsTrade(n)
                                     /\ reports[n].order = o})

\* A delivered end of an order is the tracker's end of it: no acknowledged
\* cancel or rejection leaves the order alive, no fill revives it, in whatever
\* order the reports arrive.
EndsMirrored ==
  feed # "chaotic" => \A n \in DOMAIN reports : Came(n) =>
    /\ reports[n].type = "CancelAck" => state[reports[n].order] = "Canceled"
    /\ reports[n].type = "Reject"    => state[reports[n].order] = "Rejected"

\* Both registries hear of every cancel; the resolver's longer timeout means
\* that what the reconciler still expects, the resolver still knows.
PendingCancelsKnown ==
  \A c \in pendingCancels :
    \E j \in DOMAIN rPending :
      rPending[j].order = c.order /\ rPending[j].requested = c.at

\* "We accept fills as they represent actual trades": a fill the resolver
\* found authoritative over a pending cancel is applied to the order.
FillWins ==
  feed = "ordered" => \A n \in ReportIds :
    verdict[n] = "FillAuthoritative" => applied[n] >= 1

\* With a feed that reorders but does not repeat, the only fills that are
\* dropped are those overtaken by the acknowledgement of a cancel: nothing is
\* mistaken for a duplicate, refused as too large, or purged too early, even
\* if all reports bear the number 0.
DropsOnlyAfterCancel ==
  feed \in {"reordered", "unstamped"} => \A n \in ReportIds :
    Came(n) /\ IsTrade(n) /\ applied[n] = 0 => state[reports[n].order] = "Canceled"
=============================================================================
