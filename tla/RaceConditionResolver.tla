---------------------- MODULE RaceConditionResolver ----------------------
(***************************************************************************)
(* The resolver of cancel/fill races of nexus_oms (reconciliation/         *)
(* race_condition_resolver.rs).  It keeps the cancel requests that await   *)
(* confirmation and judges each fill of an order against the oldest        *)
(* pending cancel of that order.                                           *)
(*                                                                         *)
(* request_timestamp_ns and registered_at are both "now" at registration,  *)
(* one field here.  recent_fills and ResolverStats are written but never   *)
(* read, so they are left out, with sequence_num, quantities, prices and   *)
(* trade ids, and register_fill is its verdict; so is                      *)
(* remove_pending_cancel, which nothing in src/ calls.                     *)
(***************************************************************************)
EXTENDS Integers, Sequences, FiniteSetsExt

CONSTANTS
  Orders,           \* the orders cancels and fills may name
  MaxHistory,       \* max_history_size
  ResolverTimeout   \* cancel_timeout, in ticks

VARIABLES
  now,       \* the clock
  rPending   \* pending_cancels, oldest first: [order, requested, exchange]

Unknown == -1     \* exchange_timestamp_ns = None

ResolverInit == rPending = <<>>

Newest(s, n) == SubSeq(s, Max({1, Len(s) - n + 1}), Len(s))

Fresh(c) == now - c.requested < ResolverTimeout

\* cleanup_expired: cancels are pushed in the order of their requests, so the
\* expired ones are those before the first that is not.
WithoutExpired(s) ==
  SubSeq(s, Min({i \in DOMAIN s : Fresh(s[i])} \union {Len(s) + 1}), Len(s))

\* register_cancel: push, trim to half the history, drop what has expired.
RegisterCancel(o, exchange) ==
  LET cancel == [order |-> o, requested |-> now, exchange |-> exchange]
  IN  rPending' = WithoutExpired(Newest(Append(rPending, cancel), MaxHistory \div 2))

\* resolve_conflict: a fill the exchange matched at time t against cancel c.
Resolve(c, t) ==
  IF t < c.requested THEN "FillAuthoritative"
  ELSE IF c.exchange # Unknown /\ c.exchange < t THEN "CancelAuthoritative"
  ELSE IF t >= c.requested THEN "FillAuthoritative"
  ELSE "Indeterminate"

CancelsOf(o) == {i \in DOMAIN rPending : rPending[i].order = o}

\* find_pending_cancel, then resolve_conflict: the answer of register_fill.
Verdict(o, t) ==
  IF CancelsOf(o) = {} THEN "NoConflict"
  ELSE Resolve(rPending[Min(CancelsOf(o))], t)

=============================================================================
