----------------------------- MODULE BookHealer -----------------------------
(***************************************************************************)
(* The healing of the L2 book in nexus_orderbook (l2/sequence_healer.rs,   *)
(* l2/atomic_book_swap.rs): sequence numbers are checked as updates        *)
(* arrive, a critical gap pauses trading, and a snapshot takes the place   *)
(* of the book.                                                            *)
(*                                                                         *)
(* The book is the number of the last update applied to it or contained in *)
(* its snapshot.  A call is one step: validate_sequence and                *)
(* record_snapshot_success hold the lock of stats throughout.              *)
(*                                                                         *)
(* External: the exchange, which numbers its updates from 1; the feed,     *)
(* which loses, repeats and reorders them; the driver, which applies what  *)
(* is Valid, and its healing task, which fetches a snapshot whenever       *)
(* trading is paused or an update was missed, swaps it in, records it and  *)
(* resumes.                                                                *)
(***************************************************************************)
EXTENDS Integers

CONSTANTS
  MaxId,         \* bound on the updates of the exchange
  MaxGap,        \* max_gap_tolerance
  MaxFailures    \* max_snapshot_failures

ASSUME BookAssumption == MaxId \in Nat /\ MaxGap \in Nat /\ MaxFailures \in Nat \ {0}

VARIABLES
  newest,                              \* the exchange's last update
  lastUpdate, expected, paused, failures,   \* the healer
  book,                                \* current_state.last_update_id
  healing,                             \* the healing task: its step, its snapshot
  crossed      \* history: was an update taken between the last swap and its record?

healerVars == <<lastUpdate, expected, paused, failures>>
bookVars == <<newest, healerVars, book, healing, crossed>>

BookInit ==
  /\ newest = 0
  /\ lastUpdate = 0 /\ expected = 0 /\ paused = FALSE /\ failures = 0
  /\ book = 0 /\ healing = [step |-> "idle", id |-> 0]
  /\ crossed = FALSE

Publish ==
  /\ newest < MaxId /\ newest' = newest + 1
  /\ UNCHANGED <<healerVars, book, healing, crossed>>

-----------------------------------------------------------------------------
(* validate_sequence, and the driver that applies what it calls Valid.     *)

\* update_sequence
Expect(id) == lastUpdate' = id /\ expected' = id + 1

Accepts(id) == expected = 0 \/ id = expected

\* Valid: the first update, or the one that is expected.
AcceptUpdate(id) ==
  /\ Accepts(id)
  /\ Expect(id) /\ book' = id
  /\ crossed' = (crossed \/ healing.step = "record")
  /\ UNCHANGED <<newest, paused, failures, healing>>

\* GapHealable, GapCritical: the driver drops the update, the latter pauses.
\* A Duplicate changes nothing, and a Regression is a Duplicate before it can
\* be found out.
MissUpdate(id) ==
  /\ ~Accepts(id) /\ id > expected
  /\ paused' = (paused \/ id - expected > MaxGap)
  /\ healing' = IF healing.step = "idle" THEN [healing EXCEPT !.step = "fetch"] ELSE healing
  /\ UNCHANGED <<newest, lastUpdate, expected, failures, book, crossed>>

-----------------------------------------------------------------------------
(* The healing task.                                                       *)

HealTo(step, id) == healing' = [step |-> step, id |-> id]

\* A snapshot may be older than the last update published.
FetchSnapshot ==
  /\ healing.step = "fetch"
  /\ \E id \in 1..newest : HealTo("swap", id)
  /\ UNCHANGED <<newest, healerVars, book, crossed>>

\* record_snapshot_failure: at the limit the task gives up.
FetchFails ==
  /\ healing.step = "fetch" /\ failures < MaxFailures
  /\ failures' = failures + 1
  /\ HealTo(IF failures + 1 >= MaxFailures THEN "fatal" ELSE "fetch", 0)
  /\ UNCHANGED <<newest, lastUpdate, expected, paused, book, crossed>>

\* prepare_swap and execute_swap; what does not validate is fetched again.
ExecuteSwap ==
  /\ healing.step = "swap"
  /\ \E valid \in BOOLEAN :
       /\ HealTo(IF valid THEN "record" ELSE "fetch", healing.id)
       /\ book' = IF valid THEN healing.id ELSE book
       /\ crossed' = (crossed /\ ~valid)
  /\ UNCHANGED <<newest, healerVars>>

BugRecordSnapshotSuccess ==
  /\ healing.step = "record"
  /\ failures' = 0
  /\ IF healing.id > lastUpdate THEN Expect(healing.id) ELSE UNCHANGED <<lastUpdate, expected>>
  /\ HealTo("resume", healing.id)
  /\ UNCHANGED <<newest, paused, book, crossed>>
RecordSnapshotSuccess ==
  /\ healing.step = "record"
  /\ failures' = 0 /\ Expect(healing.id)
  /\ HealTo("resume", healing.id)
  /\ UNCHANGED <<newest, paused, book, crossed>>

ResumeTrading ==
  /\ healing.step = "resume"
  /\ paused' = FALSE /\ failures' = 0 /\ HealTo("idle", 0)
  /\ UNCHANGED <<newest, lastUpdate, expected, book, crossed>>

\* reset, "after manual intervention"; the book stays as it is.
ResetHealer ==
  /\ healing.step \in {"idle", "fatal"} /\ expected # 0
  /\ lastUpdate' = 0 /\ expected' = 0 /\ paused' = FALSE /\ failures' = 0
  /\ HealTo("idle", 0)
  /\ UNCHANGED <<newest, book, crossed>>

-----------------------------------------------------------------------------
BookNext ==
  \/ Publish
  \/ \E id \in 1..newest : AcceptUpdate(id) \/ MissUpdate(id)
  \/ FetchSnapshot \/ FetchFails \/ ExecuteSwap \/ RecordSnapshotSuccess
  \/ ResumeTrading \/ ResetHealer

BookSpec == BookInit /\ [][BookNext]_bookVars

-----------------------------------------------------------------------------
BookTypeOK ==
  /\ newest \in 0..MaxId /\ lastUpdate \in 0..MaxId /\ expected \in 0..MaxId + 1
  /\ paused \in BOOLEAN /\ failures \in 0..MaxFailures /\ book \in 0..MaxId
  /\ healing.step \in {"idle", "fetch", "swap", "record", "resume", "fatal"}
  /\ healing.id \in 0..MaxId
  /\ crossed \in BOOLEAN

\* The healer and the book agree on what comes next, also when a snapshot is
\* older than the updates already applied.
InSequence ==
  expected # 0 /\ ~crossed /\ healing.step # "record" => expected = book + 1
=============================================================================
