------------------------------ MODULE RaftLog ------------------------------
(***************************************************************************)
(* LockFreeRaftLog of nexus_swarm (replication/lock_free_raft_log.rs): a   *)
(* ring of slots, each under its own lock, and atomic counters, used by    *)
(* threads that append, commit and truncate at the same time.  One action  *)
(* per access that another thread can see.                                 *)
(*                                                                         *)
(* An entry is its index and the append call that made it.  Its checksum   *)
(* matters where it is wrong: append then leaves a claimed slot unwritten. *)
(* last_applied is written by mark_applied, which nothing calls, and read  *)
(* by nothing; it is left out.                                             *)
(***************************************************************************)
EXTENDS Integers, FiniteSets

CONSTANTS
  Size,         \* buffer_size
  Threads,
  Workloads,    \* which threads append, commit and truncate, and whether the
                \*   checksums of new entries are right
  MaxAppends    \* bound on calls of append

ASSUME LogAssumption ==
  /\ Size \in Nat \ {0} /\ MaxAppends \in Nat
  /\ Workloads \subseteq [append : SUBSET Threads, commit : SUBSET Threads,
                          truncate : SUBSET Threads, checksums : SUBSET BOOLEAN]

VARIABLES
  workload,       \* how this log is used
  slots,          \* entries
  writeIndex, commitIndex, total,   \* total is total_entries_written
  pc, at, goal,   \* per thread: what it does next, its index, its last index
  calls,          \* appends called so far
  acked,          \* history: entries whose append returned Ok
  cut             \* history: the highest index truncated to; when the log
                  \*   starts again from 0, both forget what was truncated

None == [index |-> -1, call |-> 0]
Entry == [index : 0..MaxAppends, call : 1..MaxAppends]

counters == <<writeIndex, commitIndex, total>>
locals == <<pc, at, goal>>
history == <<calls, acked, cut>>
logVars == <<workload, slots, counters, locals, history>>

LogInit ==
  /\ workload \in Workloads
  /\ slots = [i \in 0..Size - 1 |-> None]
  /\ writeIndex = 0 /\ commitIndex = 0 /\ total = 0
  /\ pc = [t \in Threads |-> "idle"]
  /\ at = [t \in Threads |-> 0] /\ goal = [t \in Threads |-> 0]
  /\ calls = 0 /\ acked = {} /\ cut = 0

Slot(i) == i % Size
Go(t, here, there) == pc[t] = here /\ pc' = [pc EXCEPT ![t] = there]
Set(local, t, value) == local' = [local EXCEPT ![t] = value]

\* get: an index is looked up when that many entries have been counted.
Get(i) == IF i >= total THEN None ELSE slots[Slot(i)]

-----------------------------------------------------------------------------
(* append: an index is claimed, its slot written, the total counted up.    *)

BugClaim(t) ==
  /\ calls < MaxAppends
  /\ Go(t, "idle", "write")
  /\ Set(at, t, total) /\ writeIndex' = writeIndex + 1
  /\ calls' = calls + 1 /\ Set(goal, t, calls + 1)
  /\ UNCHANGED <<slots, commitIndex, total, acked, cut>>
Claim(t) ==
  /\ calls < MaxAppends
  /\ Go(t, "idle", "write")
  /\ Set(at, t, writeIndex) /\ writeIndex' = writeIndex + 1
  /\ calls' = calls + 1 /\ Set(goal, t, calls + 1)
  /\ UNCHANGED <<slots, commitIndex, total, acked, cut>>

\* The entry an appender is writing; goal holds its call.
Pending(t) == [index |-> at[t], call |-> goal[t]]

WriteSlot(t) ==
  \E right \in workload.checksums :
    /\ Go(t, "write", IF right THEN "count" ELSE "idle")
    /\ slots' = IF right THEN [slots EXCEPT ![Slot(at[t])] = Pending(t)] ELSE slots
    /\ UNCHANGED <<counters, at, goal, history>>

CountEntry(t) ==
  /\ Go(t, "count", "idle")
  /\ total' = total + 1
  /\ acked' = acked \union {Pending(t)}
  /\ UNCHANGED <<slots, writeIndex, commitIndex, at, goal, calls, cut>>

-----------------------------------------------------------------------------
(* commit: every slot up to the index is looked at, then the index stored. *)

Commit(t, upTo) ==
  /\ upTo > commitIndex
  /\ Go(t, "idle", "check")
  /\ Set(at, t, commitIndex) /\ Set(goal, t, upTo)
  /\ UNCHANGED <<slots, counters, history>>

\* A missing entry ends the call with an error.
BugCheckSlot(t) ==
  /\ at[t] < goal[t] /\ Go(t, "check", "check")
  /\ Set(at, t, at[t] + 1)
  /\ UNCHANGED <<slots, counters, goal, history>>
CheckSlot(t) ==
  /\ at[t] < goal[t]
  /\ Go(t, "check", IF slots[Slot(at[t])] = None THEN "idle" ELSE "check")
  /\ Set(at, t, at[t] + 1)
  /\ UNCHANGED <<slots, counters, goal, history>>

StoreCommit(t) ==
  /\ at[t] >= goal[t] /\ Go(t, "check", "idle")
  /\ commitIndex' = goal[t]
  /\ UNCHANGED <<slots, writeIndex, total, at, goal, history>>

-----------------------------------------------------------------------------
(* truncate_before: slots are cleared one by one, and the counters start   *)
(* again from 0, one after the other, when the index was not below total.  *)

Truncate(t, index) ==
  /\ Go(t, "idle", IF index >= total THEN "clear all" ELSE "clear")
  /\ Set(at, t, 0)
  /\ Set(goal, t, IF index < total THEN index ELSE total)
  /\ cut' = IF index > cut THEN index ELSE cut
  /\ UNCHANGED <<slots, counters, calls, acked>>

ClearSlot(t) ==
  /\ pc[t] \in {"clear", "clear all"} /\ at[t] < goal[t]
  /\ slots' = [slots EXCEPT ![Slot(at[t])] = None]
  /\ Set(at, t, at[t] + 1)
  /\ UNCHANGED <<counters, pc, goal, history>>

EndClear(t) ==
  /\ pc[t] \in {"clear", "clear all"} /\ at[t] >= goal[t]
  /\ Set(pc, t, IF pc[t] = "clear" THEN "idle" ELSE "reset write")
  /\ UNCHANGED <<slots, counters, at, goal, history>>

BugResetWrite(t) ==
  /\ Go(t, "reset write", "reset total")
  /\ cut' = 0 /\ acked' = {a \in acked : a.index >= cut}
  /\ UNCHANGED <<slots, counters, at, goal, calls>>
ResetWrite(t) ==
  /\ Go(t, "reset write", "reset total") /\ writeIndex' = 0
  /\ cut' = 0 /\ acked' = {a \in acked : a.index >= cut}
  /\ UNCHANGED <<slots, commitIndex, total, at, goal, calls>>

ResetTotal(t) ==
  /\ Go(t, "reset total", "reset commit") /\ total' = 0
  /\ UNCHANGED <<slots, writeIndex, commitIndex, at, goal, history>>

ResetCommit(t) ==
  /\ Go(t, "reset commit", "idle") /\ commitIndex' = 0
  /\ UNCHANGED <<slots, writeIndex, total, at, goal, history>>

-----------------------------------------------------------------------------
LogStep ==
  \/ \E t \in workload.append : Claim(t) \/ WriteSlot(t) \/ CountEntry(t)
  \/ \E t \in workload.commit :
       \/ \E upTo \in 1..MaxAppends : Commit(t, upTo)
       \/ CheckSlot(t) \/ StoreCommit(t)
  \/ \E t \in workload.truncate :
       ClearSlot(t) \/ EndClear(t) \/ ResetWrite(t) \/ ResetTotal(t) \/ ResetCommit(t)

\* The log alone: what is truncated has been committed, which is what
\* compact_up_to checks and create_snapshot sees to.
LogNext ==
  /\ LogStep \/ \E t \in workload.truncate, index \in 1..commitIndex : Truncate(t, index)
  /\ UNCHANGED workload

LogSpec == LogInit /\ [][LogNext]_logVars

-----------------------------------------------------------------------------
LogTypeOK ==
  /\ workload \in Workloads
  /\ slots \in [0..Size - 1 -> Entry \union {None}]
  /\ writeIndex \in 0..MaxAppends /\ total \in 0..MaxAppends
  /\ commitIndex \in 0..MaxAppends
  /\ pc \in [Threads -> {"idle", "write", "count", "check", "clear", "clear all",
                         "reset write", "reset total", "reset commit"}]
  /\ at \in [Threads -> 0..MaxAppends] /\ goal \in [Threads -> 0..MaxAppends]
  /\ acked \subseteq Entry

\* What the properties ask of the log's use: a thread has an operation to
\* itself, truncation does not run beside other operations, the ring has not
\* wrapped and no commit has gone round it, where CheckSlot takes an older
\* entry for the one to commit.
Alone(threads) == \A s, t \in threads : s = t
TruncatesAlone ==
  workload.truncate # {} =>
    Alone(workload.append \union workload.commit \union workload.truncate)
NotWrapped == writeIndex <= Size /\ commitIndex <= Size
Truncating == \E t \in Threads :
  pc[t] \in {"clear", "clear all", "reset write", "reset total", "reset commit"}

\* Every index committed and not truncated holds its entry, whatever appends
\* in flight and failed appends lie between.
CommittedAreStored ==
  TruncatesAlone /\ NotWrapped /\ ~Truncating =>
    \A i \in cut..commitIndex - 1 : slots[Slot(i)].index = i

\* No two appends that returned Ok share an index, and no append, commit or
\* failed append of another thread overwrites what they stored.
AckedAreKept ==
  workload.truncate = {} /\ NotWrapped =>
    \A a \in acked :
      /\ \A b \in acked : a.index = b.index => a = b
      /\ slots[Slot(a.index)] = a

\* append "Returns the index at which the entry was stored", get is to "Get an
\* entry by index", truncate_before to "Clear entries up to a certain index":
\* with one appender and right checksums an entry can be read at its index as
\* long as its slot has not been claimed again and it was not truncated.  On a
\* ring that wraps this needs a log that is not truncated.
AckedIsReadable ==
  /\ Alone(workload.append) /\ workload.checksums = {TRUE}
  /\ workload.truncate # {} => TruncatesAlone /\ NotWrapped
  => \A a \in acked :
       a.index >= cut /\ a.index + Size >= writeIndex => Get(a.index) = a
=============================================================================
