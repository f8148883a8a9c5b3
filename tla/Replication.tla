---------------------------- MODULE Replication ----------------------------
(***************************************************************************)
(* OMSStateReplicator and LogCompactionSnapshot of nexus_swarm             *)
(* (replication/oms_state_replicator.rs, log_compaction_snapshot.rs) over  *)
(* the log of RaftLog: replicas of the order state replay what the log     *)
(* has committed while a background task takes snapshots and truncates.    *)
(*                                                                         *)
(* The state of a replica is the sequence of entries applied to it, of     *)
(* which orders, positions and PnL are functions; last_applied_index is    *)
(* the index of the last one.                                              *)
(*                                                                         *)
(* External: the driver of a replica, which replays from where it stopped  *)
(* up to the commit index and installs a snapshot that is ahead of it.     *)
(***************************************************************************)
EXTENDS RaftLog, Sequences

CONSTANT Replicas

VARIABLES
  applied,       \* per replica: its local_state
  next, end,     \* per replica: the range apply_range has yet to go through
  reading,       \* per replica: get has passed its test and not read the slot
  compactor,     \* the compaction under way: its step, the state and the index it holds
  snapshot,      \* the last snapshot: index and oms_state
  restarted      \* history: has the log started again from 0?

replicaVars == <<applied, next, end, reading>>
compactorVars == <<compactor, snapshot>>
replicationVars == <<logVars, replicaVars, compactorVars, restarted>>

ReplicationInit ==
  /\ LogInit
  /\ applied = [r \in Replicas |-> <<>>]
  /\ next = [r \in Replicas |-> 0] /\ end = [r \in Replicas |-> 0]
  /\ reading = [r \in Replicas |-> FALSE]
  /\ compactor = [step |-> "asleep", state |-> <<>>, index |-> 0]
  /\ snapshot = [index |-> 0, state |-> <<>>]
  /\ restarted = FALSE

-----------------------------------------------------------------------------
(* Replay: apply_range calls get for every index, and apply_entry for what *)
(* it returns; an index where it returns None is passed over.              *)

BeginRange(r) ==
  /\ next[r] >= end[r] /\ commitIndex > next[r]
  /\ end' = [end EXCEPT ![r] = commitIndex]
  /\ UNCHANGED <<applied, next, reading>>

BugLookUpCount(r) ==
  /\ next[r] < end[r] /\ ~reading[r]
  /\ IF next[r] + 1 < total
     THEN reading' = [reading EXCEPT ![r] = TRUE] /\ UNCHANGED next
     ELSE next' = [next EXCEPT ![r] = @ + 1] /\ UNCHANGED reading
  /\ UNCHANGED <<applied, end>>
BugLookUpEnd(r) ==
  /\ next[r] <= end[r] /\ ~reading[r]
  /\ IF next[r] < total
     THEN reading' = [reading EXCEPT ![r] = TRUE] /\ UNCHANGED next
     ELSE next' = [next EXCEPT ![r] = @ + 1] /\ UNCHANGED reading
  /\ UNCHANGED <<applied, end>>
LookUp(r) ==
  /\ next[r] < end[r] /\ ~reading[r]
  /\ IF next[r] < total
     THEN reading' = [reading EXCEPT ![r] = TRUE] /\ UNCHANGED next
     ELSE next' = [next EXCEPT ![r] = @ + 1] /\ UNCHANGED reading
  /\ UNCHANGED <<applied, end>>

ApplyEntry(r) ==
  /\ reading[r]
  /\ LET entry == slots[Slot(next[r])]
     IN  applied' = IF entry = None THEN applied
                    ELSE [applied EXCEPT ![r] = Append(@, entry)]
  /\ reading' = [reading EXCEPT ![r] = FALSE] /\ next' = [next EXCEPT ![r] = @ + 1]
  /\ UNCHANGED end

\* apply_snapshot of the replicator.
InstallSnapshot(r) ==
  /\ next[r] >= end[r] /\ snapshot.index > next[r]
  /\ applied' = [applied EXCEPT ![r] = snapshot.state]
  /\ next' = [next EXCEPT ![r] = snapshot.index]
  /\ UNCHANGED <<end, reading>>

-----------------------------------------------------------------------------
(* run_background_compaction: the state is asked for, the snapshot is      *)
(* given the commit index read after that, the log truncated before it.    *)

TakeState(r) ==
  /\ compactor.step = "asleep"
  /\ compactor' = [step |-> "label", state |-> applied[r], index |-> 0]

CreateSnapshot ==
  /\ compactor.step = "label"
  /\ compactor' = [compactor EXCEPT !.step = "truncate", !.index = commitIndex]

\* compact_up_to, asked to compact what a replica has applied.
CompactUpTo(r) ==
  /\ compactor.step = "asleep" /\ next[r] \in 1..commitIndex
  /\ compactor' = [step |-> "truncate", state |-> applied[r], index |-> next[r]]

\* apply_snapshot of the compactor begins truncate_before.
Compact(t) ==
  /\ compactor.step = "truncate" /\ Truncate(t, compactor.index)
  /\ snapshot' = [index |-> compactor.index, state |-> compactor.state]
  /\ compactor' = [step |-> "asleep", state |-> <<>>, index |-> 0]

-----------------------------------------------------------------------------
ReplicationNext ==
  /\ UNCHANGED workload
  /\ \/ /\ LogStep
        /\ restarted' = (restarted \/ \E t \in Threads : pc'[t] = "reset total")
        /\ UNCHANGED <<replicaVars, compactorVars>>
     \/ /\ \E r \in Replicas :
             BeginRange(r) \/ LookUp(r) \/ ApplyEntry(r) \/ InstallSnapshot(r)
        /\ UNCHANGED <<slots, counters, locals, history, compactorVars, restarted>>
     \/ /\ workload.truncate # {}
        /\ (\E r \in Replicas : TakeState(r) \/ CompactUpTo(r)) \/ CreateSnapshot
        /\ UNCHANGED <<slots, counters, locals, history, replicaVars, snapshot, restarted>>
     \/ /\ \E t \in workload.truncate : Compact(t)
        /\ UNCHANGED <<replicaVars, restarted>>

ReplicationSpec == ReplicationInit /\ [][ReplicationNext]_replicationVars

-----------------------------------------------------------------------------
ReplicationTypeOK ==
  /\ LogTypeOK
  /\ \A r \in Replicas :
       /\ \A k \in DOMAIN applied[r] : applied[r][k] \in Entry
       /\ next[r] \in 0..MaxAppends /\ end[r] \in 0..MaxAppends
  /\ reading \in [Replicas -> BOOLEAN]
  /\ compactor.step \in {"asleep", "label", "truncate"}
  /\ snapshot.index \in 0..MaxAppends

\* One thread appends and commits, the ring has not wrapped and no compaction
\* has emptied the log and started it again from 0; compaction itself runs
\* beside everything.
Careful == Alone(workload.append \union workload.commit) /\ NotWrapped /\ ~restarted

\* A replica holds every committed entry behind its cursor that compaction has
\* not cleared, whatever appends, commits and truncations ran during its replay;
\* on a log that is never compacted, each at the place of its index and nothing
\* else, also after failed appends and refused commits.
ReplicasHoldCommitted ==
  Careful => \A r \in Replicas :
    /\ \A i \in cut..next[r] - 1 :
         \E k \in DOMAIN applied[r] : applied[r][k] = slots[Slot(i)]
    /\ workload.truncate = {} => applied[r] = [k \in 1..next[r] |-> slots[k - 1]]

\* No entry is applied twice or out of order, by replay or by a snapshot that
\* already holds what is replayed after it.
AppliedInOrder ==
  Careful => \A r \in Replicas : \A j, k \in DOMAIN applied[r] :
    j < k => applied[r][j].index < applied[r][k].index

\* "... via the Raft log, ensuring all nodes maintain identical state": replicas
\* that replayed the same range hold the same entries.
ReplicasIdentical ==
  \A r, s \in Replicas :
    next[r] = end[r] /\ end[r] = next[s] /\ next[s] = end[s] => applied[r] = applied[s]
=============================================================================
