-------------------------- MODULE HeartbeatMonitor --------------------------
(***************************************************************************)
(* The heartbeat monitor of nexus_swarm (raft/heartbeat_monitor.rs), one   *)
(* per node: which leader the node follows, when it last heard of whom,    *)
(* and how many checks in a row found the leader late.                     *)
(*                                                                         *)
(* An Instant is kept as its age in ticks.  Only "elapsed > timeout" is    *)
(* ever asked of it, so an age stops growing just above the timeout and    *)
(* time needs no bound.                                                    *)
(***************************************************************************)
EXTENDS Integers

CONSTANTS
  Monitors,         \* the nodes that run a monitor
  Leaders,          \* the nodes heartbeats may name, monitors included
  ElectionTimeout,  \* election_timeout, in ticks
  MaxMissed,        \* max_missed_heartbeats
  MaxTerm           \* bound on the terms heartbeats carry

ASSUME MonitorAssumption ==
  /\ Monitors \subseteq Leaders /\ "none" \notin Leaders
  /\ ElectionTimeout \in Nat /\ MaxMissed \in Nat \ {0} /\ MaxTerm \in Nat

VARIABLES
  monLeader,   \* current_leader
  monTerm,     \* current_term
  age,         \* last_heartbeat_from_leader: how long ago, or Never
  missed       \* missed_heartbeat_count

monitorVars == <<monLeader, monTerm, age, missed>>

NoLeader == "none"
Late  == ElectionTimeout + 1     \* an age beyond the timeout
Never == ElectionTimeout + 2     \* no entry in the map

MonitorInit ==
  /\ monLeader = [n \in Monitors |-> NoLeader]
  /\ monTerm   = [n \in Monitors |-> 0]
  /\ age       = [n \in Monitors |-> [l \in Leaders |-> Never]]
  /\ missed    = [n \in Monitors |-> 0]

\* record_heartbeat: a heartbeat of an older term is ignored.
BugRecordHeartbeat(n, l, t) ==
  /\ monTerm'   = [monTerm   EXCEPT ![n] = IF t > @ THEN t ELSE @]
  /\ monLeader' = [monLeader EXCEPT ![n] = l]
  /\ age'       = [age       EXCEPT ![n][l] = 0]
  /\ missed'    = [missed    EXCEPT ![n] = 0]
BugRecordHeartbeatCount(n, l, t) ==
  IF t >= monTerm[n]
  THEN /\ monTerm'   = [monTerm   EXCEPT ![n] = t]
       /\ monLeader' = [monLeader EXCEPT ![n] = l]
       /\ age'       = [age       EXCEPT ![n][l] = 0]
       /\ UNCHANGED missed
  ELSE UNCHANGED monitorVars
RecordHeartbeat(n, l, t) ==
  IF t >= monTerm[n]
  THEN /\ monTerm'   = [monTerm   EXCEPT ![n] = t]
       /\ monLeader' = [monLeader EXCEPT ![n] = l]
       /\ age'       = [age       EXCEPT ![n][l] = 0]
       /\ missed'    = [missed    EXCEPT ![n] = 0]
  ELSE UNCHANGED monitorVars

Heard(n)  == monLeader[n] # NoLeader /\ age[n][monLeader[n]] # Never
IsLate(n) == Heard(n) /\ age[n][monLeader[n]] = Late

\* Whether the next check_leader_timeout of node n returns true.
Alarm(n) == IsLate(n) /\ missed[n] + 1 >= MaxMissed

\* check_leader_timeout
CheckLeaderTimeout(n) ==
  /\ missed' = [missed EXCEPT ![n] = IF IsLate(n) THEN @ + 1
                                     ELSE IF Heard(n) THEN 0 ELSE @]
  /\ monLeader' = [monLeader EXCEPT ![n] = IF Alarm(n) THEN NoLeader ELSE @]
  /\ UNCHANGED <<monTerm, age>>

\* reset
Reset(n, t) ==
  /\ monTerm'   = [monTerm   EXCEPT ![n] = t]
  /\ monLeader' = [monLeader EXCEPT ![n] = NoLeader]
  /\ missed'    = [missed    EXCEPT ![n] = 0]
  /\ age'       = [age       EXCEPT ![n] = [l \in Leaders |-> Never]]

\* process_heartbeat_response: only a node that follows itself counts them.
ProcessHeartbeatResponse(n, f, t) ==
  /\ t >= monTerm[n] /\ monLeader[n] = n
  /\ age' = [age EXCEPT ![n][f] = 0]
  /\ UNCHANGED <<monLeader, monTerm, missed>>

Older(a) == IF a < Late THEN a + 1 ELSE a
MonitorTick ==
  /\ age' = [n \in Monitors |-> [l \in Leaders |-> Older(age[n][l])]]
  /\ UNCHANGED <<monLeader, monTerm, missed>>
=============================================================================
