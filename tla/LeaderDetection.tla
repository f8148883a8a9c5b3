-------------------------- MODULE LeaderDetection --------------------------
(***************************************************************************)
(* Heartbeat monitors (HeartbeatMonitor) under their engines (raft/mod.rs):*)
(* any heartbeat may arrive at any time, of the current leader or of a     *)
(* deposed one, and the engine of a node that does not lead checks for     *)
(* ever.  An engine's own term has nothing to do with its monitor's: an    *)
(* election or a step_down may reset the monitor to an older term, whose   *)
(* leaders' heartbeats count as current again.                             *)
(***************************************************************************)
EXTENDS HeartbeatMonitor

VARIABLES
  leading,   \* is the engine's state NodeState::Leader?
  quiet,     \* history: how long ago n last got a heartbeat its monitor accepts
  checks,    \* history: checks since then
  alarmed    \* history: has a check returned true since then?

detectionVars == <<monitorVars, leading, quiet, checks, alarmed>>

DetectionInit ==
  /\ MonitorInit
  /\ leading = [n \in Monitors |-> FALSE]
  /\ quiet   = [n \in Monitors |-> 0]
  /\ checks  = [n \in Monitors |-> 0]
  /\ alarmed = [n \in Monitors |-> FALSE]

Heartbeat(n, l, t) ==
  /\ RecordHeartbeat(n, l, t) /\ UNCHANGED leading
  /\ IF t >= monTerm[n]
     THEN /\ quiet'   = [quiet   EXCEPT ![n] = 0]
          /\ checks'  = [checks  EXCEPT ![n] = 0]
          /\ alarmed' = [alarmed EXCEPT ![n] = FALSE]
     ELSE UNCHANGED <<quiet, checks, alarmed>>

Response(n, f, t) ==
  /\ ProcessHeartbeatResponse(n, f, t)
  /\ UNCHANGED <<leading, quiet, checks, alarmed>>

-----------------------------------------------------------------------------
(* The engine.                                                             *)

\* start_election: the monitor's new term is the election's, which no heartbeat
\* ever raised.
StartElection(n) == \E t \in 1..MaxTerm : Reset(n, t)

\* process_heartbeats of a node that does not lead.
Check(n) ==
  /\ ~leading[n]
  /\ \/ Alarm(n) /\ StartElection(n)
     \/ ~Alarm(n) /\ CheckLeaderTimeout(n)
  /\ checks'  = [checks  EXCEPT ![n] = IF @ < MaxMissed THEN @ + 1 ELSE @]
  /\ alarmed' = [alarmed EXCEPT ![n] = @ \/ Alarm(n)]
  /\ UNCHANGED <<leading, quiet>>

\* become_leader leaves the monitor as it is, and a leader never asks it.
BecomeLeader(n) ==
  /\ ~leading[n] /\ leading' = [leading EXCEPT ![n] = TRUE]
  /\ UNCHANGED <<monitorVars, quiet, checks, alarmed>>

\* step_down, to whatever term the caller has heard of.
StepDown(n, t) ==
  /\ Reset(n, t) /\ leading' = [leading EXCEPT ![n] = FALSE]
  /\ UNCHANGED <<quiet, checks, alarmed>>

TimePasses ==
  /\ MonitorTick
  /\ quiet' = [n \in Monitors |-> Older(quiet[n])]
  /\ UNCHANGED <<leading, checks, alarmed>>

DetectionNext ==
  \/ \E n \in Monitors :
       \/ \E l \in Leaders, t \in 0..MaxTerm : Heartbeat(n, l, t)
       \/ Check(n)
       \/ BecomeLeader(n)
       \/ \E t \in 0..MaxTerm : StepDown(n, t)
       \/ \E f \in Leaders \ {n}, t \in 0..MaxTerm : Response(n, f, t)
  \/ TimePasses

\* Time passes and the engine keeps calling process_heartbeats; heartbeats
\* themselves may stop.
DetectionFairness ==
  /\ WF_detectionVars(TimePasses)
  /\ \A n \in Monitors : WF_detectionVars(Check(n))

DetectionSpec == DetectionInit /\ [][DetectionNext]_detectionVars /\ DetectionFairness

DetectionTypeOK ==
  /\ monLeader \in [Monitors -> Leaders \union {NoLeader}]
  /\ monTerm \in [Monitors -> 0..MaxTerm]
  /\ age \in [Monitors -> [Leaders -> 0..Never]]
  /\ missed \in [Monitors -> 0..MaxMissed]
  /\ leading \in [Monitors -> BOOLEAN]
  /\ quiet \in [Monitors -> 0..Late]
  /\ checks \in [Monitors -> 0..MaxMissed]
  /\ alarmed \in [Monitors -> BOOLEAN]

\* No false alarm: when a check calls for an election, no heartbeat the monitor
\* accepts came for longer than the timeout and the checks made since the last
\* one, this one included, are at least max_missed_heartbeats, whatever leaders
\* come and go in between and whatever terms the monitor is reset to.
AlarmIsEarned ==
  [][\A n \in Monitors :
       alarmed'[n] /\ ~alarmed[n] => quiet[n] = Late /\ checks'[n] = MaxMissed]_detectionVars

\* A node that follows a leader which falls silent calls for an election or is
\* reset by its engine, unless it has become a leader itself, which never
\* checks.  Deposed leaders may go on sending heartbeats of terms older than the
\* monitor's; those of a term the monitor was reset to, or a newer one, count.
SilenceIsNoticed ==
  \A n \in Monitors :
    (monLeader[n] # NoLeader /\ quiet[n] > 0)
      ~> (monLeader[n] = NoLeader \/ quiet[n] = 0 \/ leading[n])
=============================================================================
