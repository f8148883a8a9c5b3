---------------------------- MODULE SwarmEngine ----------------------------
(***************************************************************************)
(* SwarmConsensusEngine of nexus_swarm (raft/mod.rs) on every node that    *)
(* runs for leader: election, heartbeat monitor, STONITH fencer and lease, *)
(* wired together as the engine wires them.                                *)
(*                                                                         *)
(* The election is its promise, Elections (LeaderElection shows how votes  *)
(* keep it); the voters need not be among Nodes.  The monitor is           *)
(* HeartbeatMonitor.  Of the fencer (StonithFencer) an engine is the only  *)
(* caller: the first call fails at the inverted flag, a call that finds    *)
(* the flag set asks honest witnesses.  Leases run out; the engine never   *)
(* renews one.                                                             *)
(*                                                                         *)
(* src/ has the handlers and no transport: the driver that hands messages  *)
(* to an engine, calls become_leader when process_vote_response returns    *)
(* true and step_down when a newer term is heard of is external.  It is    *)
(* taken to call become_leader before it hands over anything else.         *)
(***************************************************************************)
EXTENDS Integers, FiniteSets

CONSTANTS
  Nodes, MaxTerm, ElectionTimeout, MaxMissed,
  LeaseDuration     \* in ticks

ASSUME EngineAssumption == LeaseDuration \in Nat \ {0}

VARIABLES
  currentTerm, nodeState, elected,      \* the elections
  monLeader, monTerm, age, missed,      \* the monitors
  state, term,        \* SwarmConsensusEngine.state and .current_term
  lease, leaseTerm,   \* lease_token: what is left of it, and its term
  flag,               \* fencing_in_progress
  fencing,            \* is become_leader waiting for the witnesses?
  won,                \* has the driver seen the election won?
  alive,              \* nodes no witness has killed
  heartbeats          \* heartbeats sent: [leader, term]

Election == INSTANCE Elections WITH restarts <- 0, MaxRestarts <- 0
Monitor  == INSTANCE HeartbeatMonitor WITH Monitors <- Nodes, Leaders <- Nodes

electionVars == <<currentTerm, nodeState, elected>>
monVars      == <<monLeader, monTerm, age, missed>>
engineVars   == <<state, term, lease, leaseTerm>>
fenceVars    == <<flag, fencing, alive>>
vars == <<electionVars, monVars, engineVars, fenceVars, won, heartbeats>>

NoLease == 0

Init ==
  /\ Election!Init /\ Monitor!MonitorInit
  /\ state = [n \in Nodes |-> "Follower"] /\ term = [n \in Nodes |-> 0]
  /\ lease = [n \in Nodes |-> NoLease] /\ leaseTerm = [n \in Nodes |-> 0]
  /\ flag = [n \in Nodes |-> FALSE] /\ fencing = [n \in Nodes |-> FALSE]
  /\ won = [n \in Nodes |-> FALSE]
  /\ alive = Nodes
     \* The operator names a first leader of term 0: nobody stands otherwise.
  /\ heartbeats = [leader : Nodes, term : {0}]

\* The engine is borrowed for as long as become_leader waits.
Idle(n) == n \in alive /\ ~fencing[n]
Free(n) == Idle(n) /\ ~won[n]

-----------------------------------------------------------------------------
(* External: what the driver hands to an engine.                           *)

ReceiveHeartbeat(n, h) ==
  /\ Free(n) /\ h.leader # n
  /\ Monitor!RecordHeartbeat(n, h.leader, h.term)
  /\ UNCHANGED <<electionVars, engineVars, fenceVars, won, heartbeats>>

HearNewerTerm(n, t) ==
  /\ Free(n) /\ Election!Adopt(n, t)
  /\ UNCHANGED <<monVars, engineVars, fenceVars, won, heartbeats>>

WinElection(n) ==
  /\ Free(n) /\ Election!Win(n)
  /\ won' = [won EXCEPT ![n] = TRUE]
  /\ UNCHANGED <<monVars, engineVars, fenceVars, heartbeats>>

-----------------------------------------------------------------------------
(* The engine.                                                             *)

\* step_down
StepDown(n, t) ==
  /\ Free(n)
  /\ t > term[n] /\ t \in {currentTerm[n]} \union {h.term : h \in heartbeats}
  /\ state' = [state EXCEPT ![n] = "Follower"]
  /\ term'  = [term  EXCEPT ![n] = t]
  /\ lease' = [lease EXCEPT ![n] = NoLease]
  /\ Monitor!Reset(n, t)
  /\ UNCHANGED <<electionVars, leaseTerm, fenceVars, won, heartbeats>>

\* process_heartbeats of a leader: send_heartbeats, once the interval is over.
SendHeartbeats(n) ==
  /\ Free(n) /\ state[n] = "Leader"
  /\ term' = [term EXCEPT ![n] = monTerm[n]]
  /\ heartbeats' = heartbeats \union {[leader |-> n, term |-> monTerm[n]]}
  /\ UNCHANGED <<electionVars, monVars, state, lease, leaseTerm, fenceVars, won>>

\* start_election
StartElection(n) ==
  /\ Election!Campaign(n)
  /\ state' = [state EXCEPT ![n] = "Candidate"]
  /\ term'  = [term  EXCEPT ![n] = currentTerm[n] + 1]
  /\ Monitor!Reset(n, currentTerm[n] + 1)
  /\ UNCHANGED <<lease, leaseTerm>>

\* process_heartbeats of anybody else.
CheckLeader(n) ==
  /\ Free(n) /\ state[n] # "Leader"
  /\ \/ Monitor!Alarm(n) /\ StartElection(n)
     \/ /\ ~Monitor!Alarm(n)
        /\ Monitor!CheckLeaderTimeout(n)
        /\ UNCHANGED <<electionVars, engineVars>>
  /\ UNCHANGED <<fenceVars, won, heartbeats>>

\* become_leader up to the fence.  A leader is refused; everybody else is
\* Leader from here on, whatever the fence says.
BecomeLeader(n) ==
  /\ Idle(n) /\ won[n]
  /\ won' = [won EXCEPT ![n] = FALSE]
  /\ IF state[n] = "Leader"
     THEN UNCHANGED <<engineVars, flag, fencing>>
     ELSE /\ state' = [state EXCEPT ![n] = "Leader"]
          /\ term'  = [term  EXCEPT ![n] = currentTerm[n]]
          /\ flag'    = [flag    EXCEPT ![n] = TRUE]
          /\ fencing' = [fencing EXCEPT ![n] = flag[n]]
          /\ UNCHANGED <<lease, leaseTerm>>
  /\ UNCHANGED <<electionVars, monVars, alive, heartbeats>>

\* The leaders of the term a fence of node n is aimed at.
Target(n) == {m \in Nodes : [term |-> term[n] - 1, node |-> m] \in elected}

\* The witnesses confirm, and become_leader takes its lease.
FenceSucceeds(n) ==
  /\ n \in alive /\ fencing[n]
  /\ alive' = alive \ Target(n)
  /\ flag'    = [flag    EXCEPT ![n] = FALSE]
  /\ fencing' = [fencing EXCEPT ![n] = FALSE]
  /\ lease'     = [lease     EXCEPT ![n] = LeaseDuration]
  /\ leaseTerm' = [leaseTerm EXCEPT ![n] = term[n]]
  /\ UNCHANGED <<electionVars, monVars, state, term, won, heartbeats>>

\* They do not, or not all of them; become_leader returns the error.
BugFenceFails(n) ==
  /\ n \in alive /\ fencing[n]
  /\ alive' = alive
  /\ flag'    = [flag    EXCEPT ![n] = FALSE]
  /\ fencing' = [fencing EXCEPT ![n] = FALSE]
  /\ lease'     = [lease     EXCEPT ![n] = LeaseDuration]
  /\ leaseTerm' = [leaseTerm EXCEPT ![n] = term[n]]
  /\ UNCHANGED <<electionVars, monVars, state, term, won, heartbeats>>
FenceFails(n) ==
  /\ n \in alive /\ fencing[n]
  /\ alive' \in {alive, alive \ Target(n)}
  /\ flag'    = [flag    EXCEPT ![n] = FALSE]
  /\ fencing' = [fencing EXCEPT ![n] = FALSE]
  /\ UNCHANGED <<electionVars, monVars, engineVars, won, heartbeats>>

Tick ==
  /\ Monitor!MonitorTick
  /\ lease' = [n \in Nodes |-> IF lease[n] > 0 THEN lease[n] - 1 ELSE 0]
  /\ UNCHANGED <<electionVars, state, term, leaseTerm, fenceVars, won, heartbeats>>

Next ==
  \/ \E n \in Nodes :
       \/ \E h \in heartbeats : ReceiveHeartbeat(n, h)
       \/ \E t \in 1..MaxTerm : HearNewerTerm(n, t) \/ StepDown(n, t)
       \/ WinElection(n)
       \/ SendHeartbeats(n)
       \/ CheckLeader(n)
       \/ BecomeLeader(n)
       \/ FenceSucceeds(n)
       \/ FenceFails(n)
  \/ Tick

Spec == Init /\ [][Next]_vars

\* Does node n lead term t, or is it about to?
Stake(n, t) ==
  /\ n \in alive
  /\ \/ won[n] /\ t = currentTerm[n]
     \/ fencing[n] /\ t = term[n]
     \/ lease[n] > 0 /\ t = leaseTerm[n]

\* The same, if no term is won past another node's stake in an earlier one but
\* the term directly before.
Succession ==
  \A n \in Nodes : won'[n] /\ ~won[n] =>
    \A m \in Nodes \ {n}, t \in UNION {{currentTerm[k], term[k], leaseTerm[k]} : k \in Nodes} :
      Stake(m, t) => t = currentTerm[n] - 1
SuccessionSpec == Init /\ [][Next /\ Succession]_vars

-----------------------------------------------------------------------------

\* can_execute_trades
CanTrade(n) == n \in alive /\ state[n] = "Leader" /\ lease[n] > 0

\* Through failed fences, step-downs and terms heard of late: a lease is only
\* ever taken for a term the node has won, when nobody who had won the term
\* before is still alive.
LeasesFollowFences ==
  [][\A n \in Nodes : lease'[n] > lease[n] =>
       /\ [term |-> leaseTerm'[n], node |-> n] \in elected
       /\ \A m \in alive' \ {n} :
            [term |-> leaseTerm'[n] - 1, node |-> m] \notin elected]_vars

\* Two leases never stand for the same term.
LeasesAreUnique ==
  \A m, n \in Nodes : CanTrade(m) /\ CanTrade(n) /\ leaseTerm[m] = leaseTerm[n] => m = n

\* "Only one node executes trades at any time".
AtMostOneTrader == \A m, n \in Nodes : CanTrade(m) /\ CanTrade(n) => m = n
=============================================================================
