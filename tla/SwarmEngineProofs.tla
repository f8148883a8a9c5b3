------------------------- MODULE SwarmEngineProofs -------------------------
(***************************************************************************)
(* SwarmConsensusEngine for any nodes, terms, timeouts and lease duration: *)
(* two leases never stand for the same term, a lease is only ever taken    *)
(* for a term its node has won, over the dead leaders of the term before,  *)
(* and whatever the engine does with an election keeps the promise the     *)
(* election makes.                                                         *)
(*                                                                         *)
(* The argument: an engine handles nothing between the election it has won *)
(* and the answer of the witnesses, so the term it has won (WonIsElected), *)
(* the term its fence is aimed from (FencedIsElected) and the term of its  *)
(* lease (LeasedIsElected) are one and the same, and a term has one winner *)
(* (OneWinner).                                                            *)
(***************************************************************************)
EXTENDS SwarmEngine, TLAPS

Roles == {"Follower", "Candidate", "Leader"}

EngineTypeOK ==
  /\ currentTerm \in [Nodes -> Nat] /\ nodeState \in [Nodes -> Roles]
  /\ elected \subseteq [term : Nat, node : Nodes]
  /\ monTerm \in [Nodes -> Nat] /\ heartbeats \subseteq [leader : Nodes, term : Nat]
  /\ state \in [Nodes -> Roles]
  /\ term \in [Nodes -> Nat]
  /\ lease \in [Nodes -> 0..LeaseDuration] /\ leaseTerm \in [Nodes -> Nat]
  /\ flag \in [Nodes -> BOOLEAN] /\ fencing \in [Nodes -> BOOLEAN]
  /\ won \in [Nodes -> BOOLEAN]
  /\ alive \subseteq Nodes

OneWinner == \A e, f \in elected : e.term = f.term => e.node = f.node

WonIsElected ==
  \A n \in Nodes : won[n] => [term |-> currentTerm[n], node |-> n] \in elected

FencedIsElected ==
  \A n \in Nodes : fencing[n] => [term |-> term[n], node |-> n] \in elected

LeasedIsElected ==
  \A n \in Nodes : lease[n] > 0 => [term |-> leaseTerm[n], node |-> n] \in elected

IInv == EngineTypeOK /\ OneWinner /\ WonIsElected /\ FencedIsElected /\ LeasedIsElected

-----------------------------------------------------------------------------
(* One lemma per action.                                                   *)

LEMMA InitIInv == Init => IInv
<1> SUFFICES ASSUME Init PROVE IInv
  OBVIOUS
<1> USE DEF Init, Election!Init, Monitor!MonitorInit, NoLease
<1>1. EngineTypeOK
  BY EngineAssumption DEF EngineTypeOK, Roles
<1>2. OneWinner /\ WonIsElected /\ FencedIsElected /\ LeasedIsElected
  BY DEF OneWinner, WonIsElected, FencedIsElected, LeasedIsElected
<1> QED
  BY <1>1, <1>2 DEF IInv

\* A step that leaves alone what the invariant speaks of.
LEMMA MonitorOnly ==
  ASSUME IInv, UNCHANGED <<electionVars, engineVars, fenceVars, won, heartbeats>>,
         monTerm' \in [Nodes -> Nat]
  PROVE  IInv'
BY DEF IInv, electionVars, engineVars, fenceVars,
   EngineTypeOK, OneWinner, WonIsElected, FencedIsElected, LeasedIsElected

LEMMA KeepsReceiveHeartbeat ==
  ASSUME IInv, NEW n \in Nodes, NEW h \in heartbeats, ReceiveHeartbeat(n, h)
  PROVE  IInv'
<1>1. h.term \in Nat /\ monTerm \in [Nodes -> Nat]
  BY DEF IInv, EngineTypeOK
<1>2. monTerm' \in [Nodes -> Nat]
  BY <1>1 DEF ReceiveHeartbeat, Monitor!RecordHeartbeat, Monitor!monitorVars
<1> QED
  BY <1>2, MonitorOnly DEF ReceiveHeartbeat

LEMMA KeepsHearNewerTerm ==
  ASSUME IInv, NEW n \in Nodes, NEW t \in 1..MaxTerm, HearNewerTerm(n, t)
  PROVE  IInv'
<1> USE DEF HearNewerTerm, Election!Adopt, IInv, EngineTypeOK, Roles, monVars, engineVars, fenceVars
<1>1. EngineTypeOK'
  OBVIOUS
<1>2. WonIsElected'
  BY DEF WonIsElected, Free
<1> QED
  BY <1>1, <1>2 DEF OneWinner, FencedIsElected, LeasedIsElected

LEMMA KeepsWinElection ==
  ASSUME IInv, NEW n \in Nodes, WinElection(n)
  PROVE  IInv'
<1> USE DEF WinElection, Election!Win, IInv, EngineTypeOK, Roles, monVars, engineVars, fenceVars
<1>1. EngineTypeOK'
  OBVIOUS
<1>2. OneWinner'
  BY DEF OneWinner
<1>3. WonIsElected' /\ FencedIsElected' /\ LeasedIsElected'
  BY DEF WonIsElected, FencedIsElected, LeasedIsElected
<1> QED
  BY <1>1, <1>2, <1>3

LEMMA KeepsStepDown ==
  ASSUME IInv, NEW n \in Nodes, NEW t \in 1..MaxTerm, StepDown(n, t)
  PROVE  IInv'
<1> USE DEF StepDown, Monitor!Reset, NoLease, IInv, EngineTypeOK, Roles, electionVars, fenceVars
<1>1. EngineTypeOK'
  BY EngineAssumption
<1>2. OneWinner' /\ WonIsElected'
  BY DEF OneWinner, WonIsElected
<1>3. FencedIsElected'
  BY DEF FencedIsElected, Free, Idle
<1>4. LeasedIsElected'
  BY DEF LeasedIsElected
<1> QED
  BY <1>1, <1>2, <1>3, <1>4

LEMMA KeepsSendHeartbeats ==
  ASSUME IInv, NEW n \in Nodes, SendHeartbeats(n)
  PROVE  IInv'
<1> USE DEF SendHeartbeats, IInv, EngineTypeOK, Roles, electionVars, monVars, fenceVars
<1>1. EngineTypeOK'
  OBVIOUS
<1>2. OneWinner' /\ WonIsElected' /\ LeasedIsElected'
  BY DEF OneWinner, WonIsElected, LeasedIsElected
<1>3. FencedIsElected'
  BY DEF FencedIsElected, Free, Idle
<1> QED
  BY <1>1, <1>2, <1>3

LEMMA KeepsCheckLeader ==
  ASSUME IInv, NEW n \in Nodes, CheckLeader(n)
  PROVE  IInv'
<1> USE DEF CheckLeader, IInv, EngineTypeOK, Roles, fenceVars
<1>1. CASE Monitor!Alarm(n) /\ StartElection(n)
  <2> USE <1>1 DEF StartElection, Election!Campaign, Monitor!Reset
  <2>1. EngineTypeOK'
    OBVIOUS
  <2>2. OneWinner' /\ LeasedIsElected'
    BY DEF OneWinner, LeasedIsElected
  <2>3. WonIsElected'
    BY DEF WonIsElected, Free
  <2>4. FencedIsElected'
    BY DEF FencedIsElected, Free, Idle
  <2> QED
    BY <2>1, <2>2, <2>3, <2>4
<1>2. CASE Monitor!CheckLeaderTimeout(n) /\ UNCHANGED <<electionVars, engineVars>>
  BY <1>2, MonitorOnly DEF Monitor!CheckLeaderTimeout
<1> QED
  BY <1>1, <1>2

LEMMA KeepsBecomeLeader ==
  ASSUME IInv, NEW n \in Nodes, BecomeLeader(n)
  PROVE  IInv'
<1> USE DEF BecomeLeader, IInv, EngineTypeOK, Roles, electionVars, monVars, engineVars
<1>1. EngineTypeOK'
  BY ZenonT(30), SMTT(30)
<1>2. OneWinner' /\ WonIsElected' /\ LeasedIsElected'
  BY DEF OneWinner, WonIsElected, LeasedIsElected
<1>3. FencedIsElected'
  BY DEF FencedIsElected, WonIsElected
<1> QED
  BY <1>1, <1>2, <1>3

LEMMA KeepsFenceSucceeds ==
  ASSUME IInv, NEW n \in Nodes, FenceSucceeds(n)
  PROVE  IInv'
<1> USE DEF FenceSucceeds, IInv, EngineTypeOK, Roles, electionVars, monVars
<1>1. EngineTypeOK'
  BY EngineAssumption
<1>2. OneWinner' /\ WonIsElected' /\ FencedIsElected'
  BY DEF OneWinner, WonIsElected, FencedIsElected
<1>3. LeasedIsElected'
  BY DEF LeasedIsElected, FencedIsElected
<1> QED
  BY <1>1, <1>2, <1>3

LEMMA KeepsFenceFails ==
  ASSUME IInv, NEW n \in Nodes, FenceFails(n)
  PROVE  IInv'
<1> USE DEF FenceFails, IInv, EngineTypeOK, Roles, electionVars, monVars, engineVars
<1>1. EngineTypeOK'
  OBVIOUS
<1>2. OneWinner' /\ WonIsElected' /\ FencedIsElected' /\ LeasedIsElected'
  BY DEF OneWinner, WonIsElected, FencedIsElected, LeasedIsElected
<1> QED
  BY <1>1, <1>2

LEMMA KeepsTick ==
  ASSUME IInv, Tick
  PROVE  IInv'
<1> USE DEF Tick, Monitor!MonitorTick, IInv, EngineTypeOK, Roles, electionVars, fenceVars
<1>1. EngineTypeOK'
  BY EngineAssumption
<1>2. OneWinner' /\ WonIsElected' /\ FencedIsElected'
  BY DEF OneWinner, WonIsElected, FencedIsElected
<1>3. LeasedIsElected'
  BY DEF LeasedIsElected
<1> QED
  BY <1>1, <1>2, <1>3

LEMMA NextIInv == IInv /\ [Next]_vars => IInv'
<1> SUFFICES ASSUME IInv, [Next]_vars PROVE IInv'
  OBVIOUS
<1>1. ASSUME UNCHANGED vars PROVE IInv'
  BY <1>1, MonitorOnly DEF vars, monVars, IInv, EngineTypeOK
<1> QED
  BY <1>1, KeepsReceiveHeartbeat, KeepsHearNewerTerm, KeepsWinElection, KeepsStepDown,
     KeepsSendHeartbeats, KeepsCheckLeader, KeepsBecomeLeader, KeepsFenceSucceeds,
     KeepsFenceFails, KeepsTick DEF Next

\* The inductive invariant: an engine is true to the election it has won from
\* the last vote to the end of its lease.
THEOREM EngineInvariant == Spec => []IInv
  BY InitIInv, NextIInv, PTL DEF Spec

\* Through failed fences, step-downs and late heartbeats, two nodes that may
\* trade (can_execute_trades) never hold a lease of the same term.
THEOREM LeasesUnique == Spec => []LeasesAreUnique
<1>1. IInv => LeasesAreUnique
  BY DEF IInv, EngineTypeOK, OneWinner, LeasedIsElected, LeasesAreUnique, CanTrade
<1> QED
  BY <1>1, EngineInvariant, PTL

-----------------------------------------------------------------------------

\* Only the answer of the witnesses makes a lease longer.
LEMMA LeasesOnlyFromFences ==
  ASSUME IInv, [Next]_vars, NEW n \in Nodes, lease'[n] > lease[n]
  PROVE  FenceSucceeds(n)
<1> USE DEF IInv, EngineTypeOK
<1>1. ASSUME NEW m \in Nodes, NEW t \in 1..MaxTerm, StepDown(m, t) PROVE FALSE
  BY <1>1, EngineAssumption DEF StepDown, NoLease
<1>2. ASSUME NEW m \in Nodes, FenceSucceeds(m) PROVE m = n
  BY <1>2 DEF FenceSucceeds
<1>3. ASSUME Tick PROVE FALSE
  BY <1>3 DEF Tick
<1>4. lease' # lease
  OBVIOUS
<1>5. ASSUME NEW m \in Nodes, CheckLeader(m) PROVE FALSE
  BY <1>5, <1>4 DEF CheckLeader, StartElection, engineVars
<1>6. ASSUME NEW m \in Nodes, BecomeLeader(m) PROVE FALSE
  BY <1>6, <1>4 DEF BecomeLeader, engineVars
<1>7. ASSUME NEW m \in Nodes, \/ \E h \in heartbeats : ReceiveHeartbeat(m, h)
                              \/ \E t \in 1..MaxTerm : HearNewerTerm(m, t)
                              \/ WinElection(m) \/ SendHeartbeats(m) \/ FenceFails(m)
      PROVE  FALSE
  BY <1>7, <1>4 DEF ReceiveHeartbeat, HearNewerTerm, WinElection, SendHeartbeats,
     FenceFails, engineVars
<1> QED
  BY <1>1, <1>2, <1>3, <1>4, <1>5, <1>6, <1>7 DEF Next, vars, engineVars

\* become_leader takes its lease only for a term the node has won, and only
\* once nobody else who won the term before is alive.
THEOREM FencesBeforeLeases == Spec => LeasesFollowFences
<1> DEFINE A == \A n \in Nodes : lease'[n] > lease[n] =>
                  /\ [term |-> leaseTerm'[n], node |-> n] \in elected
                  /\ \A m \in alive' \ {n} :
                       [term |-> leaseTerm'[n] - 1, node |-> m] \notin elected
<1>1. IInv /\ [Next]_vars => A
  <2> SUFFICES ASSUME IInv, [Next]_vars, NEW n \in Nodes, lease'[n] > lease[n]
               PROVE  /\ [term |-> leaseTerm'[n], node |-> n] \in elected
                      /\ \A m \in alive' \ {n} :
                           [term |-> leaseTerm'[n] - 1, node |-> m] \notin elected
    OBVIOUS
  <2>1. FenceSucceeds(n)
    BY LeasesOnlyFromFences
  <2>2. leaseTerm'[n] = term[n] /\ alive' = alive \ Target(n) /\ fencing[n]
    BY <2>1 DEF FenceSucceeds, IInv, EngineTypeOK
  <2> QED
    BY <2>2 DEF IInv, EngineTypeOK, FencedIsElected, Target
<1> QED
  BY <1>1, EngineInvariant, PTL DEF Spec, LeasesFollowFences

-----------------------------------------------------------------------------

\* The engine is a user of the election that keeps to its interface: what it
\* does to terms, roles and winners is a step of Elections, or none.
THEOREM EngineImplementsElections == Spec => Election!Spec
<1>1. Init => Election!Init
  BY DEF Init, Election!Init
<1>2. [Next]_vars => [Election!Next]_(Election!vars)
  <2> SUFFICES ASSUME [Next]_vars PROVE [Election!Next]_(Election!vars)
    OBVIOUS
  <2> USE DEF Election!Next, Election!vars
  <2>1. ASSUME NEW n \in Nodes, NEW t \in 1..MaxTerm, HearNewerTerm(n, t)
        PROVE  Election!Next
    BY <2>1 DEF HearNewerTerm
  <2>2. ASSUME NEW n \in Nodes, WinElection(n) PROVE Election!Next
    BY <2>2 DEF WinElection
  <2>3. ASSUME NEW n \in Nodes, CheckLeader(n) PROVE [Election!Next]_(Election!vars)
    BY <2>3 DEF CheckLeader, StartElection, electionVars
  <2>4. ASSUME UNCHANGED electionVars PROVE UNCHANGED Election!vars
    BY <2>4 DEF electionVars
  <2> QED
    BY <2>1, <2>2, <2>3, <2>4 DEF Next, vars, ReceiveHeartbeat, StepDown, SendHeartbeats,
       BecomeLeader, FenceSucceeds, FenceFails, Tick
<1> QED
  BY <1>1, <1>2, PTL DEF Spec, Election!Spec

-----------------------------------------------------------------------------
(***************************************************************************)
(* One trader.  When elections keep to the succession, two nodes with a    *)
(* stake in the leadership have won terms that follow each other (Apart),  *)
(* and next to a lease there is only the stake of its successor (Later):   *)
(* the fence that turns that stake into a lease kills the predecessor.     *)
(***************************************************************************)

Apart ==
  \A m, n \in Nodes : \A s, t \in Nat :
    m # n /\ Stake(m, s) /\ Stake(n, t) => s = t + 1 \/ t = s + 1

Later ==
  \A m, n \in Nodes : \A t \in Nat :
    m # n /\ m \in alive /\ lease[m] > 0 /\ Stake(n, t) => t = leaseTerm[m] + 1

SInv == IInv /\ Apart /\ Later

\* A node has a stake in terms it has won.
LEMMA StakesAreWon ==
  ASSUME IInv, NEW n \in Nodes, NEW t, Stake(n, t)
  PROVE  t \in Nat /\ [term |-> t, node |-> n] \in elected
BY DEF IInv, EngineTypeOK, WonIsElected, FencedIsElected, LeasedIsElected, Stake

\* Winning is the only step that takes a stake; the others hand it on, from the
\* election won to the fence and from the fence to the lease, or drop it.
LEMMA StakesOnlyWon ==
  ASSUME IInv, [Next]_vars, NEW n \in Nodes, NEW t, Stake(n, t)', ~Stake(n, t)
  PROVE  WinElection(n) /\ t = currentTerm[n]
<1> USE DEF IInv, EngineTypeOK, Stake
<1>1. ASSUME NEW m \in Nodes, NEW h \in heartbeats, ReceiveHeartbeat(m, h)  PROVE FALSE
  BY <1>1 DEF ReceiveHeartbeat, electionVars, engineVars, fenceVars
<1>2. ASSUME NEW m \in Nodes, NEW u \in 1..MaxTerm, HearNewerTerm(m, u)  PROVE FALSE
  BY <1>2 DEF HearNewerTerm, Election!Adopt, Free, engineVars, fenceVars
<1>3. ASSUME NEW m \in Nodes, NEW u \in 1..MaxTerm, StepDown(m, u)  PROVE FALSE
  BY <1>3, EngineAssumption DEF StepDown, Free, Idle, NoLease, electionVars, fenceVars
<1>4. ASSUME NEW m \in Nodes, SendHeartbeats(m)  PROVE FALSE
  BY <1>4 DEF SendHeartbeats, Free, Idle, electionVars, fenceVars
<1>5. ASSUME NEW m \in Nodes, CheckLeader(m)  PROVE FALSE
  BY <1>5 DEF CheckLeader, Free, Idle, StartElection, Election!Campaign, electionVars,
     engineVars, fenceVars
<1>6. ASSUME NEW m \in Nodes, BecomeLeader(m)  PROVE FALSE
  BY <1>6 DEF BecomeLeader, Idle, electionVars, engineVars
<1>7. ASSUME NEW m \in Nodes, FenceSucceeds(m)  PROVE FALSE
  BY <1>7 DEF FenceSucceeds, electionVars
<1>8. ASSUME NEW m \in Nodes, FenceFails(m)  PROVE FALSE
  BY <1>8 DEF FenceFails, electionVars, engineVars
<1>9. ASSUME Tick  PROVE FALSE
  BY <1>9, EngineAssumption DEF Tick, electionVars, fenceVars
<1>10. ASSUME UNCHANGED vars  PROVE FALSE
  BY <1>10 DEF vars, electionVars, engineVars, fenceVars
<1>11. ASSUME NEW m \in Nodes, WinElection(m)  PROVE m = n /\ t = currentTerm[n]
  BY <1>11 DEF WinElection, Election!Win, engineVars, fenceVars
<1> QED
  BY <1>1, <1>2, <1>3, <1>4, <1>5, <1>6, <1>7, <1>8, <1>9, <1>10, <1>11 DEF Next

\* Nobody is brought back to life.
LEMMA DeadStayDead ==
  ASSUME [Next]_vars  PROVE alive' \subseteq alive
BY DEF Next, vars, fenceVars, ReceiveHeartbeat, HearNewerTerm, WinElection, StepDown,
   SendHeartbeats, CheckLeader, BecomeLeader, FenceSucceeds, FenceFails, Tick

\* A lease that still runs is as old as it was, or was just taken.
LEMMA LeasesStay ==
  ASSUME IInv, [Next]_vars, NEW n \in Nodes, lease'[n] > 0, ~FenceSucceeds(n)
  PROVE  lease[n] > 0 /\ leaseTerm'[n] = leaseTerm[n]
<1>1. lease[n] \in 0..LeaseDuration /\ lease'[n] \in 0..LeaseDuration
  BY NextIInv DEF IInv, EngineTypeOK
<1>2. lease[n] > 0
  BY <1>1, LeasesOnlyFromFences, EngineAssumption
<1>3. ASSUME NEW m \in Nodes, FenceSucceeds(m)  PROVE leaseTerm'[n] = leaseTerm[n]
  BY <1>3 DEF FenceSucceeds, IInv, EngineTypeOK
<1>4. ASSUME ~ \E m \in Nodes : FenceSucceeds(m)  PROVE leaseTerm' = leaseTerm
  BY <1>4 DEF Next, vars, engineVars, ReceiveHeartbeat, HearNewerTerm, WinElection, StepDown,
     SendHeartbeats, CheckLeader, StartElection, BecomeLeader, FenceFails, Tick
<1> QED
  BY <1>2, <1>3, <1>4

LEMMA WinKeepsSuccession ==
  ASSUME SInv, [Next]_vars, Succession, NEW n \in Nodes, WinElection(n)
  PROVE  Apart' /\ Later'
<1> USE DEF SInv
<1>1. ~won[n] /\ won'[n] /\ currentTerm[n] \in Nat
  BY DEF WinElection, Free, IInv, EngineTypeOK
<1>2. ASSUME NEW m \in Nodes, m # n, NEW t, Stake(m, t)  PROVE t = currentTerm[n] - 1
  <2>1. t \in {currentTerm[m], term[m], leaseTerm[m]}
    BY <1>2 DEF Stake
  <2> QED
    BY <1>1, <1>2, <2>1 DEF Succession
<1>3. ASSUME NEW m \in Nodes, m # n, NEW t, Stake(m, t)'  PROVE Stake(m, t)
  <2>1. CASE ~Stake(m, t)
    <3>1. WinElection(m)
      BY <1>3, <2>1, StakesOnlyWon
    <3> QED
      BY <1>3, <3>1 DEF WinElection, Free, IInv, EngineTypeOK
  <2> QED
    BY <2>1
<1>4. ASSUME NEW t, Stake(n, t)', ~Stake(n, t)  PROVE t = currentTerm[n]
  BY <1>4, StakesOnlyWon
<1>5. Apart'
  <2> SUFFICES ASSUME NEW m \in Nodes, NEW k \in Nodes, NEW s \in Nat, NEW t \in Nat,
                      m # k, Stake(m, s)', Stake(k, t)'
               PROVE  s = t + 1 \/ t = s + 1
    BY DEF Apart
  <2>1. CASE Stake(m, s) /\ Stake(k, t)
    BY <2>1 DEF Apart
  <2>2. CASE ~Stake(m, s)
    <3>1. m = n /\ s = currentTerm[n]
      BY <1>3, <1>4, <2>2
    <3> QED
      BY <1>1, <1>2, <1>3, <3>1
  <2>3. CASE ~Stake(k, t)
    <3>1. k = n /\ t = currentTerm[n]
      BY <1>3, <1>4, <2>3
    <3> QED
      BY <1>1, <1>2, <1>3, <3>1
  <2> QED
    BY <2>1, <2>2, <2>3
<1>6. Later'
  <2> SUFFICES ASSUME NEW m \in Nodes, NEW k \in Nodes, NEW t \in Nat,
                      m # k, m \in alive', lease'[m] > 0, Stake(k, t)'
               PROVE  t = leaseTerm'[m] + 1
    BY DEF Later
  <2>1. m \in alive /\ lease[m] > 0 /\ leaseTerm'[m] = leaseTerm[m] /\ leaseTerm[m] \in Nat
    BY DEF WinElection, engineVars, fenceVars, IInv, EngineTypeOK
  <2>2. CASE Stake(k, t)
    BY <2>1, <2>2 DEF Later
  <2>3. CASE ~Stake(k, t)
    <3>1. k = n /\ t = currentTerm[n]
      BY <1>3, <1>4, <2>3
    <3>2. leaseTerm[m] = currentTerm[n] - 1
      BY <1>2, <2>1, <3>1 DEF Stake
    <3> QED
      BY <1>1, <2>1, <3>1, <3>2
  <2> QED
    BY <2>2, <2>3
<1> QED
  BY <1>5, <1>6

LEMMA FenceKeepsSuccession ==
  ASSUME SInv, [Next]_vars, NEW n \in Nodes, FenceSucceeds(n)
  PROVE  Later'
<1> USE DEF SInv
<1> SUFFICES ASSUME NEW m \in Nodes, NEW k \in Nodes, NEW t \in Nat,
                    m # k, m \in alive', lease'[m] > 0, Stake(k, t)'
             PROVE  t = leaseTerm'[m] + 1
  BY DEF Later
<1>1. /\ fencing[n] /\ n \in alive /\ alive' = alive \ Target(n)
      /\ term[n] \in Nat /\ leaseTerm'[n] = term[n]
  BY DEF FenceSucceeds, IInv, EngineTypeOK
<1>2. Stake(n, term[n])
  BY <1>1 DEF Stake
<1>3. Stake(k, t)
  <2>1. ~WinElection(k)
    BY DEF FenceSucceeds, WinElection, Free, IInv, EngineTypeOK
  <2> QED
    BY <2>1, StakesOnlyWon
\* Who has a stake in the term before is the fence's target.
<1>4. ASSUME NEW l \in Nodes, NEW s \in Nat, Stake(l, s), term[n] = s + 1  PROVE l \notin alive'
  <2>1. [term |-> s, node |-> l] \in elected /\ s = term[n] - 1
    BY <1>1, <1>4, StakesAreWon
  <2> QED
    BY <1>1, <2>1 DEF Target
<1>5. CASE m = n
  <2>1. term[n] = t + 1 \/ t = term[n] + 1
    BY <1>1, <1>2, <1>3, <1>5 DEF Apart
  <2>2. k \in alive'
    BY DEF Stake
  <2> QED
    BY <1>1, <1>3, <1>4, <1>5, <2>1, <2>2
<1>6. CASE m # n
  <2>1. lease[m] > 0 /\ leaseTerm'[m] = leaseTerm[m] /\ m \in alive /\ leaseTerm[m] \in Nat
    BY <1>1, <1>6 DEF FenceSucceeds, IInv, EngineTypeOK
  <2> QED
    BY <1>3, <2>1 DEF Later
<1> QED
  BY <1>5, <1>6

LEMMA NextSInv == SInv /\ [Next /\ Succession]_vars => SInv'
<1> SUFFICES ASSUME SInv, [Next /\ Succession]_vars PROVE SInv'
  OBVIOUS
<1>1. IInv /\ [Next]_vars /\ IInv'
  BY NextIInv DEF SInv
<1>2. CASE \E n \in Nodes : WinElection(n)
  <2>1. Succession
    <3>1. won' # won
      BY <1>1, <1>2 DEF WinElection, Free, IInv, EngineTypeOK
    <3> QED
      BY <3>1 DEF vars
  <2> QED
    BY <1>1, <1>2, <2>1, WinKeepsSuccession DEF SInv
<1>3. CASE ~ \E n \in Nodes : WinElection(n)
  <2>1. ASSUME NEW n \in Nodes, NEW t, Stake(n, t)'  PROVE Stake(n, t)
    BY <1>1, <1>3, <2>1, StakesOnlyWon
  <2>2. Apart'
    BY <2>1 DEF SInv, Apart
  <2>3. CASE \E n \in Nodes : FenceSucceeds(n)
    BY <1>1, <2>2, <2>3, FenceKeepsSuccession DEF SInv
  <2>4. CASE ~ \E n \in Nodes : FenceSucceeds(n)
    <3>1. alive' \subseteq alive
      BY <1>1, DeadStayDead
    <3>2. Later'
      <4> SUFFICES ASSUME NEW m \in Nodes, NEW k \in Nodes, NEW t \in Nat,
                          m # k, m \in alive', lease'[m] > 0, Stake(k, t)'
                   PROVE  t = leaseTerm'[m] + 1
        BY DEF Later
      <4>1. lease[m] > 0 /\ leaseTerm'[m] = leaseTerm[m]
        BY <1>1, <2>4, LeasesStay
      <4> QED
        BY <2>1, <3>1, <4>1 DEF SInv, Later
    <3> QED
      BY <1>1, <2>2, <3>2 DEF SInv
  <2> QED
    BY <2>3, <2>4
<1> QED
  BY <1>2, <1>3

\* When no term is won past a stake of another node in a term but the one
\* directly before, one node at most may trade at any time (can_execute_trades):
\* the fence of become_leader reaches exactly one term back.
THEOREM SuccessionHasOneTrader == SuccessionSpec => []AtMostOneTrader
<1>1. Init => SInv
  <2> SUFFICES ASSUME Init PROVE Apart /\ Later
    BY InitIInv DEF SInv
  <2> QED
    BY DEF Init, NoLease, Stake, Apart, Later
<1>2. SInv => AtMostOneTrader
  <2> SUFFICES ASSUME SInv, NEW m \in Nodes, NEW n \in Nodes, CanTrade(m), CanTrade(n), m # n
               PROVE  FALSE
    BY DEF AtMostOneTrader
  <2>1. leaseTerm[m] \in Nat /\ leaseTerm[n] \in Nat
    BY DEF SInv, IInv, EngineTypeOK
  <2>2. Stake(m, leaseTerm[m]) /\ Stake(n, leaseTerm[n])
    BY DEF CanTrade, Stake
  <2>3. leaseTerm[n] = leaseTerm[m] + 1 /\ leaseTerm[m] = leaseTerm[n] + 1
    BY <2>1, <2>2 DEF SInv, Later, CanTrade
  <2> QED
    BY <2>1, <2>3
<1> QED
  BY <1>1, <1>2, NextSInv, PTL DEF SuccessionSpec
=============================================================================
