----------------------- MODULE LeaderElectionProofs -----------------------
(***************************************************************************)
(* Election safety of LeaderElection for any number of nodes, terms and    *)
(* restarts.  A restarted node forgets its vote and may vote again in the  *)
(* same term, so the uniqueness of votes and of winners holds until the    *)
(* first restart; that winners have majorities holds always.               *)
(*                                                                         *)
(* The argument: a node casts one vote per term (VotesUnique) because its  *)
(* votedFor remembers the vote of its current term (VotesRemembered); what *)
(* a candidate counts are such votes (ResponsesHonest, CountHonest); two   *)
(* majorities share a voter (QuorumsMeet).                                 *)
(***************************************************************************)
EXTENDS LeaderElection, FiniteSetTheorems, TLAPS

VotesUnique ==
  \A u, v \in votes : u.term = v.term /\ u.voter = v.voter => u = v

VotesRemembered ==
  \A u \in votes :
    /\ u.term <= currentTerm[u.voter]
    /\ u.term = currentTerm[u.voter] => votedFor[u.voter] = u.candidate

ResponsesHonest ==
  \A m \in responses : m.granted =>
    [term |-> m.term, voter |-> m.voter, candidate |-> m.to] \in votes

CountHonest ==
  \A n \in Nodes : nodeState[n] # "Follower" =>
    \A v \in votesReceived[n] :
      [term |-> currentTerm[n], voter |-> v, candidate |-> n] \in votes

VotersOf(t, c) ==
  {v \in Nodes : [term |-> t, voter |-> v, candidate |-> c] \in votes}

Winners == \A e \in elected : Cardinality(VotersOf(e.term, e.node)) >= Quorum

IInv ==
  /\ TypeOK
  /\ restarts = 0 => VotesUnique /\ VotesRemembered
  /\ ResponsesHonest
  /\ CountHonest
  /\ Winners

-----------------------------------------------------------------------------
\* Two majorities of the nodes have a node in common.
LEMMA QuorumsMeet ==
  ASSUME NEW S \in SUBSET Nodes, NEW T \in SUBSET Nodes,
         Cardinality(S) >= Quorum, Cardinality(T) >= Quorum
  PROVE  S \intersect T # {}
<1>1. /\ IsFiniteSet(Nodes) /\ IsFiniteSet(S) /\ IsFiniteSet(T)
      /\ IsFiniteSet(S \union T)
  BY NodesAssumption, FS_Subset, FS_Union
<1>2. /\ Cardinality(S) \in Nat /\ Cardinality(T) \in Nat
      /\ Cardinality(Nodes) \in Nat /\ Cardinality(S \union T) \in Nat
      /\ Cardinality(S \intersect T) \in Nat
  BY <1>1, FS_CardinalityType, FS_Intersection
<1>3. Cardinality(S \union T) <= Cardinality(Nodes)
  BY <1>1, FS_Subset
<1>4. Cardinality(S \union T)
        = Cardinality(S) + Cardinality(T) - Cardinality(S \intersect T)
  BY <1>1, FS_Union
<1>5. 2 * Quorum > Cardinality(Nodes)
  BY <1>2 DEF Quorum
<1>6. Cardinality(S \intersect T) # 0
  BY <1>2, <1>3, <1>4, <1>5 DEF Quorum
<1> QED BY <1>6, FS_EmptySet

\* Casting more votes never takes a voter away from a candidate.
LEMMA MoreVotesMoreVoters ==
  ASSUME votes \subseteq votes', NEW t, NEW c,
         Cardinality(VotersOf(t, c)) >= Quorum
  PROVE  Cardinality(VotersOf(t, c)') >= Quorum
<1>1. VotersOf(t, c) \subseteq VotersOf(t, c)' /\ VotersOf(t, c)' \subseteq Nodes
  BY DEF VotersOf
<1>2. /\ IsFiniteSet(VotersOf(t, c)')
      /\ Cardinality(VotersOf(t, c)) <= Cardinality(VotersOf(t, c)')
  BY <1>1, NodesAssumption, FS_Subset
<1>3. /\ IsFiniteSet(VotersOf(t, c)) /\ Quorum \in Int
  BY <1>1, <1>2, NodesAssumption, FS_Subset, FS_CardinalityType DEF Quorum
<1>4. Cardinality(VotersOf(t, c)) \in Nat /\ Cardinality(VotersOf(t, c)') \in Nat
  BY <1>2, <1>3, FS_CardinalityType
<1> QED BY <1>2, <1>3, <1>4

-----------------------------------------------------------------------------
LEMMA InitIInv == Init => IInv
  BY NodesAssumption
     DEF Init, IInv, TypeOK, States, NoVote, Vote, VotesUnique,
         VotesRemembered, ResponsesHonest, CountHonest, Winners

\* A step that casts one new vote, by a node that had none in that term, and
\* remembers it.
LEMMA NewVote ==
  ASSUME TypeOK, VotesUnique, VotesRemembered,
         NEW n \in Nodes, NEW c \in Nodes, NEW t \in Nat,
         t > currentTerm[n] \/ (t = currentTerm[n] /\ votedFor[n] = NoVote),
         currentTerm' = [currentTerm EXCEPT ![n] = t],
         votedFor' = [votedFor EXCEPT ![n] = c],
         votes' = votes \union {[term |-> t, voter |-> n, candidate |-> c]}
  PROVE  VotesUnique' /\ VotesRemembered'
<1> DEFINE new == [term |-> t, voter |-> n, candidate |-> c]
<1>1. /\ new.term = t /\ new.voter = n /\ new.candidate = c
      /\ votes' = votes \union {new}
  OBVIOUS
<1> HIDE DEF new
<1>2. ASSUME NEW u \in votes, u.voter = n PROVE u.term < t
  <2>1. /\ u.term \in Nat /\ currentTerm[n] \in Nat /\ u.candidate \in Nodes
        /\ u.term <= currentTerm[n]
        /\ u.term = currentTerm[n] => votedFor[n] = u.candidate
    BY <1>2 DEF TypeOK, Vote, VotesRemembered
  <2>2. u.term = currentTerm[n] => votedFor[n] # NoVote
    BY <2>1, NodesAssumption DEF NoVote
  <2> QED BY <2>1, <2>2 DEF TypeOK
<1>3. VotesUnique'
  <2> SUFFICES ASSUME NEW u \in votes', NEW v \in votes',
                      u.term = v.term, u.voter = v.voter
               PROVE  u = v
    BY DEF VotesUnique
  <2>1. CASE u \in votes /\ v \in votes
    BY <2>1 DEF VotesUnique
  <2>2. CASE u = new /\ v \in votes
    BY <1>1, <1>2, <2>2
  <2>3. CASE u \in votes /\ v = new
    BY <1>1, <1>2, <2>3
  <2> QED BY <1>1, <2>1, <2>2, <2>3
<1>4. VotesRemembered'
  <2> SUFFICES ASSUME NEW u \in votes'
               PROVE  /\ u.term <= currentTerm'[u.voter]
                      /\ u.term = currentTerm'[u.voter]
                           => votedFor'[u.voter] = u.candidate
    BY DEF VotesRemembered
  <2>1. CASE u = new
    BY <1>1, <2>1 DEF TypeOK
  <2>2. CASE u \in votes /\ u.voter = n
    <3>1. u.term < t /\ currentTerm'[n] = t /\ u.term \in Nat
      BY <1>2, <2>2 DEF TypeOK, Vote
    <3> QED BY <3>1, <2>2
  <2>3. CASE u \in votes /\ u.voter # n
    <3>1. u.voter \in Nodes
      BY <2>3 DEF TypeOK, Vote
    <3>2. currentTerm'[u.voter] = currentTerm[u.voter]
          /\ votedFor'[u.voter] = votedFor[u.voter]
      BY <2>3, <3>1 DEF TypeOK
    <3> QED BY <2>3, <3>2 DEF VotesRemembered
  <2> QED BY <1>1, <2>1, <2>2, <2>3
<1> QED BY <1>3, <1>4

LEMMA NextIInv ==
  ASSUME IInv, [Next]_vars
  PROVE  IInv'
<1> USE DEF IInv
<1>1. ASSUME NEW n \in Nodes, StartElection(n) PROVE IInv'
  <2> DEFINE t == currentTerm[n] + 1
  <2>0. t \in Nat /\ t > currentTerm[n]
    BY DEF TypeOK
  <2>1. TypeOK'
    BY <1>1, <2>0 DEF StartElection, TypeOK, States, Vote
  <2>2. restarts' = 0 => VotesUnique' /\ VotesRemembered'
    BY <1>1, <2>0, NewVote DEF StartElection
  <2>3. ResponsesHonest'
    BY <1>1 DEF StartElection, ResponsesHonest
  <2>4. CountHonest'
    <3> SUFFICES ASSUME NEW m \in Nodes, nodeState'[m] # "Follower",
                        NEW v \in votesReceived'[m]
                 PROVE  [term |-> currentTerm'[m], voter |-> v,
                         candidate |-> m] \in votes'
      BY DEF CountHonest
    <3>1. CASE m = n
      BY <1>1, <3>1 DEF StartElection, TypeOK
    <3>2. CASE m # n
      BY <1>1, <3>2 DEF StartElection, TypeOK, CountHonest
    <3> QED BY <3>1, <3>2
  <2>5. Winners'
    <3>1. elected' = elected /\ votes \subseteq votes'
      BY <1>1 DEF StartElection
    <3> QED BY <3>1, MoreVotesMoreVoters DEF Winners
  <2> QED BY <1>1, <2>1, <2>2, <2>3, <2>4, <2>5 DEF StartElection
<1>2. ASSUME NEW n \in Nodes, NEW m \in requests, ProcessVoteRequest(n, m)
      PROVE  IInv'
  <2> DEFINE newer   == m.term > currentTerm[n]
             granted == Grants(n, m.term)
             t       == IF newer THEN m.term ELSE currentTerm[n]
  <2>0. /\ m.term \in Nat /\ m.candidate \in Nodes /\ t \in Nat
        /\ currentTerm[n] \in Nat /\ t >= currentTerm[n]
        /\ granted \in BOOLEAN
    BY DEF TypeOK, Grants
  <2>a. /\ currentTerm' = [currentTerm EXCEPT ![n] = t]
        /\ nodeState' = [nodeState EXCEPT ![n] = IF newer THEN "Follower" ELSE @]
        /\ votedFor' = [votedFor EXCEPT ![n] = IF granted THEN m.candidate ELSE @]
        /\ responses' = responses \union
             {[term |-> t, granted |-> granted, voter |-> n, to |-> m.candidate]}
        /\ votes' = IF granted THEN votes \union
                       {[term |-> t, voter |-> n, candidate |-> m.candidate]}
                    ELSE votes
        /\ UNCHANGED <<votesReceived, requests, restarts, elected>>
    BY <1>2 DEF ProcessVoteRequest
  <2>b. /\ granted => t = m.term
        /\ ~granted => t = currentTerm[n]
        /\ newer => granted
    BY <2>0 DEF Grants
  <2>1. TypeOK'
    BY <2>0, <2>a DEF TypeOK, States, Vote
  <2>2. ASSUME restarts' = 0 PROVE VotesUnique' /\ VotesRemembered'
    <3>0. VotesUnique /\ VotesRemembered
      BY <2>2, <2>a
    <3>1. CASE granted
      <4>1. t > currentTerm[n] \/ (t = currentTerm[n] /\ votedFor[n] = NoVote)
        BY <3>1, <2>b DEF Grants
      <4> HIDE DEF t, granted, newer
      <4> QED BY <3>0, <3>1, <4>1, <2>0, <2>a, NewVote
    <3>2. CASE ~granted
      <4>1. currentTerm' = currentTerm /\ votedFor' = votedFor /\ votes' = votes
        BY <3>2, <2>a, <2>b DEF TypeOK
      <4> QED BY <3>0, <4>1 DEF VotesUnique, VotesRemembered
    <3> QED BY <3>1, <3>2
  <2> HIDE DEF granted, newer, t
  <2>3. ResponsesHonest'
    BY <2>a DEF ResponsesHonest
  <2>4. CountHonest'
    <3> SUFFICES ASSUME NEW k \in Nodes, nodeState'[k] # "Follower",
                        NEW v \in votesReceived'[k]
                 PROVE  [term |-> currentTerm'[k], voter |-> v,
                         candidate |-> k] \in votes'
      BY DEF CountHonest
    <3>1. currentTerm'[k] = currentTerm[k] /\ nodeState[k] # "Follower"
      <4>1. CASE k = n
        <5>1. ~newer
          BY <4>1, <2>a DEF TypeOK
        <5>2. t = currentTerm[n]
          BY <5>1 DEF t
        <5> QED BY <4>1, <5>1, <5>2, <2>a DEF TypeOK
      <4>2. CASE k # n
        BY <4>2, <2>a DEF TypeOK
      <4> QED BY <4>1, <4>2
    <3>2. votes \subseteq votes' /\ votesReceived' = votesReceived
      BY <2>a
    <3> QED BY <3>1, <3>2 DEF CountHonest
  <2>5. Winners'
    <3>1. elected' = elected /\ votes \subseteq votes'
      BY <2>a
    <3> QED BY <3>1, MoreVotesMoreVoters DEF Winners
  <2> QED BY <2>1, <2>2, <2>3, <2>4, <2>5, <2>a
<1>3. ASSUME NEW n \in Nodes, NEW m \in responses, ProcessVoteResponse(n, m)
      PROVE  IInv'
  <2>0. UNCHANGED <<requests, responses, restarts, votes>> /\ m.to = n
        /\ m.term \in Nat /\ m.voter \in Nodes
    BY <1>3 DEF ProcessVoteResponse, TypeOK
  <2>1. ResponsesHonest' /\ (restarts' = 0 => VotesUnique')
    BY <2>0 DEF VotesUnique, ResponsesHonest
  <2>2. CASE AdoptNewerTerm(n, m)
    <3>1. TypeOK'
      BY <2>0, <2>2 DEF AdoptNewerTerm, TypeOK, States
    <3>2. ASSUME restarts' = 0 PROVE VotesRemembered'
      <4>0. VotesRemembered
        BY <2>0, <3>2
      <4> SUFFICES ASSUME NEW u \in votes
                   PROVE  /\ u.term <= currentTerm'[u.voter]
                          /\ u.term = currentTerm'[u.voter]
                               => votedFor'[u.voter] = u.candidate
        BY <2>0 DEF VotesRemembered
      <4>1. u.voter \in Nodes /\ u.term \in Nat /\ currentTerm[u.voter] \in Nat
            /\ u.term <= currentTerm[u.voter]
        BY <4>0 DEF TypeOK, Vote, VotesRemembered
      <4>2. CASE u.voter = n
        BY <2>0, <2>2, <4>1, <4>2 DEF AdoptNewerTerm, TypeOK
      <4>3. CASE u.voter # n
        BY <2>2, <4>0, <4>1, <4>3 DEF AdoptNewerTerm, TypeOK, VotesRemembered
      <4> QED BY <4>2, <4>3
    <3>3. CountHonest'
      BY <2>0, <2>2 DEF AdoptNewerTerm, TypeOK, CountHonest
    <3>4. Winners'
      BY <2>0, <2>2 DEF AdoptNewerTerm, Winners, VotersOf
    <3> QED BY <2>0, <2>1, <3>1, <3>2, <3>3, <3>4
  <2>3. CASE CountVote(n, m)
    <3> DEFINE received == votesReceived[n] \union {m.voter}
               won == Cardinality(received) >= Quorum
    <3>0. /\ m.term = currentTerm[n] /\ nodeState[n] = "Candidate" /\ m.granted
          /\ votesReceived' = [votesReceived EXCEPT ![n] = received]
          /\ nodeState' = [nodeState EXCEPT ![n] = IF won THEN "Leader" ELSE @]
          /\ elected' = IF won
                        THEN elected \union {[term |-> currentTerm[n], node |-> n]}
                        ELSE elected
          /\ UNCHANGED <<currentTerm, votedFor>>
      BY <2>3 DEF CountVote
    <3>1. TypeOK'
      BY <2>0, <3>0 DEF TypeOK, States
    <3>2. restarts' = 0 => VotesRemembered'
      BY <2>0, <3>0 DEF VotesRemembered
    <3>3. [term |-> currentTerm[n], voter |-> m.voter, candidate |-> n] \in votes
      BY <2>0, <3>0 DEF ResponsesHonest
    <3>4. \A v \in received :
            [term |-> currentTerm[n], voter |-> v, candidate |-> n] \in votes
      BY <3>0, <3>3 DEF CountHonest
    <3>5. CountHonest'
      <4> SUFFICES ASSUME NEW k \in Nodes, nodeState'[k] # "Follower",
                          NEW v \in votesReceived'[k]
                   PROVE  [term |-> currentTerm[k], voter |-> v,
                           candidate |-> k] \in votes
        BY <2>0, <3>0 DEF CountHonest
      <4>1. CASE k = n
        BY <3>0, <3>4, <4>1 DEF TypeOK
      <4>2. CASE k # n
        BY <3>0, <4>2 DEF TypeOK, CountHonest
      <4> QED BY <4>1, <4>2
    <3>6. Winners'
      <4>1. \A e \in elected : Cardinality(VotersOf(e.term, e.node)) >= Quorum
        BY DEF Winners
      <4>2. won => Cardinality(VotersOf(currentTerm[n], n)) >= Quorum
        <5>1. received \subseteq VotersOf(currentTerm[n], n)
              /\ VotersOf(currentTerm[n], n) \subseteq Nodes
          BY <2>0, <3>4 DEF VotersOf, TypeOK
        <5>2. IsFiniteSet(VotersOf(currentTerm[n], n))
              /\ Cardinality(received) <= Cardinality(VotersOf(currentTerm[n], n))
          BY <5>1, NodesAssumption, FS_Subset
        <5>3. IsFiniteSet(received)
          BY <5>1, <5>2, FS_Subset
        <5>4. Cardinality(received) \in Nat
              /\ Cardinality(VotersOf(currentTerm[n], n)) \in Nat
              /\ Quorum \in Int
          BY <5>2, <5>3, NodesAssumption, FS_CardinalityType DEF Quorum
        <5> HIDE DEF received
        <5> QED BY <5>2, <5>4
      <4>3. ASSUME NEW e \in elected'
            PROVE  Cardinality(VotersOf(e.term, e.node)) >= Quorum
        BY <3>0, <4>1, <4>2
      <4>4. \A t, c : VotersOf(t, c)' = VotersOf(t, c)
        BY <2>0 DEF VotersOf
      <4>5. Quorum' = Quorum
        BY DEF Quorum
      <4> QED BY <4>3, <4>4, <4>5 DEF Winners
    <3> QED BY <2>0, <2>1, <3>1, <3>2, <3>5, <3>6
  <2> QED BY <1>3, <2>2, <2>3 DEF ProcessVoteResponse
<1>4. ASSUME NEW n \in Nodes, Restart(n) PROVE IInv'
  <2>1. TypeOK' /\ restarts' # 0
    BY <1>4, NodesAssumption DEF Restart, TypeOK, States
  <2>2. ResponsesHonest' /\ Winners'
    BY <1>4 DEF Restart, ResponsesHonest, Winners, VotersOf
  <2>3. CountHonest'
    BY <1>4 DEF Restart, TypeOK, CountHonest
  <2> QED BY <2>1, <2>2, <2>3
<1>5. CASE UNCHANGED vars
  BY <1>5 DEF vars, nodeVars, TypeOK, VotesUnique, VotesRemembered,
              ResponsesHonest, CountHonest, Winners, VotersOf
<1> QED BY <1>1, <1>2, <1>3, <1>4, <1>5 DEF Next

LEMMA SpecIInv == Spec => []IInv
<1>1. IInv /\ [Next]_vars => IInv'
  BY NextIInv
<1> QED BY InitIInv, <1>1, PTL DEF Spec

\* Honest votes and overlapping majorities leave one winner per term.
LEMMA IInvSafe == IInv => ElectionSafety
<1> SUFFICES ASSUME IInv, restarts = 0,
                    NEW e \in elected, NEW f \in elected, e.term = f.term
             PROVE  e = f
  BY DEF ElectionSafety
<1>1. PICK v \in Nodes : v \in VotersOf(e.term, e.node) \intersect
                              VotersOf(f.term, f.node)
  BY QuorumsMeet DEF IInv, Winners, VotersOf
<1>2. e.node = f.node
  BY <1>1 DEF VotersOf, IInv, VotesUnique
<1>3. e \in [term : Nat, node : Nodes] /\ f \in [term : Nat, node : Nodes]
  BY DEF IInv, TypeOK
<1> QED BY <1>2, <1>3

\* Until a node restarts, no term ever has two winners.
THEOREM ElectionSafetyHolds == Spec => []ElectionSafety
  BY SpecIInv, IInvSafe, PTL

\* Until a node restarts, every node votes once per term; and always, every
\* candidate counts only votes cast for it.
THEOREM VotesAreHonestHolds == Spec => []VotesAreHonest
<1>1. IInv => VotesAreHonest
  BY DEF IInv, VotesUnique, CountHonest, VotesAreHonest
<1> QED BY <1>1, SpecIInv, PTL

\* However often nodes restart, a winner was voted for by a majority.
THEOREM WinnersHaveQuorumHolds == Spec => []WinnersHaveQuorum
<1>1. ASSUME IInv, NEW e \in elected
      PROVE  2 * Cardinality(VotersOf(e.term, e.node)) > Cardinality(Nodes)
  <2>1. Cardinality(VotersOf(e.term, e.node)) >= Quorum
    BY <1>1 DEF IInv, Winners
  <2>2. IsFiniteSet(VotersOf(e.term, e.node)) /\ IsFiniteSet(Nodes)
    BY NodesAssumption, FS_Subset DEF VotersOf
  <2>3. Cardinality(VotersOf(e.term, e.node)) \in Nat /\ Cardinality(Nodes) \in Nat
    BY <2>2, FS_CardinalityType
  <2> QED BY <2>1, <2>3 DEF Quorum
<1>2. IInv => WinnersHaveQuorum
  BY <1>1 DEF VotersOf, WinnersHaveQuorum
<1> QED BY <1>2, SpecIInv, PTL

-----------------------------------------------------------------------------
\* No term beyond MaxTerm is campaigned for, asked about or answered.
Bounded ==
  /\ \A n \in Nodes : currentTerm[n] <= MaxTerm
  /\ \A m \in requests : m.term <= MaxTerm
  /\ \A m \in responses : m.term <= MaxTerm

LEMMA NextBounded ==
  ASSUME TypeOK, Bounded, [Next]_vars
  PROVE  Bounded'
<1> USE BoundsAssumption DEF TypeOK, Bounded
<1>1. ASSUME NEW n \in Nodes, StartElection(n) PROVE Bounded'
  BY <1>1 DEF StartElection
<1>2. ASSUME NEW n \in Nodes, NEW m \in requests, ProcessVoteRequest(n, m)
      PROVE  Bounded'
  BY <1>2 DEF ProcessVoteRequest
<1>3. ASSUME NEW n \in Nodes, NEW m \in responses, ProcessVoteResponse(n, m)
      PROVE  Bounded'
  BY <1>3 DEF ProcessVoteResponse, AdoptNewerTerm, CountVote
<1>4. ASSUME NEW n \in Nodes, Restart(n) PROVE Bounded'
  BY <1>4 DEF Restart
<1>5. CASE UNCHANGED vars
  BY <1>5 DEF vars, nodeVars
<1> QED BY <1>1, <1>2, <1>3, <1>4, <1>5 DEF Next

\* Every step is a campaign, a newer term heard of, a win or a restart, or
\* changes nothing the engine can see.
LEMMA StepImplements ==
  ASSUME TypeOK, Bounded, IInv', [Next]_vars
  PROVE  [Contract!Next]_Contract!vars
<1> USE DEF TypeOK, Contract!Next, Contract!vars
<1>1. ASSUME NEW n \in Nodes, StartElection(n) PROVE Contract!Next
  <2>1. currentTerm[n] < MaxTerm
    BY <1>1, BoundsAssumption DEF StartElection
  <2>2. Contract!Campaign(n)
    BY <1>1, <2>1 DEF StartElection, Contract!Campaign
  <2> QED BY <2>2
<1>2. ASSUME NEW n \in Nodes, NEW m \in requests, ProcessVoteRequest(n, m)
      PROVE  [Contract!Next]_Contract!vars
  <2>1. CASE m.term > currentTerm[n]
    <3>1. Contract!Adopt(n, m.term)
      BY <1>2, <2>1 DEF ProcessVoteRequest, Contract!Adopt
    <3>2. m.term \in 1..MaxTerm
      BY <2>1, BoundsAssumption DEF Bounded
    <3> QED BY <3>1, <3>2
  <2>2. CASE ~(m.term > currentTerm[n])
    BY <1>2, <2>2 DEF ProcessVoteRequest
  <2> QED BY <2>1, <2>2
<1>3. ASSUME NEW n \in Nodes, NEW m \in responses, ProcessVoteResponse(n, m)
      PROVE  [Contract!Next]_Contract!vars
  <2>1. CASE AdoptNewerTerm(n, m)
    <3>1. Contract!Adopt(n, m.term)
      BY <1>3, <2>1 DEF ProcessVoteResponse, AdoptNewerTerm, Contract!Adopt
    <3>2. m.term \in 1..MaxTerm
      BY <2>1, BoundsAssumption DEF AdoptNewerTerm, Bounded
    <3> QED BY <3>1, <3>2
  <2>2. CASE CountVote(n, m)
    <3> DEFINE received == votesReceived[n] \union {m.voter}
               win      == [term |-> currentTerm[n], node |-> n]
    <3>1. CASE ~(Cardinality(received) >= Quorum)
      BY <1>3, <2>2, <3>1 DEF ProcessVoteResponse, CountVote
    <3>2. CASE Cardinality(received) >= Quorum
      <4>1. /\ nodeState[n] = "Candidate" /\ currentTerm' = currentTerm
            /\ nodeState' = [nodeState EXCEPT ![n] = "Leader"]
            /\ elected' = elected \union {win} /\ restarts' = restarts
        BY <1>3, <2>2, <3>2 DEF CountVote, ProcessVoteResponse
      <4>2. ASSUME restarts = 0, NEW e \in elected, e.term = currentTerm[n]
            PROVE  e.node = n
        <5>1. e \in elected' /\ win \in elected' /\ e.term = win.term
          BY <4>1, <4>2
        <5>2. ElectionSafety'
          BY IInvSafe, PTL
        <5>3. e = win
          BY <4>1, <4>2, <5>1, <5>2 DEF ElectionSafety
        <5> QED BY <5>3
      <4>3. Contract!Win(n)
        BY <4>1, <4>2 DEF Contract!Win
      <4> QED BY <4>3
    <3> QED BY <3>1, <3>2
  <2> QED BY <1>3, <2>1, <2>2 DEF ProcessVoteResponse
<1>4. ASSUME NEW n \in Nodes, Restart(n) PROVE Contract!Next
  BY <1>4 DEF Restart, Contract!Restart
<1>5. CASE UNCHANGED vars
  BY <1>5 DEF vars, nodeVars
<1> QED BY <1>1, <1>2, <1>3, <1>4, <1>5 DEF Next

\* Votes and messages implement the elections the swarm engine is built on:
\* the promise of Elections, for any cluster and any restarts.
THEOREM ElectionsImplemented == Spec => ImplementsElections
<1> DEFINE Inv == IInv /\ Bounded
<1>1. Init => Inv
  BY InitIInv, BoundsAssumption DEF Init, Bounded
<1>2. Inv /\ [Next]_vars => Inv'
  BY NextIInv, NextBounded DEF IInv
<1>3. Init => Contract!Init
  BY DEF Init, Contract!Init
<1>4. Inv /\ Inv' /\ [Next]_vars => [Contract!Next]_Contract!vars
  BY StepImplements DEF IInv
<1> QED
  BY <1>1, <1>2, <1>3, <1>4, PTL
     DEF Spec, ImplementsElections, Contract!Spec
=============================================================================
