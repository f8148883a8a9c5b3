-------------------------- MODULE LeaderElection --------------------------
(***************************************************************************)
(* Leader election of nexus_swarm (raft/leader_election.rs): one           *)
(* LeaderElection per node and the vote messages between them.             *)
(*                                                                         *)
(* The transport is external: src/ only says "in production, broadcast".   *)
(* Messages sent stay in a set, so each may be delivered late, out of      *)
(* order, more than once or never.  A response is addressed to the node    *)
(* whose request it answers.  The state of LeaderElection is in memory     *)
(* only: a restarted node starts from LeaderElection::new.                 *)
(***************************************************************************)
EXTENDS Integers, FiniteSets

CONSTANTS
  Nodes,        \* cluster_nodes, the node itself included
  MaxTerm,      \* bound on the terms elections are started in, plus restarts
  MaxRestarts   \* bound on crashes and restarts

ASSUME NodesAssumption == IsFiniteSet(Nodes) /\ "none" \notin Nodes
ASSUME BoundsAssumption == MaxTerm \in Nat /\ MaxRestarts \in Nat

VARIABLES
  currentTerm, votedFor, votesReceived, nodeState,  \* fields, per node
  requests,   \* RequestVote messages sent: [term, candidate]
  responses,  \* VoteResponse messages sent: [term, granted, voter, to]
  restarts,   \* restarts so far
  votes,      \* history: votes cast, [term, voter, candidate]
  elected     \* history: elections won, [term, node]

nodeVars == <<currentTerm, votedFor, votesReceived, nodeState>>
vars == <<nodeVars, requests, responses, restarts, votes, elected>>

NoVote == "none"
States == {"Follower", "Candidate", "Leader"}

\* quorum_size in process_vote_response.
Quorum == Cardinality(Nodes) \div 2 + 1

Init ==
  /\ currentTerm   = [n \in Nodes |-> 0]
  /\ votedFor      = [n \in Nodes |-> NoVote]
  /\ votesReceived = [n \in Nodes |-> {}]
  /\ nodeState     = [n \in Nodes |-> "Follower"]
  /\ requests = {} /\ responses = {}
  /\ restarts = 0
  /\ votes = {} /\ elected = {}

\* start_election
StartElection(n) ==
  /\ currentTerm[n] + restarts < MaxTerm
  /\ currentTerm'   = [currentTerm   EXCEPT ![n] = @ + 1]
  /\ nodeState'     = [nodeState     EXCEPT ![n] = "Candidate"]
  /\ votedFor'      = [votedFor      EXCEPT ![n] = n]
  /\ votesReceived' = [votesReceived EXCEPT ![n] = {n}]
  /\ requests' = requests \union {[term |-> currentTerm[n] + 1, candidate |-> n]}
  /\ votes' = votes \union
       {[term |-> currentTerm[n] + 1, voter |-> n, candidate |-> n]}
  /\ UNCHANGED <<responses, restarts, elected>>

\* Whether process_vote_request grants its vote to a request of term t: the
\* vote is cleared first when t is newer.
BugGrants(n, t) == t >= currentTerm[n]
Grants(n, t) == t > currentTerm[n] \/ (t = currentTerm[n] /\ votedFor[n] = NoVote)

\* process_vote_request on node n, with the response it returns.
ProcessVoteRequest(n, m) ==
  LET newer   == m.term > currentTerm[n]
      granted == Grants(n, m.term)
      term    == IF newer THEN m.term ELSE currentTerm[n]
  IN
  /\ m.candidate # n
  /\ currentTerm' = [currentTerm EXCEPT ![n] = term]
  /\ nodeState'   = [nodeState   EXCEPT ![n] = IF newer THEN "Follower" ELSE @]
  /\ votedFor'    = [votedFor    EXCEPT ![n] = IF granted THEN m.candidate ELSE @]
  /\ responses' = responses \union
       {[term |-> term, granted |-> granted, voter |-> n, to |-> m.candidate]}
  /\ votes' = IF granted
              THEN votes \union
                     {[term |-> term, voter |-> n, candidate |-> m.candidate]}
              ELSE votes
  /\ UNCHANGED <<votesReceived, requests, restarts, elected>>

\* process_vote_response: a newer term makes the node a follower without a
\* vote; an answer of another term, or to a node that is no longer a candidate,
\* is ignored; a granted vote counts once per voter.
AdoptNewerTerm(n, m) ==
  /\ m.term > currentTerm[n]
  /\ currentTerm' = [currentTerm EXCEPT ![n] = m.term]
  /\ nodeState'   = [nodeState   EXCEPT ![n] = "Follower"]
  /\ votedFor'    = [votedFor    EXCEPT ![n] = NoVote]
  /\ UNCHANGED <<votesReceived, elected>>

BugCountVote(n, m) ==
  /\ nodeState[n] = "Candidate" /\ m.granted
  /\ LET received == votesReceived[n] \union {m.voter}
         won      == Cardinality(received) >= Quorum
     IN  /\ votesReceived' = [votesReceived EXCEPT ![n] = received]
         /\ nodeState' = [nodeState EXCEPT ![n] = IF won THEN "Leader" ELSE @]
         /\ elected' = IF won
                       THEN elected \union {[term |-> currentTerm[n], node |-> n]}
                       ELSE elected
  /\ UNCHANGED <<currentTerm, votedFor>>

CountVote(n, m) ==
  /\ m.term = currentTerm[n] /\ nodeState[n] = "Candidate" /\ m.granted
  /\ LET received == votesReceived[n] \union {m.voter}
         won      == Cardinality(received) >= Quorum
     IN  /\ votesReceived' = [votesReceived EXCEPT ![n] = received]
         /\ nodeState' = [nodeState EXCEPT ![n] = IF won THEN "Leader" ELSE @]
         /\ elected' = IF won
                       THEN elected \union {[term |-> currentTerm[n], node |-> n]}
                       ELSE elected
  /\ UNCHANGED <<currentTerm, votedFor>>

ProcessVoteResponse(n, m) ==
  /\ m.to = n
  /\ AdoptNewerTerm(n, m) \/ CountVote(n, m)
  /\ UNCHANGED <<requests, responses, restarts, votes>>

\* A crash and LeaderElection::new.
Restart(n) ==
  /\ restarts < MaxRestarts
  /\ \A m \in Nodes : currentTerm[m] + restarts < MaxTerm
  /\ restarts' = restarts + 1
  /\ currentTerm'   = [currentTerm   EXCEPT ![n] = 0]
  /\ nodeState'     = [nodeState     EXCEPT ![n] = "Follower"]
  /\ votedFor'      = [votedFor      EXCEPT ![n] = NoVote]
  /\ votesReceived' = [votesReceived EXCEPT ![n] = {}]
  /\ UNCHANGED <<requests, responses, votes, elected>>

Next ==
  \E n \in Nodes :
    \/ StartElection(n)
    \/ \E m \in requests : ProcessVoteRequest(n, m)
    \/ \E m \in responses : ProcessVoteResponse(n, m)
    \/ Restart(n)

Spec == Init /\ [][Next]_vars

-----------------------------------------------------------------------------
Vote == [term : Nat, voter : Nodes, candidate : Nodes]

TypeOK ==
  /\ currentTerm   \in [Nodes -> Nat]
  /\ votedFor      \in [Nodes -> Nodes \union {NoVote}]
  /\ votesReceived \in [Nodes -> SUBSET Nodes]
  /\ nodeState     \in [Nodes -> States]
  /\ requests  \subseteq [term : Nat, candidate : Nodes]
  /\ responses \subseteq [term : Nat, granted : BOOLEAN, voter : Nodes, to : Nodes]
  /\ restarts \in Nat
  /\ votes   \subseteq Vote
  /\ elected \subseteq [term : Nat, node : Nodes]

\* Until a node restarts, no term ever has two winners, however the vote
\* messages of several rounds are delayed, repeated or lost.
ElectionSafety ==
  restarts = 0 => \A e, f \in elected : e.term = f.term => e = f

\* Even when nodes lose their votes in a crash, whoever wins a term was voted
\* for, in that very term, by a majority of the nodes.
WinnersHaveQuorum ==
  \A e \in elected :
    2 * Cardinality({v \in Nodes : [term |-> e.term, voter |-> v,
                                    candidate |-> e.node] \in votes})
      > Cardinality(Nodes)

\* What a candidate has counted are votes really cast for it in its term, and
\* until a node restarts, each node votes for one candidate per term.
VotesAreHonest ==
  /\ restarts = 0 => \A u, v \in votes : u.term = v.term /\ u.voter = v.voter => u = v
  /\ \A n \in Nodes : nodeState[n] # "Follower" =>
       \A v \in votesReceived[n] :
         [term |-> currentTerm[n], voter |-> v, candidate |-> n] \in votes

\* Votes and messages keep the promise of Elections: terms are campaigned for
\* or heard of, one by one, and a candidate only wins what nobody else has.
Contract == INSTANCE Elections
ImplementsElections == Contract!Spec
=============================================================================
