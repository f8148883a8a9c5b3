----------------------------- MODULE Elections -----------------------------
(***************************************************************************)
(* What the leader election of nexus_swarm promises to the engine that     *)
(* uses it: terms only grow, and a candidate wins a term only if nobody    *)
(* else has.  A restart forgets the node's term and ends the promise about *)
(* winners.  LeaderElection implements this with votes and messages;       *)
(* SwarmEngine, where nobody restarts, is built on the promise alone.      *)
(***************************************************************************)
EXTENDS Integers

CONSTANTS Nodes, MaxTerm, MaxRestarts

VARIABLES
  currentTerm, nodeState,   \* per node: LeaderElection.current_term and .state
  elected,                  \* elections won, [term, node]
  restarts                  \* restarts so far

vars == <<currentTerm, nodeState, elected, restarts>>

Init ==
  /\ currentTerm = [n \in Nodes |-> 0]
  /\ nodeState   = [n \in Nodes |-> "Follower"]
  /\ elected = {} /\ restarts = 0

\* A node stands for the next term.
Campaign(n) ==
  /\ currentTerm[n] < MaxTerm
  /\ currentTerm' = [currentTerm EXCEPT ![n] = @ + 1]
  /\ nodeState'   = [nodeState   EXCEPT ![n] = "Candidate"]
  /\ UNCHANGED <<elected, restarts>>

\* A node hears of a newer term.
Adopt(n, t) ==
  /\ t > currentTerm[n]
  /\ currentTerm' = [currentTerm EXCEPT ![n] = t]
  /\ nodeState'   = [nodeState   EXCEPT ![n] = "Follower"]
  /\ UNCHANGED <<elected, restarts>>

\* A candidate wins its term; nobody else has, or ever will, before a restart.
BugWin(n) ==
  /\ nodeState[n] = "Candidate"
  /\ nodeState' = [nodeState EXCEPT ![n] = "Leader"]
  /\ elected' = elected \union {[term |-> currentTerm[n], node |-> n]}
  /\ UNCHANGED <<currentTerm, restarts>>
Win(n) ==
  /\ nodeState[n] = "Candidate"
  /\ restarts = 0 => \A e \in elected : e.term = currentTerm[n] => e.node = n
  /\ nodeState' = [nodeState EXCEPT ![n] = "Leader"]
  /\ elected' = elected \union {[term |-> currentTerm[n], node |-> n]}
  /\ UNCHANGED <<currentTerm, restarts>>

Restart(n) ==
  /\ restarts < MaxRestarts
  /\ restarts' = restarts + 1
  /\ currentTerm' = [currentTerm EXCEPT ![n] = 0]
  /\ nodeState'   = [nodeState   EXCEPT ![n] = "Follower"]
  /\ UNCHANGED elected

Next ==
  \E n \in Nodes :
    \/ Campaign(n)
    \/ \E t \in 1..MaxTerm : Adopt(n, t)
    \/ Win(n)
    \/ Restart(n)

Spec == Init /\ [][Next]_vars
=============================================================================
