--------------------------- MODULE StonithFencer ---------------------------
(***************************************************************************)
(* STONITHFencer of nexus_swarm (fencing/stonith_executor.rs): fencing the *)
(* leader of an earlier term through external witnesses, with several      *)
(* callers at once.  Each atomic access and each await of execute_fence is *)
(* a step of its own.                                                      *)
(*                                                                         *)
(* compare_exchange(false, true) returns Ok(false) when it set the flag    *)
(* and Err when the flag was set already; the code negates                 *)
(* unwrap_or(true), so the caller that sets the flag is turned away as     *)
(* "already in progress" and a caller that finds it set goes on.           *)
(*                                                                         *)
(* External: the witnesses and the leaders.  A witness that accepts the    *)
(* request kills the leader of that term.  A refusal is any HTTP status    *)
(* that is not a success: the fencer takes it for "already dead", but it   *)
(* may be any error of the witness.                                        *)
(***************************************************************************)
EXTENDS Integers, FiniteSets

CONSTANTS
  Callers,    \* the concurrent calls of execute_fence
  Witnesses,  \* quorum_witness_urls
  Terms,      \* the previous_term values a caller may pass
  Enabled     \* stonith_enabled

ASSUME FencerAssumption ==
  /\ IsFiniteSet(Witnesses) /\ Terms \subseteq Nat \ {0}
  /\ Enabled \in BOOLEAN

VARIABLES
  fencingInProgress, lastFenceTerm, lastFenceSuccess,   \* the shared atomics
  pc,        \* where each caller is
  term,      \* its previous_term
  answers,   \* what each witness answered it
  alive,     \* terms whose leader still runs
  misjudged  \* history: terms a witness refused to fence while it still ran

leaders == <<alive, misjudged>>
vars == <<fencingInProgress, lastFenceTerm, lastFenceSuccess, pc, term,
          answers, leaders>>

\* Where a caller is; the last three are what its call returned.
InFlight == {"asking", "cleared", "termStored", "failing"}
Returned == {"busy", "error", "fenced"}
Answers  == {"none", "fenced", "refused", "lost"}

Init ==
  /\ fencingInProgress = FALSE
  /\ lastFenceTerm = 0 /\ lastFenceSuccess = FALSE
  /\ pc = [c \in Callers |-> "idle"]
  /\ term \in [Callers -> Terms]
  /\ answers = [c \in Callers |-> [w \in Witnesses |-> "none"]]
  /\ alive = Terms /\ misjudged = {}

\* The compare_exchange at the head of execute_fence.
Call(c) ==
  /\ pc[c] = "idle"
  /\ fencingInProgress' = TRUE
  /\ pc' = [pc EXCEPT ![c] = IF fencingInProgress THEN "asking" ELSE "busy"]
  /\ UNCHANGED <<lastFenceTerm, lastFenceSuccess, term, answers, leaders>>

\* _fence_via_witness: the answer of one witness, or its timeout.
AskWitness(c, w) ==
  /\ Enabled /\ pc[c] = "asking" /\ answers[c][w] = "none"
  /\ \/ /\ answers' = [answers EXCEPT ![c][w] = "fenced"]
        /\ alive' = alive \ {term[c]} /\ UNCHANGED misjudged
     \/ /\ answers' = [answers EXCEPT ![c][w] = "refused"]
        /\ misjudged' = misjudged \union (alive \intersect {term[c]})
        /\ UNCHANGED alive
     \/ /\ answers' = [answers EXCEPT ![c][w] = "lost"]
        /\ alive' \in {alive, alive \ {term[c]}} /\ UNCHANGED misjudged
  /\ UNCHANGED <<fencingInProgress, lastFenceTerm, lastFenceSuccess, pc, term>>

Count(c, a) == Cardinality({w \in Witnesses : answers[c][w] = a})
Required    == Cardinality(Witnesses) \div 2 + 1

\* _execute_fence_internal: is the answer Success or AlreadyDead?
BugConfirmed(c) ==
  \/ ~Enabled
  \/ Count(c, "fenced") >= Required
  \/ Count(c, "refused") + Count(c, "lost") >= Required
Confirmed(c) ==
  \/ ~Enabled
  \/ /\ Count(c, "lost") = 0
     /\ Count(c, "fenced") >= Required \/ Count(c, "refused") >= Required

\* Every witness was asked: the flag is cleared.
ClearFlag(c) ==
  /\ pc[c] = "asking"
  /\ Enabled => Count(c, "none") = 0
  /\ fencingInProgress' = FALSE
  /\ pc' = [pc EXCEPT ![c] = IF Confirmed(c) THEN "cleared" ELSE "failing"]
  /\ UNCHANGED <<lastFenceTerm, lastFenceSuccess, term, answers, leaders>>

BugStoreTerm(c) ==
  /\ pc[c] \in {"cleared", "failing"}
  /\ lastFenceTerm' = term[c]
  /\ pc' = [pc EXCEPT ![c] = IF @ = "cleared" THEN "termStored" ELSE "error"]
  /\ UNCHANGED <<fencingInProgress, lastFenceSuccess, term, answers, leaders>>
StoreTerm(c) ==
  /\ pc[c] = "cleared"
  /\ lastFenceTerm' = term[c]
  /\ pc' = [pc EXCEPT ![c] = "termStored"]
  /\ UNCHANGED <<fencingInProgress, lastFenceSuccess, term, answers, leaders>>

StoreSuccess(c) ==
  /\ pc[c] = "termStored"
  /\ lastFenceSuccess' = TRUE
  /\ pc' = [pc EXCEPT ![c] = "fenced"]
  /\ UNCHANGED <<fencingInProgress, lastFenceTerm, term, answers, leaders>>

StoreFailure(c) ==
  /\ pc[c] = "failing"
  /\ lastFenceSuccess' = FALSE
  /\ pc' = [pc EXCEPT ![c] = "error"]
  /\ UNCHANGED <<fencingInProgress, lastFenceTerm, term, answers, leaders>>

\* reset, "only called during controlled shutdown": with no call in flight.
Reset ==
  /\ \A c \in Callers : pc[c] \notin InFlight
  /\ fencingInProgress' = FALSE
  /\ lastFenceTerm' = 0 /\ lastFenceSuccess' = FALSE
  /\ UNCHANGED <<pc, term, answers, leaders>>

\* The caller calls again, for the same or another term.
CallAgain(c) ==
  /\ pc[c] \in Returned
  /\ \E t \in Terms : term' = [term EXCEPT ![c] = t]
  /\ pc' = [pc EXCEPT ![c] = "idle"]
  /\ answers' = [answers EXCEPT ![c] = [w \in Witnesses |-> "none"]]
  /\ UNCHANGED <<fencingInProgress, lastFenceTerm, lastFenceSuccess, leaders>>

Next ==
  \/ \E c \in Callers :
       \/ Call(c)
       \/ \E w \in Witnesses : AskWitness(c, w)
       \/ ClearFlag(c)
       \/ StoreTerm(c)
       \/ StoreSuccess(c)
       \/ StoreFailure(c)
       \/ CallAgain(c)
  \/ Reset

Spec == Init /\ [][Next]_vars

-----------------------------------------------------------------------------
TypeOK ==
  /\ fencingInProgress \in BOOLEAN /\ lastFenceSuccess \in BOOLEAN
  /\ lastFenceTerm \in Terms \union {0}
  /\ pc \in [Callers -> {"idle"} \union InFlight \union Returned]
  /\ term \in [Callers -> Terms]
  /\ answers \in [Callers -> [Witnesses -> Answers]]
  /\ alive \subseteq Terms /\ misjudged \subseteq Terms

WasFencingSuccessful(t) == lastFenceTerm = t /\ lastFenceSuccess

\* "MUST return an error if it cannot confirm the target is definitively
\* dead": a call that returns Ok has killed the leader of the term it names,
\* unless a witness has misjudged that very leader.  (A disabled fencer
\* confirms without asking.)
Dead(t) == t \notin alive \ misjudged
FencedIsDead ==
  Enabled => \A c \in Callers : pc[c] = "fenced" => Dead(term[c])

\* was_fencing_successful never speaks for a term whose leader lives, although
\* the term and the success flag are stored in two steps and other calls,
\* failing or succeeding for other terms, store theirs in between.
SuccessIsGenuine ==
  Enabled => \A t \in Terms : WasFencingSuccessful(t) => Dead(t)
=============================================================================
