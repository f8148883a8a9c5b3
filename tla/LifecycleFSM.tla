---------------------------- MODULE LifecycleFSM ----------------------------
(***************************************************************************)
(* GlobalLifecycleFSM of nexus_orchestrator (lifecycle/global_fsm.rs): one *)
(* atomic word that holds the state of the whole system.  Every operation  *)
(* is one atomic access, so one step.                                      *)
(***************************************************************************)
VARIABLE fsm

States == {"Bootstrapping", "ShadowMode", "PreFlightChecks", "LiveTrading",
           "GracefulShutdown", "CatastrophicHalt"}

FsmInit == fsm = "Bootstrapping"

\* is_valid_transition
ValidTransition(from, to) ==
  \/ to = "CatastrophicHalt" /\ from # "CatastrophicHalt"
  \/ <<from, to>> \in {<<"Bootstrapping", "ShadowMode">>,
                       <<"ShadowMode", "PreFlightChecks">>,
                       <<"ShadowMode", "GracefulShutdown">>,
                       <<"PreFlightChecks", "LiveTrading">>,
                       <<"PreFlightChecks", "ShadowMode">>,
                       <<"LiveTrading", "GracefulShutdown">>}

\* Does transition(from, to) find the rule and the state it expects?
BugCanTransition(from, to) == ValidTransition(from, to)
CanTransition(from, to) == ValidTransition(from, to) /\ fsm = from

\* transition: a compare-and-swap; its result is CanTransition(from, to).
Transition(from, to) == fsm' = IF CanTransition(from, to) THEN to ELSE fsm

\* force_transition: a store.
BugForceTransition(to) == fsm' = "Terminated"
ForceTransition(to) == fsm' = to
=============================================================================
