------------------------------ MODULE LiveFire ------------------------------
(***************************************************************************)
(* Going live and coming back in nexus_orchestrator: MasterOrchestrator    *)
(* (lib.rs), ShadowToLivePromoter and LiveFireAtomicGate (preflight/) over *)
(* the LifecycleFSM, used by several threads at once.  One action per      *)
(* atomic access that another thread can see.                              *)
(*                                                                         *)
(* lib.rs hands clones of the FSM and of the gate to its parts; neither    *)
(* type can be cloned, and one FSM and one gate shared by all is what the  *)
(* code means.  Boot stages and preflight checks are placeholders for      *)
(* subsystems that src/ does not call: each may succeed or fail.  The      *)
(* gate's epoch and last token are written and never compared; they are    *)
(* left out, and the pass with warnings is the pass it is treated as.      *)
(***************************************************************************)
EXTENDS LifecycleFSM

CONSTANT Threads

VARIABLES
  enabled, lockdown,   \* LiveFireAtomicGate.is_live_enabled, .lockdown_mode
  step,                \* what each thread does next
  seen,                \* the state a thread in shutdown has read
  late,                \* history: execute_if_live calls begun under lockdown
  aborted              \* history: has anybody called abort_promotion?

gate == <<enabled, lockdown>>
liveHistory == <<late, aborted>>
liveVars == <<fsm, gate, step, seen, liveHistory>>

LiveInit ==
  /\ FsmInit
  /\ enabled = FALSE /\ lockdown = FALSE
  /\ step = [t \in Threads |-> "idle"]
  /\ seen = [t \in Threads |-> "Bootstrapping"]
  /\ late = {} /\ aborted = FALSE

Steps(t, here, there) == step[t] = here /\ step' = [step EXCEPT ![t] = there]

\* One load or compare-and-swap of the FSM, branching on what it finds.
Branch(t, here, found, there, otherwise) ==
  Steps(t, here, IF found THEN there ELSE otherwise)

\* is_live_enabled := FALSE, by a swap or a store.
Disable ==
  /\ enabled' = FALSE
  /\ UNCHANGED <<fsm, lockdown, seen, late>>

-----------------------------------------------------------------------------
(* MasterOrchestrator::boot.                                               *)

Boot(t) ==
  Steps(t, "idle", "booting") /\ UNCHANGED <<fsm, gate, seen, liveHistory>>

\* A stage fails or times out.
BootFails(t) ==
  Steps(t, "booting", "idle") /\ UNCHANGED <<fsm, gate, seen, liveHistory>>

\* After four stages that succeeded.
BootCompletes(t) ==
  /\ Steps(t, "booting", "idle")
  /\ Transition("Bootstrapping", "ShadowMode")
  /\ UNCHANGED <<gate, seen, liveHistory>>

-----------------------------------------------------------------------------
(* ShadowToLivePromoter.                                                   *)

\* promote_to_live, step 1; in any other state it returns.
Promote(t) ==
  /\ fsm = "ShadowMode"
  /\ Steps(t, "idle", "preflight")
  /\ UNCHANGED <<fsm, gate, seen, liveHistory>>

\* Step 2.
EnterPreFlight(t) ==
  /\ Branch(t, "preflight", CanTransition("ShadowMode", "PreFlightChecks"),
            "checklist", "idle")
  /\ Transition("ShadowMode", "PreFlightChecks")
  /\ UNCHANGED <<gate, seen, liveHistory>>

\* Step 3: execute_all_checks returns.
ExecuteAllChecks(t) ==
  /\ \E passed \in BOOLEAN : Branch(t, "checklist", passed, "lockdown?", "back")
  /\ UNCHANGED <<fsm, gate, seen, liveHistory>>

\* Step 4: try_promote_to_live, its loads of lockdown_mode and is_live_enabled
\* and its store.
CheckLockdown(t) ==
  /\ Branch(t, "lockdown?", lockdown, "back", "enabled?")
  /\ UNCHANGED <<fsm, gate, seen, liveHistory>>

CheckEnabled(t) ==
  /\ Branch(t, "enabled?", enabled, "back", "enable")
  /\ UNCHANGED <<fsm, gate, seen, liveHistory>>

OpenGate(t) ==
  /\ Steps(t, "enable", "golive")
  /\ enabled' = TRUE
  /\ UNCHANGED <<fsm, lockdown, seen, liveHistory>>

\* Step 5, and the gate closed again when it fails.
GoLive(t) ==
  /\ Branch(t, "golive", CanTransition("PreFlightChecks", "LiveTrading"),
            "idle", "undo")
  /\ Transition("PreFlightChecks", "LiveTrading")
  /\ UNCHANGED <<gate, seen, liveHistory>>

BugUndoEnable(t) ==
  Steps(t, "undo", "idle") /\ UNCHANGED <<fsm, gate, seen, liveHistory>>
UndoEnable(t) == Steps(t, "undo", "idle") /\ Disable /\ UNCHANGED aborted

\* Back to ShadowMode, after a failed step 3 or 4 and in abort_promotion.
ReturnToShadow(t) ==
  /\ Steps(t, "back", "idle")
  /\ Transition("PreFlightChecks", "ShadowMode")
  /\ UNCHANGED <<gate, seen, liveHistory>>

\* abort_promotion, called by anybody who holds the promoter.
AbortPromotion(t) == Steps(t, "idle", "back") /\ Disable /\ aborted' = TRUE

-----------------------------------------------------------------------------
(* MasterOrchestrator::shutdown and ::catastrophic_halt.                   *)

ShutDown(t) ==
  /\ Branch(t, "idle", fsm = "LiveTrading", "disable", "stop")
  /\ seen' = [seen EXCEPT ![t] = fsm]
  /\ UNCHANGED <<fsm, gate, liveHistory>>

DisableLive(t) == Steps(t, "disable", "stop") /\ Disable /\ UNCHANGED aborted

\* The result of the transition is not looked at.
Stop(t) ==
  /\ Steps(t, "stop", "idle")
  /\ Transition(seen[t], "GracefulShutdown")
  /\ UNCHANGED <<gate, seen, liveHistory>>

\* catastrophic_halt: force_lockdown's two stores, then force_transition.
Halt(t) == Steps(t, "idle", "lock") /\ Disable /\ UNCHANGED aborted

Lock(t) ==
  /\ Steps(t, "lock", "force")
  /\ lockdown' = TRUE
  /\ UNCHANGED <<fsm, enabled, seen, liveHistory>>

ForceHalt(t) ==
  /\ Steps(t, "force", "idle")
  /\ ForceTransition("CatastrophicHalt")
  /\ UNCHANGED <<gate, seen, liveHistory>>

-----------------------------------------------------------------------------
(* LiveFireAtomicGate::execute_if_live.                                    *)

Trade(t) ==
  /\ Branch(t, "idle", enabled, "unlocked?", "idle")
  /\ late' = IF lockdown THEN late \union {t} ELSE late \ {t}
  /\ UNCHANGED <<fsm, gate, seen, aborted>>

BugCheckUnlocked(t) ==
  /\ Steps(t, "unlocked?", "trading")
  /\ UNCHANGED <<fsm, gate, seen, liveHistory>>
CheckUnlocked(t) ==
  /\ Branch(t, "unlocked?", lockdown, "idle", "trading")
  /\ UNCHANGED <<fsm, gate, seen, liveHistory>>

\* The closure runs.
EndTrade(t) ==
  Steps(t, "trading", "idle") /\ UNCHANGED <<fsm, gate, seen, liveHistory>>

-----------------------------------------------------------------------------
LiveNext ==
  \E t \in Threads :
    \/ Boot(t) \/ BootFails(t) \/ BootCompletes(t)
    \/ Promote(t) \/ EnterPreFlight(t) \/ ExecuteAllChecks(t)
    \/ CheckLockdown(t) \/ CheckEnabled(t) \/ OpenGate(t)
    \/ GoLive(t) \/ UndoEnable(t) \/ ReturnToShadow(t)
    \/ AbortPromotion(t)
    \/ ShutDown(t) \/ DisableLive(t) \/ Stop(t)
    \/ Halt(t) \/ Lock(t) \/ ForceHalt(t)
    \/ Trade(t) \/ CheckUnlocked(t) \/ EndTrade(t)

LiveSpec == LiveInit /\ [][LiveNext]_liveVars

\* The same, if no promotion completes while a halt is between its first store
\* and its transition.
HaltsAlone ==
  fsm' = "LiveTrading" /\ fsm # fsm' => \A t \in Threads : step[t] \notin {"lock", "force"}
QuietHaltSpec == LiveInit /\ [][LiveNext /\ HaltsAlone]_liveVars

-----------------------------------------------------------------------------
Promoting == {"checklist", "lockdown?", "enabled?", "enable", "golive"}

LiveTypeOK ==
  /\ fsm \in States
  /\ enabled \in BOOLEAN /\ lockdown \in BOOLEAN
  /\ step \in [Threads -> Promoting \union
               {"idle", "booting", "preflight", "undo", "back", "disable",
                "stop", "lock", "force", "unlocked?", "trading"}]
  /\ seen \in [Threads -> States]
  /\ late \subseteq Threads /\ aborted \in BOOLEAN

AllIdle == \A t \in Threads : step[t] = "idle"

\* However promotions, shutdowns and halts race: the system never comes back
\* from GracefulShutdown but to a halt, and never from CatastrophicHalt.
EndIsFinal ==
  [][/\ fsm = "CatastrophicHalt" => fsm' = fsm
     /\ fsm = "GracefulShutdown" => fsm' \in {fsm, "CatastrophicHalt"}]_liveVars

\* execute_if_live refuses every call that begins once the gate is locked
\* down, although a promotion under way may have opened the gate again.
LockdownRefuses == \A t \in late : step[t] # "trading"

\* As long as nobody aborts one, promotions exclude each other from the
\* checklist to LiveTrading, even while the system is halted under them: the
\* FSM is their lock.
OnePromotion ==
  ~aborted => \A t, u \in Threads : step[t] \in Promoting /\ step[u] \in Promoting => t = u

\* Until a halt, an open gate is that of LiveTrading whenever no call is under
\* way, even if promotions were aborted and went on with an old checklist, beside
\* others and beside shutdowns: one that fails leaves none open.  As long as
\* nobody aborts one, LiveTrading has its gate open, too.
GateMatchesState ==
  AllIdle /\ fsm # "CatastrophicHalt" =>
    /\ enabled => fsm = "LiveTrading"
    /\ ~aborted /\ fsm = "LiveTrading" => enabled

\* "Manual re-enable is IMPOSSIBLE - restart required": a locked gate is shut.
LockdownCloses == lockdown /\ AllIdle => ~enabled
=============================================================================
