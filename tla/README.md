# Verification of the order path, the swarm and the lifecycle

TLA+ models of the parts of this repository that decide what is traded, by
whom, and when: `nexus_oms` (orders and execution reports), `nexus_swarm`
(leader election, fencing, leases, the replicated log and its replicas),
`nexus_orchestrator` (going live and stopping), the gatekeeper, the kill switch
and the order queue of `nexus_risk`, and three pieces they rest on: the healing
of the order book (`nexus_orderbook`), the telemetry hub (`nexus_telemetry`) and
the reclamation of replaced model weights (`nexus_mlops`).  TLC checks the
models on small instances, TLAPS proves theorems about them for every value of
the constants.  Paths below are relative to `src/crates/`.

The models take the code as it is.  Where the code does something its comments,
docs or tests deny, a run expects the violation (section 5).

## 1. Inventory

### What is modelled

| component | state | operations | hard behaviour |
|---|---|---|---|
| order tracker, `nexus_oms/src/state_machine/order_state.rs` | `active_orders` (state, filled, remaining, average price), id counter, purge queue, statistics, under one mutex | `add_order`, `transition`, `apply_fill`, `purge_terminal_orders` | long sequences of calls that are each legal; rounding of the average; an ended order queued twice or never |
| report reconciler, `nexus_oms/src/reconciliation/execution_report_handler.rs` | `SequenceTracker`, pending cancels | `register_cancel_request`, `process_report` and its five handlers | lost order and repetition of reports; a fill crossing a cancel |
| cancel/fill resolver, `nexus_oms/src/reconciliation/race_condition_resolver.rs` | pending cancels, statistics | `register_cancel`, `register_fill`, `cleanup_expired` | two registries with different timeouts |
| facade, `nexus_oms/src/lib.rs` | the three above | routes every call | a call that reaches one registry and not the other |
| leader election, `nexus_swarm/src/raft/leader_election.rs` | term, vote, votes received; in memory only | `start_election`, `process_vote_request`, `process_vote_response` | late, repeated, lost messages; restarts |
| heartbeat monitor, `nexus_swarm/src/raft/heartbeat_monitor.rs` | leader, term, last heartbeats, missed count | `record_heartbeat`, `check_leader_timeout`, `reset`, `process_heartbeat_response` | timeouts racing late heartbeats of several leaders |
| STONITH fencer, `nexus_swarm/src/fencing/stonith_executor.rs` | three atomics | `execute_fence`, `was_fencing_successful`, `reset` | concurrent callers; partial answers of witnesses |
| lease and gate, `nexus_swarm/src/gating/leader_lease_token.rs` | expiry, revocation, epoch, current token, `signing_enabled` | `new`, `is_valid`, `renew`, `extend`, `revoke`, `set_token`, `clear_token`, `execute_with_lease` | reads that are not one read; check, then use |
| consensus engine, `nexus_swarm/src/raft/mod.rs` | state, term, lease, over the four above | `process_heartbeats`, `send_heartbeats`, `start_election`, `become_leader`, `step_down`, `can_execute_trades` | three terms that drift apart; a failure half way |
| replicated log, `nexus_swarm/src/replication/lock_free_raft_log.rs` | ring of slots, four atomic counters | `append`, `get`, `commit`, `truncate_before` | holes of failed appends; a ring that wraps; counters reset one by one |
| lifecycle, `nexus_orchestrator/src/lifecycle/global_fsm.rs` | one atomic state | `transition`, `force_transition` | compare-and-swap from a stale state |
| gate, promoter, orchestrator, `nexus_orchestrator/src/preflight/`, `src/lib.rs` | `is_live_enabled`, `lockdown_mode` | `promote_to_live`, `abort_promotion`, `boot`, `shutdown`, `catastrophic_halt`, `execute_if_live` | two variables that must agree; two calls that overlap |
| replicator and compaction, `nexus_swarm/src/replication/oms_state_replicator.rs`, `log_compaction_snapshot.rs` | local state, last applied index; the last snapshot | `apply_range`, `apply_entry`, `apply_snapshot`, `create_snapshot`, `run_background_compaction`, `compact_up_to` | replay, snapshots and truncation beside appends |
| order queue, `nexus_risk/src/gatekeeper/lock_free_order_queue.rs` | slots with sequences, two positions, counters | `try_enqueue`, `try_dequeue` | producers and consumers that race for a slot lap after lap |
| gatekeeper, `nexus_risk/src/gatekeeper/pre_trade_filter.rs`, `position_accumulator.rs` | kill switch, net position | `validate`, `record_fill`, `record_cancel` | what is checked is stale when the order fills |
| kill switch, `nexus_risk/src/kill_switch/flatten_fsm.rs`, `twap_liquidation_router.rs` | FSM state, two counters of what is left | `initiate_flatten`, `begin_twap_liquidation`, `next_slice`, `mark_slice_executed`, resets | three views of one position; rounding of slices |
| epoch reclaimer, `nexus_mlops/src/hotswap/rcu_epoch_reclamation.rs` | epoch, reader counts, lists of deferred weights | `enter`, `defer`, `advance`, `shutdown` | readers that count themselves in late |
| healer and swap, `nexus_orderbook/src/l2/sequence_healer.rs`, `atomic_book_swap.rs` | last and expected update, pause, failures; the book | `validate_sequence`, `record_snapshot_success`, `execute_swap`, `reset` | snapshots older or newer than the updates beside them |
| telemetry hub, `nexus_telemetry/src/lock_free_spsc_broadcaster.rs`, `axum_ws_server.rs` | frame channel, vector of clients, one channel each | `push`, `register_client`, `broadcast_to_clients`, `unregister_client` | clients that come and go while frames flow; full channels |

How they interact.  The exchange sends reports to the facade, which hands a
trade to the resolver first and every report to the reconciler, which calls the
tracker.  Cancels are registered with reconciler and resolver.  The engine calls
the monitor; an alarm starts an election; a won election calls the fencer; a
successful fence creates the lease, which is what permits trading.  The engine
has no transport: whoever delivers messages and calls `become_leader` is outside
`src/`.  Replicas replay what the log has committed; compaction takes a state,
labels it with the commit index and truncates the log.  The orchestrator runs
boot and checklist, moves the FSM and opens the gate through which every trade
is to go.  The gatekeeper reads the kill switch and the accumulator; the
liquidation starts from what the accumulator shows and reports its fills back
to it.  The healer judges updates, its task swaps a snapshot in and tells the
healer.  Order queue, reclaimer and hub each stand between threads of their
own.  Many of these calls have no caller in `src/`: the modules say which driver
they assume, as an external definition.

What makes each correct.  Tracker: quantity is conserved, an ended order stays
ended and is purged exactly once.  Facade: what the tracker says was filled is
what the exchange reported.  Election: one winner per term.  Fencer: who is
reported fenced is dead.  Lease: what passes the check was valid.  Engine: one
trader.  Log: what was committed or acknowledged is there.  Replicas: they hold
what was committed, once and in order.  Orchestrator: the gate is open exactly
in LiveTrading and never under lockdown.  Order queue: it is a first-in
first-out queue.  Risk: the position keeps its limit, and flat means flat.
Reclaimer: what is freed is read by nobody.  Book: healer and book agree on the
next update.  Hub: frames stay in order, and clients that leave are gone.

### What is not

`PROJECT.json` lists every crate; section 6 gives the reasons.

## 2. Modules

| module | models | note |
|---|---|---|
| `OrderStateMachine` | the order tracker | one action per method, called in any order |
| `RaceConditionResolver` | the resolver | operations only; `LiveOrderManagement` calls them |
| `LiveOrderManagement` | facade, reconciler and exchange, over the two above | the reconciler's own state is written out here |
| `Elections` | the contract of an election: winners of terms | abstract specification |
| `LeaderElection` | votes and messages on every node | implements `Elections` |
| `HeartbeatMonitor`, `LeaderDetection` | the monitor's operations; monitors driven by their engines | with fairness |
| `StonithFencer` | `execute_fence`, one step per atomic access and per witness | |
| `LeaseGate` | token and gate, one step per atomic access | |
| `SwarmEngine` | the engine on every node, over `Elections` and `HeartbeatMonitor` | the fencer has one caller here and is two steps |
| `RaftLog` | the ring, one step per visible access | |
| `Replication` | replicas and compaction, over `RaftLog` | |
| `LifecycleFSM`, `LiveFire` | the FSM; gate, promoter and orchestrator on it | |
| `OrderFifo` | what a queue of orders promises | abstract specification |
| `OrderQueue` | the lock-free queue, one step per access | implements `OrderFifo` |
| `RiskGate` | gatekeeper, accumulator, kill switch and liquidation of one symbol | |
| `EpochReclaimer` | epochs, readers, deferred weights, one step per visible access | |
| `BookHealer` | sequence healer, book and healing task | |
| `TelemetryHub` | broadcaster and sessions | |
| `...Proofs` | | the theorems of section 4 |

The proofs are in `OrderStateMachineProofs`, `LiveOrderManagementProofs`,
`LeaderElectionProofs`, `SwarmEngineProofs`, `OrderQueueProofs`; `RaftLogProofs`
(`RaftLog` and `Replication`), `SharedMemoryProofs` (`LeaseGate`, `StonithFencer`,
`LiveFire`, `EpochReclaimer`) and `ProtocolProofs` (`RiskGate`, `BookHealer`,
`TelemetryHub`, `LeaderDetection`).

`MC...` modules with their `.cfg` instantiate the others for TLC.  `MCProtocols`
and `MCSharedMemory` put several modules that have nothing in common into one
run: each behaviour chooses a `part`, exercises it, and leaves the variables of
the others at their initial values.  The parts do not multiply, and each is the
same as in a run of its own.

Names follow the code (`process_vote_request` is `ProcessVoteRequest`);
`PROJECT.json` maps every definition to its lines.  A `Bug...` operator next to
a definition is the same definition with a plausible mistake; it is used by no
specification and is there to show that the property named with it in
`PROJECT.json` would catch it.

A second specification of a module, next to its first, restricts the steps to
those that meet a condition the code does not enforce: `SuccessionSpec`,
`QuietHaltSpec`, `PromptReadersSpec` and `PeerReadersSpec`, `RestedSpec`.  Each
states when something does hold that a run of section 5 shows violated (section 3,
Conditions).

### Correspondence and abstraction

* **Atomicity.** What runs under one mutex or `&mut self` is one action
  (tracker, reconciler, resolver, election, monitor, FSM and router of the kill
  switch, healer).  What other threads can see between two accesses is several
  (`StonithFencer`, `LeaseGate`, `RaftLog`, `LiveFire`, `OrderQueue`,
  `EpochReclaimer`; in `RiskGate` the two halves of `validate`): a variable per
  thread says what it does next.  Steps interleave; the reordering that weak
  memory orderings would permit on top is not modelled.
* **Time** is a counter; timeouts keep their order (the reconciler's cancels
  expire before the resolver's), not their length.
* **OrderStateMachine.** Quantities and prices are small integers; the average
  is truncated as in the code.  `Word` is the number of values of an `i64`: the
  release profile leaves overflow checks off, so `filled * average + quantity *
  price` wraps round (a development build panics instead).
* **LiveOrderManagement.** The exchange is external: it accepts or rejects an
  order, trades it, cancels it, and writes one report per event.  The feed is
  chosen once: `ordered` (in sequence; of old reports only those the tracker
  still remembers are repeated, which is what a session that resumes does),
  `reordered` (any order, once each), `unstamped` (reports of the convenience
  constructors, all numbered 0, any order, once each), `chaotic` (any order,
  again and again).  The reconciler's pending cancels are a set, as nothing asks
  for their order; the resolver's keep it, since a full history drops the oldest.
* **LeaderElection.** A message once sent stays in a set: it can be delivered
  late, twice or never.  A restart forgets everything, as the code keeps nothing
  on disk.  `last_log_index` and `last_log_term` are ignored by the code and
  absent here.
* **StonithFencer.** `compare_exchange(false, true).unwrap_or(true)` is negated
  in the code: the caller that sets the flag is turned away and a caller that
  finds it set goes on.  The model does just that.  A witness confirms (and the
  leader is dead), refuses with an HTTP error (which the code takes for "already
  dead"), or is lost.
* **LeaseGate.** `is_valid` is a load of the clock, of the expiry and of the
  revocation.  Signature bytes are left out.
* **SwarmEngine.** The driver delivers heartbeats, newer terms and election
  results, and calls `become_leader` at once when an election is won.  An
  operator names the first leader, of term 0: without one nobody stands.
* **RaftLog.** An entry is its index and the call that made it.  `workload`,
  chosen once, says which threads append, commit and truncate and whether
  checksums may be wrong; one workload has two committers.  `last_applied` is
  written by nothing that runs.
* **Replication.** A replica's state is the sequence of entries applied to it, of
  which orders, positions and PnL are functions.  When compaction is due is not
  modelled: it may run at any time.  `run_background_compaction` drops the
  snapshot it makes; the model keeps it, as a caller of `create_snapshot` would.
* **LiveFire.** `lib.rs` clones the FSM and the gate into its parts and neither
  is `Clone`; the model shares one of each, which is what the code means.  Boot
  stages and checks are placeholders in the code: each may fail.  The gate's
  epoch and token are written, never compared, and left out.
* **OrderQueue.** A slot's data is written and taken in steps of their own, as
  nothing but the protocol keeps two threads from it.  A weak compare-and-swap
  may fail for no reason.  Positions never wrap (they are `u64`); the `count` is
  an integer here where the `usize` wraps below zero.
* **RiskGate.** One symbol.  Price collar, margin and the checks of an order's
  fields are one reason to reject, taken or not.  The driver of the kill switch
  is external; it starts the liquidation when no order is open at the exchange.
* **EpochReclaimer.** The pointer to the weights is external: a reader loads it
  between `enter` and the guard's drop, a writer swaps it and defers the old
  weights.  Draining a list and freeing what it held are one step.
* **BookHealer.** A book is the number of the last update in it.  The feed may
  lose, repeat and reorder updates: any published number may come at any time.
  A swap's checks on the snapshot may fail.
* **TelemetryHub.** A frame is the number of its push.  Which frames fail to be
  sent, and whether the guillotine cuts the client then, is left open.  The task
  that sends (`sending`) is detached when its connection is cleaned up: it drains
  its channel and, when `swap_remove` took another client out of the vector, goes
  on receiving frames; it ends when it gives up or finds the channel closed.  In
  `MCProtocols` the interchangeable clients connect in one order.
* **LeaderDetection.** The engine's side of the monitor: `Check` is
  `process_heartbeats` of a node that does not lead, with the election an alarm
  starts, `BecomeLeader` and `StepDown` are the engine's.  Which term an election
  has or `step_down` is given is left open: the monitor is reset to any term,
  older ones included (`SwarmEngine` derives the terms).  Heartbeats come from
  anybody with any term.

## 3. Runs

| run | instance | what it shows |
|---|---|---|
| `protocols` | seven parts, below | |
| - orders | 2 orders, quantities 3 and 4, prices 3 and 4, words of 26 values, clock to 2 | `FillAccounting`, `PurgeQueueExact`, `AverageInRange`, `TerminalIsFinal` for every sequence of calls |
| - detection | 1 monitor, 2 other leaders, terms 0 to 2, resets to any of them | `AlarmIsEarned`: no false alarm; `SilenceIsNoticed`: a silent leader is noticed (liveness) |
| - log | ring of 3, 4 appends, three workloads | `CommittedAreStored`, `AckedAreKept`, `AckedIsReadable` |
| - replication | the same ring, 3 appends, one compaction or none, 2 replicas | `ReplicasHoldCommitted`, `AppliedInOrder` |
| - risk | 3 orders of -4, 2 or 3, limit 3, 2 slices of at least 2 | `OneAtATimeStaysInLimit`, `LiquidationIsExact` |
| - book | 5 updates, gaps of 1 tolerated, 2 failures fatal | `InSequence` |
| - telemetry | 3 clients for 2 places, channels of 1, 2 frames | `FramesInOrder` |
| `live_order_management` | 2 orders of 2; at most 4 reports and cancel requests together; 2 deliveries each; feeds ordered, reordered, unstamped | `FillsMirrored`, `EndsMirrored`, `PendingCancelsKnown`, `FillWins`, `DropsOnlyAfterCancel`; every step is a step of the tracker (`ImplementsTracker`) |
| `leader_election` | 3 nodes, 2 terms, 1 restart | `ElectionSafety`, `VotesAreHonest`, `WinnersHaveQuorum`; `ImplementsElections`, restart included |
| `swarm_engine` | 2 engines, terms to 5, leases of 2 ticks | `LeasesAreUnique`, `LeasesFollowFences` |
| `shared_memory` | five parts, below | |
| - live fire | 3 threads | `LockdownRefuses`, `OnePromotion`, `GateMatchesState`, `EndIsFinal` |
| - fencer | 2 callers, 2 witnesses, 2 terms | `FencedIsDead`, `SuccessIsGenuine` |
| - lease gate | 1 signer, 1 renewer, 2 tokens, clock to 2 | `ValidatedWasValid`, `ClearedIsRefused` |
| - order queue | 2 producers, 2 consumers, 3 orders, capacity 2 | `TakenIsPut`; it implements `OrderFifo` (`ImplementsFifo`) |
| - epochs | 2 readers, 1 writer, 1 advancer; 4 epochs, lists of 1 | `OnlyOlderReadersLose` |
| `live_double_fill` | chaotic feed | expected violation, see section 5 |
| `swarm_two_traders` | terms to 6 | expected violation |
| `live_fire_lockdown` | 2 threads | expected violation |
| `risk_flat` | 2 orders | expected violation |
| `reclaimer_freed` | as in `shared_memory` | expected violation |
| `replicas_identical` | ring of 2, 2 appends, 2 replicas | expected violation |
| `telemetry_cleanup` | 2 clients | expected violation |

`TypesOK` of the two composite runs is the conjunction of their modules' type
invariants.

Bounds.  Two orders are the fewest with an identifier to mix up; quantities of
3 and 4 make the average round, and a word of 26 values wraps for one of them
and not for the other.  Two deliveries are the fewest with a
repetition, and a history of two sequence numbers is exceeded by four reports.
The second cancel is what makes either registry expire the first.
Three nodes are the fewest with a majority that is not everybody; two terms let
a candidate be overtaken.  Two witnesses need both, so that a mixed answer is no
quorum.  Two tokens are a deposed leader's and its successor's.  Five terms let
two engines lead in turn, be fenced and stand again with a lease running.  Four
appends go round a ring of three, and three orders round a queue of two; two
producers and two consumers meet at every compare-and-swap.  Two threads promote while a third shuts down,
halts or trades.  Three risk orders let two together break a limit that each
keeps, beside one the other way; the minimum slice of 2 exceeds half of 3, so that
slices are rounded, raised and cut.  Four epochs are the fewest whose collection
looks at two, and a list of 1 is full at the second deferral.  A snapshot of five
updates can be older and newer than the book, with a tolerated and a critical
gap.  Three clients for two places are turned away and moved by `swap_remove`.
Symmetry is used where nothing compares the symmetric values and no liveness is
checked.

Deadlock.  Every run says `CHECK_DEADLOCK FALSE`: counters are bounded (orders,
reports, terms, calls, epochs, frames, the clock), so that the models stop at the
bounds; in `LiveFire` every thread of the real system can be idle in
`CatastrophicHalt` for good, and a writer of `EpochReclaimer` can wait for itself
(section 5).

Conditions.  Several properties hold only under conditions, and say so in
their statement.

* A restart ends `ElectionSafety` and `VotesAreHonest`' uniqueness of votes:
  they are stated for `restarts = 0`.
* A renewal computed in time and stored late ends `ValidatedWasValid`, stated
  for leases nobody has renewed yet.
* A witness that answers with an error while the leader runs ends `FencedIsDead`
  for that term (`misjudged`).
* An abort ends `OnePromotion` and the second half of `GateMatchesState`
  (`aborted`), a halt both halves of it.
* The log's properties ask for a ring that has not wrapped, for truncation that
  runs alone, and `AckedIsReadable` for one appender.  The replicas' ask for one
  thread that appends and commits, a ring that has not wrapped, and a log that
  compaction has not emptied and started again from 0 (`Careful`).
* `FillsMirrored` and `FillWins` ask for an ordered feed, `EndsMirrored` for one
  that does not repeat at will (`feed # "chaotic"`), `DropsOnlyAfterCancel` for
  one that reorders and does not repeat.  `PendingCancelsKnown` needs the
  resolver's timeout to be no shorter than the reconciler's and its history not to
  be full; the code sets 5000 ms against 1000 ms and keeps half of 1000 cancels
  (`nexus_oms/src/lib.rs:33`).
* An order whose value does not fit the word ends `AverageInRange` (`Fits`).
* An order on its way beside another, or beside a liquidation, ends
  `OneAtATimeStaysInLimit` (`overlapped`); one that fills during a flattening
  ends `LiquidationIsExact` (`stray`).
* A list that was full, a shutdown (`forced`) or a second advancer ends
  `OnlyOlderReadersLose`.
* An update taken between a swap and its record ends `InSequence` (`crossed`).

Five properties that the code breaks in general hold when its steps keep to an
order that nothing in the code enforces, and that its driver would have to see to.
Theorems of section 4 say so; they are no runs of `PROJECT.json`, but TLC checks all
but the last with the configurations named here, one by one.

* `AtMostOneTrader` under `SuccessionSpec` (`MCSwarmEngineSuccession.cfg`, terms to
  6): no term is won past the stake of another node in an older term than the one
  directly before.  A stake is a term won, being fenced from, or leased.
  `become_leader` fences winners of the term directly before, and no others.
* `LockdownCloses` under `QuietHaltSpec` (`LiveFireQuietHalt.cfg`, 2 threads): no
  promotion takes its last step between `force_lockdown` and the forced transition
  of `catastrophic_halt`, two calls in a row.  A promotion may still open the gate
  after the lockdown; it then fails its transition and undoes it.
* `FreedIsUnread` under `PromptReadersSpec` (`EpochReclaimerPrompt.cfg`): no epoch
  ends while a reader of an earlier one is in; or under `PeerReadersSpec`
  (`EpochReclaimerPeers.cfg`): weights are deferred only while every reader is of
  the current epoch, whose readers then may stay as long as they like.  Who loses
  what it reads is three epochs behind and met a deferral in a later epoch than its
  own (`OnlyOlderReadersLose`).
* `FlatIsFlat` under `RestedSpec` (`MCRiskGateRested.cfg`, 2 orders): the position
  is measured when no order is past its kill-switch check and unfilled.
* `ReplicasIdentical` under `Careful` with nothing truncated, which the second half
  of `ReplicasHoldCommitted` implies.

`CleanedUp` has no such condition worth stating: a disconnect removes the right
client only if it is the single one and connected before the first frame.

Fairness.  Only the detection part assumes any: time passes, and
the engine keeps calling `process_heartbeats` (the loop of `nexus_swarm/src/lib.rs`
does nothing else).  Heartbeats are not fair: they may stop.  `SilenceIsNoticed`
says the silence is then noticed, although a deposed leader may keep sending
heartbeats of terms older than the monitor's.  Two ways out are the code's: a node
that has become a leader never checks; and once a reset has taken the monitor back
to an older term, heartbeats of that term, and of any newer one, count again.

## 4. Proofs

| theorem | module | says |
|---|---|---|
| `TypeCorrect`, `FillAccountingHolds`, `PurgeQueueExactHolds`, `TerminalIsFinalHolds` | `OrderStateMachineProofs` | the tracker's accounting, for any number of orders, quantities, prices |
| `AverageInRangeHolds` | `OrderStateMachineProofs` | the average stays among the prices, for any word size |
| `FillsMirroredHolds`, `EndsMirroredHolds`, `FillWinsHolds`, `DropsOnlyAfterCancelHolds`, `NoFillCountsTwice` | `LiveOrderManagementProofs` | the tracker mirrors the exchange, for any number of orders, reports and deliveries and any length of the reconciler's history; each for the feeds it names |
| `ImplementsTrackerHolds` | `LiveOrderManagementProofs` | whatever the feed, every step of the whole system is one of the tracker's own calls, or none |
| `PendingCancelsKnownHolds`, `FewCancelsAreKnown` | `LiveOrderManagementProofs` | the two registries of cancels agree, as long as the resolver's is not full |
| `ElectionSafetyHolds`, `VotesAreHonestHolds`, `WinnersHaveQuorumHolds` | `LeaderElectionProofs` | for any finite set of nodes, any number of terms and restarts |
| `ElectionsImplemented` | `LeaderElectionProofs` | `LeaderElection` implements `Elections` |
| `LeasesUnique`, `FencesBeforeLeases` | `SwarmEngineProofs` | for any engines, terms, timeouts and lease duration |
| `SuccessionHasOneTrader` | `SwarmEngineProofs` | under `SuccessionSpec`, for any engines, terms and timeouts |
| `EngineImplementsElections` | `SwarmEngineProofs` | every step of the engines is one of the contract `Elections`, or none |
| `FencerTypeCorrect`, `FencedIsDeadHolds`, `SuccessIsGenuineHolds` | `SharedMemoryProofs` | for any callers and terms and any finite set of witnesses |
| `LeaseTypeCorrect`, `ClearedIsRefusedHolds`, `ValidatedWasValidHolds` | `SharedMemoryProofs` | for any signers, keepers and tokens |
| `LiveTypeCorrect`, `EndsAreFinal`, `LockedGateRefuses`, `PromotionsExclude`, `GateMatchesStateHolds` | `SharedMemoryProofs` | for any set of threads |
| `QuietHaltsClose` | `SharedMemoryProofs` | `LockdownCloses` under `QuietHaltSpec`, for any set of threads |
| `EpochTypeCorrect`, `OlderReadersLose` | `SharedMemoryProofs` | for any readers, writers, lists and at least three epochs kept |
| `PromptReadersLoseNothing`, `PeersLoseNothing` | `SharedMemoryProofs` | `FreedIsUnread` under either condition, with one thread that advances |
| `SharedMemoryTypeCorrect` | `SharedMemoryProofs` | the types of the whole composite |
| `AckedAreKeptHolds`, `CommittedAreStoredHolds`, `AckedIsReadableHolds` | `RaftLogProofs` | for any ring size, threads and number of appends, the last two with truncation |
| `ReplicasHoldCommittedHolds`, `AppliedInOrderHolds` | `RaftLogProofs` | for any replicas, ring and number of entries, beside compaction |
| `CarefulReplicasAreIdentical` | `RaftLogProofs` | for any replicas, ring and number of entries |
| `LogTypeCorrect`, `ReplicationTypeCorrect` | `RaftLogProofs` | for any workloads, with the bounds of the counters, wrapped rings and truncation included |
| `QueueTypeCorrect`, `TakenIsPutHolds`, `ImplementsFifoHolds` | `OrderQueueProofs` | for any threads, any number of orders and any capacity of at least 2 |
| `RiskTypeCorrect`, `LiquidationIsExactHolds`, `OneAtATimeStaysInLimitHolds` | `ProtocolProofs` | for any orders, limits and slice sizes |
| `RestedFlatIsFlat` | `ProtocolProofs` | `FlatIsFlat` under `RestedSpec`, for any orders, limits and slice sizes |
| `BookTypeCorrect`, `BookInSequence` | `ProtocolProofs` | for any number of updates, gaps and failures |
| `HubTypeCorrect`, `FramesInOrderHolds` | `ProtocolProofs` | for any clients, capacities and pushes |
| `DetectionTypeCorrect`, `AlarmsAreEarned` | `ProtocolProofs` | for any monitors, leaders, timeouts and numbers of misses, and resets to any term |
| `ProtocolsTypeCorrect` | `ProtocolProofs` | the types of the whole composite |

Assumptions are those the modules declare about their constants: bounds are
natural numbers, quantities of orders are positive, nodes are finitely many and
none is called `"none"`.  In `OrderStateMachine` fill quantities may be any
integers: `apply_fill` must refuse the bad ones.  In `LiveOrderManagement` they
are what the exchange trades, hence positive.  Three groups of theorems assume more:
those about the queue, and `SharedMemoryTypeCorrect` for it, a capacity of at
least 2, because the code breaks with 1 (section 5); the two about `FreedIsUnread`
one thread that advances; those about the cancels the order of the two timeouts that `lib.rs`
sets, and room in the resolver's history whenever a cancel may still be requested
(`HasRoom`), or no more cancels in all than half that history.  Without room the
property is false: the resolver drops its oldest cancel.

Arguments.

* *Tracker.* `OrderInv` is type correctness with `FillAccounting`: what remains stays
  natural because a fill never exceeds it.  `QInv` adds that identifiers not yet
  handed out are in no queue; a call queues an order exactly when it leaves the
  live states (`QueuedExact`), which the transition table never re-enters
  (`ValidNextLeavesTerminal`).  The average: while an order's whole value fits
  the word so do its partial sums, whatever wraps for other orders, and a
  truncated quotient of two values in a range stays in it (`AverageBetween`).
* *Live orders.* The largest proof.  `Books` is the tracker's accounting;
  `Market` ties reports to what the exchange did: it stops trading an order that
  has ended, and the tracker ends only orders the exchange ended.  `Settled`, for
  every feed that does not repeat at will: what the tracker has filled and the
  trades it has not taken sum up to what the exchange filled, so that no fill it is
  offered is too large; no fill is taken twice; a delivered trade that was not taken
  is a canceled order's; a delivered end is the tracker's.  With an ordered feed
  `Window` says that the reconciler remembers the last numbers without a gap, so
  that a repetition meets one of them or an order that has ended, and `NoneDropped`
  that every delivered trade was taken.  The sums are those of the recursive
  `MapThenSumSet` of the community modules over finite sets of reports; that they
  add up needs an induction, which is had from the least element of a set of
  natural numbers (`Induction`, `SumsUnfold`, `TradedOneMore`).  For the refinement,
  a handler calls the tracker at most once.  For the cancels (`Registries`), the
  resolver forgets by age only what the reconciler does not expect any more.
* *Election.* A node casts one vote per term because `votedFor` remembers the
  vote of its current term (`VotesUnique`, `VotesRemembered`); a candidate counts
  only such votes (`ResponsesHonest`, `CountHonest`); two majorities share a
  voter (`QuorumsMeet`).  The first two end with the first restart; the rest, and
  that winners have majorities, hold always.  For the implementation each action
  is a `Campaign`, `Adopt`, `Win`, `Restart` of the contract, or none.
* *Engine.* An engine handles nothing between the election it has won and the
  answer of the witnesses, so the term it has won, the term it fences from and the
  term of its lease are one (`WonIsElected`, `FencedIsElected`,
  `LeasedIsElected`), and by the contract a term has one winner (`OneWinner`).
  Under `SuccessionSpec` two nodes with a stake have won terms that follow each
  other (`Apart`), and next to a lease there is only the stake of its successor
  (`Later`): the fence that turns that stake into a lease kills the predecessor.
* *Fencer.* Whoever a witness answered for, confirming or refusing, is dead or
  misjudged and stays so (`AnswersBury`, `DeadStays`).  A quorum is at least one
  witness, so callers past the confirmation name such a leader
  (`ConfirmedBury`), and so does the stored term, whichever caller stored it and
  whatever `reset` put in between (`StoredBury`).
* *Lease gate.* `signing_enabled` and the token agree whenever nobody holds the
  write lock (`WriterInv`), so a call that begins on a cleared gate is refused at
  its first look (`LeaseGateInv`).  `CheckInv` says how much of the question is open at
  each of the two reads of `is_valid`: what the second still has to find, held
  when the token was taken.
* *LiveFire.* `LockInv`: a thread that began its call under lockdown finds it
  still locked at its second check, as nothing clears `lockdown`.
  `PromotionInv`: until somebody aborts, a promotion between its checklist and
  its last step holds the FSM in PreFlightChecks, unless a halt took it, after
  which nobody enters.  `GateFollows` adds to it, for `GateMatchesState`, that an
  open gate before LiveTrading has a promotion about to go live and a shut gate
  in LiveTrading a shutdown about to stop.  With aborts too, an open gate outside
  LiveTrading is watched by a promotion that has yet to go live or to undo
  (`Watched`), and who shuts it for a shutdown found LiveTrading, which has no way
  back (`OpenInv`).  `QuietInv` says the same from the first store of a halt on.
* *Raft log.* A claimed index has one owner, its appender or its acknowledged
  entry (`Claims`, `Acks`).  Until the ring wraps an index has its own slot:
  owners find what they wrote (`Kept`), slots hold nothing or the entry of their
  index (`SlotsOwn`), and `commit`, which only looks whether a slot is taken,
  sees the right entries (`Checked`, `Committed`).  That is `IInv`, for any
  threads as long as none truncates.  With one thread that truncates too the danger
  is the start from 0, and `SoloInv` counts: no more slots are used, or lie below
  the commit index, than entries were counted; commit has seen a taken slot at each
  index it passed; so the slots in use are exactly those a log cleared to its end
  empties, and the new log starts on an empty ring.  `ReadInv` is what one
  appender sees: `total` follows `writeIndex`, clears stay below the cut, and
  entries less than a lap apart have slots of their own, on a ring that wraps too.
* *Replicas.* One thread appends and commits, so that there is a first missing
  index (`FirstMissing`): whatever is below it and not cut is stored, and `commit`
  cannot pass it.  What is committed is counted, so `get` refuses none of it, and a
  replica misses only what compaction cleared (`Holds`).  The state of a snapshot
  holds entries below the index it is labelled with only, and what lies below that
  index is cut (`CompactionInOrder`); a replay after it meets higher indices
  (`InOrderUpTo`).  Where nothing is truncated, a replica holds the entries up
  to its cursor, each at the place of its index (`Whole`), and so what any replica
  with that cursor holds.
* *Bounds.* No counter of the log passes the number of appends.  For `total` that
  needs the calls under way: each has a number of its own (`CallsClaimed`), and
  those still to be counted (`InFlight`, a finite set) and `total` are together no
  more than the calls there were (`CallsCounted`).
* *Order queue.* The positions from `tail` to `tail + Capacity - 1` have a slot
  each.  A slot's sequence tells whether its position is free or published, or,
  one lap on, being emptied; whoever writes or empties it owns it; what a thread
  read of a slot still holds when its compare-and-swap succeeds, as positions only
  grow (`QInv`).  With one slot, published and free of the next lap are the same
  number, which is why the capacity must be 2.  `FInv` follows an order from its
  offer to its position; every step is then an acceptance, a refusal, a take of
  `OrderFifo`, or none.
* *Risk.* A slice is never more than is left (`SliceFits`).  Until an order fills
  during a flattening, the position changes only by slices, which all three
  counters subtract alike; the sign cannot turn.  An order that is alone meets
  the position it was checked against, and the parts of a fill lie between that
  and what was checked.  For `FlatIsFlat`: a flattening that measured a position at rest
  finds no order on its way that could fill, as the kill switch lets none pass any
  more (`Rested`).
* *Epochs.* Who reads a version took it before it was replaced, so its epoch is
  not later than the version's (`ReadersPrecede`).  If it is the same one, the
  version sits in a list the reader is counted in (`ListsMatch`,
  `ReadersCounted`); a drain that found that list unread looked before the reader
  was counted, and what the reader took since was deferred elsewhere
  (`LateReaders`).  So a reader loses only to a collection of a later epoch than its
  own, and each of the two conditions denies it that: among peers what
  somebody reads is deferred in no later epoch (`PeersInv`); prompt readers are of
  the current epoch or the one before (`PromptInv`), while what was freed was
  deferred at least two epochs ago (`DrainedIsOld`, `AgedInv`).
* *Book.* Between a swap and its record the book is the snapshot, unless an update
  crosses (`SwapIsRecorded`).
* *Hub.* The four places of a frame on its way to a client are each in order and
  each before the next (`InOrder`); a step moves the first of one place to the end
  of the next, or loses frames.  For the capacities, a removal shortens the vector by
  one whichever client it removes (`SwapRemoveShortens`).
* *Detection.* What makes the followed leader younger also ends the silence
  (`QuietAsLong`); what raises the count of misses is a check (`MissesAreChecks`).
  A reset, to whatever term, forgets the leader and the misses (`ResetForgets`).
* *Composites.* A step of `MCSharedMemory` is a step of one part and a stutter of
  the others; so is one of `MCProtocols`, but log and replicas share the log's
  variables there and are proved together (`LogAndReplicas`).

Only model-checked: liveness (`SilenceIsNoticed`), which is out of the prover's
reach.  Every invariant and every other property of a passing run is stated by a
theorem.

## 5. Where code and text disagree

With a run; where a theorem gives a condition under which the text is right, it is
named last:

* `live_double_fill`: a report that arrives out of order is processed and never
  remembered, and its repetition is applied again
  (`execution_report_handler.rs:147`, against its comment at 122).
* `swarm_two_traders`: `become_leader` fences the term directly before.  When
  nobody won that term, an older leader still trades on its lease
  (`raft/mod.rs:136`, against `nexus_swarm/src/lib.rs:3`).
  `SuccessionHasOneTrader`.
* `live_fire_lockdown`: a promotion past its lockdown check opens the gate that
  `force_lockdown` closed (`live_fire_atomic_gate.rs:142`, against 176).
  `QuietHaltsClose`.
* `risk_flat`: an order that passed the kill-switch check before the switch was
  set is approved and fills after the flattening measured the position; the FSM
  is then `FlatAndHalted` with a position left (`flatten_fsm.rs:199`, against 23).
  `RestedFlatIsFlat`.
* `reclaimer_freed`: `try_gc` frees what an epoch deferred when that epoch has no
  readers, while a reader of an earlier epoch holds it
  (`rcu_epoch_reclamation.rs:187`, against 50).
  `PromptReadersLoseNothing`, `PeersLoseNothing`.
* `replicas_identical`: `apply_range` passes over an index that `get` does not
  return yet (`oms_state_replicator.rs:134`, against 3).
  `CarefulReplicasAreIdentical`.
* `telemetry_cleanup`: `register_client` returns the sequence number of frames,
  `unregister_client` takes it for a position in the vector
  (`lock_free_spsc_broadcaster.rs:110`, against `axum_ws_server.rs:252`).

Met while modelling, part of the models unless it says otherwise, without a run
of their own; several are the reasons for the conditions above:

* Reports built by the convenience constructors have sequence number 0, which
  counts as never seen.
* The resolver is never told of a confirmed cancel.  A fill that arrives after
  the cancel's acknowledgement is dropped although the resolver calls it
  authoritative.
* A restarted voter votes again in the same term.
* The monitor never raises an alarm while it knows no leader.  Its term can drop:
  `start_election` resets it to the election's own term, which heartbeats never
  raised, and `step_down` to any (`raft/mod.rs:113`, `162`).  A leader deposed in
  between is then followed again.  A node in state Leader sends and never checks,
  even when its monitor follows another leader that falls silent.
* The fencer refuses its first caller, lets several later ones in at once, and
  takes any HTTP error for a dead leader; a disabled fencer refuses its first
  caller too, which `test_stonith_disabled` does not expect.
* A refused fence leaves the engine in state Leader, without a lease; a stepped
  down engine may stand for an older term than the one it stepped down to.
* `execute_with_lease` signs on a lease revoked after the check, and the epoch it
  signs does not show it.
* `commit` looks for an entry in a slot without comparing indexes: on a full ring
  an index that was never appended can be committed.  `get` returns the entry
  that took the slot, and `truncate_before` clears it.  With two appenders
  `total_entries_written` lags behind the indexes, so that an acknowledged entry
  cannot be read.
* `shutdown` during the preflight checks does nothing; an abort that comes as a
  promotion completes leaves LiveTrading with a shut gate; an aborted promotion
  can open the gate again with its old checklist.
* The order queue accepts a capacity of 1 (`assert!(capacity > 0)`).  The slot's
  sequence then cannot tell published from free: a producer overwrites an order
  that was not taken, and the queue no longer gives any out, the case its comment
  calls "Should not happen".  An enqueue that reads the head and is overtaken by
  the tail is refused although the queue is not full.
* The gatekeeper compares an order with the filled position and reserves nothing
  for what it approved.  `next_slice` also returns `None` when the slice
  rounds down to 0 and the remainder is below the minimum, not only when the
  liquidation is complete.
* A deferral whose full list is itself the oldest waits for its own lock
  (`DeferStuck`).  `shutdown` frees regardless of readers.
* A snapshot is labelled with a commit index read after the state was taken and
  may claim entries it does not hold.  Compaction beside an append can reset the
  counters under it and lose an acknowledged entry.  `is_caught_up` compares a
  last index with a count (not modelled).
* The healer's header says it pauses "immediately"; a gap within the tolerance
  does not pause.  `Regression` is never returned, as `Duplicate` is tested first.
  An update taken between the swap and `record_snapshot_success` is in the book
  and expected again; `reset` leaves the book behind; `resume_trading` lifts a
  pause set while the snapshot was fetched.
* A full frame channel drops the newest frame although the configuration says
  `drop_oldest_on_overflow`.

## 6. What is left

### Plan

1. Proofs: every safety property a passing run checks is a theorem.  A condition
   for `live_double_fill` is the theorem `NoFillCountsTwice`.  What would say more
   is a condition for the engine that its own variables show, without a look at
   other nodes, and a fence that would establish it.
2. Hazards no property covers, met late and in the models only in part: a report
   whose handler failed is recorded as processed (`execution_report_handler.rs:243`);
   `become_leader` reads a term that may have moved on since the vote was counted
   (`raft/mod.rs:129`).
3. Components: the guillotine of `nexus_telemetry`, the breakers of
   `nexus_risk`, the rings and the bus of `nexus_core`, the canary router of
   `nexus_mlops`.

### Not modelled

The repository is some 228 000 lines in about sixty crates, and the models cover
the control code of seven of them: a few thousand lines.  The rest is
not of a kind that states and steps show anything about, and the map stays small
for that reason:

* Most crates are numerical: estimators, solvers, simulations of markets, plasma,
  orbits or neurons, formulas over floats on one caller's data.  They have no
  state that an order of steps could break; what can be wrong with them is a
  formula or its rounding.
* Sixteen crates are named as members of the workspace, two of which do not exist.  The others are not built, and of
  the files of those that are, many are declared by no `mod` (the SWIM gossip, the
  multi-group Raft, IPMI power control, the lock-free position tracker).
  `nexus_risk` and `nexus_mlops` are not members either, and are modelled because
  they hold the risk check, the kill switch and the reclaimer the rest of the
  system is written around.
* `quorum_witness.rs` and `kamikaze_protocol.rs` are declared and called by
  nothing; the first asks witnesses as the fencer does, the second does not
  type-check (`Instant::duration_since(UNIX_EPOCH)`).  The health-check retry is a
  loop without state.
* Sockets, kernel bypass, hardware registers, encodings and exchange formats are
  I/O; dashboards and scripts decide nothing.
* Left out of modelled components: the purely reading calls; the resolver's
  `remove_pending_cancel` and `recent_fills`, which nothing calls or reads;
  `update_micro_price` and `set_position` of the gatekeeper; slippage and prices of
  slices; the content of boot stages and checks, which are placeholders.
