--------------------------- MODULE EpochReclaimer ---------------------------
(***************************************************************************)
(* EpochReclaimer of nexus_mlops (hotswap/rcu_epoch_reclamation.rs): model *)
(* weights that were replaced are freed once nobody reads them.  Readers   *)
(* enter an epoch, writers defer what they replaced, and advance collects  *)
(* the epochs that seem to be over.  One action per access that another    *)
(* thread can see; draining an epoch and freeing what it held are one.     *)
(*                                                                         *)
(* External: the pointer to the weights.  A reader loads it after enter, a *)
(* writer swaps it and then defers the old weights, as enter and defer ask *)
(* of their callers.  A version of the weights is its number.              *)
(***************************************************************************)
EXTENDS Integers, FiniteSets

CONSTANTS
  EpochReaders, EpochWriters,
  Advancers,     \* threads that call advance
  Epochs,        \* MAX_EPOCHS
  MaxPending,    \* MAX_PENDING_PER_EPOCH
  MaxVersion, MaxEpochs   \* bounds on replacements and on calls of advance

ASSUME EpochAssumption ==
  Epochs \in Nat \ {0, 1, 2} /\ MaxPending \in Nat \ {0}
  /\ MaxVersion \in Nat /\ MaxEpochs \in Nat

VARIABLES
  globalEpoch, readerCount, pending,
  shown,             \* the version the pointer shows
  reader,            \* per reader: step, the epoch it loaded, the version it holds
  epochWriter,       \* per writer: step, the epoch it loaded, what it replaced
  advancer,          \* per advancer: step, the epoch it began, the offset it is at
  freed,             \* versions that were deallocated
  deferredIn,        \* history: the epoch a version was deferred in
  forced             \* history: was an epoch drained without a look at its readers?

reclaimer == <<globalEpoch, readerCount, pending, freed>>
epochVars == <<reclaimer, shown, reader, epochWriter, advancer, deferredIn, forced>>

Index(e) == e % Epochs
Unknown == -1

EpochInit ==
  /\ globalEpoch = 0
  /\ readerCount = [i \in 0..Epochs - 1 |-> 0]
  /\ pending = [i \in 0..Epochs - 1 |-> {}]
  /\ shown = 0 /\ freed = {}
  /\ reader = [r \in EpochReaders |-> [pc |-> "out", epoch |-> 0, holds |-> Unknown]]
  /\ epochWriter = [w \in EpochWriters |-> [pc |-> "idle", epoch |-> 0, old |-> Unknown]]
  /\ advancer = [a \in Advancers |-> [pc |-> "idle", epoch |-> 0, offset |-> 2]]
  /\ deferredIn = [v \in 0..MaxVersion |-> Unknown]
  /\ forced = FALSE

-----------------------------------------------------------------------------
(* Readers: enter loads the epoch and then counts itself in.               *)

ReaderStep == UNCHANGED <<globalEpoch, pending, freed, shown, epochWriter,
                          advancer, deferredIn, forced>>

EnterLoad(r) ==
  /\ reader[r].pc = "out"
  /\ reader' = [reader EXCEPT ![r] = [pc |-> "entering", epoch |-> globalEpoch,
                                      holds |-> Unknown]]
  /\ UNCHANGED readerCount /\ ReaderStep

EnterCount(r) ==
  /\ reader[r].pc = "entering"
  /\ reader' = [reader EXCEPT ![r].pc = "in"]
  /\ readerCount' = [readerCount EXCEPT ![Index(reader[r].epoch)] = @ + 1]
  /\ ReaderStep

LoadPointer(r) ==
  /\ reader[r].pc = "in"
  /\ reader' = [reader EXCEPT ![r].pc = "reading", ![r].holds = shown]
  /\ UNCHANGED readerCount /\ ReaderStep

DropGuard(r) ==
  /\ reader[r].pc = "reading"
  /\ reader' = [reader EXCEPT ![r] = [pc |-> "out", epoch |-> 0, holds |-> Unknown]]
  /\ readerCount' = [readerCount EXCEPT ![Index(reader[r].epoch)] = @ - 1]
  /\ ReaderStep

-----------------------------------------------------------------------------
(* Writers: the pointer is swapped, and the old version deferred to the    *)
(* epoch of that moment; a full list first empties the oldest epoch.       *)

Swap(w) ==
  /\ epochWriter[w].pc = "idle" /\ shown < MaxVersion
  /\ epochWriter' = [epochWriter EXCEPT ![w].pc = "load", ![w].old = shown]
  /\ shown' = shown + 1
  /\ UNCHANGED <<reclaimer, reader, advancer, deferredIn, forced>>

DeferLoad(w) ==
  /\ epochWriter[w].pc = "load"
  /\ epochWriter' = [epochWriter EXCEPT ![w].pc = "push", ![w].epoch = globalEpoch]
  /\ UNCHANGED <<reclaimer, shown, reader, advancer, deferredIn, forced>>

\* drain_pending
Drain(i, from) == freed' = freed \union from[i] /\ pending' = [from EXCEPT ![i] = {}]

\* A writer holds the lock of its list while it waits for the oldest list's.
Locked(i) == \E w \in EpochWriters : epochWriter[w].pc = "stuck" /\ Index(epochWriter[w].epoch) = i
Oldest == Index(globalEpoch + 1)
ListFull(i) == Cardinality(pending[i]) >= MaxPending

\* defer_raw under the lock of the epoch's list, with force_drop_oldest.
DeferPush(w) ==
  LET e == epochWriter[w].epoch
      old == epochWriter[w].old
      pushed == [pending EXCEPT ![Index(e)] = @ \union {old}]
      full == ListFull(Index(e))
  IN
  /\ epochWriter[w].pc = "push" /\ ~Locked(Index(e))
  /\ full => Oldest # Index(e) /\ ~Locked(Oldest)
  /\ epochWriter' = [epochWriter EXCEPT ![w] = [pc |-> "idle", epoch |-> 0, old |-> Unknown]]
  /\ IF full THEN Drain(Oldest, pushed)
             ELSE pending' = pushed /\ UNCHANGED freed
  /\ deferredIn' = [deferredIn EXCEPT ![old] = e]
  /\ forced' = (forced \/ full)
  /\ UNCHANGED <<globalEpoch, readerCount, shown, reader, advancer>>

\* The oldest list is the very list it holds the lock of: it waits for ever.
DeferStuck(w) ==
  /\ epochWriter[w].pc = "push" /\ ~Locked(Oldest)
  /\ Index(epochWriter[w].epoch) = Oldest /\ ListFull(Oldest)
  /\ epochWriter' = [epochWriter EXCEPT ![w].pc = "stuck"]
  /\ UNCHANGED <<reclaimer, shown, reader, advancer, deferredIn, forced>>

-----------------------------------------------------------------------------
(* advance and try_gc: from the epoch before the last one backwards, until *)
(* one has readers.                                                        *)

AdvancerStep == UNCHANGED <<shown, reader, readerCount, epochWriter, deferredIn, forced>>

Advance(a) ==
  /\ advancer[a].pc = "idle" /\ globalEpoch < MaxEpochs
  /\ globalEpoch' = globalEpoch + 1
  /\ advancer' = [advancer EXCEPT ![a] = [pc |-> "check", epoch |-> globalEpoch + 1,
                                          offset |-> 2]]
  /\ UNCHANGED <<pending, freed>> /\ AdvancerStep

Target(a) == Index(advancer[a].epoch - advancer[a].offset)

BugCheckReaders(a) ==
  /\ advancer[a].pc = "check"
  /\ advancer' = [advancer EXCEPT ![a].pc = "drain"]
  /\ UNCHANGED <<globalEpoch, pending, freed>> /\ AdvancerStep
CheckReaders(a) ==
  /\ advancer[a].pc = "check"
  /\ advancer' = [advancer EXCEPT ![a].pc =
       IF readerCount[Target(a)] = 0 THEN "drain" ELSE "idle"]
  /\ UNCHANGED <<globalEpoch, pending, freed>> /\ AdvancerStep

DrainEpoch(a) ==
  /\ advancer[a].pc = "drain" /\ ~Locked(Target(a))
  /\ Drain(Target(a), pending)
  /\ advancer' = [advancer EXCEPT
       ![a].pc = IF advancer[a].offset < Epochs - 1 THEN "check" ELSE "idle",
       ![a].offset = @ + 1]
  /\ UNCHANGED globalEpoch /\ AdvancerStep

\* shutdown frees everything, readers or not.
Shutdown ==
  /\ \A i \in DOMAIN pending : ~Locked(i)
  /\ freed' = freed \union UNION {pending[i] : i \in DOMAIN pending}
  /\ pending' = [i \in DOMAIN pending |-> {}]
  /\ forced' = TRUE
  /\ UNCHANGED <<globalEpoch, readerCount, shown, reader, epochWriter, advancer, deferredIn>>

-----------------------------------------------------------------------------
EpochNext ==
  \/ \E r \in EpochReaders : EnterLoad(r) \/ EnterCount(r) \/ LoadPointer(r) \/ DropGuard(r)
  \/ \E w \in EpochWriters : Swap(w) \/ DeferLoad(w) \/ DeferPush(w) \/ DeferStuck(w)
  \/ \E a \in Advancers : Advance(a) \/ CheckReaders(a) \/ DrainEpoch(a)
  \/ Shutdown

EpochSpec == EpochInit /\ [][EpochNext]_epochVars

\* The same, if an epoch only ends when the readers of those before it are out;
ReadersArePrompt ==
  globalEpoch' # globalEpoch =>
    \A r \in EpochReaders : reader[r].pc # "out" => reader[r].epoch = globalEpoch
PromptReadersSpec == EpochInit /\ [][EpochNext /\ ReadersArePrompt]_epochVars

\* and if what was replaced is deferred while all readers are of the current
\* epoch: they may then stay as long as they like.
DeferredAmongPeers ==
  \A w \in EpochWriters : epochWriter[w].pc = "load" /\ epochWriter'[w].pc = "push" =>
    \A r \in EpochReaders : reader[r].pc # "out" => reader[r].epoch = globalEpoch
PeerReadersSpec == EpochInit /\ [][EpochNext /\ DeferredAmongPeers]_epochVars

-----------------------------------------------------------------------------
EpochTypeOK ==
  /\ globalEpoch \in 0..MaxEpochs /\ shown \in 0..MaxVersion
  /\ readerCount \in [0..Epochs - 1 -> Nat]
  /\ pending \in [0..Epochs - 1 -> SUBSET (0..MaxVersion)]
  /\ freed \subseteq 0..MaxVersion
  /\ reader \in [EpochReaders -> [pc : {"out", "entering", "in", "reading"},
                                  epoch : 0..MaxEpochs, holds : -1..MaxVersion]]
  /\ epochWriter \in [EpochWriters -> [pc : {"idle", "load", "push", "stuck"},
                                       epoch : 0..MaxEpochs, old : -1..MaxVersion]]
  /\ advancer \in [Advancers -> [pc : {"idle", "check", "drain"},
                                 epoch : 0..MaxEpochs, offset : 2..Epochs]]
  /\ deferredIn \in [0..MaxVersion -> -1..MaxEpochs] /\ forced \in BOOLEAN

Loses(r) == reader[r].holds \in freed

\* A version freed while somebody reads it was deferred in a later epoch than
\* the reader's, and two epochs before the present one or earlier: a reader is
\* safe from what is deferred in its own epoch, even if it counted itself in late
\* and the writer's list was chosen long before, and so are readers of this epoch
\* and of the two before it.
\* For one thread that advances, and neither a full list nor a shutdown.
OnlyOlderReadersLose ==
  (\A a, b \in Advancers : a = b) /\ ~forced =>
    \A r \in EpochReaders : Loses(r) =>
      LET deferred == deferredIn[reader[r].holds]
      IN  reader[r].epoch < deferred /\ deferred <= globalEpoch - 2

\* "When no readers are in old epochs, queued data is safely freed": nobody
\* reads what was freed.
FreedIsUnread == ~forced => \A r \in EpochReaders : ~Loses(r)
=============================================================================
