--------------------------- MODULE RaftLogProofs ---------------------------
(***************************************************************************)
(* RaftLog and the replicas over it (Replication), for any ring, threads,  *)
(* replicas and number of appends.  One section per kind of use, with the  *)
(* invariant it rests on:                                                  *)
(*                                                                         *)
(* nothing truncates: what was acknowledged or committed stays until the   *)
(* ring wraps (IInv);                                                      *)
(* one thread appends: get finds what append acknowledged, on a ring that  *)
(* wraps as well (ReadInv);                                                *)
(* the thread that truncates is alone: what is committed and not truncated *)
(* stays, however often the log starts again from 0 (SoloInv);             *)
(* one thread appends and commits while another truncates: replicas apply  *)
(* every committed entry that is left, once and in order (RepInv), and     *)
(* where nothing truncates they apply the same (WholeInv);                 *)
(* any use: the counters stay in their bounds (BoundInv).                  *)
(***************************************************************************)
EXTENDS Replication, FiniteSetTheorems, TLAPS

Ring == 0..Size - 1
Unwrapped == writeIndex <= Size
Appending(t) == pc[t] \in {"write", "count"}

\* Until the ring wraps a slot holds nothing or the entry of its index.
SlotsOwn ==
  Unwrapped => \A i \in 0..Size - 1 : slots[i] # None => slots[i].index = i

\* On an index below Size the ring is an array.
LEMMA SlotBelowSize ==
  ASSUME NEW i \in Nat, i < Size
  PROVE  Slot(i) = i /\ i \in 0..Size - 1
BY LogAssumption DEF Slot

LEMMA SlotInRing ==
  ASSUME NEW i \in Nat
  PROVE  Slot(i) \in 0..Size - 1
BY LogAssumption DEF Slot

LEMMA RingIndices ==
  /\ Size \in Nat \ {0}
  /\ \A i \in Ring : i \in Nat /\ i < Size
  /\ \A i \in Nat : i < Size => i \in Ring
BY LogAssumption DEF Ring

-----------------------------------------------------------------------------
(* Nothing truncates.  Every claimed index has one owner, the thread still *)
(* writing or counting it or the acknowledged entry (Claims, Acks).  Until *)
(* the ring wraps an index has a slot of its own, so that an owner finds   *)
(* what it wrote (Kept) and a slot holds nothing or the entry of its index *)
(* (SlotsOwn).  That is why commit, which only looks whether a slot is     *)
(* taken, sees the right entries (Checked, Committed).                     *)

Untruncated == workload.truncate = {}

Types ==
  /\ workload \in Workloads
  /\ slots \in [0..Size - 1 -> [index : Int, call : Int]]
  /\ writeIndex \in Nat /\ commitIndex \in Nat /\ calls \in Nat
  /\ pc \in [Threads -> {"idle", "write", "count", "check"}]
  /\ at \in [Threads -> Nat] /\ goal \in [Threads -> Nat]
  /\ acked \subseteq [index : Nat, call : Nat]
  /\ cut = 0

Claims ==
  \A s \in Threads : Appending(s) =>
    /\ at[s] < writeIndex
    /\ \A t \in Threads : Appending(t) /\ at[s] = at[t] => s = t

Acks ==
  \A a \in acked :
    /\ a.index < writeIndex
    /\ \A t \in Threads : Appending(t) => a.index # at[t]
    /\ \A b \in acked : a.index = b.index => a = b

Kept ==
  Unwrapped =>
    /\ \A a \in acked : slots[a.index] = a
    /\ \A t \in Threads : pc[t] = "count" => slots[at[t]] = Pending(t)

Checked ==
  Unwrapped =>
    \A t \in Threads : pc[t] = "check" =>
      \A i \in 0..Size - 1 : i < at[t] => slots[i].index = i

Committed ==
  Unwrapped => \A i \in 0..Size - 1 : i < commitIndex => slots[i].index = i

IInv ==
  Untruncated =>
    Types /\ Claims /\ Acks /\ Kept /\ SlotsOwn /\ Checked /\ Committed

LEMMA InitIInv == LogInit => IInv
<1> SUFFICES ASSUME LogInit, Untruncated PROVE IInv
  BY DEF IInv
<1> USE DEF LogInit
<1>1. Types
  BY LogAssumption DEF Types, None
<1>2. Claims /\ Acks /\ Checked
  BY DEF Claims, Acks, Checked, Appending
<1>3. Kept /\ SlotsOwn /\ Committed
  BY DEF Kept, SlotsOwn, Committed
<1> QED BY <1>1, <1>2, <1>3 DEF IInv

\* One lemma per operation that can run when nothing truncates.
Step(A) == Untruncated /\ IInv /\ UNCHANGED workload /\ A

LEMMA ClaimKeeps ==
  ASSUME NEW t \in Threads, Step(Claim(t))
  PROVE  IInv'
<1> USE DEF Step, IInv, Untruncated, Claim, Go, Set
<1>1. Types'
  BY DEF Types
<1>2. Claims'
  BY DEF Types, Claims, Appending
<1>3. Acks'
  BY DEF Types, Acks, Appending
<1>4. Unwrapped' => Unwrapped
  BY LogAssumption DEF Types, Unwrapped
<1>5. Kept'
  <2> SUFFICES ASSUME Unwrapped' PROVE Kept'
    BY DEF Kept
  <2>1. \A a \in acked' : slots'[a.index] = a
    BY <1>4 DEF Kept
  <2>2. ASSUME NEW s \in Threads, pc'[s] = "count"
        PROVE  slots'[at'[s]] = Pending(s)'
    BY <1>4, <2>2 DEF Kept, Types, Pending
  <2> QED BY <2>1, <2>2 DEF Kept
<1>6. SlotsOwn' /\ Committed'
  BY <1>4 DEF SlotsOwn, Committed
<1>7. Checked'
  BY <1>4 DEF Checked, Types
<1> QED BY <1>1, <1>2, <1>3, <1>5, <1>6, <1>7

\* Writing a slot disturbs only that slot, which no other owner uses, and
\* leaves there an entry of its index.
LEMMA WriteSlotKeeps ==
  ASSUME NEW t \in Threads, Step(WriteSlot(t))
  PROVE  IInv'
<1> USE DEF Step, IInv, Untruncated
<1>1. PICK right \in workload.checksums :
        /\ Go(t, "write", IF right THEN "count" ELSE "idle")
        /\ slots' = IF right THEN [slots EXCEPT ![Slot(at[t])] = Pending(t)] ELSE slots
        /\ UNCHANGED <<counters, at, goal, history>>
  BY DEF WriteSlot
<1> USE DEF Go, counters, history
<1>2. /\ pc[t] = "write" /\ \A s \in Threads \ {t} : pc'[s] = pc[s]
      /\ pc'[t] \in {"count", "idle"}
      /\ UNCHANGED <<writeIndex, commitIndex, calls, acked, cut, at, goal>>
  BY <1>1 DEF Types
<1>3. Types'
  <2>1. Slot(at[t]) \in 0..Size - 1
    BY SlotInRing DEF Types
  <2>2. Pending(t) \in [index : Int, call : Int]
    BY DEF Types, Pending
  <2> QED BY <1>1, <2>1, <2>2 DEF Types
<1>4. Claims' /\ Acks'
  BY <1>2 DEF Types, Claims, Acks, Appending
<1>5. ASSUME Unwrapped
      PROVE  /\ Unwrapped /\ at[t] \in 0..Size - 1
             /\ \A i \in 0..Size - 1 : i # at[t] => slots'[i] = slots[i]
             /\ pc'[t] = "count" => slots'[at[t]] = Pending(t)
             /\ slots'[at[t]] \in {slots[at[t]], Pending(t)}
  <2>1. Slot(at[t]) = at[t] /\ at[t] \in 0..Size - 1
    BY <1>2, <1>5, SlotBelowSize, LogAssumption
       DEF Types, Claims, Appending, Unwrapped
  <2>2. CASE right
    BY <1>1, <1>5, <2>1, <2>2 DEF Types
  <2>3. CASE ~right
    BY <1>1, <1>5, <2>1, <2>3 DEF Types
  <2> QED BY <2>2, <2>3
<1>6. Unwrapped' => Unwrapped
  BY <1>2 DEF Unwrapped
<1>7. Kept'
  <2> SUFFICES ASSUME Unwrapped' PROVE Kept'
    BY DEF Kept
  <2>1. ASSUME NEW a \in acked PROVE slots'[a.index] = a
    <3>1. a.index \in 0..Size - 1 /\ a.index # at[t]
      BY <1>2, <1>6, LogAssumption DEF Types, Acks, Appending, Unwrapped
    <3> QED BY <1>5, <1>6, <3>1 DEF Kept
  <2>2. ASSUME NEW s \in Threads, pc'[s] = "count"
        PROVE  slots'[at'[s]] = Pending(s)'
    <3>1. CASE s = t
      BY <1>2, <1>5, <1>6, <2>2, <3>1 DEF Pending
    <3>2. CASE s # t
      <4>1. at[s] \in 0..Size - 1 /\ at[s] # at[t] /\ pc[s] = "count"
        BY <1>2, <1>6, <2>2, <3>2, LogAssumption
           DEF Types, Claims, Appending, Unwrapped
      <4> QED BY <1>2, <1>5, <1>6, <4>1 DEF Kept, Pending
    <3> QED BY <3>1, <3>2
  <2> QED BY <1>2, <2>1, <2>2 DEF Kept
<1>8. SlotsOwn'
  BY <1>5, <1>6 DEF SlotsOwn, Pending
<1>9. Checked' /\ Committed'
  BY <1>2, <1>5, <1>6 DEF Checked, Committed, Pending
<1> QED BY <1>3, <1>4, <1>7, <1>8, <1>9, <1>2

LEMMA CountEntryKeeps ==
  ASSUME NEW t \in Threads, Step(CountEntry(t))
  PROVE  IInv'
<1> USE DEF Step, IInv, Untruncated, CountEntry, Go
<1>1. Types'
  BY DEF Types, Pending
<1>2. Claims'
  BY DEF Types, Claims, Appending
<1>3. Acks'
  BY DEF Types, Claims, Acks, Appending, Pending
<1>4. Kept'
  BY DEF Types, Kept, Unwrapped, Pending
<1>5. SlotsOwn' /\ Checked' /\ Committed'
  BY DEF Types, SlotsOwn, Checked, Committed, Unwrapped
<1> QED BY <1>1, <1>2, <1>3, <1>4, <1>5

\* Steps of a commit leave entries alone and only forget or extend what the
\* caller has seen.
LEMMA CommitterKeeps ==
  ASSUME NEW t \in Threads,
         \/ \E upTo \in 1..MaxAppends : Step(Commit(t, upTo))
         \/ Step(CheckSlot(t))
         \/ Step(StoreCommit(t))
  PROVE  IInv'
<1> USE DEF Step, IInv, Untruncated, Go, Set, counters, history
<1>1. /\ pc[t] \in {"idle", "check"} /\ pc'[t] \in {"idle", "check"}
      /\ \A s \in Threads \ {t} : pc'[s] = pc[s] /\ at'[s] = at[s] /\ goal'[s] = goal[s]
      /\ UNCHANGED <<slots, writeIndex, calls, acked, cut>>
  BY DEF Commit, CheckSlot, StoreCommit, Types
<1>2. Types'
  <2>1. ASSUME NEW upTo \in 1..MaxAppends, Step(Commit(t, upTo)) PROVE Types'
    <3>1. upTo \in Nat
      BY LogAssumption
    <3> QED BY <2>1, <3>1 DEF Commit, Types
  <2>2. ASSUME Step(CheckSlot(t)) PROVE Types'
    BY <2>2 DEF CheckSlot, Types
  <2>3. ASSUME Step(StoreCommit(t)) PROVE Types'
    BY <2>3 DEF StoreCommit, Types
  <2> QED BY <2>1, <2>2, <2>3
<1>3. Claims' /\ Acks'
  BY <1>1 DEF Claims, Acks, Appending
<1>4. Kept' /\ SlotsOwn'
  BY <1>1 DEF Kept, SlotsOwn, Unwrapped, Pending
<1>5. Checked'
  <2> SUFFICES ASSUME Unwrapped, NEW s \in Threads, pc'[s] = "check",
                      NEW i \in 0..Size - 1, i < at'[s]
               PROVE  slots[i].index = i
    BY <1>1 DEF Checked, Unwrapped
  <2>1. CASE s # t
    BY <1>1, <2>1 DEF Checked
  <2>2. ASSUME s = t, NEW upTo \in 1..MaxAppends, Commit(t, upTo)
        PROVE  slots[i].index = i
    BY <2>2 DEF Commit, Types, Committed
  <2>3. CASE s = t /\ CheckSlot(t)
    <3>1. at[t] \in Nat /\ at'[t] = at[t] + 1 /\ pc[t] = "check"
      BY <2>3 DEF CheckSlot, Types
    <3>2. CASE i < at[t]
      BY <2>3, <3>1, <3>2 DEF Checked
    <3>3. CASE i = at[t]
      <4>1. Slot(at[t]) = i
        BY <3>1, <3>3, SlotBelowSize, LogAssumption
      <4>2. slots[i] # None
        BY <2>3, <4>1 DEF CheckSlot, Types
      <4> QED BY <4>2 DEF SlotsOwn
    <3> QED BY <2>3, <3>1, <3>2, <3>3
  <2>4. CASE s = t /\ StoreCommit(t)
    BY <2>4 DEF StoreCommit, Types
  <2> QED BY <2>1, <2>2, <2>3, <2>4
<1>6. Committed'
  <2>1. CASE StoreCommit(t)
    BY <1>1, <2>1, LogAssumption
       DEF StoreCommit, Types, Checked, Committed, Unwrapped
  <2>2. CASE UNCHANGED commitIndex
    BY <1>1, <2>2 DEF Committed, Unwrapped
  <2> QED BY <2>1, <2>2 DEF Commit, CheckSlot
<1> QED BY <1>2, <1>3, <1>4, <1>5, <1>6

LEMMA NextIInv == IInv /\ [LogNext]_logVars => IInv'
<1>1. CASE UNCHANGED logVars
  BY <1>1 DEF logVars, counters, locals, history, IInv, Untruncated, Types,
     Claims, Acks, Kept, SlotsOwn, Checked, Committed, Unwrapped, Appending,
     Pending
<1>2. ASSUME IInv, LogNext, ~Untruncated PROVE IInv'
  BY <1>2 DEF LogNext, IInv, Untruncated
<1>3. ASSUME IInv, LogNext, Untruncated PROVE IInv'
  <2>1. /\ workload.append \subseteq Threads /\ workload.commit \subseteq Threads
        /\ workload.truncate = {} /\ UNCHANGED workload
    BY <1>3, LogAssumption DEF LogNext, IInv, Untruncated, Types
  <2>2. ASSUME NEW t \in workload.append, Claim(t) PROVE IInv'
    BY <1>3, <2>1, <2>2, ClaimKeeps DEF Step
  <2>3. ASSUME NEW t \in workload.append, WriteSlot(t) PROVE IInv'
    BY <1>3, <2>1, <2>3, WriteSlotKeeps DEF Step
  <2>4. ASSUME NEW t \in workload.append, CountEntry(t) PROVE IInv'
    BY <1>3, <2>1, <2>4, CountEntryKeeps DEF Step
  <2>5. ASSUME NEW t \in workload.commit,
               \/ \E upTo \in 1..MaxAppends : Commit(t, upTo)
               \/ CheckSlot(t) \/ StoreCommit(t)
        PROVE  IInv'
    BY <1>3, <2>1, <2>5, CommitterKeeps DEF Step
  <2> QED BY <1>3, <2>1, <2>2, <2>3, <2>4, <2>5 DEF LogNext, LogStep
<1> QED BY <1>1, <1>2, <1>3

LEMMA SpecIInv == LogSpec => []IInv
BY InitIInv, NextIInv, PTL DEF LogSpec

-----------------------------------------------------------------------------
\* No two appends that returned Ok share an index, and what they stored stays
\* in its slot until the ring wraps, for any ring, threads and failures.
THEOREM AckedAreKeptHolds == LogSpec => []AckedAreKept
<1>1. IInv => AckedAreKept
  <2> SUFFICES ASSUME IInv, Untruncated, NotWrapped, NEW a \in acked
               PROVE  /\ \A b \in acked : a.index = b.index => a = b
                      /\ slots[Slot(a.index)] = a
    BY DEF AckedAreKept, Untruncated
  <2>1. Slot(a.index) = a.index
    BY SlotBelowSize, LogAssumption DEF IInv, Types, Acks, NotWrapped
  <2> QED BY <2>1 DEF IInv, Acks, Kept, NotWrapped, Unwrapped
<1> QED BY <1>1, SpecIInv, PTL

\* Commit never steps over an index that is still being written or whose
\* append failed, however appends and commits interleave.
LEMMA StoredWithoutTruncation ==
  LogSpec => [](workload.truncate = {} => CommittedAreStored)
<1>1. IInv => (workload.truncate = {} => CommittedAreStored)
  <2> SUFFICES ASSUME IInv, Untruncated, NotWrapped, NEW i \in cut..commitIndex - 1
               PROVE  slots[Slot(i)].index = i
    BY DEF CommittedAreStored, Untruncated
  <2>1. i \in Nat /\ i < Size /\ i < commitIndex
    BY LogAssumption DEF IInv, Types, NotWrapped
  <2> QED BY <2>1, SlotBelowSize DEF IInv, Committed, NotWrapped, Unwrapped
<1> QED BY <1>1, SpecIInv, PTL

-----------------------------------------------------------------------------
(* Every use: the types of the variables, and which thread is at what.     *)

Pcs == {"idle", "write", "count", "check", "clear", "clear all",
        "reset write", "reset total", "reset commit"}

LogTypes ==
  /\ workload \in Workloads
  /\ slots \in [0..Size - 1 -> [index : Int, call : Int]]
  /\ writeIndex \in Nat /\ commitIndex \in Nat /\ total \in Nat
  /\ calls \in Nat /\ cut \in Nat
  /\ pc \in [Threads -> Pcs]
  /\ at \in [Threads -> Nat] /\ goal \in [Threads -> Nat]
  /\ acked \subseteq [index : Nat, call : Nat]

Roles ==
  \A t \in Threads :
    /\ Appending(t) => t \in workload.append
    /\ pc[t] = "check" => t \in workload.commit
    /\ pc[t] \in Pcs \ {"idle", "write", "count", "check"} => t \in workload.truncate

\* A step of the log, with any index truncated to.
AnyLogStep ==
  /\ LogStep \/ \E t \in workload.truncate, index \in Nat : Truncate(t, index)
  /\ UNCHANGED workload

LEMMA RolesInThreads ==
  ASSUME LogTypes
  PROVE  /\ workload.append \subseteq Threads /\ workload.commit \subseteq Threads
         /\ workload.truncate \subseteq Threads
BY LogAssumption DEF LogTypes

LEMMA LogTypesKept ==
  ASSUME LogTypes, Roles, AnyLogStep
  PROVE  LogTypes' /\ Roles'
<1>1. workload' = workload
  BY DEF AnyLogStep
<1>2. /\ workload \in Workloads
      /\ slots \in [0..Size - 1 -> [index : Int, call : Int]]
      /\ writeIndex \in Nat /\ commitIndex \in Nat /\ total \in Nat
      /\ calls \in Nat /\ cut \in Nat
      /\ pc \in [Threads -> Pcs]
      /\ at \in [Threads -> Nat] /\ goal \in [Threads -> Nat]
      /\ acked \subseteq [index : Nat, call : Nat]
  BY DEF LogTypes
<1>3. None \in [index : Int, call : Int] /\ \A t \in Threads : Slot(at[t]) \in 0..Size - 1
  <2>1. None \in [index : Int, call : Int]
    BY DEF None
  <2>2. \A t \in Threads : at[t] \in Nat
    BY <1>2
  <2> QED BY <2>1, <2>2, SlotInRing
<1>4. \A t \in Threads : Pending(t) \in [index : Nat, call : Nat]
                          /\ Pending(t) \in [index : Int, call : Int]
  <2>1. \A t \in Threads : at[t] \in Nat /\ goal[t] \in Nat
    BY <1>2
  <2> QED BY <2>1 DEF Pending
<1>5. ASSUME NEW t \in workload.append, Claim(t) \/ WriteSlot(t) \/ CountEntry(t)
      PROVE  LogTypes' /\ Roles'
  <2> USE DEF counters, history, Go, Set
  <2>0. t \in Threads
    BY RolesInThreads
  <2>1. slots' \in [0..Size - 1 -> [index : Int, call : Int]]
    BY <1>2, <1>3, <1>4, <1>5, <2>0 DEF Claim, WriteSlot, CountEntry
  <2>2. acked' \subseteq [index : Nat, call : Nat]
    BY <1>2, <1>4, <1>5, <2>0 DEF Claim, WriteSlot, CountEntry
  <2>3. /\ writeIndex' \in Nat /\ commitIndex' \in Nat /\ total' \in Nat
        /\ calls' \in Nat /\ cut' \in Nat
    BY <1>2, <1>5 DEF Claim, WriteSlot, CountEntry
  <2>4. at' \in [Threads -> Nat] /\ goal' \in [Threads -> Nat]
    <3>1. /\ at' = at \/ at' = [at EXCEPT ![t] = writeIndex]
          /\ goal' = goal \/ goal' = [goal EXCEPT ![t] = calls + 1]
      BY <1>5 DEF Claim, WriteSlot, CountEntry
    <3>2. calls + 1 \in Nat
      BY <1>2
    <3> QED BY <1>2, <2>0, <3>1, <3>2
  <2>5. pc' \in [Threads -> Pcs]
    BY <1>2, <1>5, <2>0 DEF Claim, WriteSlot, CountEntry, Pcs
  <2>6. Roles'
    BY <1>1, <1>2, <1>5, <2>0 DEF Claim, WriteSlot, CountEntry, Roles, Appending, Pcs
  <2> QED BY <1>1, <1>2, <2>1, <2>2, <2>3, <2>4, <2>5, <2>6 DEF LogTypes
<1>6. ASSUME NEW t \in workload.commit,
             (\E upTo \in 1..MaxAppends : Commit(t, upTo)) \/ CheckSlot(t) \/ StoreCommit(t)
      PROVE  LogTypes' /\ Roles'
  <2> USE DEF counters, history, Go, Set
  <2>0. t \in Threads /\ \A upTo \in 1..MaxAppends : upTo \in Nat
    BY RolesInThreads, LogAssumption
  <2>1. UNCHANGED <<slots, acked, writeIndex, total, calls, cut>>
    BY <1>6 DEF Commit, CheckSlot, StoreCommit
  <2>2. commitIndex' \in Nat
    BY <1>2, <1>6, <2>0 DEF Commit, CheckSlot, StoreCommit
  <2>3. at' \in [Threads -> Nat] /\ goal' \in [Threads -> Nat]
    <3>1. /\ at' = at \/ \E i \in {commitIndex, at[t] + 1} : at' = [at EXCEPT ![t] = i]
          /\ goal' = goal \/ \E i \in 1..MaxAppends : goal' = [goal EXCEPT ![t] = i]
      BY <1>6 DEF Commit, CheckSlot, StoreCommit
    <3>2. commitIndex \in Nat /\ at[t] + 1 \in Nat
      BY <1>2, <2>0
    <3> QED BY <1>2, <2>0, <3>1, <3>2
  <2>4. pc' \in [Threads -> Pcs]
    BY <1>2, <1>6, <2>0 DEF Commit, CheckSlot, StoreCommit, Pcs
  <2>5. Roles'
    BY <1>1, <1>2, <1>6, <2>0 DEF Commit, CheckSlot, StoreCommit, Roles, Appending, Pcs
  <2> QED BY <1>1, <1>2, <2>1, <2>2, <2>3, <2>4, <2>5 DEF LogTypes
<1>7. ASSUME NEW t \in workload.truncate,
             \/ \E index \in Nat : Truncate(t, index)
             \/ ClearSlot(t) \/ EndClear(t) \/ ResetWrite(t) \/ ResetTotal(t) \/ ResetCommit(t)
      PROVE  LogTypes' /\ Roles'
  <2> USE DEF counters, history, Go, Set, Truncate, ClearSlot, EndClear,
              ResetWrite, ResetTotal, ResetCommit
  <2>0. t \in Threads
    BY RolesInThreads
  <2>1. slots' \in [0..Size - 1 -> [index : Int, call : Int]]
    BY <1>2, <1>3, <1>7, <2>0
  <2>2. acked' \subseteq [index : Nat, call : Nat] /\ calls' = calls
    BY <1>2, <1>7, <2>0
  <2>3. writeIndex' \in Nat /\ commitIndex' \in Nat /\ total' \in Nat /\ cut' \in Nat
    <3>1. /\ writeIndex' \in {writeIndex, 0} /\ commitIndex' \in {commitIndex, 0}
          /\ total' \in {total, 0} /\ (cut' \in {cut, 0} \/ cut' \in Nat)
      BY <1>7
    <3> QED BY <1>2, <3>1
  <2>4. at' \in [Threads -> Nat] /\ goal' \in [Threads -> Nat]
    <3>1. /\ at' = at \/ \E i \in {0, at[t] + 1} : at' = [at EXCEPT ![t] = i]
          /\ goal' = goal \/ \E i \in Nat : goal' = [goal EXCEPT ![t] = i]
      BY <1>2, <1>7
    <3>2. at[t] + 1 \in Nat
      BY <1>2, <2>0
    <3> QED BY <1>2, <2>0, <3>1, <3>2
  <2>5. pc' \in [Threads -> Pcs]
    BY <1>2, <1>7, <2>0 DEF Pcs
  <2>6. Roles'
    BY <1>1, <1>2, <1>7, <2>0 DEF Roles, Appending, Pcs
  <2> QED BY <1>1, <1>2, <2>1, <2>2, <2>3, <2>4, <2>5, <2>6 DEF LogTypes
<1> QED BY <1>5, <1>6, <1>7 DEF AnyLogStep, LogStep

LEMMA LogNumbers ==
  ASSUME LogTypes
  PROVE  /\ writeIndex \in Nat /\ commitIndex \in Nat /\ total \in Nat /\ cut \in Nat
         /\ pc \in [Threads -> Pcs] /\ at \in [Threads -> Nat] /\ goal \in [Threads -> Nat]
         /\ DOMAIN slots = Ring /\ Size \in Nat \ {0}
BY LogAssumption DEF LogTypes, Ring

LEMMA LogNextIsAnyStep ==
  ASSUME LogTypes, LogNext
  PROVE  AnyLogStep
<1>1. \A index \in 1..commitIndex : index \in Nat
  BY DEF LogTypes
<1> QED BY <1>1 DEF LogNext, AnyLogStep

LEMMA LogTypesHold == LogSpec => [](LogTypes /\ Roles)
<1>1. LogInit => LogTypes /\ Roles
  BY LogAssumption DEF LogInit, LogTypes, Roles, Pcs, Appending, None
<1>2. LogTypes /\ Roles /\ [LogNext]_logVars => LogTypes' /\ Roles'
  <2>1. CASE LogNext
    BY <2>1, LogNextIsAnyStep, LogTypesKept
  <2>2. CASE UNCHANGED logVars
    BY <2>2 DEF logVars, counters, locals, history, LogTypes, Roles, Appending
  <2> QED BY <2>1, <2>2
<1> QED BY <1>1, <1>2, PTL DEF LogSpec

-----------------------------------------------------------------------------
(* One thread appends, with right checksums; truncation, if any, is alone. *)
(* Between its calls as many entries are counted as indices were claimed   *)
(* (AppendsCounted), so that get refuses none of them.  Entries in flight  *)
(* or readable are less than a lap apart and have slots of their own       *)
(* (ReadableSlots, SlotUnique); a truncation clears only what is below cut, *)
(* and one that starts the log again from 0 only when nothing readable is  *)
(* left (ClearsBelowCut).                                                  *)

Sequential ==
  /\ Alone(workload.append) /\ workload.checksums = {TRUE}
  /\ workload.truncate # {} => TruncatesAlone

AppendsCounted ==
  /\ \A t \in Threads :
       /\ Appending(t) => at[t] = total /\ writeIndex = total + 1
       /\ pc[t] = "reset total" => writeIndex = 0 /\ acked = {}
       /\ pc[t] = "reset commit" => writeIndex = 0 /\ total = 0
  /\ (\A t \in Threads : ~Appending(t) /\ pc[t] # "reset total") => writeIndex = total
  /\ \A a \in acked : a.index < total

ClearsBelowCut ==
  \A t \in Threads :
    /\ pc[t] \in {"clear", "clear all"} => goal[t] <= cut
    /\ pc[t] \in {"clear all", "reset write"} => total <= cut

ReadableSlots ==
  (workload.truncate # {} => Unwrapped) =>
    /\ \A a \in acked :
         a.index >= cut /\ a.index + Size >= writeIndex => slots[Slot(a.index)] = a
    /\ \A t \in Threads : pc[t] = "count" => slots[Slot(at[t])] = Pending(t)

ReadInv == Sequential => AppendsCounted /\ ClearsBelowCut /\ ReadableSlots

LEMMA DivMod ==
  \A a \in Nat, c \in Nat \ {0} :
    a = (c * (a \div c)) + (a % c) /\ a % c \in 0..c - 1 /\ a \div c \in Nat
  BY Z3

\* Indices less than a lap apart have slots of their own.
LEMMA SlotUnique ==
  ASSUME NEW i \in Nat, NEW j \in Nat, Slot(i) = Slot(j), i <= j, j < i + Size
  PROVE  i = j
<1> DEFINE a == i \div Size
           b == j \div Size
           m == i % Size
<1>0. Size \in Nat \ {0}
  BY LogAssumption
<1>1. /\ i = (Size * a) + m /\ j = (Size * b) + m
      /\ a \in Nat /\ b \in Nat /\ m \in Nat
  <2>1. i = (Size * (i \div Size)) + (i % Size) /\ i % Size \in 0..Size - 1 /\ i \div Size \in Nat
    BY <1>0, DivMod
  <2>2. j = (Size * (j \div Size)) + (j % Size) /\ j \div Size \in Nat
    BY <1>0, DivMod
  <2> QED BY <2>1, <2>2 DEF Slot
<1> HIDE DEF a, b, m
<1>2. Size * (b - a) = j - i  BY <1>0, <1>1, SMT
<1>3. b > a => Size * (b - a) >= Size
  <2> SUFFICES ASSUME b - a >= 1 PROVE Size * (b - a) >= Size  BY <1>1
  <2> QED BY <1>0, <1>1, SMT
<1>4. b <= a => Size * (b - a) <= 0
  <2> SUFFICES ASSUME b - a <= 0 PROVE Size * (b - a) <= 0  BY <1>1
  <2> QED BY <1>0, <1>1, SMT
<1> QED BY <1>0, <1>1, <1>2, <1>3, <1>4

\* Where truncation has the log to itself, only one thread is ever at work.
LEMMA OthersIdle ==
  ASSUME LogTypes, Roles, TruncatesAlone, workload.truncate # {},
         NEW t \in workload.append \union workload.commit \union workload.truncate,
         NEW s \in Threads, s # t
  PROVE  pc[s] = "idle"
<1>1. s \notin workload.append \union workload.commit \union workload.truncate
  BY DEF TruncatesAlone, Alone
<1>2. pc[s] \in Pcs
  BY DEF LogTypes
<1> QED BY <1>1, <1>2 DEF Roles, Appending, Pcs

LEMMA OneAppender ==
  ASSUME LogTypes, Roles, Sequential, NEW t \in workload.append, NEW s \in Threads, Appending(s)
  PROVE  s = t
BY DEF Roles, Sequential, Alone

\* What each thread other than the appender is doing, as far as ReadInv cares.
ReadParts == AppendsCounted /\ ClearsBelowCut /\ ReadableSlots

LEMMA ReadClaim ==
  ASSUME LogTypes, Roles, Sequential, ReadParts, UNCHANGED workload,
         NEW t \in workload.append, Claim(t)
  PROVE  ReadParts'
<1>1. /\ t \in Threads /\ pc[t] = "idle" /\ pc' = [pc EXCEPT ![t] = "write"]
      /\ at' = [at EXCEPT ![t] = writeIndex] /\ writeIndex' = writeIndex + 1
      /\ goal' = [goal EXCEPT ![t] = calls + 1]
      /\ slots' = slots /\ total' = total /\ acked' = acked /\ cut' = cut
  BY RolesInThreads DEF Claim, Go, Set
<1>2. /\ writeIndex \in Nat /\ total \in Nat /\ cut \in Nat
      /\ pc \in [Threads -> Pcs] /\ at \in [Threads -> Nat] /\ goal \in [Threads -> Nat]
      /\ \A a \in acked : a.index \in Nat
  BY DEF LogTypes
<1>3. \A s \in Threads : s # t => pc[s] # "reset total" /\ pc[s] # "reset commit" /\ ~Appending(s)
  <2>1. ASSUME NEW s \in Threads, s # t PROVE ~Appending(s)
    BY <2>1, OneAppender
  <2>2. ASSUME NEW s \in Threads, s # t, pc[s] = "reset total" \/ pc[s] = "reset commit" PROVE FALSE
    <3>1. s \in workload.truncate
      BY <2>2 DEF Roles, Pcs
    <3>2. TruncatesAlone
      BY <3>1 DEF Sequential
    <3> QED BY <2>2, <3>1, <3>2, OthersIdle
  <2> QED BY <2>1, <2>2
<1>4. writeIndex = total
  BY <1>1, <1>3 DEF ReadParts, AppendsCounted, Appending
<1>5. AppendsCounted'
  <2>1. ASSUME NEW s \in Threads
        PROVE  /\ Appending(s)' => at'[s] = total' /\ writeIndex' = total' + 1
               /\ pc'[s] # "reset total" /\ pc'[s] # "reset commit"
    BY <1>1, <1>2, <1>3, <1>4 DEF Appending
  <2>2. Appending(t)'
    BY <1>1, <1>2 DEF Appending
  <2> QED BY <1>1, <2>1, <2>2 DEF ReadParts, AppendsCounted
<1>6. ClearsBelowCut'
  BY <1>1, <1>2 DEF ReadParts, ClearsBelowCut
<1>7. ReadableSlots'
  <2> SUFFICES ASSUME workload.truncate # {} => Unwrapped'
               PROVE  /\ \A a \in acked : a.index >= cut /\ a.index + Size >= writeIndex'
                           => slots[Slot(a.index)] = a
                      /\ \A s \in Threads : pc'[s] = "count" => slots[Slot(at'[s])] = Pending(s)'
    BY <1>1 DEF ReadableSlots
  <2>1. workload.truncate # {} => Unwrapped
    BY <1>1, <1>2, LogAssumption DEF Unwrapped
  <2>2. \A a \in acked : a.index + Size >= writeIndex' => a.index + Size >= writeIndex
    BY <1>1, <1>2, LogAssumption
  <2>3. \A s \in Threads : pc'[s] # "count"
    BY <1>1, <1>2, <1>3 DEF Appending
  <2> QED BY <2>1, <2>2, <2>3 DEF ReadParts, ReadableSlots
<1> QED BY <1>5, <1>6, <1>7 DEF ReadParts

LEMMA ReadWrite ==
  ASSUME LogTypes, Roles, Sequential, ReadParts, UNCHANGED workload,
         NEW t \in workload.append, WriteSlot(t)
  PROVE  ReadParts'
<1>1. /\ t \in Threads /\ pc[t] = "write" /\ pc' = [pc EXCEPT ![t] = "count"]
      /\ slots' = [slots EXCEPT ![Slot(at[t])] = Pending(t)]
      /\ at' = at /\ goal' = goal /\ writeIndex' = writeIndex
      /\ total' = total /\ acked' = acked /\ cut' = cut
  BY RolesInThreads DEF WriteSlot, Go, counters, history, Sequential
<1>2. /\ writeIndex \in Nat /\ total \in Nat /\ cut \in Nat
      /\ pc \in [Threads -> Pcs] /\ at \in [Threads -> Nat] /\ goal \in [Threads -> Nat]
      /\ \A a \in acked : a.index \in Nat
  BY DEF LogTypes
<1>3. at[t] = total /\ writeIndex = total + 1
  BY <1>1 DEF ReadParts, AppendsCounted, Appending
<1>4. \A s \in Threads : Appending(s)' <=> Appending(s)
  BY <1>1, <1>2 DEF Appending
<1>5. AppendsCounted'
  <2>1. \A s \in Threads : s # t => pc'[s] = pc[s]
    BY <1>1, <1>2
  <2>2. pc'[t] = "count"
    BY <1>1, <1>2
  <2>3. Appending(t)'
    BY <2>2 DEF Appending
  <2> QED BY <1>1, <1>3, <1>4, <2>1, <2>2, <2>3 DEF ReadParts, AppendsCounted
<1>6. ClearsBelowCut'
  BY <1>1, <1>2 DEF ReadParts, ClearsBelowCut
<1>7. ReadableSlots'
  <2> SUFFICES ASSUME workload.truncate # {} => Unwrapped
               PROVE  /\ \A a \in acked : a.index >= cut /\ a.index + Size >= writeIndex
                           => slots'[Slot(a.index)] = a
                      /\ \A s \in Threads : pc'[s] = "count" => slots'[Slot(at'[s])] = Pending(s)'
    BY <1>1 DEF ReadableSlots, Unwrapped
  <2>0. Slot(at[t]) \in 0..Size - 1
    BY <1>1, <1>2, SlotInRing
  <2>1. ASSUME NEW a \in acked, a.index >= cut, a.index + Size >= writeIndex
        PROVE  slots'[Slot(a.index)] = a
    <3>1. a.index < total
      BY DEF ReadParts, AppendsCounted
    <3>2. Slot(a.index) # Slot(at[t])
      BY <1>1, <1>2, <1>3, <2>1, <3>1, SlotUnique, LogAssumption
    <3>3. slots[Slot(a.index)] = a
      BY <2>1 DEF ReadParts, ReadableSlots
    <3>4. slots'[Slot(a.index)] = slots[Slot(a.index)]
      <4>1. Slot(a.index) \in 0..Size - 1
        BY <1>2, SlotInRing
      <4>2. DOMAIN slots = 0..Size - 1
        BY DEF LogTypes
      <4> QED BY <1>1, <3>2, <4>1, <4>2
    <3> QED BY <3>3, <3>4
  <2>2. ASSUME NEW s \in Threads, pc'[s] = "count" PROVE slots'[Slot(at'[s])] = Pending(s)'
    <3>1. s = t
      BY <1>4, <2>2, OneAppender DEF Appending
    <3>2. DOMAIN slots = 0..Size - 1
      BY DEF LogTypes
    <3> QED BY <1>1, <2>0, <3>1, <3>2 DEF Pending
  <2> QED BY <2>1, <2>2
<1> QED BY <1>5, <1>6, <1>7 DEF ReadParts

LEMMA ReadCount ==
  ASSUME LogTypes, Roles, Sequential, ReadParts, UNCHANGED workload,
         NEW t \in workload.append, CountEntry(t)
  PROVE  ReadParts'
<1>1. /\ t \in Threads /\ pc[t] = "count" /\ pc' = [pc EXCEPT ![t] = "idle"]
      /\ slots' = slots /\ at' = at /\ goal' = goal /\ writeIndex' = writeIndex
      /\ total' = total + 1 /\ acked' = acked \union {Pending(t)} /\ cut' = cut
  BY RolesInThreads DEF CountEntry, Go
<1>2. /\ writeIndex \in Nat /\ total \in Nat /\ cut \in Nat
      /\ pc \in [Threads -> Pcs] /\ at \in [Threads -> Nat] /\ goal \in [Threads -> Nat]
      /\ \A a \in acked : a.index \in Nat
  BY DEF LogTypes
<1>3. at[t] = total /\ writeIndex = total + 1
  BY <1>1 DEF ReadParts, AppendsCounted, Appending
<1>4. \A s \in Threads : s # t => ~Appending(s)
  BY OneAppender
<1>5. pc'[t] = "idle" /\ \A s \in Threads : s # t => pc'[s] = pc[s]
  BY <1>1, <1>2
<1>6. \A s \in Threads : ~Appending(s)'
  BY <1>4, <1>5 DEF Appending
<1>7. ASSUME NEW s \in Threads, pc'[s] \notin {"idle", "write", "count", "check"} PROVE FALSE
  <2>1. s # t /\ pc[s] = pc'[s]
    BY <1>5, <1>7
  <2>2. s \in workload.truncate
    BY <1>2, <1>7, <2>1 DEF Roles
  <2>3. TruncatesAlone
    BY <2>2 DEF Sequential
  <2> QED BY <1>7, <2>1, <2>2, <2>3, OthersIdle
<1>8. AppendsCounted'
  <2>1. Pending(t).index = total
    BY <1>3 DEF Pending
  <2>2. \A a \in acked' : a.index < total'
    <3>1. \A a \in acked : a.index < total
      BY DEF ReadParts, AppendsCounted
    <3>2. \A a \in acked : a.index < total + 1
      BY <1>2, <3>1
    <3> QED BY <1>1, <1>2, <2>1, <3>2
  <2> QED BY <1>1, <1>3, <1>6, <1>7, <2>2 DEF AppendsCounted
<1>9. ClearsBelowCut'
  BY <1>7 DEF ClearsBelowCut
<1>10. ReadableSlots'
  <2>1. \A s \in Threads : pc'[s] # "count"
    BY <1>6 DEF Appending
  <2>2. Pending(t).index = at[t]
    BY DEF Pending
  <2> QED BY <1>1, <2>1, <2>2 DEF ReadParts, ReadableSlots, Unwrapped
<1> QED BY <1>8, <1>9, <1>10 DEF ReadParts

LEMMA ReadCommitter ==
  ASSUME LogTypes, Roles, Sequential, ReadParts, UNCHANGED workload,
         NEW t \in workload.commit,
         (\E upTo \in 1..MaxAppends : Commit(t, upTo)) \/ CheckSlot(t) \/ StoreCommit(t)
  PROVE  ReadParts'
<1>1. /\ t \in Threads /\ pc[t] \in {"idle", "check"}
      /\ \E p \in {"idle", "check"} : pc' = [pc EXCEPT ![t] = p]
      /\ \A s \in Threads : s # t => at'[s] = at[s] /\ goal'[s] = goal[s]
      /\ slots' = slots /\ writeIndex' = writeIndex
      /\ total' = total /\ acked' = acked /\ cut' = cut
  <2>1. t \in Threads
    BY RolesInThreads
  <2>2. at \in [Threads -> Nat] /\ goal \in [Threads -> Nat]
    BY DEF LogTypes
  <2> QED BY <2>1, <2>2 DEF Commit, CheckSlot, StoreCommit, Go, Set, counters, history
<1>2. pc'[t] \in {"idle", "check"} /\ \A s \in Threads : s # t => pc'[s] = pc[s]
  BY <1>1 DEF LogTypes
<1>3. AppendsCounted'
  BY <1>1, <1>2 DEF ReadParts, AppendsCounted, Appending
<1>4. ClearsBelowCut'
  BY <1>1, <1>2 DEF ReadParts, ClearsBelowCut
<1>5. ReadableSlots'
  BY <1>1, <1>2 DEF ReadParts, ReadableSlots, Unwrapped, Pending
<1> QED BY <1>3, <1>4, <1>5 DEF ReadParts

LEMMA ReadTruncate ==
  ASSUME LogTypes, Roles, Sequential, ReadParts, UNCHANGED workload,
         NEW t \in workload.truncate, NEW index \in Nat, Truncate(t, index)
  PROVE  ReadParts'
<1>1. /\ t \in Threads /\ pc[t] = "idle"
      /\ pc' = [pc EXCEPT ![t] = IF index >= total THEN "clear all" ELSE "clear"]
      /\ goal' = [goal EXCEPT ![t] = IF index < total THEN index ELSE total]
      /\ cut' = IF index > cut THEN index ELSE cut
      /\ slots' = slots /\ writeIndex' = writeIndex
      /\ total' = total /\ acked' = acked
  BY RolesInThreads DEF Truncate, Go, Set, counters
<1>2. /\ writeIndex \in Nat /\ total \in Nat /\ cut \in Nat
      /\ pc \in [Threads -> Pcs] /\ at \in [Threads -> Nat] /\ goal \in [Threads -> Nat]
      /\ \A a \in acked : a.index \in Nat
  BY DEF LogTypes
<1>3. \A s \in Threads : s # t => pc[s] = "idle"
  BY OthersIdle DEF Sequential
<1>4. pc'[t] = (IF index >= total THEN "clear all" ELSE "clear")
      /\ \A s \in Threads : s # t => pc'[s] = "idle"
  BY <1>1, <1>2, <1>3
<1>5. AppendsCounted'
  <2>1. \A s \in Threads : ~Appending(s) /\ pc[s] # "reset total"
    BY <1>1, <1>3 DEF Appending
  <2>2. writeIndex = total /\ \A a \in acked : a.index < total
    BY <2>1 DEF ReadParts, AppendsCounted
  <2>3. \A s \in Threads : ~Appending(s)' /\ pc'[s] \notin {"reset total", "reset commit"}
    BY <1>4 DEF Appending
  <2> QED BY <1>1, <2>2, <2>3 DEF AppendsCounted
<1>6. ClearsBelowCut'
  <2>0. /\ index \in Nat /\ total \in Nat /\ cut \in Nat /\ total' = total
        /\ cut' = IF index > cut THEN index ELSE cut
    BY <1>1, <1>2
  <2>1. goal'[t] <= cut'
    <3>1. goal'[t] = IF index < total THEN index ELSE total
      BY <1>1, <1>2
    <3> QED BY <2>0, <3>1
  <2>2. pc'[t] \in {"clear all", "reset write"} => total' <= cut'
    <3>1. index >= total => total' <= cut'
      BY <2>0
    <3> QED BY <1>4, <3>1
  <2> QED BY <1>4, <2>1, <2>2 DEF ClearsBelowCut
<1>7. ReadableSlots'
  <2>1. \A s \in Threads : pc'[s] # "count"
    BY <1>4
  <2>2. \A a \in acked : a.index >= cut' => a.index >= cut
    <3>1. cut' \in Nat /\ cut' >= cut
      <4>1. cut' = IF index > cut THEN index ELSE cut
        BY <1>1
      <4> QED BY <1>2, <4>1
    <3> QED BY <1>2, <3>1
  <2> QED BY <1>1, <2>1, <2>2 DEF ReadParts, ReadableSlots, Unwrapped
<1> QED BY <1>5, <1>6, <1>7 DEF ReadParts

LEMMA ReadClear ==
  ASSUME LogTypes, Roles, Sequential, ReadParts, UNCHANGED workload,
         NEW t \in workload.truncate, ClearSlot(t)
  PROVE  ReadParts'
<1>1. /\ t \in Threads /\ pc[t] \in {"clear", "clear all"} /\ at[t] < goal[t]
      /\ pc' = pc /\ goal' = goal /\ slots' = [slots EXCEPT ![Slot(at[t])] = None]
      /\ cut' = cut /\ writeIndex' = writeIndex /\ total' = total /\ acked' = acked
  BY RolesInThreads DEF ClearSlot, Set, counters, history
<1>2. /\ writeIndex \in Nat /\ total \in Nat /\ cut \in Nat
      /\ pc \in [Threads -> Pcs] /\ at \in [Threads -> Nat] /\ goal \in [Threads -> Nat]
      /\ \A a \in acked : a.index \in Nat
  BY DEF LogTypes
<1>3. \A s \in Threads : s # t => pc[s] = "idle"
  BY OthersIdle DEF Sequential
<1>4. \A s \in Threads : ~Appending(s) /\ pc[s] \notin {"reset total", "reset commit"}
  BY <1>1, <1>3 DEF Appending
<1>5. AppendsCounted'
  BY <1>1, <1>4 DEF ReadParts, AppendsCounted, Appending
<1>6. ClearsBelowCut'
  BY <1>1 DEF ReadParts, ClearsBelowCut
<1>7. ReadableSlots'
  <2> SUFFICES ASSUME Unwrapped, NEW a \in acked, a.index >= cut, a.index + Size >= writeIndex
               PROVE  slots'[Slot(a.index)] = a
    BY <1>1, <1>4 DEF ReadableSlots, Appending, Unwrapped
  <2>1. a.index < total /\ writeIndex = total /\ goal[t] <= cut
    BY <1>1, <1>4 DEF ReadParts, AppendsCounted, ClearsBelowCut
  <2>2. a.index \in Nat /\ at[t] \in Nat /\ goal[t] \in Nat /\ Size \in Nat /\ writeIndex <= Size
    BY <1>1, <1>2, LogAssumption DEF Unwrapped
  <2>3. at[t] < Size /\ a.index < Size /\ at[t] # a.index
    <3>1. at[t] < goal[t] /\ a.index >= cut
      BY <1>1
    <3>2. at[t] < cut /\ cut <= a.index /\ a.index < Size
      BY <1>2, <2>1, <2>2, <3>1
    <3> QED BY <1>2, <2>2, <3>2
  <2>4. Slot(a.index) = a.index /\ Slot(at[t]) = at[t] /\ a.index \in 0..Size - 1
    BY <2>2, <2>3, SlotBelowSize
  <2>5. slots[a.index] = a
    BY <2>4 DEF ReadParts, ReadableSlots
  <2>6. DOMAIN slots = 0..Size - 1
    BY DEF LogTypes
  <2> QED BY <1>1, <2>3, <2>4, <2>5, <2>6
<1> QED BY <1>5, <1>6, <1>7 DEF ReadParts

LEMMA ReadReset ==
  ASSUME LogTypes, Roles, Sequential, ReadParts, UNCHANGED workload,
         NEW t \in workload.truncate,
         EndClear(t) \/ ResetWrite(t) \/ ResetTotal(t) \/ ResetCommit(t)
  PROVE  ReadParts'
<1>1. t \in Threads
  BY RolesInThreads
<1>2. /\ writeIndex \in Nat /\ total \in Nat /\ cut \in Nat
      /\ pc \in [Threads -> Pcs]
      /\ \A a \in acked : a.index \in Nat
  BY DEF LogTypes
<1>3. \A s \in Threads : s # t => pc[s] = "idle"
  BY OthersIdle DEF Sequential
<1>4. CASE EndClear(t)
  <2>1. /\ pc[t] \in {"clear", "clear all"} /\ pc' = [pc EXCEPT ![t] = IF pc[t] = "clear" THEN "idle" ELSE "reset write"]
        /\ UNCHANGED <<slots, writeIndex, total, at, goal, acked, cut>>
    BY <1>4 DEF EndClear, Set, counters, history
  <2>2. /\ pc'[t] = (IF pc[t] = "clear" THEN "idle" ELSE "reset write")
        /\ \A s \in Threads : s # t => pc'[s] = "idle"
    BY <1>1, <1>2, <1>3, <2>1
  <2>3. AppendsCounted'
    <3>1. \A s \in Threads : ~Appending(s) /\ pc[s] # "reset total"
      BY <1>3, <2>1 DEF Appending
    <3>2. writeIndex = total /\ \A a \in acked : a.index < total
      BY <3>1 DEF ReadParts, AppendsCounted
    <3>3. \A s \in Threads : ~Appending(s)' /\ pc'[s] \notin {"reset total", "reset commit"}
      BY <2>2 DEF Appending
    <3> QED BY <2>1, <3>2, <3>3 DEF AppendsCounted
  <2>4. ClearsBelowCut'
    <3>1. pc[t] = "clear all" => total <= cut
      BY <1>1 DEF ReadParts, ClearsBelowCut
    <3>0. pc'[t] \in {"idle", "reset write"} /\ (pc'[t] = "reset write" => pc[t] = "clear all")
      <4>1. pc'[t] = IF pc[t] = "clear" THEN "idle" ELSE "reset write"
        BY <2>2
      <4>2. CASE pc[t] = "clear"
        BY <4>1, <4>2
      <4>3. CASE pc[t] = "clear all"
        BY <4>1, <4>3
      <4> QED BY <2>1, <4>2, <4>3
    <3>2. \A s \in Threads : pc'[s] \notin {"clear", "clear all"}
      BY <2>2, <3>0
    <3>3. \A s \in Threads : pc'[s] = "reset write" => s = t /\ pc[t] = "clear all"
      BY <2>2, <3>0
    <3> QED BY <2>1, <3>1, <3>2, <3>3 DEF ClearsBelowCut
  <2>5. ReadableSlots'
    <3>1. \A s \in Threads : pc'[s] # "count"
      BY <2>2
    <3> QED BY <2>1, <3>1 DEF ReadParts, ReadableSlots, Unwrapped
  <2> QED BY <2>3, <2>4, <2>5 DEF ReadParts
<1>5. CASE ResetWrite(t)
  <2>1. /\ pc[t] = "reset write" /\ pc' = [pc EXCEPT ![t] = "reset total"]
        /\ writeIndex' = 0 /\ acked' = {a \in acked : a.index >= cut}
    BY <1>5 DEF ResetWrite, Go
  <2>2. /\ pc'[t] = "reset total" /\ \A s \in Threads : s # t => pc'[s] = "idle"
    BY <1>1, <1>2, <1>3, <2>1
  <2>3. acked' = {}
    <3>1. total <= cut
      BY <1>1, <2>1 DEF ReadParts, ClearsBelowCut
    <3>2. \A a \in acked : a.index < total
      BY DEF ReadParts, AppendsCounted
    <3>3. \A a \in acked : ~(a.index >= cut)
      BY <1>2, <3>1, <3>2
    <3> QED BY <2>1, <3>3
  <2>4. AppendsCounted'
    BY <1>1, <2>1, <2>2, <2>3 DEF AppendsCounted, Appending
  <2>5. ClearsBelowCut' /\ ReadableSlots'
    BY <2>2, <2>3 DEF ClearsBelowCut, ReadableSlots
  <2> QED BY <2>4, <2>5 DEF ReadParts
<1>6. CASE ResetTotal(t)
  <2>1. /\ pc[t] = "reset total" /\ pc' = [pc EXCEPT ![t] = "reset commit"]
        /\ total' = 0 /\ writeIndex' = writeIndex /\ acked' = acked
    BY <1>6 DEF ResetTotal, Go, history
  <2>2. /\ pc'[t] = "reset commit" /\ \A s \in Threads : s # t => pc'[s] = "idle"
    BY <1>1, <1>2, <1>3, <2>1
  <2>3. writeIndex = 0 /\ acked = {}
    BY <1>1, <2>1 DEF ReadParts, AppendsCounted
  <2>4. AppendsCounted'
    BY <1>1, <2>1, <2>2, <2>3 DEF AppendsCounted, Appending
  <2>5. ClearsBelowCut' /\ ReadableSlots'
    BY <2>1, <2>2, <2>3 DEF ClearsBelowCut, ReadableSlots
  <2> QED BY <2>4, <2>5 DEF ReadParts
<1>7. CASE ResetCommit(t)
  <2>1. /\ pc[t] = "reset commit" /\ pc' = [pc EXCEPT ![t] = "idle"]
        /\ UNCHANGED <<slots, writeIndex, total, acked, cut, at, goal>>
    BY <1>7 DEF ResetCommit, Go, history
  <2>2. \A s \in Threads : pc'[s] = "idle"
    BY <1>1, <1>2, <1>3, <2>1
  <2>3. writeIndex = 0 /\ total = 0
    BY <1>1, <2>1 DEF ReadParts, AppendsCounted
  <2>4. AppendsCounted'
    BY <1>1, <2>1, <2>2, <2>3 DEF ReadParts, AppendsCounted, Appending
  <2>5. ClearsBelowCut' /\ ReadableSlots'
    BY <2>1, <2>2 DEF ReadParts, ClearsBelowCut, ReadableSlots, Unwrapped
  <2> QED BY <2>4, <2>5 DEF ReadParts
<1> QED BY <1>4, <1>5, <1>6, <1>7

LEMMA NextReadInv == LogTypes /\ Roles /\ ReadInv /\ [LogNext]_logVars => ReadInv'
<1> SUFFICES ASSUME LogTypes, Roles, ReadInv, [LogNext]_logVars, Sequential'
             PROVE  ReadParts'
  BY DEF ReadInv, ReadParts
<1>1. CASE UNCHANGED logVars
  BY <1>1 DEF logVars, counters, locals, history, ReadInv, ReadParts, AppendsCounted,
     ClearsBelowCut, ReadableSlots, Sequential, TruncatesAlone, Appending, Pending, Unwrapped
<1>2. CASE LogNext
  <2>1. UNCHANGED workload /\ Sequential /\ ReadParts
    BY <1>2 DEF LogNext, ReadInv, ReadParts, Sequential, TruncatesAlone
  <2>2. ASSUME NEW t \in workload.append, Claim(t) \/ WriteSlot(t) \/ CountEntry(t)
        PROVE  ReadParts'
    BY <2>1, <2>2, ReadClaim, ReadWrite, ReadCount
  <2>3. ASSUME NEW t \in workload.commit,
               (\E upTo \in 1..MaxAppends : Commit(t, upTo)) \/ CheckSlot(t) \/ StoreCommit(t)
        PROVE  ReadParts'
    BY <2>1, <2>3, ReadCommitter
  <2>4. ASSUME NEW t \in workload.truncate,
               ClearSlot(t) \/ EndClear(t) \/ ResetWrite(t) \/ ResetTotal(t) \/ ResetCommit(t)
        PROVE  ReadParts'
    BY <2>1, <2>4, ReadClear, ReadReset
  <2>5. ASSUME NEW t \in workload.truncate, NEW index \in 1..commitIndex, Truncate(t, index)
        PROVE  ReadParts'
    <3>1. index \in Nat
      BY DEF LogTypes
    <3> QED BY <2>1, <2>5, <3>1, ReadTruncate
  <2> QED BY <1>2, <2>2, <2>3, <2>4, <2>5 DEF LogNext, LogStep
<1> QED BY <1>1, <1>2

\* With one appender and right checksums an entry that append acknowledged is
\* found by get at its index, until its slot is claimed again or it is
\* truncated: on any ring, however often it wraps, as long as nothing is
\* truncated, and on a ring that has not wrapped whatever is truncated and
\* however often the log starts again from 0.
THEOREM AckedIsReadableHolds == LogSpec => []AckedIsReadable
<1>1. LogInit => ReadInv
  <2> SUFFICES ASSUME LogInit PROVE AppendsCounted /\ ClearsBelowCut /\ ReadableSlots
    BY DEF ReadInv
  <2> QED BY DEF LogInit, AppendsCounted, ClearsBelowCut, ReadableSlots, Appending
<1>2. LogTypes /\ Roles /\ ReadInv /\ [LogNext]_logVars => ReadInv'
  BY NextReadInv
<1>3. LogTypes /\ ReadInv => AckedIsReadable
  <2> SUFFICES ASSUME LogTypes, ReadInv,
                      Alone(workload.append), workload.checksums = {TRUE},
                      workload.truncate # {} => TruncatesAlone /\ NotWrapped,
                      NEW a \in acked, a.index >= cut, a.index + Size >= writeIndex
               PROVE  Get(a.index) = a
    BY DEF AckedIsReadable
  <2>1. AppendsCounted /\ ReadableSlots
    BY DEF ReadInv, Sequential
  <2>2. a.index < total /\ a.index \in Nat /\ total \in Nat
    BY <2>1 DEF AppendsCounted, LogTypes
  <2>3. slots[Slot(a.index)] = a
    BY <2>1 DEF ReadableSlots, NotWrapped, Unwrapped
  <2> QED BY <2>2, <2>3 DEF Get
<1> QED BY <1>1, <1>2, <1>3, LogTypesHold, PTL DEF LogSpec

-----------------------------------------------------------------------------
(* The thread that truncates does everything.  The danger is the start from *)
(* 0: it must not leave behind an entry whose index would then be used     *)
(* again.  No more slots are used, or lie below the commit index, than     *)
(* entries were counted (UsedCounted); commit has seen a taken slot at each *)
(* index below its own (Seen), so when the whole log is cleared up to the  *)
(* count, the used slots are exactly the first ones and all are emptied    *)
(* (Clearing, Emptied): the new log starts on an empty ring.               *)

Used == {i \in Ring : slots[i] # None \/ i < commitIndex}
Resetting(t) == pc[t] \in {"reset write", "reset total", "reset commit"}

UsedCounted(t) ==
  pc[t] \notin {"reset total", "reset commit"} =>
    Cardinality(Used) <= IF pc[t] = "count" THEN total + 1 ELSE total
Emptied(t) == Resetting(t) => \A i \in Ring : slots[i] = None
ClaimsBehind(t) == pc[t] = "write" => at[t] < writeIndex
Clearing(t) ==
  /\ pc[t] \in {"clear", "clear all"} => goal[t] <= cut /\ goal[t] <= commitIndex
  /\ pc[t] = "clear all" => goal[t] = total /\ \A i \in Ring : i < at[t] => slots[i] = None
Seen(t) ==
  pc[t] = "check" => \A i \in Ring : i < at[t] =>
    i \in Used /\ (Unwrapped /\ cut <= i => slots[i].index = i)
StoredBehind(t) ==
  Unwrapped /\ pc[t] \notin {"reset total", "reset commit"} =>
    \A i \in Ring : cut <= i /\ i < commitIndex => slots[i].index = i
SoloParts(t) ==
  /\ SlotsOwn /\ UsedCounted(t) /\ Emptied(t) /\ ClaimsBehind(t) /\ Clearing(t)
  /\ Seen(t) /\ StoredBehind(t)
SoloInv == TruncatesAlone => \A t \in workload.truncate : SoloParts(t)

LEMMA UsedFinite ==
  /\ IsFiniteSet(Used) /\ Cardinality(Used) \in Nat /\ Used \subseteq Ring
<1>1. Size \in Nat
  BY LogAssumption
<1>2. IsFiniteSet(Ring)
  BY <1>1, FS_Interval DEF Ring
<1>3. Used \subseteq Ring
  BY DEF Used, Ring
<1> QED BY <1>2, <1>3, FS_Subset, FS_CardinalityType

LEMMA FewerUsed ==
  ASSUME Used' \subseteq Used
  PROVE  Cardinality(Used') \in Nat /\ Cardinality(Used') <= Cardinality(Used)
BY UsedFinite, FS_Subset, FS_CardinalityType

LEMMA OneMoreUsed ==
  ASSUME NEW i \in Ring, Used' \subseteq Used \union {i}
  PROVE  Cardinality(Used') \in Nat /\ Cardinality(Used') <= Cardinality(Used) + 1
<1>1. /\ IsFiniteSet(Used \union {i})
      /\ Cardinality(Used \union {i}) = IF i \in Used THEN Cardinality(Used) ELSE Cardinality(Used) + 1
  BY UsedFinite, FS_AddElement
<1>2. IsFiniteSet(Used') /\ Cardinality(Used') <= Cardinality(Used \union {i})
  BY <1>1, FS_Subset
<1>3. Cardinality(Used') \in Nat /\ Cardinality(Used) \in Nat
  BY <1>2, UsedFinite, FS_CardinalityType
<1> QED BY <1>1, <1>2, <1>3

\* As many slots used as the first ones there are: those are the slots used.
LEMMA FirstOnesUsed ==
  ASSUME NEW n \in Nat, n <= Size, Cardinality(Used) <= n, 0..n - 1 \subseteq Used
  PROVE  Used = 0..n - 1
<1>1. IsFiniteSet(0..n - 1) /\ Cardinality(0..n - 1) = n
  <2>1. IsFiniteSet(0..n - 1) /\ Cardinality(0..n - 1) = IF 0 > n - 1 THEN 0 ELSE (n - 1) - 0 + 1
    BY FS_Interval
  <2> QED BY <2>1
<1>2. Cardinality(0..n - 1) <= Cardinality(Used)
  BY UsedFinite, FS_Subset
<1>3. Cardinality(0..n - 1) = Cardinality(Used)
  BY <1>1, <1>2, UsedFinite
<1> QED BY <1>1, <1>3, UsedFinite, FS_Subset

\* A thread that truncates does everything there is to do.
LEMMA OneThread ==
  ASSUME TruncatesAlone, NEW t \in workload.truncate,
         NEW s \in workload.append \union workload.commit \union workload.truncate
  PROVE  s = t
BY DEF TruncatesAlone, Alone

LEMMA SoloClaim ==
  ASSUME LogTypes, NEW t \in Threads, SoloParts(t), Claim(t)
  PROVE  SoloParts(t)'
<1>1. /\ pc[t] = "idle" /\ pc'[t] = "write" /\ at'[t] = writeIndex
      /\ writeIndex' = writeIndex + 1 /\ writeIndex \in Nat
      /\ slots' = slots /\ commitIndex' = commitIndex /\ total' = total /\ cut' = cut
  BY DEF Claim, Go, Set, LogTypes
<1>2. Unwrapped' => Unwrapped
  BY <1>1, LogAssumption DEF Unwrapped
<1>3. UsedCounted(t)'
  BY <1>1 DEF SoloParts, UsedCounted, Used
<1>4. ClaimsBehind(t)'
  BY <1>1 DEF ClaimsBehind
<1>5. SlotsOwn' /\ StoredBehind(t)'
  BY <1>1, <1>2 DEF SoloParts, SlotsOwn, StoredBehind
<1> QED BY <1>1, <1>3, <1>4, <1>5 DEF SoloParts, Emptied, Resetting, Clearing, Seen

LEMMA SoloWrite ==
  ASSUME LogTypes, NEW t \in Threads, SoloParts(t), WriteSlot(t)
  PROVE  SoloParts(t)'
<1> DEFINE k == Slot(at[t])
<1>1. PICK right \in workload.checksums :
        /\ pc[t] = "write" /\ pc' = [pc EXCEPT ![t] = IF right THEN "count" ELSE "idle"]
        /\ slots' = IF right THEN [slots EXCEPT ![k] = Pending(t)] ELSE slots
        /\ UNCHANGED <<counters, at, goal, history>>
  BY DEF WriteSlot, Go
<1>2. /\ writeIndex' = writeIndex /\ commitIndex' = commitIndex /\ total' = total /\ cut' = cut
      /\ at' = at /\ (Unwrapped' <=> Unwrapped)
  BY <1>1 DEF counters, history, Unwrapped
<1>3. /\ writeIndex \in Nat /\ at[t] \in Nat /\ total \in Nat /\ DOMAIN slots = Ring
      /\ pc \in [Threads -> Pcs] /\ k \in Ring
  BY SlotInRing DEF LogTypes, Ring
<1>4. CASE right
  <2>1. pc'[t] = "count"
    BY <1>1, <1>3, <1>4
  <2>2. slots'[k] = Pending(t) /\ \A i \in Ring : i # k => slots'[i] = slots[i]
    BY <1>1, <1>3, <1>4
  <2>3. Unwrapped => Pending(t).index = k
    <3>1. at[t] < writeIndex
      BY <1>1 DEF SoloParts, ClaimsBehind
    <3>2. Unwrapped => at[t] < Size
      BY <1>3, <3>1, LogAssumption DEF Unwrapped
    <3> QED BY <1>3, <3>2, SlotBelowSize DEF Pending
  <2>4. UsedCounted(t)'
    <3>1. Used' \subseteq Used \union {k}
      BY <1>2, <2>2 DEF Used
    <3>2. Cardinality(Used') \in Nat /\ Cardinality(Used') <= Cardinality(Used) + 1
      BY <1>3, <3>1, OneMoreUsed
    <3>3. Cardinality(Used) <= total
      BY <1>1 DEF SoloParts, UsedCounted
    <3>4. Cardinality(Used') <= total + 1
      BY <1>3, <3>2, <3>3, UsedFinite
    <3> QED BY <1>2, <2>1, <3>4 DEF UsedCounted
  <2>5. SlotsOwn'
    BY <1>2, <2>2, <2>3 DEF SoloParts, SlotsOwn, Ring
  <2>6. StoredBehind(t)'
    BY <1>1, <1>2, <2>2, <2>3 DEF SoloParts, StoredBehind
  <2> QED BY <2>1, <2>4, <2>5, <2>6 DEF SoloParts, Emptied, Resetting, ClaimsBehind, Clearing, Seen
<1>5. CASE ~right
  <2>1. pc'[t] = "idle" /\ slots' = slots
    BY <1>1, <1>3, <1>5
  <2>2. UsedCounted(t)'
    BY <1>1, <1>2, <2>1 DEF SoloParts, UsedCounted, Used
  <2>3. SlotsOwn' /\ StoredBehind(t)'
    BY <1>1, <1>2, <2>1 DEF SoloParts, SlotsOwn, StoredBehind
  <2> QED BY <2>1, <2>2, <2>3 DEF SoloParts, Emptied, Resetting, ClaimsBehind, Clearing, Seen
<1> QED BY <1>4, <1>5

LEMMA SoloCount ==
  ASSUME LogTypes, NEW t \in Threads, SoloParts(t), CountEntry(t)
  PROVE  SoloParts(t)'
<1>1. /\ pc[t] = "count" /\ pc'[t] = "idle" /\ total' = total + 1
      /\ UNCHANGED <<slots, writeIndex, commitIndex, cut>>
  BY DEF CountEntry, Go, LogTypes
<1>2. UsedCounted(t)'
  BY <1>1 DEF SoloParts, UsedCounted, Used
<1>3. SlotsOwn' /\ StoredBehind(t)'
  BY <1>1 DEF SoloParts, SlotsOwn, StoredBehind, Unwrapped
<1> QED BY <1>1, <1>2, <1>3 DEF SoloParts, Emptied, Resetting, ClaimsBehind, Clearing, Seen

LEMMA SoloBeginCommit ==
  ASSUME LogTypes, NEW t \in Threads, SoloParts(t), NEW upTo \in 1..MaxAppends, Commit(t, upTo)
  PROVE  SoloParts(t)'
<1>1. /\ pc[t] = "idle" /\ pc'[t] = "check" /\ at'[t] = commitIndex
      /\ UNCHANGED <<slots, writeIndex, commitIndex, total, cut>>
  BY DEF Commit, Go, Set, LogTypes, counters, history
<1>2. UsedCounted(t)'
  BY <1>1 DEF SoloParts, UsedCounted, Used
<1>3. SlotsOwn' /\ StoredBehind(t)'
  BY <1>1 DEF SoloParts, SlotsOwn, StoredBehind, Unwrapped
<1>4. Seen(t)'
  <2>1. \A i \in Ring : i < commitIndex => i \in Used
    BY DEF Used
  <2>2. Used' = Used
    BY <1>1 DEF Used
  <2>3. Unwrapped => \A i \in Ring : cut <= i /\ i < commitIndex => slots[i].index = i
    BY <1>1 DEF SoloParts, StoredBehind
  <2> QED BY <1>1, <2>1, <2>2, <2>3 DEF Seen, Unwrapped
<1> QED BY <1>1, <1>2, <1>3, <1>4 DEF SoloParts, Emptied, Resetting, ClaimsBehind, Clearing

LEMMA SoloCheck ==
  ASSUME LogTypes, NEW t \in Threads, SoloParts(t), CheckSlot(t)
  PROVE  SoloParts(t)'
<1> DEFINE k == Slot(at[t])
<1>1. /\ pc[t] = "check" /\ pc' = [pc EXCEPT ![t] = IF slots[k] = None THEN "idle" ELSE "check"]
      /\ at'[t] = at[t] + 1 /\ at[t] \in Nat /\ pc \in [Threads -> Pcs]
      /\ UNCHANGED <<slots, writeIndex, commitIndex, total, cut>>
  BY DEF CheckSlot, Go, Set, LogTypes, counters, history
<1>2. pc'[t] \in {"idle", "check"} /\ (pc'[t] = "check" => slots[k] # None)
  BY <1>1
<1>3. UsedCounted(t)'
  BY <1>1, <1>2 DEF SoloParts, UsedCounted, Used
<1>4. SlotsOwn' /\ StoredBehind(t)'
  BY <1>1 DEF SoloParts, SlotsOwn, StoredBehind, Unwrapped
<1>5. Seen(t)'
  <2> SUFFICES ASSUME slots[k] # None, NEW i \in Ring, i < at[t] + 1
               PROVE  i \in Used /\ (Unwrapped /\ cut <= i => slots[i].index = i)
    BY <1>1, <1>2 DEF Seen, Used, Unwrapped
  <2>1. CASE i < at[t]
    BY <1>1, <2>1 DEF SoloParts, Seen
  <2>2. CASE i = at[t]
    <3>1. k = i
      BY <1>1, <2>2, SlotBelowSize, LogAssumption DEF Ring
    <3> QED BY <3>1 DEF Used, SoloParts, SlotsOwn, Ring
  <2> QED BY <1>1, <2>1, <2>2, LogAssumption DEF Ring
<1> QED BY <1>1, <1>2, <1>3, <1>4, <1>5 DEF SoloParts, Emptied, Resetting, ClaimsBehind, Clearing

LEMMA SoloStoreCommit ==
  ASSUME LogTypes, NEW t \in Threads, SoloParts(t), StoreCommit(t)
  PROVE  SoloParts(t)'
<1>1. /\ pc[t] = "check" /\ pc'[t] = "idle" /\ commitIndex' = goal[t] /\ at[t] >= goal[t]
      /\ at[t] \in Nat /\ goal[t] \in Nat /\ total \in Nat
      /\ UNCHANGED <<slots, writeIndex, total, cut>>
  BY DEF StoreCommit, Go, LogTypes, history
<1>2. \A i \in Ring : i < goal[t] => i < at[t]
  BY <1>1, LogAssumption DEF Ring
<1>3. UsedCounted(t)'
  <2>1. Used' \subseteq Used
    BY <1>1, <1>2 DEF SoloParts, Seen, Used
  <2>2. Cardinality(Used) <= total
    BY <1>1 DEF SoloParts, UsedCounted
  <2>3. Cardinality(Used') <= total
    BY <1>1, <2>1, <2>2, FewerUsed, UsedFinite
  <2> QED BY <1>1, <2>3 DEF UsedCounted
<1>4. SlotsOwn'
  BY <1>1 DEF SoloParts, SlotsOwn, Unwrapped
<1>5. StoredBehind(t)'
  BY <1>1, <1>2 DEF SoloParts, Seen, StoredBehind, Unwrapped
<1> QED BY <1>1, <1>3, <1>4, <1>5 DEF SoloParts, Emptied, Resetting, ClaimsBehind, Clearing, Seen

LEMMA SoloTruncate ==
  ASSUME LogTypes, NEW t \in Threads, SoloParts(t),
         NEW index \in 1..commitIndex, Truncate(t, index)
  PROVE  SoloParts(t)'
<1>1. /\ pc[t] = "idle" /\ pc' = [pc EXCEPT ![t] = IF index >= total THEN "clear all" ELSE "clear"]
      /\ at'[t] = 0 /\ goal'[t] = IF index < total THEN index ELSE total
      /\ cut' = IF index > cut THEN index ELSE cut
      /\ UNCHANGED <<slots, writeIndex, commitIndex, total>>
  BY DEF Truncate, Go, Set, LogTypes, counters
<1>2. /\ commitIndex \in Nat /\ total \in Nat /\ cut \in Nat /\ index \in Nat /\ index <= commitIndex
      /\ pc \in [Threads -> Pcs]
  BY DEF LogTypes
<1>3. pc'[t] \in {"clear", "clear all"} /\ (pc'[t] = "clear all" => index >= total)
  BY <1>1, <1>2
<1>4. cut' \in Nat /\ cut <= cut' /\ index <= cut'
  <2>1. cut' = IF index > cut THEN index ELSE cut
    BY <1>1
  <2> QED BY <1>2, <2>1
<1>5. goal'[t] <= index /\ (index >= total => goal'[t] = total)
  <2>1. goal'[t] = IF index < total THEN index ELSE total
    BY <1>1
  <2> QED BY <1>2, <2>1
<1>6. UsedCounted(t)'
  BY <1>1, <1>3 DEF SoloParts, UsedCounted, Used
<1>7. SlotsOwn'
  BY <1>1 DEF SoloParts, SlotsOwn, Unwrapped
<1>8. StoredBehind(t)'
  <2>1. \A i \in Ring : cut' <= i => cut <= i
    BY <1>2, <1>4, LogAssumption DEF Ring
  <2> QED BY <1>1, <2>1 DEF SoloParts, StoredBehind, Unwrapped
<1>9. Clearing(t)'
  <2>1. goal'[t] \in Nat
    <3>1. goal'[t] = IF index < total THEN index ELSE total
      BY <1>1
    <3> QED BY <1>2, <3>1
  <2>2. goal'[t] <= cut' /\ goal'[t] <= commitIndex'
    <3>1. commitIndex' = commitIndex
      BY <1>1
    <3> QED BY <1>2, <1>4, <1>5, <2>1, <3>1
  <2>3. \A i \in Ring : ~(i < at'[t])
    <3>1. at'[t] = 0
      BY <1>1
    <3> QED BY <3>1 DEF Ring
  <2> QED BY <1>1, <1>3, <1>5, <2>2, <2>3 DEF Clearing
<1> QED BY <1>3, <1>6, <1>7, <1>8, <1>9 DEF SoloParts, Emptied, Resetting, ClaimsBehind, Seen

LEMMA SoloClear ==
  ASSUME LogTypes, NEW t \in Threads, SoloParts(t), ClearSlot(t)
  PROVE  SoloParts(t)'
<1> DEFINE k == Slot(at[t])
<1>1. /\ pc[t] \in {"clear", "clear all"} /\ pc' = pc /\ goal' = goal /\ at'[t] = at[t] + 1
      /\ at[t] < goal[t] /\ slots' = [slots EXCEPT ![k] = None]
      /\ UNCHANGED <<writeIndex, commitIndex, total, cut>>
  BY DEF ClearSlot, Set, LogTypes, counters, history
<1>2. /\ commitIndex \in Nat /\ cut \in Nat /\ at[t] \in Nat /\ goal[t] \in Nat
      /\ DOMAIN slots = Ring /\ k \in Ring
  BY SlotInRing DEF LogTypes, Ring
<1>3. slots'[k] = None /\ \A i \in Ring : i # k => slots'[i] = slots[i]
  BY <1>1, <1>2
<1>4. goal[t] <= cut /\ goal[t] <= commitIndex
  BY <1>1 DEF SoloParts, Clearing
<1>5. k < commitIndex /\ \A i \in Ring : cut <= i => i # k
  <2> HIDE DEF k
  <2>0. at[t] < cut /\ at[t] < commitIndex /\ Size \in Nat
    <3>1. at[t] < goal[t]
      BY <1>1
    <3> QED BY <1>2, <1>4, <3>1, LogAssumption
  <2>1. CASE at[t] < Size
    <3>1. k = at[t]
      BY <1>2, <2>1, SlotBelowSize DEF k
    <3> QED BY <1>2, <2>0, <3>1 DEF Ring
  <2>2. CASE at[t] >= Size
    BY <1>2, <2>0, <2>2 DEF Ring
  <2> QED BY <1>2, <2>0, <2>1, <2>2
<1>6. UsedCounted(t)'
  <2>1. Used' = Used
    BY <1>1, <1>2, <1>3, <1>5 DEF Used
  <2> QED BY <1>1, <2>1 DEF SoloParts, UsedCounted
<1>7. SlotsOwn'
  BY <1>1, <1>3 DEF SoloParts, SlotsOwn, Unwrapped, Ring
<1>8. StoredBehind(t)'
  BY <1>1, <1>3, <1>5 DEF SoloParts, StoredBehind, Unwrapped
<1>9. Clearing(t)'
  <2>1. ASSUME pc[t] = "clear all", NEW i \in Ring, i < at[t] + 1 PROVE slots'[i] = None
    <3>1. CASE i < at[t]
      <4>1. slots[i] = None
        BY <2>1, <3>1 DEF SoloParts, Clearing
      <4> QED BY <1>3, <4>1
    <3>2. CASE i = at[t]
      BY <1>2, <1>3, <3>2, SlotBelowSize, LogAssumption DEF Ring
    <3>3. i < at[t] \/ i = at[t]
      <4>1. at[t] \in Nat /\ i \in Nat
        BY <1>2, RingIndices
      <4>2. i < at[t] + 1
        BY <2>1
      <4> QED BY <4>1, <4>2
    <3> QED BY <3>1, <3>2, <3>3
  <2> QED BY <1>1, <1>4, <2>1 DEF SoloParts, Clearing
<1> QED BY <1>1, <1>6, <1>7, <1>8, <1>9 DEF SoloParts, Emptied, Resetting, ClaimsBehind, Seen

LEMMA SoloEndClear ==
  ASSUME LogTypes, NEW t \in Threads, SoloParts(t), EndClear(t)
  PROVE  SoloParts(t)'
<1>1. /\ pc[t] \in {"clear", "clear all"} /\ at[t] >= goal[t]
      /\ pc' = [pc EXCEPT ![t] = IF pc[t] = "clear" THEN "idle" ELSE "reset write"]
      /\ UNCHANGED <<slots, writeIndex, commitIndex, total, cut, at, goal>>
  BY DEF EndClear, Set, counters, history
<1>2. /\ pc \in [Threads -> Pcs] /\ total \in Nat /\ at[t] \in Nat /\ commitIndex \in Nat
  BY DEF LogTypes
<1>3. pc'[t] = IF pc[t] = "clear" THEN "idle" ELSE "reset write"
  BY <1>1, <1>2
<1>4. pc'[t] \in {"idle", "reset write"} /\ (pc'[t] = "reset write" => pc[t] = "clear all")
  <2>1. CASE pc[t] = "clear"
    BY <1>3, <2>1
  <2>2. CASE pc[t] = "clear all"
    BY <1>3, <2>2
  <2> QED BY <1>1, <2>1, <2>2
<1>5. Cardinality(Used) <= total
  BY <1>1 DEF SoloParts, UsedCounted
<1>6. UsedCounted(t)'
  <2>1. Used' = Used
    BY <1>1 DEF Used
  <2> QED BY <1>1, <1>4, <1>5, <2>1 DEF UsedCounted
<1>7. SlotsOwn' /\ StoredBehind(t)'
  BY <1>1 DEF SoloParts, SlotsOwn, StoredBehind, Unwrapped
<1>8. Emptied(t)'
  <2>a. SUFFICES ASSUME pc[t] = "clear all", NEW i \in Ring PROVE slots[i] = None
    BY <1>1, <1>4 DEF Emptied, Resetting
  <2>1. /\ goal[t] = total /\ goal[t] <= commitIndex
        /\ \A j \in Ring : j < at[t] => slots[j] = None
    BY <2>a DEF SoloParts, Clearing
  <2>0. /\ at[t] >= goal[t] /\ total \in Nat /\ at[t] \in Nat /\ commitIndex \in Nat
        /\ Size \in Nat /\ \A j \in Ring : j \in Nat /\ j < Size
        /\ \A j \in Nat : j < Size => j \in Ring
    <3>1. at[t] >= goal[t]
      BY <1>1
    <3> QED BY <1>2, <3>1, RingIndices
  <2>2. total <= commitIndex /\ \A j \in Ring : j < total => slots[j] = None
    <3>1. \A j \in Nat : j < total => j < at[t]
      BY <2>0, <2>1
    <3> QED BY <2>0, <2>1, <3>1
  <2>3. CASE i < total
    BY <2>2, <2>3
  <2>4. CASE i >= total
    <3>1. total < Size /\ \A j \in 0..total - 1 : j \in Ring /\ j < commitIndex
      <4>1. total < Size /\ total <= commitIndex
        BY <2>0, <2>2, <2>4
      <4>2. \A j \in 0..total - 1 : j \in Nat /\ j < total
        BY <2>0
      <4> QED BY <2>0, <4>1, <4>2
    <3>2. 0..total - 1 \subseteq Used
      BY <3>1 DEF Used
    <3>3. Used = 0..total - 1
      <4>1. total <= Size
        BY <2>0, <3>1
      <4> QED BY <1>2, <1>5, <3>2, <4>1, FirstOnesUsed
    <3>4. i \notin 0..total - 1
      BY <2>0, <2>4
    <3>5. \A j \in Ring : slots[j] # None => j \in Used
      BY DEF Used
    <3> QED BY <3>3, <3>4, <3>5
  <2>5. i \in Nat
    BY <2>0
  <2> QED BY <2>0, <2>3, <2>4, <2>5
<1> QED BY <1>4, <1>6, <1>7, <1>8 DEF SoloParts, ClaimsBehind, Clearing, Seen

LEMMA SoloReset ==
  ASSUME LogTypes, NEW t \in Threads, SoloParts(t),
         ResetWrite(t) \/ ResetTotal(t) \/ ResetCommit(t)
  PROVE  SoloParts(t)'
<1>1. /\ pc[t] \in {"reset write", "reset total", "reset commit"} /\ slots' = slots
      /\ pc'[t] \in {"idle", "reset total", "reset commit"}
      /\ pc'[t] = "idle" => commitIndex' = 0 /\ total' = total
  BY DEF ResetWrite, ResetTotal, ResetCommit, Go, LogTypes
<1>2. \A i \in Ring : slots[i] = None
  BY <1>1 DEF SoloParts, Emptied, Resetting
<1>3. SlotsOwn' /\ Emptied(t)'
  BY <1>1, <1>2 DEF SlotsOwn, Emptied, Ring
<1>4. UsedCounted(t)'
  <2> SUFFICES ASSUME pc'[t] = "idle" PROVE Cardinality(Used') <= total'
    BY <1>1 DEF UsedCounted
  <2>1. commitIndex' = 0 /\ total' \in Nat
    BY <1>1 DEF LogTypes
  <2>2. \A i \in Ring : slots'[i] = None /\ ~(i < commitIndex')
    <3>1. \A i \in Ring : ~(i < 0)
      BY RingIndices
    <3> QED BY <1>1, <1>2, <2>1, <3>1
  <2>3. Used' = {}
    BY <2>2 DEF Used
  <2> QED BY <2>1, <2>3, FS_EmptySet
<1>5. StoredBehind(t)'
  <2>1. pc'[t] = "idle" => \A i \in Ring : ~(i < commitIndex')
    <3>1. \A i \in Ring : ~(i < 0)
      BY RingIndices
    <3> QED BY <1>1, <3>1
  <2> QED BY <1>1, <2>1 DEF StoredBehind
<1> QED BY <1>1, <1>3, <1>4, <1>5 DEF SoloParts, ClaimsBehind, Clearing, Seen

LEMMA NextSoloInv == LogTypes /\ SoloInv /\ [LogNext]_logVars => SoloInv'
<1> SUFFICES ASSUME LogTypes, SoloInv, [LogNext]_logVars, TruncatesAlone',
                    NEW t \in workload'.truncate
             PROVE  SoloParts(t)'
  BY DEF SoloInv
<1>1. workload' = workload
  BY DEF LogNext, logVars
<1>2. /\ TruncatesAlone /\ t \in workload.truncate /\ t \in Threads /\ SoloParts(t)
      /\ \A s \in workload.append \union workload.commit \union workload.truncate : s = t
  <2>1. TruncatesAlone /\ t \in workload.truncate
    BY <1>1 DEF TruncatesAlone
  <2> QED BY <2>1, OneThread, RolesInThreads DEF SoloInv
<1>3. CASE UNCHANGED logVars
  BY <1>2, <1>3 DEF logVars, counters, locals, history, SoloParts, SlotsOwn, UsedCounted, Used,
     Emptied, Resetting, ClaimsBehind, Clearing, Seen, StoredBehind, Unwrapped
<1>4. CASE LogNext
  <2>1. CASE Claim(t) \/ WriteSlot(t) \/ CountEntry(t)
    BY <1>2, <2>1, SoloClaim, SoloWrite, SoloCount
  <2>2. CASE (\E upTo \in 1..MaxAppends : Commit(t, upTo)) \/ CheckSlot(t) \/ StoreCommit(t)
    BY <1>2, <2>2, SoloBeginCommit, SoloCheck, SoloStoreCommit
  <2>3. CASE ClearSlot(t) \/ EndClear(t) \/ ResetWrite(t) \/ ResetTotal(t) \/ ResetCommit(t)
    BY <1>2, <2>3, SoloClear, SoloEndClear, SoloReset
  <2>4. CASE \E index \in 1..commitIndex : Truncate(t, index)
    BY <1>2, <2>4, SoloTruncate
  <2> QED BY <1>2, <1>4, <2>1, <2>2, <2>3, <2>4 DEF LogNext, LogStep
<1> QED BY <1>3, <1>4

\* Every index committed and not truncated holds its entry until the ring
\* wraps: with any number of threads when none truncates, and with one thread
\* that truncates too, however often its truncations start the log again.
THEOREM CommittedAreStoredHolds == LogSpec => []CommittedAreStored
<1>1. LogInit => SoloInv
  <2> SUFFICES ASSUME LogInit, NEW t \in workload.truncate PROVE SoloParts(t)
    BY DEF SoloInv
  <2>1. t \in Threads
    BY LogAssumption DEF LogInit
  <2>2. pc[t] = "idle" /\ commitIndex = 0 /\ total = 0 /\ \A i \in Ring : slots[i] = None
    BY <2>1 DEF LogInit, Ring
  <2>3. Used = {}
    BY <2>2 DEF Used, Ring
  <2>4. UsedCounted(t)
    BY <2>2, <2>3, FS_EmptySet DEF UsedCounted
  <2>5. SlotsOwn /\ StoredBehind(t)
    BY <2>2 DEF SlotsOwn, StoredBehind, Ring
  <2> QED BY <2>2, <2>4, <2>5 DEF SoloParts, Emptied, Resetting, ClaimsBehind, Clearing, Seen
<1>2. LogTypes /\ SoloInv /\ [LogNext]_logVars => SoloInv'
  BY NextSoloInv
<1>3. LogTypes /\ SoloInv => (workload.truncate # {} => CommittedAreStored)
  <2> SUFFICES ASSUME LogTypes, SoloInv, NEW t \in workload.truncate, TruncatesAlone,
                      NotWrapped, ~Truncating, NEW i \in cut..commitIndex - 1
               PROVE  slots[Slot(i)].index = i
    BY DEF CommittedAreStored
  <2>1. t \in Threads /\ pc[t] \notin {"reset total", "reset commit"}
    BY RolesInThreads DEF Truncating
  <2>2. cut \in Nat /\ commitIndex \in Nat
    BY DEF LogTypes
  <2>3. i \in Nat /\ cut <= i /\ i < commitIndex /\ i < Size
    BY <2>2, LogAssumption DEF NotWrapped
  <2>4. Slot(i) = i /\ i \in Ring
    BY <2>3, SlotBelowSize DEF Ring
  <2>5. StoredBehind(t)
    BY DEF SoloInv, SoloParts
  <2> QED BY <2>1, <2>3, <2>4, <2>5 DEF StoredBehind, NotWrapped, Unwrapped
<1>4. LogSpec => [](LogTypes /\ SoloInv)
  BY <1>1, <1>2, LogTypesHold, PTL DEF LogSpec
<1>5. LogSpec => [](workload.truncate # {} => CommittedAreStored)
  BY <1>3, <1>4, PTL
<1>6. /\ workload.truncate = {} => CommittedAreStored
      /\ workload.truncate # {} => CommittedAreStored
      => CommittedAreStored
  OBVIOUS
<1> QED BY <1>5, <1>6, StoredWithoutTruncation, PTL

-----------------------------------------------------------------------------
(* One thread appends and commits, another truncates, replicas replay.  The *)
(* first index that holds no entry (FirstMissing) moves only up: at or     *)
(* beyond it nothing can be committed, because commit stops there and the  *)
(* worker claims every index once (OwnedSlots); below it every index that  *)
(* was not truncated holds its own entry.  So a replica, which stays behind *)
(* the commit index, finds at its cursor the entry of that index, or nothing *)
(* where compaction has been (ReplicaInOrder), and a snapshot holds what was *)
(* applied up to its index (CompactionInOrder).                            *)

OneWorker == Alone(workload.append \union workload.commit) /\ ~restarted

NoRestart == \A t \in Threads : pc[t] \notin {"reset total", "reset commit"}
WorkerInv ==
  \A t \in Threads :
    /\ pc[t] = "write" => writeIndex = at[t] + 1
    /\ pc[t] = "check" => at[t] <= goal[t] /\ commitIndex < goal[t]
    /\ pc[t] \in {"clear", "clear all"} => goal[t] <= cut
FirstMissing(f) ==
  /\ commitIndex <= f /\ f <= writeIndex /\ f <= total + 1
  /\ (\A t \in Threads : pc[t] # "count") => f <= total
  /\ f < Size => slots[f] = None
  /\ \A i \in Ring : cut <= i /\ i < f => slots[i].index = i
  /\ \A t \in Threads :
       /\ pc[t] = "write" => f <= at[t]
       /\ pc[t] = "check" /\ at[t] <= Size => at[t] <= f
OwnedSlots ==
  \A i \in Ring : slots[i] # None =>
    /\ slots[i].index = i /\ i < writeIndex
    /\ \A t \in Threads : pc[t] = "write" => i < at[t]
LogInOrder ==
  NotWrapped =>
    /\ commitIndex <= total /\ OwnedSlots
    /\ \E f \in 0..Size : FirstMissing(f)
LogPart == NoRestart /\ WorkerInv /\ LogInOrder

InOrderUpTo(s, n) ==
  /\ \A k \in 1..Len(s) : s[k].index < n
  /\ \A j, k \in 1..Len(s) : j < k => s[j].index < s[k].index
Holds(r) ==
  \A i \in Ring : cut <= i /\ i < next[r] =>
    \E k \in 1..Len(applied[r]) : applied[r][k] = slots[i]
ReplicaInOrder(r) ==
  /\ next[r] <= commitIndex /\ end[r] <= commitIndex
  /\ reading[r] => next[r] < end[r]
  /\ InOrderUpTo(applied[r], next[r])
  /\ Holds(r)
CompactionInOrder ==
  /\ snapshot.index <= commitIndex /\ snapshot.index <= cut
  /\ InOrderUpTo(snapshot.state, snapshot.index)
  /\ compactor.step = "label" => InOrderUpTo(compactor.state, commitIndex)
  /\ compactor.step = "truncate" =>
       compactor.index <= commitIndex /\ InOrderUpTo(compactor.state, compactor.index)
ReplicaPart ==
  NotWrapped => CompactionInOrder /\ \A r \in Replicas : ReplicaInOrder(r)
RepInv == OneWorker => LogPart /\ ReplicaPart

OneAtWork == Alone(workload.append \union workload.commit)

\* What a step of the log may do under a replica.
LogMoves ==
  /\ commitIndex <= commitIndex' /\ cut <= cut'
  /\ NotWrapped' => NotWrapped
  /\ NotWrapped' => \A i \in Ring : cut' <= i /\ i < commitIndex => slots'[i] = slots[i]

LEMMA TheWorker ==
  ASSUME LogTypes, Roles, OneAtWork,
         NEW t \in workload.append \union workload.commit,
         NEW s \in Threads, pc[s] \in {"write", "count", "check"}
  PROVE  s = t
BY DEF Roles, Appending, OneAtWork, Alone

LEMMA ClaimInOrder ==
  ASSUME LogTypes, Roles, OneAtWork, LogPart, NEW t \in workload.append, Claim(t)
  PROVE  LogPart' /\ LogMoves
<1>1. /\ t \in Threads /\ pc[t] = "idle" /\ pc' = [pc EXCEPT ![t] = "write"]
      /\ at' = [at EXCEPT ![t] = writeIndex] /\ goal' = [goal EXCEPT ![t] = calls + 1]
      /\ UNCHANGED <<slots, commitIndex, total, cut>>
  BY RolesInThreads DEF Claim, Go, Set
<1>2. writeIndex' = writeIndex + 1
  BY DEF Claim
<1>3. \A s \in Threads : s # t => pc'[s] = pc[s] /\ at'[s] = at[s] /\ goal'[s] = goal[s]
                                  /\ pc[s] \notin {"write", "count", "check"}
  BY <1>1, TheWorker DEF LogTypes
<1>4. pc'[t] = "write" /\ at'[t] = writeIndex
  BY <1>1 DEF LogTypes
<1>5. NoRestart'
  BY <1>3, <1>4 DEF LogPart, NoRestart
<1>6. WorkerInv'
  BY <1>1, <1>2, <1>3, <1>4 DEF LogPart, WorkerInv
<1>7. NotWrapped' => NotWrapped
  BY <1>1, <1>2, LogNumbers DEF NotWrapped
<1>8. LogInOrder'
  <2> SUFFICES ASSUME NotWrapped
               PROVE  commitIndex <= total /\ OwnedSlots' /\ \E f \in 0..Size : FirstMissing(f)'
    BY <1>1, <1>7 DEF LogInOrder
  <2>1. /\ commitIndex <= total /\ OwnedSlots
        /\ \E f \in 0..Size : FirstMissing(f)
    BY DEF LogPart, LogInOrder
  <2>2. PICK f \in 0..Size : FirstMissing(f)
    BY <2>1
  <2>3. f <= total
    <3>1. \A s \in Threads : pc[s] # "count"
      BY <1>1, <1>3
    <3> QED BY <2>2, <3>1 DEF FirstMissing
  <2>4. OwnedSlots'
    <3>1. \A i \in Ring : slots[i] # None => slots[i].index = i /\ i < writeIndex
      BY <2>1 DEF OwnedSlots
    <3>2. \A i \in Ring : i < writeIndex => i < writeIndex'
      BY <1>2, LogNumbers DEF Ring
    <3>3. \A i \in Ring : i < writeIndex => \A s \in Threads : pc'[s] = "write" => i < at'[s]
      BY <1>3, <1>4
    <3> QED BY <1>1, <3>1, <3>2, <3>3 DEF OwnedSlots
  <2>5. FirstMissing(f)'
    <3>1. /\ commitIndex <= f /\ f <= writeIndex
          /\ (f < Size => slots[f] = None)
          /\ \A i \in Ring : cut <= i /\ i < f => slots[i].index = i
      BY <2>2 DEF FirstMissing
    <3>2. f <= writeIndex' /\ f <= total + 1
      BY <1>2, <2>3, <3>1, LogNumbers
    <3>3. \A s \in Threads : /\ pc'[s] = "write" => f <= at'[s]
                             /\ pc'[s] # "check"
      BY <1>3, <1>4, <3>1
    <3> QED BY <1>1, <2>3, <3>1, <3>2, <3>3 DEF FirstMissing
  <2> QED BY <2>1, <2>4, <2>5
<1>9. LogMoves
  BY <1>1, <1>7, LogNumbers DEF LogMoves
<1> QED BY <1>5, <1>6, <1>8, <1>9 DEF LogPart

LEMMA WriteInOrder ==
  ASSUME LogTypes, Roles, OneAtWork, LogPart, NEW t \in workload.append, WriteSlot(t)
  PROVE  LogPart' /\ LogMoves
<1> DEFINE k == Slot(at[t])
<1>0. PICK right \in workload.checksums :
        /\ pc' = [pc EXCEPT ![t] = IF right THEN "count" ELSE "idle"]
        /\ slots' = IF right THEN [slots EXCEPT ![k] = Pending(t)] ELSE slots
  BY DEF WriteSlot, Go
<1>1. /\ t \in Threads /\ pc[t] = "write"
      /\ UNCHANGED <<writeIndex, commitIndex, total, cut, at, goal>>
  BY RolesInThreads DEF WriteSlot, Go, counters, history
<1>2. \A s \in Threads : s # t => pc'[s] = pc[s] /\ pc[s] \notin {"write", "count", "check"}
  BY <1>0, <1>1, TheWorker DEF LogTypes
<1>3. /\ pc'[t] = IF right THEN "count" ELSE "idle"
      /\ k \in Ring /\ k \in 0..Size - 1 /\ at[t] \in Nat
  <2>1. at[t] \in Nat
    BY <1>1 DEF LogTypes
  <2> QED BY <1>0, <1>1, <2>1, SlotInRing DEF LogTypes, Ring
<1>4. pc'[t] \in {"count", "idle"} /\ (pc'[t] # "count" => slots' = slots)
      /\ \/ slots' = slots
         \/ pc'[t] = "count" /\ slots' = [slots EXCEPT ![k] = Pending(t)]
  <2>1. CASE right
    <3>1. pc'[t] = "count"
      BY <1>3, <2>1
    <3>2. slots' = [slots EXCEPT ![k] = Pending(t)]
      BY <1>0, <2>1
    <3> QED BY <3>1, <3>2
  <2>2. CASE ~right
    <3>1. pc'[t] = "idle"
      BY <1>3, <2>2
    <3>2. slots' = slots
      BY <1>0, <2>2
    <3> QED BY <3>1, <3>2
  <2> QED BY <2>1, <2>2
<1>5. NoRestart'
  BY <1>2, <1>4 DEF LogPart, NoRestart
<1>6. WorkerInv'
  BY <1>1, <1>2, <1>4 DEF LogPart, WorkerInv
<1>7. NotWrapped' <=> NotWrapped
  BY <1>1 DEF NotWrapped
<1>8. ASSUME NotWrapped
      PROVE  /\ commitIndex <= total /\ OwnedSlots' /\ \E f \in 0..Size : FirstMissing(f)'
             /\ \A i \in Ring : i < commitIndex => slots'[i] = slots[i]
  <2>1. /\ commitIndex <= total /\ OwnedSlots
        /\ \E f \in 0..Size : FirstMissing(f)
    BY <1>8 DEF LogPart, LogInOrder
  <2>2. PICK f \in 0..Size : FirstMissing(f)
    BY <2>1
  <2>3. /\ commitIndex <= f /\ f <= writeIndex /\ f <= total + 1
        /\ (f < Size => slots[f] = None)
        /\ \A i \in Ring : cut <= i /\ i < f => slots[i].index = i
    BY <2>2 DEF FirstMissing
  <2>4. f <= total /\ f <= at[t]
    <3>1. \A s \in Threads : pc[s] # "count"
      BY <1>1, <1>2
    <3> QED BY <1>1, <2>2, <3>1 DEF FirstMissing
  <2>5. writeIndex = at[t] + 1 /\ writeIndex <= Size
    BY <1>1, <1>8 DEF LogPart, WorkerInv, NotWrapped
  <2>6. k = at[t] /\ at[t] < Size
    <3>1. at[t] < Size
      BY <1>3, <2>5, LogNumbers
    <3> QED BY <1>3, <3>1, SlotBelowSize
  <2>7. CASE slots' = slots
    <3>1. OwnedSlots'
      <4>1. \A s \in Threads : pc'[s] # "write"
        BY <1>2, <1>4
      <4> QED BY <1>1, <2>1, <2>7, <4>1 DEF OwnedSlots
    <3>2. FirstMissing(f)'
      <4>1. \A s \in Threads : pc'[s] \notin {"write", "check"}
        BY <1>2, <1>4
      <4> QED BY <1>1, <2>3, <2>4, <2>7, <4>1 DEF FirstMissing
    <3> QED BY <2>1, <2>7, <3>1, <3>2
  <2>8. CASE pc'[t] = "count" /\ slots' = [slots EXCEPT ![k] = Pending(t)]
    <3>1. slots'[k] = Pending(t) /\ \A i \in Ring : i # k => slots'[i] = slots[i]
      BY <1>3, <2>8, LogNumbers
    <3>2. Pending(t).index = k
      BY <2>6 DEF Pending
    <3> HIDE DEF k
    <3>3. OwnedSlots'
      <4>1. \A s \in Threads : pc'[s] # "write"
        BY <1>2, <2>8
      <4>2. \A i \in Ring : slots'[i] # None => slots'[i].index = i /\ i < writeIndex
        <5>1. k < writeIndex
          BY <1>3, <2>5, <2>6, LogNumbers
        <5> QED BY <2>1, <3>1, <3>2, <5>1 DEF OwnedSlots
      <4> QED BY <1>1, <4>1, <4>2 DEF OwnedSlots
    <3>4. \A i \in Ring : i < commitIndex => slots'[i] = slots[i]
      <4>1. \A i \in Ring : i < commitIndex => i # k
        BY <2>3, <2>4, <2>6, LogNumbers, RingIndices
      <4> QED BY <3>1, <4>1
    <3>5. CASE f = k
      <4> DEFINE g == f + 1
      <4>1. g \in 0..Size /\ g = writeIndex /\ commitIndex <= g /\ g <= total + 1
        BY <1>3, <2>3, <2>4, <2>5, <2>6, <3>5, LogNumbers
      <4>2. g < Size => slots'[g] = None
        <5> SUFFICES ASSUME g < Size PROVE slots[g] = None
          <6>1. g # k
            BY <3>5
          <6>2. g < Size => g \in Ring
            BY <4>1, RingIndices
          <6> QED BY <3>1, <6>1, <6>2
        <5>1. g \in Ring
          BY <4>1, RingIndices
        <5>2. ~(g < writeIndex)
          BY <4>1, LogNumbers
        <5> QED BY <2>1, <5>1, <5>2 DEF OwnedSlots
      <4>3. \A i \in Ring : cut <= i /\ i < g => slots'[i].index = i
        <5>1. \A i \in Ring : i < g => i < f \/ i = k
          BY <3>5, RingIndices
        <5>2. \A i \in Ring : i < f => i # k
          BY <3>5, RingIndices
        <5> QED BY <2>3, <3>1, <3>2, <5>1, <5>2
      <4>4. \A s \in Threads : pc'[s] \notin {"write", "check"}
        BY <1>2, <2>8
      <4>5. ~\A s \in Threads : pc'[s] # "count"
        BY <1>1, <2>8
      <4> HIDE DEF g
      <4>6. FirstMissing(g)'
        <5>1. g <= writeIndex
          BY <4>1, LogNumbers
        <5> QED BY <1>1, <4>1, <4>2, <4>3, <4>4, <4>5, <5>1 DEF FirstMissing
      <4> QED BY <2>1, <3>3, <3>4, <4>1, <4>6
    <3>6. CASE f # k
      <4>1. f < k
        BY <1>3, <2>4, <2>6, <3>6
      <4>2. f < Size /\ f \in Ring
        BY <1>3, <2>6, <4>1, RingIndices
      <4>3. slots'[f] = None
        BY <2>3, <3>1, <3>6, <4>2
      <4>4. \A i \in Ring : i < f => slots'[i] = slots[i]
        <5>1. \A i \in Ring : i < f => i # k
          BY <1>3, <4>1, RingIndices
        <5> QED BY <3>1, <5>1
      <4>5. \A s \in Threads : pc'[s] \notin {"write", "check"}
        BY <1>2, <2>8
      <4>6. FirstMissing(f)'
        BY <1>1, <2>3, <2>4, <4>3, <4>4, <4>5 DEF FirstMissing
      <4> QED BY <2>1, <3>3, <3>4, <4>6
    <3> QED BY <3>5, <3>6
  <2> QED BY <1>4, <2>7, <2>8
<1>9. LogInOrder'
  BY <1>1, <1>7, <1>8 DEF LogInOrder
<1>10. LogMoves
  BY <1>1, <1>7, <1>8, LogNumbers DEF LogMoves
<1> QED BY <1>5, <1>6, <1>9, <1>10 DEF LogPart

LEMMA CountInOrder ==
  ASSUME LogTypes, Roles, OneAtWork, LogPart, NEW t \in workload.append, CountEntry(t)
  PROVE  LogPart' /\ LogMoves
<1>1. /\ t \in Threads /\ pc[t] = "count" /\ pc' = [pc EXCEPT ![t] = "idle"]
      /\ UNCHANGED <<slots, writeIndex, commitIndex, cut, at, goal>>
  BY RolesInThreads DEF CountEntry, Go
<1>2. total' = total + 1
  BY DEF CountEntry
<1>3. \A s \in Threads : s # t => pc'[s] = pc[s] /\ pc[s] \notin {"write", "count", "check"}
  BY <1>1, TheWorker DEF LogTypes
<1>4. pc'[t] = "idle"
  BY <1>1 DEF LogTypes
<1>5. NoRestart' /\ WorkerInv'
  BY <1>1, <1>3, <1>4 DEF LogPart, NoRestart, WorkerInv
<1>6. LogInOrder'
  <2> SUFFICES ASSUME NotWrapped
               PROVE  commitIndex <= total' /\ OwnedSlots' /\ \E f \in 0..Size : FirstMissing(f)'
    BY <1>1 DEF LogInOrder, NotWrapped
  <2>1. /\ commitIndex <= total /\ OwnedSlots
        /\ \E f \in 0..Size : FirstMissing(f)
    BY DEF LogPart, LogInOrder
  <2>2. PICK f \in 0..Size : FirstMissing(f)
    BY <2>1
  <2>3. /\ commitIndex <= f /\ f <= writeIndex /\ f <= total + 1
        /\ (f < Size => slots[f] = None)
        /\ \A i \in Ring : cut <= i /\ i < f => slots[i].index = i
    BY <2>2 DEF FirstMissing
  <2>4. commitIndex <= total' /\ f <= total' /\ f <= total' + 1
    BY <1>2, <2>1, <2>3, LogNumbers
  <2>5. \A s \in Threads : pc'[s] \notin {"write", "check"}
    BY <1>3, <1>4
  <2>6. OwnedSlots'
    BY <1>1, <2>1, <2>5 DEF OwnedSlots
  <2>7. FirstMissing(f)'
    BY <1>1, <2>3, <2>4, <2>5 DEF FirstMissing
  <2> QED BY <2>4, <2>6, <2>7
<1>7. LogMoves
  BY <1>1, LogNumbers DEF LogMoves, NotWrapped
<1> QED BY <1>5, <1>6, <1>7 DEF LogPart

LEMMA BeginCommitInOrder ==
  ASSUME LogTypes, Roles, OneAtWork, LogPart, NEW t \in workload.commit,
         NEW upTo \in 1..MaxAppends, Commit(t, upTo)
  PROVE  LogPart' /\ LogMoves
<1>1. /\ t \in Threads /\ pc[t] = "idle" /\ pc' = [pc EXCEPT ![t] = "check"]
      /\ at' = [at EXCEPT ![t] = commitIndex] /\ goal' = [goal EXCEPT ![t] = upTo]
      /\ UNCHANGED <<slots, writeIndex, commitIndex, total, cut>>
  BY RolesInThreads DEF Commit, Go, Set, counters, history
<1>2. \A s \in Threads : s # t => pc'[s] = pc[s] /\ at'[s] = at[s] /\ goal'[s] = goal[s]
                                  /\ pc[s] \notin {"write", "count", "check"}
  BY <1>1, TheWorker DEF LogTypes
<1>3. pc'[t] = "check" /\ at'[t] = commitIndex /\ goal'[t] = upTo
  BY <1>1 DEF LogTypes
<1>4. commitIndex < upTo /\ commitIndex <= upTo
  <2>1. upTo > commitIndex
    BY DEF Commit
  <2>2. upTo \in Nat
    BY LogAssumption
  <2> QED BY <2>1, <2>2, LogNumbers
<1>5. NoRestart' /\ WorkerInv'
  BY <1>1, <1>2, <1>3, <1>4 DEF LogPart, NoRestart, WorkerInv
<1>6. LogInOrder'
  <2> SUFFICES ASSUME NotWrapped
               PROVE  commitIndex <= total /\ OwnedSlots' /\ \E f \in 0..Size : FirstMissing(f)'
    BY <1>1 DEF LogInOrder, NotWrapped
  <2>1. /\ commitIndex <= total /\ OwnedSlots
        /\ \E f \in 0..Size : FirstMissing(f)
    BY DEF LogPart, LogInOrder
  <2>2. PICK f \in 0..Size : FirstMissing(f)
    BY <2>1
  <2>3. /\ commitIndex <= f /\ f <= writeIndex /\ f <= total + 1
        /\ (f < Size => slots[f] = None)
        /\ \A i \in Ring : cut <= i /\ i < f => slots[i].index = i
    BY <2>2 DEF FirstMissing
  <2>4. f <= total
    <3>1. \A s \in Threads : pc[s] # "count"
      BY <1>1, <1>2
    <3> QED BY <2>2, <3>1 DEF FirstMissing
  <2>5. \A s \in Threads : pc'[s] # "write" /\ (pc'[s] = "check" => at'[s] <= f)
    BY <1>2, <1>3, <2>3
  <2>6. OwnedSlots'
    BY <1>1, <2>1, <2>5 DEF OwnedSlots
  <2>7. FirstMissing(f)'
    BY <1>1, <2>3, <2>4, <2>5 DEF FirstMissing
  <2> QED BY <2>1, <2>6, <2>7
<1>7. LogMoves
  BY <1>1, LogNumbers DEF LogMoves, NotWrapped
<1> QED BY <1>5, <1>6, <1>7 DEF LogPart

LEMMA CheckInOrder ==
  ASSUME LogTypes, Roles, OneAtWork, LogPart, NEW t \in workload.commit, CheckSlot(t)
  PROVE  LogPart' /\ LogMoves
<1> DEFINE k == Slot(at[t])
<1>1. /\ t \in Threads /\ pc[t] = "check" /\ at' = [at EXCEPT ![t] = at[t] + 1] /\ goal' = goal
      /\ UNCHANGED <<slots, writeIndex, commitIndex, total, cut>>
  BY RolesInThreads DEF CheckSlot, Go, Set, counters, history
<1>2. /\ \A s \in Threads : s # t => pc'[s] = pc[s] /\ at'[s] = at[s]
                                     /\ pc[s] \notin {"write", "count", "check"}
      /\ at'[t] = at[t] + 1
  BY <1>1, TheWorker DEF LogTypes, CheckSlot, Go
<1>3. pc'[t] \in {"idle", "check"} /\ (pc'[t] = "check" => slots[k] # None)
  <2>1. pc'[t] = IF slots[k] = None THEN "idle" ELSE "check"
    BY <1>1 DEF CheckSlot, Go, LogTypes
  <2> QED BY <2>1
<1>4. at[t] < goal[t] /\ at[t] \in Nat /\ goal[t] \in Nat
  BY <1>1 DEF CheckSlot, LogTypes
<1>5. at'[t] <= goal[t]
  BY <1>2, <1>4
<1>6. NoRestart'
  BY <1>2, <1>3 DEF LogPart, NoRestart
<1>7. WorkerInv'
  <2>1. commitIndex < goal[t]
    BY <1>1 DEF LogPart, WorkerInv
  <2> QED BY <1>1, <1>2, <1>3, <1>5, <2>1 DEF LogPart, WorkerInv
<1>8. LogInOrder'
  <2> SUFFICES ASSUME NotWrapped
               PROVE  commitIndex <= total /\ OwnedSlots' /\ \E f \in 0..Size : FirstMissing(f)'
    BY <1>1 DEF LogInOrder, NotWrapped
  <2>1. /\ commitIndex <= total /\ OwnedSlots
        /\ \E f \in 0..Size : FirstMissing(f)
    BY DEF LogPart, LogInOrder
  <2>2. PICK f \in 0..Size : FirstMissing(f)
    BY <2>1
  <2>3. /\ commitIndex <= f /\ f <= writeIndex /\ f <= total + 1
        /\ (f < Size => slots[f] = None)
        /\ \A i \in Ring : cut <= i /\ i < f => slots[i].index = i
    BY <2>2 DEF FirstMissing
  <2>4. f <= total
    <3>1. \A s \in Threads : pc[s] # "count"
      BY <1>1, <1>2
    <3> QED BY <2>2, <3>1 DEF FirstMissing
  <2>5. at[t] <= Size => at[t] <= f
    BY <1>1, <2>2 DEF FirstMissing
  <2>6. slots[k] # None /\ at'[t] <= Size => at'[t] <= f
    <3> SUFFICES ASSUME slots[k] # None, at[t] + 1 <= Size PROVE at[t] + 1 <= f
      BY <1>2
    <3>1. k = at[t] /\ at[t] < Size
      BY <1>4, LogNumbers, SlotBelowSize
    <3>2. at[t] # f
      BY <2>3, <3>1
    <3> QED BY <1>4, <2>5, <3>1, <3>2, LogNumbers
  <2>7. \A s \in Threads : pc'[s] # "write" /\ (pc'[s] = "check" /\ at'[s] <= Size => at'[s] <= f)
    BY <1>2, <1>3, <2>6
  <2>8. OwnedSlots'
    BY <1>1, <2>1, <2>7 DEF OwnedSlots
  <2>9. FirstMissing(f)'
    BY <1>1, <2>3, <2>4, <2>7 DEF FirstMissing
  <2> QED BY <2>1, <2>8, <2>9
<1>9. LogMoves
  BY <1>1, LogNumbers DEF LogMoves, NotWrapped
<1> QED BY <1>6, <1>7, <1>8, <1>9 DEF LogPart

LEMMA StoreCommitInOrder ==
  ASSUME LogTypes, Roles, OneAtWork, LogPart, NEW t \in workload.commit, StoreCommit(t)
  PROVE  LogPart' /\ LogMoves
<1>1. /\ t \in Threads /\ pc[t] = "check" /\ pc' = [pc EXCEPT ![t] = "idle"]
      /\ UNCHANGED <<slots, writeIndex, total, cut, at, goal>>
  BY RolesInThreads DEF StoreCommit, Go, history
<1>2. /\ \A s \in Threads : s # t => pc'[s] = pc[s] /\ pc[s] \notin {"write", "count", "check"}
      /\ pc'[t] = "idle"
  BY <1>1, TheWorker DEF LogTypes
<1>3. /\ at[t] \in Nat /\ goal[t] \in Nat /\ commitIndex' = goal[t]
      /\ at[t] = goal[t] /\ commitIndex < goal[t]
  <2>1. at[t] \in Nat /\ goal[t] \in Nat /\ commitIndex' = goal[t]
    BY <1>1 DEF StoreCommit, LogTypes
  <2>2. at[t] >= goal[t]
    BY DEF StoreCommit
  <2>3. at[t] <= goal[t] /\ commitIndex < goal[t]
    BY <1>1 DEF LogPart, WorkerInv
  <2> QED BY <2>1, <2>2, <2>3
<1>4. NoRestart' /\ WorkerInv'
  BY <1>1, <1>2 DEF LogPart, NoRestart, WorkerInv
<1>5. NotWrapped' => NotWrapped /\ goal[t] <= Size
  BY <1>1, <1>3, LogNumbers DEF NotWrapped
<1>6. LogInOrder'
  <2> SUFFICES ASSUME NotWrapped, goal[t] <= Size
               PROVE  commitIndex' <= total /\ OwnedSlots' /\ \E f \in 0..Size : FirstMissing(f)'
    BY <1>1, <1>5 DEF LogInOrder
  <2>1. /\ OwnedSlots
        /\ \E f \in 0..Size : FirstMissing(f)
    BY DEF LogPart, LogInOrder
  <2>2. PICK f \in 0..Size : FirstMissing(f)
    BY <2>1
  <2>3. /\ f <= writeIndex /\ f <= total + 1
        /\ (f < Size => slots[f] = None)
        /\ \A i \in Ring : cut <= i /\ i < f => slots[i].index = i
    BY <2>2 DEF FirstMissing
  <2>4. f <= total
    <3>1. \A s \in Threads : pc[s] # "count"
      BY <1>1, <1>2
    <3> QED BY <2>2, <3>1 DEF FirstMissing
  <2>5. commitIndex' <= f
    <3>1. at[t] <= Size => at[t] <= f
      BY <1>1, <2>2 DEF FirstMissing
    <3> QED BY <1>3, <3>1
  <2>6. commitIndex' <= total
    BY <1>3, <2>4, <2>5, LogNumbers
  <2>7. \A s \in Threads : pc'[s] \notin {"write", "check"}
    BY <1>2
  <2>8. OwnedSlots'
    BY <1>1, <2>1, <2>7 DEF OwnedSlots
  <2>9. FirstMissing(f)'
    BY <1>1, <2>3, <2>4, <2>5, <2>7 DEF FirstMissing
  <2> QED BY <2>6, <2>8, <2>9
<1>7. LogMoves
  <2>1. commitIndex <= commitIndex' /\ cut <= cut'
    BY <1>1, <1>3, LogNumbers
  <2> QED BY <1>1, <1>5, <2>1 DEF LogMoves
<1> QED BY <1>4, <1>6, <1>7 DEF LogPart

\* Truncation leaves the worker's threads as they are.
LEMMA TruncateInOrder ==
  ASSUME LogTypes, LogPart, NEW t \in workload.truncate, NEW index \in Nat, Truncate(t, index)
  PROVE  LogPart' /\ LogMoves /\ index <= cut'
<1>1. /\ t \in Threads /\ pc[t] = "idle"
      /\ \A s \in Threads : s # t => pc'[s] = pc[s] /\ at'[s] = at[s] /\ goal'[s] = goal[s]
      /\ UNCHANGED <<slots, writeIndex, commitIndex, total>>
  BY RolesInThreads DEF Truncate, Go, Set, counters, LogTypes
<1>2. pc'[t] \in {"clear", "clear all"}
  BY <1>1 DEF Truncate, Go, LogTypes
<1>3. goal'[t] = IF index < total THEN index ELSE total
  BY <1>1 DEF Truncate, Set, LogTypes
<1>4. cut' = IF index > cut THEN index ELSE cut
  BY DEF Truncate
<1>5. cut' \in Nat /\ cut <= cut' /\ index <= cut' /\ goal'[t] <= cut'
  <2>1. cut \in Nat /\ total \in Nat
    BY LogNumbers
  <2>2. cut' \in Nat /\ cut <= cut' /\ index <= cut'
    BY <1>4, <2>1
  <2> QED BY <1>3, <2>1, <2>2
<1>6. NoRestart'
  BY <1>1, <1>2 DEF LogPart, NoRestart
<1>7. WorkerInv'
  <2>1. ASSUME NEW s \in Threads, s # t, pc[s] \in {"clear", "clear all"} PROVE goal[s] <= cut'
    <3>1. goal[s] <= cut
      BY <2>1 DEF LogPart, WorkerInv
    <3>2. goal[s] \in Nat /\ cut \in Nat
      BY LogNumbers
    <3> QED BY <1>5, <3>1, <3>2
  <2> QED BY <1>1, <1>2, <1>5, <2>1 DEF LogPart, WorkerInv
<1>8. \A i \in Ring : cut' <= i => cut <= i
  BY <1>5, LogNumbers, RingIndices
<1>9. LogInOrder'
  <2> SUFFICES ASSUME NotWrapped
               PROVE  commitIndex <= total /\ OwnedSlots' /\ \E f \in 0..Size : FirstMissing(f)'
    BY <1>1 DEF LogInOrder, NotWrapped
  <2>1. /\ commitIndex <= total /\ OwnedSlots
        /\ \E f \in 0..Size : FirstMissing(f)
    BY DEF LogPart, LogInOrder
  <2>2. PICK f \in 0..Size : FirstMissing(f)
    BY <2>1
  <2>3. \A s \in Threads : pc'[s] \in {"write", "count", "check"} =>
          pc'[s] = pc[s] /\ at'[s] = at[s]
    BY <1>1, <1>2
  <2>4. (\A s \in Threads : pc'[s] # "count") => \A s \in Threads : pc[s] # "count"
    BY <1>1
  <2>5. OwnedSlots'
    BY <1>1, <2>1, <2>3 DEF OwnedSlots
  <2>6. FirstMissing(f)'
    BY <1>1, <1>8, <2>2, <2>3, <2>4 DEF FirstMissing
  <2> QED BY <2>1, <2>5, <2>6
<1>10. LogMoves
  BY <1>1, <1>5, LogNumbers DEF LogMoves, NotWrapped
<1> QED BY <1>5, <1>6, <1>7, <1>9, <1>10 DEF LogPart

\* It clears nothing behind the index truncated to.
LEMMA ClearInOrder ==
  ASSUME LogTypes, LogPart, NEW t \in workload.truncate, ClearSlot(t)
  PROVE  LogPart' /\ LogMoves
<1> DEFINE k == Slot(at[t])
<1>1. /\ t \in Threads /\ pc[t] \in {"clear", "clear all"} /\ pc' = pc /\ goal' = goal
      /\ \A s \in Threads : s # t => at'[s] = at[s]
      /\ UNCHANGED <<writeIndex, commitIndex, total, cut>>
  BY RolesInThreads DEF ClearSlot, Set, counters, history, LogTypes
<1>2. k \in Ring /\ at[t] \in Nat /\ goal[t] \in Nat /\ at[t] < goal[t]
  <2>1. at[t] \in Nat /\ goal[t] \in Nat
    BY <1>1, LogNumbers
  <2> QED BY <2>1, SlotInRing DEF ClearSlot, Ring
<1>3. slots'[k] = None /\ \A i \in Ring : i # k => slots'[i] = slots[i]
  BY <1>2 DEF ClearSlot, LogTypes, Ring
<1>4. goal[t] <= cut
  BY <1>1 DEF LogPart, WorkerInv
<1>5. \A i \in Ring : cut <= i => i # k
  <2> SUFFICES ASSUME NEW i \in Ring, cut <= i PROVE i # k
    OBVIOUS
  <2>1. at[t] < i /\ i < Size /\ i \in Nat
    BY <1>2, <1>4, LogNumbers, RingIndices
  <2>2. at[t] < Size
    BY <1>2, <2>1, LogNumbers
  <2>3. k = at[t]
    BY <1>2, <2>2, SlotBelowSize
  <2> QED BY <1>2, <2>1, <2>3
<1> HIDE DEF k
<1>6. NoRestart' /\ WorkerInv'
  BY <1>1 DEF LogPart, NoRestart, WorkerInv
<1>7. LogInOrder'
  <2> SUFFICES ASSUME NotWrapped
               PROVE  commitIndex <= total /\ OwnedSlots' /\ \E f \in 0..Size : FirstMissing(f)'
    BY <1>1 DEF LogInOrder, NotWrapped
  <2>1. /\ commitIndex <= total /\ OwnedSlots
        /\ \E f \in 0..Size : FirstMissing(f)
    BY DEF LogPart, LogInOrder
  <2>2. PICK f \in 0..Size : FirstMissing(f)
    BY <2>1
  <2>3. \A s \in Threads : pc[s] \in {"write", "count", "check"} => at'[s] = at[s]
    BY <1>1
  <2>4. OwnedSlots'
    <3>1. \A i \in Ring : slots'[i] # None => slots'[i] = slots[i]
      BY <1>3
    <3>2. \A i \in Ring : slots'[i] # None => slots'[i].index = i /\ i < writeIndex
      BY <2>1, <3>1 DEF OwnedSlots
    <3>3. \A i \in Ring : slots'[i] # None => \A s \in Threads : pc[s] = "write" => i < at'[s]
      BY <2>1, <2>3, <3>1 DEF OwnedSlots
    <3> QED BY <1>1, <3>2, <3>3 DEF OwnedSlots
  <2>5. FirstMissing(f)'
    <3>1. /\ commitIndex <= f /\ f <= writeIndex /\ f <= total + 1
          /\ (\A s \in Threads : pc[s] # "count") => f <= total
      BY <2>2 DEF FirstMissing
    <3>2. f < Size => slots'[f] = None
      <4>1. f < Size => f \in Ring /\ slots[f] = None
        BY <2>2, RingIndices DEF FirstMissing
      <4> QED BY <1>3, <4>1
    <3>3. \A i \in Ring : cut <= i /\ i < f => slots'[i].index = i
      BY <1>3, <1>5, <2>2 DEF FirstMissing
    <3>4. \A s \in Threads : /\ pc[s] = "write" => f <= at'[s]
                             /\ pc[s] = "check" /\ at'[s] <= Size => at'[s] <= f
      BY <2>2, <2>3 DEF FirstMissing
    <3> QED BY <1>1, <3>1, <3>2, <3>3, <3>4 DEF FirstMissing
  <2> QED BY <2>1, <2>4, <2>5
<1>8. LogMoves
  <2>1. commitIndex <= commitIndex' /\ cut <= cut'
    <3>1. commitIndex' = commitIndex /\ cut' = cut
      BY <1>1
    <3> QED BY <3>1, LogNumbers
  <2>2. NotWrapped' <=> NotWrapped
    BY <1>1 DEF NotWrapped
  <2> QED BY <1>1, <1>3, <1>5, <2>1, <2>2 DEF LogMoves
<1> QED BY <1>6, <1>7, <1>8 DEF LogPart

LEMMA EndClearInOrder ==
  ASSUME LogTypes, LogPart, NEW t \in workload.truncate, EndClear(t)
  PROVE  LogPart' /\ LogMoves
<1>1. /\ t \in Threads /\ pc[t] \in {"clear", "clear all"}
      /\ UNCHANGED <<slots, writeIndex, commitIndex, total, cut, at, goal>>
      /\ \A s \in Threads : s # t => pc'[s] = pc[s]
  BY RolesInThreads DEF EndClear, Set, counters, history, LogTypes
<1>2. pc'[t] \in {"idle", "reset write"}
  <2>1. pc'[t] = IF pc[t] = "clear" THEN "idle" ELSE "reset write"
    BY <1>1 DEF EndClear, Set, LogTypes
  <2> QED BY <2>1
<1>3. NoRestart' /\ WorkerInv'
  BY <1>1, <1>2 DEF LogPart, NoRestart, WorkerInv
<1>4. LogInOrder'
  <2> SUFFICES ASSUME NotWrapped
               PROVE  commitIndex <= total /\ OwnedSlots' /\ \E f \in 0..Size : FirstMissing(f)'
    BY <1>1 DEF LogInOrder, NotWrapped
  <2>1. /\ commitIndex <= total /\ OwnedSlots
        /\ \E f \in 0..Size : FirstMissing(f)
    BY DEF LogPart, LogInOrder
  <2>2. PICK f \in 0..Size : FirstMissing(f)
    BY <2>1
  <2>3. \A s \in Threads : pc'[s] \in {"write", "count", "check"} => pc'[s] = pc[s]
    BY <1>1, <1>2
  <2>4. (\A s \in Threads : pc'[s] # "count") => \A s \in Threads : pc[s] # "count"
    BY <1>1
  <2>5. OwnedSlots'
    BY <1>1, <2>1, <2>3 DEF OwnedSlots
  <2>6. FirstMissing(f)'
    BY <1>1, <2>2, <2>3, <2>4 DEF FirstMissing
  <2> QED BY <2>1, <2>5, <2>6
<1>5. LogMoves
  <2>1. commitIndex <= commitIndex' /\ cut <= cut'
    <3>1. commitIndex' = commitIndex /\ cut' = cut
      BY <1>1
    <3> QED BY <3>1, LogNumbers
  <2>2. NotWrapped' <=> NotWrapped
    BY <1>1 DEF NotWrapped
  <2> QED BY <1>1, <2>1, <2>2 DEF LogMoves
<1> QED BY <1>3, <1>4, <1>5 DEF LogPart

\* A step of the log that does not start it again from 0.
LEMMA LogStepInOrder ==
  ASSUME LogTypes, Roles, OneAtWork, LogPart, LogStep,
         \A t \in Threads : pc'[t] # "reset total"
  PROVE  LogPart' /\ LogMoves
<1>1. ASSUME NEW t \in workload.append, Claim(t) \/ WriteSlot(t) \/ CountEntry(t)
      PROVE  LogPart' /\ LogMoves
  BY <1>1, ClaimInOrder, WriteInOrder, CountInOrder
<1>2. ASSUME NEW t \in workload.commit,
             (\E upTo \in 1..MaxAppends : Commit(t, upTo)) \/ CheckSlot(t) \/ StoreCommit(t)
      PROVE  LogPart' /\ LogMoves
  BY <1>2, BeginCommitInOrder, CheckInOrder, StoreCommitInOrder
<1>3. ASSUME NEW t \in workload.truncate, ClearSlot(t) \/ EndClear(t)
      PROVE  LogPart' /\ LogMoves
  BY <1>3, ClearInOrder, EndClearInOrder
<1>4. ASSUME NEW t \in workload.truncate, ResetWrite(t) \/ ResetTotal(t) \/ ResetCommit(t)
      PROVE  FALSE
  <2>1. t \in Threads
    BY RolesInThreads
  <2>2. CASE ResetWrite(t)
    BY <2>1, <2>2 DEF ResetWrite, Go, LogTypes
  <2>3. CASE ResetTotal(t) \/ ResetCommit(t)
    BY <2>1, <2>3 DEF ResetTotal, ResetCommit, Go, LogPart, NoRestart
  <2> QED BY <1>4, <2>2, <2>3
<1> QED BY <1>1, <1>2, <1>3, <1>4 DEF LogStep

\* What a slot may hold.
Contents == [index : Int, call : Int]
Steps == {"asleep", "label", "truncate"}

ReplicaTypes ==
  /\ applied \in [Replicas -> Seq(Contents)]
  /\ next \in [Replicas -> Nat] /\ end \in [Replicas -> Nat]
  /\ reading \in [Replicas -> BOOLEAN]
  /\ compactor \in [step : Steps, state : Seq(Contents), index : Nat]
  /\ snapshot \in [index : Nat, state : Seq(Contents)]

LogUnchanged == UNCHANGED <<slots, counters, locals, history>>
ReplicaStep == \E r \in Replicas : BeginRange(r) \/ LookUp(r) \/ ApplyEntry(r) \/ InstallSnapshot(r)
CompactorStep == (\E r \in Replicas : TakeState(r) \/ CompactUpTo(r)) \/ CreateSnapshot

LEMMA SlotTyped ==
  ASSUME LogTypes, NEW i \in Nat
  PROVE  slots[Slot(i)] \in Contents
BY SlotInRing DEF LogTypes, Contents

LEMMA ReplicaTypesStep ==
  ASSUME LogTypes, ReplicaTypes, ReplicaStep
  PROVE  applied' \in [Replicas -> Seq(Contents)] /\ next' \in [Replicas -> Nat]
         /\ end' \in [Replicas -> Nat] /\ reading' \in [Replicas -> BOOLEAN]
<1>1. PICK r \in Replicas : BeginRange(r) \/ LookUp(r) \/ ApplyEntry(r) \/ InstallSnapshot(r)
  BY DEF ReplicaStep
<1>2. /\ applied \in [Replicas -> Seq(Contents)]
      /\ next \in [Replicas -> Nat] /\ end \in [Replicas -> Nat]
      /\ reading \in [Replicas -> BOOLEAN]
      /\ snapshot.index \in Nat /\ snapshot.state \in Seq(Contents) /\ commitIndex \in Nat
      /\ next[r] \in Nat /\ next[r] + 1 \in Nat /\ applied[r] \in Seq(Contents)
  BY DEF ReplicaTypes, LogTypes
<1>3. CASE BeginRange(r)
  BY <1>2, <1>3 DEF BeginRange
<1>4. CASE LookUp(r)
  <2>1. applied' = applied /\ end' = end
        /\ (next' = next \/ next' = [next EXCEPT ![r] = next[r] + 1])
        /\ (reading' = reading \/ reading' = [reading EXCEPT ![r] = TRUE])
    BY <1>4 DEF LookUp
  <2> QED BY <1>2, <2>1
<1>5. CASE ApplyEntry(r)
  <2>1. /\ applied' = applied \/ applied' = [applied EXCEPT ![r] = Append(applied[r], slots[Slot(next[r])])]
        /\ next' = [next EXCEPT ![r] = next[r] + 1]
        /\ reading' = [reading EXCEPT ![r] = FALSE] /\ end' = end
    BY <1>5 DEF ApplyEntry
  <2>2. Append(applied[r], slots[Slot(next[r])]) \in Seq(Contents)
    BY <1>2, SlotTyped
  <2> QED BY <1>2, <2>1, <2>2
<1>6. CASE InstallSnapshot(r)
  BY <1>2, <1>6 DEF InstallSnapshot
<1> QED BY <1>1, <1>3, <1>4, <1>5, <1>6

LEMMA CompactorTypesStep ==
  ASSUME LogTypes, ReplicaTypes, CompactorStep
  PROVE  compactor' \in [step : Steps, state : Seq(Contents), index : Nat]
<1>1. /\ compactor \in [step : Steps, state : Seq(Contents), index : Nat]
      /\ \A r \in Replicas : applied[r] \in Seq(Contents) /\ next[r] \in Nat
      /\ commitIndex \in Nat /\ "label" \in Steps /\ "truncate" \in Steps
  BY DEF ReplicaTypes, LogTypes, Steps
<1>2. ASSUME NEW r \in Replicas, TakeState(r) PROVE compactor' \in [step : Steps, state : Seq(Contents), index : Nat]
  BY <1>1, <1>2 DEF TakeState
<1>3. ASSUME NEW r \in Replicas, CompactUpTo(r) PROVE compactor' \in [step : Steps, state : Seq(Contents), index : Nat]
  BY <1>1, <1>3 DEF CompactUpTo
<1>4. CASE CreateSnapshot
  BY <1>1, <1>4 DEF CreateSnapshot
<1> QED BY <1>2, <1>3, <1>4 DEF CompactorStep

LEMMA EmptyIsSeq ==
  <<>> \in Seq(Contents) /\ Len(<<>>) = 0
OBVIOUS

LEMMA NextTypes ==
  ASSUME LogTypes, Roles, ReplicaTypes, [ReplicationNext]_replicationVars
  PROVE  LogTypes' /\ Roles' /\ ReplicaTypes'
<1>1. CASE UNCHANGED replicationVars
  BY <1>1 DEF replicationVars, logVars, replicaVars, compactorVars, counters, locals, history,
     LogTypes, Roles, Appending, ReplicaTypes
<1>2. CASE UNCHANGED workload /\ LogStep /\ UNCHANGED <<replicaVars, compactorVars>>
  <2>1. LogTypes' /\ Roles'
    BY <1>2, LogTypesKept DEF AnyLogStep
  <2>2. ReplicaTypes'
    BY <1>2 DEF replicaVars, compactorVars, ReplicaTypes
  <2> QED BY <2>1, <2>2
<1>3. CASE UNCHANGED workload /\ ReplicaStep /\ LogUnchanged /\ UNCHANGED compactorVars
  <2>1. LogTypes' /\ Roles'
    BY <1>3 DEF LogUnchanged, counters, locals, history, LogTypes, Roles, Appending
  <2>2. ReplicaTypes'
    BY <1>3, ReplicaTypesStep DEF compactorVars, ReplicaTypes
  <2> QED BY <2>1, <2>2
<1>4. CASE UNCHANGED workload /\ CompactorStep /\ LogUnchanged /\ UNCHANGED <<replicaVars, snapshot>>
  <2>1. LogTypes' /\ Roles'
    BY <1>4 DEF LogUnchanged, counters, locals, history, LogTypes, Roles, Appending
  <2>2. ReplicaTypes'
    BY <1>4, CompactorTypesStep DEF replicaVars, ReplicaTypes
  <2> QED BY <2>1, <2>2
<1>5. ASSUME UNCHANGED workload, NEW t \in workload.truncate, Compact(t), UNCHANGED replicaVars
      PROVE  LogTypes' /\ Roles' /\ ReplicaTypes'
  <2>1. compactor.index \in Nat /\ compactor.state \in Seq(Contents)
    BY DEF ReplicaTypes
  <2>2. LogTypes' /\ Roles'
    <3>0. PICK n \in Nat : n = compactor.index
      BY <2>1
    <3>1. Truncate(t, n)
      BY <1>5, <3>0 DEF Compact, Truncate
    <3>2. \E u \in workload.truncate, index \in Nat : Truncate(u, index)
      BY <3>1
    <3>3. UNCHANGED workload
      BY <1>5
    <3>4. AnyLogStep
      BY <3>2, <3>3 DEF AnyLogStep
    <3> QED BY <3>4, LogTypesKept
  <2>3. compactor' \in [step : Steps, state : Seq(Contents), index : Nat]
    BY <1>5, EmptyIsSeq DEF Compact, Steps
  <2>4. snapshot' \in [index : Nat, state : Seq(Contents)]
    BY <1>5, <2>1 DEF Compact
  <2> QED BY <1>5, <2>2, <2>3, <2>4 DEF replicaVars, ReplicaTypes
<1> QED BY <1>1, <1>2, <1>3, <1>4, <1>5
        DEF ReplicationNext, ReplicaStep, CompactorStep, LogUnchanged

LEMMA InitTypes ==
  ASSUME ReplicationInit PROVE LogTypes /\ Roles /\ ReplicaTypes
<1>1. LogTypes /\ Roles
  BY LogAssumption DEF ReplicationInit, LogInit, LogTypes, Roles, Pcs, Appending, None
<1>2. ReplicaTypes
  BY EmptyIsSeq DEF ReplicationInit, ReplicaTypes, Steps
<1> QED BY <1>1, <1>2

LEMMA ReplicationTypesHold == ReplicationSpec => [](LogTypes /\ Roles /\ ReplicaTypes)
<1>1. ReplicationInit => LogTypes /\ Roles /\ ReplicaTypes
  BY InitTypes
<1>2. (LogTypes /\ Roles /\ ReplicaTypes) /\ [ReplicationNext]_replicationVars
        => (LogTypes /\ Roles /\ ReplicaTypes)'
  BY NextTypes
<1> QED BY <1>1, <1>2, PTL DEF ReplicationSpec

LEMMA OrderKept ==
  ASSUME NEW s \in Seq(Contents), NEW n \in Nat, NEW m \in Nat, InOrderUpTo(s, n), n <= m
  PROVE  InOrderUpTo(s, m)
<1>1. \A k \in 1..Len(s) : s[k].index \in Int
  <2>1. \A k \in 1..Len(s) : s[k] \in Contents
    OBVIOUS
  <2> QED BY <2>1 DEF Contents
<1> QED BY <1>1 DEF InOrderUpTo

LEMMA OrderOfAppend ==
  ASSUME NEW s \in Seq(Contents), NEW n \in Nat, InOrderUpTo(s, n),
         NEW e \in Contents, e.index = n
  PROVE  InOrderUpTo(Append(s, e), n + 1)
<1> DEFINE new == Append(s, e)
<1>1. Len(s) \in Nat /\ Len(new) = Len(s) + 1
  OBVIOUS
<1>2. /\ \A k \in 1..Len(s) : new[k] = s[k] /\ s[k].index \in Int
      /\ new[Len(s) + 1] = e
  <2>1. \A k \in 1..Len(s) : s[k] \in Contents
    OBVIOUS
  <2>2. \A k \in 1..Len(s) : s[k].index \in Int
    BY <2>1 DEF Contents
  <2> QED BY <2>2
<1> HIDE DEF new
<1>3. \A k \in 1..Len(new) : k \in 1..Len(s) \/ k = Len(s) + 1
  BY <1>1
<1>4. \A k \in 1..Len(new) : new[k].index < n + 1
  <2>1. \A k \in 1..Len(s) : s[k].index < n
    BY DEF InOrderUpTo
  <2>2. \A k \in 1..Len(s) : new[k].index < n + 1
    BY <1>2, <2>1
  <2> QED BY <1>2, <1>3, <2>2
<1>5. \A j, k \in 1..Len(new) : j < k => new[j].index < new[k].index
  <2> SUFFICES ASSUME NEW j \in 1..Len(new), NEW k \in 1..Len(new), j < k
               PROVE  new[j].index < new[k].index
    OBVIOUS
  <2>1. j \in 1..Len(s)
    BY <1>1
  <2>2. CASE k \in 1..Len(s)
    BY <1>2, <2>1, <2>2 DEF InOrderUpTo
  <2>3. CASE k = Len(s) + 1
    BY <1>2, <2>1, <2>3 DEF InOrderUpTo
  <2> QED BY <1>3, <2>2, <2>3
<1> QED BY <1>4, <1>5 DEF InOrderUpTo, new

LEMMA ReplicaNumbers ==
  ASSUME ReplicaTypes
  PROVE  /\ \A r \in Replicas : applied[r] \in Seq(Contents) /\ next[r] \in Nat /\ end[r] \in Nat
         /\ snapshot.index \in Nat /\ snapshot.state \in Seq(Contents)
         /\ compactor.index \in Nat /\ compactor.state \in Seq(Contents)
BY DEF ReplicaTypes

\* What a step of the log keeps for the replicas and the compactor.
LEMMA LogUnderReplicas ==
  ASSUME LogTypes, ReplicaTypes, LogMoves, ReplicaPart, LogTypes', NotWrapped',
         UNCHANGED replicaVars
  PROVE  /\ \A r \in Replicas : ReplicaInOrder(r)'
         /\ commitIndex <= commitIndex' /\ cut <= cut'
         /\ CompactionInOrder
<1>1. NotWrapped /\ CompactionInOrder /\ \A r \in Replicas : ReplicaInOrder(r)
  BY DEF LogMoves, ReplicaPart
<1>2. /\ commitIndex <= commitIndex' /\ cut <= cut'
      /\ \A i \in Ring : cut' <= i /\ i < commitIndex => slots'[i] = slots[i]
  BY DEF LogMoves
<1>3. /\ commitIndex \in Nat /\ cut \in Nat /\ commitIndex' \in Nat /\ cut' \in Nat
      /\ UNCHANGED <<applied, next, end, reading>>
  BY DEF LogTypes, replicaVars
<1>4. ASSUME NEW r \in Replicas PROVE ReplicaInOrder(r)'
  <2>1. /\ next[r] <= commitIndex /\ end[r] <= commitIndex
        /\ reading[r] => next[r] < end[r]
        /\ InOrderUpTo(applied[r], next[r])
        /\ Holds(r)
    BY <1>1 DEF ReplicaInOrder
  <2>2. next[r] <= commitIndex' /\ end[r] <= commitIndex'
    BY <1>2, <1>3, <2>1, ReplicaNumbers
  <2>3. Holds(r)'
    <3> SUFFICES ASSUME NEW i \in Ring, cut' <= i, i < next[r]
                 PROVE  \E k \in 1..Len(applied[r]) : applied[r][k] = slots'[i]
      BY <1>3 DEF Holds
    <3>1. cut <= i /\ i < commitIndex
      BY <1>2, <1>3, <2>1, ReplicaNumbers, RingIndices
    <3>2. slots'[i] = slots[i]
      BY <1>2, <3>1
    <3> QED BY <2>1, <3>1, <3>2 DEF Holds
  <2> QED BY <1>3, <2>1, <2>2, <2>3 DEF ReplicaInOrder, InOrderUpTo
<1> QED BY <1>1, <1>2, <1>4

LEMMA CompactionKept ==
  ASSUME LogTypes, ReplicaTypes, CompactionInOrder, LogTypes',
         commitIndex <= commitIndex', cut <= cut', UNCHANGED compactorVars
  PROVE  CompactionInOrder'
<1>1. /\ commitIndex \in Nat /\ cut \in Nat /\ commitIndex' \in Nat /\ cut' \in Nat
      /\ compactor' = compactor /\ snapshot' = snapshot
  BY DEF LogTypes, compactorVars
<1>2. snapshot.index <= commitIndex' /\ snapshot.index <= cut'
  BY <1>1, ReplicaNumbers DEF CompactionInOrder
<1>3. compactor.step = "label" => InOrderUpTo(compactor.state, commitIndex')
  BY <1>1, ReplicaNumbers, OrderKept DEF CompactionInOrder
<1>4. compactor.step = "truncate" =>
        compactor.index <= commitIndex' /\ InOrderUpTo(compactor.state, compactor.index)
  BY <1>1, ReplicaNumbers DEF CompactionInOrder
<1>5. InOrderUpTo(snapshot.state, snapshot.index)
  BY DEF CompactionInOrder
<1> QED BY <1>1, <1>2, <1>3, <1>4, <1>5 DEF CompactionInOrder, InOrderUpTo

LEMMA OtherReplica ==
  ASSUME NEW r \in Replicas, ReplicaInOrder(r), UNCHANGED <<slots, commitIndex, cut>>,
         applied'[r] = applied[r], next'[r] = next[r], end'[r] = end[r],
         reading'[r] = reading[r]
  PROVE  ReplicaInOrder(r)'
BY DEF ReplicaInOrder, Holds, InOrderUpTo

\* Replay keeps a replica in order: it stays below the commit index, where the
\* slot of an index that was not truncated holds the entry of that index.
LEMMA ReplayInOrder ==
  ASSUME LogTypes, ReplicaTypes, LogPart, NotWrapped, CompactionInOrder,
         NEW r \in Replicas, ReplicaInOrder(r), UNCHANGED <<slots, commitIndex, cut>>,
         BeginRange(r) \/ LookUp(r) \/ ApplyEntry(r) \/ InstallSnapshot(r)
  PROVE  ReplicaInOrder(r)'
<1>1. /\ next[r] <= commitIndex /\ end[r] <= commitIndex
      /\ reading[r] => next[r] < end[r]
      /\ InOrderUpTo(applied[r], next[r])
      /\ Holds(r)
  BY DEF ReplicaInOrder
<1>2. /\ applied \in [Replicas -> Seq(Contents)]
      /\ next \in [Replicas -> Nat] /\ end \in [Replicas -> Nat]
      /\ reading \in [Replicas -> BOOLEAN]
  BY DEF ReplicaTypes
<1>3. next[r] \in Nat /\ end[r] \in Nat /\ commitIndex \in Nat /\ cut \in Nat /\ total \in Nat
  BY <1>2, LogNumbers
<1>4. commitIndex <= total /\ OwnedSlots /\ \E f \in 0..Size : FirstMissing(f)
  BY DEF LogPart, LogInOrder
<1>5. CASE BeginRange(r)
  <2>1. /\ applied' = applied /\ next' = next /\ reading' = reading
        /\ end'[r] = commitIndex
    BY <1>2, <1>5 DEF BeginRange
  <2>2. ~reading[r]
    <3>1. next[r] >= end[r]
      BY <1>5 DEF BeginRange
    <3> QED BY <1>1, <1>3, <3>1
  <2>3. commitIndex <= commitIndex
    BY <1>3
  <2> QED BY <1>1, <2>1, <2>2, <2>3 DEF ReplicaInOrder, Holds, InOrderUpTo
<1>6. CASE LookUp(r)
  <2>1. next[r] < end[r]
    BY <1>6 DEF LookUp
  <2>2. next[r] < total
    BY <1>1, <1>3, <1>4, <2>1
  <2>3. next' = next /\ applied' = applied /\ end' = end
    BY <1>6, <2>2 DEF LookUp
  <2> QED BY <1>1, <2>1, <2>3 DEF ReplicaInOrder, Holds, InOrderUpTo
<1>7. CASE ApplyEntry(r)
  <2> DEFINE n == next[r]
             e == slots[n]
  <2>1. n < end[r] /\ n < commitIndex
    <3>1. n < end[r]
      BY <1>1, <1>7 DEF ApplyEntry
    <3> QED BY <1>1, <1>3, <3>1
  <2>2. n < Size /\ Slot(n) = n /\ n \in Ring
    <3>1. commitIndex <= Size
      BY DEF NotWrapped
    <3>2. n < Size
      BY <1>3, <2>1, <3>1, LogNumbers
    <3> QED BY <1>3, <3>2, SlotBelowSize DEF Ring
  <2>3. e # None => e.index = n
    BY <1>4, <2>2 DEF OwnedSlots
  <2>4. cut <= n => e # None
    <3>1. PICK f \in 0..Size : FirstMissing(f)
      BY <1>4
    <3>2. n < f
      BY <1>3, <2>1, <3>1 DEF FirstMissing
    <3>3. cut <= n => e.index = n
      BY <2>2, <3>1, <3>2 DEF FirstMissing
    <3>4. n # -1
      BY <1>3
    <3> QED BY <3>3, <3>4 DEF None
  <2>5. /\ next'[r] = n + 1 /\ end'[r] = end[r] /\ reading'[r] = FALSE
        /\ applied'[r] = IF e = None THEN applied[r] ELSE Append(applied[r], e)
    BY <1>2, <1>7, <2>2 DEF ApplyEntry
  <2>6. applied[r] \in Seq(Contents) /\ e \in Contents
    BY <1>2, <1>3, <2>2, SlotTyped
  <2> HIDE DEF e
  <2>7. InOrderUpTo(applied'[r], n + 1)
    <3>1. CASE e = None
      <4>1. n + 1 \in Nat /\ n <= n + 1
        BY <1>3
      <4>2. InOrderUpTo(applied[r], n + 1)
        BY <1>1, <1>3, <2>6, <4>1, OrderKept
      <4> QED BY <2>5, <3>1, <4>2
    <3>2. CASE e # None
      <4>1. InOrderUpTo(Append(applied[r], e), n + 1)
        BY <1>1, <1>3, <2>3, <2>6, <3>2, OrderOfAppend
      <4> QED BY <2>5, <3>2, <4>1
    <3> QED BY <3>1, <3>2
  <2>8. ASSUME NEW i \in Ring, cut <= i, i < n + 1
        PROVE  \E k \in 1..Len(applied'[r]) : applied'[r][k] = slots[i]
    <3>1. CASE i = n
      <4>1. e # None
        BY <2>4, <2>8, <3>1
      <4>2. applied'[r] = Append(applied[r], e)
        BY <2>5, <4>1
      <4>3. Len(applied[r]) + 1 \in 1..Len(applied'[r]) /\ applied'[r][Len(applied[r]) + 1] = e
        BY <2>6, <4>2
      <4> QED BY <3>1, <4>3 DEF e
    <3>2. CASE i # n
      <4>1. i < n
        BY <1>3, <2>8, <3>2, RingIndices
      <4>2. PICK k \in 1..Len(applied[r]) : applied[r][k] = slots[i]
        BY <1>1, <2>8, <4>1 DEF Holds
      <4>3. k \in 1..Len(applied'[r]) /\ applied'[r][k] = applied[r][k]
        <5>1. CASE e = None
          BY <2>5, <5>1
        <5>2. CASE e # None
          <6>1. applied'[r] = Append(applied[r], e)
            BY <2>5, <5>2
          <6> QED BY <2>6, <6>1
        <5> QED BY <5>1, <5>2
      <4> QED BY <4>2, <4>3
    <3> QED BY <3>1, <3>2
  <2>9. n + 1 <= commitIndex
    BY <1>3, <2>1
  <2>10. Holds(r)'
    BY <2>5, <2>8 DEF Holds
  <2> QED BY <1>1, <2>5, <2>7, <2>9, <2>10 DEF ReplicaInOrder, InOrderUpTo
<1>8. CASE InstallSnapshot(r)
  <2>1. /\ applied'[r] = snapshot.state /\ next'[r] = snapshot.index
        /\ end' = end /\ reading' = reading
    BY <1>2, <1>8 DEF InstallSnapshot
  <2>2. ~reading[r]
    <3>1. next[r] >= end[r]
      BY <1>8 DEF InstallSnapshot
    <3> QED BY <1>1, <1>3, <3>1
  <2>3. snapshot.index <= commitIndex /\ InOrderUpTo(snapshot.state, snapshot.index)
    BY DEF CompactionInOrder
  <2>4. Holds(r)'
    <3>1. \A i \in Ring : ~(cut <= i /\ i < snapshot.index)
      <4>1. snapshot.index <= cut /\ snapshot.index \in Nat
        BY ReplicaNumbers DEF CompactionInOrder
      <4> QED BY <1>3, <4>1, RingIndices
    <3> QED BY <2>1, <3>1 DEF Holds
  <2> QED BY <1>1, <2>1, <2>2, <2>3, <2>4 DEF ReplicaInOrder, InOrderUpTo
<1> QED BY <1>5, <1>6, <1>7, <1>8

LEMMA NextInOrder ==
  ASSUME LogTypes, Roles, ReplicaTypes, RepInv, [ReplicationNext]_replicationVars
  PROVE  RepInv'
<1>0. LogTypes' /\ Roles' /\ ReplicaTypes'
  BY NextTypes
<1>1. SUFFICES ASSUME OneWorker' PROVE LogPart' /\ ReplicaPart'
  BY DEF RepInv
<1>2. UNCHANGED workload
  BY DEF ReplicationNext, replicationVars, logVars
<1>3. OneAtWork /\ ~restarted'
  BY <1>1, <1>2 DEF OneWorker, OneAtWork
<1>4. ~restarted => LogPart /\ ReplicaPart
  BY <1>3 DEF RepInv, OneWorker, OneAtWork
<1>5. CASE UNCHANGED replicationVars
  <2>1. LogPart /\ ReplicaPart
    BY <1>3, <1>4, <1>5 DEF replicationVars
  <2>2. LogPart'
    BY <1>5, <2>1 DEF replicationVars, logVars, counters, locals, history, LogPart, NoRestart,
       WorkerInv, LogInOrder, NotWrapped, OwnedSlots, FirstMissing
  <2>3. ReplicaPart'
    BY <1>5, <2>1 DEF replicationVars, logVars, counters, locals, history, replicaVars,
       compactorVars, ReplicaPart, NotWrapped, CompactionInOrder, ReplicaInOrder, Holds,
       InOrderUpTo
  <2> QED BY <2>2, <2>3
<1>6. CASE /\ LogStep
           /\ restarted' = (restarted \/ \E t \in Threads : pc'[t] = "reset total")
           /\ UNCHANGED <<replicaVars, compactorVars>>
  <2>1. ~restarted /\ \A t \in Threads : pc'[t] # "reset total"
    BY <1>3, <1>6
  <2>2. LogPart /\ ReplicaPart
    BY <1>4, <2>1
  <2>3. LogPart' /\ LogMoves
    BY <1>3, <1>6, <2>1, <2>2, LogStepInOrder
  <2>4. ReplicaPart'
    <3> SUFFICES ASSUME NotWrapped'
                 PROVE  CompactionInOrder' /\ \A r \in Replicas : ReplicaInOrder(r)'
      BY DEF ReplicaPart
    <3>1. /\ \A r \in Replicas : ReplicaInOrder(r)'
          /\ commitIndex <= commitIndex' /\ cut <= cut'
          /\ CompactionInOrder
      BY <1>0, <1>6, <2>2, <2>3, LogUnderReplicas
    <3>2. CompactionInOrder'
      BY <1>0, <1>6, <3>1, CompactionKept
    <3> QED BY <3>1, <3>2
  <2> QED BY <2>3, <2>4
<1>7. CASE ReplicaStep /\ LogUnchanged /\ UNCHANGED <<compactorVars, restarted>>
  <2>1. LogPart /\ ReplicaPart
    BY <1>3, <1>4, <1>7
  <2>2. LogPart'
    BY <1>2, <1>7, <2>1 DEF LogUnchanged, counters, locals, history, LogPart, NoRestart,
       WorkerInv, LogInOrder, NotWrapped, OwnedSlots, FirstMissing
  <2>3. ReplicaPart'
    <3>1. UNCHANGED <<slots, writeIndex, commitIndex, cut>>
      BY <1>7 DEF LogUnchanged, counters, history
    <3>2. SUFFICES ASSUME NotWrapped
                   PROVE  CompactionInOrder' /\ \A r \in Replicas : ReplicaInOrder(r)'
      BY <3>1 DEF ReplicaPart, NotWrapped
    <3>3. CompactionInOrder /\ \A r \in Replicas : ReplicaInOrder(r)
      BY <2>1, <3>2 DEF ReplicaPart
    <3>4. CompactionInOrder'
      BY <1>7, <3>1, <3>3 DEF compactorVars, CompactionInOrder, InOrderUpTo
    <3>5. PICK r \in Replicas : BeginRange(r) \/ LookUp(r) \/ ApplyEntry(r) \/ InstallSnapshot(r)
      BY <1>7 DEF ReplicaStep
    <3>6. ReplicaInOrder(r)'
      BY <2>1, <3>1, <3>2, <3>3, <3>5, ReplayInOrder
    <3>7. ASSUME NEW s \in Replicas, s # r PROVE ReplicaInOrder(s)'
      <4>1. /\ applied'[s] = applied[s] /\ next'[s] = next[s]
            /\ end'[s] = end[s] /\ reading'[s] = reading[s]
        BY <3>5, <3>7 DEF BeginRange, LookUp, ApplyEntry, InstallSnapshot, ReplicaTypes
      <4> QED BY <3>1, <3>3, <4>1, OtherReplica
    <3> QED BY <3>4, <3>6, <3>7
  <2> QED BY <2>2, <2>3
<1>8. CASE CompactorStep /\ LogUnchanged /\ UNCHANGED <<replicaVars, snapshot, restarted>>
  <2>1. LogPart /\ ReplicaPart
    BY <1>3, <1>4, <1>8
  <2>2. LogPart'
    BY <1>2, <1>8, <2>1 DEF LogUnchanged, counters, locals, history, LogPart, NoRestart,
       WorkerInv, LogInOrder, NotWrapped, OwnedSlots, FirstMissing
  <2>3. ReplicaPart'
    <3>1. UNCHANGED <<slots, writeIndex, commitIndex, cut, applied, next, end, reading, snapshot>>
      BY <1>8 DEF LogUnchanged, counters, history, replicaVars
    <3>2. SUFFICES ASSUME NotWrapped
                   PROVE  CompactionInOrder' /\ \A r \in Replicas : ReplicaInOrder(r)'
      BY <3>1 DEF ReplicaPart, NotWrapped
    <3>3. CompactionInOrder /\ \A r \in Replicas : ReplicaInOrder(r)
      BY <2>1, <3>2 DEF ReplicaPart
    <3>4. \A r \in Replicas : ReplicaInOrder(r)'
      BY <3>1, <3>3, OtherReplica
    <3>5. /\ compactor'.step = "label" => InOrderUpTo(compactor'.state, commitIndex)
          /\ compactor'.step = "truncate" =>
               /\ compactor'.index <= commitIndex
               /\ InOrderUpTo(compactor'.state, compactor'.index)
      <4>1. ASSUME NEW r \in Replicas, TakeState(r)
            PROVE  compactor'.step = "label" /\ InOrderUpTo(compactor'.state, commitIndex)
        <5>1. InOrderUpTo(applied[r], next[r]) /\ next[r] <= commitIndex
          BY <3>3 DEF ReplicaInOrder
        <5>2. InOrderUpTo(applied[r], commitIndex)
          BY <5>1, ReplicaNumbers, LogNumbers, OrderKept
        <5>3. compactor'.step = "label" /\ compactor'.state = applied[r]
          BY <4>1 DEF TakeState
        <5> QED BY <5>2, <5>3
      <4>2. ASSUME NEW r \in Replicas, CompactUpTo(r)
            PROVE  /\ compactor'.step = "truncate" /\ compactor'.index <= commitIndex
                   /\ InOrderUpTo(compactor'.state, compactor'.index)
        <5>1. InOrderUpTo(applied[r], next[r]) /\ next[r] <= commitIndex
          BY <3>3 DEF ReplicaInOrder
        <5>2. /\ compactor'.step = "truncate" /\ compactor'.state = applied[r]
              /\ compactor'.index = next[r]
          BY <4>2 DEF CompactUpTo
        <5> QED BY <5>1, <5>2
      <4>3. ASSUME CreateSnapshot
            PROVE  /\ compactor'.step = "truncate" /\ compactor'.index <= commitIndex
                   /\ InOrderUpTo(compactor'.state, compactor'.index)
        <5>1. /\ compactor'.step = "truncate" /\ compactor'.state = compactor.state
              /\ compactor'.index = commitIndex /\ compactor.step = "label"
          BY <4>3 DEF CreateSnapshot, ReplicaTypes
        <5>2. InOrderUpTo(compactor.state, commitIndex)
          BY <3>3, <5>1 DEF CompactionInOrder
        <5>3. commitIndex <= commitIndex
          BY LogNumbers
        <5> QED BY <5>1, <5>2, <5>3
      <4> QED BY <1>8, <4>1, <4>2, <4>3 DEF CompactorStep
    <3>6. CompactionInOrder'
      BY <3>1, <3>3, <3>5 DEF CompactionInOrder, InOrderUpTo
    <3> QED BY <3>4, <3>6
  <2> QED BY <2>2, <2>3
<1>9. ASSUME NEW t \in workload.truncate, Compact(t), UNCHANGED <<replicaVars, restarted>>
      PROVE  LogPart' /\ ReplicaPart'
  <2>1. LogPart /\ ReplicaPart
    BY <1>3, <1>4, <1>9
  <2>2. PICK n \in Nat : n = compactor.index
    BY ReplicaNumbers
  <2>3. /\ Truncate(t, n) /\ compactor.step = "truncate"
        /\ snapshot'.index = n /\ snapshot'.state = compactor.state
        /\ compactor'.step = "asleep"
    BY <1>9, <2>2 DEF Compact, Truncate
  <2>4. LogPart' /\ LogMoves /\ n <= cut'
    BY <2>1, <2>3, TruncateInOrder
  <2>5. ReplicaPart'
    <3> SUFFICES ASSUME NotWrapped'
                 PROVE  CompactionInOrder' /\ \A r \in Replicas : ReplicaInOrder(r)'
      BY DEF ReplicaPart
    <3>1. /\ \A r \in Replicas : ReplicaInOrder(r)'
          /\ commitIndex <= commitIndex'
          /\ CompactionInOrder
      BY <1>0, <1>9, <2>1, <2>4, LogUnderReplicas
    <3>2. n <= commitIndex /\ InOrderUpTo(compactor.state, n)
      BY <2>2, <2>3, <3>1 DEF CompactionInOrder
    <3>3. n <= commitIndex'
      <4>1. commitIndex \in Nat /\ commitIndex' \in Nat
        BY <1>0 DEF LogTypes
      <4> QED BY <3>1, <3>2, <4>1
    <3>4. compactor'.step # "label" /\ compactor'.step # "truncate"
      BY <2>3
    <3>5. CompactionInOrder'
      BY <2>3, <2>4, <3>2, <3>3, <3>4 DEF CompactionInOrder, InOrderUpTo
    <3> QED BY <3>1, <3>5
  <2> QED BY <2>4, <2>5
<1> QED BY <1>5, <1>6, <1>7, <1>8, <1>9
        DEF ReplicationNext, ReplicaStep, CompactorStep, LogUnchanged

LEMMA InitInOrder ==
  ASSUME ReplicationInit PROVE RepInv
<1>1. /\ slots = [i \in 0..Size - 1 |-> None] /\ writeIndex = 0 /\ commitIndex = 0
      /\ total = 0 /\ cut = 0 /\ \A t \in Threads : pc[t] = "idle"
  BY DEF ReplicationInit, LogInit
<1>2. Size \in Nat \ {0} /\ \A i \in Ring : i \in 0..Size - 1 /\ ~(i < 0)
  BY LogAssumption, RingIndices DEF Ring
<1>3. LogPart
  <2>1. NoRestart /\ WorkerInv
    BY <1>1 DEF NoRestart, WorkerInv
  <2>2. \A i \in Ring : slots[i] = None
    BY <1>1, <1>2
  <2>3. slots[0] = None
    <3>1. 0 \in 0..Size - 1
      BY <1>2
    <3> QED BY <1>1, <3>1
  <2>4. FirstMissing(0)
    BY <1>1, <1>2, <2>3 DEF FirstMissing
  <2>5. 0 \in 0..Size
    BY <1>2
  <2>6. OwnedSlots
    BY <2>2 DEF OwnedSlots
  <2> QED BY <1>1, <2>1, <2>4, <2>5, <2>6 DEF LogPart, LogInOrder
<1>4. ReplicaPart
  <2>1. /\ \A r \in Replicas : /\ applied[r] = <<>> /\ next[r] = 0 /\ end[r] = 0
                               /\ reading[r] = FALSE
        /\ snapshot.index = 0 /\ snapshot.state = <<>> /\ compactor.step = "asleep"
    BY DEF ReplicationInit
  <2>2. InOrderUpTo(<<>>, 0)
    BY EmptyIsSeq DEF InOrderUpTo
  <2>3. ASSUME NEW r \in Replicas PROVE ReplicaInOrder(r)
    <3>1. Holds(r)
      BY <1>2, <2>1 DEF Holds
    <3> QED BY <1>1, <2>1, <2>2, <3>1 DEF ReplicaInOrder
  <2>4. CompactionInOrder
    BY <1>1, <2>1, <2>2 DEF CompactionInOrder
  <2> QED BY <2>3, <2>4 DEF ReplicaPart
<1> QED BY <1>3, <1>4 DEF RepInv

LEMMA ReplicationInvariant ==
  ReplicationSpec => [](LogTypes /\ Roles /\ ReplicaTypes /\ RepInv)
<1>1. ReplicationInit => RepInv
  BY InitInOrder
<1>2. /\ LogTypes /\ Roles /\ ReplicaTypes /\ RepInv
      /\ [ReplicationNext]_replicationVars
      => RepInv'
  BY NextInOrder
<1>3. ReplicationSpec => [](LogTypes /\ Roles /\ ReplicaTypes)
  BY ReplicationTypesHold
<1> QED BY <1>1, <1>2, <1>3, PTL DEF ReplicationSpec

\* No entry is applied twice or out of order, neither by replay nor by a
\* snapshot followed by the replay of what it holds already.
THEOREM AppliedInOrderHolds == ReplicationSpec => []AppliedInOrder
<1>1. LogTypes /\ Roles /\ ReplicaTypes /\ RepInv => AppliedInOrder
  <2> SUFFICES ASSUME ReplicaTypes, RepInv, Careful,
                      NEW r \in Replicas, NEW j \in DOMAIN applied[r],
                      NEW k \in DOMAIN applied[r], j < k
               PROVE  applied[r][j].index < applied[r][k].index
    BY DEF AppliedInOrder
  <2>1. InOrderUpTo(applied[r], next[r])
    BY DEF RepInv, OneWorker, Careful, ReplicaPart, ReplicaInOrder
  <2>2. DOMAIN applied[r] = 1..Len(applied[r])
    BY ReplicaNumbers
  <2> QED BY <2>1, <2>2 DEF InOrderUpTo
<1> QED BY <1>1, ReplicationInvariant, PTL

-----------------------------------------------------------------------------
(* Without compaction a replica holds the entries up to its cursor, each   *)
(* one at the place of its index: next[r] of them, and so the same as any   *)
(* replica with the same cursor.                                           *)

Whole(r) ==
  /\ Len(applied[r]) = next[r]
  /\ \A k \in 1..Len(applied[r]) : applied[r][k] = slots[k - 1]
WholeInv ==
  OneWorker /\ Untruncated =>
    /\ cut = 0 /\ snapshot.index = 0
    /\ NotWrapped => \A r \in Replicas : Whole(r)

LEMMA ReplayWhole ==
  ASSUME LogTypes, ReplicaTypes, LogPart, NotWrapped, cut = 0, snapshot.index = 0,
         NEW r \in Replicas, ReplicaInOrder(r), Whole(r), UNCHANGED slots,
         BeginRange(r) \/ LookUp(r) \/ ApplyEntry(r) \/ InstallSnapshot(r)
  PROVE  Whole(r)'
<1>1. /\ next[r] <= commitIndex /\ end[r] <= commitIndex
      /\ reading[r] => next[r] < end[r]
  BY DEF ReplicaInOrder
<1>2. /\ applied \in [Replicas -> Seq(Contents)]
      /\ next \in [Replicas -> Nat] /\ end \in [Replicas -> Nat]
      /\ reading \in [Replicas -> BOOLEAN]
  BY DEF ReplicaTypes
<1>3. next[r] \in Nat /\ end[r] \in Nat /\ commitIndex \in Nat /\ total \in Nat
  BY <1>2, LogNumbers
<1>4. commitIndex <= total /\ \E f \in 0..Size : FirstMissing(f)
  BY DEF LogPart, LogInOrder
<1>5. CASE BeginRange(r)
  BY <1>5 DEF BeginRange, Whole
<1>6. CASE LookUp(r)
  <2>1. next[r] < total
    <3>1. next[r] < end[r]
      BY <1>6 DEF LookUp
    <3> QED BY <1>1, <1>3, <1>4, <3>1
  <2> QED BY <1>6, <2>1 DEF LookUp, Whole
<1>7. CASE ApplyEntry(r)
  <2> DEFINE n == next[r]
             e == slots[n]
             s == applied[r]
  <2>1. n < end[r] /\ n < commitIndex
    <3>1. n < end[r]
      BY <1>1, <1>7 DEF ApplyEntry
    <3> QED BY <1>1, <1>3, <3>1
  <2>2. n < Size /\ Slot(n) = n /\ n \in Ring
    <3>1. commitIndex <= Size
      BY DEF NotWrapped
    <3>2. n < Size
      BY <1>3, <2>1, <3>1, LogNumbers
    <3> QED BY <1>3, <3>2, SlotBelowSize DEF Ring
  <2>3. e # None
    <3>1. PICK f \in 0..Size : FirstMissing(f)
      BY <1>4
    <3>2. n < f
      BY <1>3, <2>1, <3>1 DEF FirstMissing
    <3>3. e.index = n
      BY <1>3, <2>2, <3>1, <3>2 DEF FirstMissing
    <3>4. n # -1
      BY <1>3
    <3> QED BY <3>3, <3>4 DEF None
  <2>4. next'[r] = n + 1 /\ applied'[r] = Append(s, e)
    BY <1>2, <1>7, <2>2, <2>3 DEF ApplyEntry
  <2>5. s \in Seq(Contents) /\ e \in Contents /\ Len(s) = n
        /\ \A k \in 1..Len(s) : s[k] = slots[k - 1]
    BY <1>2, <1>3, <2>2, SlotTyped DEF Whole
  <2> HIDE DEF s
  <2>6. /\ Len(Append(s, e)) = n + 1
        /\ \A k \in 1..n : Append(s, e)[k] = s[k]
        /\ Append(s, e)[n + 1] = e
    BY <2>5
  <2>7. \A k \in 1..n + 1 : Append(s, e)[k] = slots[k - 1]
    <3> TAKE k \in 1..n + 1
    <3>1. CASE k \in 1..n
      BY <2>5, <2>6, <3>1
    <3>2. CASE k = n + 1
      <4>1. k - 1 = n
        BY <1>3, <3>2
      <4> QED BY <2>6, <3>2, <4>1
    <3>3. n \in Nat
      BY <1>3
    <3> HIDE DEF n, e
    <3>4. k \in 1..n \/ k = n + 1
      BY <3>3
    <3> QED BY <3>1, <3>2, <3>4
  <2>8. /\ Len(applied'[r]) = next'[r]
        /\ \A k \in 1..Len(applied'[r]) : applied'[r][k] = slots[k - 1]
    BY <2>4, <2>6, <2>7
  <2> QED BY <2>8 DEF Whole
<1>8. CASE InstallSnapshot(r)
  <2>1. snapshot.index > next[r]
    BY <1>8 DEF InstallSnapshot
  <2> QED BY <1>3, <2>1
<1> QED BY <1>5, <1>6, <1>7, <1>8

LEMMA NextWhole ==
  ASSUME LogTypes, Roles, ReplicaTypes, RepInv, WholeInv, [ReplicationNext]_replicationVars
  PROVE  WholeInv'
<1>1. UNCHANGED workload
  BY DEF ReplicationNext, replicationVars, logVars
<1>2. SUFFICES ASSUME OneWorker', Untruncated
               PROVE  /\ cut' = 0 /\ snapshot'.index = 0
                      /\ NotWrapped' => \A r \in Replicas : Whole(r)'
  BY <1>1 DEF WholeInv, Untruncated
<1>3. OneAtWork /\ ~restarted'
  BY <1>1, <1>2 DEF OneWorker, OneAtWork
<1>4. ~restarted => /\ LogPart /\ ReplicaPart /\ cut = 0 /\ snapshot.index = 0
                    /\ NotWrapped => \A r \in Replicas : Whole(r)
  BY <1>2, <1>3 DEF RepInv, OneWorker, OneAtWork, WholeInv
<1>5. CASE UNCHANGED replicationVars
  BY <1>3, <1>4, <1>5 DEF replicationVars, logVars, counters, locals, history, replicaVars,
     compactorVars, NotWrapped, Whole
<1>6. CASE /\ LogStep
           /\ restarted' = (restarted \/ \E t \in Threads : pc'[t] = "reset total")
           /\ UNCHANGED <<replicaVars, compactorVars>>
  <2>1. ~restarted /\ \A t \in Threads : pc'[t] # "reset total"
    BY <1>3, <1>6
  <2>2. /\ LogPart /\ ReplicaPart /\ cut = 0 /\ snapshot.index = 0
        /\ NotWrapped => \A r \in Replicas : Whole(r)
    BY <1>4, <2>1
  <2>3. LogMoves
    BY <1>3, <1>6, <2>1, <2>2, LogStepInOrder
  <2>4. cut' = cut
    BY <1>2, <1>6 DEF Untruncated, LogStep, Claim, WriteSlot, CountEntry, Commit, CheckSlot,
       StoreCommit, history
  <2>5. ASSUME NotWrapped', NEW r \in Replicas PROVE Whole(r)'
    <3>1. NotWrapped /\ \A i \in Ring : cut' <= i /\ i < commitIndex => slots'[i] = slots[i]
      BY <2>3, <2>5 DEF LogMoves
    <3>2. Whole(r) /\ next[r] <= commitIndex /\ commitIndex <= Size
      BY <2>2, <3>1 DEF ReplicaPart, ReplicaInOrder, NotWrapped
    <3>3. UNCHANGED <<applied, next>>
      BY <1>6 DEF replicaVars
    <3>4. /\ next[r] \in Nat /\ commitIndex \in Nat /\ Size \in Nat
      BY ReplicaNumbers, LogNumbers
    <3>5. \A k \in 1..Len(applied[r]) : slots'[k - 1] = slots[k - 1]
      <4> TAKE k \in 1..Len(applied[r])
      <4>1. k \in 1..next[r]
        BY <3>2 DEF Whole
      <4>2. k - 1 \in Ring /\ 0 <= k - 1 /\ k - 1 < commitIndex
        BY <3>2, <3>4, <4>1 DEF Ring
      <4> QED BY <2>2, <2>4, <3>1, <4>2
    <3> QED BY <3>2, <3>3, <3>5 DEF Whole
  <2>6. snapshot' = snapshot
    BY <1>6 DEF compactorVars
  <2> QED BY <2>2, <2>4, <2>5, <2>6
<1>7. CASE ReplicaStep /\ LogUnchanged /\ UNCHANGED <<compactorVars, restarted>>
  <2>1. /\ LogPart /\ ReplicaPart /\ cut = 0 /\ snapshot.index = 0
        /\ NotWrapped => \A r \in Replicas : Whole(r)
    BY <1>3, <1>4, <1>7
  <2>2. UNCHANGED <<slots, writeIndex, commitIndex, cut, snapshot>>
    BY <1>7 DEF LogUnchanged, counters, history, compactorVars
  <2>3. ASSUME NotWrapped', NEW s \in Replicas PROVE Whole(s)'
    <3>1. NotWrapped
      BY <2>2, <2>3 DEF NotWrapped
    <3>2. PICK r \in Replicas : BeginRange(r) \/ LookUp(r) \/ ApplyEntry(r) \/ InstallSnapshot(r)
      BY <1>7 DEF ReplicaStep
    <3>3. CASE s = r
      BY <2>1, <2>2, <3>1, <3>2, <3>3, ReplayWhole DEF ReplicaPart
    <3>4. CASE s # r
      <4>1. applied'[s] = applied[s] /\ next'[s] = next[s]
        BY <3>2, <3>4 DEF BeginRange, LookUp, ApplyEntry, InstallSnapshot, ReplicaTypes
      <4> QED BY <2>1, <2>2, <3>1, <4>1 DEF Whole
    <3> QED BY <3>3, <3>4
  <2> QED BY <2>1, <2>2, <2>3
<1> QED BY <1>1, <1>2, <1>5, <1>6, <1>7
        DEF ReplicationNext, ReplicaStep, LogUnchanged, Untruncated

LEMMA SpecWholeInv == ReplicationSpec => []WholeInv
<1>1. ReplicationInit => WholeInv
  BY EmptyIsSeq DEF ReplicationInit, LogInit, WholeInv, Whole
<1>2. /\ LogTypes /\ Roles /\ ReplicaTypes /\ RepInv /\ WholeInv
      /\ [ReplicationNext]_replicationVars
      => WholeInv'
  BY NextWhole
<1> QED BY <1>1, <1>2, ReplicationInvariant, PTL DEF ReplicationSpec

\* A whole replica is the log up to its cursor.
LEMMA WholeIsPrefix ==
  ASSUME ReplicaTypes, NEW r \in Replicas, Whole(r)
  PROVE  applied[r] = [k \in 1..next[r] |-> slots[k - 1]]
<1>1. applied[r] \in Seq(Contents)
  BY ReplicaNumbers
<1> QED BY <1>1 DEF Whole

\* A replica holds every committed entry behind its cursor that compaction has
\* not cleared, and without compaction these alone: apply_range skips none, for
\* any replicas, ring and number of entries, failed appends and refused commits,
\* whatever snapshots are taken, installed and truncated meanwhile.
THEOREM ReplicasHoldCommittedHolds == ReplicationSpec => []ReplicasHoldCommitted
<1>1. LogTypes /\ Roles /\ ReplicaTypes /\ RepInv /\ WholeInv => ReplicasHoldCommitted
  <2> SUFFICES ASSUME LogTypes, ReplicaTypes, RepInv, WholeInv, Careful, NEW r \in Replicas
               PROVE  /\ \A i \in cut..next[r] - 1 :
                           \E k \in DOMAIN applied[r] : applied[r][k] = slots[Slot(i)]
                      /\ workload.truncate = {} => applied[r] = [k \in 1..next[r] |-> slots[k - 1]]
    BY DEF ReplicasHoldCommitted
  <2>1. ReplicaInOrder(r) /\ commitIndex <= Size
    BY DEF RepInv, OneWorker, Careful, ReplicaPart, NotWrapped
  <2>2. /\ next[r] \in Nat /\ commitIndex \in Nat /\ cut \in Nat /\ Size \in Nat
        /\ applied[r] \in Seq(Contents)
    BY LogNumbers, ReplicaNumbers
  <2>3. ASSUME NEW i \in cut..next[r] - 1
        PROVE  \E k \in DOMAIN applied[r] : applied[r][k] = slots[Slot(i)]
    <3>1. i \in Nat /\ cut <= i /\ i < next[r] /\ i < Size
      BY <2>1, <2>2 DEF ReplicaInOrder
    <3>2. Slot(i) = i /\ i \in Ring
      BY <3>1, SlotBelowSize DEF Ring
    <3>3. PICK k \in 1..Len(applied[r]) : applied[r][k] = slots[i]
      BY <2>1, <3>1, <3>2 DEF ReplicaInOrder, Holds
    <3>4. DOMAIN applied[r] = 1..Len(applied[r])
      BY <2>2
    <3> QED BY <3>2, <3>3, <3>4
  <2>4. ASSUME workload.truncate = {} PROVE applied[r] = [k \in 1..next[r] |-> slots[k - 1]]
    <3>1. Whole(r)
      BY <2>4 DEF WholeInv, Untruncated, Careful, OneWorker
    <3> QED BY <3>1, WholeIsPrefix
  <2> QED BY <2>3, <2>4
<1> QED BY <1>1, SpecWholeInv, ReplicationInvariant, PTL

\* "... via the Raft log, ensuring all nodes maintain identical state": with one
\* thread that appends and commits, on a log that is not compacted and has not
\* wrapped, replicas that replayed the same range hold the same entries, for
\* any replicas and any interleaving of their replays (apply_range).
THEOREM CarefulReplicasAreIdentical ==
  ReplicationSpec => [](Careful /\ workload.truncate = {} => ReplicasIdentical)
<1>1. LogTypes /\ Roles /\ ReplicaTypes /\ RepInv /\ WholeInv
      => (Careful /\ workload.truncate = {} => ReplicasIdentical)
  <2> SUFFICES ASSUME ReplicaTypes, WholeInv, Careful, workload.truncate = {},
                      NEW r \in Replicas, NEW s \in Replicas, next[r] = next[s]
               PROVE  applied[r] = applied[s]
    BY DEF ReplicasIdentical
  <2>1. Whole(r) /\ Whole(s)
    BY DEF WholeInv, Untruncated, Careful, OneWorker
  <2> QED BY <2>1, WholeIsPrefix
<1> QED BY <1>1, SpecWholeInv, ReplicationInvariant, PTL

-----------------------------------------------------------------------------
(* The counters, for any threads and any number of them.  An append counts  *)
(* once: total and the calls still to be counted (InFlight, a set of call   *)
(* numbers, which are claimed once) are no more than the calls there were.  *)

InFlight == {goal[t] : t \in {u \in Threads : Appending(u)}}
CallsClaimed ==
  /\ \A t \in Threads : Appending(t) => 1 <= goal[t] /\ goal[t] <= calls
  /\ \A s, t \in Threads : Appending(s) /\ Appending(t) /\ goal[s] = goal[t] => s = t
CallsCounted == total + Cardinality(InFlight) <= calls
Bounds ==
  /\ calls <= MaxAppends /\ writeIndex <= calls /\ commitIndex <= MaxAppends
  /\ \A t \in Threads : at[t] <= MaxAppends /\ goal[t] <= MaxAppends
  /\ \A i \in 0..Size - 1 : slots[i] = None \/ slots[i] \in Entry
  /\ acked \subseteq Entry
BoundInv == CallsClaimed /\ CallsCounted /\ Bounds

LEMMA InFlightFinite ==
  ASSUME LogTypes, CallsClaimed
  PROVE  IsFiniteSet(InFlight) /\ Cardinality(InFlight) \in Nat /\ calls + 1 \notin InFlight
<1>1. InFlight \subseteq 1..calls
  BY LogNumbers DEF InFlight, CallsClaimed
<1>2. calls \in Nat
  BY DEF LogTypes
<1>3. IsFiniteSet(1..calls)
  BY <1>2, FS_Interval
<1>4. IsFiniteSet(InFlight) /\ Cardinality(InFlight) \in Nat
  BY <1>1, <1>3, FS_Subset, FS_CardinalityType
<1>5. calls + 1 \notin 1..calls
  BY <1>2
<1> QED BY <1>1, <1>4, <1>5

LEMMA FewerInFlight ==
  ASSUME LogTypes, CallsClaimed, CallsCounted, NEW S, S \subseteq InFlight, NEW n \in Nat, n <= total
  PROVE  n + Cardinality(S) <= calls
<1>1. IsFiniteSet(InFlight) /\ Cardinality(InFlight) \in Nat
  BY InFlightFinite
<1>2. Cardinality(S) <= Cardinality(InFlight) /\ Cardinality(S) \in Nat
  BY <1>1, FS_Subset, FS_CardinalityType
<1> QED BY <1>1, <1>2 DEF CallsCounted, LogTypes

LEMMA AppendBounded ==
  ASSUME LogTypes, BoundInv, LogTypes', NEW t \in workload.append,
         Claim(t) \/ WriteSlot(t) \/ CountEntry(t)
  PROVE  BoundInv'
<1> USE LogAssumption
<1>0. t \in Threads
  BY RolesInThreads
<1>1. /\ calls \in Nat /\ writeIndex \in Nat /\ total \in Nat /\ commitIndex \in Nat
      /\ pc \in [Threads -> Pcs] /\ at \in [Threads -> Nat] /\ goal \in [Threads -> Nat]
      /\ slots \in [0..Size - 1 -> [index : Int, call : Int]]
  BY DEF LogTypes
<1>2. CASE Claim(t)
  <2>1. /\ calls < MaxAppends /\ pc[t] = "idle" /\ pc' = [pc EXCEPT ![t] = "write"]
        /\ at' = [at EXCEPT ![t] = writeIndex] /\ goal' = [goal EXCEPT ![t] = calls + 1]
        /\ writeIndex' = writeIndex + 1 /\ calls' = calls + 1
        /\ UNCHANGED <<slots, commitIndex, total, acked>>
    BY <1>2 DEF Claim, Go, Set
  <2>2. \A s \in Threads : IF s = t THEN goal'[s] = calls + 1
                           ELSE goal'[s] = goal[s] /\ (Appending(s)' <=> Appending(s))
    BY <1>1, <2>1 DEF Appending
  <2>3. ~Appending(t) /\ Appending(t)'
    BY <1>0, <1>1, <2>1 DEF Appending
  <2>4. CallsClaimed'
    BY <1>0, <1>1, <2>1, <2>2 DEF CallsClaimed, BoundInv
  <2>5. InFlight' = InFlight \union {calls + 1}
    BY <1>0, <2>2, <2>3 DEF InFlight
  <2>6. Cardinality(InFlight') = Cardinality(InFlight) + 1
    BY <2>5, InFlightFinite, FS_AddElement DEF BoundInv
  <2>7. CallsCounted'
    BY <1>1, <2>1, <2>6, InFlightFinite DEF BoundInv, CallsCounted
  <2>8. Bounds'
    BY <1>0, <1>1, <2>1 DEF BoundInv, Bounds
  <2> QED BY <2>4, <2>7, <2>8 DEF BoundInv
<1>3. CASE WriteSlot(t) \/ CountEntry(t)
  <2>1. /\ pc[t] \in {"write", "count"} /\ \A s \in Threads \ {t} : pc'[s] = pc[s]
        /\ UNCHANGED <<at, goal, calls, writeIndex, commitIndex>>
    BY <1>0, <1>1, <1>3 DEF WriteSlot, CountEntry, Go, counters, history
  <2>2. \A s \in Threads : Appending(s)' => Appending(s)
    BY <2>1 DEF Appending
  <2>3. CallsClaimed'
    BY <2>1, <2>2 DEF BoundInv, CallsClaimed
  <2>4. InFlight' \subseteq InFlight
    BY <2>1, <2>2 DEF InFlight
  <2>5. Pending(t) \in Entry
    BY <1>0, <1>1, <2>1 DEF BoundInv, CallsClaimed, Bounds, Pending, Entry, Appending
  <2>6. CallsCounted'
    <3>1. CASE WriteSlot(t)
      <4>1. total' = total
        BY <3>1 DEF WriteSlot, counters
      <4>2. total \in Nat /\ total <= total
        BY <1>1
      <4>3. total + Cardinality(InFlight') <= calls
        BY <2>4, <4>2, FewerInFlight DEF BoundInv
      <4> QED BY <2>1, <4>1, <4>3 DEF CallsCounted
    <3>2. CASE CountEntry(t)
      <4>1. total' = total + 1 /\ pc' = [pc EXCEPT ![t] = "idle"]
        BY <3>2 DEF CountEntry, Go
      <4>2. ~Appending(t)' /\ Appending(t)
        BY <1>0, <1>1, <2>1, <4>1 DEF Appending
      <4>3. goal[t] \in InFlight /\ goal[t] \notin InFlight'
        <5>1. goal[t] \in InFlight
          BY <1>0, <4>2 DEF InFlight
        <5>2. ASSUME NEW s \in Threads, Appending(s)', goal'[s] = goal[t] PROVE FALSE
          <6>1. s = t
            BY <1>0, <2>1, <2>2, <4>2, <5>2 DEF BoundInv, CallsClaimed
          <6> QED BY <4>2, <5>2, <6>1
        <5> QED BY <5>1, <5>2 DEF InFlight
      <4>4. /\ IsFiniteSet(InFlight \ {goal[t]})
            /\ Cardinality(InFlight \ {goal[t]}) = Cardinality(InFlight) - 1
        BY <4>3, InFlightFinite, FS_RemoveElement DEF BoundInv
      <4>5. InFlight' \subseteq InFlight \ {goal[t]}
        BY <2>4, <4>3
      <4>6. /\ Cardinality(InFlight') <= Cardinality(InFlight) - 1
            /\ Cardinality(InFlight') \in Nat /\ Cardinality(InFlight) \in Nat
        BY <4>4, <4>5, InFlightFinite, FS_Subset, FS_CardinalityType DEF BoundInv
      <4> QED BY <1>1, <2>1, <4>1, <4>6 DEF BoundInv, CallsCounted
    <3> QED BY <1>3, <3>1, <3>2
  <2>7. slots' = slots \/ slots' = [slots EXCEPT ![Slot(at[t])] = Pending(t)]
    BY <1>3 DEF WriteSlot, CountEntry
  <2>8. acked' \subseteq Entry
    BY <1>3, <2>5 DEF WriteSlot, CountEntry, history, BoundInv, Bounds
  <2>9. \A i \in 0..Size - 1 : slots'[i] = None \/ slots'[i] \in Entry
    BY <1>1, <2>5, <2>7 DEF BoundInv, Bounds
  <2>10. Bounds'
    BY <2>1, <2>8, <2>9 DEF BoundInv, Bounds
  <2> QED BY <2>3, <2>6, <2>10 DEF BoundInv
<1> QED BY <1>2, <1>3

\* Threads that commit or truncate leave the calls in flight alone.
LEMMA OthersBounded ==
  ASSUME LogTypes, BoundInv, LogTypes', NEW t \in Threads,
         ~Appending(t), ~Appending(t)',
         \A s \in Threads \ {t} : pc'[s] = pc[s] /\ at'[s] = at[s] /\ goal'[s] = goal[s],
         at'[t] <= MaxAppends, goal'[t] <= MaxAppends,
         calls' = calls, writeIndex' <= writeIndex, total' <= total,
         commitIndex' <= commitIndex \/ commitIndex' <= MaxAppends,
         \A i \in 0..Size - 1 : slots'[i] \in {None, slots[i]}, acked' \subseteq acked
  PROVE  BoundInv'
<1> USE LogAssumption
<1>1. /\ calls \in Nat /\ writeIndex \in Nat /\ total \in Nat /\ commitIndex \in Nat
      /\ writeIndex' \in Nat /\ total' \in Nat /\ commitIndex' \in Nat
  BY DEF LogTypes
<1>2. \A s \in Threads : Appending(s)' <=> Appending(s)
  BY DEF Appending
<1>3. CallsClaimed'
  BY <1>2 DEF BoundInv, CallsClaimed
<1>4. InFlight' \subseteq InFlight
  BY <1>2 DEF InFlight
<1>5. CallsCounted'
  BY <1>1, <1>4, FewerInFlight DEF BoundInv, CallsCounted
<1>6. Bounds'
  BY <1>1 DEF BoundInv, Bounds
<1> QED BY <1>3, <1>5, <1>6 DEF BoundInv

LEMMA BoundedStep ==
  ASSUME LogTypes, Roles, BoundInv, AnyLogStep
  PROVE  BoundInv'
<1> USE LogAssumption
<1>0. LogTypes'
  BY LogTypesKept
<1>1. /\ calls \in Nat /\ writeIndex \in Nat /\ total \in Nat /\ commitIndex \in Nat
      /\ pc \in [Threads -> Pcs] /\ at \in [Threads -> Nat] /\ goal \in [Threads -> Nat]
      /\ slots \in [0..Size - 1 -> [index : Int, call : Int]]
  BY DEF LogTypes
<1>2. ASSUME NEW t \in workload.append, Claim(t) \/ WriteSlot(t) \/ CountEntry(t)
      PROVE  BoundInv'
  BY <1>0, <1>2, AppendBounded
<1>3. total <= MaxAppends
  <2>1. Cardinality(InFlight) \in Nat
    BY InFlightFinite DEF BoundInv
  <2> QED BY <1>1, <2>1 DEF BoundInv, CallsCounted, Bounds
<1>4. ASSUME NEW t \in workload.commit,
             (\E upTo \in 1..MaxAppends : Commit(t, upTo)) \/ CheckSlot(t) \/ StoreCommit(t)
      PROVE  BoundInv'
  <2>0. t \in Threads
    BY RolesInThreads
  <2> USE DEF Commit, CheckSlot, StoreCommit, Go, Set
  <2>1. UNCHANGED <<slots, writeIndex, total, calls, acked>>
    BY <1>4 DEF counters, history
  <2>2. pc[t] \in {"idle", "check"} /\ pc' \in {[pc EXCEPT ![t] = "check"], [pc EXCEPT ![t] = "idle"]}
    BY <1>4
  <2>3. ~Appending(t) /\ ~Appending(t)' /\ \A s \in Threads \ {t} : pc'[s] = pc[s]
    BY <1>1, <2>0, <2>2 DEF Appending
  <2>4. \A s \in Threads \ {t} : at'[s] = at[s] /\ goal'[s] = goal[s]
    BY <1>1, <1>4
  <2>5. at[t] <= MaxAppends /\ goal[t] <= MaxAppends /\ commitIndex <= MaxAppends
    BY <2>0 DEF BoundInv, Bounds
  <2>6. at'[t] <= MaxAppends /\ goal'[t] <= MaxAppends /\ commitIndex' <= MaxAppends
    <3>1. CASE \E upTo \in 1..MaxAppends : Commit(t, upTo)
      BY <1>1, <2>0, <2>5, <3>1 DEF counters
    <3>2. CASE CheckSlot(t)
      BY <1>1, <2>0, <2>5, <3>2 DEF counters
    <3>3. CASE StoreCommit(t)
      BY <1>1, <2>0, <2>5, <3>3
    <3> QED BY <1>4, <3>1, <3>2, <3>3
  <2>7. writeIndex' <= writeIndex /\ total' <= total
    BY <1>1, <2>1
  <2> QED BY <1>0, <2>0, <2>1, <2>3, <2>4, <2>6, <2>7, OthersBounded
<1>5. ASSUME NEW t \in workload.truncate,
             \/ \E index \in Nat : Truncate(t, index)
             \/ ClearSlot(t) \/ EndClear(t) \/ ResetWrite(t) \/ ResetTotal(t) \/ ResetCommit(t)
      PROVE  BoundInv'
  <2>0. t \in Threads
    BY RolesInThreads
  <2> USE DEF Truncate, ClearSlot, EndClear, ResetWrite, ResetTotal, ResetCommit, Go, Set
  <2>1. /\ calls' = calls /\ acked' \subseteq acked
        /\ writeIndex' \in {writeIndex, 0} /\ total' \in {total, 0}
        /\ commitIndex' \in {commitIndex, 0}
    BY <1>5 DEF counters, history
  <2>2. /\ pc[t] \notin {"write", "count"}
        /\ \E step \in Pcs \ {"write", "count"} : pc' = pc \/ pc' = [pc EXCEPT ![t] = step]
    BY <1>5 DEF Pcs
  <2>3. ~Appending(t) /\ ~Appending(t)' /\ \A s \in Threads \ {t} : pc'[s] = pc[s]
    BY <1>1, <2>0, <2>2 DEF Appending
  <2>4. \A s \in Threads \ {t} : at'[s] = at[s] /\ goal'[s] = goal[s]
    BY <1>1, <1>5
  <2>5. at[t] <= MaxAppends /\ goal[t] <= MaxAppends
    BY <2>0 DEF BoundInv, Bounds
  <2>6. at'[t] <= MaxAppends /\ goal'[t] <= MaxAppends
    <3>1. ASSUME NEW index \in Nat, Truncate(t, index)
          PROVE  at'[t] <= MaxAppends /\ goal'[t] <= MaxAppends
      <4>1. at' = [at EXCEPT ![t] = 0]
            /\ goal' = [goal EXCEPT ![t] = IF index < total THEN index ELSE total]
        BY <3>1
      <4>2. (IF index < total THEN index ELSE total) <= MaxAppends
        BY <1>1, <1>3
      <4> QED BY <1>1, <2>0, <4>1, <4>2
    <3>2. CASE ClearSlot(t)
      <4>1. at' = [at EXCEPT ![t] = at[t] + 1] /\ goal' = goal /\ at[t] < goal[t]
        BY <3>2
      <4>2. at'[t] = at[t] + 1 /\ at[t] \in Nat /\ goal[t] \in Nat
        BY <1>1, <2>0, <4>1
      <4> QED BY <2>5, <4>1, <4>2
    <3>3. CASE EndClear(t) \/ ResetWrite(t) \/ ResetTotal(t) \/ ResetCommit(t)
      BY <2>5, <3>3
    <3> QED BY <1>5, <3>1, <3>2, <3>3
  <2>7. \A i \in 0..Size - 1 : slots'[i] \in {None, slots[i]}
    <3>1. slots' = slots \/ slots' = [slots EXCEPT ![Slot(at[t])] = None]
      BY <1>5
    <3> QED BY <1>1, <3>1
  <2>8. writeIndex' <= writeIndex /\ total' <= total /\ commitIndex' <= commitIndex
    BY <1>1, <2>1
  <2> QED BY <1>0, <2>0, <2>1, <2>3, <2>4, <2>6, <2>7, <2>8, OthersBounded
<1> QED BY <1>2, <1>4, <1>5 DEF AnyLogStep, LogStep

LEMMA BoundedTypes ==
  ASSUME LogTypes, BoundInv
  PROVE  LogTypeOK
<1> USE LogAssumption
<1>1. /\ workload \in Workloads
      /\ slots \in [0..Size - 1 -> [index : Int, call : Int]]
      /\ writeIndex \in Nat /\ commitIndex \in Nat /\ total \in Nat /\ calls \in Nat
      /\ pc \in [Threads -> Pcs] /\ at \in [Threads -> Nat] /\ goal \in [Threads -> Nat]
  BY DEF LogTypes
<1>2. total <= MaxAppends
  <2>1. Cardinality(InFlight) \in Nat
    BY InFlightFinite DEF BoundInv
  <2> QED BY <1>1, <2>1 DEF BoundInv, CallsCounted, Bounds
<1>3. /\ writeIndex \in 0..MaxAppends /\ total \in 0..MaxAppends
      /\ commitIndex \in 0..MaxAppends /\ acked \subseteq Entry
  BY <1>1, <1>2 DEF BoundInv, Bounds
<1>4. slots \in [0..Size - 1 -> Entry \union {None}]
  BY <1>1 DEF BoundInv, Bounds
<1>5. at \in [Threads -> 0..MaxAppends] /\ goal \in [Threads -> 0..MaxAppends]
  BY <1>1 DEF BoundInv, Bounds
<1> QED BY <1>1, <1>3, <1>4, <1>5 DEF LogTypeOK, Pcs

LEMMA InitBounded ==
  ASSUME LogInit
  PROVE  BoundInv
<1>1. \A t \in Threads : ~Appending(t)
  BY DEF LogInit, Appending
<1>2. InFlight = {}
  BY <1>1 DEF InFlight
<1>3. Cardinality(InFlight) = 0
  BY <1>2, FS_EmptySet
<1> QED BY <1>1, <1>3, LogAssumption DEF LogInit, BoundInv, CallsClaimed, CallsCounted, Bounds

\* The log's counters, slots and threads stay in the states the code names, for
\* any threads that append, commit and truncate at the same time: an append
\* claims an index once and is counted at most once, and no index is committed
\* or cleared beyond what was asked for.
THEOREM LogTypeCorrect == LogSpec => []LogTypeOK
<1>1. LogInit => BoundInv
  BY InitBounded
<1>2. LogTypes /\ Roles /\ BoundInv /\ [LogNext]_logVars => BoundInv'
  <2>1. CASE UNCHANGED logVars
    BY <2>1 DEF logVars, counters, locals, history, BoundInv, CallsClaimed, CallsCounted, Bounds,
       InFlight, Appending
  <2> QED BY <2>1, LogNextIsAnyStep, BoundedStep
<1>3. LogTypes /\ BoundInv => LogTypeOK
  BY BoundedTypes
<1> QED BY <1>1, <1>2, <1>3, LogTypesHold, PTL DEF LogSpec

\* The same for the replicas: their cursors stay behind an index that was
\* committed, and what they and the snapshots hold are entries of the log.
Entries(s) == \A k \in 1..Len(s) : s[k] \in Entry
CursorBounds(r) ==
  /\ next[r] <= MaxAppends /\ end[r] <= MaxAppends /\ Entries(applied[r])
  /\ reading[r] => next[r] < end[r]
CompactionBounds ==
  /\ compactor.index <= MaxAppends /\ Entries(compactor.state)
  /\ snapshot.index <= MaxAppends /\ Entries(snapshot.state)
ReplicaBounds == CompactionBounds /\ \A r \in Replicas : CursorBounds(r)

LEMMA CursorBounded ==
  ASSUME LogTypes, ReplicaTypes, BoundInv, CompactionBounds, NEW r \in Replicas, CursorBounds(r),
         BeginRange(r) \/ LookUp(r) \/ ApplyEntry(r) \/ InstallSnapshot(r)
  PROVE  CursorBounds(r)'
<1> USE LogAssumption
<1>1. /\ applied \in [Replicas -> Seq(Contents)]
      /\ next \in [Replicas -> Nat] /\ end \in [Replicas -> Nat]
      /\ reading \in [Replicas -> BOOLEAN]
      /\ next[r] \in Nat /\ end[r] \in Nat /\ applied[r] \in Seq(Contents)
  BY DEF ReplicaTypes
<1>2. /\ next[r] <= MaxAppends /\ end[r] <= MaxAppends /\ Entries(applied[r])
      /\ reading[r] => next[r] < end[r]
  BY DEF CursorBounds
<1>3. CASE BeginRange(r)
  <2>1. /\ applied' = applied /\ next' = next /\ reading' = reading /\ end'[r] = commitIndex
        /\ next[r] >= end[r]
    BY <1>1, <1>3 DEF BeginRange
  <2>2. ~reading[r]
    BY <1>1, <1>2, <2>1
  <2>3. commitIndex <= MaxAppends
    BY DEF BoundInv, Bounds
  <2> QED BY <1>2, <2>1, <2>2, <2>3 DEF CursorBounds, Entries
<1>4. CASE LookUp(r)
  <2>1. /\ applied' = applied /\ end' = end /\ next[r] < end[r] /\ ~reading[r]
        /\ \/ next' = next
           \/ reading' = reading /\ next'[r] = next[r] + 1
    BY <1>1, <1>4 DEF LookUp
  <2>2. next'[r] <= MaxAppends
    BY <1>1, <1>2, <2>1
  <2>3. reading'[r] => next'[r] < end[r]
    BY <2>1
  <2> QED BY <1>2, <2>1, <2>2, <2>3 DEF CursorBounds, Entries
<1>5. CASE ApplyEntry(r)
  <2> DEFINE e == slots[Slot(next[r])]
  <2>1. /\ end' = end /\ next'[r] = next[r] + 1 /\ reading'[r] = FALSE /\ reading[r]
        /\ applied'[r] = IF e = None THEN applied[r] ELSE Append(applied[r], e)
    BY <1>1, <1>5 DEF ApplyEntry
  <2>2. next'[r] <= MaxAppends
    BY <1>1, <1>2, <2>1
  <2>3. e \in Contents /\ (e = None \/ e \in Entry)
    <3>1. Slot(next[r]) \in 0..Size - 1
      BY <1>1, SlotInRing
    <3> QED BY <1>1, <3>1, SlotTyped DEF BoundInv, Bounds
  <2> HIDE DEF e
  <2>4. Entries(applied'[r])
    <3>1. CASE e = None
      BY <1>2, <2>1, <3>1
    <3>2. CASE e # None
      <4>1. applied'[r] = Append(applied[r], e) /\ e \in Entry
        BY <2>1, <2>3, <3>2
      <4>2. /\ Len(applied'[r]) = Len(applied[r]) + 1 /\ Len(applied[r]) \in Nat
            /\ applied'[r][Len(applied[r]) + 1] = e
            /\ \A k \in 1..Len(applied[r]) : applied'[r][k] = applied[r][k]
        BY <1>1, <2>3, <4>1
      <4> QED BY <1>2, <4>1, <4>2 DEF Entries
    <3> QED BY <3>1, <3>2
  <2> QED BY <1>2, <2>1, <2>2, <2>4 DEF CursorBounds, Entries
<1>6. CASE InstallSnapshot(r)
  <2>1. /\ applied'[r] = snapshot.state /\ next'[r] = snapshot.index
        /\ end' = end /\ reading' = reading /\ next[r] >= end[r]
    BY <1>1, <1>6 DEF InstallSnapshot
  <2>2. ~reading[r]
    BY <1>1, <1>2, <2>1
  <2> QED BY <1>2, <2>1, <2>2 DEF CompactionBounds, CursorBounds, Entries
<1> QED BY <1>3, <1>4, <1>5, <1>6

LEMMA ReplicaBoundedStep ==
  ASSUME LogTypes, Roles, ReplicaTypes, BoundInv, ReplicaBounds,
         [ReplicationNext]_replicationVars
  PROVE  BoundInv' /\ ReplicaBounds'
<1> USE LogAssumption
<1>1. CASE UNCHANGED replicationVars
  <2>1. BoundInv'
    BY <1>1 DEF replicationVars, logVars, counters, locals, history, BoundInv, CallsClaimed,
       CallsCounted, Bounds, InFlight, Appending
  <2>2. ReplicaBounds'
    BY <1>1 DEF replicationVars, replicaVars, compactorVars, ReplicaBounds, CompactionBounds,
       CursorBounds, Entries
  <2> QED BY <2>1, <2>2
<1>2. CASE UNCHANGED workload /\ LogStep /\ UNCHANGED <<replicaVars, compactorVars>>
  <2>1. BoundInv'
    BY <1>2, BoundedStep DEF AnyLogStep
  <2>2. ReplicaBounds'
    BY <1>2 DEF replicaVars, compactorVars, ReplicaBounds, CompactionBounds, CursorBounds, Entries
  <2> QED BY <2>1, <2>2
<1>3. CASE UNCHANGED workload /\ ReplicaStep /\ LogUnchanged /\ UNCHANGED compactorVars
  <2>1. BoundInv'
    BY <1>3 DEF LogUnchanged, counters, locals, history, BoundInv, CallsClaimed,
       CallsCounted, Bounds, InFlight, Appending
  <2>2. PICK r \in Replicas : BeginRange(r) \/ LookUp(r) \/ ApplyEntry(r) \/ InstallSnapshot(r)
    BY <1>3 DEF ReplicaStep
  <2>3. CursorBounds(r)'
    BY <2>2, CursorBounded DEF ReplicaBounds
  <2>4. ASSUME NEW s \in Replicas, s # r PROVE CursorBounds(s)'
    <3>1. /\ applied'[s] = applied[s] /\ next'[s] = next[s]
          /\ end'[s] = end[s] /\ reading'[s] = reading[s]
      BY <2>2, <2>4 DEF BeginRange, LookUp, ApplyEntry, InstallSnapshot, ReplicaTypes
    <3> QED BY <3>1 DEF ReplicaBounds, CursorBounds, Entries
  <2>5. CompactionBounds'
    BY <1>3 DEF compactorVars, ReplicaBounds, CompactionBounds, Entries
  <2> QED BY <2>1, <2>3, <2>4, <2>5 DEF ReplicaBounds
<1>4. CASE UNCHANGED workload /\ CompactorStep /\ LogUnchanged /\ UNCHANGED <<replicaVars, snapshot>>
  <2>1. BoundInv'
    BY <1>4 DEF LogUnchanged, counters, locals, history, BoundInv, CallsClaimed,
       CallsCounted, Bounds, InFlight, Appending
  <2>2. \A r \in Replicas : CursorBounds(r)'
    BY <1>4 DEF replicaVars, ReplicaBounds, CursorBounds, Entries
  <2>3. compactor'.index <= MaxAppends /\ Entries(compactor'.state)
    <3>1. ASSUME NEW r \in Replicas, TakeState(r)
          PROVE  compactor'.index <= MaxAppends /\ Entries(compactor'.state)
      BY <3>1 DEF TakeState, ReplicaBounds, CursorBounds, Entries
    <3>2. ASSUME NEW r \in Replicas, CompactUpTo(r)
          PROVE  compactor'.index <= MaxAppends /\ Entries(compactor'.state)
      BY <3>2 DEF CompactUpTo, ReplicaBounds, CursorBounds, Entries
    <3>3. ASSUME CreateSnapshot
          PROVE  compactor'.index <= MaxAppends /\ Entries(compactor'.state)
      <4>1. compactor'.index = commitIndex /\ compactor'.state = compactor.state
        BY <3>3 DEF CreateSnapshot, ReplicaTypes
      <4> QED BY <4>1 DEF BoundInv, Bounds, ReplicaBounds, CompactionBounds, Entries
    <3> QED BY <1>4, <3>1, <3>2, <3>3 DEF CompactorStep
  <2> QED BY <1>4, <2>1, <2>2, <2>3 DEF ReplicaBounds, CompactionBounds, Entries
<1>5. ASSUME UNCHANGED workload, NEW t \in workload.truncate, Compact(t), UNCHANGED replicaVars
      PROVE  BoundInv' /\ ReplicaBounds'
  <2>1. PICK n \in Nat : n = compactor.index
    BY ReplicaNumbers
  <2>2. Truncate(t, n)
    BY <1>5, <2>1 DEF Compact, Truncate
  <2>3. AnyLogStep
    BY <1>5, <2>2 DEF AnyLogStep
  <2>4. BoundInv'
    BY <2>3, BoundedStep
  <2>5. /\ snapshot'.index = compactor.index /\ snapshot'.state = compactor.state
        /\ compactor'.index = 0 /\ compactor'.state = <<>>
    BY <1>5 DEF Compact
  <2>6. CompactionBounds'
    BY <2>5, EmptyIsSeq DEF ReplicaBounds, CompactionBounds, Entries
  <2>7. \A r \in Replicas : CursorBounds(r)'
    BY <1>5 DEF replicaVars, ReplicaBounds, CursorBounds, Entries
  <2> QED BY <2>4, <2>6, <2>7 DEF ReplicaBounds
<1> QED BY <1>1, <1>2, <1>3, <1>4, <1>5
        DEF ReplicationNext, ReplicaStep, CompactorStep, LogUnchanged

LEMMA InitReplicaBounded ==
  ASSUME ReplicationInit PROVE BoundInv /\ ReplicaBounds
<1>1. BoundInv
  BY InitBounded DEF ReplicationInit
<1>2. ReplicaBounds
  BY EmptyIsSeq, LogAssumption
     DEF ReplicationInit, ReplicaBounds, CompactionBounds, CursorBounds, Entries
<1> QED BY <1>1, <1>2

LEMMA BoundedReplicaTypes ==
  ASSUME LogTypes, ReplicaTypes, BoundInv, ReplicaBounds PROVE ReplicationTypeOK
<1>1. LogTypeOK
  BY BoundedTypes
<1>2. ASSUME NEW r \in Replicas
      PROVE  /\ \A k \in DOMAIN applied[r] : applied[r][k] \in Entry
             /\ next[r] \in 0..MaxAppends /\ end[r] \in 0..MaxAppends
  <2>1. DOMAIN applied[r] = 1..Len(applied[r]) /\ next[r] \in Nat /\ end[r] \in Nat
    BY ReplicaNumbers
  <2> QED BY <2>1, LogAssumption DEF ReplicaBounds, CursorBounds, Entries
<1>3. /\ reading \in [Replicas -> BOOLEAN]
      /\ compactor.step \in {"asleep", "label", "truncate"}
  BY DEF ReplicaTypes, Steps
<1>4. snapshot.index \in 0..MaxAppends
  BY ReplicaNumbers, LogAssumption DEF ReplicaBounds, CompactionBounds
<1> QED BY <1>1, <1>2, <1>3, <1>4 DEF ReplicationTypeOK

\* The log under its replicas, their cursors and what they applied, and the
\* snapshots stay in the states the code names, for any replicas and threads.
THEOREM ReplicationTypeCorrect == ReplicationSpec => []ReplicationTypeOK
<1>1. ReplicationInit => BoundInv /\ ReplicaBounds
  BY InitReplicaBounded
<1>2. /\ LogTypes /\ Roles /\ ReplicaTypes /\ BoundInv /\ ReplicaBounds
      /\ [ReplicationNext]_replicationVars
      => (BoundInv /\ ReplicaBounds)'
  BY ReplicaBoundedStep
<1>3. LogTypes /\ ReplicaTypes /\ BoundInv /\ ReplicaBounds => ReplicationTypeOK
  BY BoundedReplicaTypes
<1> QED BY <1>1, <1>2, <1>3, ReplicationTypesHold, PTL DEF ReplicationSpec
=============================================================================
