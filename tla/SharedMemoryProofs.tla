------------------------ MODULE SharedMemoryProofs ------------------------
(***************************************************************************)
(* Proofs about the mechanisms whose steps are single accesses to memory   *)
(* that threads share and that decide who may act: the authority gate      *)
(* (LeaseGate), the fencer (StonithFencer), the live-fire gate (LiveFire)  *)
(* and the reclaimer of what readers may hold (EpochReclaimer).  They have *)
(* nothing in common; each part has an invariant and theorems of its own.  *)
(* The types of the module that puts them side by side come last, those of *)
(* the order queue from OrderQueueProofs.                                  *)
(***************************************************************************)
EXTENDS MCSharedMemory, OrderQueueProofs, FiniteSetTheorems, TLAPS

-----------------------------------------------------------------------------
(***************************************************************************)
(* LeaseGate: the authority gate, for any number of signers, keepers and   *)
(* tokens and any bounds.                                                  *)
(*                                                                         *)
(* LeaseTypeInv adds to the type invariant that whatever holds a token     *)
(* holds an issued one.  LeaseGateInv explains the unlocked read of        *)
(* signing_enabled: it agrees with the slot whenever the write lock is     *)
(* free, so that a call which begins then on an empty gate is refused at   *)
(* once.  CheckInv says how much of is_valid's question is still open at   *)
(* each of its steps: what the steps to come need in order to pass, the    *)
(* token had when it was taken.  It needs Unrenewed, which a step can only *)
(* take away.                                                              *)
(***************************************************************************)

HasToken == {"locked", "unexpired", "validated", "signed"}

SignerState ==
  [pc : {"idle", "begun", "locked", "unexpired", "validated", "signed", "refused"},
   token : Tokens \union {NoToken}, time : Nat]

SignersHold ==
  \A s \in Signers : signer[s].pc \in HasToken =>
    signer[s].token \in Tokens /\ Issued(signer[s].token)

LeaseTypeInv ==
  /\ LeaseTypeOK
  /\ current # NoToken => Issued(current)
  /\ setting # NoToken => Issued(setting)
  /\ SignersHold
  /\ \A k \in Keepers : keeper[k].pc # "idle" =>
       keeper[k].token \in Tokens /\ Issued(keeper[k].token)

WriterInv ==
  /\ writer = "none" => (signingEnabled <=> current # NoToken)
  /\ writer = "enabling" => current # NoToken
  /\ writer = "disabling" => current = NoToken

LeaseGateInv ==
  /\ WriterInv
  /\ \A s \in Signers : cleared[s] => signer[s].pc = "refused"

SignerChecked(s) ==
  LET t == signer[s].token IN
  /\ signer[s].pc = "locked" /\ signer[s].time < expiresAt[t] /\ ~revoked[t] => wasValid[s]
  /\ signer[s].pc = "unexpired" /\ ~revoked[t] => wasValid[s]
  /\ Validated(s) => wasValid[s]

CheckInv == Unrenewed => \A s \in Signers : SignerChecked(s)

-----------------------------------------------------------------------------
(* Types.                                                                  *)

\* The history variable keeps its type, whatever the step.
LEMMA ObserveType ==
  ASSUME Observe PROVE wasValid' \in [Signers -> BOOLEAN]
<1>1. \A s \in Signers :
        (\/ wasValid[s] /\ signer'[s].pc # "idle"
         \/ LET t == signer'[s].token IN
            t # NoToken /\ ~revoked'[t] /\ now' < expiresAt'[t]) \in BOOLEAN
  OBVIOUS
<1> QED BY <1>1 DEF Observe

\* Initially nothing is issued and nothing holds a token.
LEMMA InitLeaseTypeInv == LeaseInit => LeaseTypeInv
<1> SUFFICES ASSUME LeaseInit PROVE LeaseTypeInv
  OBVIOUS
<1>1. signer \in [Signers -> SignerState] /\ SignersHold
  BY DEF LeaseInit, SignerState, SignersHold, HasToken
<1>2. /\ keeper \in [Keepers -> [pc : {"idle", "load", "store", "bump"},
                              token : Tokens \union {NoToken}, expiry : Nat]]
      /\ \A k \in Keepers : keeper[k].pc = "idle"
  BY DEF LeaseInit
<1> QED BY <1>1, <1>2 DEF LeaseInit, LeaseTypeInv, LeaseTypeOK, SignerState

\* A signer's step changes its own state and the history only.
LEMMA SignerStepType ==
  ASSUME LeaseTypeInv, SignerStep, cleared' \in [Signers -> BOOLEAN],
         signer' \in [Signers -> SignerState], SignersHold'
  PROVE  LeaseTypeInv'
<1>1. wasValid' \in [Signers -> BOOLEAN]
  BY ObserveType DEF SignerStep
<1> QED BY <1>1 DEF LeaseTypeInv, LeaseTypeOK, SignerState, Issued, SignerStep, gateVars, tokenVars

\* Every step keeps the types and hands around issued tokens only.
LEMMA NextLeaseTypeInv == LeaseTypeInv /\ [LeaseNext]_leaseVars => LeaseTypeInv'
<1> SUFFICES ASSUME LeaseTypeInv, [LeaseNext]_leaseVars PROVE LeaseTypeInv'
  OBVIOUS
<1> USE LeaseAssumption
<1>a. CASE Observe
  <2>w. wasValid' \in [Signers -> BOOLEAN]
    BY <1>a, ObserveType
  <2>1. ASSUME NEW t \in Tokens, IssueToken(t) PROVE LeaseTypeInv'
    BY <2>1, <2>w DEF LeaseTypeInv, LeaseTypeOK, SignersHold, HasToken, Issued, IssueToken, TokenStep, gateVars
  <2>2. ASSUME NEW t \in Tokens, Revoke(t) PROVE LeaseTypeInv'
    BY <2>2, <2>w DEF LeaseTypeInv, LeaseTypeOK, SignersHold, HasToken, Issued, Revoke, TokenStep, gateVars
  <2>3. ASSUME NEW t \in Tokens, SetTokenCheck(t) PROVE LeaseTypeInv'
    BY <2>3, <2>w DEF LeaseTypeInv, LeaseTypeOK, SignersHold, HasToken, Issued, SetTokenCheck, GateStep, tokenVars
  <2>4. CASE SetTokenStore
    BY <2>4, <2>w DEF LeaseTypeInv, LeaseTypeOK, SignersHold, HasToken, Issued, SetTokenStore, GateStep, tokenVars
  <2>5. CASE ClearTokenStore
    BY <2>5, <2>w DEF LeaseTypeInv, LeaseTypeOK, SignersHold, HasToken, Issued, ClearTokenStore,
      GateStep, tokenVars
  <2>6. CASE StoreEnabled
    BY <2>6, <2>w DEF LeaseTypeInv, LeaseTypeOK, SignersHold, HasToken, Issued, StoreEnabled, GateStep, tokenVars
  <2>7. CASE LeaseTick
    BY <2>7, <2>w DEF LeaseTypeInv, LeaseTypeOK, SignersHold, HasToken, Issued, LeaseTick, gateVars, tokenVars
  <2>8. ASSUME NEW s \in Signers,
               \/ BeginSigning(s) \/ TakeToken(s) \/ CheckExpiry(s)
               \/ CheckRevoked(s) \/ Sign(s) \/ EndSigning(s)
        PROVE  LeaseTypeInv'
    <3>1. CASE BeginSigning(s)
      <4>1. \E at \in {"begun", "refused"} : signer' = [signer EXCEPT ![s].pc = at]
        BY <3>1 DEF BeginSigning, SignerMoves
      <4>2. signer' \in [Signers -> SignerState] /\ SignersHold'
        BY <4>1, <3>1 DEF LeaseTypeInv, LeaseTypeOK, SignersHold, SignerState, HasToken, Issued,
          BeginSigning, SignerStep, tokenVars
      <4>3. cleared' \in [Signers -> BOOLEAN]
        BY <3>1 DEF LeaseTypeInv, LeaseTypeOK, BeginSigning
      <4> QED BY <3>1, <4>2, <4>3, SignerStepType DEF BeginSigning
    <3>2. CASE TakeToken(s)
      <4>1. CASE current = NoToken
        <5>1. signer' = [signer EXCEPT ![s] = [@ EXCEPT !.pc = "refused"]]
          BY <3>2, <4>1 DEF TakeToken
        <5>2. signer' \in [Signers -> SignerState] /\ SignersHold'
          BY <5>1, <3>2 DEF LeaseTypeInv, LeaseTypeOK, SignersHold, SignerState, HasToken, Issued,
            TakeToken, SignerStep, tokenVars
        <5> QED BY <3>2, <5>2, SignerStepType DEF TakeToken, LeaseTypeInv, LeaseTypeOK
      <4>2. CASE current # NoToken
        <5>1. signer' = [signer EXCEPT ![s] = [pc |-> "locked", token |-> current, time |-> now]]
          BY <3>2, <4>2 DEF TakeToken
        <5>2. signer' \in [Signers -> SignerState] /\ SignersHold'
          BY <5>1, <4>2, <3>2 DEF LeaseTypeInv, LeaseTypeOK, SignersHold, SignerState, HasToken, Issued,
            TakeToken, SignerStep, tokenVars
        <5> QED BY <3>2, <5>2, SignerStepType DEF TakeToken, LeaseTypeInv, LeaseTypeOK
      <4> QED BY <4>1, <4>2
    <3>3. CASE CheckExpiry(s) \/ CheckRevoked(s) \/ Sign(s)
      <4>1. /\ signer[s].pc \in HasToken
            /\ \E at \in {"unexpired", "refused", "validated", "signed"} :
                 signer' = [signer EXCEPT ![s].pc = at]
        BY <3>3 DEF CheckExpiry, CheckRevoked, Sign, SignerMoves, HasToken
      <4>2. SignerStep /\ UNCHANGED cleared
        BY <3>3 DEF CheckExpiry, CheckRevoked, Sign
      <4>3. signer' \in [Signers -> SignerState] /\ SignersHold'
        BY <4>1, <4>2 DEF LeaseTypeInv, LeaseTypeOK, SignersHold, SignerState, HasToken, Issued,
          SignerStep, tokenVars
      <4> QED BY <4>2, <4>3, SignerStepType DEF LeaseTypeInv, LeaseTypeOK
    <3>4. CASE EndSigning(s)
      <4>1. signer' \in [Signers -> SignerState] /\ SignersHold'
        BY <3>4 DEF LeaseTypeInv, LeaseTypeOK, SignersHold, SignerState, HasToken, Issued,
          EndSigning, SignerStep, tokenVars
      <4> QED BY <3>4, <4>1, SignerStepType DEF EndSigning, LeaseTypeInv, LeaseTypeOK
    <3> QED BY <2>8, <3>1, <3>2, <3>3, <3>4
  <2>9. ASSUME NEW k \in Keepers, NEW t \in Tokens, RenewCheck(k, t) \/ ExtendCheck(k, t)
        PROVE  LeaseTypeInv'
    BY <2>9, <2>w DEF LeaseTypeInv, LeaseTypeOK, SignersHold, HasToken, Issued, RenewCheck, ExtendCheck, Keep,
      KeeperStep, gateVars
  <2>10. ASSUME NEW k \in Keepers, ExtendLoad(k) \/ StoreExpiry(k) PROVE LeaseTypeInv'
    <3>1. CASE ExtendLoad(k)
      <4>1. /\ keeper[k].token \in Tokens
            /\ expiresAt[keeper[k].token] + Duration \in Nat
        BY <3>1 DEF ExtendLoad, LeaseTypeInv, LeaseTypeOK
      <4> QED
        BY <3>1, <4>1, <2>w DEF LeaseTypeInv, LeaseTypeOK, SignersHold, HasToken, Issued, ExtendLoad, Keep,
          KeeperStep, gateVars
    <3>2. CASE StoreExpiry(k)
      <4>1. keeper[k].token \in Tokens /\ keeper[k].expiry \in Nat
        BY <3>2 DEF StoreExpiry, LeaseTypeInv, LeaseTypeOK
      <4> QED
        BY <3>2, <4>1, <2>w DEF LeaseTypeInv, LeaseTypeOK, SignersHold, HasToken, Issued, StoreExpiry, Keep,
          KeeperStep, gateVars
    <3> QED BY <2>10, <3>1, <3>2
  <2>11. ASSUME NEW k \in Keepers, BumpEpoch(k) PROVE LeaseTypeInv'
    BY <2>11, <2>w DEF LeaseTypeInv, LeaseTypeOK, SignersHold, HasToken, Issued, BumpEpoch, Keep,
      KeeperStep, gateVars
  <2>12. CASE UNCHANGED leaseVars
    BY <2>12 DEF LeaseTypeInv, LeaseTypeOK, SignersHold, HasToken, Issued, leaseVars, gateVars, tokenVars
  <2> QED
    BY <2>1, <2>2, <2>3, <2>4, <2>5, <2>6, <2>7, <2>8, <2>9, <2>10, <2>11, <2>12 DEF LeaseNext
<1>b. CASE UNCHANGED leaseVars
  BY <1>b DEF LeaseTypeInv, LeaseTypeOK, SignersHold, HasToken, Issued, leaseVars, gateVars, tokenVars
<1>c. Observe \/ UNCHANGED leaseVars
  BY DEF LeaseNext, IssueToken, Revoke, SetTokenCheck, SetTokenStore, ClearTokenStore,
    StoreEnabled, LeaseTick, BeginSigning, TakeToken, CheckExpiry, CheckRevoked, Sign, EndSigning,
    RenewCheck, ExtendCheck, ExtendLoad, StoreExpiry, BumpEpoch, TokenStep, GateStep, SignerStep,
    KeeperStep
<1> QED BY <1>a, <1>b, <1>c

\* Every variable of the gate keeps its type, and only issued tokens are held.
THEOREM LeaseTypeCorrect == LeaseSpec => []LeaseTypeInv
BY InitLeaseTypeInv, NextLeaseTypeInv, PTL DEF LeaseSpec

-----------------------------------------------------------------------------
(* A cleared gate.                                                         *)

\* The slot, the flag, the lock and the signers' states are all LeaseGateInv reads.
LEMMA LeaseGateInvKept ==
  ASSUME LeaseGateInv, UNCHANGED <<current, signingEnabled, writer, signer, cleared>>
  PROVE  LeaseGateInv'
BY DEF LeaseGateInv, WriterInv

\* Every step keeps the flag in step with the slot, and refuses a call that
\* began on an empty gate.
LEMMA NextLeaseGateInv == LeaseTypeInv /\ LeaseGateInv /\ [LeaseNext]_leaseVars => LeaseGateInv'
<1> SUFFICES ASSUME LeaseTypeInv, LeaseGateInv, [LeaseNext]_leaseVars PROVE LeaseGateInv'
  OBVIOUS
<1> USE LeaseAssumption
<1>1. ASSUME NEW t \in Tokens, IssueToken(t) \/ Revoke(t) \/ SetTokenCheck(t) PROVE LeaseGateInv'
  BY <1>1, LeaseGateInvKept DEF IssueToken, Revoke, SetTokenCheck, TokenStep, GateStep, gateVars
<1>2. CASE SetTokenStore
  BY <1>2 DEF LeaseGateInv, WriterInv, SetTokenStore, GateStep
<1>3. CASE ClearTokenStore
  BY <1>3 DEF LeaseGateInv, WriterInv, ClearTokenStore, GateStep
<1>4. CASE StoreEnabled
  <2>1. signingEnabled' <=> current' # NoToken
    BY <1>4 DEF StoreEnabled, LeaseGateInv, WriterInv, LeaseTypeInv, LeaseTypeOK
  <2> QED BY <1>4, <2>1 DEF LeaseGateInv, WriterInv, StoreEnabled, GateStep
<1>5. CASE LeaseTick
  BY <1>5, LeaseGateInvKept DEF LeaseTick, gateVars
<1>6. ASSUME NEW s \in Signers, BeginSigning(s) PROVE LeaseGateInv'
  <2>1. cleared'[s] => signer'[s].pc = "refused"
    BY <1>6 DEF LeaseGateInv, WriterInv, BeginSigning, SignerMoves, LeaseTypeInv, LeaseTypeOK
  <2>2. \A r \in Signers \ {s} : cleared'[r] = cleared[r] /\ signer'[r] = signer[r]
    BY <1>6 DEF BeginSigning, SignerMoves, LeaseTypeInv, LeaseTypeOK
  <2> QED BY <1>6, <2>1, <2>2 DEF LeaseGateInv, WriterInv, BeginSigning, SignerStep, gateVars
<1>7. ASSUME NEW s \in Signers,
             TakeToken(s) \/ CheckExpiry(s) \/ CheckRevoked(s) \/ Sign(s)
      PROVE  LeaseGateInv'
  <2>1. signer[s].pc # "refused"
    BY <1>7 DEF TakeToken, CheckExpiry, CheckRevoked, Sign, SignerMoves
  <2>2. \A r \in Signers \ {s} : signer'[r] = signer[r]
    BY <1>7 DEF TakeToken, CheckExpiry, CheckRevoked, Sign, SignerMoves, LeaseTypeInv, LeaseTypeOK
  <2>3. cleared' = cleared /\ SignerStep
    BY <1>7 DEF TakeToken, CheckExpiry, CheckRevoked, Sign
  <2> QED BY <2>1, <2>2, <2>3 DEF LeaseGateInv, WriterInv, SignerStep, gateVars
<1>8. ASSUME NEW s \in Signers, EndSigning(s) PROVE LeaseGateInv'
  <2>1. ~cleared'[s]
    BY <1>8 DEF EndSigning, LeaseTypeInv, LeaseTypeOK
  <2>2. \A r \in Signers \ {s} : cleared'[r] = cleared[r] /\ signer'[r] = signer[r]
    BY <1>8 DEF EndSigning, LeaseTypeInv, LeaseTypeOK
  <2> QED BY <1>8, <2>1, <2>2 DEF LeaseGateInv, WriterInv, EndSigning, SignerStep, gateVars
<1>9. ASSUME NEW k \in Keepers, NEW t \in Tokens, RenewCheck(k, t) \/ ExtendCheck(k, t)
      PROVE  LeaseGateInv'
  BY <1>9, LeaseGateInvKept DEF RenewCheck, ExtendCheck, KeeperStep, gateVars
<1>10. ASSUME NEW k \in Keepers, ExtendLoad(k) \/ StoreExpiry(k) \/ BumpEpoch(k) PROVE LeaseGateInv'
  BY <1>10, LeaseGateInvKept DEF ExtendLoad, StoreExpiry, BumpEpoch, KeeperStep, gateVars
<1>11. CASE UNCHANGED leaseVars
  BY <1>11, LeaseGateInvKept DEF leaseVars, gateVars
<1> QED
  BY <1>1, <1>2, <1>3, <1>4, <1>5, <1>6, <1>7, <1>8, <1>9, <1>10, <1>11 DEF LeaseNext

\* clear_token against execute_with_lease: a call that begins on an empty gate
\* whose lock is free never gets to sign.
THEOREM ClearedIsRefusedHolds == LeaseSpec => []ClearedIsRefused
<1>1. LeaseInit => LeaseGateInv
  BY DEF LeaseInit, LeaseGateInv, WriterInv
<1>2. LeaseGateInv => ClearedIsRefused
  BY DEF LeaseGateInv, ClearedIsRefused, Validated
<1> QED BY InitLeaseTypeInv, NextLeaseTypeInv, NextLeaseGateInv, <1>1, <1>2, PTL DEF LeaseSpec

-----------------------------------------------------------------------------
(* The validity check.                                                     *)

\* Once a lease has been renewed, or a renewal has begun, that remains so.
LEMMA UnrenewedOnlyEnds ==
  ASSUME LeaseTypeInv, LeaseNext, Unrenewed' PROVE Unrenewed
<1> USE DEF Unrenewed
<1>1. ASSUME NEW t \in Tokens, IssueToken(t) PROVE Unrenewed
  <2>1. keeper' = keeper /\ epoch[t] <= 1 /\ \A u \in Tokens \ {t} : epoch'[u] = epoch[u]
    BY <1>1 DEF IssueToken, TokenStep, Issued, LeaseTypeInv, LeaseTypeOK
  <2> QED BY <2>1
<1>2. ASSUME NEW k \in Keepers,
             \/ \E t \in Tokens : RenewCheck(k, t) \/ ExtendCheck(k, t)
             \/ ExtendLoad(k) \/ StoreExpiry(k)
      PROVE  FALSE
  <2>1. keeper'[k].pc # "idle"
    BY <1>2 DEF RenewCheck, ExtendCheck, ExtendLoad, StoreExpiry, Keep, LeaseTypeInv, LeaseTypeOK
  <2> QED BY <2>1
<1>3. ASSUME NEW k \in Keepers, BumpEpoch(k) PROVE FALSE
  <2>1. keeper[k].token \in Tokens /\ epoch[keeper[k].token] >= 1
    BY <1>3 DEF BumpEpoch, LeaseTypeInv, LeaseTypeOK, Issued
  <2>2. epoch'[keeper[k].token] \in Nat /\ epoch'[keeper[k].token] >= 2
    BY <1>3, <2>1 DEF BumpEpoch, LeaseTypeInv, LeaseTypeOK
  <2> QED BY <2>1, <2>2
<1>4. CASE UNCHANGED <<epoch, keeper>>
  BY <1>4
<1> QED
  BY <1>1, <1>2, <1>3, <1>4 DEF LeaseNext, Revoke, SetTokenCheck, SetTokenStore, ClearTokenStore,
    StoreEnabled, LeaseTick, BeginSigning, TakeToken, CheckExpiry, CheckRevoked, Sign, EndSigning,
    TokenStep, GateStep, SignerStep, tokenVars

\* Until then an issued token keeps its expiry and is never unrevoked.
LEMMA IssuedIsSteady ==
  ASSUME LeaseTypeInv, LeaseNext, Unrenewed, NEW t \in Tokens, Issued(t)
  PROVE  expiresAt'[t] = expiresAt[t] /\ (revoked[t] => revoked'[t])
<1>1. ASSUME NEW u \in Tokens, IssueToken(u)
      PROVE  expiresAt'[t] = expiresAt[t] /\ revoked' = revoked
  BY <1>1 DEF IssueToken, LeaseTypeInv, LeaseTypeOK
<1>2. ASSUME NEW u \in Tokens, Revoke(u)
      PROVE  expiresAt' = expiresAt /\ (revoked[t] => revoked'[t])
  BY <1>2 DEF Revoke, LeaseTypeInv, LeaseTypeOK
<1>3. ASSUME NEW k \in Keepers, ExtendLoad(k) \/ StoreExpiry(k) \/ BumpEpoch(k) PROVE FALSE
  BY <1>3 DEF ExtendLoad, StoreExpiry, BumpEpoch, Unrenewed
<1>4. CASE UNCHANGED <<expiresAt, revoked>>
  BY <1>4
<1> QED
  BY <1>1, <1>2, <1>3, <1>4 DEF LeaseNext, SetTokenCheck, SetTokenStore, ClearTokenStore,
    StoreEnabled, LeaseTick, BeginSigning, TakeToken, CheckExpiry, CheckRevoked, Sign, EndSigning,
    RenewCheck, ExtendCheck, GateStep, SignerStep, KeeperStep, tokenVars

\* A call that does not move keeps what it has found.
LEMMA StillChecked ==
  ASSUME LeaseTypeInv, LeaseNext, Unrenewed, Observe,
         NEW s \in Signers, SignerChecked(s), signer'[s] = signer[s]
  PROVE  SignerChecked(s)'
<1>1. CASE signer[s].pc \notin HasToken
  BY <1>1 DEF SignerChecked, HasToken, Validated
<1>2. CASE signer[s].pc \in HasToken
  <2>1. signer[s].token \in Tokens /\ Issued(signer[s].token)
    BY <1>2 DEF LeaseTypeInv, SignersHold
  <2>2. /\ expiresAt'[signer[s].token] = expiresAt[signer[s].token]
        /\ revoked[signer[s].token] => revoked'[signer[s].token]
    BY <2>1, IssuedIsSteady
  <2>3. wasValid[s] => wasValid'[s]
    BY <1>2 DEF Observe, HasToken
  <2> QED BY <2>2, <2>3 DEF SignerChecked, Validated
<1> QED BY <1>1, <1>2

\* Each step of the check answers its part of the question.
LEMMA NextCheckInv == LeaseTypeInv /\ CheckInv /\ [LeaseNext]_leaseVars => CheckInv'
<1> SUFFICES ASSUME LeaseTypeInv, CheckInv, [LeaseNext]_leaseVars PROVE CheckInv'
  OBVIOUS
<1>1. CASE UNCHANGED leaseVars
  BY <1>1 DEF CheckInv, Unrenewed, SignerChecked, Validated, leaseVars, tokenVars
<1>2. CASE LeaseNext
  <2> SUFFICES ASSUME Unrenewed', NEW s \in Signers PROVE SignerChecked(s)'
    BY DEF CheckInv
  <2>1. Unrenewed /\ SignerChecked(s)
    BY <1>2, UnrenewedOnlyEnds DEF CheckInv
  <2>2. Observe
    BY <1>2 DEF LeaseNext, IssueToken, Revoke, SetTokenCheck, SetTokenStore, ClearTokenStore,
      StoreEnabled, LeaseTick, BeginSigning, TakeToken, CheckExpiry, CheckRevoked, Sign,
      EndSigning, RenewCheck, ExtendCheck, ExtendLoad, StoreExpiry, BumpEpoch, TokenStep,
      GateStep, SignerStep, KeeperStep
  <2>3. CASE signer'[s] = signer[s]
    BY <1>2, <2>1, <2>2, <2>3, StillChecked
  <2>4. CASE BeginSigning(s) \/ EndSigning(s)
    BY <2>4 DEF BeginSigning, EndSigning, SignerMoves, SignerChecked, Validated, LeaseTypeInv,
      LeaseTypeOK
  <2>5. CASE TakeToken(s)
    <3>1. CASE current = NoToken
      BY <2>5, <3>1 DEF TakeToken, SignerChecked, Validated, LeaseTypeInv, LeaseTypeOK
    <3>2. CASE current # NoToken
      <4>1. /\ signer'[s] = [pc |-> "locked", token |-> current, time |-> now]
            /\ now' = now /\ expiresAt' = expiresAt /\ revoked' = revoked
        BY <2>5, <3>2 DEF TakeToken, SignerStep, tokenVars, LeaseTypeInv, LeaseTypeOK
      <4>2. now < expiresAt[current] /\ ~revoked[current] => wasValid'[s]
        BY <2>2, <3>2, <4>1 DEF Observe
      <4> QED BY <4>1, <4>2 DEF SignerChecked, Validated
    <3> QED BY <3>1, <3>2
  <2>6. CASE CheckExpiry(s) \/ CheckRevoked(s) \/ Sign(s)
    <3>1. wasValid[s] => wasValid'[s]
      BY <2>2, <2>6 DEF Observe, CheckExpiry, CheckRevoked, Sign, SignerMoves, LeaseTypeInv, LeaseTypeOK
    <3>2. signer'[s].token = signer[s].token /\ UNCHANGED revoked
      BY <2>6 DEF CheckExpiry, CheckRevoked, Sign, SignerMoves, SignerStep, tokenVars, LeaseTypeInv,
        LeaseTypeOK
    <3>3. CASE CheckExpiry(s)
      BY <2>1, <3>1, <3>2, <3>3 DEF CheckExpiry, SignerMoves, SignerChecked, Validated, LeaseTypeInv,
        LeaseTypeOK
    <3>4. CASE CheckRevoked(s)
      BY <2>1, <3>1, <3>2, <3>4 DEF CheckRevoked, SignerMoves, SignerChecked, Validated, LeaseTypeInv,
        LeaseTypeOK
    <3>5. CASE Sign(s)
      BY <2>1, <3>1, <3>2, <3>5 DEF Sign, SignerMoves, SignerChecked, Validated, LeaseTypeInv,
        LeaseTypeOK
    <3> QED BY <2>6, <3>3, <3>4, <3>5
  <2>7. ASSUME NEW r \in Signers, r # s,
               \/ BeginSigning(r) \/ TakeToken(r) \/ CheckExpiry(r)
               \/ CheckRevoked(r) \/ Sign(r) \/ EndSigning(r)
        PROVE  signer'[s] = signer[s]
    BY <2>7 DEF BeginSigning, TakeToken, CheckExpiry, CheckRevoked, Sign, EndSigning, SignerMoves,
      LeaseTypeInv, LeaseTypeOK
  <2>8. CASE UNCHANGED signer
    BY <2>3, <2>8
  <2> QED
    BY <1>2, <2>3, <2>4, <2>5, <2>6, <2>7, <2>8 DEF LeaseNext, IssueToken, Revoke, SetTokenCheck,
      SetTokenStore, ClearTokenStore, StoreEnabled, LeaseTick, RenewCheck, ExtendCheck, ExtendLoad,
      StoreExpiry, BumpEpoch, TokenStep, GateStep, KeeperStep
<1> QED BY <1>1, <1>2

\* LeaderLeaseToken::is_valid reads the clock, the expiry and the flag one after
\* the other; as long as nobody renews, a token that passes was valid at one
\* moment of the call.
THEOREM ValidatedWasValidHolds == LeaseSpec => []ValidatedWasValid
<1>1. LeaseInit => CheckInv
  BY DEF LeaseInit, CheckInv, SignerChecked, Validated
<1>2. CheckInv => ValidatedWasValid
  BY DEF CheckInv, SignerChecked, ValidatedWasValid
<1> QED BY InitLeaseTypeInv, NextLeaseTypeInv, NextCheckInv, <1>1, <1>2, PTL DEF LeaseSpec

-----------------------------------------------------------------------------
(***************************************************************************)
(* StonithFencer for any callers, any finite set of witnesses and any      *)
(* terms: who is reported fenced is dead, or was misjudged by a witness.   *)
(*                                                                         *)
(* The argument: a witness that answered at all, confirming or refusing,   *)
(* leaves a leader that is dead or misjudged (AnswersBury), and a quorum   *)
(* has at least one witness; so everybody past the confirmation, and the   *)
(* term stored for readers, whoever stored it, names such a leader.        *)
(***************************************************************************)

AnswersBury ==
  \A c \in Callers, w \in Witnesses :
    answers[c][w] \in {"fenced", "refused"} => Dead(term[c])

ConfirmedBury ==
  Enabled => \A c \in Callers :
    pc[c] \in {"cleared", "termStored", "fenced"} => Dead(term[c])

StoredBury == Enabled /\ lastFenceTerm # 0 => Dead(lastFenceTerm)

FencerInv == TypeOK /\ AnswersBury /\ ConfirmedBury /\ StoredBury

\* Whoever is dead or misjudged stays so.
LEMMA DeadStays ==
  ASSUME [Next]_vars, NEW t, Dead(t)
  PROVE  Dead(t)'
<1>1. ASSUME NEW c \in Callers, NEW w \in Witnesses, AskWitness(c, w)
      PROVE  Dead(t)'
  BY <1>1 DEF AskWitness, Dead
<1>2. ASSUME UNCHANGED leaders PROVE Dead(t)'
  BY <1>2 DEF leaders, Dead
<1> QED
  BY <1>1, <1>2 DEF Next, vars, Call, ClearFlag, StoreTerm, StoreSuccess,
     StoreFailure, CallAgain, Reset

\* Enough equal answers are at least one.
LEMMA QuorumHasAnswer ==
  ASSUME TypeOK, NEW c \in Callers, NEW a, Count(c, a) >= Required
  PROVE  \E w \in Witnesses : answers[c][w] = a
<1> DEFINE S == {w \in Witnesses : answers[c][w] = a}
<1>1. IsFiniteSet(Witnesses) /\ IsFiniteSet(S)
  BY FencerAssumption, FS_Subset
<1>2. Cardinality(Witnesses) \in Nat /\ Cardinality(S) \in Nat
  BY <1>1, FS_CardinalityType
<1>3. Cardinality(S) # 0
  BY <1>2 DEF Count, Required
<1>4. S # {}
  BY <1>1, <1>3, FS_EmptySet
<1> QED BY <1>4

LEMMA InitFencerInv == Init => FencerInv
<1> SUFFICES ASSUME Init PROVE FencerInv
  OBVIOUS
<1>1. TypeOK
  BY DEF Init, TypeOK, InFlight, Returned, Answers
<1>2. \A c \in Callers, w \in Witnesses : answers[c][w] = "none"
  BY DEF Init
<1>3. \A c \in Callers : pc[c] = "idle"
  BY DEF Init
<1>4. lastFenceTerm = 0
  BY DEF Init
<1> QED
  BY <1>1, <1>2, <1>3, <1>4 DEF FencerInv, AnswersBury, ConfirmedBury, StoredBury

LEMMA NextFencerInv == FencerInv /\ [Next]_vars => FencerInv'
<1> SUFFICES ASSUME FencerInv, [Next]_vars PROVE FencerInv'
  OBVIOUS
<1> USE DEF FencerInv
<1>1. ASSUME NEW c \in Callers, Call(c) PROVE FencerInv'
  <2>1. TypeOK'
    BY <1>1 DEF Call, TypeOK, InFlight, Returned, leaders
  <2>2. AnswersBury' /\ ConfirmedBury' /\ StoredBury'
    BY <1>1, DeadStays DEF Call, TypeOK, AnswersBury, ConfirmedBury, StoredBury
  <2> QED BY <2>1, <2>2
<1>2. ASSUME NEW c \in Callers, NEW w \in Witnesses, AskWitness(c, w) PROVE FencerInv'
  <2>1. TypeOK'
    BY <1>2 DEF AskWitness, TypeOK, Answers
  <2>2. AnswersBury'
    <3> SUFFICES ASSUME NEW d \in Callers, NEW v \in Witnesses,
                        answers'[d][v] \in {"fenced", "refused"}
                 PROVE  Dead(term[d])'
      BY <1>2 DEF AskWitness, AnswersBury
    <3>1. CASE d = c /\ v = w
      BY <1>2, <3>1 DEF AskWitness, TypeOK, Dead
    <3>2. CASE ~(d = c /\ v = w)
      <4>1. answers'[d][v] = answers[d][v] /\ term' = term
        BY <1>2, <3>2 DEF AskWitness, TypeOK
      <4>2. Dead(term[d])
        BY <4>1 DEF AnswersBury
      <4>3. alive' \subseteq alive /\ misjudged \subseteq misjudged'
        BY <1>2 DEF AskWitness
      <4> QED BY <4>1, <4>2, <4>3 DEF Dead
    <3> QED BY <3>1, <3>2
  <2>3. ConfirmedBury' /\ StoredBury'
    BY <1>2, DeadStays DEF AskWitness, ConfirmedBury, StoredBury, Dead
  <2> QED BY <2>1, <2>2, <2>3
<1>3. ASSUME NEW c \in Callers, ClearFlag(c) PROVE FencerInv'
  <2>1. TypeOK'
    BY <1>3 DEF ClearFlag, TypeOK, InFlight, Returned, leaders
  <2>2. Enabled /\ Confirmed(c) => Dead(term[c])
    BY QuorumHasAnswer DEF Confirmed, AnswersBury
  <2>3. AnswersBury' /\ ConfirmedBury' /\ StoredBury'
    BY <1>3, <2>2 DEF ClearFlag, leaders, TypeOK, AnswersBury, ConfirmedBury,
                      StoredBury, Dead
  <2> QED BY <2>1, <2>3
<1>4. ASSUME NEW c \in Callers, StoreTerm(c) \/ StoreSuccess(c) \/ StoreFailure(c)
      PROVE  FencerInv'
  <2>1. TypeOK'
    BY <1>4 DEF StoreTerm, StoreSuccess, StoreFailure, TypeOK, InFlight,
                Returned, leaders
  <2>2. AnswersBury' /\ ConfirmedBury' /\ StoredBury'
    BY <1>4 DEF StoreTerm, StoreSuccess, StoreFailure, leaders, TypeOK,
                AnswersBury, ConfirmedBury, StoredBury, Dead
  <2> QED BY <2>1, <2>2
<1>5. ASSUME NEW c \in Callers, CallAgain(c) PROVE FencerInv'
  <2>1. TypeOK'
    BY <1>5 DEF CallAgain, TypeOK, InFlight, Returned, Answers, leaders
  <2>2. AnswersBury' /\ ConfirmedBury' /\ StoredBury'
    BY <1>5 DEF CallAgain, leaders, TypeOK, AnswersBury, ConfirmedBury,
                StoredBury, Dead
  <2> QED BY <2>1, <2>2
<1>6. CASE Reset
  <2>1. TypeOK'
    BY <1>6 DEF Reset, TypeOK, leaders
  <2>2. AnswersBury' /\ ConfirmedBury' /\ StoredBury'
    BY <1>6 DEF Reset, leaders, AnswersBury, ConfirmedBury, StoredBury, Dead
  <2> QED BY <2>1, <2>2
<1>7. CASE UNCHANGED vars
  BY <1>7 DEF vars, leaders, TypeOK, AnswersBury, ConfirmedBury, StoredBury, Dead
<1> QED BY <1>1, <1>2, <1>3, <1>4, <1>5, <1>6, <1>7 DEF Next

LEMMA SpecFencerInv == Spec => []FencerInv
  BY InitFencerInv, NextFencerInv, PTL DEF Spec

\* A call of an enabled fencer that returns Ok names a leader that is dead,
\* unless a witness misjudged it.
THEOREM FencedIsDeadHolds == Spec => []FencedIsDead
<1>1. FencerInv => FencedIsDead
  BY DEF FencerInv, ConfirmedBury, FencedIsDead
<1> QED BY <1>1, SpecFencerInv, PTL

\* was_fencing_successful never speaks for a leader that lives, however calls
\* and resets interleave their stores.
THEOREM SuccessIsGenuineHolds == Spec => []SuccessIsGenuine
<1>1. FencerInv => SuccessIsGenuine
  BY FencerAssumption
     DEF FencerInv, StoredBury, SuccessIsGenuine, WasFencingSuccessful
<1> QED BY <1>1, SpecFencerInv, PTL

\* The fencer's atomics and its callers stay in the states the code names.
THEOREM FencerTypeCorrect == Spec => []TypeOK
<1>1. FencerInv => TypeOK
  BY DEF FencerInv
<1> QED BY <1>1, SpecFencerInv, PTL

-----------------------------------------------------------------------------
(***************************************************************************)
(* LiveFire for any number of threads and any mix of calls: ends are       *)
(* final, a locked gate refuses, and promotions exclude each other as long *)
(* as nobody aborts one.                                                   *)
(***************************************************************************)

LEMMA InitLiveTypeOK == LiveInit => LiveTypeOK
  BY DEF LiveInit, LiveTypeOK, FsmInit, States, Promoting

LEMMA NextLiveTypeOK == LiveTypeOK /\ [LiveNext]_liveVars => LiveTypeOK'
<1> SUFFICES ASSUME LiveTypeOK, [LiveNext]_liveVars PROVE LiveTypeOK'
  OBVIOUS
<1> USE DEF LiveTypeOK, States, Promoting, Steps, Branch, Transition, CanTransition,
            ValidTransition, gate, liveHistory
<1>1. ASSUME NEW t \in Threads, Boot(t) \/ BootFails(t) \/ BootCompletes(t)
      PROVE  LiveTypeOK'
  BY <1>1 DEF Boot, BootFails, BootCompletes
<1>2. ASSUME NEW t \in Threads, Promote(t) \/ EnterPreFlight(t) \/ GoLive(t)
      PROVE  LiveTypeOK'
  BY <1>2 DEF Promote, EnterPreFlight, GoLive
<1>3. ASSUME NEW t \in Threads,
             ExecuteAllChecks(t) \/ CheckLockdown(t) \/ CheckEnabled(t) \/ OpenGate(t)
      PROVE  LiveTypeOK'
  BY <1>3 DEF ExecuteAllChecks, CheckLockdown, CheckEnabled, OpenGate
<1>4. ASSUME NEW t \in Threads,
             UndoEnable(t) \/ AbortPromotion(t) \/ DisableLive(t) \/ Halt(t)
      PROVE  LiveTypeOK'
  BY <1>4 DEF UndoEnable, AbortPromotion, DisableLive, Halt, Disable
<1>5. ASSUME NEW t \in Threads,
             ReturnToShadow(t) \/ ShutDown(t) \/ Stop(t) \/ Lock(t) \/ ForceHalt(t)
      PROVE  LiveTypeOK'
  BY <1>5 DEF ReturnToShadow, ShutDown, Stop, Lock, ForceHalt, ForceTransition
<1>6. ASSUME NEW t \in Threads, Trade(t) \/ CheckUnlocked(t) \/ EndTrade(t)
      PROVE  LiveTypeOK'
  BY <1>6 DEF Trade, CheckUnlocked, EndTrade
<1>7. CASE UNCHANGED liveVars
  BY <1>7 DEF liveVars
<1> QED BY <1>1, <1>2, <1>3, <1>4, <1>5, <1>6, <1>7 DEF LiveNext

\* Every state of the system is one the code names.
THEOREM LiveTypeCorrect == LiveSpec => []LiveTypeOK
  BY InitLiveTypeOK, NextLiveTypeOK, PTL DEF LiveSpec

-----------------------------------------------------------------------------
\* What a step does to the FSM: nothing, a transition with its rule, or a halt.
LEMMA FsmSteps ==
  ASSUME [LiveNext]_liveVars
  PROVE  \/ fsm' = fsm
         \/ fsm' = "CatastrophicHalt"
         \/ ValidTransition(fsm, fsm')
<1> USE DEF Transition, CanTransition
<1>1. ASSUME NEW t \in Threads,
             \/ BootCompletes(t) \/ EnterPreFlight(t) \/ GoLive(t)
             \/ ReturnToShadow(t) \/ Stop(t)
      PROVE  fsm' = fsm \/ ValidTransition(fsm, fsm')
  BY <1>1 DEF BootCompletes, EnterPreFlight, GoLive, ReturnToShadow, Stop
<1>2. ASSUME NEW t \in Threads, ForceHalt(t) PROVE fsm' = "CatastrophicHalt"
  BY <1>2 DEF ForceHalt, ForceTransition
<1>3. ASSUME NEW t \in Threads,
             \/ Boot(t) \/ BootFails(t) \/ Promote(t) \/ ExecuteAllChecks(t)
             \/ CheckLockdown(t) \/ CheckEnabled(t) \/ OpenGate(t)
             \/ ShutDown(t) \/ Lock(t) \/ Trade(t) \/ CheckUnlocked(t) \/ EndTrade(t)
             \/ UndoEnable(t) \/ AbortPromotion(t) \/ DisableLive(t) \/ Halt(t)
      PROVE  fsm' = fsm
  BY <1>3 DEF Boot, BootFails, Promote, ExecuteAllChecks, CheckLockdown,
              CheckEnabled, OpenGate, ShutDown, Lock, Trade, CheckUnlocked,
              EndTrade, UndoEnable, AbortPromotion, DisableLive, Halt, Disable
<1>4. CASE UNCHANGED liveVars
  BY <1>4 DEF liveVars
<1> QED BY <1>1, <1>2, <1>3, <1>4 DEF LiveNext

\* However many promotions, shutdowns, aborts and halts race, nothing ever
\* brings the system back from its end.
THEOREM EndsAreFinal == LiveSpec => EndIsFinal
<1>1. [LiveNext]_liveVars =>
        [/\ fsm = "CatastrophicHalt" => fsm' = fsm
         /\ fsm = "GracefulShutdown" => fsm' \in {fsm, "CatastrophicHalt"}]_liveVars
  BY FsmSteps DEF ValidTransition
<1> QED BY <1>1, PTL DEF LiveSpec, EndIsFinal

-----------------------------------------------------------------------------
\* Nothing ever takes the lockdown back.
LateLocked == late # {} => lockdown

LockInv == LiveTypeOK /\ LateLocked /\ LockdownRefuses

LEMMA NextLockInv == LockInv /\ [LiveNext]_liveVars => LockInv'
<1> SUFFICES ASSUME LockInv, [LiveNext]_liveVars PROVE LateLocked' /\ LockdownRefuses'
  BY NextLiveTypeOK DEF LockInv
<1> USE DEF LockInv, LateLocked, LockdownRefuses, LiveTypeOK, Steps, Branch, gate, liveHistory
<1>1. ASSUME NEW t \in Threads,
             \/ Boot(t) \/ BootFails(t) \/ BootCompletes(t) \/ Promote(t)
             \/ EnterPreFlight(t) \/ ExecuteAllChecks(t) \/ CheckLockdown(t)
             \/ CheckEnabled(t) \/ OpenGate(t)
      PROVE  LateLocked' /\ LockdownRefuses'
  BY <1>1 DEF Boot, BootFails, BootCompletes, Promote, EnterPreFlight,
              ExecuteAllChecks, CheckLockdown, CheckEnabled, OpenGate
<1>2. ASSUME NEW t \in Threads,
             \/ GoLive(t) \/ UndoEnable(t) \/ ReturnToShadow(t)
             \/ AbortPromotion(t) \/ ShutDown(t) \/ DisableLive(t) \/ Stop(t)
             \/ Halt(t) \/ Lock(t) \/ ForceHalt(t)
      PROVE  LateLocked' /\ LockdownRefuses'
  BY <1>2 DEF GoLive, UndoEnable, ReturnToShadow, AbortPromotion, ShutDown,
              DisableLive, Stop, Halt, Lock, ForceHalt, Disable
<1>3. ASSUME NEW t \in Threads, Trade(t) PROVE LateLocked' /\ LockdownRefuses'
  BY <1>3 DEF Trade
<1>4. ASSUME NEW t \in Threads, CheckUnlocked(t) \/ EndTrade(t)
      PROVE  LateLocked' /\ LockdownRefuses'
  BY <1>4 DEF CheckUnlocked, EndTrade
<1>5. CASE UNCHANGED liveVars
  BY <1>5 DEF liveVars
<1> QED BY <1>1, <1>2, <1>3, <1>4, <1>5 DEF LiveNext

\* A call of execute_if_live that begins under lockdown never runs its closure,
\* whatever becomes of is_live_enabled.
THEOREM LockedGateRefuses == LiveSpec => []LockdownRefuses
<1>1. LiveInit => LockInv
  BY InitLiveTypeOK DEF LiveInit, LockInv, LateLocked, LockdownRefuses
<1> QED BY <1>1, NextLockInv, PTL DEF LiveSpec, LockInv

-----------------------------------------------------------------------------
\* A promotion under way, up to its return to ShadowMode.
PromotionInFlight == Promoting \union {"back"}

\* It holds the FSM in PreFlightChecks, unless a halt has taken it away.
FsmIsHeld ==
  \A t \in Threads : step[t] \in PromotionInFlight => fsm \in {"PreFlightChecks", "CatastrophicHalt"}

OneInFlight ==
  \A t, u \in Threads : step[t] \in PromotionInFlight /\ step[u] \in PromotionInFlight => t = u

PromotionInv == LiveTypeOK /\ (~aborted => FsmIsHeld /\ OneInFlight)

LEMMA NextPromotionInv == PromotionInv /\ [LiveNext]_liveVars => PromotionInv'
<1> SUFFICES ASSUME PromotionInv, [LiveNext]_liveVars, ~aborted'
             PROVE  FsmIsHeld' /\ OneInFlight'
  BY NextLiveTypeOK DEF PromotionInv
<1> USE DEF PromotionInv, FsmIsHeld, OneInFlight, PromotionInFlight, Promoting, LiveTypeOK,
            Steps, Branch, gate, liveHistory
\* Steps that start no promotion and leave the FSM alone.
<1>1. ASSUME NEW t \in Threads,
             \/ Boot(t) \/ BootFails(t) \/ Promote(t) \/ ExecuteAllChecks(t)
             \/ CheckLockdown(t) \/ CheckEnabled(t) \/ OpenGate(t)
      PROVE  FsmIsHeld' /\ OneInFlight'
  BY <1>1 DEF Boot, BootFails, Promote, ExecuteAllChecks, CheckLockdown,
              CheckEnabled, OpenGate
<1>2. ASSUME NEW t \in Threads,
             \/ UndoEnable(t) \/ ShutDown(t) \/ DisableLive(t) \/ Halt(t)
             \/ Lock(t) \/ Trade(t) \/ CheckUnlocked(t) \/ EndTrade(t)
      PROVE  FsmIsHeld' /\ OneInFlight'
  BY <1>2 DEF UndoEnable, ShutDown, DisableLive, Halt, Lock, Trade,
              CheckUnlocked, EndTrade, Disable
\* A promotion starts in ShadowMode only, when none is under way.
<1>3. ASSUME NEW t \in Threads, EnterPreFlight(t) PROVE FsmIsHeld' /\ OneInFlight'
  BY <1>3 DEF EnterPreFlight, Transition, CanTransition, ValidTransition
\* The one under way ends.
<1>4. ASSUME NEW t \in Threads, GoLive(t) \/ ReturnToShadow(t)
      PROVE  FsmIsHeld' /\ OneInFlight'
  <2>1. \A u \in Threads : step'[u] \notin PromotionInFlight
    BY <1>4 DEF GoLive, ReturnToShadow
  <2> QED BY <2>1
\* Boot and shutdown find no rule out of PreFlightChecks.
<1>5. ASSUME NEW t \in Threads, BootCompletes(t) \/ Stop(t)
      PROVE  FsmIsHeld' /\ OneInFlight'
  BY <1>5 DEF BootCompletes, Stop, Transition, CanTransition, ValidTransition
<1>6. ASSUME NEW t \in Threads, ForceHalt(t) PROVE FsmIsHeld' /\ OneInFlight'
  BY <1>6 DEF ForceHalt, ForceTransition
<1>7. ASSUME NEW t \in Threads, AbortPromotion(t) PROVE FALSE
  BY <1>7 DEF AbortPromotion
<1>8. CASE UNCHANGED liveVars
  BY <1>8 DEF liveVars
<1> QED BY <1>1, <1>2, <1>3, <1>4, <1>5, <1>6, <1>7, <1>8 DEF LiveNext

\* Until an abort, no two promotions are between PreFlightChecks and
\* LiveTrading at a time, even while the system is halted under them.
THEOREM PromotionsExclude == LiveSpec => []OnePromotion
<1>1. LiveInit => PromotionInv
  BY InitLiveTypeOK DEF LiveInit, PromotionInv, FsmIsHeld, OneInFlight, PromotionInFlight, Promoting
<1>2. PromotionInv => OnePromotion
  BY DEF PromotionInv, OneInFlight, PromotionInFlight, OnePromotion
<1> QED BY <1>1, <1>2, NextPromotionInv, PTL DEF LiveSpec

-----------------------------------------------------------------------------
\* Somebody is halting the system; that ends in CatastrophicHalt.
Halting == \E t \in Threads : step[t] \in {"lock", "force"}

Closing(t) == step[t] = "stop" /\ seen[t] = "LiveTrading"

\* A gate that is open before LiveTrading is about to go live; a gate that is
\* shut in LiveTrading is on its way to the shutdown; and nobody who shuts it
\* for a shutdown can meet a promotion, for LiveTrading has no way back.
GateFollows ==
  /\ enabled /\ fsm # "LiveTrading" => \E t \in Threads : step[t] = "golive"
  /\ ~enabled /\ fsm = "LiveTrading" => \E t \in Threads : Closing(t)
  /\ \A t \in Threads : step[t] = "golive" => enabled
  /\ \A t \in Threads : step[t] # "undo"
  /\ \A t \in Threads : Closing(t) => ~enabled /\ fsm \in {"LiveTrading", "GracefulShutdown"}
  /\ \A t \in Threads : step[t] = "disable" =>
       seen[t] = "LiveTrading" /\ fsm \in {"LiveTrading", "GracefulShutdown"}

GateInv ==
  PromotionInv /\ (~aborted /\ fsm # "CatastrophicHalt" /\ ~Halting => GateFollows)

LEMMA NextGateInv == GateInv /\ [LiveNext]_liveVars => GateInv'
<1> SUFFICES ASSUME GateInv, [LiveNext]_liveVars,
                    ~aborted', fsm' # "CatastrophicHalt", ~Halting'
             PROVE  GateFollows'
  BY NextPromotionInv DEF GateInv
<1> USE DEF Closing, LiveTypeOK, Steps, Branch, gate, liveHistory
<1>0. LiveTypeOK /\ PromotionInv  BY DEF GateInv, PromotionInv
<1>1. CASE UNCHANGED liveVars
  BY <1>1 DEF liveVars, GateInv, GateFollows, Halting
<1>2. ASSUME NEW t \in Threads, ForceHalt(t)  PROVE FALSE
  BY <1>2 DEF ForceHalt, ForceTransition
<1>3. ASSUME NEW t \in Threads, Halt(t) \/ Lock(t)  PROVE FALSE
  BY <1>0, <1>3 DEF Halt, Lock, Halting
<1>4. ASSUME NEW t \in Threads, AbortPromotion(t)  PROVE FALSE
  BY <1>4 DEF AbortPromotion
<1>5. ASSUME NEW t \in Threads,
             step' = [step EXCEPT ![t] = step'[t]], step[t] \notin {"lock", "force"},
             fsm = "CatastrophicHalt" => fsm' = fsm, aborted => aborted'
      PROVE  GateFollows /\ (FsmIsHeld /\ OneInFlight)
  <2>1. ~aborted /\ fsm # "CatastrophicHalt"  BY <1>5
  <2>2. ~Halting
    <3> SUFFICES ASSUME NEW u \in Threads, step[u] \in {"lock", "force"} PROVE FALSE
      BY DEF Halting
    <3>1. u # t  BY <1>5
    <3>2. step'[u] = step[u]  BY <1>0, <1>5, <3>1
    <3> QED BY <3>2 DEF Halting
  <2> QED BY <2>1, <2>2 DEF GateInv, PromotionInv
<1> DEFINE Plain(t) ==
      \/ Boot(t) \/ BootFails(t) \/ Promote(t) \/ ExecuteAllChecks(t)
      \/ CheckLockdown(t) \/ CheckEnabled(t) \/ Trade(t) \/ CheckUnlocked(t)
      \/ EndTrade(t)
<1>6. ASSUME NEW t \in Threads, Plain(t)  PROVE GateFollows'
  <2>1. /\ UNCHANGED <<fsm, enabled, seen, aborted>>
        /\ step[t] \notin {"lock", "force", "golive", "stop", "undo", "disable"}
        /\ step' = [step EXCEPT ![t] = step'[t]]
        /\ step'[t] \notin {"golive", "stop", "undo", "disable"}
    BY <1>0, <1>6 DEF Boot, BootFails, Promote, ExecuteAllChecks, CheckLockdown,
              CheckEnabled, Trade, CheckUnlocked, EndTrade
  <2>2. GateFollows  BY <1>5, <2>1
  <2> QED BY <1>0, <2>1, <2>2 DEF GateFollows
<1>7. ASSUME NEW t \in Threads,
             \/ EnterPreFlight(t) \/ OpenGate(t) \/ GoLive(t) \/ UndoEnable(t)
             \/ ReturnToShadow(t) \/ BootCompletes(t)
      PROVE  GateFollows'
  <2> USE DEF Transition, CanTransition, ValidTransition
  <2>1. /\ GateFollows /\ FsmIsHeld /\ OneInFlight
        /\ step' = [step EXCEPT ![t] = step'[t]] /\ UNCHANGED <<seen, aborted>>
        /\ fsm # "CatastrophicHalt"
    <3>1. /\ step[t] \notin {"lock", "force"} /\ UNCHANGED <<seen, aborted>>
          /\ step' = [step EXCEPT ![t] = step'[t]]
          /\ fsm = "CatastrophicHalt" => fsm' = fsm
      BY <1>0, <1>7 DEF EnterPreFlight, OpenGate, GoLive, UndoEnable, ReturnToShadow,
                        BootCompletes, Disable
    <3> QED BY <1>5, <3>1
  <2>2. \A u \in Threads : u # t => step'[u] = step[u]  BY <1>0, <2>1
  <2>3. CASE EnterPreFlight(t)
    BY <1>0, <2>1, <2>2, <2>3 DEF EnterPreFlight, GateFollows, FsmIsHeld, PromotionInFlight, Promoting
  <2>4. CASE OpenGate(t)
    BY <1>0, <2>1, <2>2, <2>4 DEF OpenGate, GateFollows, FsmIsHeld, PromotionInFlight, Promoting
  <2>5. CASE GoLive(t)
    BY <1>0, <2>1, <2>2, <2>5 DEF GoLive, GateFollows, FsmIsHeld, OneInFlight, PromotionInFlight, Promoting
  <2>6. CASE UndoEnable(t)
    BY <2>1, <2>6 DEF UndoEnable, GateFollows
  <2>7. CASE ReturnToShadow(t)
    BY <1>0, <2>1, <2>2, <2>7 DEF ReturnToShadow, GateFollows, FsmIsHeld, OneInFlight, PromotionInFlight, Promoting
  <2>8. CASE BootCompletes(t)
    BY <1>0, <2>1, <2>2, <2>8 DEF BootCompletes, GateFollows, FsmIsHeld, PromotionInFlight, Promoting
  <2> QED BY <1>7, <2>3, <2>4, <2>5, <2>6, <2>7, <2>8
<1>8. ASSUME NEW t \in Threads, ShutDown(t) \/ DisableLive(t) \/ Stop(t)
      PROVE  GateFollows'
  <2> USE DEF Transition, CanTransition, ValidTransition
  <2>1. /\ GateFollows /\ FsmIsHeld /\ fsm # "CatastrophicHalt"
        /\ step' = [step EXCEPT ![t] = step'[t]] /\ UNCHANGED aborted
    <3>1. /\ step[t] \notin {"lock", "force"} /\ UNCHANGED aborted
          /\ step' = [step EXCEPT ![t] = step'[t]]
          /\ fsm = "CatastrophicHalt" => fsm' = fsm
      BY <1>0, <1>8 DEF ShutDown, DisableLive, Stop, Disable
    <3> QED BY <1>5, <3>1
  <2>2. \A u \in Threads : u # t => step'[u] = step[u]  BY <1>0, <2>1
  <2>3. CASE ShutDown(t)
    BY <1>0, <2>1, <2>2, <2>3 DEF ShutDown, GateFollows
  <2>4. CASE DisableLive(t)
    BY <1>0, <2>1, <2>2, <2>4 DEF DisableLive, Disable, GateFollows, FsmIsHeld, PromotionInFlight, Promoting
  <2>5. CASE Stop(t)
    BY <1>0, <2>1, <2>2, <2>5 DEF Stop, GateFollows, FsmIsHeld, PromotionInFlight, Promoting
  <2> QED BY <1>8, <2>3, <2>4, <2>5
<1> QED BY <1>1, <1>2, <1>3, <1>4, <1>6, <1>7, <1>8 DEF LiveNext

-----------------------------------------------------------------------------
\* An open gate whose promotion has not returned: it is yet to go live, or to
\* find that it cannot and to shut the gate.
Watched == enabled => \E t \in Threads : step[t] \in {"golive", "undo"}

GoesLive == fsm' = "LiveTrading" /\ fsm # fsm'

\* Only a promotion that goes live leaves an open gate to itself.
LEMMA WatchedKept ==
  ASSUME LiveTypeOK, Watched, [LiveNext]_liveVars, ~GoesLive
  PROVE  Watched'
<1> USE DEF Watched, LiveTypeOK, Steps, Branch, gate, liveHistory
<1>1. ASSUME NEW t \in Threads, OpenGate(t)  PROVE Watched'
  <2>1. step'[t] = "golive"
    BY <1>1 DEF OpenGate
  <2> QED BY <2>1
<1>2. ASSUME NEW t \in Threads, GoLive(t)  PROVE Watched'
  <2>1. step'[t] = "undo"
    BY <1>2 DEF GoLive, GoesLive, Transition, CanTransition
  <2> QED BY <2>1
<1>3. ASSUME NEW t \in Threads,
             UndoEnable(t) \/ AbortPromotion(t) \/ DisableLive(t) \/ Halt(t)
      PROVE  Watched'
  BY <1>3 DEF UndoEnable, AbortPromotion, DisableLive, Halt, Disable
<1>4. ASSUME NEW t \in Threads,
             \/ Boot(t) \/ BootFails(t) \/ BootCompletes(t) \/ Promote(t) \/ EnterPreFlight(t)
             \/ ExecuteAllChecks(t) \/ CheckLockdown(t) \/ CheckEnabled(t)
             \/ ReturnToShadow(t) \/ ShutDown(t) \/ Stop(t) \/ Lock(t) \/ ForceHalt(t)
             \/ Trade(t) \/ CheckUnlocked(t) \/ EndTrade(t)
      PROVE  Watched'
  <2>1. /\ enabled' = enabled /\ step' = [step EXCEPT ![t] = step'[t]]
        /\ step[t] \notin {"golive", "undo"}
    BY <1>4 DEF Boot, BootFails, BootCompletes, Promote, EnterPreFlight, ExecuteAllChecks,
       CheckLockdown, CheckEnabled, ReturnToShadow, ShutDown, Stop, Lock, ForceHalt, Trade,
       CheckUnlocked, EndTrade
  <2>2. \A u \in Threads : step[u] \in {"golive", "undo"} => step'[u] = step[u]
    BY <2>1
  <2> QED BY <2>1, <2>2
<1>5. CASE UNCHANGED liveVars
  BY <1>5 DEF liveVars
<1> QED BY <1>1, <1>2, <1>3, <1>4, <1>5 DEF LiveNext

\* Whoever shuts the gate for a shutdown found LiveTrading, which has no way
\* back; whoever opens it again under the shutdown is watched.
ShutsForGood(t) == step[t] = "disable" \/ Closing(t)

OpenInv ==
  /\ LiveTypeOK
  /\ fsm \notin {"LiveTrading", "CatastrophicHalt"} => Watched
  /\ \A t \in Threads : ShutsForGood(t) =>
       fsm \in {"LiveTrading", "GracefulShutdown", "CatastrophicHalt"}
  /\ \A t \in Threads : Closing(t) => fsm = "CatastrophicHalt" \/ Watched

LEMMA NextOpenInv == OpenInv /\ [LiveNext]_liveVars => OpenInv'
<1> SUFFICES ASSUME OpenInv, [LiveNext]_liveVars PROVE OpenInv'
  OBVIOUS
<1> USE DEF OpenInv, ShutsForGood, Closing
<1>1. LiveTypeOK /\ LiveTypeOK'
  BY NextLiveTypeOK
<1>2. /\ fsm = "CatastrophicHalt" => fsm' = fsm
      /\ fsm = "GracefulShutdown" => fsm' \in {fsm, "CatastrophicHalt"}
      /\ fsm = "LiveTrading" => fsm' \in {fsm, "GracefulShutdown", "CatastrophicHalt"}
      /\ GoesLive => fsm = "PreFlightChecks"
  BY FsmSteps DEF ValidTransition, GoesLive
\* Who begins to shut the gate, and who has shut it.
<1>3. ASSUME NEW t \in Threads, ShutsForGood(t)', ~ShutsForGood(t)
      PROVE  fsm = "LiveTrading" /\ fsm' = fsm /\ ~Closing(t)'
  <2>1. ShutDown(t)
    <3> USE <1>1, <1>3 DEF LiveTypeOK, Steps, Branch, gate, liveHistory
    <3>1. ASSUME NEW u \in Threads,
                 \/ Boot(u) \/ BootFails(u) \/ BootCompletes(u) \/ Promote(u)
                 \/ EnterPreFlight(u) \/ ExecuteAllChecks(u) \/ CheckLockdown(u)
                 \/ CheckEnabled(u) \/ OpenGate(u) \/ GoLive(u) \/ UndoEnable(u)
          PROVE  FALSE
      BY <3>1 DEF Boot, BootFails, BootCompletes, Promote, EnterPreFlight, ExecuteAllChecks,
         CheckLockdown, CheckEnabled, OpenGate, GoLive, UndoEnable, Disable
    <3>2. ASSUME NEW u \in Threads,
                 \/ ReturnToShadow(u) \/ AbortPromotion(u) \/ DisableLive(u) \/ Stop(u)
                 \/ Halt(u) \/ Lock(u) \/ ForceHalt(u)
                 \/ Trade(u) \/ CheckUnlocked(u) \/ EndTrade(u)
          PROVE  FALSE
      BY <3>2 DEF ReturnToShadow, AbortPromotion, DisableLive, Stop, Halt, Lock, ForceHalt,
         Trade, CheckUnlocked, EndTrade, Disable
    <3>3. ASSUME NEW u \in Threads, ShutDown(u) PROVE u = t
      BY <3>3 DEF ShutDown
    <3>4. CASE UNCHANGED liveVars
      BY <3>4 DEF liveVars
    <3> QED BY <3>1, <3>2, <3>3, <3>4 DEF LiveNext
  <2> QED BY <1>1, <1>3, <2>1 DEF ShutDown, Steps, Branch, LiveTypeOK, gate, liveHistory
<1>4. ASSUME NEW t \in Threads, Closing(t)', ~Closing(t)  PROVE Watched'
  <2>1. ShutsForGood(t)
    BY <1>3, <1>4
  <2>2. step[t] = "disable" /\ step'[t] = "stop"
    BY <1>4, <2>1
  <2>3. DisableLive(t)
    <3> USE <1>1, <2>2 DEF LiveTypeOK, Steps, Branch, gate, liveHistory
    <3>1. ASSUME NEW u \in Threads,
                 \/ Boot(u) \/ BootFails(u) \/ BootCompletes(u) \/ Promote(u)
                 \/ EnterPreFlight(u) \/ ExecuteAllChecks(u) \/ CheckLockdown(u)
                 \/ CheckEnabled(u) \/ OpenGate(u) \/ GoLive(u) \/ UndoEnable(u)
          PROVE  FALSE
      BY <3>1 DEF Boot, BootFails, BootCompletes, Promote, EnterPreFlight, ExecuteAllChecks,
         CheckLockdown, CheckEnabled, OpenGate, GoLive, UndoEnable, Disable
    <3>2. ASSUME NEW u \in Threads,
                 \/ ReturnToShadow(u) \/ AbortPromotion(u) \/ ShutDown(u) \/ Stop(u)
                 \/ Halt(u) \/ Lock(u) \/ ForceHalt(u)
                 \/ Trade(u) \/ CheckUnlocked(u) \/ EndTrade(u)
          PROVE  FALSE
      BY <3>2 DEF ReturnToShadow, AbortPromotion, ShutDown, Stop, Halt, Lock, ForceHalt,
         Trade, CheckUnlocked, EndTrade, Disable
    <3>3. ASSUME NEW u \in Threads, DisableLive(u) PROVE u = t
      BY <3>3 DEF DisableLive
    <3>4. CASE UNCHANGED liveVars
      BY <3>4 DEF liveVars
    <3> QED BY <3>1, <3>2, <3>3, <3>4 DEF LiveNext
  <2> QED BY <2>3 DEF DisableLive, Disable, Watched
\* LiveTrading is left by a shutdown whose gate is shut, or by a halt.
<1>5. ASSUME fsm = "LiveTrading", fsm' = "GracefulShutdown"
      PROVE  \E t \in Threads : Closing(t)
  <2> USE <1>5 DEF Transition, CanTransition, ValidTransition
  <2>1. ASSUME NEW t \in Threads,
               BootCompletes(t) \/ EnterPreFlight(t) \/ GoLive(t) \/ ReturnToShadow(t)
        PROVE  FALSE
    BY <2>1 DEF BootCompletes, EnterPreFlight, GoLive, ReturnToShadow
  <2>2. ASSUME NEW t \in Threads, ForceHalt(t) PROVE FALSE
    BY <2>2 DEF ForceHalt, ForceTransition
  <2>3. ASSUME NEW t \in Threads,
               \/ Boot(t) \/ BootFails(t) \/ Promote(t) \/ ExecuteAllChecks(t)
               \/ CheckLockdown(t) \/ CheckEnabled(t) \/ OpenGate(t)
               \/ ShutDown(t) \/ Lock(t) \/ Trade(t) \/ CheckUnlocked(t) \/ EndTrade(t)
               \/ UndoEnable(t) \/ AbortPromotion(t) \/ DisableLive(t) \/ Halt(t)
        PROVE  FALSE
    BY <2>3 DEF Boot, BootFails, Promote, ExecuteAllChecks, CheckLockdown,
       CheckEnabled, OpenGate, ShutDown, Lock, Trade, CheckUnlocked,
       EndTrade, UndoEnable, AbortPromotion, DisableLive, Halt, Disable
  <2>4. ASSUME NEW t \in Threads, Stop(t) PROVE Closing(t)
    BY <2>4 DEF Stop, Steps
  <2>5. CASE UNCHANGED liveVars
    BY <2>5 DEF liveVars
  <2> QED BY <2>1, <2>2, <2>3, <2>4, <2>5 DEF LiveNext
<1>6. fsm' \notin {"LiveTrading", "CatastrophicHalt"} => Watched'
  <2> SUFFICES ASSUME fsm' \notin {"LiveTrading", "CatastrophicHalt"} PROVE Watched'
    OBVIOUS
  <2>1. Watched
    BY <1>2, <1>5
  <2> QED BY <1>1, <2>1, WatchedKept DEF GoesLive
<1>7. ASSUME NEW t \in Threads, ShutsForGood(t)'
      PROVE  fsm' \in {"LiveTrading", "GracefulShutdown", "CatastrophicHalt"}
  BY <1>2, <1>3, <1>7
<1>8. ASSUME NEW t \in Threads, Closing(t)'
      PROVE  fsm' = "CatastrophicHalt" \/ Watched'
  <2>1. CASE Closing(t)
    BY <1>1, <1>2, <2>1, WatchedKept
  <2> QED BY <1>4, <1>8, <2>1
<1> QED BY <1>1, <1>6, <1>7, <1>8

\* Until a halt, an open gate is that of LiveTrading whenever no call is under
\* way, whatever was aborted or shut down; until an abort LiveTrading has its gate
\* open, too; for any number of threads (promote_to_live, shutdown).
THEOREM GateMatchesStateHolds == LiveSpec => []GateMatchesState
<1>1. LiveInit => GateInv
  BY InitLiveTypeOK DEF LiveInit, GateInv, PromotionInv, FsmIsHeld, OneInFlight, PromotionInFlight,
     Promoting, GateFollows, Closing, FsmInit
<1>2. LiveInit => OpenInv
  BY InitLiveTypeOK DEF LiveInit, OpenInv, Watched, ShutsForGood, Closing, FsmInit
<1>3. GateInv /\ OpenInv => GateMatchesState
  <2> SUFFICES ASSUME GateInv, OpenInv, AllIdle, fsm # "CatastrophicHalt"
               PROVE  /\ enabled => fsm = "LiveTrading"
                      /\ ~aborted /\ fsm = "LiveTrading" => enabled
    BY DEF GateMatchesState
  <2>1. enabled => fsm = "LiveTrading"
    BY DEF OpenInv, Watched, AllIdle
  <2>2. ~aborted /\ fsm = "LiveTrading" => enabled
    BY DEF GateInv, GateFollows, AllIdle, Halting, Closing, PromotionInv, LiveTypeOK
  <2> QED BY <2>1, <2>2
<1> QED BY <1>1, <1>2, <1>3, NextGateInv, NextOpenInv, PTL DEF LiveSpec

-----------------------------------------------------------------------------
\* From the first store of a halt on, an open gate is watched, unless a
\* promotion goes live before the halt has taken the FSM; the promotion that
\* is watched then finds it gone.
QuietInv ==
  /\ LiveTypeOK
  /\ lockdown => Halting \/ fsm = "CatastrophicHalt"
  /\ Halting \/ fsm = "CatastrophicHalt" => Watched

LEMMA NextQuietInv == QuietInv /\ [LiveNext /\ HaltsAlone]_liveVars => QuietInv'
<1> SUFFICES ASSUME QuietInv, [LiveNext /\ HaltsAlone]_liveVars PROVE QuietInv'
  OBVIOUS
<1> USE DEF QuietInv, Halting
<1>1. [LiveNext]_liveVars /\ LiveTypeOK /\ LiveTypeOK'
  BY NextLiveTypeOK
<1>2. Halting => ~GoesLive
  BY DEF HaltsAlone, GoesLive, liveVars
<1>3. fsm = "CatastrophicHalt" => fsm' = fsm
  BY <1>1, FsmSteps DEF ValidTransition
<1>4. Halting \/ fsm = "CatastrophicHalt" => Watched'
  BY <1>1, <1>2, <1>3, WatchedKept DEF GoesLive
<1> USE DEF LiveTypeOK, Steps, Branch, gate, liveHistory
<1>5. ASSUME NEW t \in Threads, Halt(t)  PROVE QuietInv'
  <2>1. Watched' /\ lockdown' = lockdown /\ fsm' = fsm
    BY <1>5 DEF Halt, Disable, Watched
  <2>2. step'[t] = "lock"
    BY <1>5 DEF Halt
  <2> QED BY <1>1, <2>1, <2>2
<1>6. ASSUME NEW t \in Threads, Lock(t)  PROVE QuietInv'
  <2>1. step[t] = "lock" /\ step'[t] = "force"
    BY <1>6 DEF Lock
  <2> QED BY <1>1, <1>4, <2>1
<1>7. ASSUME NEW t \in Threads, ForceHalt(t)  PROVE QuietInv'
  <2>1. step[t] = "force" /\ fsm' = "CatastrophicHalt"
    BY <1>7 DEF ForceHalt, ForceTransition
  <2> QED BY <1>1, <1>4, <2>1
\* No other step begins or ends a halt.
<1>8. ASSUME lockdown' = lockdown, Halting' <=> Halting,
             fsm' = "CatastrophicHalt" => fsm = fsm'
      PROVE  QuietInv'
  BY <1>1, <1>3, <1>4, <1>8
<1>9. ASSUME NEW t \in Threads, step[t] \notin {"lock", "force"}, step'[t] \notin {"lock", "force"},
             step' = [step EXCEPT ![t] = step'[t]]
      PROVE  Halting' <=> Halting
  <2>1. \A u \in Threads : step'[u] \in {"lock", "force"} <=> step[u] \in {"lock", "force"}
    BY <1>9
  <2> QED BY <2>1
<1>10. ASSUME NEW t \in Threads,
              \/ Boot(t) \/ BootFails(t) \/ BootCompletes(t) \/ Promote(t) \/ EnterPreFlight(t)
              \/ ExecuteAllChecks(t) \/ CheckLockdown(t) \/ CheckEnabled(t) \/ OpenGate(t)
              \/ GoLive(t) \/ ReturnToShadow(t)
       PROVE  QuietInv'
  <2>1. /\ lockdown' = lockdown /\ step[t] \notin {"lock", "force"}
        /\ step'[t] \notin {"lock", "force"} /\ step' = [step EXCEPT ![t] = step'[t]]
        /\ fsm' = "CatastrophicHalt" => fsm = fsm'
    BY <1>10 DEF Boot, BootFails, BootCompletes, Promote, EnterPreFlight, ExecuteAllChecks,
       CheckLockdown, CheckEnabled, OpenGate, GoLive, ReturnToShadow, Transition, CanTransition
  <2> QED BY <1>8, <1>9, <2>1
<1>11. ASSUME NEW t \in Threads,
              \/ UndoEnable(t) \/ AbortPromotion(t) \/ ShutDown(t) \/ DisableLive(t) \/ Stop(t)
              \/ Trade(t) \/ CheckUnlocked(t) \/ EndTrade(t)
       PROVE  QuietInv'
  <2>1. /\ lockdown' = lockdown /\ step[t] \notin {"lock", "force"}
        /\ step'[t] \notin {"lock", "force"} /\ step' = [step EXCEPT ![t] = step'[t]]
        /\ fsm' = "CatastrophicHalt" => fsm = fsm'
    BY <1>11 DEF UndoEnable, AbortPromotion, ShutDown, DisableLive, Stop, Disable,
       Trade, CheckUnlocked, EndTrade, Transition, CanTransition
  <2> QED BY <1>8, <1>9, <2>1
<1>12. CASE UNCHANGED liveVars
  BY <1>12 DEF liveVars, Watched
<1> QED BY <1>1, <1>5, <1>6, <1>7, <1>10, <1>11, <1>12 DEF LiveNext

\* When no promotion completes between the first store of a halt and its
\* transition, a locked gate is shut once all calls have returned, although
\* promotions under way may open it after the lockdown.
THEOREM QuietHaltsClose == QuietHaltSpec => []LockdownCloses
<1>1. LiveInit => QuietInv
  BY InitLiveTypeOK DEF LiveInit, QuietInv, Halting, Watched, FsmInit
<1>2. QuietInv => LockdownCloses
  BY DEF QuietInv, Watched, Halting, LockdownCloses, AllIdle
<1> QED BY <1>1, <1>2, NextQuietInv, PTL DEF QuietHaltSpec

-----------------------------------------------------------------------------
(***************************************************************************)
(* EpochReclaimer, for any readers, writers, bounds and ring of at least   *)
(* three epochs.                                                           *)
(*                                                                         *)
(* The argument: who reads a version took it before it was replaced, hence *)
(* before it was deferred, so its epoch is not later than the version's    *)
(* (ReadersPrecede).  If it is the very same, the version sits in a list   *)
(* the reader is counted in (ListsMatch, ReadersCounted), and a drain that *)
(* found that list unread did so before the reader was counted: what the   *)
(* reader took since can only have been deferred to the current epoch,     *)
(* whose list is not the one being drained (LateReaders).                  *)
(***************************************************************************)

Reads(r) == reader[r].pc = "reading"
Inside(i) == {r \in EpochReaders : reader[r].pc \in {"in", "reading"}
                                     /\ Index(reader[r].epoch) = i}
Slots == 0..Epochs - 1

\* What a thread carries at each of its steps.
ThreadsCarry ==
  /\ \A r \in EpochReaders :
       /\ reader[r].epoch <= globalEpoch
       /\ reader[r].holds \in -1..shown
       /\ Reads(r) => reader[r].holds # Unknown
       /\ ~Reads(r) => reader[r].holds = Unknown
  /\ \A w \in EpochWriters : epochWriter[w].pc # "idle" =>
       epochWriter[w].old \in 0..shown - 1 /\ deferredIn[epochWriter[w].old] = Unknown
  /\ \A a \in Advancers : advancer[a].pc # "idle" => advancer[a].offset <= Epochs - 1

\* A version is replaced once.
ReplacedOnce ==
  \A w, x \in EpochWriters :
    epochWriter[w].pc # "idle" /\ epochWriter[x].pc # "idle"
      /\ epochWriter[w].old = epochWriter[x].old => w = x

ListsMatch ==
  /\ \A v \in 0..MaxVersion : v >= shown => deferredIn[v] = Unknown
  /\ \A v \in freed : deferredIn[v] # Unknown
  /\ \A i \in Slots : \A v \in pending[i] :
       deferredIn[v] # Unknown /\ Index(deferredIn[v]) = i

ReadersCounted ==
  \A i \in Slots : IsFiniteSet(Inside(i)) /\ readerCount[i] = Cardinality(Inside(i))

\* v is on its way to epoch e: deferred in it, or about to be.
HeadsFor(v, e) ==
  \/ deferredIn[v] # Unknown /\ deferredIn[v] = e
  \/ \E w \in EpochWriters : /\ epochWriter[w].pc \in {"push", "stuck"}
                             /\ epochWriter[w].old = v /\ epochWriter[w].epoch = e

ReadersPrecede ==
  \A r \in EpochReaders, e \in 0..MaxEpochs :
    Reads(r) /\ HeadsFor(reader[r].holds, e) => reader[r].epoch <= e /\ e <= globalEpoch

OneAdvancer == \A a, b \in Advancers : a = b

\* The epoch an advancer began is the current one while it collects.
Collecting == \A a \in Advancers : advancer[a].pc # "idle" => advancer[a].epoch = globalEpoch

LateReaders ==
  \A a \in Advancers, r \in EpochReaders, e \in 0..MaxEpochs :
    advancer[a].pc = "drain" /\ Reads(r) /\ Index(reader[r].epoch) = Target(a)
      /\ HeadsFor(reader[r].holds, e) => e = globalEpoch

SameEpochIsSafe ==
  ~forced => \A r \in EpochReaders : Loses(r) => reader[r].epoch # deferredIn[reader[r].holds]

EpochInv ==
  /\ EpochTypeOK /\ ThreadsCarry /\ ReplacedOnce /\ ListsMatch /\ ReadersCounted /\ ReadersPrecede
  /\ OneAdvancer => Collecting /\ LateReaders /\ SameEpochIsSafe

-----------------------------------------------------------------------------
(* The ring of epochs.                                                     *)

LEMMA IndexInRing == \A e \in Int : Index(e) \in Slots
<1>1. \A e \in Int, c \in Nat \ {0} : e % c \in 0..c - 1
  BY Z3
<1> QED
  BY <1>1, EpochAssumption DEF Index, Slots

\* The epochs an advancer collects are not the current one's list.
LEMMA IndexApart ==
  ASSUME NEW e \in Int, NEW k \in 1..Epochs - 1
  PROVE  Index(e - k) # Index(e)
<1>1. \A a \in Int, c \in Nat \ {0} : a = (c * (a \div c)) + (a % c) /\ a \div c \in Int
  BY Z3
<1> DEFINE a == e \div Epochs
           b == (e - k) \div Epochs
           m == e % Epochs
<1>2. SUFFICES ASSUME (e - k) % Epochs = m PROVE FALSE
  BY DEF Index
<1>3. /\ e = (Epochs * a) + m /\ e - k = (Epochs * b) + m
      /\ a \in Int /\ b \in Int /\ m \in Int /\ Epochs \in Nat \ {0}
  <2>1. e \in Int /\ e - k \in Int /\ Epochs \in Nat \ {0}
    BY EpochAssumption
  <2>2. m \in Int
    BY <2>1
  <2> QED
    BY <1>1, <1>2, <2>1, <2>2
<1> HIDE DEF a, b, m
<1>4. Epochs * (a - b) = k
  BY <1>3
<1>5. a - b <= 0 => Epochs * (a - b) <= 0
  <2> SUFFICES ASSUME a - b <= 0 PROVE Epochs * (a - b) <= 0
    OBVIOUS
  <2> QED BY <1>3
<1>6. a - b >= 1 => Epochs * (a - b) >= Epochs
  <2> SUFFICES ASSUME a - b >= 1 PROVE Epochs * (a - b) >= Epochs
    OBVIOUS
  <2> QED BY <1>3
<1> QED
  BY <1>3, <1>4, <1>5, <1>6

-----------------------------------------------------------------------------
(* Types.                                                                  *)

LEMMA ListsInRing ==
  ASSUME EpochTypeOK
  PROVE  /\ \A r \in EpochReaders : reader[r].epoch \in Nat /\ Index(reader[r].epoch) \in Slots
         /\ \A w \in EpochWriters : epochWriter[w].epoch \in Nat /\ Index(epochWriter[w].epoch) \in Slots
         /\ \A a \in Advancers : Target(a) \in Slots
         /\ Oldest \in Slots
<1>1. \A r \in EpochReaders : reader[r].epoch \in Nat
  BY EpochAssumption DEF EpochTypeOK
<1>2. \A w \in EpochWriters : epochWriter[w].epoch \in Nat
  BY EpochAssumption DEF EpochTypeOK
<1>3. \A a \in Advancers : advancer[a].epoch - advancer[a].offset \in Int
  BY EpochAssumption DEF EpochTypeOK
<1>4. globalEpoch + 1 \in Int
  BY EpochAssumption DEF EpochTypeOK
<1> QED
  BY <1>1, <1>2, <1>3, <1>4, IndexInRing DEF Target, Oldest

LEMMA EpochTypeStep ==
  ASSUME EpochInv, [EpochNext]_epochVars
  PROVE  EpochTypeOK' /\ ThreadsCarry'
<1> USE EpochAssumption DEF EpochInv, EpochTypeOK, ThreadsCarry, Reads, Unknown
<1>1. ASSUME NEW r \in EpochReaders, EnterLoad(r) PROVE EpochTypeOK' /\ ThreadsCarry'
  <2>1. reader' = [reader EXCEPT ![r] = [pc |-> "entering", epoch |-> globalEpoch, holds |-> -1]]
    BY <1>1 DEF EnterLoad
  <2>2. UNCHANGED <<globalEpoch, pending, freed, shown, epochWriter, advancer, deferredIn, forced,
                    readerCount>>
    BY <1>1 DEF EnterLoad, ReaderStep
  <2>a. reader' \in [EpochReaders -> [pc : {"out", "entering", "in", "reading"},
                                     epoch : 0..MaxEpochs, holds : -1..MaxVersion]]
    BY <2>1
  <2>3. EpochTypeOK'
    BY <2>a, <2>2
  <2>4. ThreadsCarry'
    BY <2>1, <2>2
  <2> QED BY <2>3, <2>4
<1>2. ASSUME NEW r \in EpochReaders, EnterCount(r) PROVE EpochTypeOK' /\ ThreadsCarry'
  <2> DEFINE i == Index(reader[r].epoch)
  <2>1. i \in 0..Epochs - 1
    BY ListsInRing DEF Slots
  <2> HIDE DEF i
  <2>2. readerCount' = [readerCount EXCEPT ![i] = @ + 1]
    BY <1>2 DEF EnterCount, i
  <2>3. readerCount' \in [0..Epochs - 1 -> Nat]
    BY <2>1, <2>2
  <2>4. /\ reader' = [reader EXCEPT ![r].pc = "in"] /\ reader[r].pc = "entering"
        /\ UNCHANGED <<globalEpoch, pending, freed, shown, epochWriter, advancer, deferredIn, forced>>
    BY <1>2 DEF EnterCount, ReaderStep
  <2>5. reader' \in [EpochReaders -> [pc : {"out", "entering", "in", "reading"},
                                     epoch : 0..MaxEpochs, holds : -1..MaxVersion]]
    BY <2>4
  <2>6. EpochTypeOK'
    BY <2>3, <2>4, <2>5
  <2>7. ThreadsCarry'
    BY <2>4
  <2> QED BY <2>6, <2>7
<1>3. ASSUME NEW r \in EpochReaders, LoadPointer(r) PROVE EpochTypeOK' /\ ThreadsCarry'
  BY <1>3 DEF LoadPointer, ReaderStep
<1>4. ASSUME NEW r \in EpochReaders, DropGuard(r) PROVE EpochTypeOK' /\ ThreadsCarry'
  <2> DEFINE i == Index(reader[r].epoch)
  <2>1. i \in 0..Epochs - 1
    BY ListsInRing DEF Slots
  <2>2. readerCount[i] - 1 \in Nat
    <3>1. r \in Inside(i) /\ IsFiniteSet(Inside(i)) /\ readerCount[i] = Cardinality(Inside(i))
      BY <1>4, <2>1 DEF DropGuard, Inside, ReadersCounted, Slots
    <3> HIDE DEF i
    <3>2. Cardinality(Inside(i)) # 0 /\ Cardinality(Inside(i)) \in Nat
      BY <3>1, FS_EmptySet, FS_CardinalityType
    <3> QED BY <3>1, <3>2
  <2> HIDE DEF i
  <2>3. readerCount' = [readerCount EXCEPT ![i] = readerCount[i] - 1]
    BY <1>4 DEF DropGuard, i
  <2>4. readerCount' \in [0..Epochs - 1 -> Nat]
    BY <2>1, <2>2, <2>3
  <2>5. reader' = [reader EXCEPT ![r] = [pc |-> "out", epoch |-> 0, holds |-> -1]]
    BY <1>4 DEF DropGuard
  <2>6. UNCHANGED <<globalEpoch, pending, freed, shown, epochWriter, advancer, deferredIn, forced>>
    BY <1>4 DEF DropGuard, ReaderStep
  <2>7. EpochTypeOK'
    BY <2>4, <2>5, <2>6
  <2>8. ThreadsCarry'
    BY <2>5, <2>6
  <2> QED BY <2>7, <2>8
<1>5. ASSUME NEW w \in EpochWriters, Swap(w) PROVE EpochTypeOK' /\ ThreadsCarry'
  <2>1. deferredIn[shown] = -1
    BY DEF ListsMatch
  <2>2. /\ epochWriter[w].pc = "idle" /\ shown < MaxVersion /\ shown' = shown + 1
        /\ epochWriter' = [epochWriter EXCEPT ![w].pc = "load", ![w].old = shown]
        /\ UNCHANGED <<reclaimer, reader, advancer, deferredIn, forced>>
    BY <1>5 DEF Swap
  <2>a. shown \in -1..MaxVersion /\ shown' \in 0..MaxVersion
    BY <2>2
  <2>b. epochWriter' \in [EpochWriters -> [pc : {"idle", "load", "push", "stuck"},
                                          epoch : 0..MaxEpochs, old : -1..MaxVersion]]
    BY <2>2, <2>a
  <2>3. EpochTypeOK'
    BY <2>2, <2>a, <2>b DEF reclaimer
  <2>4. ThreadsCarry'
    BY <2>1, <2>2 DEF reclaimer
  <2> QED BY <2>3, <2>4
<1>6. ASSUME NEW w \in EpochWriters, DeferLoad(w) PROVE EpochTypeOK' /\ ThreadsCarry'
  BY <1>6 DEF DeferLoad, reclaimer
<1>7. ASSUME NEW w \in EpochWriters, DeferPush(w) PROVE EpochTypeOK' /\ ThreadsCarry'
  <2> DEFINE i == Index(epochWriter[w].epoch)
             pushed == [pending EXCEPT ![i] = @ \union {epochWriter[w].old}]
  <2>1. i \in 0..Epochs - 1 /\ Oldest \in 0..Epochs - 1 /\ epochWriter[w].old \in 0..MaxVersion
    <3>1. epochWriter[w].pc # "idle"
      BY <1>7 DEF DeferPush
    <3>2. epochWriter[w].old \in 0..shown - 1 /\ shown \in 0..MaxVersion
      BY <3>1
    <3>3. epochWriter[w].old \in 0..MaxVersion
      BY <3>2
    <3>4. i \in Slots /\ Oldest \in Slots
      BY ListsInRing
    <3> QED BY <3>3, <3>4 DEF Slots
  <2>2. pushed \in [0..Epochs - 1 -> SUBSET (0..MaxVersion)]
    BY <2>1
  <2>3. \/ pending' = pushed /\ freed' = freed
        \/ pending' = [pushed EXCEPT ![Oldest] = {}] /\ freed' = freed \union pushed[Oldest]
    BY <1>7 DEF DeferPush, Drain
  <2> HIDE DEF pushed, i
  <2>4. /\ pending' \in [0..Epochs - 1 -> SUBSET (0..MaxVersion)]
        /\ freed' \subseteq 0..MaxVersion
    BY <2>1, <2>2, <2>3
  <2>5. forced' \in BOOLEAN
    BY <1>7 DEF DeferPush
  <2>6. /\ deferredIn' = [deferredIn EXCEPT ![epochWriter[w].old] = epochWriter[w].epoch]
        /\ epochWriter' = [epochWriter EXCEPT ![w] = [pc |-> "idle", epoch |-> 0, old |-> -1]]
        /\ UNCHANGED <<globalEpoch, readerCount, shown, reader, advancer>>
        /\ epochWriter[w].pc = "push"
    BY <1>7 DEF DeferPush
  <2>7. EpochTypeOK'
    BY <2>1, <2>4, <2>5, <2>6
  <2>8. ThreadsCarry'
    BY <2>6, <2>1 DEF ReplacedOnce
  <2> QED BY <2>7, <2>8
<1>8. ASSUME NEW w \in EpochWriters, DeferStuck(w) PROVE EpochTypeOK' /\ ThreadsCarry'
  BY <1>8 DEF DeferStuck, reclaimer
<1>9. ASSUME NEW a \in Advancers, Advance(a) PROVE EpochTypeOK' /\ ThreadsCarry'
  <2>1. /\ globalEpoch < MaxEpochs /\ globalEpoch' = globalEpoch + 1
        /\ advancer' = [advancer EXCEPT ![a] = [pc |-> "check", epoch |-> globalEpoch + 1, offset |-> 2]]
        /\ UNCHANGED <<pending, freed, shown, reader, readerCount, epochWriter, deferredIn, forced>>
    BY <1>9 DEF Advance, AdvancerStep
  <2>2. EpochTypeOK'
    BY <2>1
  <2>3. ThreadsCarry'
    BY <2>1
  <2> QED BY <2>2, <2>3
<1>10. ASSUME NEW a \in Advancers, CheckReaders(a) PROVE EpochTypeOK' /\ ThreadsCarry'
  BY <1>10 DEF CheckReaders, AdvancerStep
<1>11. ASSUME NEW a \in Advancers, DrainEpoch(a) PROVE EpochTypeOK' /\ ThreadsCarry'
  <2>1. Target(a) \in 0..Epochs - 1
    BY ListsInRing DEF Slots
  <2> QED BY <1>11, <2>1 DEF DrainEpoch, Drain, AdvancerStep
<1>12. CASE Shutdown
  <2>1. freed' \subseteq 0..MaxVersion /\ pending' \in [0..Epochs - 1 -> SUBSET (0..MaxVersion)]
    <3>1. DOMAIN pending = 0..Epochs - 1 /\ \A i \in DOMAIN pending : pending[i] \subseteq 0..MaxVersion
      OBVIOUS
    <3>2. UNION {pending[i] : i \in DOMAIN pending} \subseteq 0..MaxVersion
      BY <3>1
    <3> QED BY <1>12, <3>1, <3>2 DEF Shutdown
  <2> QED BY <1>12, <2>1 DEF Shutdown
<1>13. CASE UNCHANGED epochVars
  BY <1>13 DEF epochVars, reclaimer
<1> QED
  BY <1>1, <1>2, <1>3, <1>4, <1>5, <1>6, <1>7, <1>8, <1>9, <1>10, <1>11, <1>12, <1>13
     DEF EpochNext

-----------------------------------------------------------------------------
(* The readers of a list are counted.                                      *)

LEMMA CountedStep ==
  ASSUME EpochInv, [EpochNext]_epochVars
  PROVE  ReadersCounted'
<1> USE DEF EpochInv, ReadersCounted
<1>1. CASE UNCHANGED <<readerCount, reader>>
  BY <1>1 DEF Inside
<1>2. ASSUME NEW r \in EpochReaders, EnterLoad(r) \/ LoadPointer(r) PROVE ReadersCounted'
  <2>1. /\ readerCount' = readerCount
        /\ \A x \in EpochReaders :
             /\ reader'[x].pc \in {"in", "reading"} <=> reader[x].pc \in {"in", "reading"}
             /\ reader[x].pc \in {"in", "reading"} => reader'[x].epoch = reader[x].epoch
    <3>1. CASE EnterLoad(r)
      BY <3>1 DEF EnterLoad, EpochTypeOK
    <3>2. CASE LoadPointer(r)
      BY <3>2 DEF LoadPointer, EpochTypeOK
    <3> QED BY <1>2, <3>1, <3>2
  <2>2. ASSUME NEW i PROVE Inside(i)' = Inside(i)
    BY <2>1 DEF Inside
  <2> QED BY <2>1, <2>2
<1>3. ASSUME NEW r \in EpochReaders, EnterCount(r) PROVE ReadersCounted'
  <2> DEFINE j == Index(reader[r].epoch)
  <2>1. /\ j \in Slots
        /\ readerCount' = [readerCount EXCEPT ![j] = @ + 1]
        /\ reader' = [reader EXCEPT ![r].pc = "in"] /\ reader[r].pc = "entering"
    BY <1>3, ListsInRing DEF EnterCount
  <2>2. ASSUME NEW i \in Slots
        PROVE  /\ Inside(i)' = IF i = j THEN Inside(i) \union {r} ELSE Inside(i)
               /\ r \notin Inside(i)
    BY <2>1 DEF Inside, EpochTypeOK
  <2> HIDE DEF j
  <2>3. ASSUME NEW i \in Slots
        PROVE  IsFiniteSet(Inside(i)') /\ readerCount'[i] = Cardinality(Inside(i)')
    <3>1. CASE i = j
      <4>1. IsFiniteSet(Inside(i)) /\ readerCount[i] = Cardinality(Inside(i)) /\ r \notin Inside(i)
        BY <2>2
      <4>2. /\ IsFiniteSet(Inside(i) \union {r})
            /\ Cardinality(Inside(i) \union {r}) = Cardinality(Inside(i)) + 1
        BY <4>1, FS_AddElement
      <4>3. readerCount'[i] = readerCount[i] + 1
        BY <2>1, <3>1 DEF EpochTypeOK, Slots
      <4> QED BY <2>2, <3>1, <4>1, <4>2, <4>3
    <3>2. CASE i # j
      BY <2>1, <2>2, <3>2 DEF EpochTypeOK, Slots
    <3> QED BY <3>1, <3>2
  <2> QED BY <2>3
<1>4. ASSUME NEW r \in EpochReaders, DropGuard(r) PROVE ReadersCounted'
  <2> DEFINE j == Index(reader[r].epoch)
  <2>1. /\ j \in Slots
        /\ readerCount' = [readerCount EXCEPT ![j] = @ - 1]
        /\ reader' = [reader EXCEPT ![r] = [pc |-> "out", epoch |-> 0, holds |-> Unknown]]
        /\ reader[r].pc = "reading"
    BY <1>4, ListsInRing DEF DropGuard
  <2>2. ASSUME NEW i \in Slots
        PROVE  /\ Inside(i)' = IF i = j THEN Inside(i) \ {r} ELSE Inside(i)
               /\ i = j => r \in Inside(i)
    BY <2>1 DEF Inside, EpochTypeOK
  <2> HIDE DEF j
  <2>3. ASSUME NEW i \in Slots
        PROVE  IsFiniteSet(Inside(i)') /\ readerCount'[i] = Cardinality(Inside(i)')
    <3>1. CASE i = j
      <4>1. IsFiniteSet(Inside(i)) /\ readerCount[i] = Cardinality(Inside(i)) /\ r \in Inside(i)
        BY <2>2, <3>1
      <4>2. /\ IsFiniteSet(Inside(i) \ {r})
            /\ Cardinality(Inside(i) \ {r}) = Cardinality(Inside(i)) - 1
        BY <4>1, FS_RemoveElement
      <4>3. readerCount'[i] = readerCount[i] - 1
        BY <2>1, <3>1 DEF EpochTypeOK, Slots
      <4> QED BY <2>2, <3>1, <4>1, <4>2, <4>3
    <3>2. CASE i # j
      BY <2>1, <2>2, <3>2 DEF EpochTypeOK, Slots
    <3> QED BY <3>1, <3>2
  <2> QED BY <2>3
<1> QED
  BY <1>1, <1>2, <1>3, <1>4 DEF EpochNext, epochVars, reclaimer, Swap, DeferLoad, DeferPush,
     DeferStuck, Advance, CheckReaders, DrainEpoch, Shutdown, AdvancerStep

-----------------------------------------------------------------------------
(* Versions: replaced, deferred, freed.                                    *)

\* Only a push defers, once, and to the epoch its writer loaded.
LEMMA VersionsStep ==
  ASSUME EpochInv, [EpochNext]_epochVars
  PROVE  ReplacedOnce' /\ ListsMatch'
<1> USE EpochAssumption DEF EpochInv, ThreadsCarry, ReplacedOnce, ListsMatch, Slots, Unknown
<1>1. CASE UNCHANGED <<shown, epochWriter, pending, freed, deferredIn>>
  BY <1>1
<1>2. ASSUME NEW w \in EpochWriters, Swap(w) PROVE ReplacedOnce' /\ ListsMatch'
  <2>1. /\ shown \in Nat /\ shown' = shown + 1
        /\ UNCHANGED <<pending, freed, deferredIn>>
        /\ \A x \in EpochWriters \ {w} : epochWriter'[x] = epochWriter[x]
        /\ epochWriter'[w].old = shown
    BY <1>2 DEF Swap, reclaimer, EpochTypeOK
  <2>2. ReplacedOnce'
    BY <2>1
  <2>3. ListsMatch'
    BY <2>1
  <2> QED BY <2>2, <2>3
<1>3. ASSUME NEW w \in EpochWriters, DeferLoad(w) \/ DeferStuck(w) PROVE ReplacedOnce' /\ ListsMatch'
  <2>1. /\ UNCHANGED <<shown, pending, freed, deferredIn>>
        /\ epochWriter[w].pc # "idle"
        /\ \A x \in EpochWriters :
             /\ epochWriter'[x].old = epochWriter[x].old
             /\ epochWriter'[x].pc # "idle" => epochWriter[x].pc # "idle"
    <3>1. CASE DeferLoad(w)
      BY <3>1 DEF DeferLoad, reclaimer, EpochTypeOK
    <3>2. CASE DeferStuck(w)
      BY <3>2 DEF DeferStuck, reclaimer, EpochTypeOK
    <3> QED BY <1>3, <3>1, <3>2
  <2> QED BY <2>1
<1>4. ASSUME NEW w \in EpochWriters, DeferPush(w) PROVE ReplacedOnce' /\ ListsMatch'
  <2> DEFINE e == epochWriter[w].epoch
             old == epochWriter[w].old
             pushed == [pending EXCEPT ![Index(e)] = @ \union {old}]
  <2>1. /\ Index(e) \in Slots /\ Oldest \in Slots /\ e \in Nat
        /\ old \in 0..shown - 1 /\ old \in 0..MaxVersion /\ deferredIn[old] = -1
    BY <1>4, ListsInRing DEF DeferPush, EpochTypeOK
  <2>2. /\ deferredIn' = [deferredIn EXCEPT ![old] = e] /\ shown' = shown
        /\ epochWriter' = [epochWriter EXCEPT ![w] = [pc |-> "idle", epoch |-> 0, old |-> -1]]
        /\ \/ pending' = pushed /\ freed' = freed
           \/ pending' = [pushed EXCEPT ![Oldest] = {}] /\ freed' = freed \union pushed[Oldest]
    BY <1>4 DEF DeferPush, Drain
  <2>3. \A i \in Slots : \A v \in pushed[i] : v \in pending[i] \/ (v = old /\ i = Index(e))
    BY <2>1 DEF EpochTypeOK
  <2>4. pushed \in [Slots -> SUBSET (0..MaxVersion)]
    BY <2>1 DEF EpochTypeOK
  <2> HIDE DEF pushed, e, old
  <2>5. /\ \A i \in Slots : pending'[i] \subseteq pushed[i]
        /\ \A v \in freed' : v \in freed \/ v \in pushed[Oldest]
    BY <2>1, <2>2, <2>4
  <2>6. \A i \in Slots : \A v \in pushed[i] : deferredIn'[v] # -1 /\ Index(deferredIn'[v]) = i
    BY <2>1, <2>2, <2>3, <2>4 DEF EpochTypeOK
  <2>7. \A v \in freed : deferredIn'[v] # -1
    BY <2>1, <2>2 DEF EpochTypeOK
  <2>8. \A v \in 0..MaxVersion : v >= shown' => deferredIn'[v] = -1
    BY <2>1, <2>2 DEF EpochTypeOK
  <2>9. ReplacedOnce'
    BY <2>2 DEF EpochTypeOK
  <2>10. ListsMatch'
    BY <2>1, <2>5, <2>6, <2>7, <2>8
  <2> QED BY <2>9, <2>10
<1>5. ASSUME NEW a \in Advancers, DrainEpoch(a) PROVE ReplacedOnce' /\ ListsMatch'
  <2>1. Target(a) \in Slots
    BY ListsInRing
  <2> QED BY <1>5, <2>1 DEF DrainEpoch, Drain, AdvancerStep, EpochTypeOK
<1>6. CASE Shutdown
  <2>1. /\ \A i \in Slots : pending'[i] = {}
        /\ \A v \in freed' : v \in freed \/ \E i \in Slots : v \in pending[i]
        /\ UNCHANGED <<deferredIn, epochWriter, shown>>
    BY <1>6 DEF Shutdown, EpochTypeOK
  <2> QED BY <2>1
<1> QED
  BY <1>1, <1>2, <1>3, <1>4, <1>5, <1>6 DEF EpochNext, epochVars, reclaimer, EnterLoad, EnterCount,
     LoadPointer, DropGuard, ReaderStep, Advance, CheckReaders, AdvancerStep

-----------------------------------------------------------------------------
(* Readers and the versions they hold.                                     *)

\* A writer loads the epoch it defers to.
Deferring == \E w \in EpochWriters : epochWriter[w].pc = "load" /\ epochWriter'[w].pc = "push"

\* What a step does to the epoch a held version heads for: a load of the
\* current epoch starts it, a push keeps it.
LEMMA HeadsForStep ==
  ASSUME EpochInv, [EpochNext]_epochVars, NEW v \in 0..MaxVersion, NEW e \in 0..MaxEpochs,
         HeadsFor(v, e)'
  PROVE  HeadsFor(v, e) \/ (e = globalEpoch /\ Deferring)
<1> USE EpochAssumption DEF EpochInv, ThreadsCarry, Unknown
<1>1. CASE UNCHANGED <<epochWriter, deferredIn>>
  BY <1>1 DEF HeadsFor
<1>2. ASSUME NEW w \in EpochWriters, Swap(w) PROVE HeadsFor(v, e)
  BY <1>2 DEF Swap, reclaimer, EpochTypeOK, HeadsFor
<1>3. ASSUME NEW w \in EpochWriters, DeferLoad(w) PROVE HeadsFor(v, e) \/ (e = globalEpoch /\ Deferring)
  <2>1. /\ deferredIn' = deferredIn /\ epochWriter[w].old \in 0..shown - 1
        /\ epochWriter'[w].old = epochWriter[w].old /\ epochWriter'[w].epoch = globalEpoch
        /\ \A x \in EpochWriters \ {w} : epochWriter'[x] = epochWriter[x]
        /\ Deferring
    BY <1>3 DEF DeferLoad, reclaimer, EpochTypeOK, Deferring
  <2>2. CASE deferredIn'[v] = e /\ deferredIn'[v] # -1
    BY <2>1, <2>2 DEF HeadsFor
  <2>3. ASSUME NEW x \in EpochWriters, epochWriter'[x].pc \in {"push", "stuck"},
               epochWriter'[x].old = v, epochWriter'[x].epoch = e
        PROVE  HeadsFor(v, e) \/ (e = globalEpoch /\ Deferring)
    <3>1. CASE x = w
      BY <2>1, <2>3, <3>1 DEF EpochTypeOK
    <3>2. CASE x # w
      BY <2>1, <2>3, <3>2 DEF HeadsFor
    <3> QED BY <3>1, <3>2
  <2> QED BY <2>2, <2>3 DEF HeadsFor
<1>4. ASSUME NEW w \in EpochWriters, DeferPush(w) PROVE HeadsFor(v, e)
  <2>1. /\ epochWriter[w].pc = "push" /\ epochWriter[w].old \in 0..MaxVersion
        /\ deferredIn' = [deferredIn EXCEPT ![epochWriter[w].old] = epochWriter[w].epoch]
        /\ epochWriter'[w].pc = "idle"
        /\ \A x \in EpochWriters \ {w} : epochWriter'[x] = epochWriter[x]
    BY <1>4 DEF DeferPush, EpochTypeOK
  <2>2. CASE deferredIn'[v] = e /\ deferredIn'[v] # -1
    BY <2>1, <2>2 DEF HeadsFor, EpochTypeOK
  <2>3. CASE \E x \in EpochWriters : /\ epochWriter'[x].pc \in {"push", "stuck"}
                                    /\ epochWriter'[x].old = v /\ epochWriter'[x].epoch = e
    BY <2>1, <2>3 DEF HeadsFor
  <2> QED BY <2>2, <2>3 DEF HeadsFor
<1>5. ASSUME NEW w \in EpochWriters, DeferStuck(w) PROVE HeadsFor(v, e)
  <2>1. /\ deferredIn' = deferredIn /\ epochWriter[w].pc = "push"
        /\ \A x \in EpochWriters : epochWriter'[x].old = epochWriter[x].old
                                    /\ epochWriter'[x].epoch = epochWriter[x].epoch
        /\ \A x \in EpochWriters \ {w} : epochWriter'[x] = epochWriter[x]
    BY <1>5 DEF DeferStuck, reclaimer, EpochTypeOK
  <2> QED BY <2>1 DEF HeadsFor
<1> QED
  BY <1>1, <1>2, <1>3, <1>4, <1>5 DEF EpochNext, epochVars, reclaimer, EnterLoad, EnterCount,
     LoadPointer, DropGuard, ReaderStep, Advance, CheckReaders, DrainEpoch, AdvancerStep, Shutdown

\* What is shown heads for no epoch yet.
LEMMA ShownHeadsNowhere ==
  ASSUME EpochInv, NEW e PROVE ~HeadsFor(shown, e)
<1>1. shown \in 0..MaxVersion /\ shown \in Nat
  BY EpochAssumption DEF EpochInv, EpochTypeOK
<1>2. deferredIn[shown] = Unknown
  BY <1>1 DEF EpochInv, ListsMatch
<1>3. \A w \in EpochWriters : epochWriter[w].pc # "idle" => epochWriter[w].old # shown
  BY <1>1 DEF EpochInv, ThreadsCarry
<1> QED BY <1>2, <1>3 DEF HeadsFor

\* A reader that reads after a step read the same before, or has just loaded
\* the pointer.
LEMMA ReadingStep ==
  ASSUME EpochInv, [EpochNext]_epochVars, NEW r \in EpochReaders, Reads(r)'
  PROVE  /\ reader'[r].epoch = reader[r].epoch /\ reader[r].pc \in {"in", "reading"}
         /\ \/ Reads(r) /\ reader'[r].holds = reader[r].holds
            \/ /\ reader'[r].holds = shown
               /\ UNCHANGED <<globalEpoch, freed, epochWriter, advancer, deferredIn, forced>>
<1> USE DEF EpochInv, EpochTypeOK, Reads
<1>1. CASE UNCHANGED reader
  BY <1>1
<1>2. ASSUME NEW x \in EpochReaders, EnterLoad(x) PROVE reader'[r] = reader[r] /\ reader[r].pc = "reading"
  BY <1>2 DEF EnterLoad
<1>3. ASSUME NEW x \in EpochReaders, EnterCount(x) PROVE reader'[r] = reader[r] /\ reader[r].pc = "reading"
  BY <1>3 DEF EnterCount
<1>4. ASSUME NEW x \in EpochReaders, DropGuard(x) PROVE reader'[r] = reader[r] /\ reader[r].pc = "reading"
  BY <1>4 DEF DropGuard
<1>5. ASSUME NEW x \in EpochReaders, LoadPointer(x)
      PROVE  /\ reader'[r].epoch = reader[r].epoch /\ reader[r].pc \in {"in", "reading"}
             /\ reader'[r].holds = shown \/ (Reads(r) /\ reader'[r] = reader[r])
             /\ UNCHANGED <<globalEpoch, freed, epochWriter, advancer, deferredIn, forced>>
  BY <1>5 DEF LoadPointer, ReaderStep
<1> QED
  BY <1>1, <1>2, <1>3, <1>4, <1>5 DEF EpochNext, epochVars, Swap, DeferLoad, DeferPush,
     DeferStuck, Advance, CheckReaders, DrainEpoch, Shutdown, AdvancerStep

LEMMA PrecedeStep ==
  ASSUME EpochInv, [EpochNext]_epochVars
  PROVE  ReadersPrecede'
<1> SUFFICES ASSUME NEW r \in EpochReaders, NEW e \in 0..MaxEpochs, Reads(r)',
                    HeadsFor(reader[r].holds, e)'
             PROVE  reader'[r].epoch <= e /\ e <= globalEpoch'
  BY DEF ReadersPrecede
<1> DEFINE v == reader'[r].holds
<1>1. globalEpoch \in Nat /\ globalEpoch' \in Nat /\ globalEpoch <= globalEpoch'
  <2>1. EpochTypeOK'
    BY EpochTypeStep
  <2>2. \/ globalEpoch' = globalEpoch
        \/ \E a \in Advancers : Advance(a)
    BY DEF EpochNext, epochVars, reclaimer, EnterLoad, EnterCount, LoadPointer, DropGuard,
       ReaderStep, Swap, DeferLoad, DeferPush, DeferStuck, CheckReaders, DrainEpoch, Shutdown
  <2> QED BY <2>1, <2>2 DEF Advance, EpochInv, EpochTypeOK
<1>2. reader'[r].epoch <= globalEpoch /\ reader'[r].epoch \in Nat
  BY ReadingStep DEF EpochInv, ThreadsCarry, EpochTypeOK
<1>3. v \in 0..MaxVersion
  BY EpochTypeStep DEF EpochTypeOK, ThreadsCarry, Unknown
<1>4. CASE Reads(r) /\ v = reader[r].holds
  <2>1. HeadsFor(v, e) \/ e = globalEpoch
    BY <1>3, HeadsForStep
  <2> QED BY <1>1, <1>2, <1>4, <2>1, ReadingStep DEF EpochInv, ReadersPrecede
<1>5. CASE v = shown /\ UNCHANGED <<epochWriter, deferredIn>>
  <2>1. HeadsFor(shown, e)
    BY <1>5 DEF HeadsFor
  <2> QED BY <2>1, ShownHeadsNowhere
<1> QED BY <1>4, <1>5, ReadingStep

-----------------------------------------------------------------------------
(* One thread that advances.                                               *)

LEMMA CollectingStep ==
  ASSUME EpochInv, [EpochNext]_epochVars, OneAdvancer
  PROVE  Collecting'
<1> USE DEF EpochInv, Collecting
<1>1. CASE UNCHANGED <<advancer, globalEpoch>>
  BY <1>1
<1>2. ASSUME NEW a \in Advancers, Advance(a) PROVE Collecting'
  BY <1>2 DEF Advance, OneAdvancer, EpochTypeOK
<1>3. ASSUME NEW a \in Advancers, CheckReaders(a) \/ DrainEpoch(a) PROVE Collecting'
  <2>1. /\ globalEpoch' = globalEpoch /\ advancer[a].pc # "idle"
        /\ advancer'[a].epoch = advancer[a].epoch
        /\ \A b \in Advancers \ {a} : advancer'[b] = advancer[b]
    <3>1. CASE CheckReaders(a)
      BY <3>1 DEF CheckReaders, EpochTypeOK
    <3>2. CASE DrainEpoch(a)
      BY <3>2 DEF DrainEpoch, EpochTypeOK
    <3> QED BY <1>3, <3>1, <3>2
  <2> QED BY <2>1
<1> QED
  BY <1>1, <1>2, <1>3 DEF EpochNext, epochVars, reclaimer, EnterLoad, EnterCount, LoadPointer,
     DropGuard, ReaderStep, Swap, DeferLoad, DeferPush, DeferStuck, Shutdown

\* An advancer about to drain was so before, or has just found the list unread.
LEMMA DrainingStep ==
  ASSUME EpochInv, [EpochNext]_epochVars, OneAdvancer, NEW a \in Advancers,
         advancer'[a].pc = "drain"
  PROVE  /\ globalEpoch' = globalEpoch /\ Target(a)' = Target(a)
         /\ \/ advancer[a].pc = "drain"
            \/ readerCount[Target(a)] = 0 /\ UNCHANGED <<reader, epochWriter, deferredIn>>
<1> USE DEF EpochInv, EpochTypeOK
<1>1. ASSUME UNCHANGED <<advancer, globalEpoch>>
      PROVE  globalEpoch' = globalEpoch /\ Target(a)' = Target(a) /\ advancer[a].pc = "drain"
  BY <1>1 DEF Target
<1>2. ASSUME NEW b \in Advancers, Advance(b) PROVE FALSE
  BY <1>2 DEF Advance, OneAdvancer
<1>3. ASSUME NEW b \in Advancers, DrainEpoch(b) PROVE FALSE
  BY <1>3 DEF DrainEpoch, OneAdvancer
<1>4. ASSUME NEW b \in Advancers, CheckReaders(b)
      PROVE  /\ globalEpoch' = globalEpoch /\ Target(a)' = Target(a)
             /\ readerCount[Target(a)] = 0 /\ UNCHANGED <<reader, epochWriter, deferredIn>>
  <2>1. b = a
    BY DEF OneAdvancer
  <2>2. /\ advancer' = [advancer EXCEPT ![a].pc =
               IF readerCount[Target(a)] = 0 THEN "drain" ELSE "idle"]
        /\ UNCHANGED <<globalEpoch, reader, epochWriter, deferredIn>>
    BY <1>4, <2>1 DEF CheckReaders, AdvancerStep
  <2>3. /\ advancer'[a].epoch = advancer[a].epoch /\ advancer'[a].offset = advancer[a].offset
        /\ advancer'[a].pc = IF readerCount[Target(a)] = 0 THEN "drain" ELSE "idle"
    BY <2>2
  <2>4. readerCount[Target(a)] = 0
    BY <2>3
  <2> QED BY <2>2, <2>3, <2>4 DEF Target
<1> QED
  BY <1>1, <1>2, <1>3, <1>4 DEF EpochNext, epochVars, reclaimer, EnterLoad, EnterCount, LoadPointer,
     DropGuard, ReaderStep, Swap, DeferLoad, DeferPush, DeferStuck, Shutdown

LEMMA LateStep ==
  ASSUME EpochInv, [EpochNext]_epochVars, OneAdvancer
  PROVE  LateReaders'
<1> SUFFICES ASSUME NEW a \in Advancers, NEW r \in EpochReaders, NEW e \in 0..MaxEpochs,
                    advancer'[a].pc = "drain", Reads(r)',
                    Index(reader'[r].epoch) = Target(a)', HeadsFor(reader[r].holds, e)'
             PROVE  e = globalEpoch'
  BY DEF LateReaders
<1> DEFINE v == reader'[r].holds
<1>1. globalEpoch' = globalEpoch /\ Target(a)' = Target(a)
  BY DrainingStep
<1>2. v \in 0..MaxVersion
  BY EpochTypeStep DEF EpochTypeOK, ThreadsCarry, Unknown
<1>3. r \in Inside(Target(a))
  BY <1>1, ReadingStep DEF Inside
<1>4. readerCount[Target(a)] # 0
  <2>1. Target(a) \in Slots
    BY ListsInRing DEF EpochInv
  <2> QED BY <2>1, <1>3, FS_EmptySet DEF EpochInv, ReadersCounted
<1>5. CASE advancer[a].pc = "drain" /\ Reads(r) /\ v = reader[r].holds
  <2>1. HeadsFor(v, e) \/ e = globalEpoch
    BY <1>2, HeadsForStep
  <2>2. Index(reader[r].epoch) = Target(a)
    BY <1>1, ReadingStep
  <2> QED BY <1>1, <1>5, <2>1, <2>2 DEF EpochInv, LateReaders
<1>6. CASE v = shown /\ UNCHANGED <<epochWriter, deferredIn>>
  <2>1. HeadsFor(shown, e)
    BY <1>6 DEF HeadsFor
  <2> QED BY <2>1, ShownHeadsNowhere
<1> QED BY <1>4, <1>5, <1>6, ReadingStep, DrainingStep

\* A step frees the version a reader holds only by draining its list, unless
\* lists are drained without a look at the readers.
LEMMA SafeStep ==
  ASSUME EpochInv, [EpochNext]_epochVars, OneAdvancer
  PROVE  SameEpochIsSafe'
<1> SUFFICES ASSUME ~forced', NEW r \in EpochReaders, Loses(r)',
                    reader'[r].epoch = deferredIn'[reader'[r].holds]
             PROVE  FALSE
  BY DEF SameEpochIsSafe
<1> USE DEF Unknown
<1> DEFINE v == reader'[r].holds
           d == deferredIn'[v]
<1>1. /\ EpochTypeOK' /\ ThreadsCarry' /\ ListsMatch'
  BY EpochTypeStep, VersionsStep
<1>2. v \in freed' /\ v \in 0..MaxVersion /\ Reads(r)' /\ d # -1 /\ d \in 0..MaxEpochs
  <2>1. v \in freed' /\ v \in 0..MaxVersion
    BY <1>1 DEF Loses, EpochTypeOK
  <2>2. Reads(r)'
    BY <1>1, <2>1, EpochAssumption DEF ThreadsCarry
  <2>3. d # -1 /\ d \in 0..MaxEpochs
    BY <1>1, <2>1, EpochAssumption DEF ListsMatch, EpochTypeOK
  <2> QED BY <2>1, <2>2, <2>3
<1>3. CASE v = shown /\ UNCHANGED <<freed, deferredIn>>
  BY <1>2, <1>3, EpochAssumption DEF EpochInv, ListsMatch, EpochTypeOK
<1>4. CASE Reads(r) /\ v = reader[r].holds
  <2>1. reader'[r].epoch = reader[r].epoch /\ reader[r].epoch = d
    BY <1>2, ReadingStep
  <2>2. CASE freed' = freed
    <3>1. deferredIn[v] # -1 /\ deferredIn[v] # d
      <4>1. ~forced
        BY <2>2 DEF EpochNext, epochVars, EnterLoad, EnterCount, LoadPointer, DropGuard,
           ReaderStep, Swap, DeferLoad, DeferPush, DeferStuck, Advance, CheckReaders, DrainEpoch,
           Shutdown, AdvancerStep
      <4> QED BY <4>1, <1>2, <1>4, <2>1, <2>2 DEF EpochInv, SameEpochIsSafe, Loses, ListsMatch
    <3>2. deferredIn' # deferredIn
      BY <3>1
    <3>3. PICK w \in EpochWriters : DeferPush(w)
      BY <3>2 DEF EpochNext, epochVars, EnterLoad, EnterCount, LoadPointer, DropGuard,
         ReaderStep, Swap, DeferLoad, DeferStuck, Advance, CheckReaders, DrainEpoch,
         Shutdown, AdvancerStep
    <3> QED BY <3>1, <3>3, <1>2 DEF DeferPush, EpochInv, ThreadsCarry, EpochTypeOK
  <2>3. CASE freed' # freed
    <3>1. PICK a \in Advancers : DrainEpoch(a)
      BY <2>3 DEF EpochNext, epochVars, reclaimer, EnterLoad, EnterCount, LoadPointer, DropGuard,
         ReaderStep, Swap, DeferLoad, DeferPush, DeferStuck, Advance, CheckReaders,
         Shutdown, AdvancerStep
    <3>2. /\ advancer[a].pc = "drain" /\ freed' = freed \union pending[Target(a)]
          /\ UNCHANGED <<deferredIn, forced, reader>>
      BY <3>1 DEF DrainEpoch, Drain, AdvancerStep
    <3>3. v \notin freed
      BY <3>2, <1>4, <2>1 DEF EpochInv, SameEpochIsSafe, Loses
    <3>4. v \in pending[Target(a)] /\ Target(a) \in Slots
      BY <3>2, <3>3, <1>2, ListsInRing DEF EpochInv
    <3>5. Index(d) = Target(a) /\ deferredIn[v] = d
      BY <3>2, <3>4 DEF EpochInv, ListsMatch
    <3>6. HeadsFor(reader[r].holds, d)
      BY <1>2, <1>4, <3>5 DEF HeadsFor
    <3>7. d = globalEpoch
      BY <3>2, <3>5, <3>6, <2>1, <1>2, <1>4 DEF EpochInv, LateReaders
    <3>8. /\ advancer[a].epoch = globalEpoch /\ globalEpoch \in Nat
          /\ advancer[a].offset \in 2..Epochs - 1
      BY <3>2, EpochAssumption DEF EpochInv, Collecting, ThreadsCarry, EpochTypeOK
    <3> QED BY <3>5, <3>7, <3>8, IndexApart DEF Target
  <2> QED BY <2>2, <2>3
<1> QED BY <1>2, <1>3, <1>4, ReadingStep

-----------------------------------------------------------------------------

LEMMA InitEpochInv == EpochInit => EpochInv
<1> SUFFICES ASSUME EpochInit PROVE EpochInv
  OBVIOUS
<1> USE EpochAssumption DEF EpochInit, Unknown
<1>1. EpochTypeOK
  <2>1. /\ reader \in [EpochReaders -> [pc : {"out", "entering", "in", "reading"},
                                         epoch : 0..MaxEpochs, holds : -1..MaxVersion]]
        /\ epochWriter \in [EpochWriters -> [pc : {"idle", "load", "push", "stuck"},
                                              epoch : 0..MaxEpochs, old : -1..MaxVersion]]
    OBVIOUS
  <2>2. advancer \in [Advancers -> [pc : {"idle", "check", "drain"},
                                    epoch : 0..MaxEpochs, offset : 2..Epochs]]
    OBVIOUS
  <2>3. /\ readerCount \in [0..Epochs - 1 -> Nat]
        /\ pending \in [0..Epochs - 1 -> SUBSET (0..MaxVersion)]
        /\ deferredIn \in [0..MaxVersion -> -1..MaxEpochs]
    OBVIOUS
  <2>4. globalEpoch \in 0..MaxEpochs /\ shown \in 0..MaxVersion
    BY SMT
  <2>5. freed \subseteq 0..MaxVersion
    OBVIOUS
  <2>6. forced \in BOOLEAN
    OBVIOUS
  <2> HIDE DEF EpochInit
  <2> QED BY <2>1, <2>2, <2>3, <2>4, <2>5, <2>6 DEF EpochTypeOK
<1>2. ThreadsCarry /\ ReplacedOnce /\ ListsMatch
  BY DEF ThreadsCarry, ReplacedOnce, ListsMatch, Reads, Slots
<1>3. ReadersCounted
  <2>1. \A i \in Slots : Inside(i) = {} /\ readerCount[i] = 0
    BY DEF Inside, Slots
  <2> QED BY <2>1, FS_EmptySet DEF ReadersCounted
<1>4. ReadersPrecede /\ Collecting /\ LateReaders /\ SameEpochIsSafe
  BY DEF ReadersPrecede, Reads, Collecting, LateReaders, SameEpochIsSafe, Loses
<1> QED BY <1>1, <1>2, <1>3, <1>4 DEF EpochInv

LEMMA NextEpochInv == EpochInv /\ [EpochNext]_epochVars => EpochInv'
<1>1. OneAdvancer' <=> OneAdvancer
  BY DEF OneAdvancer
<1> QED
  BY <1>1, EpochTypeStep, VersionsStep, CountedStep, PrecedeStep, CollectingStep, LateStep, SafeStep
     DEF EpochInv

LEMMA SpecEpochInv == EpochSpec => []EpochInv
  BY InitEpochInv, NextEpochInv, PTL DEF EpochSpec

\* The reclaimer's counters, lists and threads stay in the states the code names;
\* no reader count goes below zero.
THEOREM EpochTypeCorrect == EpochSpec => []EpochTypeOK
<1>1. EpochInv => EpochTypeOK
  BY DEF EpochInv
<1> QED BY <1>1, SpecEpochInv, PTL

\* What a reader loses was deferred in a later epoch than its own.
LEMMA LostToLater ==
  ASSUME EpochInv, OneAdvancer, ~forced, NEW r \in EpochReaders, Loses(r)
  PROVE  LET d == deferredIn[reader[r].holds]
         IN  Reads(r) /\ HeadsFor(reader[r].holds, d) /\ d \in 0..MaxEpochs /\ reader[r].epoch < d
<1> USE EpochAssumption DEF EpochInv, Unknown
<1> DEFINE v == reader[r].holds
<1>1. v \in 0..MaxVersion /\ deferredIn[v] # -1 /\ deferredIn[v] \in 0..MaxEpochs
  BY DEF Loses, ListsMatch, EpochTypeOK
<1>2. Reads(r)
  BY <1>1 DEF ThreadsCarry
<1>3. HeadsFor(v, deferredIn[v])
  BY <1>1 DEF HeadsFor
<1>4. reader[r].epoch <= deferredIn[v]
  BY <1>1, <1>2, <1>3 DEF ReadersPrecede
<1>5. reader[r].epoch # deferredIn[v] /\ reader[r].epoch \in Nat
  BY DEF SameEpochIsSafe, EpochTypeOK
<1> QED BY <1>1, <1>2, <1>3, <1>4, <1>5

\* Epochs are chosen from those begun so far, and what the one advancer freed is
\* of an epoch before the last one.
AgedInv ==
  /\ EpochInv
  /\ \A w \in EpochWriters : epochWriter[w].epoch <= globalEpoch
  /\ \A v \in 0..MaxVersion : deferredIn[v] <= globalEpoch
  /\ OneAdvancer /\ ~forced => \A v \in freed : deferredIn[v] <= globalEpoch - 2

\* A list that is drained holds nothing of the last two epochs.
LEMMA DrainedIsOld ==
  ASSUME AgedInv, OneAdvancer, NEW a \in Advancers, advancer[a].pc = "drain",
         NEW v \in pending[Target(a)]
  PROVE  deferredIn[v] <= globalEpoch - 2
<1> USE EpochAssumption
<1>1. /\ advancer[a].epoch = globalEpoch /\ globalEpoch \in Nat
      /\ advancer[a].offset \in 2..Epochs - 1
  BY DEF AgedInv, EpochInv, Collecting, ThreadsCarry, EpochTypeOK
<1>2. Target(a) \in Slots /\ v \in 0..MaxVersion
  BY ListsInRing DEF AgedInv, EpochInv, EpochTypeOK, Slots
<1>3. Index(deferredIn[v]) = Target(a) /\ deferredIn[v] <= globalEpoch /\ deferredIn[v] \in Int
  BY <1>2 DEF AgedInv, EpochInv, EpochTypeOK, ListsMatch
<1>4. Index(globalEpoch - advancer[a].offset) # Index(globalEpoch)
  <2>1. globalEpoch \in Int /\ advancer[a].offset \in 1..Epochs - 1
    BY <1>1
  <2> QED BY <2>1, IndexApart
<1>5. Index(globalEpoch - advancer[a].offset) # Index(globalEpoch - 1)
  <2>1. globalEpoch - 1 \in Int /\ advancer[a].offset - 1 \in 1..Epochs - 1
    BY <1>1
  <2>2. (globalEpoch - 1) - (advancer[a].offset - 1) = globalEpoch - advancer[a].offset
    BY <1>1
  <2> QED BY <2>1, <2>2, IndexApart
<1> QED BY <1>1, <1>3, <1>4, <1>5 DEF Target

LEMMA NextAgedInv == AgedInv /\ [EpochNext]_epochVars => AgedInv'
<1> SUFFICES ASSUME AgedInv, [EpochNext]_epochVars PROVE AgedInv'
  OBVIOUS
<1>1. EpochInv /\ EpochInv'
  BY NextEpochInv DEF AgedInv
<1>t. EpochTypeOK
  BY <1>1 DEF EpochInv
<1> USE EpochAssumption
<1>g. globalEpoch \in Nat
  BY <1>t DEF EpochTypeOK
<1>2. CASE UNCHANGED <<globalEpoch, epochWriter, deferredIn, freed, forced>>
  BY <1>1, <1>2 DEF AgedInv, OneAdvancer
<1>3. ASSUME NEW w \in EpochWriters, Swap(w) \/ DeferLoad(w) \/ DeferStuck(w) PROVE AgedInv'
  <2>1. UNCHANGED <<globalEpoch, deferredIn, freed, forced>>
    BY <1>3 DEF Swap, DeferLoad, DeferStuck, reclaimer
  <2>2. /\ epochWriter'[w].epoch \in {epochWriter[w].epoch, globalEpoch}
        /\ \A x \in EpochWriters \ {w} : epochWriter'[x] = epochWriter[x]
    <3>1. epochWriter \in [EpochWriters -> [pc : {"idle", "load", "push", "stuck"},
                                           epoch : 0..MaxEpochs, old : -1..MaxVersion]]
      BY <1>t DEF EpochTypeOK
    <3> QED BY <1>3, <3>1 DEF Swap, DeferLoad, DeferStuck
  <2> QED BY <1>1, <1>g, <2>1, <2>2 DEF AgedInv, OneAdvancer
<1>4. ASSUME NEW w \in EpochWriters, DeferPush(w) PROVE AgedInv'
  <2>1. /\ globalEpoch' = globalEpoch /\ epochWriter[w].pc = "push"
        /\ epochWriter'[w].epoch = 0
        /\ \A x \in EpochWriters \ {w} : epochWriter'[x] = epochWriter[x]
        /\ epochWriter[w].old \in 0..MaxVersion
        /\ deferredIn[epochWriter[w].old] = -1
        /\ deferredIn' = [deferredIn EXCEPT ![epochWriter[w].old] = epochWriter[w].epoch]
    <3>1. epochWriter \in [EpochWriters -> [pc : {"idle", "load", "push", "stuck"},
                                           epoch : 0..MaxEpochs, old : -1..MaxVersion]]
      BY <1>t DEF EpochTypeOK
    <3>2. epochWriter[w].pc = "push" /\ shown \in 0..MaxVersion
      BY <1>4, <1>t DEF DeferPush, EpochTypeOK
    <3>3. epochWriter[w].old \in 0..shown - 1 /\ deferredIn[epochWriter[w].old] = -1
      BY <1>1, <3>2 DEF EpochInv, ThreadsCarry, Unknown
    <3> QED BY <1>4, <3>1, <3>2, <3>3 DEF DeferPush
  <2>f. ~forced' => ~forced /\ freed' = freed
    BY <1>4 DEF DeferPush
  <2>d. deferredIn \in [0..MaxVersion -> -1..MaxEpochs]
    BY <1>t DEF EpochTypeOK
  <2>2. /\ \A x \in EpochWriters : epochWriter'[x].epoch <= globalEpoch'
        /\ \A v \in 0..MaxVersion : deferredIn'[v] <= globalEpoch'
    BY <1>g, <2>1, <2>d DEF AgedInv
  <2>3. \A v \in freed : deferredIn'[v] = deferredIn[v]
    <3>1. \A v \in freed : v # epochWriter[w].old
      BY <1>1, <2>1 DEF EpochInv, ListsMatch, Unknown
    <3> QED BY <2>1, <2>d, <3>1
  <2> QED BY <1>1, <2>1, <2>f, <2>2, <2>3 DEF AgedInv, OneAdvancer
<1>5. ASSUME NEW a \in Advancers, Advance(a) PROVE AgedInv'
  <2>1. globalEpoch' = globalEpoch + 1 /\ UNCHANGED <<epochWriter, deferredIn, freed, forced>>
    BY <1>5 DEF Advance, AdvancerStep
  <2>2. /\ \A w \in EpochWriters : epochWriter[w].epoch \in Nat
        /\ \A v \in 0..MaxVersion : deferredIn[v] \in Int
        /\ freed \subseteq 0..MaxVersion
    BY <1>t DEF EpochTypeOK
  <2>3. /\ \A w \in EpochWriters : epochWriter[w].epoch <= globalEpoch + 1
        /\ \A v \in 0..MaxVersion : deferredIn[v] <= globalEpoch + 1
    BY <1>g, <2>2 DEF AgedInv
  <2>4. ASSUME OneAdvancer, ~forced, NEW v \in freed PROVE deferredIn[v] <= (globalEpoch + 1) - 2
    <3>1. deferredIn[v] <= globalEpoch - 2
      BY <2>4 DEF AgedInv
    <3> QED BY <3>1, <1>g, <2>2
  <2> QED
    <3>1. UNCHANGED <<OneAdvancer, forced, freed, deferredIn, epochWriter>> /\ globalEpoch' = globalEpoch + 1
      BY <2>1 DEF OneAdvancer
    <3> HIDE DEF OneAdvancer
    <3> QED BY <1>1, <2>3, <2>4, <3>1 DEF AgedInv
<1>6. ASSUME NEW a \in Advancers, DrainEpoch(a) PROVE AgedInv'
  <2>1. /\ UNCHANGED <<globalEpoch, epochWriter, deferredIn, forced>>
        /\ advancer[a].pc = "drain" /\ freed' = freed \union pending[Target(a)]
    BY <1>6 DEF DrainEpoch, Drain, AdvancerStep
  <2> QED BY <1>1, <2>1, DrainedIsOld DEF AgedInv, OneAdvancer
<1>7. ASSUME Shutdown PROVE AgedInv'
  BY <1>1, <1>7 DEF Shutdown, AgedInv, OneAdvancer
<1> QED
  BY <1>2, <1>3, <1>4, <1>5, <1>6, <1>7 DEF EpochNext, epochVars, reclaimer, EnterLoad, EnterCount,
     LoadPointer, DropGuard, ReaderStep, CheckReaders, AdvancerStep

\* With one thread that advances and no list emptied by force, a reader loses
\* what it reads only to a later epoch than its own, which ended before the last
\* one did (enter, defer, try_gc).
THEOREM OlderReadersLose == EpochSpec => []OnlyOlderReadersLose
<1>1. EpochInit => AgedInv
  BY InitEpochInv DEF EpochInit, AgedInv, Unknown
<1>2. AgedInv => OnlyOlderReadersLose
  <2> SUFFICES ASSUME AgedInv, OneAdvancer, ~forced, NEW r \in EpochReaders, Loses(r)
               PROVE  LET d == deferredIn[reader[r].holds]
                      IN  reader[r].epoch < d /\ d <= globalEpoch - 2
    BY DEF OnlyOlderReadersLose, OneAdvancer
  <2>1. EpochInv
    BY DEF AgedInv
  <2> QED BY <2>1, LostToLater DEF AgedInv, Loses
<1> QED BY <1>1, <1>2, NextAgedInv, PTL DEF EpochSpec

-----------------------------------------------------------------------------
(* Conditions under which nobody reads what was freed.                     *)

\* What somebody reads is deferred in no later epoch than the reader's.
PeersInv ==
  EpochInv /\ \A r \in EpochReaders, e \in 0..MaxEpochs :
    Reads(r) /\ HeadsFor(reader[r].holds, e) => e <= reader[r].epoch

LEMMA NextPeersInv == PeersInv /\ [EpochNext /\ DeferredAmongPeers]_epochVars => PeersInv'
<1> SUFFICES ASSUME PeersInv, [EpochNext]_epochVars, DeferredAmongPeers \/ UNCHANGED epochVars
             PROVE  PeersInv'
  OBVIOUS
<1>1. EpochInv /\ EpochInv'
  BY NextEpochInv DEF PeersInv
<1> SUFFICES ASSUME NEW r \in EpochReaders, NEW e \in 0..MaxEpochs, Reads(r)',
                    HeadsFor(reader[r].holds, e)'
             PROVE  e <= reader'[r].epoch
  BY <1>1 DEF PeersInv
<1> DEFINE v == reader'[r].holds
<1>2. v \in 0..MaxVersion
  BY <1>1, EpochTypeStep DEF EpochTypeOK, ThreadsCarry, Unknown
<1>g. globalEpoch \in Nat
  BY <1>1, EpochAssumption DEF EpochInv, EpochTypeOK
<1>3. CASE Reads(r) /\ v = reader[r].holds
  <2>1. CASE HeadsFor(v, e)
    BY <1>1, <1>3, <2>1, ReadingStep DEF PeersInv
  <2>2. CASE e = globalEpoch /\ Deferring
    <3>1. DeferredAmongPeers
      BY <2>2 DEF epochVars, Deferring
    <3>2. reader[r].epoch = globalEpoch
      BY <1>3, <2>2, <3>1 DEF DeferredAmongPeers, Deferring, Reads
    <3>3. reader'[r].epoch = reader[r].epoch
      BY <1>1, ReadingStep
    <3> QED BY <1>g, <2>2, <3>2, <3>3
  <2> QED BY <1>1, <1>2, <2>1, <2>2, HeadsForStep
<1>4. CASE v = shown /\ UNCHANGED <<epochWriter, deferredIn>>
  <2>1. HeadsFor(shown, e)
    BY <1>4 DEF HeadsFor
  <2> QED BY <1>1, <2>1, ShownHeadsNowhere
<1> QED BY <1>1, <1>3, <1>4, ReadingStep

\* If weights are only deferred while all readers are of the current epoch, the
\* one thread that advances frees none that somebody reads, however long the
\* readers stay (enter, defer, try_gc).
THEOREM PeersLoseNothing ==
  ASSUME OneAdvancer
  PROVE  PeerReadersSpec => []FreedIsUnread
<1>1. EpochInit => PeersInv
  BY InitEpochInv DEF EpochInit, PeersInv, Reads
<1>2. PeersInv => FreedIsUnread
  <2> SUFFICES ASSUME PeersInv, ~forced, NEW r \in EpochReaders, Loses(r) PROVE FALSE
    BY DEF FreedIsUnread
  <2> DEFINE d == deferredIn[reader[r].holds]
  <2>1. EpochInv /\ reader[r].epoch \in Nat
    BY EpochAssumption DEF PeersInv, EpochInv, EpochTypeOK
  <2>2. Reads(r) /\ HeadsFor(reader[r].holds, d) /\ d \in 0..MaxEpochs /\ reader[r].epoch < d
    BY <2>1, LostToLater
  <2>3. d <= reader[r].epoch
    BY <2>2 DEF PeersInv
  <2> QED BY <2>1, <2>2, <2>3, EpochAssumption
<1> QED BY <1>1, <1>2, NextPeersInv, PTL DEF PeerReadersSpec

\* Readers are of the current epoch or of the one before.
PromptInv ==
  AgedInv /\ \A r \in EpochReaders : reader[r].pc # "out" => globalEpoch <= reader[r].epoch + 1

LEMMA NextPromptInv == PromptInv /\ [EpochNext /\ ReadersArePrompt]_epochVars => PromptInv'
<1> SUFFICES ASSUME PromptInv, [EpochNext]_epochVars, ReadersArePrompt \/ UNCHANGED epochVars
             PROVE  PromptInv'
  OBVIOUS
<1>1. AgedInv /\ AgedInv'
  BY NextAgedInv DEF PromptInv
<1>t. /\ globalEpoch \in Nat
      /\ reader \in [EpochReaders -> [pc : {"out", "entering", "in", "reading"},
                                     epoch : 0..MaxEpochs, holds : -1..MaxVersion]]
  BY <1>1, EpochAssumption DEF AgedInv, EpochInv, EpochTypeOK
<1> SUFFICES ASSUME NEW r \in EpochReaders, reader'[r].pc # "out"
             PROVE  globalEpoch' <= reader'[r].epoch + 1
  BY <1>1 DEF PromptInv
<1>2. CASE globalEpoch' = globalEpoch
  <2>1. \/ reader'[r].epoch = globalEpoch
        \/ reader[r].pc # "out" /\ reader'[r].epoch = reader[r].epoch
    <3>1. CASE UNCHANGED reader
      BY <3>1
    <3>2. ASSUME NEW x \in EpochReaders, EnterLoad(x) \/ EnterCount(x) \/ LoadPointer(x) \/ DropGuard(x)
          PROVE  \/ reader'[r].epoch = globalEpoch
                 \/ reader[r].pc # "out" /\ reader'[r].epoch = reader[r].epoch
      BY <1>t, <3>2 DEF EnterLoad, EnterCount, LoadPointer, DropGuard
    <3> QED BY <3>1, <3>2 DEF EpochNext, epochVars, Swap, DeferLoad, DeferPush, DeferStuck, Advance,
               CheckReaders, DrainEpoch, Shutdown, AdvancerStep
  <2> QED BY <1>t, <1>2, <2>1 DEF PromptInv
<1>3. CASE globalEpoch' # globalEpoch
  <2>1. PICK a \in Advancers : Advance(a)
    BY <1>3 DEF EpochNext, epochVars, reclaimer, EnterLoad, EnterCount, LoadPointer, DropGuard,
       ReaderStep, Swap, DeferLoad, DeferPush, DeferStuck, CheckReaders, DrainEpoch,
       Shutdown, AdvancerStep
  <2>2. globalEpoch' = globalEpoch + 1 /\ reader' = reader
    BY <2>1 DEF Advance, AdvancerStep
  <2>3. reader[r].epoch = globalEpoch
    BY <1>3, <2>2 DEF ReadersArePrompt, epochVars, reclaimer
  <2> QED BY <1>t, <2>2, <2>3
<1> QED BY <1>2, <1>3

\* "When no readers are in old epochs, queued data is safely freed": if an epoch
\* only ends when the readers of those before it are out, the one thread that
\* advances frees nothing that somebody reads (advance, try_gc).
THEOREM PromptReadersLoseNothing ==
  ASSUME OneAdvancer
  PROVE  PromptReadersSpec => []FreedIsUnread
<1>1. EpochInit => PromptInv
  <2> SUFFICES ASSUME EpochInit PROVE PromptInv
    OBVIOUS
  <2>1. EpochInv
    BY InitEpochInv
  <2> QED BY <2>1 DEF EpochInit, PromptInv, AgedInv, Unknown
<1>2. PromptInv => FreedIsUnread
  <2> SUFFICES ASSUME PromptInv, ~forced, NEW r \in EpochReaders, Loses(r) PROVE FALSE
    BY DEF FreedIsUnread
  <2> DEFINE d == deferredIn[reader[r].holds]
  <2>1. /\ EpochInv /\ EpochTypeOK /\ AgedInv
    BY DEF PromptInv, AgedInv, EpochInv
  <2>2. Reads(r) /\ d \in 0..MaxEpochs /\ reader[r].epoch < d
    BY <2>1, LostToLater
  <2>3. d <= globalEpoch - 2 /\ globalEpoch <= reader[r].epoch + 1
    BY <2>1, <2>2 DEF PromptInv, AgedInv, Loses, Reads
  <2> QED BY <2>1, <2>2, <2>3, EpochAssumption DEF EpochTypeOK
<1> QED BY <1>1, <1>2, NextPromptInv, PTL DEF PromptReadersSpec

-----------------------------------------------------------------------------
(* The parts beside each other, for any values of their constants.         *)

\* A behaviour of the whole is one of every part.
LEMMA PartsOfSharedMemory ==
  MCSpec => LiveSpec /\ Spec /\ LeaseSpec /\ QueueSpec /\ EpochSpec
<1>1. MCInit => LiveInit /\ Init /\ LeaseInit /\ QueueInit /\ EpochInit
  BY DEF MCInit
<1>2. [MCNext]_<<part, All>> =>
        /\ [LiveNext]_liveVars /\ [Next]_vars /\ [LeaseNext]_leaseVars
        /\ [QueueNext]_queueVars /\ [EpochNext]_epochVars
  BY DEF MCNext, All
<1> QED BY <1>1, <1>2, PTL DEF MCSpec, LiveSpec, Spec, LeaseSpec, QueueSpec, EpochSpec

\* Whichever part runs, all that its threads share stays in the states the code
\* names.
THEOREM SharedMemoryTypeCorrect ==
  ASSUME Capacity >= 2
  PROVE  MCSpec => []TypesOK
<1>1. LeaseTypeInv => LeaseTypeOK
  BY DEF LeaseTypeInv
<1>2. LeaseSpec => []LeaseTypeOK
  BY <1>1, LeaseTypeCorrect, PTL
<1>3. QueueSpec => []QueueTypeOK
  BY QueueTypeCorrect
<1>4. LiveTypeOK /\ TypeOK /\ LeaseTypeOK /\ QueueTypeOK /\ EpochTypeOK => TypesOK
  BY DEF TypesOK
<1> QED BY <1>2, <1>3, <1>4, PartsOfSharedMemory, LiveTypeCorrect, FencerTypeCorrect,
           EpochTypeCorrect, PTL
=============================================================================
