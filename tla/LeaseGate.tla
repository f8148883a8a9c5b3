----------------------------- MODULE LeaseGate -----------------------------
(***************************************************************************)
(* The authority gate of nexus_swarm (gating/leader_lease_token.rs): lease *)
(* tokens, the gate that holds the current one, and the threads that sign  *)
(* orders through execute_with_lease while others renew, extend, revoke    *)
(* and clear.  One action per atomic access that another thread can see.   *)
(*                                                                         *)
(* A signing call reads signing_enabled; takes the read lock, finds the    *)
(* token and reads the clock, the expiry and the revoked flag; reads the   *)
(* epoch and drops the lock; and only then runs the closure.  renew and    *)
(* extend take no lock: they check, store the expiry, then add to the      *)
(* epoch.  set_token checks the token, then stores it and the flag under   *)
(* the write lock, as clear_token does; signing_enabled is read without.   *)
(* The reads of a check in set_token, renew and extend are one step: what  *)
(* they found may be over before they store anyway.  The epoch a signer    *)
(* reads only labels what it signs and is left out.                        *)
(***************************************************************************)
EXTENDS Integers, FiniteSets

CONSTANTS
  Signers,      \* threads calling execute_with_lease
  Keepers,      \* threads calling renew and extend
  Tokens,       \* tokens ever issued, each to be set at most once at a time
  Duration,     \* what new and renew add to the clock, and extend to the expiry
  MaxTime,      \* bound on the clock
  MaxEpoch      \* bound on renewals

NoToken == "none"

ASSUME LeaseAssumption ==
  /\ Duration \in Nat \ {0} /\ MaxTime \in Nat /\ MaxEpoch \in Nat
  /\ NoToken \notin Tokens

VARIABLES
  now,
  expiresAt, revoked, epoch,   \* the token fields, per token; epoch 0: not issued
  current, signingEnabled,     \* the gate
  writer,      \* what the holder of the write lock still has to store
  setting,     \* the token set_token has checked
  signer,      \* each signer: where it is, the token and the time it works with
  keeper,      \* each keeper: where it is, its token, the expiry it will store
  wasValid,    \* history: has the signer's token been valid during its call?
  cleared      \* history: was the gate empty when the call began?

tokenVars == <<expiresAt, revoked, epoch>>
gateVars  == <<current, signingEnabled, writer, setting>>
leaseVars == <<now, tokenVars, gateVars, signer, keeper, wasValid, cleared>>

IsValid(t) == ~revoked[t] /\ now < expiresAt[t]
Issued(t)  == epoch[t] > 0

LeaseInit ==
  /\ now = 0
  /\ expiresAt = [t \in Tokens |-> 0]
  /\ revoked = [t \in Tokens |-> FALSE]
  /\ epoch = [t \in Tokens |-> 0]
  /\ current = NoToken /\ signingEnabled = FALSE
  /\ writer = "none" /\ setting = NoToken
  /\ signer = [s \in Signers |-> [pc |-> "idle", token |-> NoToken, time |-> 0]]
  /\ keeper = [k \in Keepers |-> [pc |-> "idle", token |-> NoToken, expiry |-> 0]]
  /\ wasValid = [s \in Signers |-> FALSE]
  /\ cleared = [s \in Signers |-> FALSE]

\* History: in the state after the step, which calls have seen their token valid.
Observe ==
  wasValid' = [s \in Signers |->
    \/ wasValid[s] /\ signer'[s].pc # "idle"
    \/ LET t == signer'[s].token IN
       t # NoToken /\ ~revoked'[t] /\ now' < expiresAt'[t]]

-----------------------------------------------------------------------------
(* Tokens and the clock.                                                   *)

TokenStep == UNCHANGED <<now, gateVars, signer, keeper, cleared>> /\ Observe

\* LeaderLeaseToken::new
IssueToken(t) ==
  /\ ~Issued(t)
  /\ expiresAt' = [expiresAt EXCEPT ![t] = now + Duration]
  /\ epoch' = [epoch EXCEPT ![t] = 1]
  /\ UNCHANGED revoked /\ TokenStep

Revoke(t) ==
  /\ Issued(t)
  /\ revoked' = [revoked EXCEPT ![t] = TRUE]
  /\ UNCHANGED <<expiresAt, epoch>> /\ TokenStep

LeaseTick ==
  /\ now < MaxTime /\ now' = now + 1
  /\ UNCHANGED <<tokenVars, gateVars, signer, keeper, cleared>> /\ Observe

-----------------------------------------------------------------------------
(* The gate.                                                               *)

GateStep == UNCHANGED <<now, tokenVars, signer, keeper, cleared>> /\ Observe

\* A signer holds the read lock while it validates the token.
Reading == \E s \in Signers : signer[s].pc \in {"locked", "unexpired"}

\* set_token: the validity check, then the two stores under the write lock.
SetTokenCheck(t) ==
  /\ setting = NoToken /\ Issued(t) /\ IsValid(t)
  /\ setting' = t
  /\ UNCHANGED <<current, signingEnabled, writer>> /\ GateStep

SetTokenStore ==
  /\ setting # NoToken /\ writer = "none" /\ ~Reading
  /\ current' = setting /\ setting' = NoToken /\ writer' = "enabling"
  /\ UNCHANGED signingEnabled /\ GateStep

\* clear_token: likewise.
ClearTokenStore ==
  /\ writer = "none" /\ ~Reading
  /\ current' = NoToken /\ writer' = "disabling"
  /\ UNCHANGED <<signingEnabled, setting>> /\ GateStep

\* The store of signing_enabled, and the release of the write lock.
BugStoreEnabled ==
  /\ writer # "none"
  /\ signingEnabled' = (writer = "enabling" \/ signingEnabled)
  /\ writer' = "none"
  /\ UNCHANGED <<current, setting>> /\ GateStep
StoreEnabled ==
  /\ writer # "none"
  /\ signingEnabled' = (writer = "enabling")
  /\ writer' = "none"
  /\ UNCHANGED <<current, setting>> /\ GateStep

-----------------------------------------------------------------------------
(* execute_with_lease.                                                     *)

SignerMoves(s, from, to) ==
  signer[s].pc = from /\ signer' = [signer EXCEPT ![s].pc = to]
SignerStep == UNCHANGED <<now, tokenVars, gateVars, keeper>> /\ Observe

BeginSigning(s) ==
  /\ SignerMoves(s, "idle", IF signingEnabled THEN "begun" ELSE "refused")
  /\ cleared' = [cleared EXCEPT ![s] = writer = "none" /\ current = NoToken]
  /\ SignerStep

\* The read lock, the token, and is_valid's look at the clock.
TakeToken(s) ==
  /\ signer[s].pc = "begun" /\ writer = "none"
  /\ signer' = [signer EXCEPT ![s] =
       IF current = NoToken THEN [@ EXCEPT !.pc = "refused"]
       ELSE [pc |-> "locked", token |-> current, time |-> now]]
  /\ UNCHANGED cleared /\ SignerStep

\* is_valid's loads of the expiry and of the revoked flag; then the epoch is
\* read and the lock dropped.
BugCheckExpiry(s) ==
  /\ SignerMoves(s, "locked",
          IF signer[s].time <= expiresAt[signer[s].token] THEN "unexpired" ELSE "refused")
  /\ UNCHANGED cleared /\ SignerStep
CheckExpiry(s) ==
  /\ SignerMoves(s, "locked",
          IF signer[s].time < expiresAt[signer[s].token] THEN "unexpired" ELSE "refused")
  /\ UNCHANGED cleared /\ SignerStep

CheckRevoked(s) ==
  /\ SignerMoves(s, "unexpired",
          IF revoked[signer[s].token] THEN "refused" ELSE "validated")
  /\ UNCHANGED cleared /\ SignerStep

\* The closure runs.
Sign(s) == SignerMoves(s, "validated", "signed") /\ UNCHANGED cleared /\ SignerStep

EndSigning(s) ==
  /\ signer[s].pc \in {"signed", "refused"}
  /\ signer' = [signer EXCEPT ![s] = [pc |-> "idle", token |-> NoToken, time |-> 0]]
  /\ cleared' = [cleared EXCEPT ![s] = FALSE]
  /\ SignerStep

-----------------------------------------------------------------------------
(* renew and extend.                                                       *)

KeeperStep == UNCHANGED <<now, revoked, gateVars, signer, cleared>> /\ Observe
Keep(k, pc, t, e) ==
  keeper' = [keeper EXCEPT ![k] = [pc |-> pc, token |-> t, expiry |-> e]]

\* renew checks only that the token is not revoked; extend, that it is valid.
RenewCheck(k, t) ==
  /\ keeper[k].pc = "idle" /\ Issued(t) /\ epoch[t] < MaxEpoch
  /\ ~revoked[t]
  /\ Keep(k, "store", t, now + Duration)
  /\ UNCHANGED <<expiresAt, epoch>> /\ KeeperStep

ExtendCheck(k, t) ==
  /\ keeper[k].pc = "idle" /\ Issued(t) /\ epoch[t] < MaxEpoch
  /\ IsValid(t)
  /\ Keep(k, "load", t, 0)
  /\ UNCHANGED <<expiresAt, epoch>> /\ KeeperStep

ExtendLoad(k) ==
  /\ keeper[k].pc = "load"
  /\ LET t == keeper[k].token IN Keep(k, "store", t, expiresAt[t] + Duration)
  /\ UNCHANGED <<expiresAt, epoch>> /\ KeeperStep

StoreExpiry(k) ==
  /\ keeper[k].pc = "store"
  /\ expiresAt' = [expiresAt EXCEPT ![keeper[k].token] = keeper[k].expiry]
  /\ Keep(k, "bump", keeper[k].token, 0)
  /\ UNCHANGED epoch /\ KeeperStep

BumpEpoch(k) ==
  /\ keeper[k].pc = "bump"
  /\ epoch' = [epoch EXCEPT ![keeper[k].token] = @ + 1]
  /\ Keep(k, "idle", NoToken, 0)
  /\ UNCHANGED expiresAt /\ KeeperStep

-----------------------------------------------------------------------------
LeaseNext ==
  \/ \E t \in Tokens : IssueToken(t) \/ Revoke(t) \/ SetTokenCheck(t)
  \/ SetTokenStore \/ ClearTokenStore \/ StoreEnabled
  \/ LeaseTick
  \/ \E s \in Signers :
       \/ BeginSigning(s) \/ TakeToken(s) \/ CheckExpiry(s)
       \/ CheckRevoked(s) \/ Sign(s) \/ EndSigning(s)
  \/ \E k \in Keepers :
       \/ \E t \in Tokens : RenewCheck(k, t) \/ ExtendCheck(k, t)
       \/ ExtendLoad(k) \/ StoreExpiry(k) \/ BumpEpoch(k)

LeaseSpec == LeaseInit /\ [][LeaseNext]_leaseVars

-----------------------------------------------------------------------------
LeaseTypeOK ==
  /\ now \in Nat
  /\ expiresAt \in [Tokens -> Nat] /\ revoked \in [Tokens -> BOOLEAN]
  /\ epoch \in [Tokens -> Nat]
  /\ current \in Tokens \union {NoToken} /\ signingEnabled \in BOOLEAN
  /\ writer \in {"none", "enabling", "disabling"}
  /\ setting \in Tokens \union {NoToken}
  /\ signer \in [Signers ->
       [pc : {"idle", "begun", "locked", "unexpired", "validated", "signed", "refused"},
        token : Tokens \union {NoToken}, time : Nat]]
  /\ keeper \in [Keepers ->
       [pc : {"idle", "load", "store", "bump"},
        token : Tokens \union {NoToken}, expiry : Nat]]
  /\ wasValid \in [Signers -> BOOLEAN] /\ cleared \in [Signers -> BOOLEAN]

Validated(s) == signer[s].pc \in {"validated", "signed"}

\* Has nobody renewed or extended a lease, or begun to?
Unrenewed ==
  (\A t \in Tokens : epoch[t] <= 1) /\ \A k \in Keepers : keeper[k].pc = "idle"

\* "Reads both expiration and revocation atomically": it does not, yet a token
\* that passes the check was unrevoked and unexpired at one moment of the call.
\* (A renewal that is computed in time and stored late breaks it.)
ValidatedWasValid ==
  Unrenewed => \A s \in Signers : Validated(s) => wasValid[s]

\* A call that begins once clear_token has returned is refused, even if a new
\* token is set, or an old one renewed, before the call looks at the gate.
ClearedIsRefused == \A s \in Signers : cleared[s] => ~Validated(s)
=============================================================================
