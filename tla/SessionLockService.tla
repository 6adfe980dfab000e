-------------------------- MODULE SessionLockService --------------------------
(***************************************************************************)
(* hmi/backend/services/session_lock_service.py: the controller lease with *)
(* its time to live.  Every operation runs under the service's Lock, so    *)
(* each one is a single step.  The clock moves between operations.         *)
(***************************************************************************)
EXTENDS Naturals

CONSTANTS
    Session, Operator, NoLease, MaxGrants,
    TTL,        \* ttl_seconds, in clock ticks
    MaxTime     \* bound: the clock stops here

LeaseRecord == [session : Session, operator : Operator, token : Nat,
                takeover : BOOLEAN, expires : Nat]

ASSUME LockAssumption ==
    /\ TTL \in Nat \ {0}
    /\ MaxTime \in Nat
    /\ MaxGrants \in Nat
    /\ NoLease \notin LeaseRecord
    /\ NoLease \notin [session : Session, operator : Operator, token : Nat,
                       takeover : BOOLEAN]

VARIABLES
    now,                \* utcnow()
    activeController,   \* _active_controller
    grants              \* uuid4 tokens drawn so far

vars == <<now, activeController, grants>>

TypeOK ==
    /\ now \in Nat
    /\ activeController \in LeaseRecord \cup {NoLease}
    /\ grants \in Nat

Init ==
    /\ now = 0
    /\ activeController = NoLease
    /\ grants = 0

-----------------------------------------------------------------------------
(* LeaseRecord.is_expired: the lease is gone at its expiry instant.        *)
IsExpired(lease) == lease.expires <= now

(* Mutant: expired leases are never purged.                                *)
PurgedNever == activeController

(* _purge_if_expired *)
Purged ==
    IF activeController # NoLease /\ IsExpired(activeController)
    THEN NoLease
    ELSE activeController

Owns(lease, s, o, k) ==
    /\ lease # NoLease
    /\ lease.session = s
    /\ lease.operator = o
    /\ lease.token = k

(* The branch of acquire_controller that draws a new lease: the slot is    *)
(* free, or another session holds it and the caller forces with a reason.  *)
MayReplace(lease, s, force, reason) ==
    \/ lease = NoLease
    \/ /\ lease # NoLease
       /\ lease.session # s
       /\ force
       /\ reason

(* Mutant: the new lease goes out under the token of the previous one.     *)
NewLeaseOldToken(s, o, force) ==
    [session |-> s, operator |-> o, token |-> grants,
     takeover |-> force, expires |-> now + TTL]

NewLease(s, o, force) ==
    [session |-> s, operator |-> o, token |-> grants + 1,
     takeover |-> force, expires |-> now + TTL]

Extended(lease) == [lease EXCEPT !.expires = now + TTL]

AcquireController(s, o, force, reason) ==
    /\ \/ /\ MayReplace(Purged, s, force, reason)
          /\ grants < MaxGrants
          /\ activeController' = NewLease(s, o, force)
          /\ grants' = grants + 1
       \/ /\ Purged # NoLease
          /\ Purged.session = s
          /\ activeController' = [Extended(Purged) EXCEPT !.operator = o]
          /\ UNCHANGED grants
       \/ /\ Purged # NoLease
          /\ Purged.session # s
          /\ ~(force /\ reason)                     \* LeaseRejectedError
          /\ activeController' = Purged
          /\ UNCHANGED grants
    /\ UNCHANGED now

Renew(s, o, k) ==
    /\ activeController' =
          IF Owns(Purged, s, o, k)
          THEN Extended(Purged)
          ELSE Purged                               \* LeaseNotOwnedError
    /\ UNCHANGED <<now, grants>>

(* release does not purge: only the recorded owner can empty the slot.     *)
Release(s, o, k) ==
    /\ activeController' =
          IF Owns(activeController, s, o, k) THEN NoLease ELSE activeController
    /\ UNCHANGED <<now, grants>>

(* assert_controller and current_controller purge and answer.              *)
Consult ==
    /\ activeController' = Purged
    /\ UNCHANGED <<now, grants>>

Tick ==
    /\ now < MaxTime
    /\ now' = now + 1
    /\ UNCHANGED <<activeController, grants>>

Next ==
    \/ \E s \in Session, o \in Operator :
          \/ \E force, reason \in BOOLEAN : AcquireController(s, o, force, reason)
          \/ \E k \in 1..grants : Renew(s, o, k) \/ Release(s, o, k)
    \/ Consult
    \/ Tick

Spec == Init /\ [][Next]_vars

-----------------------------------------------------------------------------
(* The lease as ControlLease sees it: an expired record is no lease, purged *)
(* or not.                                                                 *)
EffectiveHolder ==
    IF activeController = NoLease \/ IsExpired(activeController)
    THEN NoLease
    ELSE [session |-> activeController.session,
          operator |-> activeController.operator,
          token |-> activeController.token,
          takeover |-> activeController.takeover]

Abstract == INSTANCE ControlLease WITH holder <- EffectiveHolder

(* The lock service with its lazily purged expiry implements the timeless  *)
(* lease: control never changes session without a forced, reasoned         *)
(* takeover, and a lease that ran out is never revived by a late renewal.  *)
ImplementsControlLease == Abstract!LeaseSpec

(* Only the most recently drawn token can be the one in the slot, so a     *)
(* token that was replaced, released or purged never authorises again.     *)
OnlyNewestTokenIsActive ==
    activeController # NoLease => activeController.token = grants

(* A lease in the slot never outlives one time to live from now, whoever   *)
(* acquired or renewed it.                                                 *)
LeaseBounded ==
    activeController # NoLease => activeController.expires <= now + TTL

(* Together, of session_lock_service.py: no token that was given up and no *)
(* lease that has run out authorises a request again.                      *)
LeaseSafe == TypeOK /\ OnlyNewestTokenIsActive /\ LeaseBounded
=============================================================================
