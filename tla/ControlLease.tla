---------------------------- MODULE ControlLease ----------------------------
(***************************************************************************)
(* What the HMI backend promises about the controller lease, with time     *)
(* left out: at most one holder, a holder that can vanish at any moment    *)
(* (its time to live ran out, or it released the lease), and a fresh token *)
(* for every grant.  SessionLockService implements this with a clock;      *)
(* CommandSupervisor is built on top of it.                                *)
(***************************************************************************)
EXTENDS Naturals

CONSTANTS
    Session,    \* browser sessions
    Operator,   \* operators that can log in to a session
    NoLease,    \* the value of the slot when nobody holds the lease
    MaxGrants   \* bound: leases granted (uuid4 tokens drawn) in a behaviour

Holder == [session : Session, operator : Operator, token : Nat,
           takeover : BOOLEAN]

ASSUME NoLeaseAssumption == NoLease \notin Holder
ASSUME MaxGrantsAssumption == MaxGrants \in Nat

VARIABLES
    holder,     \* who may act as controller, or NoLease
    grants      \* number of tokens drawn so far; token n is the n-th

leaseVars == <<holder, grants>>

LeaseTypeOK ==
    /\ holder \in Holder \cup {NoLease}
    /\ grants \in Nat

LeaseInit ==
    /\ holder = NoLease
    /\ grants = 0

NewHolder(s, o, takeover) ==
    [session |-> s, operator |-> o, token |-> grants + 1,
     takeover |-> takeover]

(* The slot is free: s gets it under a new token.                          *)
Grant(s, o, takeover) ==
    /\ holder = NoLease
    /\ grants < MaxGrants
    /\ holder' = NewHolder(s, o, takeover)
    /\ grants' = grants + 1

(* Another session forces the holder out, giving a reason.                 *)
Takeover(s, o) ==
    /\ holder # NoLease
    /\ holder.session # s
    /\ grants < MaxGrants
    /\ holder' = NewHolder(s, o, TRUE)
    /\ grants' = grants + 1

(* The holding session acquires again: same token, possibly an operator    *)
(* change inside the session.                                              *)
Reacquire(o) ==
    /\ holder # NoLease
    /\ holder' = [holder EXCEPT !.operator = o]
    /\ UNCHANGED grants

(* The lease runs out or is released.                                      *)
Vacate ==
    /\ holder # NoLease
    /\ holder' = NoLease
    /\ UNCHANGED grants

LeaseNext ==
    \/ \E s \in Session, o \in Operator :
          \/ Takeover(s, o)
          \/ \E f \in BOOLEAN : Grant(s, o, f)
    \/ \E o \in Operator : Reacquire(o)
    \/ Vacate

LeaseSpec == LeaseInit /\ [][LeaseNext]_leaseVars

(* assert_controller answers for session s, operator o and token k.        *)
Authorised(s, o, k) ==
    /\ holder # NoLease
    /\ holder.session = s
    /\ holder.operator = o
    /\ holder.token = k
=============================================================================
