------------------------ MODULE LeaseAndSequence_proofs ------------------------
(***************************************************************************)
(* Two services of the HMI backend, for any number of operators, times to  *)
(* live, request threads and steps.  The session lock keeps its types,     *)
(* never lets an old token back into the slot, and implements the timeless *)
(* lease of ControlLease.  Sequences are safe by an argument of one thread *)
(* against the others: ThreadOK is what a thread at a label knows of the   *)
(* records, Rely what a step of another thread leaves of it.               *)
(***************************************************************************)
EXTENDS SessionLockService, CommandSequence, TLAPS

(* ---- the session lock ---- *)

(* The inductive invariant of the slot.                                    *)
LeaseInv == TypeOK /\ OnlyNewestTokenIsActive /\ LeaseBounded

(* A purge keeps the slot's type and either leaves it or empties it.       *)
LEMMA PurgedFacts ==
    ASSUME TypeOK
    PROVE  /\ Purged \in LeaseRecord \cup {NoLease}
           /\ Purged = activeController \/ Purged = NoLease
BY DEF Purged, TypeOK

(* Acquiring again changes the operator and the expiry, nothing else.      *)
LEMMA ReacquiredRecord ==
    ASSUME NEW r \in LeaseRecord, NEW o \in Operator, NEW e \in Nat
    PROVE  /\ [[r EXCEPT !.expires = e] EXCEPT !.operator = o] \in LeaseRecord
           /\ [[r EXCEPT !.expires = e] EXCEPT !.operator = o].token = r.token
           /\ [[r EXCEPT !.expires = e] EXCEPT !.operator = o].expires = e
BY DEF LeaseRecord

(* The slot starts empty.                                                  *)
LEMMA InitLeaseInv == Init => LeaseInv
BY DEF Init, LeaseInv, TypeOK, OnlyNewestTokenIsActive, LeaseBounded

(* Every operation of the service, and the clock, keeps the invariant.     *)
LEMMA StepLeaseInv == LeaseInv /\ [Next]_vars => LeaseInv'
<1> SUFFICES ASSUME LeaseInv, [Next]_vars PROVE LeaseInv'
  OBVIOUS
<1> USE LockAssumption, PurgedFacts
    DEF LeaseInv, TypeOK, OnlyNewestTokenIsActive, LeaseBounded, LeaseRecord
<1>1. ASSUME NEW s \in Session, NEW o \in Operator, NEW force \in BOOLEAN,
             NEW reason \in BOOLEAN, AcquireController(s, o, force, reason)
      PROVE  LeaseInv'
  <2>1. CASE /\ activeController' = [session |-> s, operator |-> o, token |-> grants + 1,
                                     takeover |-> force, expires |-> now + TTL]
             /\ grants' = grants + 1
    BY <1>1, <2>1 DEF AcquireController, NewLease
  <2>2. CASE /\ Purged # NoLease
             /\ activeController' = [Extended(Purged) EXCEPT !.operator = o]
             /\ UNCHANGED grants
    <3>1. Purged \in LeaseRecord /\ Purged = activeController
      BY <2>2
    <3>2. UNCHANGED now /\ now + TTL \in Nat
      BY <1>1 DEF AcquireController, NewLease
    <3>3. /\ activeController' \in LeaseRecord
          /\ activeController'.token = Purged.token
          /\ activeController'.expires = now + TTL
      BY <2>2, <3>1, <3>2, ReacquiredRecord, Zenon DEF Extended
    <3> QED
      BY <2>2, <3>1, <3>2, <3>3
  <2>3. CASE activeController' = Purged /\ UNCHANGED grants
    BY <1>1, <2>3 DEF AcquireController, NewLease
  <2> QED
    BY <1>1, <2>1, <2>2, <2>3 DEF AcquireController, NewLease
<1>2. ASSUME NEW s \in Session, NEW o \in Operator, NEW k \in 1..grants, Renew(s, o, k)
      PROVE  LeaseInv'
  BY <1>2 DEF Renew, Owns, Extended
<1>3. ASSUME NEW s \in Session, NEW o \in Operator, NEW k \in 1..grants, Release(s, o, k)
      PROVE  LeaseInv'
  BY <1>3 DEF Release
<1>4. CASE Consult
  BY <1>4 DEF Consult
<1>5. CASE Tick
  BY <1>5 DEF Tick
<1>6. CASE UNCHANGED vars
  BY <1>6 DEF vars
<1> QED
  BY <1>1, <1>2, <1>3, <1>4, <1>5, <1>6 DEF Next

(* Types, token freshness and the lease bound hold together.               *)
THEOREM LeaseInvariant == Spec => []LeaseInv
BY InitLeaseInv, StepLeaseInv, PTL DEF Spec

(* A token that acquire_controller replaced, or that was released or       *)
(* purged, never comes back into the slot.                                 *)
THEOREM OldTokensStayOut == Spec => []OnlyNewestTokenIsActive
<1>1. LeaseInv => OnlyNewestTokenIsActive
  BY DEF LeaseInv
<1> QED
  BY <1>1, LeaseInvariant, PTL

(* No acquisition or renewal leaves a lease that outlives one TTL.         *)
THEOREM LeaseRunsOut == Spec => []LeaseBounded
<1>1. LeaseInv => LeaseBounded
  BY DEF LeaseInv
<1> QED
  BY <1>1, LeaseInvariant, PTL

(* The part of a lease record that ControlLease sees.                      *)
View(lease) == [session |-> lease.session, operator |-> lease.operator,
                token |-> lease.token, takeover |-> lease.takeover]

(* A purge never changes the abstract holder.                              *)
LEMMA EffectiveFacts ==
    ASSUME TypeOK
    PROVE  /\ Purged = NoLease => EffectiveHolder = NoLease
           /\ Purged # NoLease => /\ EffectiveHolder = View(Purged)
                                  /\ EffectiveHolder # NoLease
                                  /\ Purged \in LeaseRecord
                                  /\ Purged = activeController
<1>1. \A l \in LeaseRecord : View(l) # NoLease
  BY LockAssumption DEF View, LeaseRecord
<1> QED
  BY <1>1 DEF TypeOK, Purged, EffectiveHolder, View

(* A step that installs a record that is still running makes its view the  *)
(* holder.                                                                 *)
LEMMA InstalledFacts ==
    ASSUME TypeOK, UNCHANGED now, NEW l \in LeaseRecord, activeController' = l,
           l.expires > now
    PROVE  EffectiveHolder' = View(l)
<1>1. l # NoLease
  BY LockAssumption
<1>2. ~(l.expires <= now)
  BY DEF TypeOK, LeaseRecord
<1> QED
  BY <1>1, <1>2 DEF EffectiveHolder, IsExpired, View

(* The abstract lease changes as ControlLease allows in every step of the  *)
(* service: expiry by the clock and release are Vacate, a renewal and a    *)
(* purge are invisible.                                                    *)
LEMMA StepRefines == LeaseInv /\ [Next]_vars => [Abstract!LeaseNext]_(Abstract!leaseVars)
<1> SUFFICES ASSUME LeaseInv, [Next]_vars
             PROVE  Abstract!LeaseNext \/ UNCHANGED <<EffectiveHolder, grants>>
  BY DEF Abstract!leaseVars
<1> TypeOK /\ TTL \in Nat \ {0} /\ now \in Nat /\ grants \in Nat
  BY LockAssumption DEF LeaseInv, TypeOK
<1>1. ASSUME NEW s \in Session, NEW o \in Operator, NEW force \in BOOLEAN,
             NEW reason \in BOOLEAN, AcquireController(s, o, force, reason)
      PROVE  Abstract!LeaseNext \/ UNCHANGED <<EffectiveHolder, grants>>
  <2> UNCHANGED now
    BY <1>1 DEF AcquireController, NewLease
  <2>1. CASE /\ MayReplace(Purged, s, force, reason)
             /\ grants < MaxGrants
             /\ activeController' = [session |-> s, operator |-> o, token |-> grants + 1,
                                     takeover |-> force, expires |-> now + TTL]
             /\ grants' = grants + 1
    <3> DEFINE l == [session |-> s, operator |-> o, token |-> grants + 1,
                     takeover |-> force, expires |-> now + TTL]
    <3>1. l \in LeaseRecord /\ l.expires > now
      BY DEF LeaseRecord
    <3>2. EffectiveHolder' = View(l)
      BY <2>1, <3>1, InstalledFacts
    <3>3. View(l) = [session |-> s, operator |-> o, token |-> grants + 1, takeover |-> force]
      BY DEF View
    <3>4. CASE Purged = NoLease
      <4>1. Abstract!Grant(s, o, force)
        BY <2>1, <3>2, <3>3, <3>4, EffectiveFacts DEF Abstract!Grant, Abstract!NewHolder
      <4> QED
        BY <4>1 DEF Abstract!LeaseNext
    <3>5. CASE Purged # NoLease
      <4>1. force = TRUE /\ Purged.session # s
        BY <2>1, <3>5 DEF MayReplace
      <4>2. EffectiveHolder # NoLease /\ EffectiveHolder.session # s
        BY <3>5, <4>1, EffectiveFacts DEF View
      <4>3. Abstract!Takeover(s, o)
        BY <2>1, <3>2, <3>3, <4>1, <4>2 DEF Abstract!Takeover, Abstract!NewHolder
      <4> QED
        BY <4>3 DEF Abstract!LeaseNext
    <3> QED
      BY <3>4, <3>5
  <2>2. CASE /\ Purged # NoLease
             /\ activeController' = [Extended(Purged) EXCEPT !.operator = o]
             /\ UNCHANGED grants
    <3> DEFINE l == [Extended(Purged) EXCEPT !.operator = o]
    <3>0. Purged \in LeaseRecord /\ now + TTL \in Nat /\ now + TTL > now
      BY <2>2, EffectiveFacts
    <3>1. l \in LeaseRecord /\ l.expires > now
      <4>1. l = [[Purged EXCEPT !.expires = now + TTL] EXCEPT !.operator = o]
        BY DEF Extended
      <4>2. /\ [[Purged EXCEPT !.expires = now + TTL] EXCEPT !.operator = o] \in LeaseRecord
            /\ [[Purged EXCEPT !.expires = now + TTL] EXCEPT !.operator = o].expires = now + TTL
        BY <3>0 DEF LeaseRecord
      <4> QED
        BY <3>0, <4>1, <4>2
    <3>2. EffectiveHolder' = View(l)
      BY <2>2, <3>1, InstalledFacts
    <3>3. View(l) = [View(Purged) EXCEPT !.operator = o]
      BY <2>2, EffectiveFacts DEF View, LeaseRecord, Extended
    <3>4. Abstract!Reacquire(o)
      BY <2>2, <3>2, <3>3, EffectiveFacts DEF Abstract!Reacquire
    <3> QED
      BY <3>4 DEF Abstract!LeaseNext
  <2>3. CASE activeController' = Purged /\ UNCHANGED grants
    BY <2>3, EffectiveFacts DEF Purged, EffectiveHolder, IsExpired
  <2> QED
    BY <1>1, <2>1, <2>2, <2>3 DEF AcquireController, NewLease
<1>2. ASSUME NEW s \in Session, NEW o \in Operator, NEW k \in 1..grants, Renew(s, o, k)
      PROVE  UNCHANGED <<EffectiveHolder, grants>>
  <2> UNCHANGED <<now, grants>>
    BY <1>2 DEF Renew
  <2>1. CASE Purged # NoLease /\ activeController' = [Purged EXCEPT !.expires = now + TTL]
    <3> DEFINE l == [Purged EXCEPT !.expires = now + TTL]
    <3>1. l \in LeaseRecord /\ l.expires > now
      BY <2>1, EffectiveFacts DEF LeaseRecord
    <3>2. EffectiveHolder' = View(l)
      BY <2>1, <3>1, InstalledFacts
    <3>3. View(l) = View(Purged)
      BY <2>1, EffectiveFacts DEF View, LeaseRecord
    <3> QED
      BY <2>1, <3>2, <3>3, EffectiveFacts
  <2>2. CASE activeController' = Purged
    BY <2>2, EffectiveFacts DEF Purged, EffectiveHolder, IsExpired
  <2> QED
    BY <1>2, <2>1, <2>2 DEF Renew, Owns, Extended
<1>3. ASSUME NEW s \in Session, NEW o \in Operator, NEW k \in 1..grants, Release(s, o, k)
      PROVE  Abstract!LeaseNext \/ UNCHANGED <<EffectiveHolder, grants>>
  <2> UNCHANGED <<now, grants>>
    BY <1>3 DEF Release
  <2>1. CASE activeController' = NoLease
    <3>1. EffectiveHolder' = NoLease
      BY <2>1 DEF EffectiveHolder
    <3> QED
      BY <3>1 DEF Abstract!LeaseNext, Abstract!Vacate
  <2>2. CASE UNCHANGED activeController
    BY <2>2 DEF EffectiveHolder, IsExpired
  <2> QED
    BY <1>3, <2>1, <2>2 DEF Release
<1>4. CASE Consult
  BY <1>4, EffectiveFacts DEF Consult, Purged, EffectiveHolder, IsExpired
<1>5. CASE Tick
  <2>1. CASE EffectiveHolder' = EffectiveHolder
    BY <1>5, <2>1 DEF Tick
  <2>2. CASE EffectiveHolder' # EffectiveHolder
    <3>1. EffectiveHolder # NoLease /\ EffectiveHolder' = NoLease
      BY <1>5, <2>2 DEF Tick, EffectiveHolder, IsExpired, TypeOK, LeaseRecord
    <3> QED
      BY <1>5, <3>1 DEF Tick, Abstract!LeaseNext, Abstract!Vacate
  <2> QED
    BY <2>1, <2>2
<1>6. CASE UNCHANGED vars
  BY <1>6 DEF vars, EffectiveHolder, IsExpired
<1> QED
  BY <1>1, <1>2, <1>3, <1>4, <1>5, <1>6 DEF Next

(* SessionLockService implements ControlLease.                             *)
THEOREM LockServiceImplementsLease == Spec => ImplementsControlLease
<1>1. Init => Abstract!LeaseInit
  BY DEF Init, Abstract!LeaseInit, EffectiveHolder
<1> QED
  BY <1>1, StepRefines, LeaseInvariant, PTL
  DEF Spec, ImplementsControlLease, Abstract!LeaseSpec

(* The lock service never honours an old token or an overlong lease.       *)
THEOREM LeaseIsSafe == Spec => []LeaseSafe
<1>1. LeaseInv /\ OnlyNewestTokenIsActive /\ LeaseBounded => LeaseSafe
  BY DEF LeaseInv, LeaseSafe
<1> QED
  BY <1>1, LeaseInvariant, OldTokensStayOut, LeaseRunsOut, PTL

-----------------------------------------------------------------------------
(* ---- the sequences ---- *)

Driving == {"request", "execute"} \cup StepLabels
Submitting == {"parse", "reject"} \cup Inserting \cup Inserted

AllInserted == size > 0 /\ \A i \in 1..size : step[i] # "ABSENT"
AllSettled == \A i \in 1..size : step[i] \in Terminal
NoDriver == \A u \in Thread : ~Drives(u)

(* What the frame of a thread says of the records.                         *)
PlaceOK(f) ==
    /\ f.pc \in StepLabels \cup {"stepParse", "stepValidate", "offerStep"}
          => f.step \in 1..size
    /\ f.pc = "parse" => f.step = 0
    /\ f.pc = "insert" => f.step \in 0..size
    /\ f.pc \in {"abort", "cancelGoal", "cancelSteps"} => f.step > 0
    /\ f.pc \in {"abort", "cancelGoal"} => f.step <= MaxSteps
    /\ f.pc \in {"preflight", "send"} => f.step \notin pose
    /\ f.pc \in {"query", "answer"} => f.step \in pose

SubmitOK(f) ==
    /\ f.pc \in Submitting => parent # "ABSENT"
    /\ f.pc \in Inserting \cup Inserted => parent # "RECEIVED"
    /\ f.pc \in Inserting => size > 0 /\ \A i \in Steps : step[i] # "ABSENT" <=> i <= f.step
    /\ f.pc \in Inserted => AllInserted

DriveOK(f) ==
    /\ f.pc \in Driving =>
          /\ parent \in PostConfirm /\ AllInserted
          /\ parent \in Terminal => AllSettled
          /\ \A i \in Steps : stepFinal[i] = "SUCCEEDED" => step[i] = "SUCCEEDED"
    /\ f.pc \in {"request", "execute"} => \A j \in Steps : sends[j] = 0
    /\ f.pc \in StepLabels =>
          /\ \A j \in Steps : j < f.step => step[j] = "SUCCEEDED"
          /\ \A j \in Steps : j > f.step => sends[j] = 0
    /\ f.pc \in BeforeSend => sends[f.step] = 0
    /\ f.pc \in {"dispatched", "conclude"} /\ f.outcome = "succeeded"
          => goal[f.step] = "succeeded"

CancelOK(f) ==
    f.pc = "cancelSteps" => \A j \in Steps : j < f.step => step[j] \in Terminal

ThreadOK(f) == PlaceOK(f) /\ SubmitOK(f) /\ DriveOK(f) /\ CancelOK(f)

(* One thread submits, one drives.                                         *)
OneOfEach ==
    /\ \A t, u \in Thread : Drives(t) /\ Drives(u) => t = u
    /\ \A t, u \in Thread : Submits(t) /\ Submits(u) => t = u

(* What holds of the records wherever the threads are.                     *)
RecordsOK ==
    /\ parent \in {"ABSENT", "RECEIVED"} => \A i \in Steps : step[i] = "ABSENT"
    /\ \A i, j \in Steps : j < i /\ step[i] # "ABSENT" => step[j] # "ABSENT"
    /\ parent = "NEEDS_CONFIRMATION" => AllInserted
    /\ \A i \in Steps : sends[i] = 0 => goal[i] = "none"
    /\ \A i \in Steps : step[i] = "SUCCEEDED" /\ i \notin pose => goal[i] = "succeeded"
    /\ \A i \in late : sends[i] > 0 /\ step[i] \in Terminal \ {"SUCCEEDED"}
    /\ Untouched /\ StepsInOrder /\ EachStepOnce /\ SucceededIsComplete

IInv ==
    /\ SequenceTypeOK
    /\ \A t \in Thread : ThreadOK(thr[t])
    /\ OneOfEach
    /\ RecordsOK

(* The steps of a sequence are numbered.                                   *)
LEMMA SizeInSteps == SequenceTypeOK => \A k \in 1..size : k \in Steps
    BY SequenceAssumption DEF SequenceTypeOK, Steps

(* The invariant says all that is checked.                                 *)
LEMMA InvariantIsSafe == IInv => SequenceSafe
<1> SUFFICES ASSUME IInv PROVE SequenceSafe
    OBVIOUS
<1> USE DEF IInv, ThreadOK
<1>1. FramesOK
    BY DEF FramesOK, PlaceOK, Mine
<1>2. OneSubmitter
    BY DEF OneSubmitter, OneOfEach, RecordsOK, SubmitOK, DriveOK, Submits, Submitting,
           Driving, Drives, AllInserted, Mine
<1>3. OneDriver
    BY DEF OneDriver, OneOfEach, DriveOK, Driving, Drives
<1>4. InOrder
    BY DEF InOrder, DriveOK, Mine
<1>5. RecordsReal
    BY DEF RecordsReal, RecordsOK, DriveOK, Driving, Drives, Mine
<1>6. CancelPasses
    BY DEF CancelPasses, CancelOK, DriveOK, Driving, Drives, AllSettled, RecordsOK, Mine
<1>7. ExpiredNeverStarted
    BY DEF ExpiredNeverStarted, RecordsOK, Untouched, PostConfirm
<1>8. AtMostOneLateStep
    <2> SUFFICES ASSUME NEW i \in late, NEW j \in late, i # j PROVE FALSE
        BY DEF AtMostOneLateStep
    <2> i \in Steps /\ j \in Steps /\ MaxSteps \in Nat
        BY SequenceAssumption DEF SequenceTypeOK
    <2>1. i < j \/ j < i
        BY DEF Steps
    <2> QED
        BY <2>1 DEF RecordsOK, StepsInOrder, SequenceTypeOK
<1> QED
    BY <1>1, <1>2, <1>3, <1>4, <1>5, <1>6, <1>7, <1>8
       DEF SequenceSafe, SequenceInv, RecordsOK

(* An idle thread has a frame.                                             *)
LEMMA IdleFrameType == IdleFrame \in Frame
    BY SequenceAssumption DEF IdleFrame, Frame, Labels, Outcomes

(* At the start nothing is sent and every thread is idle.                  *)
LEMMA InvariantInitially == SequenceInit => IInv
<1> SUFFICES ASSUME SequenceInit PROVE IInv
    OBVIOUS
<1> USE DEF SequenceInit
<1>1. SequenceTypeOK
    <2>1. 0 \in 0..MaxSteps /\ 0 \in Nat
        BY SequenceAssumption
    <2> QED
        BY Zenon, <2>1, IdleFrameType DEF SequenceTypeOK, GoalStates
<1>2. \A t \in Thread : ThreadOK(thr[t]) /\ ~Drives(t) /\ ~Submits(t)
    BY DEF IdleFrame, ThreadOK, PlaceOK, SubmitOK, DriveOK, CancelOK, Drives, Submits,
           Driving, Submitting, StepLabels, BeforeSend, Inserting, Inserted
<1>3. RecordsOK
    BY DEF RecordsOK, Untouched, StepsInOrder, EachStepOnce, SucceededIsComplete, Terminal
<1> QED
    BY <1>1, <1>2, <1>3 DEF IInv, OneOfEach

-----------------------------------------------------------------------------
(* One thread moves; the frames of the others stay.                        *)
Moved(t, l, i, o) ==
    /\ thr' \in [Thread -> Frame]
    /\ \A u \in Thread : u # t => thr'[u] = thr[u]
    /\ thr'[t].pc = l /\ thr'[t].step = i /\ thr'[t].outcome = o

(* What Goto, GotoStep, Respond and Return do to the frames.               *)
LEMMA MovesMove ==
    ASSUME thr \in [Thread -> Frame], NEW t \in Thread
    PROVE  /\ \A l \in Labels : Goto(t, l) => Moved(t, l, Mine(t), thr[t].outcome)
           /\ \A l \in Labels, i \in 0..MaxSteps + 1 :
                 GotoStep(t, l, i) => Moved(t, l, i, thr[t].outcome)
           /\ \A o \in Outcomes : Respond(t, o) =>
                 Moved(t, IF o = "blocked" THEN "conclude" ELSE "dispatched", Mine(t), o)
           /\ Return(t) => Moved(t, "idle", 0, "none")
<1> "conclude" \in Labels /\ "dispatched" \in Labels /\ IdleFrame \in Frame
    BY IdleFrameType DEF Labels
<1>1. ASSUME NEW l \in Labels, Goto(t, l)
      PROVE  Moved(t, l, Mine(t), thr[t].outcome)
    BY <1>1 DEF Goto, Moved, Frame, Mine
<1>2. ASSUME NEW l \in Labels, NEW i \in 0..MaxSteps + 1, GotoStep(t, l, i)
      PROVE  Moved(t, l, i, thr[t].outcome)
    BY <1>2 DEF GotoStep, Moved, Frame
<1>3. ASSUME NEW o \in Outcomes, Respond(t, o)
      PROVE  Moved(t, IF o = "blocked" THEN "conclude" ELSE "dispatched", Mine(t), o)
    BY <1>3 DEF Respond, Moved, Frame, Mine
<1>4. ASSUME Return(t) PROVE Moved(t, "idle", 0, "none")
    BY <1>4 DEF Return, Moved, IdleFrame
<1> QED
    BY <1>1, <1>2, <1>3, <1>4

(* The transitions of the state machine, as far as the proofs need them:   *)
(* nothing leads from a terminal state, back to the start or back behind   *)
(* the confirmation.                                                       *)
LEMMA Onward ==
    ASSUME NEW s, NEW n \in AllowedTransitions(s)
    PROVE  /\ s \in Lifecycle \ Terminal
           /\ n \in Lifecycle \ {"RECEIVED"}
           /\ s \in PostConfirm => n \in PostConfirm
           /\ n = "CONFIRMED" => s = "NEEDS_CONFIRMATION"
           /\ n \in {"REJECTED", "EXPIRED", "PARSING", "VALIDATING", "NEEDS_CONFIRMATION"}
                 => s \notin PostConfirm
           /\ n \in {"PARSING"} => s = "RECEIVED"
    BY DEF AllowedTransitions, Lifecycle, Terminal, PostConfirm

(* A thread that is not on its way through a sequence claims nothing.      *)
Free == {"idle", "scan", "expire", "confirmCheck", "expireOwn", "confirm", "cancelCheck"}

(* ... and so its invariant holds whatever the records are.                *)
LEMMA FreeOK ==
    ASSUME NEW t \in Thread, thr'[t].pc \in Free
    PROVE  ThreadOK(thr[t])' /\ ~Drives(t)' /\ ~Submits(t)'
    BY DEF Free, ThreadOK, PlaceOK, SubmitOK, DriveOK, CancelOK, Driving, Submitting,
           StepLabels, BeforeSend, Inserting, Inserted, Drives, Submits

(* What a thread can rely on while another one moves.                      *)
Rely(u) ==
    /\ thr'[u] = thr[u] /\ size' = size /\ pose' = pose
    /\ parent \in PostConfirm => parent' \in PostConfirm
    /\ parent # "ABSENT" => parent' # "ABSENT"
    /\ parent \notin {"ABSENT", "RECEIVED"} => parent' # "RECEIVED"
    /\ \A i \in Steps :
          /\ step[i] \in Terminal => step'[i] = step[i]
          /\ step[i] # "ABSENT" => step'[i] # "ABSENT"
          /\ Submits(u) /\ step[i] = "ABSENT" => step'[i] = "ABSENT"
    /\ Drives(u) =>
          /\ parent' \in Terminal => parent \in Terminal \/ AllSettled'
          /\ sends' = sends
          /\ \A i \in Steps : /\ stepFinal'[i] = "SUCCEEDED" => stepFinal[i] = "SUCCEEDED"
                              /\ goal[i] = "succeeded" => goal'[i] = "succeeded"

(* What it relies on is enough for what it knows.                          *)
LEMMA OthersKeep ==
    ASSUME IInv, NEW u \in Thread, Rely(u)
    PROVE  ThreadOK(thr[u])'
<1> size \in 0..MaxSteps /\ MaxSteps \in Nat /\ thr[u] \in Frame /\ ThreadOK(thr[u])
    BY SequenceAssumption DEF IInv, SequenceTypeOK
<1> USE DEF Rely, ThreadOK
<1>1. PlaceOK(thr[u])'
    BY DEF PlaceOK
<1>2. AllInserted => AllInserted'
    BY DEF AllInserted, Steps
<1>3. SubmitOK(thr[u])'
    BY <1>2 DEF SubmitOK, Submits, Submitting
<1>4. AllSettled => AllSettled'
    BY DEF AllSettled, Steps
<1>5. DriveOK(thr[u])'
    <2>1. CASE ~Drives(u)
        BY <2>1 DEF DriveOK, Drives, Driving, StepLabels
    <2>2. CASE Drives(u)
        <3>1. thr[u].pc \in Driving
            BY <2>2 DEF Drives, Driving
        <3>2. /\ parent' \in PostConfirm /\ AllInserted'
              /\ parent' \in Terminal => AllSettled'
            BY <2>2, <3>1, <1>2, <1>4 DEF DriveOK
        <3>3. \A i \in Steps : step[i] = "SUCCEEDED" => step'[i] = "SUCCEEDED"
            BY DEF Terminal
        <3>4. \A i \in Steps : stepFinal'[i] = "SUCCEEDED" => step'[i] = "SUCCEEDED"
            BY <2>2, <3>1, <3>3 DEF DriveOK
        <3>5. thr[u].pc \in StepLabels => thr[u].step \in Steps
            BY DEF PlaceOK, Steps
        <3>6. /\ thr[u].pc \in {"dispatched", "conclude"} => thr[u].pc \in StepLabels
              /\ PostConfirm' = PostConfirm /\ Terminal' = Terminal
            BY DEF StepLabels
        <3> QED
            BY <2>2, <3>1, <3>2, <3>3, <3>4, <3>5, <3>6 DEF DriveOK
    <2> QED
        BY <2>1, <2>2
<1>6. CancelOK(thr[u])'
    BY DEF CancelOK
<1> QED
    BY <1>1, <1>3, <1>5, <1>6

(* Nobody takes a part that is taken.                                      *)
Alone(t, l) ==
    /\ l \in Driving => Drives(t) \/ parent \notin PostConfirm
    /\ l \in Submitting => Submits(t) \/ parent = "ABSENT"

(* A step of one thread keeps the invariant when the others can rely on it.*)
LEMMA StepKeeps ==
    ASSUME IInv, NEW t \in Thread, NEW l, NEW i, NEW o, Moved(t, l, i, o), Alone(t, l),
           \A u \in Thread : u # t => Rely(u),
           SequenceTypeOK', ThreadOK(thr[t])', RecordsOK'
    PROVE  IInv'
<1>1. \A u \in Thread : ThreadOK(thr[u])'
    BY OthersKeep
<1>2. \A u \in Thread : u # t => (Drives(u)' <=> Drives(u)) /\ (Submits(u)' <=> Submits(u))
    BY DEF Moved, Drives, Submits
<1>3. \A u \in Thread : (Drives(u) => parent \in PostConfirm) /\ (Submits(u) => parent # "ABSENT")
    BY DEF IInv, ThreadOK, DriveOK, SubmitOK, Drives, Driving, Submits, Submitting
<1>4. (Drives(t)' <=> l \in Driving) /\ (Submits(t)' <=> l \in Submitting)
    BY DEF Moved, Drives, Driving, Submits, Submitting
<1>5. OneOfEach'
    BY <1>2, <1>3, <1>4 DEF OneOfEach, IInv, Alone
<1> QED
    BY <1>1, <1>5 DEF IInv

(* A step that changes no record.                                          *)
Quiet == UNCHANGED <<parent, size, step, stepFinal, pose, goal, sends, late>>

(* ... as they can when no record changes.                                 *)
LEMMA QuietKeeps ==
    ASSUME IInv, NEW t \in Thread, NEW l, NEW i, NEW o, Moved(t, l, i, o), Alone(t, l),
           Quiet, SequenceTypeOK', ThreadOK(thr[t])'
    PROVE  IInv'
<1>1. \A u \in Thread : u # t => Rely(u)
    BY DEF Rely, Moved, Quiet
<1>2. RecordsOK'
    BY DEF IInv, Quiet, RecordsOK, AllInserted, Untouched, StepsInOrder, EachStepOnce,
           SucceededIsComplete
<1> QED
    BY <1>1, <1>2, StepKeeps

(* A transition of the parent.                                             *)
LEMMA ParentKeeps ==
    ASSUME IInv, NEW t \in Thread, NEW l, NEW i, NEW o, Moved(t, l, i, o), Alone(t, l),
           UNCHANGED <<size, step, stepFinal, pose, goal, sends, late>>,
           parent' \in AllowedTransitions(parent),
           parent' \in Terminal =>
               parent \notin PostConfirm \/ Drives(t) \/ AllSettled \/ NoDriver,
           parent' = "NEEDS_CONFIRMATION" => AllInserted,
           parent' = "SUCCEEDED" =>
               size > 0 /\ (\A k \in 1..size : step[k] = "SUCCEEDED"),
           SequenceTypeOK', ThreadOK(thr[t])'
    PROVE  IInv'
<1>1. /\ parent \in Lifecycle \ Terminal /\ parent' \in Lifecycle \ {"RECEIVED"}
      /\ parent \in PostConfirm => parent' \in PostConfirm
    BY Onward
<1>2. parent # "ABSENT" /\ parent' # "ABSENT"
    BY <1>1 DEF Lifecycle, Terminal
<1>3. \A u \in Thread : Drives(u) => parent \in PostConfirm /\ (Drives(t) => u = t)
    BY DEF IInv, OneOfEach, ThreadOK, DriveOK, Drives, Driving
<1>4. \A u \in Thread : u # t => Rely(u)
    BY <1>1, <1>2, <1>3 DEF Rely, Moved, AllSettled, NoDriver
<1>5. Untouched'
    BY <1>1 DEF IInv, RecordsOK, Untouched
<1>6. SucceededIsComplete'
    BY SizeInSteps DEF IInv, RecordsOK, SucceededIsComplete
<1>7. RecordsOK'
    BY <1>1, <1>2, <1>5, <1>6
       DEF IInv, RecordsOK, AllInserted, StepsInOrder, EachStepOnce
<1> QED
    BY <1>4, <1>7, StepKeeps

(* Transitions of the records of the steps, allowed or refused.            *)
LEMMA StepRecordKeeps ==
    ASSUME IInv, NEW t \in Thread, NEW l, NEW i, NEW o, Moved(t, l, i, o), Alone(t, l),
           UNCHANGED <<parent, size, pose, goal, sends, late>>,
           \A k \in Steps :
               \/ step'[k] = step[k]
               \/ /\ step[k] \notin Terminal \cup {"ABSENT"} /\ step'[k] # "ABSENT"
                  /\ step'[k] = "SUCCEEDED" => k \in pose \/ goal[k] = "succeeded",
           \A k \in Steps : stepFinal'[k] = "SUCCEEDED" =>
               stepFinal[k] = "SUCCEEDED" \/ Drives(t),
           SequenceTypeOK', ThreadOK(thr[t])'
    PROVE  IInv'
<1>1. \A k \in Steps : /\ step[k] \in Terminal => step'[k] = step[k]
                       /\ step[k] = "ABSENT" <=> step'[k] = "ABSENT"
    OBVIOUS
<1>2. \A u \in Thread : u # t => (Drives(u) => ~Drives(t))
    BY DEF IInv, OneOfEach
<1>3. \A u \in Thread : u # t => Rely(u)
    BY <1>1, <1>2 DEF Rely, Moved
<1>4. Drives(t) => parent \in PostConfirm
    BY DEF IInv, ThreadOK, DriveOK, Drives, Driving
<1>5. Untouched'
    BY <1>4 DEF IInv, RecordsOK, Untouched
<1>6. StepsInOrder' /\ EachStepOnce'
    BY <1>1 DEF IInv, RecordsOK, StepsInOrder, EachStepOnce, Terminal
<1>7. SucceededIsComplete'
    BY <1>1, SizeInSteps DEF IInv, RecordsOK, SucceededIsComplete, Terminal
<1>8. AllInserted => AllInserted'
    BY <1>1, SizeInSteps DEF IInv, AllInserted
<1>9. \A k \in late : sends'[k] > 0 /\ step'[k] \in Terminal \ {"SUCCEEDED"}
    BY <1>1 DEF IInv, SequenceTypeOK, RecordsOK
<1>10. \A k \in Steps : step'[k] = "SUCCEEDED" /\ k \notin pose => goal[k] = "succeeded"
    BY DEF IInv, RecordsOK
<1>11. RecordsOK'
    BY <1>1, <1>5, <1>6, <1>7, <1>8, <1>9, <1>10 DEF IInv, RecordsOK
<1> QED
    BY <1>3, <1>11, StepKeeps

(* A thread that ends its request, or is between two of its checks.        *)
LEMMA FreeKeeps ==
    ASSUME IInv, NEW t \in Thread, NEW l \in Free, NEW i, NEW o, Moved(t, l, i, o),
           Quiet, SequenceTypeOK'
    PROVE  IInv'
<1>1. ThreadOK(thr[t])'
    BY FreeOK DEF Moved
<1>2. Alone(t, l)
    BY DEF Alone, Free, Driving, Submitting, StepLabels, BeforeSend, Inserting, Inserted
<1> QED
    BY <1>1, <1>2, QuietKeeps

(* What _transition_top_level_record does, allowed or refused.             *)
LEMMA ParentToDoes ==
    ASSUME SequenceTypeOK, NEW t \in Thread, NEW next \in Lifecycle, NEW label \in Labels,
           ParentTo(t, next, label)
    PROVE  /\ parent' \in Lifecycle \cup {"ABSENT"}
           /\ \/ /\ next \in AllowedTransitions(parent) /\ parent' = next
                 /\ IF label = "idle" THEN Moved(t, "idle", 0, "none")
                    ELSE Moved(t, label, Mine(t), thr[t].outcome)
              \/ parent' = parent /\ Moved(t, "idle", 0, "none")
<1> thr \in [Thread -> Frame] /\ parent \in Lifecycle \cup {"ABSENT"}
    BY DEF SequenceTypeOK
<1> QED
    BY MovesMove DEF ParentTo

(* What _transition_command does to the record of a step.                  *)
LEMMA StepToDoes ==
    ASSUME SequenceTypeOK, NEW t \in Thread, NEW next \in Lifecycle, NEW label \in Labels,
           StepTo(t, next, label)
    PROVE  /\ step' \in [Steps -> Lifecycle \cup {"ABSENT"}]
           /\ \A k \in Steps :
                 \/ step'[k] = step[k]
                 \/ /\ k = Mine(t) /\ step'[k] = next
                    /\ step[k] \notin Terminal \cup {"ABSENT"} /\ next # "ABSENT"
           /\ \/ /\ Moved(t, label, Mine(t), thr[t].outcome)
                 /\ next \in AllowedTransitions(step[Mine(t)])
                 /\ Mine(t) \in Steps => step'[Mine(t)] = next
              \/ step' = step /\ Moved(t, "idle", 0, "none")
<1> thr \in [Thread -> Frame] /\ step \in [Steps -> Lifecycle \cup {"ABSENT"}]
    BY DEF SequenceTypeOK
<1> "ABSENT" \notin Lifecycle
    BY DEF Lifecycle, Terminal
<1>1. CASE next \in AllowedTransitions(step[Mine(t)])
    <2>1. step' = [step EXCEPT ![Mine(t)] = next] /\ Moved(t, label, Mine(t), thr[t].outcome)
        BY <1>1, MovesMove DEF StepTo
    <2>2. step[Mine(t)] \in Lifecycle \ Terminal
        BY <1>1, Onward
    <2> QED
        BY <1>1, <2>1, <2>2
<1>2. CASE next \notin AllowedTransitions(step[Mine(t)])
    BY <1>2, MovesMove DEF StepTo
<1> QED
    BY <1>1, <1>2

(* A transition of the parent after which the thread is free.              *)
LEMMA ParentFreeKeeps ==
    ASSUME IInv, NEW t \in Thread, NEW next \in Lifecycle, NEW l \in Free,
           ParentTo(t, next, l),
           UNCHANGED <<windowOpen, size, step, stepFinal, pose, active,
                       goal, handles, sends, late>>,
           parentFinal' \in Terminal \cup {"none"},
           next \in {"SUCCEEDED", "FAILED", "CANCELLED"} =>
               Drives(t) \/ AllSettled \/ NoDriver,
           next = "NEEDS_CONFIRMATION" => AllInserted,
           next = "SUCCEEDED" => size > 0 /\ \A k \in 1..size : step[k] = "SUCCEEDED"
    PROVE  IInv'
<1>1. l \in Labels /\ "idle" \in Free
    BY DEF Free, Labels
<1>2. PICK i, o : Moved(t, l, i, o) \/ (parent' = parent /\ Moved(t, "idle", i, o))
    BY <1>1, ParentToDoes DEF IInv
<1>3. SequenceTypeOK'
    BY <1>1, <1>2, ParentToDoes DEF IInv, SequenceTypeOK, Moved
<1>4. CASE parent' = parent
    BY <1>1, <1>2, <1>3, <1>4, FreeKeeps DEF Quiet
<1>5. CASE parent' # parent
    <2>1. next \in AllowedTransitions(parent) /\ parent' = next /\ Moved(t, l, i, o)
        BY <1>1, <1>2, <1>5, ParentToDoes DEF IInv
    <2>2. ThreadOK(thr[t])'
        BY <2>1, FreeOK DEF Moved
    <2>3. Alone(t, l)
        BY DEF Alone, Free, Driving, Submitting, StepLabels, BeforeSend, Inserting, Inserted
    <2>4. next \in Terminal =>
              parent \notin PostConfirm \/ Drives(t) \/ AllSettled \/ NoDriver
        BY <2>1, Onward DEF Terminal
    <2> QED
        BY <1>3, <2>1, <2>2, <2>3, <2>4, ParentKeeps
<1> QED
    BY <1>4, <1>5

-----------------------------------------------------------------------------
(* The steps of the submitting thread.                                     *)

(* The one sequence followed appears while nobody drives any.              *)
LEMMA SubmitIntentKeeps ==
    ASSUME IInv, NEW t \in Thread, SubmitIntent(t)
    PROVE  IInv'
<1> USE DEF IInv
<1>1. /\ parent = "ABSENT" /\ parent' = "RECEIVED" /\ active' = 0
      /\ UNCHANGED <<parentFinal, windowOpen, size, step, stepFinal, pose,
                     goal, handles, sends, late>>
    BY DEF SubmitIntent, rosVars
<1>2. Moved(t, "parse", 0, "none")
    <2> [IdleFrame EXCEPT !.pc = "parse", !.op = "submit"] \in Frame
        BY IdleFrameType DEF Frame, Labels
    <2> QED
        BY DEF SubmitIntent, Moved, SequenceTypeOK, IdleFrame
<1>3. SequenceTypeOK'
    BY <1>1, <1>2, SequenceAssumption DEF SequenceTypeOK, Moved, Lifecycle
<1>4. Alone(t, "parse")
    BY <1>1 DEF Alone, Driving, StepLabels, BeforeSend
<1>5. \A u \in Thread : ~Drives(u)
    BY <1>1 DEF ThreadOK, DriveOK, Drives, Driving, PostConfirm
<1>6. \A u \in Thread : u # t => Rely(u)
    BY <1>1, <1>2, <1>5 DEF Rely, Moved, PostConfirm
<1>7. ThreadOK(thr[t])'
    BY <1>1, <1>2 DEF Moved, ThreadOK, PlaceOK, SubmitOK, DriveOK, CancelOK, Submitting,
       Driving, StepLabels, BeforeSend, Inserting, Inserted
<1>8. RecordsOK'
    BY <1>1 DEF RecordsOK, AllInserted, Untouched, StepsInOrder, EachStepOnce,
       SucceededIsComplete, PostConfirm
<1> QED
    BY <1>2, <1>3, <1>4, <1>6, <1>7, <1>8, StepKeeps

(* The number of steps is fixed before the first of them is inserted.      *)
LEMMA ParseKeeps ==
    ASSUME IInv, NEW t \in Thread, Parse(t)
    PROVE  IInv'
<1> USE DEF IInv
<1>1. /\ thr[t].pc = "parse" /\ Mine(t) = 0
      /\ UNCHANGED <<parentFinal, windowOpen, step, stepFinal, active,
                     goal, handles, sends, late>>
    BY DEF Parse, At, rosVars, ThreadOK, PlaceOK, Mine
<1>2. Submits(t) /\ parent # "ABSENT"
    BY <1>1 DEF Submits, ThreadOK, SubmitOK, Submitting
<1> "PARSING" \in Lifecycle /\ {"reject", "insert", "idle"} \subseteq Labels
    BY DEF Lifecycle, Labels
<1>3. CASE ParentTo(t, "PARSING", "reject") /\ UNCHANGED <<size, pose>>
    <2>1. SequenceTypeOK'
        BY <1>1, <1>3, ParentToDoes DEF SequenceTypeOK, Moved
    <2>2. CASE parent' = parent /\ Moved(t, "idle", 0, "none")
        BY <1>1, <1>3, <2>1, <2>2, FreeKeeps DEF Quiet, Free
    <2>3. CASE /\ "PARSING" \in AllowedTransitions(parent) /\ parent' = "PARSING"
               /\ Moved(t, "reject", Mine(t), thr[t].outcome)
        <3>1. ThreadOK(thr[t])'
            BY <2>3 DEF Moved, ThreadOK, PlaceOK, SubmitOK, DriveOK, CancelOK,
               Submitting, Driving, StepLabels, BeforeSend, Inserting, Inserted
        <3>2. Alone(t, "reject")
            BY <1>2 DEF Alone, Driving, StepLabels, BeforeSend
        <3> QED
            BY <1>1, <1>3, <2>1, <2>3, <3>1, <3>2, ParentKeeps DEF Terminal
    <2> QED
        BY <1>3, <2>2, <2>3, ParentToDoes
<1>4. CASE /\ "PARSING" \in AllowedTransitions(parent)
           /\ ParentTo(t, "PARSING", "insert")
           /\ size' \in Steps /\ pose' \in SUBSET (1..size')
    <2>1. /\ parent = "RECEIVED" /\ parent' = "PARSING"
          /\ Moved(t, "insert", 0, thr[t].outcome)
        BY <1>1, <1>4, Onward, MovesMove DEF ParentTo, SequenceTypeOK
    <2>2. pose' \subseteq Steps /\ size' \in 1..MaxSteps /\ size' \in Nat
        BY <1>4, SequenceAssumption DEF Steps
    <2>3. SequenceTypeOK'
        BY <1>1, <2>1, <2>2 DEF SequenceTypeOK, Moved
    <2>4. \A u \in Thread : ~Drives(u) /\ (u # t => ~Submits(u))
        BY <1>2, <2>1 DEF OneOfEach, ThreadOK, DriveOK, Drives, Driving, PostConfirm
    <2>5. ASSUME NEW u \in Thread, u # t PROVE ThreadOK(thr[u])'
        BY <1>1, <2>1, <2>4, <2>5 DEF Moved, ThreadOK, PlaceOK, SubmitOK, DriveOK, CancelOK,
           Submits, Submitting, Drives, Driving, StepLabels, BeforeSend, Inserting, Inserted
    <2>6. ThreadOK(thr[t])'
        <3>1. \A i \in Steps : step[i] = "ABSENT"
            BY <2>1 DEF RecordsOK
        <3>2. PlaceOK(thr[t])' /\ CancelOK(thr[t])' /\ DriveOK(thr[t])'
            BY <2>1, <2>2 DEF Moved, PlaceOK, CancelOK, DriveOK, Driving, StepLabels, BeforeSend
        <3>3. SubmitOK(thr[t])'
            BY <1>1, <2>1, <2>2, <3>1 DEF Moved, SubmitOK, Submitting, Inserting, Inserted, Steps
        <3> QED
            BY <3>2, <3>3 DEF ThreadOK
    <2>7. OneOfEach'
        BY <2>1, <2>4 DEF OneOfEach, Moved, Drives, Submits, StepLabels, BeforeSend
    <2>8. RecordsOK'
        BY <1>1, <2>1 DEF RecordsOK, AllInserted, Untouched, StepsInOrder, EachStepOnce,
           SucceededIsComplete, PostConfirm
    <2> QED
        BY <2>3, <2>5, <2>6, <2>7, <2>8
<1> QED
    BY <1>3, <1>4 DEF Parse

(* A rejection comes before any confirmation.                              *)
LEMMA RejectKeeps ==
    ASSUME IInv, NEW t \in Thread, Reject(t)
    PROVE  IInv'
<1>1. /\ ParentTo(t, "REJECTED", "idle") /\ parentFinal' = "REJECTED"
      /\ UNCHANGED <<windowOpen, size, step, stepFinal, pose, active,
                     goal, handles, sends, late>>
    BY DEF Reject, FinishParent, stepVars, rosVars
<1> QED
    BY <1>1, ParentFreeKeeps DEF Free, Lifecycle, Terminal

(* The submitting thread goes on, with the records as they were.           *)
LEMMA SubmitGoesOn ==
    ASSUME IInv, NEW t \in Thread, Submits(t), NEW l \in Submitting, NEW i, NEW o,
           Moved(t, l, i, o), Quiet, SequenceTypeOK',
           PlaceOK(thr[t])', SubmitOK(thr[t])'
    PROVE  IInv'
<1>1. DriveOK(thr[t])' /\ CancelOK(thr[t])'
    BY DEF Moved, DriveOK, CancelOK, Submitting, Inserting, Inserted,
           Driving, StepLabels, BeforeSend
<1>2. Alone(t, l)
    BY DEF Alone, Submitting, Inserting, Inserted, Driving, StepLabels, BeforeSend
<1> QED
    BY <1>1, <1>2, QuietKeeps DEF ThreadOK

(* The records appear in order, before anybody may confirm.                *)
LEMMA InsertStepKeeps ==
    ASSUME IInv, NEW t \in Thread, InsertStep(t)
    PROVE  IInv'
<1> USE DEF IInv
<1>1. /\ thr[t].pc = "insert" /\ Submits(t) /\ size > 0 /\ thr[t].step = Mine(t)
      /\ Mine(t) \in 0..size /\ parent \notin {"ABSENT", "RECEIVED"}
      /\ \A i \in Steps : step[i] # "ABSENT" <=> i <= Mine(t)
      /\ UNCHANGED <<parent, parentFinal, windowOpen, size, stepFinal, pose, active,
                     goal, handles, sends, late>>
    BY DEF InsertStep, At, Submits, ThreadOK, PlaceOK, SubmitOK, Submitting, Inserting,
           Inserted, Mine, parentVars, rosVars
<1> {"begin", "stepParse"} \subseteq Labels /\ {"begin", "stepParse"} \subseteq Submitting
    BY DEF Labels, Submitting, Inserting, Inserted
<1> size \in 0..MaxSteps /\ MaxSteps \in Nat
    BY SequenceAssumption DEF SequenceTypeOK
<1>2. CASE Mine(t) = size
    <2>1. step' = step /\ Moved(t, "begin", Mine(t), thr[t].outcome)
        BY <1>2, MovesMove DEF InsertStep, SequenceTypeOK
    <2>2. SequenceTypeOK'
        BY <1>1, <2>1 DEF SequenceTypeOK, Moved
    <2>3. AllInserted
        BY <1>1, <1>2, SizeInSteps DEF AllInserted
    <2>4. PlaceOK(thr[t])' /\ SubmitOK(thr[t])'
        BY <1>1, <2>1, <2>3 DEF Moved, PlaceOK, SubmitOK, StepLabels, BeforeSend,
           Inserting, AllInserted
    <2> QED
        BY <1>1, <2>1, <2>2, <2>4, SubmitGoesOn DEF Quiet
<1>3. CASE Mine(t) # size
    <2>1. /\ step' = [step EXCEPT ![Mine(t) + 1] = "RECEIVED"]
          /\ Mine(t) + 1 \in Steps /\ Mine(t) + 1 \in 1..size
        BY <1>1, <1>3 DEF InsertStep, Steps
    <2>2. Moved(t, "stepParse", Mine(t) + 1, thr[t].outcome)
        BY <1>1, <1>3, MovesMove DEF InsertStep, SequenceTypeOK
    <2>3. SequenceTypeOK'
        BY <1>1, <2>1, <2>2 DEF SequenceTypeOK, Moved, Lifecycle
    <2>4. \A i \in Steps : step'[i] # "ABSENT" <=> i <= Mine(t) + 1
        BY <1>1, <2>1 DEF SequenceTypeOK, Steps
    <2>5. \A i \in Steps : \/ step'[i] = step[i]
                           \/ step[i] = "ABSENT" /\ step'[i] = "RECEIVED"
        BY <1>1, <2>1 DEF SequenceTypeOK, Steps
    <2>6. step[size] = "ABSENT" /\ ~AllInserted
        BY <1>1, <1>3, SizeInSteps DEF AllInserted
    <2>7. \A u \in Thread : ~Drives(u) /\ (u # t => ~Submits(u))
        BY <1>1, <2>6 DEF OneOfEach, ThreadOK, DriveOK, Drives, Driving
    <2>8. \A u \in Thread : u # t => Rely(u)
        BY <1>1, <2>2, <2>5, <2>7 DEF Rely, Moved, Terminal
    <2>9. ThreadOK(thr[t])'
        <3>1. SubmitOK(thr[t])'
            BY <1>1, <2>2, <2>4 DEF Moved, SubmitOK, Submitting, Inserting, Inserted
        <3> QED
            BY <1>1, <2>1, <2>2, <3>1 DEF Moved, ThreadOK, PlaceOK, DriveOK, CancelOK,
               Driving, StepLabels, BeforeSend
    <2>10. Alone(t, "stepParse")
        BY <1>1 DEF Alone, Driving, StepLabels, BeforeSend
    <2>11. RecordsOK'
        <3>1. parent # "SUCCEEDED"
            BY <1>1, <2>6, SizeInSteps DEF RecordsOK, SucceededIsComplete
        <3>2. \A i \in Steps : step[i] = "SUCCEEDED" <=> step'[i] = "SUCCEEDED"
            BY <2>5
        <3>3. \A i \in late : sends'[i] > 0 /\ step'[i] \in Terminal \ {"SUCCEEDED"}
            BY <1>1, <2>5 DEF RecordsOK, SequenceTypeOK, Terminal
        <3> QED
            BY <1>1, <2>4, <2>6, <3>1, <3>2, <3>3 DEF RecordsOK, Untouched, StepsInOrder,
               EachStepOnce, SucceededIsComplete, Steps
    <2> QED
        BY <2>2, <2>3, <2>8, <2>9, <2>10, <2>11, StepKeeps
<1> QED
    BY <1>2, <1>3

(* The submitting thread moves the record of a step, and neither inserts   *)
(* nor finishes it.                                                        *)
LEMMA SubmitMovesRecord ==
    ASSUME IInv, NEW t \in Thread, Submits(t), NEW l \in Submitting, NEW i, NEW o,
           Moved(t, l, i, o), SequenceTypeOK',
           UNCHANGED <<parent, size, stepFinal, pose, goal, sends, late>>,
           \A k \in Steps : \/ step'[k] = step[k]
                            \/ /\ step[k] \notin Terminal \cup {"ABSENT"}
                               /\ step'[k] \notin {"ABSENT", "SUCCEEDED"},
           PlaceOK(thr[t])', SubmitOK(thr[t])'
    PROVE  IInv'
<1>1. DriveOK(thr[t])' /\ CancelOK(thr[t])'
    BY DEF Moved, DriveOK, CancelOK, Submitting, Inserting, Inserted,
           Driving, StepLabels, BeforeSend
<1>2. Alone(t, l)
    BY DEF Alone, Submitting, Inserting, Inserted, Driving, StepLabels, BeforeSend
<1> QED
    BY <1>1, <1>2, StepRecordKeeps DEF ThreadOK

(* Inserting threads move the record they inserted last.                   *)
LEMMA ParseStepKeeps ==
    ASSUME IInv, NEW t \in Thread, ParseStep(t)
    PROVE  IInv'
<1> USE DEF IInv
<1>1. PICK next \in {"PARSING", "VALIDATING"}, l \in {"stepValidate", "insert"} :
          StepTo(t, next, l)
    BY DEF ParseStep
<1>2. /\ thr[t].pc \in {"stepParse", "stepValidate"} /\ Submits(t) /\ size > 0
      /\ thr[t].step = Mine(t) /\ Mine(t) \in 1..size
      /\ parent \notin {"ABSENT", "RECEIVED"}
      /\ \A i \in Steps : step[i] # "ABSENT" <=> i <= Mine(t)
      /\ UNCHANGED <<parent, parentFinal, windowOpen, size, stepFinal, pose, active,
                     goal, handles, sends, late>>
    BY DEF ParseStep, At, Submits, ThreadOK, PlaceOK, SubmitOK, Submitting, Inserting,
           Mine, parentVars, rosVars
<1>3. next \in Lifecycle \ {"SUCCEEDED"} /\ l \in Labels /\ l \in Submitting
    BY <1>1 DEF Lifecycle, Terminal, Labels, Submitting, Inserting
<1>4. SequenceTypeOK'
    BY <1>1, <1>2, <1>3, StepToDoes DEF SequenceTypeOK, Moved
<1>5. CASE step' = step /\ Moved(t, "idle", 0, "none")
    BY <1>2, <1>4, <1>5, FreeKeeps DEF Quiet, Free
<1>6. CASE Moved(t, l, Mine(t), thr[t].outcome)
    <2>1. \A k \in Steps : \/ step'[k] = step[k]
                           \/ /\ step[k] \notin Terminal \cup {"ABSENT"}
                              /\ step'[k] \notin {"ABSENT", "SUCCEEDED"}
        BY <1>1, <1>3, StepToDoes
    <2>2. PlaceOK(thr[t])' /\ SubmitOK(thr[t])'
        BY <1>2, <1>6, <2>1 DEF Moved, PlaceOK, SubmitOK, StepLabels, BeforeSend, Inserting,
           Inserted, SequenceTypeOK
    <2> QED
        BY <1>2, <1>3, <1>4, <1>6, <2>1, <2>2, SubmitMovesRecord
<1> QED
    BY <1>1, <1>3, <1>5, <1>6, StepToDoes

(* Validation begins when all the records are there.                       *)
LEMMA BeginValidationKeeps ==
    ASSUME IInv, NEW t \in Thread, BeginValidation(t)
    PROVE  IInv'
<1> USE DEF IInv
<1>1. /\ thr[t].pc = "begin" /\ Submits(t) /\ AllInserted /\ active' = 1
      /\ ParentTo(t, "VALIDATING", "validate")
      /\ UNCHANGED <<parentFinal, windowOpen, size, step, stepFinal, pose,
                     goal, handles, sends, late>>
    BY DEF BeginValidation, At, Submits, ThreadOK, SubmitOK, Inserted, rosVars
<1> "VALIDATING" \in Lifecycle /\ {"validate", "idle"} \subseteq Labels /\ active' \in 0..MaxSteps
    BY <1>1, SequenceAssumption DEF Lifecycle, Labels
<1>2. SequenceTypeOK'
    BY <1>1, ParentToDoes DEF SequenceTypeOK, Moved
<1>3. CASE parent' = parent /\ Moved(t, "idle", 0, "none")
    BY <1>1, <1>2, <1>3, FreeKeeps DEF Quiet, Free
<1>4. CASE /\ "VALIDATING" \in AllowedTransitions(parent) /\ parent' = "VALIDATING"
           /\ Moved(t, "validate", Mine(t), thr[t].outcome)
    <2>1. ThreadOK(thr[t])'
        BY <1>1, <1>4 DEF Moved, ThreadOK, PlaceOK, SubmitOK, DriveOK, CancelOK,
           AllInserted, Submitting, Driving, StepLabels, BeforeSend, Inserting, Inserted
    <2>2. Alone(t, "validate")
        BY <1>1 DEF Alone, Driving, StepLabels, BeforeSend
    <2> QED
        BY <1>1, <1>2, <1>4, <2>1, <2>2, ParentKeeps DEF Terminal
<1> QED
    BY <1>1, <1>3, <1>4, ParentToDoes

(* Its verdict moves the thread only.                                      *)
LEMMA ValidateKeeps ==
    ASSUME IInv, NEW t \in Thread, Validate(t)
    PROVE  IInv'
<1> USE DEF IInv
<1>1. /\ thr[t].pc = "validate" /\ Submits(t) /\ AllInserted
      /\ parent \notin {"ABSENT", "RECEIVED"}
      /\ UNCHANGED <<parent, parentFinal, size, step, stepFinal, pose, active,
                     goal, handles, sends, late>>
    BY DEF Validate, At, Submits, ThreadOK, SubmitOK, Submitting, Inserted, stepVars, rosVars
<1>2. /\ windowOpen' \in BOOLEAN
      /\ \/ Moved(t, "reject", Mine(t), thr[t].outcome)
         \/ Moved(t, "offerStep", 1, thr[t].outcome)
    <2> {"reject", "offerStep"} \subseteq Labels /\ 1 \in 0..MaxSteps + 1
        BY SequenceAssumption DEF Labels
    <2> QED
        BY MovesMove DEF Validate, SequenceTypeOK
<1>3. SequenceTypeOK'
    BY <1>1, <1>2 DEF SequenceTypeOK, Moved
<1>4. 1 \in 1..size
    BY <1>1 DEF AllInserted, SequenceTypeOK
<1>5. PlaceOK(thr[t])' /\ SubmitOK(thr[t])'
    BY <1>1, <1>2, <1>4 DEF Moved, PlaceOK, SubmitOK, AllInserted, StepLabels, BeforeSend,
       Inserting, Inserted, Submitting
<1> QED
    BY <1>1, <1>2, <1>3, <1>5, SubmitGoesOn DEF Quiet, Submitting, Inserted

(* The steps are offered one after the other.                              *)
LEMMA OfferStepKeeps ==
    ASSUME IInv, NEW t \in Thread, OfferStep(t)
    PROVE  IInv'
<1> USE DEF IInv
<1>1. /\ thr[t].pc = "offerStep" /\ Submits(t) /\ AllInserted
      /\ thr[t].step = Mine(t) /\ Mine(t) \in 1..size /\ Mine(t) \in Steps
      /\ parent \notin {"ABSENT", "RECEIVED"}
      /\ UNCHANGED <<parent, parentFinal, windowOpen, size, stepFinal, pose, active,
                     goal, handles, sends, late>>
    BY SizeInSteps DEF OfferStep, At, Submits, ThreadOK, PlaceOK, SubmitOK, Submitting, Inserted,
       Mine, parentVars, rosVars
<1>2. CASE "NEEDS_CONFIRMATION" \notin AllowedTransitions(step[Mine(t)])
    <2>1. step' = step /\ Moved(t, "idle", 0, "none")
        BY <1>2, MovesMove DEF OfferStep, SequenceTypeOK
    <2>2. SequenceTypeOK'
        BY <1>1, <2>1 DEF SequenceTypeOK, Moved
    <2> QED
        BY <1>1, <2>1, <2>2, FreeKeeps DEF Quiet, Free
<1>3. CASE "NEEDS_CONFIRMATION" \in AllowedTransitions(step[Mine(t)])
    <2>1. PICK l \in {"offer", "offerStep"}, i \in 1..size :
              /\ step' = [step EXCEPT ![Mine(t)] = "NEEDS_CONFIRMATION"]
              /\ Moved(t, l, i, thr[t].outcome)
        <3> {"offer", "offerStep"} \subseteq Labels
            BY DEF Labels
        <3> size \in 0..MaxSteps /\ MaxSteps \in Nat
            BY SequenceAssumption DEF SequenceTypeOK
        <3>1. CASE Mine(t) = size
            BY <1>1, <1>3, <3>1, MovesMove DEF OfferStep, SequenceTypeOK
        <3>2. CASE Mine(t) # size
            <4>1. Mine(t) + 1 \in 1..size /\ Mine(t) + 1 \in 0..MaxSteps + 1
                BY <1>1, <3>2
            <4> QED
                BY <1>1, <1>3, <3>2, <4>1, MovesMove DEF OfferStep, SequenceTypeOK
        <3> QED
            BY <3>1, <3>2
    <2>2. step[Mine(t)] \in Lifecycle \ Terminal /\ "ABSENT" \notin Lifecycle
        BY <1>3, Onward DEF Lifecycle, Terminal
    <2>3. SequenceTypeOK'
        BY <1>1, <2>1 DEF SequenceTypeOK, Moved, Lifecycle
    <2>4. \A k \in Steps : \/ step'[k] = step[k]
                           \/ /\ step[k] \notin Terminal \cup {"ABSENT"}
                              /\ step'[k] \notin {"ABSENT", "SUCCEEDED"}
        BY <2>1, <2>2 DEF SequenceTypeOK
    <2>5. AllInserted'
        BY <1>1, <2>4, SizeInSteps DEF AllInserted
    <2>6. PlaceOK(thr[t])' /\ SubmitOK(thr[t])'
        BY <1>1, <2>1, <2>5 DEF Moved, PlaceOK, SubmitOK, StepLabels, BeforeSend, Inserting, Inserted
    <2>7. l \in Submitting
        BY <2>1 DEF Submitting, Inserted
    <2> QED
        BY <1>1, <2>1, <2>3, <2>4, <2>6, <2>7, SubmitMovesRecord
<1> QED
    BY <1>2, <1>3

(* The sequence is offered when every step was inserted.                   *)
LEMMA OfferSequenceKeeps ==
    ASSUME IInv, NEW t \in Thread, OfferSequence(t)
    PROVE  IInv'
<1>1. AllInserted /\ UNCHANGED <<parentFinal, windowOpen, size, step, stepFinal, pose, active,
                                 goal, handles, sends, late>>
    BY DEF OfferSequence, At, IInv, ThreadOK, SubmitOK, Inserted, stepVars, rosVars
<1>2. PICK l \in {"scan", "idle"} : ParentTo(t, "NEEDS_CONFIRMATION", l)
    BY DEF OfferSequence
<1> QED
    BY <1>1, <1>2, ParentFreeKeeps DEF Free, Lifecycle, IInv, SequenceTypeOK

-----------------------------------------------------------------------------
(* The checks of a request, up to the confirmation.                        *)

(* A request starts without a claim.                                       *)
LEMMA RequestKeeps ==
    ASSUME IInv, NEW t \in Thread, NEW op \in Requests, Request(t, op)
    PROVE  IInv'
<1>1. Moved(t, "scan", 0, "none")
    <2> [IdleFrame EXCEPT !.pc = "scan", !.op = op] \in Frame
        BY IdleFrameType DEF Frame, Labels
    <2> QED
        BY DEF Request, Moved, IInv, SequenceTypeOK, IdleFrame
<1>2. UNCHANGED <<parentVars, stepVars, rosVars>>
    BY DEF Request
<1>3. SequenceTypeOK'
    BY <1>1, <1>2 DEF IInv, SequenceTypeOK, Moved, parentVars, stepVars, rosVars
<1> QED
    BY <1>1, <1>2, <1>3, FreeKeeps DEF Quiet, Free, parentVars, stepVars, rosVars

(* The scan and the checks only move the thread.                           *)
LEMMA ChecksKeep ==
    ASSUME IInv, NEW t \in Thread, ScanPending(t) \/ ConfirmCheck(t)
    PROVE  IInv'
<1>1. UNCHANGED <<parentVars, stepVars, rosVars>>
    BY DEF ScanPending, ConfirmCheck
<1>2. PICK l \in Free, i \in {Mine(t), 0}, o \in {thr[t].outcome, "none"} : Moved(t, l, i, o)
    <2>1. AfterScan(t) \in Free /\ {"expire", "confirm", "expireOwn", "idle"} \subseteq Free
          /\ Free \subseteq Labels
        BY DEF AfterScan, Free, Labels
    <2>2. Return(t) \/ \E l \in Free : Goto(t, l)
        BY <2>1 DEF ScanPending, ConfirmCheck
    <2> QED
        BY <2>1, <2>2, MovesMove DEF IInv, SequenceTypeOK
<1>3. SequenceTypeOK'
    BY <1>1, <1>2 DEF IInv, SequenceTypeOK, Moved, parentVars, stepVars, rosVars
<1> QED
    BY <1>1, <1>2, <1>3, FreeKeeps DEF Quiet, parentVars, stepVars, rosVars

(* Only a window that closed before any confirmation expires.              *)
LEMMA ExpiryKeeps ==
    ASSUME IInv, NEW t \in Thread, ExpirePending(t) \/ ExpireOwn(t)
    PROVE  IInv'
<1>1. /\ parentFinal' = "EXPIRED"
      /\ UNCHANGED <<windowOpen, size, step, stepFinal, pose, active,
                     goal, handles, sends, late>>
      /\ \E l \in Free : ParentTo(t, "EXPIRED", l)
    BY DEF ExpirePending, ExpireOwn, FinishParent, AfterScan, Free, stepVars, rosVars
<1> QED
    BY <1>1, ParentFreeKeeps DEF Lifecycle, Terminal

(* The one who confirms finds nothing sent and nothing finished.           *)
LEMMA ConfirmKeeps ==
    ASSUME IInv, NEW t \in Thread, Confirm(t)
    PROVE  IInv'
<1> USE DEF IInv
<1>1. UNCHANGED <<parentFinal, windowOpen, size, step, stepFinal, pose, active,
                  goal, handles, sends, late>>
    BY DEF Confirm, stepVars, rosVars
<1>2. PICK next \in {"CONFIRMED", "EXECUTION_REQUESTED", "EXECUTING"},
           l \in {"request", "execute", "select"}, i \in {1, Mine(t)} :
          /\ thr[t].pc = (CASE next = "CONFIRMED" -> "confirm"
                            [] next = "EXECUTION_REQUESTED" -> "request"
                            [] next = "EXECUTING" -> "execute")
          /\ l = "select" => i = 1
          /\ \/ /\ next \in AllowedTransitions(parent) /\ parent' = next
                /\ Moved(t, l, i, thr[t].outcome)
             \/ parent' = parent /\ Moved(t, "idle", 0, "none")
    <2> {"request", "execute", "idle"} \subseteq Labels /\ "select" \in Labels
        BY DEF Labels
    <2> {"CONFIRMED", "EXECUTION_REQUESTED"} \subseteq Lifecycle
        BY DEF Lifecycle
    <2> 1 \in 0..MaxSteps + 1
        BY SequenceAssumption
    <2>1. CASE At(t, "confirm") /\ ParentTo(t, "CONFIRMED", "request")
        BY <2>1, ParentToDoes DEF At
    <2>2. CASE At(t, "request") /\ ParentTo(t, "EXECUTION_REQUESTED", "execute")
        BY <2>2, ParentToDoes DEF At
    <2>3. CASE At(t, "execute")
        BY <2>3, MovesMove DEF Confirm, At, SequenceTypeOK
    <2> QED
        BY <2>1, <2>2, <2>3 DEF Confirm
<1>3. SequenceTypeOK'
    BY <1>1, <1>2 DEF SequenceTypeOK, Moved, Lifecycle
<1>4. CASE parent' = parent /\ Moved(t, "idle", 0, "none")
    BY <1>1, <1>3, <1>4, FreeKeeps DEF Quiet, Free
<1>5. CASE /\ next \in AllowedTransitions(parent) /\ parent' = next
           /\ Moved(t, l, i, thr[t].outcome)
    <2>1. parent' \in PostConfirm \ Terminal /\ parent' # "NEEDS_CONFIRMATION"
        BY <1>5 DEF PostConfirm, Terminal
    <2>3. /\ AllInserted
          /\ \A j \in Steps : sends[j] = 0
          /\ \A j \in Steps : stepFinal[j] = "SUCCEEDED" => step[j] = "SUCCEEDED"
          /\ Drives(t) \/ parent \notin PostConfirm
        <3>1. CASE next = "CONFIRMED"
            <4>1. parent = "NEEDS_CONFIRMATION"
                BY <1>5, <3>1, Onward
            <4> QED
                BY <4>1 DEF RecordsOK, Untouched, PostConfirm
        <3>2. CASE thr[t].pc \in {"request", "execute"}
            BY <3>2 DEF ThreadOK, DriveOK, Driving, Drives
        <3> QED
            BY <1>2, <3>1, <3>2
    <2>4. ThreadOK(thr[t])'
        <3>1. DriveOK(thr[t])'
            <4>1. l = "select" => 1 \in Steps /\ \A j \in Steps : ~(j < 1)
                BY SequenceAssumption DEF Steps
            <4>2. AllInserted'
                BY <1>1, <2>3 DEF AllInserted
            <4>3. CASE l # "select"
                BY <1>1, <1>2, <1>5, <2>1, <2>3, <4>2, <4>3
                   DEF Moved, DriveOK, StepLabels, BeforeSend
            <4>4. CASE l = "select"
                BY <1>1, <1>2, <1>5, <2>1, <2>3, <4>1, <4>2, <4>4 DEF Moved, DriveOK
            <4> QED
                BY <4>3, <4>4
        <3>2. l = "select" => 1 \in 1..size
            BY <2>3 DEF AllInserted, SequenceTypeOK
        <3>3. PlaceOK(thr[t])'
            BY <1>1, <1>2, <1>5, <3>2 DEF Moved, PlaceOK, StepLabels, BeforeSend
        <3>4. SubmitOK(thr[t])' /\ CancelOK(thr[t])'
            BY <1>2, <1>5 DEF Moved, SubmitOK, CancelOK, Submitting, Inserting, Inserted
        <3> QED
            BY <3>1, <3>3, <3>4 DEF ThreadOK
    <2>5. Alone(t, l)
        BY <2>3 DEF Alone, Submitting, Inserting, Inserted
    <2> QED
        BY <1>1, <1>3, <1>5, <2>1, <2>4, <2>5, ParentKeeps DEF Terminal
<1> QED
    BY <1>2, <1>4, <1>5

-----------------------------------------------------------------------------
(* The steps of the driving thread.  From one label to the next it stays   *)
(* at its step, and does not go back behind the send.                      *)
Forward(t, l, o) ==
    /\ thr[t].pc \in StepLabels /\ l \in StepLabels
    /\ l \in BeforeSend => thr[t].pc \in BeforeSend
    /\ l \in {"preflight", "send"} => Mine(t) \notin pose
    /\ l \in {"query", "answer"} => Mine(t) \in pose
    /\ l \in {"dispatched", "conclude"} /\ o = "succeeded" => goal[Mine(t)] = "succeeded"

(* What the driving thread knows, it knows at the next label.              *)
LEMMA ForwardOK ==
    ASSUME IInv, NEW t \in Thread, NEW l, NEW o, Moved(t, l, Mine(t), o), Forward(t, l, o),
           UNCHANGED <<parent, size, pose, sends, goal>>,
           \A k \in Steps : /\ step[k] \in Terminal => step'[k] = step[k]
                            /\ step[k] # "ABSENT" => step'[k] # "ABSENT"
                            /\ stepFinal'[k] = "SUCCEEDED" => step'[k] = "SUCCEEDED"
    PROVE  ThreadOK(thr[t])'
<1> l \in StepLabels
    BY DEF Forward
<1>1. /\ thr[t].pc \in StepLabels /\ thr[t].pc \in Driving /\ Mine(t) = thr[t].step
      /\ Mine(t) \in 1..size /\ ThreadOK(thr[t])
    BY DEF IInv, Forward, ThreadOK, PlaceOK, Driving, Mine
<1>2. PlaceOK(thr[t])' /\ SubmitOK(thr[t])' /\ CancelOK(thr[t])'
    BY <1>1 DEF Moved, Forward, PlaceOK, SubmitOK, CancelOK, StepLabels, BeforeSend,
       Submitting, Inserting, Inserted
<1>3. AllInserted' /\ (AllSettled => AllSettled')
    BY <1>1, SizeInSteps DEF IInv, ThreadOK, DriveOK, AllInserted, AllSettled
<1>4. \A k \in Steps : step[k] = "SUCCEEDED" => step'[k] = "SUCCEEDED"
    BY DEF Terminal
<1>5. l \notin {"request", "execute"}
    BY DEF StepLabels, BeforeSend
<1>6. DriveOK(thr[t])'
    BY <1>1, <1>3, <1>4, <1>5 DEF Moved, Forward, ThreadOK, DriveOK
<1> QED
    BY <1>2, <1>6 DEF ThreadOK

(* It keeps the invariant when it moves on ...                             *)
LEMMA DriveGoesOn ==
    ASSUME IInv, NEW t \in Thread, NEW l, NEW o, Moved(t, l, Mine(t), o), Forward(t, l, o),
           Quiet, SequenceTypeOK'
    PROVE  IInv'
<1>1. \A k \in Steps : stepFinal[k] = "SUCCEEDED" => step[k] = "SUCCEEDED"
    BY DEF Forward, IInv, ThreadOK, DriveOK, Driving
<1>2. ThreadOK(thr[t])'
    BY <1>1, ForwardOK DEF Quiet
<1>3. Alone(t, l)
    BY DEF Forward, Alone, Drives, Driving, Submitting, StepLabels, BeforeSend, Inserting, Inserted
<1> QED
    BY <1>2, <1>3, QuietKeeps

(* ... and when it moves the record of its step.                           *)
LEMMA DriveMovesRecord ==
    ASSUME IInv, NEW t \in Thread, NEW next \in Lifecycle, NEW l \in Labels,
           StepTo(t, next, l), Forward(t, l, thr[t].outcome),
           UNCHANGED <<parent, parentFinal, windowOpen, size, pose, active,
                       goal, handles, sends, late>>,
           \A k \in Steps : \/ stepFinal'[k] = stepFinal[k]
                            \/ k = Mine(t) /\ (stepFinal'[k] = "SUCCEEDED" => next = "SUCCEEDED"),
           stepFinal' \in [Steps -> Terminal \cup {"none"}],
           next = "SUCCEEDED" => Mine(t) \in pose \/ goal[Mine(t)] = "succeeded"
    PROVE  IInv'
<1>1. Mine(t) \in Steps /\ Drives(t)
    BY SizeInSteps DEF IInv, Forward, ThreadOK, PlaceOK, Mine, Drives
<1>2. SequenceTypeOK'
    BY StepToDoes DEF IInv, SequenceTypeOK, Moved
<1>3. \A k \in Steps :
          \/ step'[k] = step[k]
          \/ /\ step[k] \notin Terminal \cup {"ABSENT"} /\ step'[k] # "ABSENT"
             /\ step'[k] = "SUCCEEDED" => k \in pose \/ goal[k] = "succeeded"
    BY StepToDoes DEF IInv
<1>4. CASE step' = step /\ Moved(t, "idle", 0, "none")
    <2>1. ThreadOK(thr[t])'
        BY <1>4, FreeOK DEF Moved, Free
    <2>2. Alone(t, "idle")
        BY DEF Alone, Driving, Submitting, StepLabels, BeforeSend, Inserting, Inserted
    <2> QED
        BY <1>1, <1>2, <1>3, <1>4, <2>1, <2>2, StepRecordKeeps
<1>5. CASE Moved(t, l, Mine(t), thr[t].outcome) /\ step'[Mine(t)] = next
    <2>1. \A k \in Steps : stepFinal[k] = "SUCCEEDED" => step[k] = "SUCCEEDED"
        BY DEF Forward, IInv, ThreadOK, DriveOK, Driving
    <2>2. \A k \in Steps : stepFinal'[k] = "SUCCEEDED" => step'[k] = "SUCCEEDED"
        BY <1>3, <1>5, <2>1 DEF Terminal
    <2>3. ThreadOK(thr[t])'
        BY <1>3, <1>5, <2>2, ForwardOK
    <2>4. Alone(t, l)
        BY <1>1 DEF Forward, Alone, Submitting, StepLabels, BeforeSend, Inserting, Inserted
    <2> QED
        BY <1>1, <1>2, <1>3, <1>5, <2>3, <2>4, StepRecordKeeps
<1> QED
    BY <1>1, <1>4, <1>5, StepToDoes DEF IInv

(* Selecting and checking a step changes no record.                        *)
LEMMA SelectAndGateKeep ==
    ASSUME IInv, NEW t \in Thread, SelectStep(t) \/ Gate(t) \/ Preflight(t)
    PROVE  IInv'
<1> USE DEF IInv
<1>1. /\ UNCHANGED <<parentVars, size, step, stepFinal, pose, rosVars>>
      /\ active' = active \/ (active' = Mine(t) /\ thr[t].pc \in StepLabels)
    BY DEF SelectStep, Gate, Preflight, stepVars, At, StepLabels, BeforeSend
<1>2. PICK l \in Labels, o \in Outcomes :
          Moved(t, l, Mine(t), o) /\ Forward(t, l, o)
    <2>1. CASE SelectStep(t)
        BY <2>1, MovesMove DEF SelectStep, At, Forward, StepLabels, BeforeSend, SequenceTypeOK,
           Labels, Frame
    <2>2. CASE Gate(t)
        BY <2>2, MovesMove DEF Gate, At, Forward, StepLabels, BeforeSend, SequenceTypeOK,
           Labels, Frame
    <2>3. CASE Preflight(t)
        <3>1. thr[t].pc = "preflight" /\ Mine(t) \notin pose /\ "blocked" \in Outcomes
            BY <2>3 DEF Preflight, At, ThreadOK, PlaceOK, Mine, Outcomes
        <3> QED
            BY <2>3, <3>1, MovesMove DEF Preflight, Forward, StepLabels, BeforeSend,
               SequenceTypeOK, Labels, Frame
    <2> QED
        BY <2>1, <2>2, <2>3
<1>3. active' \in 0..MaxSteps
    <2>1. thr[t].pc \in StepLabels => Mine(t) \in Steps
        BY SizeInSteps DEF ThreadOK, PlaceOK, Mine
    <2> QED
        BY <1>1, <2>1, SequenceAssumption DEF SequenceTypeOK, Steps
<1>4. SequenceTypeOK'
    BY <1>1, <1>2, <1>3 DEF SequenceTypeOK, Moved, parentVars, rosVars
<1> QED
    BY <1>1, <1>2, <1>4, DriveGoesOn DEF Quiet, parentVars, rosVars

(* The steps that move the record of the step the thread is at.            *)
LEMMA RunRecordKeeps ==
    ASSUME IInv, NEW t \in Thread,
           \/ ConfirmStep(t) \/ QueryPose(t) \/ AnswerPose(t)
           \/ RecordDispatched(t) \/ Conclude(t)
    PROVE  IInv'
<1> USE DEF IInv
<1>1. UNCHANGED <<parent, parentFinal, windowOpen, size, pose, active,
                  goal, handles, sends, late>>
    BY DEF ConfirmStep, QueryPose, AnswerPose, RecordDispatched, Conclude, parentVars, rosVars
<1>2. ThreadOK(thr[t]) /\ thr[t] \in Frame /\ Mine(t) = thr[t].step
      /\ stepFinal \in [Steps -> Terminal \cup {"none"}]
    BY DEF SequenceTypeOK, Mine
<1>3. CASE ConfirmStep(t)
    <2>1. PICK next \in {"CONFIRMED", "EXECUTION_REQUESTED"},
               l \in {"stepRequest", "query", "preflight"} :
              /\ StepTo(t, next, l) /\ thr[t].pc \in {"stepConfirm", "stepRequest"}
              /\ l = "query" => Mine(t) \in pose
              /\ l = "preflight" => Mine(t) \notin pose
              /\ stepFinal' = stepFinal
        BY <1>3 DEF ConfirmStep, At
    <2>2. Forward(t, l, thr[t].outcome) /\ l \in Labels /\ next \in Lifecycle \ {"SUCCEEDED"}
        BY <2>1 DEF Forward, StepLabels, BeforeSend, Labels, Lifecycle, Terminal
    <2> QED
        BY <1>1, <1>2, <2>1, <2>2, DriveMovesRecord
<1>4. CASE QueryPose(t)
    <2>1. /\ StepTo(t, "EXECUTING", "answer") /\ thr[t].pc = "query"
          /\ Mine(t) \in pose /\ stepFinal' = stepFinal
        BY <1>2, <1>4 DEF QueryPose, At, ThreadOK, PlaceOK
    <2>2. Forward(t, "answer", thr[t].outcome) /\ "answer" \in Labels /\ "EXECUTING" \in Lifecycle
        BY <2>1 DEF Forward, StepLabels, BeforeSend, Labels, Lifecycle
    <2> QED
        BY <1>1, <1>2, <2>1, <2>2, DriveMovesRecord
<1>5. CASE AnswerPose(t)
    <2>1. PICK state \in {"SUCCEEDED", "FAILED"} : FinishStep(t, state)
        BY <1>5 DEF AnswerPose
    <2>2. /\ StepTo(t, state, "stepDone") /\ thr[t].pc = "answer" /\ Mine(t) \in pose
          /\ stepFinal' = [stepFinal EXCEPT ![Mine(t)] = state]
        BY <1>2, <1>5, <2>1 DEF AnswerPose, At, FinishStep, ThreadOK, PlaceOK
    <2>3. Forward(t, "stepDone", thr[t].outcome) /\ "stepDone" \in Labels
          /\ state \in Lifecycle /\ state \in Terminal
        BY <2>2 DEF Forward, StepLabels, BeforeSend, Labels, Lifecycle, Terminal
    <2>4. /\ stepFinal' \in [Steps -> Terminal \cup {"none"}]
          /\ \A k \in Steps : \/ stepFinal'[k] = stepFinal[k]
                              \/ k = Mine(t) /\ (stepFinal'[k] = "SUCCEEDED" => state = "SUCCEEDED")
        BY <1>2, <2>2, <2>3
    <2> QED
        BY <1>1, <2>2, <2>3, <2>4, DriveMovesRecord
<1>6. CASE RecordDispatched(t)
    <2>1. /\ StepTo(t, "EXECUTING", "conclude") /\ thr[t].pc = "dispatched"
          /\ stepFinal' \in [Steps -> Terminal \cup {"none"}]
          /\ \A k \in Steps : stepFinal'[k] = stepFinal[k] \/ (k = Mine(t) /\ stepFinal'[k] = "none")
        BY <1>2, <1>6 DEF RecordDispatched, At
    <2>2. Forward(t, "conclude", thr[t].outcome) /\ "conclude" \in Labels /\ "EXECUTING" \in Lifecycle
        BY <1>2, <2>1 DEF Forward, StepLabels, BeforeSend, Labels, Lifecycle, ThreadOK, DriveOK
    <2> QED
        BY <1>1, <2>1, <2>2, DriveMovesRecord
<1>7. CASE Conclude(t)
    <2> DEFINE state == FinalStateOf(thr[t].outcome)
    <2>1. /\ StepTo(t, state, "stepDone") /\ thr[t].pc = "conclude"
          /\ stepFinal' = [stepFinal EXCEPT ![Mine(t)] = state]
        BY <1>7 DEF Conclude, At, FinishStep
    <2>2. state \in Terminal /\ (state = "SUCCEEDED" => thr[t].outcome = "succeeded")
        BY <1>2 DEF FinalStateOf, Frame, Outcomes, GoalDone, Terminal
    <2>3. Forward(t, "stepDone", thr[t].outcome) /\ "stepDone" \in Labels /\ state \in Lifecycle
        BY <2>1, <2>2 DEF Forward, StepLabels, BeforeSend, Labels, Lifecycle
    <2>4. state = "SUCCEEDED" => goal[Mine(t)] = "succeeded"
        BY <1>2, <2>1, <2>2 DEF ThreadOK, DriveOK
    <2>5. /\ stepFinal' \in [Steps -> Terminal \cup {"none"}]
          /\ \A k \in Steps : \/ stepFinal'[k] = stepFinal[k]
                              \/ k = Mine(t) /\ (stepFinal'[k] = "SUCCEEDED" => state = "SUCCEEDED")
        BY <1>2, <2>1, <2>2
    <2> HIDE DEF state
    <2> QED
        BY <1>1, <2>1, <2>3, <2>4, <2>5, DriveMovesRecord
<1> QED
    BY <1>3, <1>4, <1>5, <1>6, <1>7

(* A step is sent after its predecessors succeeded, and for the first      *)
(* time; when the sequence is over by then, its record is already settled. *)
LEMMA SendGoalKeeps ==
    ASSUME IInv, NEW t \in Thread, SendGoal(t)
    PROVE  IInv'
<1> USE DEF IInv
<1> DEFINE i == Mine(t)
<1>1. /\ thr[t].pc = "send" /\ ThreadOK(thr[t]) /\ Drives(t) /\ i = thr[t].step
      /\ i \in 1..size /\ i \in Steps /\ i \notin pose /\ sends[i] = 0
      /\ UNCHANGED <<parentVars, stepVars, handles>>
    BY SizeInSteps DEF SendGoal, At, ThreadOK, PlaceOK, DriveOK, Drives, StepLabels, BeforeSend, Mine
<1>2. CASE Respond(t, "blocked") /\ UNCHANGED <<goal, sends, late>>
    <2>1. Moved(t, "conclude", i, "blocked")
        BY <1>2, MovesMove DEF SequenceTypeOK, Outcomes
    <2>2. Forward(t, "conclude", "blocked")
        BY <1>1 DEF Forward, StepLabels, BeforeSend
    <2>3. SequenceTypeOK'
        BY <1>1, <1>2, <2>1 DEF SequenceTypeOK, Moved, parentVars, stepVars
    <2> QED
        BY <1>1, <1>2, <2>1, <2>2, <2>3, DriveGoesOn DEF Quiet, parentVars, stepVars
<1>3. CASE /\ goal' = [goal EXCEPT ![i] = "sent"]
           /\ sends' = [sends EXCEPT ![i] = @ + 1]
           /\ late' = IF parent \in Terminal THEN late \cup {i} ELSE late
           /\ Goto(t, "awaitAccept")
    <2>1. Moved(t, "awaitAccept", i, thr[t].outcome)
        BY <1>3, MovesMove DEF SequenceTypeOK, Labels
    <2>2. SequenceTypeOK'
        BY <1>1, <1>3, <2>1 DEF SequenceTypeOK, Moved, parentVars, stepVars, GoalStates
    <2>3. /\ \A j \in Steps : j # i => sends'[j] = sends[j] /\ goal'[j] = goal[j]
          /\ sends'[i] = 1 /\ goal'[i] = "sent"
        BY <1>1, <1>3 DEF SequenceTypeOK
    <2>4. UNCHANGED <<parent, size, step, stepFinal, pose>>
        BY <1>1 DEF parentVars, stepVars
    <2>5. step[i] # "SUCCEEDED" /\ (parent \in Terminal => step[i] \in Terminal)
        BY <1>1 DEF RecordsOK, ThreadOK, DriveOK, Driving, StepLabels, BeforeSend, AllSettled
    <2>6. \A u \in Thread : u # t => ~Drives(u)
        BY <1>1 DEF OneOfEach
    <2>7. \A u \in Thread : u # t => Rely(u)
        BY <2>1, <2>4, <2>6 DEF Rely, Moved
    <2>8. Alone(t, "awaitAccept")
        BY <1>1 DEF Alone, Submitting, Inserting, Inserted
    <2>9. ThreadOK(thr[t])'
        <3>1. PlaceOK(thr[t])' /\ SubmitOK(thr[t])' /\ CancelOK(thr[t])'
            BY <1>1, <2>1, <2>4 DEF Moved, PlaceOK, SubmitOK, CancelOK, Submitting, Inserting, Inserted
        <3>2. i \in Nat /\ \A j \in Steps : j > i => j # i
            BY <1>1 DEF Steps
        <3>3. DriveOK(thr[t])'
            BY <1>1, <2>1, <2>3, <2>4, <3>2 DEF Moved, ThreadOK, DriveOK, Driving, StepLabels,
               BeforeSend, AllInserted, AllSettled
        <3> QED
            BY <3>1, <3>3 DEF ThreadOK
    <2>10. RecordsOK'
        <3>1. parent \in PostConfirm /\ \A j \in Steps : j < i => step[j] = "SUCCEEDED"
            BY <1>1 DEF ThreadOK, DriveOK, Driving, StepLabels, BeforeSend
        <3>2. Untouched' /\ StepsInOrder' /\ EachStepOnce'
            BY <2>3, <2>4, <3>1 DEF RecordsOK, Untouched, StepsInOrder, EachStepOnce
        <3>3. SucceededIsComplete'
            BY <1>1, <2>3, <2>4, <2>5, SizeInSteps DEF RecordsOK, SucceededIsComplete
        <3>4. \A k \in late' : sends'[k] > 0 /\ step'[k] \in Terminal \ {"SUCCEEDED"}
            BY <1>1, <1>3, <2>3, <2>4, <2>5 DEF RecordsOK, SequenceTypeOK
        <3> QED
            BY <1>1, <2>3, <2>4, <2>5, <3>2, <3>3, <3>4 DEF RecordsOK, AllInserted
    <2> QED
        BY <2>1, <2>2, <2>7, <2>8, <2>9, <2>10, StepKeeps
<1> QED
    BY <1>2, <1>3 DEF SendGoal

(* What a wait returns is what the goal did, or a timeout.                 *)
LEMMA AwaitGoalKeeps ==
    ASSUME IInv, NEW t \in Thread, AwaitGoal(t)
    PROVE  IInv'
<1> USE DEF IInv
<1>1. /\ UNCHANGED <<parentVars, stepVars, goal, sends, late>>
      /\ thr[t].pc \in {"awaitAccept", "awaitResult"} /\ Mine(t) \in Steps
    BY SizeInSteps DEF AwaitGoal, At, ThreadOK, PlaceOK, StepLabels, Mine
<1>2. PICK l \in {"awaitResult", "conclude", "dispatched"}, o \in Outcomes :
          Moved(t, l, Mine(t), o) /\ Forward(t, l, o)
    <2>1. CASE Goto(t, "awaitResult")
        <3>1. Moved(t, "awaitResult", Mine(t), thr[t].outcome)
            BY <2>1, MovesMove DEF SequenceTypeOK, Labels
        <3>2. Forward(t, "awaitResult", thr[t].outcome) /\ thr[t].outcome \in Outcomes
            BY <1>1 DEF Forward, StepLabels, BeforeSend, SequenceTypeOK, Frame
        <3> QED
            BY <3>1, <3>2
    <2>2. ASSUME NEW o \in Outcomes, Respond(t, o), o = "succeeded" => goal[Mine(t)] = "succeeded"
          PROVE  \E l \in {"conclude", "dispatched"} : Moved(t, l, Mine(t), o) /\ Forward(t, l, o)
        BY <1>1, <2>2, MovesMove DEF SequenceTypeOK, Forward, StepLabels, BeforeSend
    <2>3. "blocked" \in Outcomes /\ "failed" \in Outcomes /\ GoalDone \subseteq Outcomes
        BY DEF Outcomes, GoalDone
    <2> QED
        BY <2>1, <2>2, <2>3 DEF AwaitGoal
<1>3. handles' \subseteq Steps
    BY <1>1 DEF AwaitGoal, SequenceTypeOK
<1>4. SequenceTypeOK'
    BY <1>1, <1>2, <1>3 DEF SequenceTypeOK, Moved, parentVars, stepVars
<1> QED
    BY <1>1, <1>2, <1>4, DriveGoesOn DEF Quiet, parentVars, stepVars

(* After a success the next step, or the end: by then all have succeeded.  *)
LEMMA StepDoneKeeps ==
    ASSUME IInv, NEW t \in Thread, StepDone(t)
    PROVE  IInv'
<1> USE DEF IInv
<1> DEFINE i == Mine(t)
<1>1. /\ thr[t].pc = "stepDone" /\ ThreadOK(thr[t]) /\ Drives(t) /\ i = thr[t].step
      /\ i \in 1..size /\ i \in Steps /\ size \in 0..MaxSteps /\ MaxSteps \in Nat
      /\ UNCHANGED <<windowOpen, size, step, stepFinal, pose, active,
                     goal, handles, sends, late>>
    BY SizeInSteps, SequenceAssumption
       DEF StepDone, At, ThreadOK, PlaceOK, Drives, StepLabels, Mine, SequenceTypeOK,
           stepVars, rosVars
<1>2. /\ parent \in PostConfirm /\ AllInserted /\ (parent \in Terminal => AllSettled)
      /\ \A k \in Steps : stepFinal[k] = "SUCCEEDED" => step[k] = "SUCCEEDED"
      /\ \A j \in Steps : j < i => step[j] = "SUCCEEDED"
      /\ \A j \in Steps : j > i => sends[j] = 0
    BY <1>1 DEF ThreadOK, DriveOK, Driving, StepLabels
<1>3. CASE stepFinal[i] # "SUCCEEDED"
    <2>1. PICK next \in {"FAILED"} \cup (Terminal \ {"SUCCEEDED"}) :
              ParentTo(t, next, "idle") /\ parentFinal' \in Terminal \cup {"none"}
        BY <1>1, <1>3 DEF StepDone, SequenceTypeOK
    <2> QED
        BY <1>1, <2>1, ParentFreeKeeps DEF Free, Lifecycle, Terminal
<1>4. CASE stepFinal[i] = "SUCCEEDED" /\ i < size
    <2>1. GotoStep(t, "select", i + 1) /\ UNCHANGED <<parent, parentFinal>>
        BY <1>4 DEF StepDone
    <2>2. i + 1 \in 1..size /\ i + 1 \in Steps /\ i + 1 \in 0..MaxSteps + 1
        BY <1>1, <1>4 DEF Steps
    <2>3. Moved(t, "select", i + 1, thr[t].outcome)
        BY <2>1, <2>2, MovesMove DEF SequenceTypeOK, Labels
    <2>4. SequenceTypeOK'
        BY <1>1, <2>1, <2>3 DEF SequenceTypeOK, Moved
    <2>5. /\ \A j \in Steps : j < i + 1 => step[j] = "SUCCEEDED"
          /\ \A j \in Steps : j > i + 1 => sends[j] = 0
          /\ sends[i + 1] = 0
        BY <1>1, <1>2, <1>4, <2>2 DEF Steps
    <2>6. ThreadOK(thr[t])'
        <3>1. PlaceOK(thr[t])' /\ SubmitOK(thr[t])' /\ CancelOK(thr[t])'
            BY <1>1, <2>2, <2>3 DEF Moved, PlaceOK, SubmitOK, CancelOK, Submitting, Inserting,
               Inserted
        <3>2. DriveOK(thr[t])'
            BY <1>1, <1>2, <2>1, <2>3, <2>5 DEF Moved, DriveOK, AllInserted, AllSettled
        <3> QED
            BY <3>1, <3>2 DEF ThreadOK
    <2>7. Alone(t, "select")
        BY <1>1 DEF Alone, Submitting, Inserting, Inserted
    <2> QED
        BY <1>1, <2>1, <2>3, <2>4, <2>6, <2>7, QuietKeeps DEF Quiet
<1>5. CASE stepFinal[i] = "SUCCEEDED" /\ ~(i < size)
    <2>1. ParentTo(t, "SUCCEEDED", "idle") /\ parentFinal' = "SUCCEEDED"
        BY <1>5 DEF StepDone, FinishParent
    <2>2. \A k \in 1..size : step[k] = "SUCCEEDED"
        BY <1>1, <1>2, <1>5, SizeInSteps
    <2> QED
        BY <1>1, <1>2, <2>1, <2>2, ParentFreeKeeps DEF AllInserted, Free, Lifecycle, Terminal
<1> QED
    BY <1>3, <1>4, <1>5

-----------------------------------------------------------------------------
(* The steps of a cancelling thread, and the steps nobody takes.           *)

(* A cancelling thread starts over the records at the first one.           *)
LEMMA CancelGoesOn ==
    ASSUME IInv, NEW t \in Thread, NEW l \in {"abort", "cancelGoal", "cancelSteps"},
           NEW i \in Nat \ {0}, NEW o, Moved(t, l, i, o),
           l = "cancelSteps" => i = 1, l # "cancelSteps" => i <= MaxSteps
    PROVE  ThreadOK(thr[t])' /\ Alone(t, l)
<1>1. PlaceOK(thr[t])' /\ SubmitOK(thr[t])' /\ DriveOK(thr[t])' /\ Alone(t, l)
    BY DEF Moved, PlaceOK, SubmitOK, DriveOK, Alone, Driving, StepLabels, BeforeSend,
       Submitting, Inserting, Inserted
<1>2. CancelOK(thr[t])'
    BY DEF Moved, CancelOK, Steps
<1> QED
    BY <1>1, <1>2 DEF ThreadOK

(* Its checks change no record.                                            *)
LEMMA CancelCheckKeeps ==
    ASSUME IInv, NEW t \in Thread, CancelCheck(t) \/ AbortStep(t)
    PROVE  IInv'
<1> USE DEF IInv
<1>1. UNCHANGED <<parentVars, stepVars, rosVars>>
    BY DEF CancelCheck, AbortStep
<1> MaxSteps \in Nat \ {0} /\ 1 \in 0..MaxSteps + 1 /\ active \in 0..MaxSteps
    BY SequenceAssumption DEF SequenceTypeOK
<1>2. ASSUME NEW l \in {"abort", "cancelGoal", "cancelSteps"}, NEW i \in 1..MaxSteps,
             NEW o, Moved(t, l, i, o), l = "cancelSteps" => i = 1
      PROVE  IInv'
    <2>1. SequenceTypeOK'
        BY <1>1, <1>2 DEF SequenceTypeOK, Moved, parentVars, stepVars, rosVars
    <2> QED
        BY <1>1, <1>2, <2>1, CancelGoesOn, QuietKeeps
           DEF Quiet, parentVars, stepVars, rosVars
<1>3. CASE Return(t)
    <2>1. Moved(t, "idle", 0, "none")
        BY <1>3, MovesMove DEF SequenceTypeOK
    <2>2. SequenceTypeOK'
        BY <1>1, <2>1 DEF SequenceTypeOK, Moved, parentVars, stepVars, rosVars
    <2> QED
        BY <1>1, <2>1, <2>2, FreeKeeps DEF Quiet, Free, parentVars, stepVars, rosVars
<1>4. CASE GotoStep(t, "cancelSteps", 1)
    <2>1. Moved(t, "cancelSteps", 1, thr[t].outcome)
        BY <1>4, MovesMove DEF SequenceTypeOK, Labels
    <2> QED
        BY <1>2, <2>1
<1>5. CASE GotoStep(t, "abort", active) /\ active # 0
    <2>1. Moved(t, "abort", active, thr[t].outcome)
        BY <1>5, MovesMove DEF SequenceTypeOK, Labels
    <2> QED
        BY <1>2, <1>5, <2>1
<1>6. CASE AbortStep(t) /\ Goto(t, "cancelGoal")
    <2>1. Moved(t, "cancelGoal", Mine(t), thr[t].outcome)
        BY <1>6, MovesMove DEF SequenceTypeOK, Labels
    <2>2. Mine(t) \in 1..MaxSteps
        BY <1>6 DEF AbortStep, At, ThreadOK, PlaceOK, Mine, SequenceTypeOK, Frame
    <2> QED
        BY <1>2, <2>1, <2>2
<1> QED
    BY <1>3, <1>4, <1>5, <1>6 DEF CancelCheck, AbortStep

(* A goal that is cancelled was sent, and had not succeeded yet.           *)
LEMMA GoalMoves ==
    ASSUME IInv, NEW i \in Steps, goal[i] \notin {"none", "succeeded"},
           NEW state, goal' = [goal EXCEPT ![i] = state],
           UNCHANGED <<parent, size, step, stepFinal, pose, sends, late>>
    PROVE  /\ RecordsOK'
           /\ \A u \in Thread : thr'[u] = thr[u] => Rely(u)
<1> USE DEF IInv
<1>1. \A k \in Steps : k # i => goal'[k] = goal[k]
    BY DEF SequenceTypeOK
<1>2. sends[i] # 0 /\ (step[i] = "SUCCEEDED" => i \in pose)
    BY DEF RecordsOK
<1>3. SucceededIsComplete'
    BY <1>1, <1>2, SizeInSteps DEF RecordsOK, SucceededIsComplete
<1>4. RecordsOK'
    BY <1>1, <1>2, <1>3 DEF RecordsOK, AllInserted, Untouched, StepsInOrder, EachStepOnce
<1>5. \A u \in Thread : thr'[u] = thr[u] => Rely(u)
    BY <1>1 DEF Rely
<1> QED
    BY <1>4, <1>5

(* A cancellation in ROS changes the goal only.                            *)
LEMMA CancelGoalKeeps ==
    ASSUME IInv, NEW t \in Thread, CancelGoal(t)
    PROVE  IInv'
<1> USE DEF IInv
<1>1. /\ UNCHANGED <<parentVars, stepVars, handles, sends, late>>
      /\ thr[t].pc = "cancelGoal" /\ Mine(t) \in Steps
    BY DEF CancelGoal, At, ThreadOK, PlaceOK, Mine, SequenceTypeOK, Frame, Steps
<1>2. PICK l \in {"idle", "cancelSteps"}, i \in {0, 1}, o \in {thr[t].outcome, "none"} :
          Moved(t, l, i, o) /\ (l = "cancelSteps" => i = 1)
    <2> 1 \in 0..MaxSteps + 1 /\ "cancelSteps" \in Labels
        BY SequenceAssumption DEF Labels
    <2> QED
        BY MovesMove DEF CancelGoal, SequenceTypeOK
<1>3. goal' \in [Steps -> GoalStates]
    BY DEF CancelGoal, SequenceTypeOK, GoalStates
<1>4. SequenceTypeOK'
    BY <1>1, <1>2, <1>3 DEF SequenceTypeOK, Moved, parentVars, stepVars
<1>5. ThreadOK(thr[t])' /\ Alone(t, l)
    <2>1. CASE l = "idle"
        BY <1>2, <2>1, FreeOK DEF Moved, Free, Alone, Driving, StepLabels, BeforeSend,
           Submitting, Inserting, Inserted
    <2>2. CASE l = "cancelSteps"
        BY <1>2, <2>2, CancelGoesOn
    <2> QED
        BY <2>1, <2>2
<1>6. CASE goal' = goal
    BY <1>1, <1>2, <1>4, <1>5, <1>6, QuietKeeps DEF Quiet, parentVars, stepVars
<1>7. CASE /\ goal[Mine(t)] \in {"running", "canceling"}
           /\ goal' = [goal EXCEPT ![Mine(t)] = "canceling"]
    <2>1. RecordsOK' /\ \A u \in Thread : u # t => Rely(u)
        BY <1>1, <1>2, <1>7, GoalMoves DEF Moved, parentVars, stepVars
    <2> QED
        BY <1>2, <1>4, <1>5, <2>1, StepKeeps
<1> QED
    BY <1>6, <1>7 DEF CancelGoal

(* The records are settled one by one, in order, and the parent last: when *)
(* it is marked, whoever still drives the sequence finds all settled.      *)
LEMMA CancelStepsKeeps ==
    ASSUME IInv, NEW t \in Thread, CancelSteps(t)
    PROVE  IInv'
<1> USE DEF IInv
<1> DEFINE open == {i \in Mine(t)..MaxSteps : step[i] \notin Terminal \cup {"ABSENT"}}
<1>1. /\ thr[t].pc = "cancelSteps" /\ Mine(t) = thr[t].step
      /\ Mine(t) \in 1..MaxSteps + 1 /\ MaxSteps \in Nat /\ size \in 0..MaxSteps
      /\ \A j \in Steps : j < Mine(t) => step[j] \in Terminal
      /\ UNCHANGED <<windowOpen, size, pose, active, goal, handles, sends, late>>
    BY SequenceAssumption DEF CancelSteps, At, ThreadOK, PlaceOK, CancelOK, Mine,
       SequenceTypeOK, Frame, rosVars
<1>2. CASE open = {}
    <2>1. /\ ParentTo(t, "CANCELLED", "idle") /\ parentFinal' = "CANCELLED"
          /\ UNCHANGED <<step, stepFinal>>
        BY <1>2 DEF CancelSteps, FinishParent
    <2>2. \A k \in Steps : step[k] \in Terminal \cup {"ABSENT"}
        BY <1>1, <1>2 DEF Steps
    <2>3. AllInserted => AllSettled
        BY <2>2, SizeInSteps DEF AllInserted, AllSettled
    <2>4. AllSettled \/ NoDriver
        BY <2>3 DEF NoDriver, ThreadOK, DriveOK, Drives, Driving
    <2> QED
        BY <1>1, <2>1, <2>4, ParentFreeKeeps DEF Free, Lifecycle, Terminal
<1>3. CASE open # {}
    <2>1. PICK i \in open :
              /\ \A j \in open : i <= j
              /\ stepFinal' = [stepFinal EXCEPT ![i] = "CANCELLED"]
              /\ step' = [step EXCEPT ![i] = "CANCELLED"]
              /\ GotoStep(t, "cancelSteps", i + 1)
        BY <1>3 DEF CancelSteps
    <2>2. /\ UNCHANGED <<parent, parentFinal>>
          /\ i \in Steps /\ i \in Nat /\ Mine(t) <= i /\ i + 1 \in 0..MaxSteps + 1
          /\ step[i] \notin Terminal \cup {"ABSENT"}
        BY <1>1, <1>3 DEF CancelSteps, Steps
    <2>3. Moved(t, "cancelSteps", i + 1, thr[t].outcome)
        BY <2>1, <2>2, MovesMove DEF SequenceTypeOK, Labels
    <2>4. SequenceTypeOK'
        BY <1>1, <2>1, <2>2, <2>3 DEF SequenceTypeOK, Moved, Terminal, Lifecycle
    <2>5. /\ \A k \in Steps : k # i => step'[k] = step[k] /\ stepFinal'[k] = stepFinal[k]
          /\ step'[i] = "CANCELLED" /\ stepFinal'[i] = "CANCELLED"
        BY <2>1, <2>2 DEF SequenceTypeOK
    <2>6. ASSUME NEW j \in Steps, j < i + 1 PROVE step'[j] \in Terminal
        <3>1. j \in 1..MaxSteps /\ (j < i \/ j = i)
            BY <1>1, <2>2, <2>6 DEF Steps
        <3>2. CASE j = i
            BY <2>5, <3>2 DEF Terminal
        <3>3. CASE j < Mine(t)
            BY <1>1, <2>2, <2>5, <3>3
        <3>4. CASE j < i /\ ~(j < Mine(t))
            <4>1. j \in Mine(t)..MaxSteps /\ j \notin open
                BY <1>1, <2>1, <2>2, <3>1, <3>4
            <4>2. step[j] # "ABSENT"
                BY <2>2, <3>4 DEF RecordsOK
            <4> QED
                BY <2>5, <3>4, <4>1, <4>2
        <3> QED
            BY <3>1, <3>2, <3>3, <3>4
    <2>7. ThreadOK(thr[t])'
        <3>1. PlaceOK(thr[t])' /\ SubmitOK(thr[t])' /\ DriveOK(thr[t])'
            BY <2>2, <2>3 DEF Moved, PlaceOK, SubmitOK, DriveOK, Driving, StepLabels, BeforeSend,
               Submitting, Inserting, Inserted
        <3>2. CancelOK(thr[t])'
            BY <2>3, <2>6 DEF Moved, CancelOK
        <3> QED
            BY <3>1, <3>2 DEF ThreadOK
    <2>8. Alone(t, "cancelSteps")
        BY DEF Alone, Driving, StepLabels, BeforeSend, Submitting, Inserting, Inserted
    <2> QED
        BY <1>1, <2>2, <2>3, <2>4, <2>5, <2>7, <2>8, StepRecordKeeps DEF Terminal
<1> QED
    BY <1>2, <1>3

(* The clock and the robot move no thread.                                 *)
LEMMA WorldKeeps ==
    ASSUME IInv, WindowElapses \/ (\E i \in Steps : GoalAnswers(i)) \/ UNCHANGED sequence
    PROVE  IInv'
<1> USE DEF IInv
<1>1. CASE WindowElapses \/ UNCHANGED sequence
    <2>1. /\ UNCHANGED <<parent, parentFinal, size, step, stepFinal, pose, active, thr,
                         goal, handles, sends, late>>
          /\ windowOpen' \in BOOLEAN
        BY <1>1 DEF WindowElapses, sequence, stepVars, rosVars, SequenceTypeOK
    <2>2. SequenceTypeOK'
        BY <2>1 DEF SequenceTypeOK
    <2>3. \A u \in Thread : Rely(u)
        BY <2>1 DEF Rely
    <2>4. RecordsOK'
        BY <2>1 DEF RecordsOK, AllInserted, Untouched, StepsInOrder, EachStepOnce,
           SucceededIsComplete
    <2> QED
        BY <2>1, <2>2, <2>3, <2>4, OthersKeep DEF OneOfEach, Drives, Submits
<1>2. ASSUME NEW i \in Steps, GoalAnswers(i) PROVE IInv'
    <2>1. PICK state \in GoalStates : goal' = [goal EXCEPT ![i] = state]
        BY <1>2 DEF GoalAnswers, GoalStates, GoalDone
    <2>2. goal[i] \notin {"none", "succeeded"}
          /\ UNCHANGED <<parentVars, stepVars, thr, handles, sends, late>>
        BY <1>2 DEF GoalAnswers
    <2>3. SequenceTypeOK'
        BY <2>1, <2>2 DEF SequenceTypeOK, parentVars, stepVars
    <2>4. RecordsOK' /\ \A u \in Thread : Rely(u)
        BY <2>1, <2>2, GoalMoves DEF parentVars, stepVars
    <2> QED
        BY <2>2, <2>3, <2>4, OthersKeep DEF OneOfEach, Drives, Submits
<1> QED
    BY <1>1, <1>2

-----------------------------------------------------------------------------
(* One lemma per action.                                                   *)
LEMMA StepPreserves == IInv /\ [SequenceNext]_sequence => IInv'
<1> SUFFICES ASSUME IInv, [SequenceNext]_sequence PROVE IInv'
    OBVIOUS
<1>1. ASSUME NEW t \in Thread, SubmitIntent(t) PROVE IInv'
    BY <1>1, SubmitIntentKeeps
<1>2. ASSUME NEW t \in Thread, NEW op \in Requests, Request(t, op) PROVE IInv'
    BY <1>2, RequestKeeps
<1>3. ASSUME NEW t \in Thread, SubmitStep(t) PROVE IInv'
    BY <1>3, ParseKeeps, RejectKeeps, InsertStepKeeps, ParseStepKeeps, BeginValidationKeeps,
       ValidateKeeps, OfferStepKeeps, OfferSequenceKeeps DEF SubmitStep
<1>4. ASSUME NEW t \in Thread, ScanPending(t) \/ ExpirePending(t) \/ ConfirmSequence(t)
      PROVE  IInv'
    BY <1>4, ChecksKeep, ExpiryKeeps, ConfirmKeeps DEF ConfirmSequence
<1>5. ASSUME NEW t \in Thread, RunStep(t) PROVE IInv'
    BY <1>5, SelectAndGateKeep, RunRecordKeeps, SendGoalKeeps, AwaitGoalKeeps, StepDoneKeeps
       DEF RunStep
<1>6. ASSUME NEW t \in Thread, CancelSequence(t) PROVE IInv'
    BY <1>6, CancelCheckKeeps, CancelGoalKeeps, CancelStepsKeeps DEF CancelSequence
<1>7. CASE WindowElapses \/ (\E i \in Steps : GoalAnswers(i)) \/ UNCHANGED sequence
    BY <1>7, WorldKeeps
<1> QED
    BY <1>1, <1>2, <1>3, <1>4, <1>5, <1>6, <1>7 DEF SequenceNext, ThreadStep

(* However many threads submit, confirm, cancel and poll a sequence of     *)
(* however many steps: its steps are sent in order and once each, it is    *)
(* called SUCCEEDED only when all of them succeeded on the ROS side, and   *)
(* EXPIRED or REJECTED only when none was sent.                            *)
THEOREM SequenceIsSafe == SequenceSpec => []SequenceSafe
<1>1. SequenceInit => IInv
    BY InvariantInitially
<1>2. IInv /\ [SequenceNext]_sequence => IInv'
    BY StepPreserves
<1>3. IInv => SequenceSafe
    BY InvariantIsSafe
<1> QED
    BY <1>1, <1>2, <1>3, PTL DEF SequenceSpec
================================================================================
