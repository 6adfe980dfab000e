--------------------------- MODULE HwAdapter_proofs ---------------------------
(***************************************************************************)
(* The two halves of hw_adapter, for every value of the constants.  The    *)
(* single execution slot, for any number of dispatches: the two flags under*)
(* orchestration_mutex_ always tell where the one worker that owns the slot*)
(* is, so the slot is neither shared nor lost.  The monitors: what the node*)
(* knows of the robot is current, for every limit on the ages and on the   *)
(* waits of its services.                                                  *)
(***************************************************************************)
EXTENDS HwAdapter, HwMonitors, TLAPS

(* stop_motion changes the session flag and the running goals, within      *)
(* their types.                                                            *)
LEMMA StopMotionTypes ==
    ASSUME TypeOK, NEW ok \in BOOLEAN, StopMotion(ok)
    PROVE  /\ sessionReady' \in BOOLEAN
           /\ fjt' \in [Dispatch -> GoalStates]
           /\ \A d \in Dispatch : fjt[d] = "succeeded" => fjt'[d] = "succeeded"
<1>1. sessionReady' \in BOOLEAN
  BY DEF StopMotion
<1>2. CASE \E end \in {"canceled", "aborted"} :
             fjt' = [d \in Dispatch |-> IF fjt[d] = "running" THEN end ELSE fjt[d]]
  BY <1>1, <1>2 DEF TypeOK, GoalStates
<1>3. CASE UNCHANGED fjt
  BY <1>1, <1>3 DEF TypeOK
<1> QED
  BY <1>2, <1>3 DEF StopMotion

(* The empty slot is the initial state.                                    *)
LEMMA InitSlotInv == Init => TypeOK /\ SlotInv
BY DEF Init, TypeOK, SlotInv, SingleExecution, ClientStates, WorkerLabels,
       WatcherLabels, GoalStates, InSlot, BeforeSlot

(* Every callback, worker step and watcher step keeps the types.           *)
LEMMA StepTypeOK == TypeOK /\ [Next]_vars => TypeOK'
<1> SUFFICES ASSUME TypeOK, [Next]_vars PROVE TypeOK'
  OBVIOUS
<1> USE DEF TypeOK, Goto, slotVars
<1>1. ASSUME NEW d \in Dispatch, HandleDispatchGoal(d) PROVE TypeOK'
  BY <1>1 DEF HandleDispatchGoal, ClientStates, WorkerLabels, BeforeSlot
<1>2. ASSUME NEW d \in Dispatch, HandleDispatchCancel(d) PROVE TypeOK'
  BY <1>2 DEF HandleDispatchCancel, ClientStates
<1>3. CASE HandleAlarmReset
  BY <1>3 DEF HandleAlarmReset
<1>4. ASSUME NEW d \in Dispatch, StartDispatch(d) PROVE TypeOK'
  BY <1>4 DEF StartDispatch, WorkerLabels, BeforeSlot, WatcherLabels
<1>5. ASSUME NEW d \in Dispatch, TakeSlot(d) PROVE TypeOK'
  BY <1>5 DEF TakeSlot, WorkerLabels, InSlot
<1>6. ASSUME NEW d \in Dispatch, Preflight(d) PROVE TypeOK'
  BY <1>6 DEF Preflight, Proceed, Finalize, WorkerLabels, InSlot
<1>7. ASSUME NEW d \in Dispatch, EnsureTrajectoryMode(d) PROVE TypeOK'
  BY <1>7 DEF EnsureTrajectoryMode, Finalize, WorkerLabels, InSlot
<1>8. ASSUME NEW d \in Dispatch, Commit(d) PROVE TypeOK'
  BY <1>8 DEF Commit, Proceed, Finalize, WorkerLabels, InSlot
<1>9. ASSUME NEW d \in Dispatch, SendGoal(d) PROVE TypeOK'
  BY <1>9 DEF SendGoal, WorkerLabels, InSlot, GoalStates
<1>10. ASSUME NEW d \in Dispatch, AwaitResponse(d) PROVE TypeOK'
  BY <1>10 DEF AwaitResponse, Finalize, WorkerLabels, InSlot
<1>11. ASSUME NEW d \in Dispatch, AwaitResult(d) PROVE TypeOK'
  BY <1>11 DEF AwaitResult, Finalize, WorkerLabels, InSlot
<1>12. ASSUME NEW d \in Dispatch, FatalStop(d) PROVE TypeOK'
  <2>1. sessionReady' \in BOOLEAN /\ fjt' \in [Dispatch -> GoalStates]
    BY <1>12, StopMotionTypes DEF FatalStop
  <2> QED
    BY <1>12, <2>1 DEF FatalStop, WorkerLabels, InSlot
<1>13. ASSUME NEW d \in Dispatch, RecoverStop(d) PROVE TypeOK'
  <2>1. sessionReady' \in BOOLEAN /\ fjt' \in [Dispatch -> GoalStates]
    BY <1>13, StopMotionTypes DEF RecoverStop
  <2> QED
    BY <1>13, <2>1 DEF RecoverStop, Proceed, Finalize, WorkerLabels, InSlot
<1>14. ASSUME NEW d \in Dispatch, RecoverReset(d) PROVE TypeOK'
  BY <1>14 DEF RecoverReset, Proceed, Finalize, WorkerLabels, InSlot
<1>15. ASSUME NEW d \in Dispatch, RecoverReady(d) PROVE TypeOK'
  BY <1>15 DEF RecoverReady, Finalize, WorkerLabels
<1>16. ASSUME NEW d \in Dispatch, FinishExecution(d) \/ JoinWatcher(d) PROVE TypeOK'
  BY <1>16 DEF FinishExecution, JoinWatcher, WorkerLabels
<1>17. ASSUME NEW d \in Dispatch, Report(d) PROVE TypeOK'
  BY <1>17 DEF Report, ClientStates, WorkerLabels
<1>18. ASSUME NEW d \in Dispatch, WatcherSeesCancel(d) \/ WatcherEnds(d) PROVE TypeOK'
  BY <1>18 DEF WatcherSeesCancel, WatcherEnds, WatcherLabels
<1>19. ASSUME NEW d \in Dispatch, WatcherStops(d) PROVE TypeOK'
  <2>1. sessionReady' \in BOOLEAN /\ fjt' \in [Dispatch -> GoalStates]
    BY <1>19, StopMotionTypes DEF WatcherStops
  <2> QED
    BY <1>19, <2>1 DEF WatcherStops, WatcherLabels
<1>20. ASSUME NEW d \in Dispatch, ControllerResponds(d) \/ ControllerEnds(d) PROVE TypeOK'
  BY <1>20 DEF ControllerResponds, ControllerEnds, GoalStates
<1>21. CASE UNCHANGED vars
  BY <1>21 DEF vars
<1> QED
  BY <1>1, <1>2, <1>3, <1>4, <1>5, <1>6, <1>7, <1>8, <1>9, <1>10, <1>11, <1>12,
     <1>13, <1>14, <1>15, <1>16, <1>17, <1>18, <1>19, <1>20, <1>21
  DEF Next, WorkerStep, WatcherStep

-----------------------------------------------------------------------------
(* Moving a worker inside the slot, or outside of it, changes nothing that *)
(* the invariant speaks about.                                             *)
LEMMA MoveKeepsSlot ==
    ASSUME TypeOK, SlotInv, NEW d \in Dispatch, NEW label, Goto(d, label),
           UNCHANGED slotVars,
           worker[d] \in InSlot <=> label \in InSlot,
           worker[d] \in BeforeSlot <=> label \in BeforeSlot
    PROVE  SlotInv'
<1>1. \A e \in Dispatch : worker'[e] \in InSlot <=> worker[e] \in InSlot
  BY DEF Goto, TypeOK
<1>2. \A e \in Dispatch : worker'[e] \in BeforeSlot <=> worker[e] \in BeforeSlot
  BY DEF Goto, TypeOK
<1> QED
  BY <1>1, <1>2 DEF SlotInv, SingleExecution, slotVars

(* finalize, called by the worker in the slot, leaves the slot empty.      *)
LEMMA FinalizeFreesSlot ==
    ASSUME TypeOK, SlotInv, NEW d \in Dispatch, NEW ok, worker[d] \in InSlot,
           Finalize(d, ok)
    PROVE  SlotInv'
<1>1. \A e \in Dispatch : worker'[e] \notin InSlot /\ worker'[e] \notin BeforeSlot
  BY DEF Finalize, Goto, TypeOK, SlotInv, SingleExecution, InSlot, BeforeSlot
<1> QED
  BY <1>1 DEF SlotInv, SingleExecution, Finalize

(* A step that moves no worker and touches no flag.                        *)
LEMMA ElsewhereKeepsSlot ==
    ASSUME SlotInv, UNCHANGED <<worker, reserved, inProgress>>
    PROVE  SlotInv'
BY DEF SlotInv, SingleExecution

(* Every step keeps the slot's bookkeeping.                                *)
LEMMA StepSlotInv == TypeOK /\ SlotInv /\ [Next]_vars => SlotInv'
<1> SUFFICES ASSUME TypeOK, SlotInv, [Next]_vars PROVE SlotInv'
  OBVIOUS
<1> USE DEF InSlot, BeforeSlot
<1>1. ASSUME NEW d \in Dispatch, HandleDispatchGoal(d) PROVE SlotInv'
  <2>1. CASE UNCHANGED <<reserved, worker>>
    BY <1>1, <2>1, ElsewhereKeepsSlot DEF HandleDispatchGoal
  <2>2. CASE ~Busy /\ reserved' = TRUE /\ Goto(d, "start")
    <3>1. \A e \in Dispatch : worker[e] \notin InSlot \cup BeforeSlot
      BY <2>2 DEF Busy, SlotInv
    <3>2. \A e \in Dispatch : worker'[e] = IF e = d THEN "start" ELSE worker[e]
      BY <2>2 DEF Goto, TypeOK
    <3> QED
      BY <1>1, <2>2, <3>1, <3>2 DEF HandleDispatchGoal, Busy, SlotInv, SingleExecution
  <2> QED
    BY <1>1, <2>1, <2>2 DEF HandleDispatchGoal
<1>2. ASSUME NEW d \in Dispatch, StartDispatch(d) PROVE SlotInv'
  <2>1. CASE reserved' = FALSE /\ Goto(d, "report")
    <3>1. worker[d] \in BeforeSlot /\ ~inProgress /\ UNCHANGED inProgress
      BY <1>2 DEF StartDispatch, SlotInv
    <3>2. \A e \in Dispatch : worker'[e] \notin InSlot \cup BeforeSlot
      BY <2>1, <3>1 DEF Goto, TypeOK, SlotInv
    <3> QED
      BY <2>1, <3>1, <3>2 DEF SlotInv, SingleExecution
  <2>2. CASE Goto(d, "begin") /\ UNCHANGED reserved
    BY <1>2, <2>2, MoveKeepsSlot DEF StartDispatch, slotVars
  <2> QED
    BY <1>2, <2>1, <2>2 DEF StartDispatch
<1>3. ASSUME NEW d \in Dispatch, TakeSlot(d) PROVE SlotInv'
  <2>1. worker[d] \in BeforeSlot /\ reserved /\ ~inProgress
    BY <1>3 DEF TakeSlot, SlotInv
  <2>2. reserved' = FALSE /\ inProgress' = TRUE /\ Goto(d, "preflight")
    BY <1>3, <2>1 DEF TakeSlot
  <2>3. \A e \in Dispatch :
           worker'[e] \notin BeforeSlot /\ (worker'[e] \in InSlot <=> e = d)
    BY <2>1, <2>2 DEF Goto, TypeOK, SlotInv
  <2> QED
    BY <2>2, <2>3 DEF SlotInv, SingleExecution
<1>4. ASSUME NEW d \in Dispatch,
             \/ Preflight(d) \/ EnsureTrajectoryMode(d) \/ Commit(d)
             \/ AwaitResponse(d) \/ AwaitResult(d) \/ RecoverStop(d)
             \/ RecoverReset(d) \/ RecoverReady(d)
      PROVE  SlotInv'
  <2>1. worker[d] \in InSlot
    BY <1>4 DEF Preflight, EnsureTrajectoryMode, Commit, AwaitResponse, AwaitResult,
                RecoverStop, RecoverReset, RecoverReady
  <2>2. \/ \E ok \in BOOLEAN : Finalize(d, ok)
        \/ \E label \in InSlot : Goto(d, label) /\ UNCHANGED slotVars
    BY <1>4 DEF Preflight, EnsureTrajectoryMode, Commit, AwaitResponse, AwaitResult,
                RecoverStop, RecoverReset, RecoverReady, Proceed
  <2>3. ASSUME NEW label \in InSlot, Goto(d, label), UNCHANGED slotVars PROVE SlotInv'
    BY <2>1, <2>3, MoveKeepsSlot
  <2> QED
    BY <2>1, <2>2, <2>3, FinalizeFreesSlot
<1>5. ASSUME NEW d \in Dispatch, SendGoal(d) \/ FatalStop(d) PROVE SlotInv'
  BY <1>5, MoveKeepsSlot DEF SendGoal, FatalStop
<1>6. ASSUME NEW d \in Dispatch, FinishExecution(d) \/ JoinWatcher(d) \/ Report(d)
      PROVE  SlotInv'
  BY <1>6, MoveKeepsSlot DEF FinishExecution, JoinWatcher, Report
<1>7. ASSUME NEW d \in Dispatch,
             \/ HandleDispatchCancel(d) \/ WatcherStep(d)
             \/ ControllerResponds(d) \/ ControllerEnds(d)
      PROVE  SlotInv'
  BY <1>7, ElsewhereKeepsSlot
  DEF HandleDispatchCancel, WatcherStep, WatcherSeesCancel, WatcherStops, WatcherEnds,
      ControllerResponds, ControllerEnds, slotVars
<1>8. CASE HandleAlarmReset \/ UNCHANGED vars
  BY <1>8, ElsewhereKeepsSlot DEF HandleAlarmReset, vars, slotVars
<1> QED
  BY <1>1, <1>2, <1>3, <1>4, <1>5, <1>6, <1>7, <1>8 DEF Next, WorkerStep

(* dispatch_goal_reserved_ and execution_in_progress_ always mark exactly  *)
(* the worker that owns the slot.                                          *)
THEOREM SlotInvariant == Spec => [](TypeOK /\ SlotInv)
BY InitSlotInv, StepTypeOK, StepSlotInv, PTL DEF Spec

(* However many dispatches arrive, are cancelled, fail and recover, one    *)
(* worker at a time is inside execute_trajectory_internal.                 *)
THEOREM OneExecutionAtATime == Spec => []SingleExecution
<1>1. SlotInv => SingleExecution
  BY DEF SlotInv
<1> QED
  BY <1>1, SlotInvariant, PTL

(* The worker always finds the reservation that handle_dispatch_goal made. *)
THEOREM ReservationIsKept == Spec => []ReservationHeld
<1>1. SlotInv => ReservationHeld
  BY DEF SlotInv, ReservationHeld
<1> QED
  BY <1>1, SlotInvariant, PTL

-----------------------------------------------------------------------------
(* stop_motion touches only goals that run.                                *)
LEMMA StopMotionGoals ==
    ASSUME TypeOK, NEW ok \in BOOLEAN, StopMotion(ok), NEW d \in Dispatch
    PROVE  fjt[d] # "running" => fjt'[d] = fjt[d]
<1>1. CASE \E end \in {"canceled", "aborted"} :
             fjt' = [e \in Dispatch |-> IF fjt[e] = "running" THEN end ELSE fjt[e]]
  BY <1>1
<1>2. CASE UNCHANGED fjt
  BY <1>2
<1> QED
  BY <1>1, <1>2 DEF StopMotion

(* A worker step that is neither the send, nor a success, nor the report:  *)
(* the goal handle stays open and the goals only stop.                     *)
LEMMA QuietStep ==
    ASSUME TypeOK, AnswerInv, NEW d \in Dispatch, NEW label, Goto(d, label),
           worker[d] \notin {"none", "done"},
           label \notin {"none", "done"},
           label \in BeforeSend => worker[d] \in BeforeSend,
           UNCHANGED <<client, watcher>>,
           \A e \in Dispatch : success'[e] => success[e],
           \A e \in Dispatch : fjt[e] # "running" => fjt'[e] = fjt[e]
    PROVE  AnswerInv'
<1>1. \A e \in Dispatch : worker'[e] = IF e = d THEN label ELSE worker[e]
  BY DEF Goto, TypeOK
<1> QED
  BY <1>1 DEF AnswerInv, SuccessIsReal, StopMeansCanceled

(* Before the first goal there is nothing to answer.                       *)
LEMMA InitAnswerInv == Init => AnswerInv
BY DEF Init, AnswerInv, SuccessIsReal, StopMeansCanceled

(* Every step keeps the answers truthful.                                  *)
LEMMA StepAnswerInv == TypeOK /\ AnswerInv /\ [Next]_vars => AnswerInv'
<1> SUFFICES ASSUME TypeOK, AnswerInv, [Next]_vars PROVE AnswerInv'
  OBVIOUS
<1> USE DEF BeforeSend, BeforeSlot
<1>1. ASSUME NEW d \in Dispatch, HandleDispatchGoal(d) PROVE AnswerInv'
  BY <1>1 DEF HandleDispatchGoal, Goto, TypeOK, AnswerInv, SuccessIsReal, StopMeansCanceled
<1>2. ASSUME NEW d \in Dispatch, HandleDispatchCancel(d) PROVE AnswerInv'
  BY <1>2 DEF HandleDispatchCancel, TypeOK, AnswerInv, SuccessIsReal, StopMeansCanceled
<1>3. ASSUME NEW d \in Dispatch, StartDispatch(d) PROVE AnswerInv'
  BY <1>3 DEF StartDispatch, Goto, TypeOK, AnswerInv, SuccessIsReal, StopMeansCanceled
<1>4. ASSUME NEW d \in Dispatch, SendGoal(d) PROVE AnswerInv'
  BY <1>4 DEF SendGoal, Goto, TypeOK, AnswerInv, SuccessIsReal, StopMeansCanceled
<1>5. ASSUME NEW d \in Dispatch, AwaitResult(d) PROVE AnswerInv'
  BY <1>5 DEF AwaitResult, Finalize, Goto, TypeOK, AnswerInv, SuccessIsReal,
              StopMeansCanceled, slotVars
<1>6. ASSUME NEW d \in Dispatch, Report(d) PROVE AnswerInv'
  <2>1. client[d] \in {"executing", "canceling"}
    BY <1>6 DEF Report, AnswerInv
  <2>2. /\ \A e \in Dispatch : worker'[e] = IF e = d THEN "done" ELSE worker[e]
        /\ \A e \in Dispatch : e # d => client'[e] = client[e]
        /\ client'[d] = IF client[d] = "canceling" THEN "canceled"
                        ELSE IF success[d] THEN "succeeded" ELSE "aborted"
        /\ UNCHANGED <<watcher, success, fjt>>
    BY <1>6 DEF Report, Goto, TypeOK
  <2> QED
    BY <2>1, <2>2 DEF AnswerInv, SuccessIsReal, StopMeansCanceled
<1>7. ASSUME NEW d \in Dispatch, FatalStop(d) \/ RecoverStop(d) PROVE AnswerInv'
  <2>1. /\ \A e \in Dispatch : fjt[e] # "running" => fjt'[e] = fjt[e]
        /\ UNCHANGED <<client, watcher>>
    BY <1>7, StopMotionGoals DEF FatalStop, RecoverStop
  <2>2. \E label \in {"recoverStop", "recoverReset", "finished"} : Goto(d, label)
    BY <1>7 DEF FatalStop, RecoverStop, Proceed, Finalize
  <2>3. \A e \in Dispatch : success'[e] => success[e]
    BY <1>7 DEF FatalStop, RecoverStop, Proceed, Finalize, TypeOK
  <2>4. worker[d] \in {"stop", "recoverStop"}
    BY <1>7 DEF FatalStop, RecoverStop
  <2> QED
    BY <2>1, <2>2, <2>3, <2>4, QuietStep
<1>8. ASSUME NEW d \in Dispatch,
             \/ TakeSlot(d) \/ Preflight(d) \/ EnsureTrajectoryMode(d) \/ Commit(d)
             \/ AwaitResponse(d) \/ RecoverReset(d) \/ RecoverReady(d)
             \/ FinishExecution(d) \/ JoinWatcher(d)
      PROVE  AnswerInv'
  <2> USE DEF TakeSlot, Preflight, EnsureTrajectoryMode, Commit, AwaitResponse,
              RecoverReset, RecoverReady, FinishExecution, JoinWatcher, Proceed,
              Finalize, slotVars
  <2>1. UNCHANGED <<client, watcher, fjt>>
    BY <1>8
  <2>2. \A e \in Dispatch : success'[e] => success[e]
    BY <1>8 DEF TypeOK
  <2>3. worker[d] \notin {"none", "done"}
    BY <1>8
  <2>4. \E label \in {"preflight", "mode", "commit", "send", "awaitResult",
                     "recoverReady", "finished", "join", "report"} :
           Goto(d, label) /\ (label \in BeforeSend => worker[d] \in BeforeSend)
    BY <1>8
  <2> HIDE DEF TakeSlot, Preflight, EnsureTrajectoryMode, Commit, AwaitResponse,
               RecoverReset, RecoverReady, FinishExecution, JoinWatcher, Proceed,
               Finalize, slotVars
  <2> QED
    BY <2>1, <2>2, <2>3, <2>4, QuietStep
<1>9. ASSUME NEW d \in Dispatch, WatcherSeesCancel(d) \/ WatcherEnds(d) PROVE AnswerInv'
  BY <1>9 DEF WatcherSeesCancel, WatcherEnds, TypeOK, AnswerInv, SuccessIsReal,
              StopMeansCanceled
<1>10. ASSUME NEW d \in Dispatch, WatcherStops(d) PROVE AnswerInv'
  <2>1. \A e \in Dispatch : fjt[e] # "running" => fjt'[e] = fjt[e]
    BY <1>10, StopMotionGoals DEF WatcherStops
  <2> QED
    BY <1>10, <2>1 DEF WatcherStops, TypeOK, AnswerInv, SuccessIsReal, StopMeansCanceled
<1>11. ASSUME NEW d \in Dispatch, ControllerResponds(d) \/ ControllerEnds(d)
       PROVE  AnswerInv'
  BY <1>11 DEF ControllerResponds, ControllerEnds, TypeOK, AnswerInv, SuccessIsReal,
               StopMeansCanceled
<1>12. CASE HandleAlarmReset \/ UNCHANGED vars
  BY <1>12 DEF HandleAlarmReset, vars, AnswerInv, SuccessIsReal, StopMeansCanceled
<1> QED
  BY <1>1, <1>2, <1>3, <1>4, <1>5, <1>6, <1>7, <1>8, <1>9, <1>10, <1>11, <1>12
  DEF Next, WorkerStep, WatcherStep

(* A DispatchTrajectory result with success means that the controller      *)
(* finished the trajectory.                                                *)
THEOREM SuccessIsTruthful == Spec => []SuccessIsReal
<1>1. AnswerInv => SuccessIsReal
  BY DEF AnswerInv
<1> QED
  BY <1>1, InitSlotInv, InitAnswerInv, StepTypeOK, StepAnswerInv, PTL DEF Spec

(* Once the cancel watcher has called stop_motion the client is told       *)
(* canceled, never succeeded or aborted.                                   *)
THEOREM StopIsReported == Spec => []StopMeansCanceled
<1>1. AnswerInv => StopMeansCanceled
  BY DEF AnswerInv
<1> QED
  BY <1>1, InitSlotInv, InitAnswerInv, StepTypeOK, StepAnswerInv, PTL DEF Spec

-----------------------------------------------------------------------------
(* The answer to a dispatch tells what the robot did.                      *)
THEOREM AnswersAreTrue == Spec => []AnswersAreTruthful
<1>1. SuccessIsReal /\ StopMeansCanceled => AnswersAreTruthful
  BY DEF AnswersAreTruthful
<1> QED
  BY <1>1, SuccessIsTruthful, StopIsReported, PTL

(* A worker step with the slot is a step of DispatchServer: it keeps the   *)
(* robot or frees it.                                                      *)
LEMMA OwnerStep ==
    ASSUME TypeOK, SlotInv, NEW d \in Dispatch, NEW label, Goto(d, label),
           worker[d] \in BeforeSlot \cup InSlot, UNCHANGED client
    PROVE  Abstract!ServerNext \/ UNCHANGED <<Owner, client>>
<1>1. Owner = {d}
  BY DEF Owner, SlotInv, SingleExecution
<1>2. \A e \in Dispatch : worker'[e] = IF e = d THEN label ELSE worker[e]
  BY DEF Goto, TypeOK
<1>3. CASE label \in BeforeSlot \cup InSlot
  <2>1. Owner' = Owner
    BY <1>2, <1>3 DEF Owner
  <2> QED
    BY <2>1
<1>4. CASE label \notin BeforeSlot \cup InSlot
  <2>1. Owner' = {}
    BY <1>1, <1>2, <1>4 DEF Owner
  <2>2. Abstract!Free(d)
    BY <1>1, <2>1 DEF Abstract!Free
  <2> QED
    BY <2>2 DEF Abstract!ServerNext
<1> QED
  BY <1>3, <1>4

(* Callbacks, workers and watchers step as DispatchServer does.            *)
LEMMA StepImplementsServer ==
    TypeOK /\ SlotInv /\ AnswerInv /\ [Next]_vars
        => Abstract!ServerNext \/ UNCHANGED <<Owner, client>>
<1> SUFFICES ASSUME TypeOK, SlotInv, AnswerInv, [Next]_vars
             PROVE  Abstract!ServerNext \/ UNCHANGED <<Owner, client>>
  OBVIOUS
<1> DEFINE Claim == Abstract!ServerNext \/ UNCHANGED <<Owner, client>>
<1>1. ASSUME NEW d \in Dispatch, HandleDispatchGoal(d) PROVE Claim
  <2>1. CASE ~Busy /\ Goto(d, "start") /\ client' = [client EXCEPT ![d] = "executing"]
    <3>1. Owner = {}
      BY <2>1 DEF Busy, SlotInv, Owner
    <3>2. \A e \in Dispatch : worker'[e] = IF e = d THEN "start" ELSE worker[e]
      BY <2>1 DEF Goto, TypeOK
    <3>3. Owner' = {d}
      BY <3>1, <3>2 DEF Owner, BeforeSlot
    <3>4. Abstract!Accept(d)
      BY <1>1, <2>1, <3>1, <3>3 DEF HandleDispatchGoal, Abstract!Accept
    <3> QED
      BY <3>4 DEF Abstract!ServerNext
  <2>2. CASE UNCHANGED worker /\ client' = [client EXCEPT ![d] = "rejected"]
    <3>1. Abstract!Reject(d)
      BY <1>1, <2>2 DEF HandleDispatchGoal, Abstract!Reject, Owner
    <3> QED
      BY <3>1 DEF Abstract!ServerNext
  <2> QED
    BY <1>1, <2>1, <2>2 DEF HandleDispatchGoal
<1>2. ASSUME NEW d \in Dispatch, HandleDispatchCancel(d) PROVE Claim
  <2>1. Abstract!Cancel(d)
    BY <1>2 DEF HandleDispatchCancel, Abstract!Cancel, Owner
  <2> QED
    BY <2>1 DEF Abstract!ServerNext
<1>3. ASSUME NEW d \in Dispatch, StartDispatch(d) \/ TakeSlot(d) PROVE Claim
  <2>1. worker[d] \in BeforeSlot /\ UNCHANGED client
    BY <1>3 DEF StartDispatch, TakeSlot, BeforeSlot
  <2>2. \E label : Goto(d, label)
    BY <1>3 DEF StartDispatch, TakeSlot
  <2> QED
    BY <2>1, <2>2, OwnerStep
<1>4. ASSUME NEW d \in Dispatch,
             \/ Preflight(d) \/ EnsureTrajectoryMode(d) \/ Commit(d) \/ SendGoal(d)
             \/ AwaitResponse(d) \/ AwaitResult(d) \/ FatalStop(d)
             \/ RecoverStop(d) \/ RecoverReset(d) \/ RecoverReady(d)
      PROVE  Claim
  <2>1. worker[d] \in InSlot /\ UNCHANGED client
    BY <1>4 DEF Preflight, EnsureTrajectoryMode, Commit, SendGoal, AwaitResponse,
                AwaitResult, FatalStop, RecoverStop, RecoverReset, RecoverReady, InSlot
  <2>2. \E label : Goto(d, label)
    BY <1>4 DEF Preflight, EnsureTrajectoryMode, Commit, SendGoal, AwaitResponse,
                AwaitResult, FatalStop, RecoverStop, RecoverReset, RecoverReady,
                Proceed, Finalize
  <2> QED
    BY <2>1, <2>2, OwnerStep
<1>5. ASSUME NEW d \in Dispatch, FinishExecution(d) \/ JoinWatcher(d) PROVE Claim
  <2>1. Owner' = Owner
    BY <1>5 DEF FinishExecution, JoinWatcher, Goto, TypeOK, Owner, BeforeSlot, InSlot
  <2> QED
    BY <1>5, <2>1 DEF FinishExecution, JoinWatcher
<1>6. ASSUME NEW d \in Dispatch, Report(d) PROVE Claim
  <2>1. client[d] \in {"executing", "canceling"}
    BY <1>6 DEF Report, AnswerInv
  <2>2. Owner' = Owner /\ d \notin Owner
    BY <1>6 DEF Report, Goto, TypeOK, Owner, BeforeSlot, InSlot
  <2>3. Abstract!Answer(d)
    BY <1>6, <2>1, <2>2 DEF Report, Abstract!Answer, TypeOK
  <2> QED
    BY <2>3 DEF Abstract!ServerNext
<1>7. ASSUME NEW d \in Dispatch,
             \/ WatcherSeesCancel(d) \/ WatcherStops(d) \/ WatcherEnds(d)
             \/ ControllerResponds(d) \/ ControllerEnds(d)
      PROVE  Claim
  BY <1>7 DEF WatcherSeesCancel, WatcherStops, WatcherEnds, ControllerResponds,
              ControllerEnds, Owner
<1>8. CASE HandleAlarmReset \/ UNCHANGED vars
  BY <1>8 DEF HandleAlarmReset, vars, Owner
<1> QED
  BY <1>1, <1>2, <1>3, <1>4, <1>5, <1>6, <1>7, <1>8 DEF Next, WorkerStep, WatcherStep

(* For its clients hw_adapter is a DispatchServer, whatever its threads,   *)
(* its recovery and the controller do.                                     *)
THEOREM HwAdapterIsDispatchServer == Spec => ImplementsDispatchServer
<1>1. Init => Abstract!ServerInit
  BY DEF Init, Abstract!ServerInit, Owner, BeforeSlot, InSlot
<1>2. TypeOK /\ SlotInv /\ AnswerInv /\ [Next]_vars
         => [Abstract!ServerNext]_<<Owner, client>>
  BY StepImplementsServer
<1> QED
  BY <1>1, <1>2, InitSlotInv, InitAnswerInv, StepTypeOK, StepSlotInv, StepAnswerInv, PTL
  DEF Spec, ImplementsDispatchServer, Abstract!ServerSpec, Abstract!serverVars

-----------------------------------------------------------------------------
(* ---- the monitors ---- *)

Value == IF output THEN "on" ELSE "off"

\* The readiness kept on the topic is that of the last message.
TopicInv == Simulated \/ topic = status.ready

\* A valid snapshot is as old as the last complete joint state.
JointInv == joint.valid => quiet = joint.age

\* An answer on its way, and what is shown, are older than the output by no
\* more than the reads that were sent since it changed.
ToolInv ==
    /\ settled # 0 /\ read \in {"on", "off"} => read = Value
    /\ settled # 0 /\ read = "none" => shown \in {"unknown", Value}
    /\ settled = 2 => shown \in {"unknown", Value}

\* No service holds the executor beyond its limit.
WaitInv ==
    /\ handler = "free" => held = 0
    /\ handler = "reach" => held <= ReachWait
    /\ handler \in {"write", "reset"} => held <= CallWait

IInv == MonitorsTypeOK /\ TopicInv /\ JointInv /\ ToolInv /\ WaitInv

\* The types in three parts, one for each kind of value.
FlagsOK ==
    /\ topic \in BOOLEAN /\ output \in BOOLEAN
    /\ joint \in [valid : BOOLEAN, age : Upto(MaxAge)]
    /\ status \in [ready : BOOLEAN, age : Upto(MaxAge)]
TextsOK ==
    /\ read \in {"none", "asked", "on", "off", "failed"}
    /\ shown \in {"unknown", "on", "off"}
    /\ handler \in {"free", "reach", "write", "reset"}
    /\ write \in {"none", "on", "off", "answered"}
CountsOK ==
    /\ quiet \in Upto(MaxAge) /\ waited \in Upto(ReadTimeout)
    /\ held \in 0 .. ReachWait + CallWait /\ settled \in 0 .. 2

(* The type invariant of the monitors, in its three parts.                 *)
LEMMA TypeParts == MonitorsTypeOK <=> FlagsOK /\ TextsOK /\ CountsOK
  BY DEF MonitorsTypeOK, FlagsOK, TextsOK, CountsOK

(* An age that grows stays within its limit.                               *)
LEMMA OlderStays ==
    ASSUME NEW limit \in Nat, NEW age \in Upto(limit)
    PROVE  Older(age, limit) \in Upto(limit)
  BY DEF Older, Upto

(* The limits are natural numbers.                                         *)
LEMMA LimitsInNat == {MaxAge, ReadTimeout, ReachWait, CallWait} \subseteq Nat
  BY MonitorsAssumption

\* A snapshot of no message is stale, and nothing is shown.
LEMMA InitIInv == MonitorsInit => IInv
<1> SUFFICES ASSUME MonitorsInit PROVE IInv
  OBVIOUS
<1>1. FlagsOK
  <2>1. MaxAge + 1 \in Upto(MaxAge)
    BY LimitsInNat DEF Upto
  <2>2. topic \in BOOLEAN /\ output \in BOOLEAN
    BY MonitorsAssumption, Zenon DEF MonitorsInit
  <2> QED
    BY <2>1, <2>2, Zenon DEF MonitorsInit, FlagsOK
<1>2. TextsOK /\ CountsOK
  BY LimitsInNat DEF MonitorsInit, TextsOK, CountsOK, Upto
<1>3. TopicInv
  <2>1. status.ready = FALSE
    BY DEF MonitorsInit
  <2> QED
    BY <2>1, MonitorsAssumption, Zenon DEF MonitorsInit, TopicInv
<1>4. JointInv /\ ToolInv /\ WaitInv
  BY LimitsInNat DEF MonitorsInit, JointInv, ToolInv, WaitInv
<1> QED
  BY <1>1, <1>2, <1>3, <1>4, Zenon DEF IInv, MonitorsTypeOK, FlagsOK, TextsOK, CountsOK

\* A complete or an incomplete joint state.
LEMMA JointStateStep ==
    ASSUME IInv, NEW complete \in BOOLEAN, JointStateCallback(complete)
    PROVE  IInv'
<1> USE DEF JointStateCallback
<1>1. FlagsOK'
  <2>1. 0 \in Upto(MaxAge)
    BY LimitsInNat DEF Upto
  <2> QED
    BY <2>1, TypeParts, Zenon DEF IInv, FlagsOK
<1>2. TextsOK' /\ CountsOK'
  BY LimitsInNat, TypeParts DEF IInv, TextsOK, CountsOK, Upto
<1>3. JointInv'
  BY DEF JointInv
<1>4. TopicInv' /\ ToolInv' /\ WaitInv'
  BY Zenon DEF IInv, TopicInv, ToolInv, WaitInv, Value
<1> QED
  BY <1>1, <1>2, <1>3, <1>4, Zenon DEF IInv, MonitorsTypeOK, FlagsOK, TextsOK, CountsOK

\* A robot status: the topic follows in the same callback.
LEMMA StatusStep ==
    ASSUME IInv, NEW msg, StatusCallback(msg)
    PROVE  IInv'
<1> USE DEF StatusCallback
<1> DEFINE ready == ReadyOf(msg)
<1>1. ready \in BOOLEAN
  BY Zenon DEF ReadyOf
<1>2. 0 \in Upto(MaxAge) /\ 0 <= MaxAge
  BY LimitsInNat DEF Upto
<1>3. status' = [ready |-> ready, age |-> 0] /\ topic' = (ready /\ 0 <= MaxAge)
  BY DEF IsReady
<1> HIDE DEF ready
<1>4. status'.ready = ready
  BY <1>3
<1>5. topic' = ready
  BY <1>1, <1>2, <1>3, Zenon
<1>6. FlagsOK'
  <2>1. status' \in [ready : BOOLEAN, age : Upto(MaxAge)]
    BY <1>1, <1>2, <1>3
  <2>2. UNCHANGED <<joint, output>>
    OBVIOUS
  <2> QED
    BY <1>1, <1>5, <2>1, <2>2, TypeParts, Zenon DEF IInv, FlagsOK
<1>7. TextsOK' /\ CountsOK'
  BY TypeParts DEF IInv, TextsOK, CountsOK
<1>8. TopicInv'
  BY <1>4, <1>5, Zenon DEF TopicInv
<1>9. JointInv' /\ ToolInv' /\ WaitInv'
  BY Zenon DEF IInv, JointInv, ToolInv, WaitInv, Value
<1> QED
  BY <1>6, <1>7, <1>8, <1>9, Zenon DEF IInv, MonitorsTypeOK, FlagsOK, TextsOK, CountsOK

\* A step that leaves the snapshots and the topic alone.
Untouched == UNCHANGED <<joint, status, topic, quiet>>

(* A source that a step leaves alone keeps its part of the invariant.      *)
LEMMA UntouchedStep ==
    ASSUME IInv, Untouched, output' \in BOOLEAN, TextsOK', ToolInv', WaitInv',
           UNCHANGED waited \/ waited' = 0,
           held' \in 0 .. ReachWait + CallWait, settled' \in 0 .. 2
    PROVE  IInv'
<1>1. FlagsOK'
  BY TypeParts, Zenon DEF IInv, FlagsOK, Untouched
<1>2. CountsOK'
  BY TypeParts, LimitsInNat DEF IInv, CountsOK, Untouched, Upto
<1>3. TopicInv' /\ JointInv'
  BY Zenon DEF IInv, TopicInv, JointInv, Untouched
<1> QED
  BY <1>1, <1>2, <1>3, Zenon DEF IInv, MonitorsTypeOK, FlagsOK, TextsOK, CountsOK

\* The steps about the tool: a request given up takes what was shown with it.
LEMMA ToolStep ==
    ASSUME IInv, \/ \E reachable \in BOOLEAN : PollTool(reachable)
                 \/ HandleReadResponse \/ ServeRead \/ SwitchByJob
    PROVE  IInv'
<1> USE DEF Switch, ToolInv, Value
<1>1. ToolInv /\ TextsOK /\ settled \in 0 .. 2 /\ held \in 0 .. ReachWait + CallWait /\ output \in BOOLEAN
  BY TypeParts, Zenon DEF IInv, CountsOK, FlagsOK
<1>2. ASSUME NEW reachable \in BOOLEAN, PollTool(reachable) PROVE IInv'
  <2>1. TextsOK' /\ ToolInv' /\ settled' \in 0 .. 2
    BY <1>1, <1>2 DEF PollTool, TextsOK
  <2>2. WaitInv' /\ Untouched /\ waited' = 0
    BY <1>2, Zenon DEF IInv, WaitInv, Untouched, PollTool
  <2> QED
    BY <1>1, <1>2, <2>1, <2>2, UntouchedStep DEF PollTool
<1>3. CASE HandleReadResponse
  <2>1. TextsOK' /\ ToolInv'
    BY <1>1, <1>3 DEF HandleReadResponse, TextsOK
  <2>2. WaitInv' /\ Untouched
    BY <1>3, Zenon DEF IInv, WaitInv, Untouched, HandleReadResponse
  <2> QED
    BY <1>1, <1>3, <2>1, <2>2, UntouchedStep DEF HandleReadResponse
<1>4. CASE ServeRead
  <2>1. TextsOK' /\ ToolInv'
    BY <1>1, <1>4 DEF ServeRead, TextsOK
  <2>2. WaitInv' /\ Untouched
    BY <1>4, Zenon DEF IInv, WaitInv, Untouched, ServeRead
  <2> QED
    BY <1>1, <1>4, <2>1, <2>2, UntouchedStep DEF ServeRead
<1>5. CASE SwitchByJob
  <2>1. output' \in BOOLEAN /\ settled' = 0
    BY <1>1, <1>5, Zenon DEF SwitchByJob
  <2>2. TextsOK' /\ ToolInv'
    BY <1>1, <1>5, <2>1 DEF SwitchByJob, TextsOK
  <2>3. WaitInv' /\ Untouched
    BY <1>5, Zenon DEF IInv, WaitInv, Untouched, SwitchByJob
  <2> QED
    BY <1>1, <1>5, <2>1, <2>2, <2>3, UntouchedStep DEF SwitchByJob
<1> QED
  BY <1>2, <1>3, <1>4, <1>5

\* The services and the writes of the controller.
LEMMA ServiceStep ==
    ASSUME IInv, \/ ServeAlarmReset \/ HandleIoSet \/ EndService \/ ServeWrite
                 \/ \E value \in {"on", "off"} : SendWrite(value)
    PROVE  IInv'
<1> USE DEF Hold, WaitInv
<1>1. /\ WaitInv /\ TextsOK /\ ToolInv /\ settled \in 0 .. 2
      /\ held \in 0 .. ReachWait + CallWait /\ output \in BOOLEAN
  BY TypeParts, Zenon DEF IInv, CountsOK, FlagsOK
<1>2. 0 \in 0 .. ReachWait + CallWait /\ 0 <= ReachWait /\ 0 <= CallWait
  BY LimitsInNat
<1>3. ASSUME Hold(handler'), TextsOK', Untouched,
             UNCHANGED <<output, read, waited, shown, settled>>
      PROVE  IInv'
  <2>1. WaitInv'
    BY <1>2, <1>3
  <2>2. ToolInv'
    BY <1>1, <1>3, Zenon DEF ToolInv, Value
  <2> QED
    BY <1>1, <1>2, <1>3, <2>1, <2>2, UntouchedStep
<1>4. CASE ServeAlarmReset
  BY <1>1, <1>3, <1>4 DEF ServeAlarmReset, TextsOK, Untouched
<1>5. CASE HandleIoSet
  BY <1>1, <1>3, <1>5 DEF HandleIoSet, TextsOK, Untouched
<1>6. CASE EndService
  BY <1>1, <1>3, <1>6 DEF EndService, TextsOK, Untouched
<1>7. ASSUME NEW value \in {"on", "off"}, SendWrite(value) PROVE IInv'
  BY <1>1, <1>3, <1>7 DEF SendWrite, TextsOK, Untouched
<1>8. CASE ServeWrite
  <2>1. TextsOK' /\ WaitInv' /\ Untouched
    BY <1>1, <1>8 DEF ServeWrite, TextsOK, Untouched
  <2>2. CASE UNCHANGED <<output, settled>>
    <3>1. ToolInv'
      BY <1>1, <1>8, <2>2, Zenon DEF ServeWrite, ToolInv, Value
    <3> QED
      BY <1>1, <1>8, <2>1, <2>2, <3>1, UntouchedStep DEF ServeWrite
  <2>3. CASE Switch(write = "on")
    <3> DEFINE value == write = "on"
    <3>1. value \in BOOLEAN /\ output' = value /\ settled' = IF value = output THEN settled ELSE 0
      BY <2>3, Zenon DEF Switch
    <3> HIDE DEF value
    <3>2. output' \in BOOLEAN /\ (settled' = 0 \/ UNCHANGED <<output, settled>>)
      BY <3>1, Zenon
    <3>3. settled' \in 0 .. 2
      BY <1>1, <3>2
    <3>4. ToolInv'
      <4>1. CASE settled' = 0
        BY <4>1 DEF ToolInv
      <4>2. CASE UNCHANGED <<output, settled>>
        BY <1>1, <1>8, <4>2, Zenon DEF ServeWrite, ToolInv, Value
      <4> QED
        BY <3>2, <4>1, <4>2
    <3> QED
      BY <1>1, <1>8, <2>1, <3>2, <3>3, <3>4, UntouchedStep DEF ServeWrite
  <2> QED
    BY <1>8, <2>2, <2>3 DEF ServeWrite
<1> QED
  BY <1>4, <1>5, <1>6, <1>7, <1>8

\* Time passes for all snapshots alike, and not beyond a limit.
LEMMA TickStep == ASSUME IInv, Tick PROVE IInv'
<1>1. FlagsOK /\ TextsOK /\ CountsOK /\ TopicInv /\ JointInv /\ ToolInv /\ WaitInv
  BY TypeParts DEF IInv
<1>2. PICK v \in BOOLEAN, a \in Upto(MaxAge) : joint = [valid |-> v, age |-> a]
  BY <1>1, Zenon DEF FlagsOK
<1>3. PICK r \in BOOLEAN, b \in Upto(MaxAge) : status = [ready |-> r, age |-> b]
  BY <1>1, Zenon DEF FlagsOK
<1>4. joint' = [valid |-> v, age |-> Older(a, MaxAge)]
  BY <1>2, Zenon DEF Tick
<1>5. status' = [ready |-> r, age |-> Older(b, MaxAge)]
  BY <1>3, Zenon DEF Tick
<1>6. Older(a, MaxAge) \in Upto(MaxAge) /\ Older(b, MaxAge) \in Upto(MaxAge)
  BY OlderStays, LimitsInNat
<1>7. FlagsOK'
  <2>1. joint' \in [valid : BOOLEAN, age : Upto(MaxAge)]
    BY <1>4, <1>6
  <2>2. status' \in [ready : BOOLEAN, age : Upto(MaxAge)]
    BY <1>5, <1>6
  <2>3. UNCHANGED <<topic, output>>
    BY DEF Tick
  <2> QED
    BY <1>1, <2>1, <2>2, <2>3, Zenon DEF FlagsOK
<1>8. WaitInv' /\ held' \in 0 .. ReachWait + CallWait
  <2>1. /\ ReachWait \in Nat /\ CallWait \in Nat
        /\ Limit["reach"] = ReachWait /\ Limit["write"] = CallWait /\ Limit["reset"] = CallWait
    BY LimitsInNat DEF Limit
  <2>2. held \in Int /\ held >= 0
    BY <1>1 DEF CountsOK
  <2> QED
    BY <1>1, <2>1, <2>2 DEF Tick, WaitIsOver, Free, WaitInv, TextsOK
<1>9. TextsOK' /\ ToolInv'
  BY <1>1, Zenon DEF Tick, TextsOK, ToolInv, Value
<1>10. CountsOK'
  <2>1. Older(quiet, MaxAge) \in Upto(MaxAge) /\ Older(waited, ReadTimeout) \in Upto(ReadTimeout)
    BY <1>1, OlderStays, LimitsInNat DEF CountsOK
  <2> QED
    BY <1>1, <1>8, <2>1 DEF Tick, CountsOK
<1>11. TopicInv'
  <2>1. status'.ready = status.ready
    BY <1>3, <1>5, Zenon
  <2> QED
    BY <1>1, <2>1, Zenon DEF Tick, TopicInv
<1>12. JointInv'
  <2>1. joint'.valid = joint.valid /\ joint'.age = Older(joint.age, MaxAge)
    BY <1>2, <1>4, Zenon
  <2> QED
    BY <1>1, <2>1, Zenon DEF Tick, JointInv
<1> QED
  BY <1>7, <1>8, <1>9, <1>10, <1>11, <1>12, Zenon DEF IInv, MonitorsTypeOK, FlagsOK, TextsOK, CountsOK

(* Every step of the monitors keeps the invariant.                         *)
LEMMA NextIInv == IInv /\ [MonitorsNext]_monitors => IInv'
<1> SUFFICES ASSUME IInv, [MonitorsNext]_monitors PROVE IInv'
  OBVIOUS
<1>1. CASE UNCHANGED monitors
  <2>1. TextsOK' /\ ToolInv' /\ WaitInv'
    BY <1>1, TypeParts, Zenon DEF monitors, IInv, TextsOK, ToolInv, WaitInv, Value
  <2>2. output' \in BOOLEAN /\ held' \in 0 .. ReachWait + CallWait /\ settled' \in 0 .. 2
    BY <1>1, Zenon DEF monitors, IInv, MonitorsTypeOK
  <2> QED
    BY <1>1, <2>1, <2>2, UntouchedStep, Zenon DEF monitors, Untouched
<1> QED
  BY <1>1, JointStateStep, StatusStep, ToolStep, ServiceStep, TickStep DEF MonitorsNext

\* The joint states, the readiness and the tool state of hw_adapter are never
\* older than the code admits, with any limits.
THEOREM KnowledgeStaysCurrent == MonitorsSpec => []KnowledgeIsCurrent
<1>1. IInv => KnowledgeIsCurrent
  <2> SUFFICES ASSUME IInv PROVE KnowledgeIsCurrent
    OBVIOUS
  <2>1. GoAheadIsRecent
    BY DEF IInv, JointInv, GoAheadIsRecent, GoAhead, RuntimeSnapshot, JointStateValid
  <2>2. TopicFollowsStatus
    <3>1. RuntimeSnapshot.robot_ready = (Simulated \/ IsReady(status))
      BY DEF RuntimeSnapshot
    <3>2. Simulated \in BOOLEAN /\ topic \in BOOLEAN
      BY MonitorsAssumption, Zenon DEF IInv, MonitorsTypeOK
    <3> QED
      BY <3>1, <3>2, Zenon DEF IInv, TopicInv, IsReady, TopicFollowsStatus
  <2>3. SettledToolShown
    BY DEF IInv, ToolInv, SettledToolShown, Value
  <2> QED
    BY <2>1, <2>2, <2>3 DEF IInv, KnowledgeIsCurrent
<1> QED
  BY InitIInv, NextIInv, <1>1, PTL DEF MonitorsSpec
================================================================================
