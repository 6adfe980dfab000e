------------------------------ MODULE HwAdapter ------------------------------
(***************************************************************************)
(* src/hw_adapter: the node that owns the robot controller.  It accepts    *)
(* one DispatchTrajectory goal at a time, runs it on a worker thread       *)
(* through the session manager and the trajectory executor, and watches    *)
(* for a cancellation on a second thread.  A failure after the controller  *)
(* accepted the trajectory starts the recovery sequence.                   *)
(*                                                                         *)
(* Each session manager call runs under call_mutex_ and is one step.       *)
(***************************************************************************)
EXTENDS Naturals

CONSTANTS
    Dispatch,   \* DispatchTrajectory goals; each is sent once
    SimMode     \* sim_mode_: robot and session readiness are bypassed

ASSUME SimModeAssumption == SimMode \in BOOLEAN

VARIABLES
    reserved,       \* dispatch_goal_reserved_
    inProgress,     \* execution_in_progress_
    sessionReady,   \* snapshot_.session_ready of the session manager
    client,         \* state of the DispatchTrajectory goal handle
    worker,         \* program counter of the dispatch worker
    watcher,        \* program counter of the cancel watcher
    success,        \* report.success of the dispatch
    fjt             \* the FollowJointTrajectory goal at the controller

slotVars == <<reserved, inProgress>>
vars == <<reserved, inProgress, sessionReady, client, worker, watcher,
          success, fjt>>

ClientStates == {"new", "rejected", "executing", "canceling",
                 "succeeded", "aborted", "canceled"}
Concluded == {"rejected", "succeeded", "aborted", "canceled"}

(* The worker between taking the execution slot and finalize.              *)
InSlot == {"preflight", "mode", "commit", "send", "awaitResponse",
           "awaitResult", "stop", "recoverStop", "recoverReset",
           "recoverReady"}
BeforeSlot == {"start", "begin"}
WorkerLabels == InSlot \cup BeforeSlot \cup
                {"none", "finished", "join", "report", "done"}

WatcherLabels == {"none", "watching", "stopping", "stopped", "stopFailed",
                  "ended"}
GoalStates == {"none", "sent", "running", "rejected", "succeeded", "aborted",
               "canceled"}
Outstanding == {"sent", "running"}

TypeOK ==
    /\ reserved \in BOOLEAN
    /\ inProgress \in BOOLEAN
    /\ sessionReady \in BOOLEAN
    /\ client \in [Dispatch -> ClientStates]
    /\ worker \in [Dispatch -> WorkerLabels]
    /\ watcher \in [Dispatch -> WatcherLabels]
    /\ success \in [Dispatch -> BOOLEAN]
    /\ fjt \in [Dispatch -> GoalStates]

Init ==
    /\ reserved = FALSE
    /\ inProgress = FALSE
    /\ sessionReady = FALSE
    /\ client = [d \in Dispatch |-> "new"]
    /\ worker = [d \in Dispatch |-> "none"]
    /\ watcher = [d \in Dispatch |-> "none"]
    /\ success = [d \in Dispatch |-> FALSE]
    /\ fjt = [d \in Dispatch |-> "none"]

Goto(d, label) == worker' = [worker EXCEPT ![d] = label]

-----------------------------------------------------------------------------
(* Callbacks of the DispatchTrajectory action server.                      *)

Busy == inProgress \/ reserved

(* handle_dispatch_goal and, on acceptance, handle_dispatch_accepted, which *)
(* starts the worker.  An empty trajectory is refused as well.             *)
HandleDispatchGoal(d) ==
    /\ client[d] = "new"
    /\ \/ /\ ~Busy
          /\ reserved' = TRUE
          /\ client' = [client EXCEPT ![d] = "executing"]
          /\ Goto(d, "start")
       \/ /\ client' = [client EXCEPT ![d] = "rejected"]
          /\ UNCHANGED <<reserved, worker>>
    /\ UNCHANGED <<inProgress, sessionReady, watcher, success, fjt>>

(* handle_dispatch_cancel accepts every request.                           *)
HandleDispatchCancel(d) ==
    /\ client[d] = "executing"
    /\ client' = [client EXCEPT ![d] = "canceling"]
    /\ UNCHANGED <<slotVars, sessionReady, worker, watcher, success, fjt>>

(* handle_alarm_reset, at any time, also during an execution.              *)
HandleAlarmReset ==
    /\ sessionReady' \in {sessionReady, FALSE}
    /\ UNCHANGED <<slotVars, client, worker, watcher, success, fjt>>

-----------------------------------------------------------------------------
(* Session manager.                                                        *)

(* stop_motion halts whatever the controller runs.  It fails without       *)
(* effect, or with it when only the answer is late; a goal that is still   *)
(* on its way to the controller is not stopped.                            *)
StopMotion(ok) ==
    /\ sessionReady' = (sessionReady /\ ~ok)
    /\ \/ \E end \in {"canceled", "aborted"} :
             fjt' = [d \in Dispatch |->
                        IF fjt[d] = "running" THEN end ELSE fjt[d]]
       \/ ~ok /\ UNCHANGED fjt

-----------------------------------------------------------------------------
(* The worker: execute_dispatch and execute_trajectory_internal.           *)

(* Mutant: a dispatch cancelled before its start keeps the reservation.    *)
StartDispatchKeepingSlot(d) ==
    /\ worker[d] = "start"
    /\ \/ /\ client[d] = "canceling"
          /\ Goto(d, "report")
          /\ UNCHANGED <<reserved, watcher>>
       \/ /\ client[d] # "canceling"
          /\ watcher' = [watcher EXCEPT ![d] = "watching"]
          /\ Goto(d, "begin")
          /\ UNCHANGED reserved
    /\ UNCHANGED <<inProgress, sessionReady, client, success, fjt>>

(* Cancelled before the start: the reservation is given back.  Otherwise   *)
(* the cancel watcher is started.                                          *)
StartDispatch(d) ==
    /\ worker[d] = "start"
    /\ \/ /\ client[d] = "canceling"
          /\ reserved' = FALSE
          /\ Goto(d, "report")
          /\ UNCHANGED watcher
       \/ /\ client[d] # "canceling"
          /\ watcher' = [watcher EXCEPT ![d] = "watching"]
          /\ Goto(d, "begin")
          /\ UNCHANGED reserved
    /\ UNCHANGED <<inProgress, sessionReady, client, success, fjt>>

(* The reservation becomes the execution, under orchestration_mutex_.      *)
TakeSlot(d) ==
    /\ worker[d] = "begin"
    /\ IF inProgress \/ ~reserved
       THEN /\ Goto(d, "finished")                  \* reservation was lost
            /\ UNCHANGED slotVars
       ELSE /\ reserved' = FALSE
            /\ inProgress' = TRUE
            /\ Goto(d, "preflight")
    /\ UNCHANGED <<sessionReady, client, watcher, success, fjt>>

(* finalize frees the slot; the report is kept for the client.             *)
Finalize(d, ok) ==
    /\ reserved' = FALSE
    /\ inProgress' = FALSE
    /\ success' = [success EXCEPT ![d] = ok]
    /\ Goto(d, "finished")

(* Go on to the next label, or give up before the controller is involved.  *)
Proceed(d, label) ==
    \/ Goto(d, label) /\ UNCHANGED <<slotVars, success>>
    \/ Finalize(d, FALSE)

(* Joint state, robot status, point limit and trajectory structure.        *)
Preflight(d) ==
    /\ worker[d] = "preflight"
    /\ Proceed(d, "mode")
    /\ UNCHANGED <<sessionReady, client, watcher, fjt>>

(* ensure_trajectory_mode: nothing to do in a ready session, otherwise the *)
(* StartTrajMode service.  Simulation goes on without it.                  *)
EnsureTrajectoryMode(d) ==
    /\ worker[d] = "mode"
    /\ \/ /\ sessionReady' = TRUE
          /\ Goto(d, "commit")
          /\ UNCHANGED <<slotVars, success>>
       \/ /\ ~sessionReady
          /\ UNCHANGED sessionReady
          /\ IF SimMode
             THEN Goto(d, "commit") /\ UNCHANGED <<slotVars, success>>
             ELSE Finalize(d, FALSE)
    /\ UNCHANGED <<client, watcher, fjt>>

(* execute_blocking up to the send: both runtime snapshots, the start      *)
(* state gates and the joint guard.  A session that is not ready refuses.  *)
Commit(d) ==
    /\ worker[d] = "commit"
    /\ IF SimMode \/ sessionReady THEN Proceed(d, "send")
                                  ELSE Finalize(d, FALSE)
    /\ UNCHANGED <<sessionReady, client, watcher, fjt>>

SendGoal(d) ==
    /\ worker[d] = "send"
    /\ fjt' = [fjt EXCEPT ![d] = "sent"]
    /\ Goto(d, "awaitResponse")
    /\ UNCHANGED <<slotVars, sessionReady, client, watcher, success>>

(* Rejected, or no answer in time: not fatal, because nothing was accepted *)
(* as far as the executor knows.                                           *)
AwaitResponse(d) ==
    /\ worker[d] = "awaitResponse"
    /\ \/ /\ fjt[d] \notin {"sent", "rejected"}
          /\ Goto(d, "awaitResult")
          /\ UNCHANGED <<slotVars, success>>
       \/ Finalize(d, FALSE)
    /\ UNCHANGED <<sessionReady, client, watcher, fjt>>

(* Mutant: any completed result counts as a success.                       *)
AwaitResultUnread(d) ==
    /\ worker[d] = "awaitResult"
    /\ \/ fjt[d] \notin Outstanding /\ Finalize(d, TRUE)
       \/ Goto(d, "stop") /\ UNCHANGED <<slotVars, success>>
    /\ UNCHANGED <<sessionReady, client, watcher, fjt>>

(* Mutant: the slot is freed before the stop and the recovery.             *)
AwaitResultFreesEarly(d) ==
    /\ worker[d] = "awaitResult"
    /\ \/ fjt[d] = "succeeded" /\ Finalize(d, TRUE)
       \/ fjt[d] = "canceled" /\ Finalize(d, FALSE)
       \/ /\ reserved' = FALSE
          /\ inProgress' = FALSE
          /\ Goto(d, "stop")
          /\ UNCHANGED success
    /\ UNCHANGED <<sessionReady, client, watcher, fjt>>

(* The result, or a timeout.  should_stop_motion_on_failure: a failure     *)
(* after acceptance is fatal unless the controller reports a cancellation. *)
AwaitResult(d) ==
    /\ worker[d] = "awaitResult"
    /\ \/ fjt[d] = "succeeded" /\ Finalize(d, TRUE)
       \/ fjt[d] = "canceled" /\ Finalize(d, FALSE)
       \/ Goto(d, "stop") /\ UNCHANGED <<slotVars, success>>
    /\ UNCHANGED <<sessionReady, client, watcher, fjt>>

FatalStop(d) ==
    /\ worker[d] = "stop"
    /\ \E ok \in BOOLEAN : StopMotion(ok)
    /\ Goto(d, "recoverStop")
    /\ UNCHANGED <<slotVars, client, watcher, success>>

(* RecoveryStateMachine: stop, reset, verify, ready.  A failed stop is     *)
(* tolerated; the total timeout may end the sequence after any step.       *)
RecoverStop(d) ==
    /\ worker[d] = "recoverStop"
    /\ \E ok \in BOOLEAN : StopMotion(ok)
    /\ Proceed(d, "recoverReset")
    /\ UNCHANGED <<client, watcher>>

RecoverReset(d) ==
    /\ worker[d] = "recoverReset"
    /\ \/ sessionReady' = FALSE /\ Proceed(d, "recoverReady")
       \/ UNCHANGED sessionReady /\ Finalize(d, FALSE)
    /\ UNCHANGED <<client, watcher, fjt>>

(* Joint state verification and the ready check poll and then give up; the *)
(* slot is freed whether or not the robot recovered.                       *)
RecoverReady(d) ==
    /\ worker[d] = "recoverReady"
    /\ Finalize(d, FALSE)
    /\ UNCHANGED <<sessionReady, client, watcher, fjt>>

(* execution_finished.store(true), then the watcher is joined.             *)
FinishExecution(d) ==
    /\ worker[d] = "finished"
    /\ Goto(d, "join")
    /\ UNCHANGED <<slotVars, sessionReady, client, watcher, success, fjt>>

JoinWatcher(d) ==
    /\ worker[d] = "join"
    /\ watcher[d] \notin {"watching", "stopping"}
    /\ Goto(d, "report")
    /\ UNCHANGED <<slotVars, sessionReady, client, watcher, success, fjt>>

(* A cancellation overrides the report, whatever the trajectory did.       *)
Report(d) ==
    /\ worker[d] = "report"
    /\ client' = [client EXCEPT ![d] =
                     IF @ = "canceling" THEN "canceled"
                     ELSE IF success[d] THEN "succeeded" ELSE "aborted"]
    /\ Goto(d, "done")
    /\ UNCHANGED <<slotVars, sessionReady, watcher, success, fjt>>

-----------------------------------------------------------------------------
(* The cancel watcher of execute_dispatch.                                 *)

(* is_canceling was seen, after execution_finished was found unset.        *)
WatcherSeesCancel(d) ==
    /\ watcher[d] = "watching"
    /\ client[d] = "canceling"
    /\ watcher' = [watcher EXCEPT ![d] = "stopping"]
    /\ UNCHANGED <<slotVars, sessionReady, client, worker, success, fjt>>

(* One call of stop_motion, then the watcher is gone.                      *)
WatcherStops(d) ==
    /\ watcher[d] = "stopping"
    /\ \E ok \in BOOLEAN :
          /\ StopMotion(ok)
          /\ watcher' = [watcher EXCEPT ![d] =
                            IF ok THEN "stopped" ELSE "stopFailed"]
    /\ UNCHANGED <<slotVars, client, worker, success>>

WatcherEnds(d) ==
    /\ watcher[d] = "watching"
    /\ worker[d] = "join"
    /\ watcher' = [watcher EXCEPT ![d] = "ended"]
    /\ UNCHANGED <<slotVars, sessionReady, client, worker, success, fjt>>

-----------------------------------------------------------------------------
(* The robot controller's FollowJointTrajectory server.                    *)

ControllerResponds(d) ==
    /\ fjt[d] = "sent"
    /\ \E answer \in {"running", "rejected"} : fjt' = [fjt EXCEPT ![d] = answer]
    /\ UNCHANGED <<slotVars, sessionReady, client, worker, watcher, success>>

ControllerEnds(d) ==
    /\ fjt[d] = "running"
    /\ \E end \in {"succeeded", "aborted"} : fjt' = [fjt EXCEPT ![d] = end]
    /\ UNCHANGED <<slotVars, sessionReady, client, worker, watcher, success>>

-----------------------------------------------------------------------------
WorkerStep(d) ==
    \/ StartDispatch(d)
    \/ TakeSlot(d)
    \/ Preflight(d)
    \/ EnsureTrajectoryMode(d)
    \/ Commit(d)
    \/ SendGoal(d)
    \/ AwaitResponse(d)
    \/ AwaitResult(d)
    \/ FatalStop(d)
    \/ RecoverStop(d)
    \/ RecoverReset(d)
    \/ RecoverReady(d)
    \/ FinishExecution(d)
    \/ JoinWatcher(d)
    \/ Report(d)

WatcherStep(d) ==
    \/ WatcherSeesCancel(d)
    \/ WatcherStops(d)
    \/ WatcherEnds(d)

Next ==
    \/ \E d \in Dispatch :
          \/ HandleDispatchGoal(d)
          \/ HandleDispatchCancel(d)
          \/ WorkerStep(d)
          \/ WatcherStep(d)
          \/ ControllerResponds(d)
          \/ ControllerEnds(d)
    \/ HandleAlarmReset

Spec == Init /\ [][Next]_vars

(* Worker and watcher threads keep running: every wait has a timeout.  The *)
(* controller and the clients owe nothing.                                 *)
Fairness ==
    \A d \in Dispatch : WF_vars(WorkerStep(d)) /\ WF_vars(WatcherStep(d))

FairSpec == Spec /\ Fairness

-----------------------------------------------------------------------------
(* Two trajectories are never executed by this node at the same time:      *)
(* execute_trajectory_internal is entered by one worker only, also while   *)
(* it stops and recovers.                                                  *)
SingleExecution ==
    \A d, e \in Dispatch : worker[d] \in InSlot /\ worker[e] \in InSlot => d = e

(* The branch "reservation was lost before the worker thread started" is   *)
(* dead: no finalize, cancellation or other goal takes the slot reserved   *)
(* by handle_dispatch_goal away from its worker.                           *)
ReservationHeld ==
    \A d \in Dispatch : worker[d] \in BeforeSlot => reserved /\ ~inProgress

(* A dispatch that reports success did run its trajectory to the end.      *)
SuccessIsReal ==
    \A d \in Dispatch : client[d] = "succeeded" => fjt[d] = "succeeded"

(* Once the watcher has asked for a stop the dispatch cannot end as a      *)
(* success, even if the trajectory finished in the meantime.               *)
StopMeansCanceled ==
    \A d \in Dispatch : watcher[d] \in {"stopping", "stopped", "stopFailed"}
        => client[d] \in {"canceling", "canceled"}

(* What the adapter answers is what the robot did, however the watcher, the*)
(* worker and the controller raced.                                        *)
AnswersAreTruthful == SuccessIsReal /\ StopMeansCanceled

(* The slot is always given back: by finalize, or by a dispatch that was   *)
(* cancelled before it started.                                            *)
SlotIsFreed == Busy ~> ~Busy

(* Every accepted dispatch is answered, whatever the controller does.      *)
DispatchesConclude ==
    \A d \in Dispatch : client[d] # "new" ~> client[d] \in Concluded

(* The adapter recovers from whatever a dispatch met: it answers it and is *)
(* free for the next one.                                                  *)
AdapterRecovers == SlotIsFreed /\ DispatchesConclude

(* The inductive invariant: the two flags tell exactly where the one       *)
(* worker that owns the slot is.                                           *)
SlotInv ==
    /\ inProgress <=> \E d \in Dispatch : worker[d] \in InSlot
    /\ reserved <=> \E d \in Dispatch : worker[d] \in BeforeSlot
    /\ ~(reserved /\ inProgress)
    /\ SingleExecution
    /\ \A d, e \in Dispatch :
          worker[d] \in BeforeSlot /\ worker[e] \in BeforeSlot => d = e

BeforeSend == BeforeSlot \cup {"none", "preflight", "mode", "commit", "send"}

(* What a worker may still answer: its goal handle is open until Report,   *)
(* its trajectory is sent once, and a success was seen at the controller.  *)
AnswerInv ==
    /\ \A d \in Dispatch : client[d] = "new" => worker[d] = "none"
    /\ \A d \in Dispatch :
          worker[d] \notin {"none", "done"} => client[d] \in {"executing", "canceling"}
    /\ \A d \in Dispatch : worker[d] \in BeforeSend => fjt[d] = "none"
    /\ \A d \in Dispatch : success[d] => fjt[d] = "succeeded"
    /\ SuccessIsReal
    /\ StopMeansCanceled

-----------------------------------------------------------------------------
(* The dispatch that holds the reservation or the execution.               *)
Owner == {d \in Dispatch : worker[d] \in BeforeSlot \cup InSlot}

Abstract == INSTANCE DispatchServer WITH owner <- Owner

(* Seen from its clients, the node with its two flags, worker and watcher  *)
(* threads, fatal stops and recoveries is a server that owns the robot for *)
(* one dispatch at a time and answers each of them once, after giving the  *)
(* robot up.                                                               *)
ImplementsDispatchServer == Abstract!ServerSpec

-----------------------------------------------------------------------------
(* A cancelled dispatch whose stop_motion succeeded has no trajectory at   *)
(* the controller any more.                                                *)
CancelReachesController ==
    \A d \in Dispatch : watcher[d] = "stopped" => fjt[d] \notin Outstanding

(* At most one trajectory is outstanding at the controller: asynchronous   *)
(* motion is unsupported.                                                  *)
OneTrajectoryOutstanding ==
    \A d, e \in Dispatch :
        fjt[d] \in Outstanding /\ fjt[e] \in Outstanding => d = e
=============================================================================
