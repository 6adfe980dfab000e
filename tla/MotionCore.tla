----------------------------- MODULE MotionCore -----------------------------
(***************************************************************************)
(* src/motion_core: the ExecuteMotion action server.  Every accepted goal  *)
(* gets a worker of its own.  One goal at a time owns the orchestrator;    *)
(* its worker plans and sends the trajectory to hw_adapter, cut into       *)
(* segments.  A STOP is a goal too: it marks the active goal and cancels   *)
(* whatever hw_adapter runs, from its own worker.                          *)
(*                                                                         *)
(* hw_adapter is what DispatchServer promises.  Requests and answers       *)
(* between the nodes travel for as long as they like.                      *)
(***************************************************************************)
EXTENDS Naturals

CONSTANTS
    Motion,         \* ExecuteMotion goals; each is sent once
    NoMotion,       \* active_.active is false
    MaxSegments     \* bound on the segments of one trajectory

ASSUME NoMotionAssumption == NoMotion \notin Motion
ASSUME MaxSegmentsAssumption == MaxSegments \in Nat \ {0}

VARIABLES
    kind,           \* primitive_type of the goal
    goal,           \* state of the ExecuteMotion goal handle
    pc,             \* program counter of the goal's worker
    active,         \* active_.sequence: the goal that owns the orchestrator
    stopRequested,  \* active_.stop_requested
    segment,        \* the segment that the worker is at
    total,          \* segments.size(); 0 for a no-op trajectory
    sent,           \* dispatches sent with async_send_goal
    cancels,        \* cancel requests of single dispatches under way
    cancelAll,      \* STOP goals whose async_cancel_all_goals is under way
    stopped,        \* history: goals that were active at a STOP
    late,           \* history: dispatches sent after their goal's interrupt
    client,         \* state of the DispatchTrajectory goals at hw_adapter
    owner           \* the dispatch that owns the robot

orchestrator == <<active, stopRequested>>
plan == <<segment, total>>
wire == <<sent, cancels, cancelAll, late>>
server == <<client, owner>>
vars == <<kind, goal, pc, active, stopRequested, segment, total, sent,
          cancels, cancelAll, stopped, late, client, owner>>

Segment == 1 .. MaxSegments
Dispatch == Motion \X Segment

(* External: the DispatchTrajectory server of hw_adapter.                  *)
Hw == INSTANCE DispatchServer

Kinds == {"STOP", "NON_MOTION", "MOTION"}
GoalStates == {"new", "rejected", "executing", "canceling",
               "succeeded", "aborted", "canceled"}
Concluded == {"rejected", "succeeded", "aborted", "canceled"}

(* The worker between begin_goal and the destructor of its FinishGuard.    *)
Owning == {"goalStart", "nonMotion", "plan", "segment", "setup", "send",
           "awaitAccept", "awaitResult", "cancel", "finish", "throwing"}
Ended == {"done", "threw"}
Labels == Owning \cup Ended \cup {"none", "accepted", "stopAll"}

TypeOK ==
    /\ kind \in [Motion -> Kinds]
    /\ goal \in [Motion -> GoalStates]
    /\ pc \in [Motion -> Labels]
    /\ active \in Motion \cup {NoMotion}
    /\ stopRequested \in BOOLEAN
    /\ segment \in [Motion -> 0 .. MaxSegments]
    /\ total \in [Motion -> 0 .. MaxSegments]
    /\ sent \in SUBSET Dispatch
    /\ cancels \in SUBSET Dispatch
    /\ cancelAll \in SUBSET Motion
    /\ stopped \in SUBSET Motion
    /\ late \in SUBSET Dispatch
    /\ Hw!ServerTypeOK

Init ==
    /\ kind \in [Motion -> Kinds]
    /\ goal = [m \in Motion |-> "new"]
    /\ pc = [m \in Motion |-> "none"]
    /\ active = NoMotion
    /\ stopRequested = FALSE
    /\ segment = [m \in Motion |-> 0]
    /\ total = [m \in Motion |-> 0]
    /\ sent = {}
    /\ cancels = {}
    /\ cancelAll = {}
    /\ stopped = {}
    /\ late = {}
    /\ Hw!ServerInit

Goto(m, label) == pc' = [pc EXCEPT ![m] = label]

(* The worker's current dispatch.                                          *)
Current(m) == <<m, segment[m]>>

-----------------------------------------------------------------------------
(* Callbacks of the ExecuteMotion action server.                           *)

(* handle_goal rejects bad scaling factors, never a STOP.  Then            *)
(* handle_accepted collects the workers that ended and starts a new one.   *)
(* Collecting a worker that ended by an exception destroys its goal        *)
(* handle, which cancels the goal.                                         *)
HandleGoal(m) ==
    /\ goal[m] = "new"
    /\ \/ /\ kind[m] = "MOTION"
          /\ goal' = [goal EXCEPT ![m] = "rejected"]
          /\ UNCHANGED pc
       \/ /\ goal' = [n \in Motion |->
                        IF n = m THEN "executing"
                        ELSE IF pc[n] = "threw" THEN "canceled" ELSE goal[n]]
          /\ pc' = [n \in Motion |->
                        IF n = m THEN "accepted"
                        ELSE IF pc[n] = "threw" THEN "done" ELSE pc[n]]
    /\ UNCHANGED <<kind, orchestrator, plan, wire, stopped, server>>

(* handle_cancel accepts every request.                                    *)
HandleCancel(m) ==
    /\ goal[m] = "executing"
    /\ goal' = [goal EXCEPT ![m] = "canceling"]
    /\ UNCHANGED <<kind, pc, orchestrator, plan, wire, stopped, server>>

-----------------------------------------------------------------------------
(* The worker: execute, its executors and the orchestrator.                *)

(* Mutant: a STOP is not looked at, only the goal's own cancellation.      *)
InterruptedByCancel(m) == goal[m] = "canceling"

(* make_interrupt_reason                                                   *)
Interrupted(m) == goal[m] = "canceling" \/ (active = m /\ stopRequested)

(* The goal gets its result.  What is left to do is the FinishGuard.       *)
Answer(m, result) ==
    /\ goal' = [goal EXCEPT ![m] = result]
    /\ Goto(m, "finish")

(* Go to cancel_with_message.                                              *)
GiveUp(m) == Goto(m, "cancel") /\ UNCHANGED goal

(* request_stop marks the active goal, if there is one.                    *)
RequestStop(m) ==
    /\ pc[m] = "accepted"
    /\ kind[m] = "STOP"
    /\ stopRequested' = (stopRequested \/ active # NoMotion)
    /\ stopped' = IF active = NoMotion THEN stopped ELSE stopped \cup {active}
    /\ Goto(m, "stopAll")
    /\ UNCHANGED <<kind, goal, active, plan, wire, server>>

(* The rest of handle_stop_primitive.                                      *)
StopAll(m) ==
    /\ pc[m] = "stopAll"
    /\ cancelAll' = cancelAll \cup {m}
    /\ goal' = [goal EXCEPT ![m] = "succeeded"]
    /\ Goto(m, "done")
    /\ UNCHANGED <<kind, orchestrator, plan, sent, cancels, late, stopped, server>>

(* An unknown primitive is aborted, and so is a goal that finds the        *)
(* orchestrator taken.                                                     *)
BeginGoal(m) ==
    /\ pc[m] = "accepted"
    /\ kind[m] # "STOP"
    /\ \/ /\ active = NoMotion
          /\ active' = m
          /\ stopRequested' = FALSE
          /\ Goto(m, "goalStart")
          /\ UNCHANGED goal
       \/ /\ active # NoMotion \/ kind[m] = "MOTION"
          /\ goal' = [goal EXCEPT ![m] = "aborted"]
          /\ Goto(m, "done")
          /\ UNCHANGED orchestrator
    /\ UNCHANGED <<kind, plan, wire, stopped, server>>

GoalStart(m) ==
    /\ pc[m] = "goalStart"
    /\ Goto(m, IF Interrupted(m) THEN "cancel"
               ELSE IF kind[m] = "MOTION" THEN "plan" ELSE "nonMotion")
    /\ UNCHANGED <<kind, goal, orchestrator, plan, wire, stopped, server>>

(* WAIT polls for an interrupt until its time is over; SET_SPEED,          *)
(* ALARM_RESET and IO_SET are not interrupted; the services may fail.      *)
NonMotion(m) ==
    /\ pc[m] = "nonMotion"
    /\ \/ Interrupted(m) /\ GiveUp(m)
       \/ \E result \in {"succeeded", "aborted"} : Answer(m, result)
    /\ UNCHANGED <<kind, orchestrator, plan, wire, stopped, server>>

(* Planning, budget mitigation and quality gate.  The outcome is a failure *)
(* at any time, or a trajectory of some segments, none for a no-op.        *)
PlanMotion(m) ==
    /\ pc[m] = "plan"
    /\ \/ Answer(m, "aborted") /\ UNCHANGED plan
       \/ Interrupted(m) /\ GiveUp(m) /\ UNCHANGED plan
       \/ ~Interrupted(m) /\ Answer(m, "succeeded") /\ UNCHANGED plan
       \/ /\ ~Interrupted(m)
          /\ \E n \in Segment : total' = [total EXCEPT ![m] = n]
          /\ segment' = [segment EXCEPT ![m] = 1]
          /\ Goto(m, "segment")
          /\ UNCHANGED goal
    /\ UNCHANGED <<kind, orchestrator, wire, stopped, server>>

PreDispatch(m) ==
    /\ pc[m] = "segment"
    /\ Goto(m, IF Interrupted(m) THEN "cancel" ELSE "setup")
    /\ UNCHANGED <<kind, goal, orchestrator, plan, wire, stopped, server>>

(* wait_for_action_server, then the second look at an interrupt.           *)
DispatchSetup(m) ==
    /\ pc[m] = "setup"
    /\ \/ Answer(m, "aborted")
       \/ Goto(m, IF Interrupted(m) THEN "cancel" ELSE "send") /\ UNCHANGED goal
    /\ UNCHANGED <<kind, orchestrator, plan, wire, stopped, server>>

(* History: the goal was asked to end, by a client or by a STOP.           *)
CalledOff(m) == goal[m] = "canceling" \/ m \in stopped

SendGoal(m) ==
    /\ pc[m] = "send"
    /\ sent' = sent \cup {Current(m)}
    /\ late' = IF CalledOff(m) THEN late \cup {Current(m)} ELSE late
    /\ Goto(m, "awaitAccept")
    /\ UNCHANGED <<kind, goal, orchestrator, plan, cancels, cancelAll, stopped,
                   server>>

(* Mutant: no deadline on the goal response.                               *)
AwaitAcceptForever(m) ==
    /\ pc[m] = "awaitAccept"
    /\ \/ /\ client[Current(m)] \notin {"new", "rejected"}
          /\ Goto(m, "awaitResult")
          /\ UNCHANGED goal
       \/ Interrupted(m) /\ GiveUp(m)
       \/ client[Current(m)] = "rejected" /\ Answer(m, "aborted")
    /\ UNCHANGED <<kind, orchestrator, plan, wire, stopped, server>>

(* Accepted, interrupted, or given up: rejected or no answer in time.  The *)
(* worker leaves without a handle to cancel the dispatch with.             *)
AwaitAccept(m) ==
    /\ pc[m] = "awaitAccept"
    /\ \/ /\ client[Current(m)] \notin {"new", "rejected"}
          /\ Goto(m, "awaitResult")
          /\ UNCHANGED goal
       \/ Interrupted(m) /\ GiveUp(m)
       \/ Answer(m, "aborted")
    /\ UNCHANGED <<kind, orchestrator, plan, wire, stopped, server>>

(* The segment is done: the next one, or the end.                          *)
NextSegment(m) ==
    IF segment[m] < total[m]
    THEN /\ segment' = [segment EXCEPT ![m] = @ + 1]
         /\ Goto(m, "segment")
         /\ UNCHANGED <<goal, total>>
    ELSE /\ Answer(m, "succeeded")
         /\ UNCHANGED plan

(* async_cancel_goal for the current dispatch.                             *)
CancelDispatch(m) == cancels' = cancels \cup {Current(m)}

(* Mutant: any result will do.                                             *)
AwaitResultUnread(m) ==
    /\ pc[m] = "awaitResult"
    /\ \/ /\ client[Current(m)] \in Concluded
          /\ NextSegment(m)
          /\ UNCHANGED cancels
       \/ Interrupted(m) /\ GiveUp(m) /\ CancelDispatch(m) /\ UNCHANGED plan
       \/ Answer(m, "aborted") /\ CancelDispatch(m) /\ UNCHANGED plan
    /\ UNCHANGED <<kind, orchestrator, sent, cancelAll, late, stopped, server>>

(* The result, an interrupt or the deadline.  The last two cancel the      *)
(* dispatch.  A failed dispatch is a cancellation if it was interrupted.   *)
AwaitResult(m) ==
    /\ pc[m] = "awaitResult"
    /\ \/ /\ client[Current(m)] = "succeeded"
          /\ NextSegment(m)
          /\ UNCHANGED cancels
       \/ /\ client[Current(m)] \in {"aborted", "canceled"}
          /\ IF Interrupted(m) THEN GiveUp(m) ELSE Answer(m, "aborted")
          /\ UNCHANGED <<cancels, plan>>
       \/ Interrupted(m) /\ GiveUp(m) /\ CancelDispatch(m) /\ UNCHANGED plan
       \/ Answer(m, "aborted") /\ CancelDispatch(m) /\ UNCHANGED plan
    /\ UNCHANGED <<kind, orchestrator, sent, cancelAll, late, stopped, server>>

(* External: rclcpp_action lets a goal become canceled only after a client *)
(* asked for it; otherwise canceled() throws.                              *)
MayCancel(m) == goal[m] = "canceling"

(* cancel_with_message.  After a STOP the goal is not canceling: the call  *)
(* throws and the goal has no result.                                      *)
CancelWithMessage(m) ==
    /\ pc[m] = "cancel"
    /\ \/ MayCancel(m) /\ Answer(m, "canceled")
       \/ ~MayCancel(m) /\ Goto(m, "throwing") /\ UNCHANGED goal
    /\ UNCHANGED <<kind, orchestrator, plan, wire, stopped, server>>

(* Mutant: finish_goal is called at the end of execute, not by a guard.    *)
FinishWithoutGuard(m) ==
    /\ pc[m] \in {"finish", "throwing"}
    /\ Goto(m, IF pc[m] = "finish" THEN "done" ELSE "threw")
    /\ active' = IF pc[m] = "finish" THEN NoMotion ELSE active
    /\ stopRequested' = (pc[m] # "finish" /\ stopRequested)
    /\ UNCHANGED <<kind, goal, plan, wire, stopped, server>>

(* The FinishGuard frees the orchestrator, also for an exception, which    *)
(* then waits in the worker's future together with the goal handle.        *)
Finish(m) ==
    /\ pc[m] \in {"finish", "throwing"}
    /\ Goto(m, IF pc[m] = "finish" THEN "done" ELSE "threw")
    /\ active' = IF active = m THEN NoMotion ELSE active
    /\ stopRequested' = (active # m /\ stopRequested)
    /\ UNCHANGED <<kind, goal, plan, wire, stopped, server>>

-----------------------------------------------------------------------------
(* External: the DispatchTrajectory server, as DispatchServer has it.      *)

HwReceivesGoal(d) ==
    /\ d \in sent
    /\ Hw!Accept(d) \/ Hw!Reject(d)
    /\ UNCHANGED <<kind, goal, pc, orchestrator, plan, wire, stopped>>

(* A cancel request for a dispatch that is not executing has no effect.    *)
HwReceivesCancel(d) ==
    /\ d \in cancels
    /\ cancels' = cancels \ {d}
    /\ Hw!Cancel(d) \/ (client[d] # "executing" /\ UNCHANGED server)
    /\ UNCHANGED <<kind, goal, pc, orchestrator, plan, sent, cancelAll, late,
                   stopped>>

(* Every dispatch that hw_adapter knows at this moment is canceled, one    *)
(* after the other.                                                        *)
HwReceivesCancelAll(m) ==
    /\ m \in cancelAll
    /\ cancelAll' = cancelAll \ {m}
    /\ cancels' = cancels \cup {d \in Dispatch : client[d] = "executing"}
    /\ UNCHANGED <<kind, goal, pc, orchestrator, plan, sent, late, stopped,
                   server>>

HwRuns(d) ==
    /\ Hw!Free(d) \/ Hw!Answer(d)
    /\ UNCHANGED <<kind, goal, pc, orchestrator, plan, wire, stopped>>

-----------------------------------------------------------------------------
WorkerStep(m) ==
    \/ RequestStop(m)
    \/ StopAll(m)
    \/ BeginGoal(m)
    \/ GoalStart(m)
    \/ NonMotion(m)
    \/ PlanMotion(m)
    \/ PreDispatch(m)
    \/ DispatchSetup(m)
    \/ SendGoal(m)
    \/ AwaitAccept(m)
    \/ AwaitResult(m)
    \/ CancelWithMessage(m)
    \/ Finish(m)

Next ==
    \/ \E m \in Motion :
          \/ HandleGoal(m)
          \/ HandleCancel(m)
          \/ WorkerStep(m)
          \/ HwReceivesCancelAll(m)
    \/ \E d \in Dispatch :
          \/ HwReceivesGoal(d)
          \/ HwReceivesCancel(d)
          \/ HwRuns(d)

Spec == Init /\ [][Next]_vars

(* Workers keep running: every wait has a deadline.  hw_adapter and the    *)
(* clients owe nothing.                                                    *)
Fairness == \A m \in Motion : WF_vars(WorkerStep(m))

FairSpec == Spec /\ Fairness

-----------------------------------------------------------------------------
(* One goal at a time is between begin_goal and finish_goal, it is the one *)
(* that active_ names, and the stop request pending there is exactly the   *)
(* one that was meant for it: a STOP is not lost while its goal runs and   *)
(* never interrupts the goal after it.                                     *)
OwnerInv ==
    /\ \A m \in Motion : pc[m] \in Owning <=> active = m
    /\ stopRequested <=> active \in stopped
    /\ \A m \in stopped : pc[m] \in Owning \cup Ended

(* A goal that reports success ran every segment of its trajectory to the  *)
(* end at hw_adapter, also if it was stopped, cancelled or timed out on    *)
(* the way.                                                                *)
SuccessIsReal ==
    \A m \in Motion : goal[m] = "succeeded" =>
        \A s \in 1 .. total[m] : client[<<m, s>>] = "succeeded"

(* "split and dispatch sequentially with a full stop between segments": a  *)
(* segment is sent after hw_adapter finished the one before it.            *)
SegmentsInOrder ==
    \A m \in Motion, s, t \in Segment :
        <<m, t>> \in sent /\ s < t => client[<<m, s>>] = "succeeded"

(* After a STOP or a cancellation at most one more segment of the goal     *)
(* leaves for hw_adapter: the one that was being sent.                     *)
OneLateSegment ==
    \A m \in Motion, s, t \in Segment :
        <<m, s>> \in late /\ <<m, t>> \in late => s = t

(* The orchestrator is always freed, also if the result call throws or     *)
(* hw_adapter never answers.                                               *)
OrchestratorFreed == \A m \in Motion : active = m ~> active # m

(* Every accepted goal that no STOP hits gets a result.                    *)
UnstoppedGoalsConclude ==
    \A m \in Motion :
        goal[m] = "executing" ~> goal[m] \in Concluded \/ m \in stopped

(* No goal blocks the next one, and none but a stopped one stays open.     *)
GoalsConclude == OrchestratorFreed /\ UnstoppedGoalsConclude

(* The inductive invariant behind SuccessIsReal, SegmentsInOrder and       *)
(* OneLateSegment: how far a worker got, and what it left behind.          *)
BeforeSegments == {"none", "accepted", "stopAll", "goalStart", "nonMotion", "plan"}
InSegments == {"segment", "setup", "send", "awaitAccept", "awaitResult"}

SegmentInv ==
    /\ \A m \in Motion : pc[m] = "none" <=> goal[m] \in {"new", "rejected"}
    /\ \A m \in Motion :
          pc[m] \notin {"none", "finish", "done"}
             => goal[m] \in {"executing", "canceling"}
    /\ \A m \in Motion :
          pc[m] \in BeforeSegments => segment[m] = 0 /\ total[m] = 0
    /\ \A m \in Motion : pc[m] \in InSegments => segment[m] \in 1 .. total[m]
    /\ \A m \in Motion, s \in Segment :
          /\ s < segment[m] => client[<<m, s>>] = "succeeded"
          /\ <<m, s>> \in sent => s <= segment[m]
          /\ <<m, s>> \in sent /\ pc[m] \in {"segment", "setup", "send"}
                => s < segment[m]
          /\ <<m, s>> \in late =>
                /\ <<m, s>> \in sent
                /\ pc[m] \notin {"setup", "send"}
                /\ pc[m] \in InSegments => CalledOff(m)

-----------------------------------------------------------------------------
(* "STOP: motion halt requested, dispatch cancel issued": when the worker  *)
(* of a stopped goal is gone, a dispatch of that goal which still executes *)
(* at hw_adapter has a cancellation on its way.                            *)
StopReachesDispatch ==
    \A d \in sent :
        d[1] \in stopped /\ pc[d[1]] \in Ended /\ client[d] = "executing" =>
            \/ d \in cancels
            \/ cancelAll # {}
            \/ \E n \in Motion : pc[n] = "stopAll"

(* "Immediate halt; cancels current goals": the goal that a STOP hits gets *)
(* a result.                                                               *)
StopConcludesGoal ==
    \A m \in Motion : m \in stopped ~> goal[m] \in Concluded
=============================================================================
