---------------------------- MODULE CommandSequence ----------------------------
(***************************************************************************)
(* Multi-step commands of the HMI supervisor: the parent record, its steps *)
(* and the threads that submit, confirm, cancel and poll it                *)
(* (hmi/backend/services/supervisor_{submission,lifecycle,execution}.py).  *)
(*                                                                         *)
(* A step of a thread runs from one blocking point to the next; every      *)
(* _transition_* call ends in audit writes and is such a point.  Leases    *)
(* and owners, which decide whether a request gets past its first checks,  *)
(* are the subject of CommandSupervisor and left out here: a request that  *)
(* they refuse changes nothing.                                            *)
(***************************************************************************)
EXTENDS CommandStates, Integers, FiniteSets

CONSTANTS
    Thread,          \* request threads of the pool
    MaxSteps,        \* bound on the parsed steps of a sequence
    SimAutoConfirm   \* _sim_auto_confirm of the service

ASSUME SequenceAssumption ==
    /\ MaxSteps \in Nat \ {0}
    /\ SimAutoConfirm \in BOOLEAN

Steps == 1..MaxSteps

VARIABLES
    parent,          \* sequence.lifecycle_state; "ABSENT" before insertion
    parentFinal,     \* sequence.final_state
    windowOpen,      \* confirmation_expires_at is set and in the future
    size,            \* sequence_step_count
    step,            \* lifecycle_state of each step's record
    stepFinal,       \* its final_state
    pose,            \* the steps that are GET_POSE queries
    active,          \* _active_command_id, as a step number; 0 for None
    thr,             \* the frame of each request thread
    goal, handles,   \* ROS side of the steps, as in CommandSupervisor
    sends,           \* how many times a step was sent to ROS
    late             \* steps sent after the sequence was terminal

parentVars == <<parent, parentFinal, windowOpen>>
stepVars == <<size, step, stepFinal, pose, active>>
rosVars == <<goal, handles, sends, late>>
sequence == <<parent, parentFinal, windowOpen, size, step, stepFinal, pose, active,
          thr, goal, handles, sends, late>>

Requests == {"confirm", "cancel", "poll"}

Labels == {"idle", "parse", "reject", "insert", "stepParse", "stepValidate",
           "begin", "validate", "offerStep", "offer", "scan", "expire",
           "confirmCheck", "expireOwn", "confirm", "request", "execute",
           "select", "gate", "stepConfirm", "stepRequest", "query", "answer",
           "preflight", "send", "awaitAccept", "awaitResult", "dispatched",
           "conclude", "stepDone", "cancelCheck", "abort", "cancelGoal",
           "cancelSteps"}

Frame == [pc : Labels, op : Requests \cup {"none", "submit"},
          step : 0..MaxSteps + 1, outcome : Outcomes]

IdleFrame == [pc |-> "idle", op |-> "none", step |-> 0, outcome |-> "none"]

SequenceTypeOK ==
    /\ parent \in Lifecycle \cup {"ABSENT"}
    /\ parentFinal \in Terminal \cup {"none"}
    /\ windowOpen \in BOOLEAN
    /\ size \in 0..MaxSteps
    /\ step \in [Steps -> Lifecycle \cup {"ABSENT"}]
    /\ stepFinal \in [Steps -> Terminal \cup {"none"}]
    /\ pose \in SUBSET Steps
    /\ active \in 0..MaxSteps
    /\ thr \in [Thread -> Frame]
    /\ goal \in [Steps -> GoalStates]
    /\ handles \in SUBSET Steps
    /\ sends \in [Steps -> Nat]
    /\ late \in SUBSET Steps

SequenceInit ==
    /\ parent = "ABSENT" /\ parentFinal = "none" /\ windowOpen = FALSE
    /\ size = 0
    /\ step = [i \in Steps |-> "ABSENT"]
    /\ stepFinal = [i \in Steps |-> "none"]
    /\ pose = {}
    /\ active = 0
    /\ thr = [t \in Thread |-> IdleFrame]
    /\ goal = [i \in Steps |-> "none"]
    /\ handles = {}
    /\ sends = [i \in Steps |-> 0]
    /\ late = {}

-----------------------------------------------------------------------------
(* Control of a request thread.                                            *)

At(t, label) == thr[t].pc = label
Goto(t, label) == thr' = [thr EXCEPT ![t].pc = label]
GotoStep(t, label, i) == thr' = [thr EXCEPT ![t].pc = label, ![t].step = i]

(* A response, an HTTP error or an unhandled exception.                    *)
Return(t) == thr' = [thr EXCEPT ![t] = IdleFrame]

(* _transition_top_level_record: the state machine raises ValueError on a  *)
(* transition it does not know, which ends the request.                    *)
ParentTo(t, next, label) ==
    \/ /\ next \in AllowedTransitions(parent)
       /\ parent' = next
       /\ IF label = "idle" THEN Return(t) ELSE Goto(t, label)
    \/ /\ next \notin AllowedTransitions(parent)
       /\ UNCHANGED parent
       /\ Return(t)

(* Mutant: a terminal state is written without asking the state machine.    *)
FinishParentUnchecked(t, state) ==
    parentFinal' = state /\ parent' = state /\ Return(t)

(* final_state is written before the transition is checked.                *)
FinishParent(t, state) == parentFinal' = state /\ ParentTo(t, state, "idle")

(* The same for the record of the step a thread works on.                  *)
Mine(t) == thr[t].step

StepTo(t, next, label) ==
    \/ /\ next \in AllowedTransitions(step[Mine(t)])
       /\ step' = [step EXCEPT ![Mine(t)] = next]
       /\ Goto(t, label)
    \/ /\ next \notin AllowedTransitions(step[Mine(t)])
       /\ UNCHANGED step
       /\ Return(t)

FinishStep(t, state) ==
    /\ stepFinal' = [stepFinal EXCEPT ![Mine(t)] = state]
    /\ StepTo(t, state, "stepDone")

-----------------------------------------------------------------------------
(* _submit_sequence.  One sequence is followed from its insertion on.      *)

SubmitIntent(t) ==
    /\ At(t, "idle") /\ parent = "ABSENT"
    /\ parent' = "RECEIVED"
    /\ active' = 0
    /\ thr' = [thr EXCEPT ![t] = [IdleFrame EXCEPT !.pc = "parse", !.op = "submit"]]
    /\ UNCHANGED <<parentFinal, windowOpen, size, step, stepFinal, pose, rosVars>>

(* Parsing fails, or yields an ordered list of steps; a list of pose       *)
(* targets is collapsed into one blended step.                             *)
Parse(t) ==
    /\ At(t, "parse")
    /\ \/ /\ ParentTo(t, "PARSING", "reject")
          /\ UNCHANGED <<size, pose>>
       \/ /\ "PARSING" \in AllowedTransitions(parent)
          /\ ParentTo(t, "PARSING", "insert")
          /\ size' \in Steps
          /\ pose' \in SUBSET (1..size')
    /\ UNCHANGED <<parentFinal, windowOpen, step, stepFinal, active, rosVars>>

Reject(t) ==
    /\ At(t, "reject")
    /\ FinishParent(t, "REJECTED")
    /\ UNCHANGED <<windowOpen, stepVars, rosVars>>

(* The records are created one by one, each followed by its audit writes.  *)
InsertStep(t) ==
    /\ At(t, "insert")
    /\ IF Mine(t) = size
       THEN Goto(t, "begin") /\ UNCHANGED step
       ELSE /\ step' = [step EXCEPT ![Mine(t) + 1] = "RECEIVED"]
            /\ GotoStep(t, "stepParse", Mine(t) + 1)
    /\ UNCHANGED <<parentVars, size, stepFinal, pose, active, rosVars>>

ParseStep(t) ==
    /\ \/ At(t, "stepParse") /\ StepTo(t, "PARSING", "stepValidate")
       \/ At(t, "stepValidate") /\ StepTo(t, "VALIDATING", "insert")
    /\ UNCHANGED <<parentVars, size, stepFinal, pose, active, rosVars>>

BeginValidation(t) ==
    /\ At(t, "begin")
    /\ active' = 1
    /\ ParentTo(t, "VALIDATING", "validate")
    /\ UNCHANGED <<parentFinal, windowOpen, size, step, stepFinal, pose, rosVars>>

(* The gates of the sequence and of each step read live telemetry.         *)
Validate(t) ==
    /\ At(t, "validate")
    /\ \/ Goto(t, "reject") /\ UNCHANGED windowOpen
       \/ GotoStep(t, "offerStep", 1) /\ windowOpen' = TRUE
    /\ UNCHANGED <<parent, parentFinal, stepVars, rosVars>>

OfferStep(t) ==
    /\ At(t, "offerStep")
    /\ \/ /\ "NEEDS_CONFIRMATION" \in AllowedTransitions(step[Mine(t)])
          /\ step' = [step EXCEPT ![Mine(t)] = "NEEDS_CONFIRMATION"]
          /\ IF Mine(t) = size THEN Goto(t, "offer")
             ELSE GotoStep(t, "offerStep", Mine(t) + 1)
       \/ /\ "NEEDS_CONFIRMATION" \notin AllowedTransitions(step[Mine(t)])
          /\ UNCHANGED step
          /\ Return(t)
    /\ UNCHANGED <<parentVars, size, stepFinal, pose, active, rosVars>>

(* With _sim_auto_confirm the same request goes on to confirm, when the    *)
(* mode of the sequence is SIM.                                            *)
OfferSequence(t) ==
    /\ At(t, "offer")
    /\ \E auto \in {FALSE, SimAutoConfirm} :
          ParentTo(t, "NEEDS_CONFIRMATION", IF auto THEN "scan" ELSE "idle")
    /\ UNCHANGED <<parentFinal, windowOpen, stepVars, rosVars>>

-----------------------------------------------------------------------------
(* confirm_sequence, cancel_sequence and the snapshots of the HMI stream   *)
(* start with the scan for closed confirmation windows; steps are skipped  *)
(* by the scan, only their parent expires.                                 *)

Request(t, op) ==
    /\ At(t, "idle") /\ parent # "ABSENT"
    /\ thr' = [thr EXCEPT ![t] = [IdleFrame EXCEPT !.pc = "scan", !.op = op]]
    /\ UNCHANGED <<parentVars, stepVars, rosVars>>

AfterScan(t) ==
    IF thr[t].op = "poll" THEN "idle"
    ELSE IF thr[t].op = "cancel" THEN "cancelCheck"
    ELSE "confirmCheck"

(* Mutant: only who confirms or cancels looks for closed windows.           *)
ScanUnlessPolling(t) ==
    /\ At(t, "scan")
    /\ IF thr[t].op = "poll" THEN Return(t)
       ELSE IF parent = "NEEDS_CONFIRMATION" /\ ~windowOpen THEN Goto(t, "expire")
       ELSE Goto(t, AfterScan(t))
    /\ UNCHANGED <<parentVars, stepVars, rosVars>>

ScanPending(t) ==
    /\ At(t, "scan")
    /\ IF parent = "NEEDS_CONFIRMATION" /\ ~windowOpen THEN Goto(t, "expire")
       ELSE IF thr[t].op = "poll" THEN Return(t)
       ELSE Goto(t, AfterScan(t))
    /\ UNCHANGED <<parentVars, stepVars, rosVars>>

ExpirePending(t) ==
    /\ At(t, "expire")
    /\ parentFinal' = "EXPIRED"
    /\ ParentTo(t, "EXPIRED", AfterScan(t))
    /\ UNCHANGED <<windowOpen, stepVars, rosVars>>

ConfirmCheck(t) ==
    /\ At(t, "confirmCheck")
    /\ IF parent # "NEEDS_CONFIRMATION" THEN Return(t)
       ELSE Goto(t, IF windowOpen THEN "confirm" ELSE "expireOwn")
    /\ UNCHANGED <<parentVars, stepVars, rosVars>>

ExpireOwn(t) ==
    /\ At(t, "expireOwn")
    /\ FinishParent(t, "EXPIRED")
    /\ UNCHANGED <<windowOpen, stepVars, rosVars>>

(* CONFIRMED, EXECUTION_REQUESTED, EXECUTING, then the first step.         *)
Confirm(t) ==
    /\ \/ At(t, "confirm") /\ ParentTo(t, "CONFIRMED", "request")
       \/ At(t, "request") /\ ParentTo(t, "EXECUTION_REQUESTED", "execute")
       \/ /\ At(t, "execute")
          /\ \/ /\ "EXECUTING" \in AllowedTransitions(parent)
                /\ parent' = "EXECUTING"
                /\ GotoStep(t, "select", 1)
             \/ /\ "EXECUTING" \notin AllowedTransitions(parent)
                /\ UNCHANGED parent
                /\ Return(t)
    /\ UNCHANGED <<parentFinal, windowOpen, stepVars, rosVars>>

-----------------------------------------------------------------------------
(* The ordered execution of the steps by the confirming thread.            *)

SelectStep(t) ==
    /\ At(t, "select")
    /\ active' = Mine(t)
    /\ Goto(t, "gate")
    /\ UNCHANGED <<parentVars, size, step, stepFinal, pose, rosVars>>

(* _confirm_command_internal validates the step again; a refusal returns   *)
(* and leaves its record as it was.                                        *)
Gate(t) ==
    /\ At(t, "gate")
    /\ Goto(t, "stepConfirm") \/ Goto(t, "stepDone")
    /\ UNCHANGED <<parentVars, stepVars, rosVars>>

ConfirmStep(t) ==
    /\ \/ At(t, "stepConfirm") /\ StepTo(t, "CONFIRMED", "stepRequest")
       \/ /\ At(t, "stepRequest")
          /\ StepTo(t, "EXECUTION_REQUESTED",
                    IF Mine(t) \in pose THEN "query" ELSE "preflight")
    /\ UNCHANGED <<parentVars, size, stepFinal, pose, active, rosVars>>

(* _execute_get_pose_query, entered in EXECUTION_REQUESTED.                *)
QueryPose(t) ==
    /\ At(t, "query")
    /\ StepTo(t, "EXECUTING", "answer")
    /\ UNCHANGED <<parentVars, size, stepFinal, pose, active, rosVars>>

AnswerPose(t) ==
    /\ At(t, "answer")
    /\ \E state \in {"SUCCEEDED", "FAILED"} : FinishStep(t, state)
    /\ UNCHANGED <<parentVars, size, pose, active, rosVars>>

(* WorkspaceRosAdapter.confirm_command, as for a single motion command.    *)
Respond(t, outcome) ==
    thr' = [thr EXCEPT ![t].outcome = outcome,
               ![t].pc = IF outcome = "blocked" THEN "conclude" ELSE "dispatched"]

Preflight(t) ==
    /\ At(t, "preflight")
    /\ Goto(t, "send") \/ Respond(t, "blocked")
    /\ UNCHANGED <<parentVars, stepVars, rosVars>>

SendGoal(t) ==
    /\ At(t, "send")
    /\ \/ Respond(t, "blocked") /\ UNCHANGED <<goal, sends, late>>
       \/ /\ goal' = [goal EXCEPT ![Mine(t)] = "sent"]
          /\ sends' = [sends EXCEPT ![Mine(t)] = @ + 1]
          /\ late' = IF parent \in Terminal THEN late \cup {Mine(t)} ELSE late
          /\ Goto(t, "awaitAccept")
    /\ UNCHANGED <<parentVars, stepVars, handles>>

(* Each wait has a timeout, after which the goal may still run.            *)
AwaitGoal(t) ==
    /\ \/ /\ At(t, "awaitAccept")
          /\ \/ /\ goal[Mine(t)] \notin {"sent", "rejected"}
                /\ handles' = handles \cup {Mine(t)}
                /\ Goto(t, "awaitResult")
             \/ Respond(t, "blocked") /\ UNCHANGED handles
       \/ /\ At(t, "awaitResult")
          /\ \/ goal[Mine(t)] \in GoalDone /\ Respond(t, goal[Mine(t)])
             \/ Respond(t, "failed")
          /\ handles' = handles \ {Mine(t)}
    /\ UNCHANGED <<parentVars, stepVars, goal, sends, late>>

RecordDispatched(t) ==
    /\ At(t, "dispatched")
    /\ StepTo(t, "EXECUTING", "conclude")
    /\ stepFinal' = IF "EXECUTING" \in AllowedTransitions(step[Mine(t)])
                    THEN [stepFinal EXCEPT ![Mine(t)] = "none"] ELSE stepFinal
    /\ UNCHANGED <<parentVars, size, pose, active, rosVars>>

Conclude(t) ==
    /\ At(t, "conclude")
    /\ FinishStep(t, FinalStateOf(thr[t].outcome))
    /\ UNCHANGED <<parentVars, size, pose, active, rosVars>>

(* The next step, or the end of the sequence.  A step that did not succeed *)
(* ends it with the final state of that step, FAILED when it has none.     *)
StepDone(t) ==
    LET final == stepFinal[Mine(t)] IN
    /\ At(t, "stepDone")
    /\ IF final # "SUCCEEDED"
       THEN /\ parentFinal' = final
            /\ ParentTo(t, IF final = "none" THEN "FAILED" ELSE final, "idle")
       ELSE IF Mine(t) < size
            THEN GotoStep(t, "select", Mine(t) + 1) /\ UNCHANGED <<parent, parentFinal>>
       ELSE FinishParent(t, "SUCCEEDED")
    /\ UNCHANGED <<windowOpen, stepVars, rosVars>>

-----------------------------------------------------------------------------
(* cancel_sequence *)

InFlight(i) == i # 0 /\ step[i] \in {"EXECUTION_REQUESTED", "EXECUTING"}

CancelCheck(t) ==
    /\ At(t, "cancelCheck")
    /\ IF parent \in Terminal THEN Return(t)
       ELSE IF active # 0 /\ InFlight(active) THEN GotoStep(t, "abort", active)
       ELSE GotoStep(t, "cancelSteps", 1)
    /\ UNCHANGED <<parentVars, stepVars, rosVars>>

(* abort_command: without a goal handle there is nothing to cancel in ROS. *)
AbortStep(t) ==
    /\ At(t, "abort")
    /\ IF Mine(t) \in handles THEN Goto(t, "cancelGoal")
       ELSE GotoStep(t, "cancelSteps", 1)
    /\ UNCHANGED <<parentVars, stepVars, rosVars>>

(* A refused or unanswered cancellation is a conflict: nothing is marked.  *)
CancelGoal(t) ==
    /\ At(t, "cancelGoal")
    /\ \/ /\ goal[Mine(t)] \in {"running", "canceling"}
          /\ goal' = [goal EXCEPT ![Mine(t)] = "canceling"]
          /\ GotoStep(t, "cancelSteps", 1) \/ Return(t)
       \/ Return(t) /\ UNCHANGED goal
    /\ UNCHANGED <<parentVars, stepVars, handles, sends, late>>

(* One pass over child_command_ids, which the submitting thread may still  *)
(* extend; records that are already terminal are passed over.  After the   *)
(* audit writes of the last one the parent is marked.                      *)
CancelSteps(t) ==
    LET open == {i \in Mine(t)..MaxSteps : step[i] \notin Terminal \cup {"ABSENT"}}
    IN  /\ At(t, "cancelSteps")
        /\ IF open = {}
           THEN FinishParent(t, "CANCELLED") /\ UNCHANGED <<step, stepFinal>>
           ELSE /\ \E i \in open :
                      /\ \A j \in open : i <= j
                      /\ stepFinal' = [stepFinal EXCEPT ![i] = "CANCELLED"]
                      /\ step' = [step EXCEPT ![i] = "CANCELLED"]
                      /\ GotoStep(t, "cancelSteps", i + 1)
                /\ UNCHANGED <<parent, parentFinal>>
        /\ UNCHANGED <<windowOpen, size, pose, active, rosVars>>

-----------------------------------------------------------------------------
(* The clock and the ExecuteMotion server.                                 *)

WindowElapses ==
    /\ windowOpen
    /\ windowOpen' = FALSE
    /\ UNCHANGED <<parent, parentFinal, stepVars, thr, rosVars>>

GoalAnswers(i) ==
    /\ \/ /\ goal[i] = "sent"
          /\ \E answer \in {"running", "rejected"} : goal' = [goal EXCEPT ![i] = answer]
       \/ /\ goal[i] \in {"running", "canceling"}
          /\ \E result \in GoalDone : goal' = [goal EXCEPT ![i] = result]
    /\ UNCHANGED <<parentVars, stepVars, thr, handles, sends, late>>

-----------------------------------------------------------------------------
SubmitStep(t) ==
    \/ Parse(t) \/ Reject(t) \/ InsertStep(t) \/ ParseStep(t)
    \/ BeginValidation(t) \/ Validate(t) \/ OfferStep(t) \/ OfferSequence(t)

ConfirmSequence(t) ==
    \/ ConfirmCheck(t) \/ ExpireOwn(t) \/ Confirm(t)

RunStep(t) ==
    \/ SelectStep(t) \/ Gate(t) \/ ConfirmStep(t) \/ QueryPose(t)
    \/ AnswerPose(t) \/ Preflight(t) \/ SendGoal(t) \/ AwaitGoal(t)
    \/ RecordDispatched(t) \/ Conclude(t) \/ StepDone(t)

CancelSequence(t) ==
    \/ CancelCheck(t) \/ AbortStep(t) \/ CancelGoal(t)
    \/ CancelSteps(t)

ThreadStep(t) ==
    \/ SubmitStep(t)
    \/ ScanPending(t)
    \/ ExpirePending(t)
    \/ ConfirmSequence(t)
    \/ RunStep(t)
    \/ CancelSequence(t)

SequenceNext ==
    \/ \E t \in Thread :
          \/ SubmitIntent(t)
          \/ \E op \in Requests : Request(t, op)
          \/ ThreadStep(t)
    \/ WindowElapses
    \/ \E i \in Steps : GoalAnswers(i)

SequenceSpec == SequenceInit /\ [][SequenceNext]_sequence

(* Request threads keep running, the window closes on the wall clock and   *)
(* the HMI stream keeps polling; operators and the robot owe nothing.      *)
Fairness ==
    /\ \A t \in Thread : WF_sequence(ThreadStep(t)) /\ WF_sequence(Request(t, "poll"))
    /\ WF_sequence(WindowElapses)

FairSpec == SequenceSpec /\ Fairness

-----------------------------------------------------------------------------
(* The steps run in order: nothing of a step reaches ROS before every      *)
(* earlier step has succeeded, whatever is confirmed, cancelled or expired *)
(* meanwhile.                                                              *)
StepsInOrder ==
    \A i, j \in Steps : j < i /\ sends[i] > 0 => step[j] = "SUCCEEDED"

(* However many confirmations race, no step is sent twice.                 *)
EachStepOnce == \A i \in Steps : sends[i] <= 1

(* A sequence reported SUCCEEDED has run every one of its steps, and each  *)
(* motion among them did succeed on the ROS side.                          *)
SucceededIsComplete ==
    parent = "SUCCEEDED" =>
        /\ size > 0
        /\ \A i \in 1..size : step[i] = "SUCCEEDED"
        /\ \A i \in (1..size) \ pose : goal[i] = "succeeded"

(* A sequence that was rejected or expired never moved the robot.          *)
ExpiredNeverStarted ==
    parent \in {"EXPIRED", "REJECTED"} => \A i \in Steps : sends[i] = 0

(* A cancellation lets at most the step through that was already on its    *)
(* way when it passed; no later step starts once the sequence is over.     *)
AtMostOneLateStep == \A i, j \in late : i = j

(* A finished record stays as it is: parent and steps.                     *)
TerminalIsFinal ==
    [][/\ parent \in Terminal => parent' = parent
       /\ \A i \in Steps : step[i] \in Terminal => step'[i] = step[i]]_sequence

(* Every sequence settles, also when a refused transition ended the        *)
(* request that was driving it: it does not block later jobs for ever.     *)
SequenceSettles == parent # "ABSENT" ~> parent \in Terminal

-----------------------------------------------------------------------------
(* The inductive invariant behind the safety properties.                   *)

(* The labels between the confirmation of the parent and its end.          *)
BeforeSend == {"select", "gate", "stepConfirm", "stepRequest", "query", "answer",
               "preflight", "send"}
StepLabels == BeforeSend \cup {"awaitAccept", "awaitResult", "dispatched",
                               "conclude", "stepDone"}
Drives(t) == thr[t].pc \in {"request", "execute"} \cup StepLabels
PostConfirm == {"CONFIRMED", "EXECUTION_REQUESTED", "EXECUTING",
                "SUCCEEDED", "FAILED", "CANCELLED"}

(* Where a thread is tells which step it may be at.                        *)
FramesOK ==
    \A t \in Thread :
        /\ thr[t].pc \in StepLabels \cup {"stepParse", "stepValidate", "offerStep"}
              => Mine(t) \in 1..size
        /\ thr[t].pc = "insert" => Mine(t) \in 0..size
        /\ thr[t].pc \in {"abort", "cancelGoal", "cancelSteps"} => Mine(t) > 0
        /\ thr[t].pc \in {"abort", "cancelGoal"} => Mine(t) <= MaxSteps
        /\ thr[t].pc \in {"preflight", "send"} => Mine(t) \notin pose
        /\ thr[t].pc \in {"query", "answer"} => Mine(t) \in pose

(* One thread owns the way from the confirmation of the parent to its end. *)
OneDriver ==
    /\ \A t, u \in Thread : Drives(t) /\ Drives(u) => t = u
    /\ \A t \in Thread : Drives(t) => parent \in PostConfirm

(* One thread submits, and inserts the records in order.                   *)
Inserting == {"insert", "stepParse", "stepValidate"}
Inserted == {"begin", "validate", "offerStep", "offer"}
Submits(t) == thr[t].pc \in {"parse", "reject"} \cup Inserting \cup Inserted

OneSubmitter ==
    /\ \A t, u \in Thread : Submits(t) /\ Submits(u) => t = u
    /\ \A t \in Thread : Submits(t) => parent # "ABSENT"
    /\ \A t \in Thread :
          thr[t].pc \in Inserting \cup Inserted => parent # "RECEIVED"
    /\ \A i, j \in Steps : j < i /\ step[i] # "ABSENT" => step[j] # "ABSENT"
    /\ \A t \in Thread : thr[t].pc \in Inserting =>
          \A i \in Steps : step[i] # "ABSENT" <=> i <= Mine(t)
    /\ \A t \in Thread :
          thr[t].pc \in Inserted \/ Drives(t) \/ parent = "NEEDS_CONFIRMATION"
              => size > 0 /\ \A i \in 1..size : step[i] # "ABSENT"

(* Before the confirmation nothing was sent and no step has succeeded.     *)
Untouched ==
    parent \notin PostConfirm =>
        \A i \in Steps : sends[i] = 0 /\ stepFinal[i] # "SUCCEEDED"

(* The driver is at a step whose predecessors succeeded and whose          *)
(* successors were not sent.                                               *)
InOrder ==
    /\ \A t \in Thread : thr[t].pc \in StepLabels =>
          /\ \A j \in Steps : j < Mine(t) => step[j] = "SUCCEEDED"
          /\ \A j \in Steps : j > Mine(t) => sends[j] = 0
          /\ thr[t].pc \in BeforeSend => sends[Mine(t)] = 0
    /\ \A t \in Thread : thr[t].pc \in {"request", "execute"} =>
          \A j \in Steps : sends[j] = 0

(* What the records say of a step is what its goal did.                    *)
RecordsReal ==
    /\ \A i \in Steps : sends[i] = 0 => goal[i] = "none"
    /\ \A i \in Steps : step[i] = "SUCCEEDED" /\ i \notin pose => goal[i] = "succeeded"
    /\ \A t \in Thread : Drives(t) =>
          \A i \in Steps : stepFinal[i] = "SUCCEEDED" => step[i] = "SUCCEEDED"
    /\ \A t \in Thread :
          thr[t].pc \in {"dispatched", "conclude"} /\ thr[t].outcome = "succeeded"
              => goal[Mine(t)] = "succeeded"

(* A cancellation passes over every step before it marks the parent.       *)
CancelPasses ==
    /\ \A t \in Thread : thr[t].pc = "cancelSteps" =>
          \A j \in Steps : j < Mine(t) => step[j] \in Terminal
    /\ \A t \in Thread : Drives(t) /\ parent \in Terminal =>
          \A i \in 1..size : step[i] \in Terminal
    /\ \A i \in late : sends[i] > 0 /\ step[i] \in Terminal \ {"SUCCEEDED"}

SequenceInv ==
    /\ FramesOK
    /\ OneSubmitter
    /\ OneDriver
    /\ Untouched
    /\ InOrder
    /\ RecordsReal
    /\ CancelPasses
    /\ StepsInOrder
    /\ EachStepOnce
    /\ SucceededIsComplete

(* However confirmations, cancellations and expiries interleave, the steps *)
(* run one after the other and once each, a sequence is called SUCCEEDED   *)
(* when all of them succeeded and EXPIRED when none was sent, and at most  *)
(* one step leaves after it was settled.                                   *)
SequenceSafe == SequenceTypeOK /\ SequenceInv /\ ExpiredNeverStarted /\ AtMostOneLateStep
=============================================================================
