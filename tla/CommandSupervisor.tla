--------------------------- MODULE CommandSupervisor ---------------------------
(***************************************************************************)
(* The HMI supervisor (hmi/backend/services/supervisor_*.py) handling      *)
(* single commands, together with the ROS adapter it dispatches through    *)
(* (hmi/backend/ros/command_dispatch.py).                                  *)
(*                                                                         *)
(* FastAPI runs every synchronous endpoint on a thread pool, so several    *)
(* requests are inside the supervisor at once and share its dictionaries.  *)
(* A thread is a frame with a program counter.  A step runs from one       *)
(* blocking point (a lock, an audit write, a ROS call) to the next.        *)
(***************************************************************************)
EXTENDS ControlLease, CommandStates

CONSTANTS
    Thread,          \* request threads of the pool
    Command,         \* command ids; one is used per submission
    NoCommand, NoClient,
    SimAutoConfirm   \* _sim_auto_confirm with the runtime in SIM mode

Client == Session \X Operator

ASSUME SupervisorAssumption ==
    /\ NoCommand \notin Command
    /\ NoClient \notin Client
    /\ SimAutoConfirm \in BOOLEAN

VARIABLES
    lifecycle,       \* command.lifecycle_state; "ABSENT" before insertion
    finalState,      \* command.final_state
    owner,           \* command.session_id, command.operator_id
    kind,            \* what the parsed intent asks for
    windowOpen,      \* confirmation_expires_at is set and in the future
    activeCommand,   \* _active_command_id
    thr,             \* the frame of each request thread
    goal,            \* the ROS side of the command: its goal or service call
    handles,         \* commands with an entry in _goal_handles
    sends,           \* how many times the command was sent to ROS
    abortSkipped     \* commands for which abort_command found no goal

cmdVars == <<lifecycle, finalState, owner, kind, windowOpen, activeCommand>>
rosVars == <<goal, handles, sends, abortSkipped>>
vars == <<holder, grants, lifecycle, finalState, owner, kind, windowOpen,
          activeCommand, thr, goal, handles, sends, abortSkipped>>

-----------------------------------------------------------------------------

Kinds == {"MOTION", "GET_POSE", "FACTORY_TASK"}

Ops == {"none", "submit", "confirm", "cancel", "poll"}

Labels == {"idle", "scan", "expire", "assert", "noActiveJob", "review",
           "reject", "parsing", "validating", "validate", "query", "answer",
           "offer", "confirmCheck", "expireOwn", "gate", "confirm", "request",
           "preflight", "send", "awaitAccept", "awaitResult", "dispatched",
           "conclude", "cancelCheck", "abort", "cancelGoal", "cancel"}

Frame == [pc : Labels, op : Ops, client : Client \cup {NoClient},
          token : Nat, cmd : Command \cup {NoCommand},
          expiring : SUBSET Command, outcome : Outcomes]

IdleFrame == [pc |-> "idle", op |-> "none", client |-> NoClient, token |-> 0,
              cmd |-> NoCommand, expiring |-> {}, outcome |-> "none"]

TypeOK ==
    /\ LeaseTypeOK
    /\ lifecycle \in [Command -> Lifecycle \cup {"ABSENT"}]
    /\ finalState \in [Command -> Terminal \cup {"none"}]
    /\ owner \in [Command -> Client \cup {NoClient}]
    /\ kind \in [Command -> Kinds \cup {"none"}]
    /\ windowOpen \in [Command -> BOOLEAN]
    /\ activeCommand \in Command \cup {NoCommand}
    /\ thr \in [Thread -> Frame]
    /\ goal \in [Command -> GoalStates]
    /\ handles \in SUBSET Command
    /\ sends \in [Command -> Nat]
    /\ abortSkipped \in SUBSET Command

Init ==
    /\ LeaseInit
    /\ lifecycle = [c \in Command |-> "ABSENT"]
    /\ finalState = [c \in Command |-> "none"]
    /\ owner = [c \in Command |-> NoClient]
    /\ kind = [c \in Command |-> "none"]
    /\ windowOpen = [c \in Command |-> FALSE]
    /\ activeCommand = NoCommand
    /\ thr = [t \in Thread |-> IdleFrame]
    /\ goal = [c \in Command |-> "none"]
    /\ handles = {}
    /\ sends = [c \in Command |-> 0]
    /\ abortSkipped = {}

-----------------------------------------------------------------------------
(* Control of a request thread.                                            *)

At(t, label) == thr[t].pc = label
Goto(t, label) == thr' = [thr EXCEPT ![t].pc = label]

(* The request ends: a response, an HTTP error or an unhandled exception.  *)
Return(t) == thr' = [thr EXCEPT ![t] = IdleFrame]

(* Mutant: a state machine that only guards terminal states.               *)
MayBecomeUnlessTerminal(c, next) == lifecycle[c] \notin Terminal

(* ensure_command_transition *)
MayBecome(c, next) == next \in AllowedTransitions(lifecycle[c])

(* _transition_command: ensure_command_transition, then the assignment.    *)
(* An illegal transition raises ValueError, which ends the request.        *)
Transition(t, c, next, label) ==
    \/ /\ MayBecome(c, next)
       /\ lifecycle' = [lifecycle EXCEPT ![c] = next]
       /\ IF label = "idle" THEN Return(t) ELSE Goto(t, label)
    \/ /\ ~MayBecome(c, next)
       /\ UNCHANGED lifecycle
       /\ Return(t)

(* final_state is assigned before the transition is checked.               *)
Finish(t, c, state) ==
    /\ finalState' = [finalState EXCEPT ![c] = state]
    /\ Transition(t, c, state, "idle")

-----------------------------------------------------------------------------
(* Requests arrive on an idle thread.  Every handler first expires the     *)
(* confirmations whose window has closed.                                  *)

Start(t, op, client, token, c) ==
    /\ At(t, "idle")
    /\ thr' = [thr EXCEPT ![t] = [IdleFrame EXCEPT
                  !.pc = "scan", !.op = op, !.client = client,
                  !.token = token, !.cmd = c]]
    /\ UNCHANGED <<leaseVars, cmdVars, rosVars>>

(* The uuid4 of the command is drawn with the request; it stays unused if   *)
(* the request is refused before the insertion.                            *)
SubmitIntent(t) ==
    \E cl \in Client, k \in 1..grants, c \in Command :
        /\ lifecycle[c] = "ABSENT"
        /\ \A u \in Thread : thr[u].op = "submit" => thr[u].cmd # c
        /\ Start(t, "submit", cl, k, c)

ConfirmCommand(t) ==
    \E cl \in Client, k \in 1..grants, c \in Command :
        Start(t, "confirm", cl, k, c)

CancelCommand(t) ==
    \E cl \in Client, k \in 1..grants, c \in Command :
        Start(t, "cancel", cl, k, c)

(* snapshot_overlay, get_command, list_commands, list_replay               *)
Poll(t) == Start(t, "poll", NoClient, 0, NoCommand)

(* The list is taken under the lock, the expiries happen after it.         *)
AfterScan(t, rest) ==
    IF rest # {} THEN [thr EXCEPT ![t].pc = "expire", ![t].expiring = rest]
    ELSE IF thr[t].op = "poll" THEN [thr EXCEPT ![t] = IdleFrame]
    ELSE [thr EXCEPT ![t].pc = "assert", ![t].expiring = {}]

ScanPending(t) ==
    /\ At(t, "scan")
    /\ thr' = AfterScan(t, {c \in Command :
                  lifecycle[c] = "NEEDS_CONFIRMATION" /\ ~windowOpen[c]})
    /\ UNCHANGED <<leaseVars, cmdVars, rosVars>>

(* _expire_command for the next command of the list; a refused transition  *)
(* raises out of the loop and out of the request.                          *)
ExpirePending(t) ==
    /\ At(t, "expire")
    /\ \E c \in thr[t].expiring :
          /\ finalState' = [finalState EXCEPT ![c] = "EXPIRED"]
          /\ \/ /\ MayBecome(c, "EXPIRED")
                /\ lifecycle' = [lifecycle EXCEPT ![c] = "EXPIRED"]
                /\ thr' = AfterScan(t, thr[t].expiring \ {c})
             \/ /\ ~MayBecome(c, "EXPIRED")
                /\ UNCHANGED lifecycle
                /\ Return(t)
    /\ UNCHANGED <<leaseVars, owner, kind, windowOpen, activeCommand, rosVars>>

(* _assert_controller *)
AssertController(t) ==
    /\ At(t, "assert")
    /\ IF Authorised(thr[t].client[1], thr[t].client[2], thr[t].token)
       THEN Goto(t, IF thr[t].op = "submit" THEN "noActiveJob"
                    ELSE IF thr[t].op = "confirm" THEN "confirmCheck"
                    ELSE "cancelCheck")
       ELSE Return(t)
    /\ UNCHANGED <<leaseVars, cmdVars, rosVars>>

-----------------------------------------------------------------------------
(* submit_intent and _submit_single_command *)

(* _assert_no_active_job *)
JobPending ==
    activeCommand # NoCommand /\ lifecycle[activeCommand] \notin Terminal

NoActiveJob(t) ==
    /\ At(t, "noActiveJob")
    /\ IF JobPending THEN Return(t) ELSE Goto(t, "review")
    /\ UNCHANGED <<leaseVars, cmdVars, rosVars>>

(* The blocking call to the LLM gateway, then the insertion under the lock. *)
ReviewAndInsert(t) ==
    LET c == thr[t].cmd IN
    /\ At(t, "review")
    /\ lifecycle' = [lifecycle EXCEPT ![c] = "RECEIVED"]
    /\ owner' = [owner EXCEPT ![c] = thr[t].client]
    /\ activeCommand' = c
    /\ \/ Goto(t, "reject") /\ UNCHANGED kind         \* review refused
       \/ Goto(t, "parsing") /\ \E k \in Kinds : kind' = [kind EXCEPT ![c] = k]
    /\ UNCHANGED <<leaseVars, finalState, windowOpen, rosVars>>

RejectCommand(t) ==
    /\ At(t, "reject")
    /\ Finish(t, thr[t].cmd, "REJECTED")
    /\ UNCHANGED <<leaseVars, owner, kind, windowOpen, activeCommand, rosVars>>

Parse(t) ==
    /\ At(t, "parsing")
    /\ \E label \in {"validating", "reject"} :              \* parse failed
          Transition(t, thr[t].cmd, "PARSING", label)
    /\ UNCHANGED <<leaseVars, finalState, owner, kind, windowOpen,
                   activeCommand, rosVars>>

BeginValidation(t) ==
    /\ At(t, "validating")
    /\ Transition(t, thr[t].cmd, "VALIDATING", "validate")
    /\ UNCHANGED <<leaseVars, finalState, owner, kind, windowOpen,
                   activeCommand, rosVars>>

(* _validate_command at submission time: the gates read live telemetry.    *)
Validate(t) ==
    /\ At(t, "validate")
    /\ \/ Goto(t, "reject")
       \/ Goto(t, IF kind[thr[t].cmd] = "GET_POSE" THEN "query" ELSE "offer")
    /\ UNCHANGED <<leaseVars, cmdVars, rosVars>>

(* _execute_get_pose_query, entered in VALIDATING.  Found in any other     *)
(* state, it first asks for EXECUTING, which a cancelled command refuses.  *)
QueryPose(t) ==
    LET c == thr[t].cmd IN
    /\ At(t, "query")
    /\ IF lifecycle[c] = "VALIDATING"
       THEN Goto(t, "answer") /\ UNCHANGED lifecycle
       ELSE Transition(t, c, "EXECUTING", "answer")
    /\ UNCHANGED <<leaseVars, finalState, owner, kind, windowOpen,
                   activeCommand, rosVars>>

AnswerPose(t) ==
    /\ At(t, "answer")
    /\ \E state \in {"SUCCEEDED", "FAILED"} : Finish(t, thr[t].cmd, state)
    /\ UNCHANGED <<leaseVars, owner, kind, windowOpen, activeCommand, rosVars>>

OfferForConfirmation(t) ==
    LET c == thr[t].cmd IN
    /\ At(t, "offer")
    /\ windowOpen' = [windowOpen EXCEPT ![c] = TRUE]
    /\ Transition(t, c, "NEEDS_CONFIRMATION",
                  IF SimAutoConfirm THEN "gate" ELSE "idle")
    /\ UNCHANGED <<leaseVars, finalState, owner, kind, activeCommand, rosVars>>

-----------------------------------------------------------------------------
(* confirm_command and _confirm_command_internal *)

(* Mutant: the owner of the command is not compared.                       *)
OwnedByAnyone(t, c) == lifecycle[c] # "ABSENT"

(* _require_owned_command *)
Owned(t, c) == lifecycle[c] # "ABSENT" /\ owner[c] = thr[t].client

ConfirmCheck(t) ==
    LET c == thr[t].cmd IN
    /\ At(t, "confirmCheck")
    /\ \/ /\ \/ ~Owned(t, c)
             \/ lifecycle[c] # "NEEDS_CONFIRMATION"
          /\ Return(t)
       \/ /\ Owned(t, c)
          /\ lifecycle[c] = "NEEDS_CONFIRMATION"
          /\ IF windowOpen[c]
             THEN Goto(t, "gate") \/ Return(t)     \* fingerprint mismatch
             ELSE Goto(t, "expireOwn")
    /\ UNCHANGED <<leaseVars, cmdVars, rosVars>>

ExpireOwn(t) ==
    /\ At(t, "expireOwn")
    /\ Finish(t, thr[t].cmd, "EXPIRED")
    /\ UNCHANGED <<leaseVars, owner, kind, windowOpen, activeCommand, rosVars>>

(* The confirmation gate re-validates against live telemetry.  A refusal   *)
(* leaves the command waiting, so that the operator can try again.         *)
ConfirmGate(t) ==
    /\ At(t, "gate")
    /\ Goto(t, "confirm") \/ Return(t)
    /\ UNCHANGED <<leaseVars, cmdVars, rosVars>>

Confirm(t) ==
    /\ At(t, "confirm")
    /\ Transition(t, thr[t].cmd, "CONFIRMED", "request")
    /\ UNCHANGED <<leaseVars, finalState, owner, kind, windowOpen,
                   activeCommand, rosVars>>

RequestExecution(t) ==
    /\ At(t, "request")
    /\ Transition(t, thr[t].cmd, "EXECUTION_REQUESTED",
                  IF kind[thr[t].cmd] = "GET_POSE" THEN "query"
                  ELSE "preflight")
    /\ UNCHANGED <<leaseVars, finalState, owner, kind, windowOpen,
                   activeCommand, rosVars>>

-----------------------------------------------------------------------------
(* WorkspaceRosAdapter.confirm_command, called in EXECUTION_REQUESTED.     *)

(* execution_result is known: with dispatchedToRos the command first       *)
(* becomes EXECUTING, otherwise it fails at once.                          *)
Respond(t, outcome) ==
    thr' = [thr EXCEPT ![t].outcome = outcome,
               ![t].pc = IF outcome = "blocked" THEN "conclude"
                         ELSE "dispatched"]

(* Runtime mode, execution preflight, payload and the ValidateCommand      *)
(* service: any of them can block the command.                             *)
Preflight(t) ==
    /\ At(t, "preflight")
    /\ Goto(t, "send") \/ Respond(t, "blocked")
    /\ UNCHANGED <<leaseVars, cmdVars, rosVars>>

(* send_goal_async on /execute_motion, or the call of                      *)
(* /supervisor/confirm_execution for a FactoryTask.  A FactoryTask whose   *)
(* service is missing is still reported as dispatched.                     *)
SendGoal(t) ==
    LET c == thr[t].cmd
        task == kind[c] = "FACTORY_TASK"
    IN  /\ At(t, "send")
        /\ \/ /\ Respond(t, IF task THEN "failed" ELSE "blocked")
              /\ UNCHANGED <<goal, sends>>
           \/ /\ goal' = [goal EXCEPT ![c] = IF task THEN "running" ELSE "sent"]
              /\ sends' = [sends EXCEPT ![c] = @ + 1]
              /\ Goto(t, IF task THEN "awaitResult" ELSE "awaitAccept")
        /\ UNCHANGED <<leaseVars, cmdVars, handles, abortSkipped>>

(* Mutant: the goal response is awaited without a timeout.                 *)
AwaitAcceptForever(t) ==
    LET c == thr[t].cmd IN
    /\ At(t, "awaitAccept")
    /\ \/ /\ goal[c] \notin {"sent", "rejected"}
          /\ handles' = handles \cup {c}
          /\ Goto(t, "awaitResult")
       \/ /\ goal[c] = "rejected"
          /\ Respond(t, "blocked")
          /\ UNCHANGED handles
    /\ UNCHANGED <<leaseVars, cmdVars, goal, sends, abortSkipped>>

(* Wait for the goal response: accepted, rejected, or no answer in time.   *)
AwaitAccept(t) ==
    LET c == thr[t].cmd IN
    /\ At(t, "awaitAccept")
    /\ \/ /\ goal[c] \notin {"sent", "rejected"}
          /\ handles' = handles \cup {c}
          /\ Goto(t, "awaitResult")
       \/ /\ Respond(t, "blocked")
          /\ UNCHANGED handles
    /\ UNCHANGED <<leaseVars, cmdVars, goal, sends, abortSkipped>>

(* Wait for the result; the finally clause drops the handle even when the  *)
(* wait timed out and the goal still runs.                                 *)
AwaitResult(t) ==
    LET c == thr[t].cmd IN
    /\ At(t, "awaitResult")
    /\ \/ goal[c] \in GoalDone /\ Respond(t, goal[c])
       \/ Respond(t, "failed")
    /\ handles' = handles \ {c}
    /\ UNCHANGED <<leaseVars, cmdVars, goal, sends, abortSkipped>>

-----------------------------------------------------------------------------
(* The rest of _execute_confirmed_command, once the adapter has answered.  *)

RecordDispatched(t) ==
    LET c == thr[t].cmd IN
    /\ At(t, "dispatched")
    /\ Transition(t, c, "EXECUTING", "conclude")
    /\ finalState' = IF MayBecome(c, "EXECUTING")
                     THEN [finalState EXCEPT ![c] = "none"]
                     ELSE finalState
    /\ UNCHANGED <<leaseVars, owner, kind, windowOpen, activeCommand, rosVars>>

Conclude(t) ==
    /\ At(t, "conclude")
    /\ Finish(t, thr[t].cmd, FinalStateOf(thr[t].outcome))
    /\ UNCHANGED <<leaseVars, owner, kind, windowOpen, activeCommand, rosVars>>

-----------------------------------------------------------------------------
(* cancel_command *)

CancelCheck(t) ==
    LET c == thr[t].cmd IN
    /\ At(t, "cancelCheck")
    /\ IF ~Owned(t, c) \/ lifecycle[c] \in Terminal
       THEN Return(t)
       ELSE Goto(t, IF lifecycle[c] \in {"EXECUTION_REQUESTED", "EXECUTING"}
                    THEN "abort" ELSE "cancel")
    /\ UNCHANGED <<leaseVars, cmdVars, rosVars>>

(* abort_command looks the goal handle up; without one it has nothing to   *)
(* cancel on the ROS side and reports success.                             *)
AbortCommand(t) ==
    LET c == thr[t].cmd IN
    /\ At(t, "abort")
    /\ IF c \in handles
       THEN Goto(t, "cancelGoal") /\ UNCHANGED abortSkipped
       ELSE Goto(t, "cancel") /\ abortSkipped' = abortSkipped \cup {c}
    /\ UNCHANGED <<leaseVars, cmdVars, goal, handles, sends>>

(* cancel_goal_async on that handle.  The server takes the request, or it  *)
(* is refused; refused or unanswered, the cancellation is a conflict.      *)
CancelGoal(t) ==
    LET c == thr[t].cmd IN
    /\ At(t, "cancelGoal")
    /\ \/ /\ goal[c] \in {"running", "canceling"}
          /\ goal' = [goal EXCEPT ![c] = "canceling"]
          /\ Goto(t, "cancel") \/ Return(t)
       \/ Return(t) /\ UNCHANGED goal
    /\ UNCHANGED <<leaseVars, cmdVars, handles, sends, abortSkipped>>

MarkCancelled(t) ==
    /\ At(t, "cancel")
    /\ Finish(t, thr[t].cmd, "CANCELLED")
    /\ UNCHANGED <<leaseVars, owner, kind, windowOpen, activeCommand, rosVars>>

-----------------------------------------------------------------------------
(* The world outside the supervisor.                                       *)

(* confirmation_expires_at passes.                                         *)
WindowElapses(c) ==
    /\ windowOpen[c]
    /\ windowOpen' = [windowOpen EXCEPT ![c] = FALSE]
    /\ UNCHANGED <<leaseVars, lifecycle, finalState, owner, kind,
                   activeCommand, thr, rosVars>>

(* The ExecuteMotion server answers a goal, however late.                  *)
GoalResponse(c) ==
    /\ goal[c] = "sent"
    /\ \E answer \in {"running", "rejected"} :
          goal' = [goal EXCEPT ![c] = answer]
    /\ UNCHANGED <<leaseVars, cmdVars, thr, handles, sends, abortSkipped>>

(* The motion ends by itself or because it was cancelled; the answer of    *)
(* confirm_execution for a FactoryTask is only accepted or not.            *)
GoalEnds(c) ==
    /\ goal[c] \in {"running", "canceling"}
    /\ \E result \in IF kind[c] = "FACTORY_TASK"
                     THEN {"succeeded", "failed"} ELSE GoalDone :
          goal' = [goal EXCEPT ![c] = result]
    /\ UNCHANGED <<leaseVars, cmdVars, thr, handles, sends, abortSkipped>>

LeaseChanges ==
    /\ LeaseNext
    /\ UNCHANGED <<cmdVars, thr, rosVars>>

-----------------------------------------------------------------------------
Request(t) ==
    \/ SubmitIntent(t)
    \/ ConfirmCommand(t)
    \/ CancelCommand(t)
    \/ Poll(t)

SubmitStep(t) ==
    \/ NoActiveJob(t)
    \/ ReviewAndInsert(t)
    \/ RejectCommand(t)
    \/ Parse(t)
    \/ BeginValidation(t)
    \/ Validate(t)
    \/ QueryPose(t)
    \/ AnswerPose(t)
    \/ OfferForConfirmation(t)

ConfirmStep(t) ==
    \/ ConfirmCheck(t)
    \/ ExpireOwn(t)
    \/ ConfirmGate(t)
    \/ Confirm(t)
    \/ RequestExecution(t)

DispatchStep(t) ==
    \/ Preflight(t)
    \/ SendGoal(t)
    \/ AwaitAccept(t)
    \/ AwaitResult(t)
    \/ RecordDispatched(t)
    \/ Conclude(t)

CancelStep(t) ==
    \/ CancelCheck(t)
    \/ AbortCommand(t)
    \/ CancelGoal(t)
    \/ MarkCancelled(t)

EntryStep(t) ==
    \/ ScanPending(t)
    \/ ExpirePending(t)
    \/ AssertController(t)

ThreadStep(t) ==
    \/ EntryStep(t)
    \/ SubmitStep(t)
    \/ ConfirmStep(t)
    \/ DispatchStep(t)
    \/ CancelStep(t)

Environment ==
    \/ \E c \in Command : WindowElapses(c) \/ GoalResponse(c) \/ GoalEnds(c)
    \/ LeaseChanges

Next ==
    \/ \E t \in Thread : Request(t) \/ ThreadStep(t)
    \/ Environment

Spec == Init /\ [][Next]_vars

(* A request thread keeps running: every wait in it has a timeout.  The    *)
(* confirmation window runs on the wall clock, and the HMI stream keeps    *)
(* asking for snapshots.  Operators, the robot and the lease owe nothing.  *)
Fairness ==
    /\ \A t \in Thread : WF_vars(ThreadStep(t)) /\ WF_vars(Poll(t))
    /\ \A c \in Command : WF_vars(WindowElapses(c))

FairSpec == Spec /\ Fairness

-----------------------------------------------------------------------------
(* A command is sent to ROS at most once, however many confirmations,      *)
(* cancellations and expiry scans race on it (a double click on confirm).  *)
AtMostOneGoal == \A c \in Command : sends[c] <= 1

(* A command that expired or was rejected never reaches ROS: the expiry    *)
(* scan of any thread and the confirmation of another cannot both win.     *)
ExpiredNeverDispatched ==
    \A c \in Command : lifecycle[c] \in {"EXPIRED", "REJECTED"} => sends[c] = 0

(* A motion or task reported SUCCEEDED to the operator did succeed on the  *)
(* ROS side.                                                               *)
SucceededIsReal ==
    \A c \in Command :
        lifecycle[c] = "SUCCEEDED" /\ kind[c] # "GET_POSE"
            => goal[c] = "succeeded"

(* A registered goal handle always belongs to a thread that is waiting for *)
(* that goal: none leaks, so abort_command never cancels a finished goal.  *)
HandleHasWaiter ==
    \A c \in handles : \E t \in Thread :
        At(t, "awaitResult") /\ thr[t].cmd = c

(* What leaves for ROS: one goal for one confirmed command, with a thread  *)
(* that waits for it.                                                      *)
DispatchSafe == TypeOK /\ AtMostOneGoal /\ ExpiredNeverDispatched /\ HandleHasWaiter

(* Once a command is terminal no thread can move it again.                 *)
TerminalIsFinal ==
    [][\A c \in Command :
          lifecycle[c] \in Terminal => lifecycle'[c] = lifecycle[c]]_vars

(* Only a request of the client that submitted a command confirms it or    *)
(* cancels it, also across lease takeovers and expiries.                   *)
OnlyOwnerActs ==
    [][\A c \in Command :
          lifecycle'[c] # lifecycle[c] /\ lifecycle'[c] \in {"CONFIRMED", "CANCELLED"}
             => \E t \in Thread : /\ thr'[t] # thr[t]
                                  /\ thr[t].cmd = c
                                  /\ thr[t].client = owner[c]]_vars

(* Every request is answered, whatever ROS and the other threads do.       *)
RequestsAnswered ==
    \A t \in Thread : ~At(t, "idle") ~> At(t, "idle")

(* Every submitted command settles: none stays pending, confirmed or       *)
(* executing for ever and blocks the single job slot.                      *)
EveryCommandSettles ==
    \A c \in Command : lifecycle[c] # "ABSENT" ~> lifecycle[c] \in Terminal

(* The supervisor is never stuck: neither a request nor the job slot waits *)
(* for ever for a robot, an operator or a thread that does not come.       *)
RequestsSettle == RequestsAnswered /\ EveryCommandSettles

-----------------------------------------------------------------------------
(* The inductive invariant behind the properties above.                    *)

(* A thread that has confirmed c and has not concluded it.                 *)
DriverLabels == {"request", "preflight", "send", "awaitAccept", "awaitResult",
                 "dispatched", "conclude"}
BeforeSend == {"request", "preflight", "send"}
BeforeInsert == {"scan", "expire", "assert", "noActiveJob", "review"}
PoseLabels == {"query", "answer"}

PostConfirm == {"CONFIRMED", "EXECUTION_REQUESTED", "EXECUTING",
                "SUCCEEDED", "FAILED", "CANCELLED"}

Drives(t, c) == thr[t].cmd = c /\ thr[t].pc \in DriverLabels

FramesOK ==
    \A t \in Thread :
        /\ thr[t].op \in {"submit", "confirm", "cancel"} => thr[t].cmd \in Command
        /\ thr[t].pc # "idle" => thr[t].op # "none"
        /\ thr[t].pc \notin {"idle", "scan", "expire"} => thr[t].op # "poll"
        /\ thr[t].pc \in {"noActiveJob", "review"} => thr[t].op = "submit"

(* The id of a submission is fresh until its insertion, and after it the   *)
(* record exists.                                                          *)
InsertOnce ==
    /\ \A t \in Thread :
          thr[t].op = "submit" /\ thr[t].pc \in BeforeInsert
              => lifecycle[thr[t].cmd] = "ABSENT"
    /\ \A t, u \in Thread :
          thr[t].op = "submit" /\ thr[u].op = "submit" /\ thr[t].cmd = thr[u].cmd
              => t = u
    /\ \A t \in Thread :
          thr[t].pc \notin BeforeInsert \cup {"idle", "confirmCheck", "cancelCheck"}
              => lifecycle[thr[t].cmd] # "ABSENT"

(* One thread at a time carries a command from confirmation to conclusion, *)
(* and nothing was sent before it sends.                                   *)
OneDriver ==
    /\ \A t \in Thread, c \in Command :
          Drives(t, c) => lifecycle[c] \in PostConfirm
    /\ \A t, u \in Thread, c \in Command :
          Drives(t, c) /\ Drives(u, c) => t = u
    /\ \A t \in Thread, c \in Command :
          Drives(t, c) /\ thr[t].pc \in BeforeSend => sends[c] = 0
    /\ \A c \in Command : sends[c] > 0 => lifecycle[c] \in PostConfirm

(* What the driver reports is what the goal did.                           *)
OutcomeIsReal ==
    /\ \A t \in Thread :
          thr[t].pc \in {"dispatched", "conclude"} /\ thr[t].outcome = "succeeded"
              => goal[thr[t].cmd] = "succeeded"
    /\ \A t \in Thread :
          thr[t].pc \in PoseLabels => kind[thr[t].cmd] = "GET_POSE"
    /\ \A t \in Thread, c \in Command :
          Drives(t, c) /\ kind[c] # "GET_POSE" => lifecycle[c] # "SUCCEEDED"

(* One confirmation owns the way from CONFIRMED to the robot: at any time  *)
(* at most one thread drives a command, only after its confirmation, only  *)
(* once, and it reports what the goal did.                                 *)
DispatchInv ==
    /\ FramesOK
    /\ InsertOnce
    /\ OneDriver
    /\ OutcomeIsReal
    /\ AtMostOneGoal
    /\ SucceededIsReal
    /\ HandleHasWaiter

-----------------------------------------------------------------------------
(* abort_command answers "cancelled before any ROS execution request" when *)
(* it finds no goal handle: no goal may be sent for that command.          *)
CancelledBeforeDispatch == \A c \in abortSkipped : sends[c] = 0

(* A settled command reports the same outcome in lifecycleState and in     *)
(* finalState once no request is in progress.                              *)
FinalStateAgrees ==
    (\A t \in Thread : At(t, "idle")) =>
        \A c \in Command :
            lifecycle[c] \in Terminal => finalState[c] = lifecycle[c]

(* A new submission is refused while a command is pending or executing.    *)
OneJobAtATime ==
    \A c, d \in Command :
        (lifecycle[c] \notin Terminal \cup {"ABSENT"}
            /\ lifecycle[d] \notin Terminal \cup {"ABSENT"}) => c = d
=============================================================================
