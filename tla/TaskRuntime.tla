------------------------------ MODULE TaskRuntime ------------------------------
(***************************************************************************)
(* The FactoryTask runtime of llm_gateway: confirmed task trees, run node  *)
(* by node by the service threads of the gateway, with their motions sent  *)
(* to ExecuteMotion (task_runtime.py, runtime_dispatch.py and the confirm  *)
(* service of llm_gateway_node.py), and the HMI that waits for the answer. *)
(*                                                                         *)
(* A run is one call of /supervisor/confirm_execution.  Several may be in  *)
(* progress: the callback group is reentrant and the HMI stops waiting     *)
(* after DEFAULT_CONFIRM_EXECUTION_TIMEOUT_SEC or when its operator        *)
(* cancels, which the gateway does not notice.  Replanning is left out: no *)
(* skill executor of the gateway requests it.                              *)
(***************************************************************************)
EXTENDS Integers, Sequences, FiniteSets

CONSTANTS
    Run,        \* the calls of the confirm service, numbered as they come
    NoRun,      \* the HMI waits for no run
    Root,       \* the root nodes of the tasks that a run may be asked for
    Node,       \* the nodes of the tasks; children have greater numbers
    Type,       \* TaskNode.type
    Kids,       \* TaskNode.children
    Count,      \* TaskNode.count of repeat and retry
    Motions,    \* how many motion commands a skill is routed to; 0: a query
    MaxItems,   \* bound on the members of a collection
    MaxLeft     \* bound on the unanswered goals that a run leaves behind

ASSUME TaskAssumption ==
    /\ Run \subseteq Nat /\ NoRun \notin Run
    /\ Node \subseteq Nat /\ Root \in [Run -> (SUBSET Node) \ {{}}]
    /\ Type \in [Node -> {"skill", "sequence", "repeat", "retry", "fallback", "for_each"}]
    /\ Kids \in [Node -> Seq(Node)]
    /\ \A n \in Node : \A i \in DOMAIN Kids[n] : Kids[n][i] > n
    /\ \A m, n \in Node : \A i \in DOMAIN Kids[m], j \in DOMAIN Kids[n] :
          Kids[m][i] = Kids[n][j] => m = n /\ i = j
    /\ \E last \in Node : \A n \in Node : n <= last
    /\ \A n \in Node : Type[n] = "skill" <=> Kids[n] = <<>>
    /\ Count \in [Node -> Nat] /\ Motions \in [Node -> Nat]
    /\ MaxItems \in Nat /\ MaxLeft \in Nat

VARIABLES
    stopFlag,   \* _runtime_stop_flag of the node, shared by all runs
    pc,         \* where the thread of a run is
    cursor,     \* the node it enters or runs
    stack,      \* the composite nodes around it: [node, child, round]
    result,     \* RuntimeStepResult.success of what it just finished
    command,    \* commands of the skill that are done
    items,      \* the size of the collection of for_each, as of the confirmation
    goals,      \* ExecuteMotion goals that are not forgotten: [run, seq, state]
    sent,       \* how many goals a run has sent
    waiting,    \* the run whose answer the HMI waits for
    attempts,   \* attempts_by_skill, summed up
    won,        \* goals that did succeed since the current skill began
    achieved,   \* the skills whose latest execution moved the robot as asked
    late,       \* goals sent since the stop flag was last raised
    saw         \* runs that met the stop flag and nobody cleared it since

control == <<pc, cursor, stack, result, command, items>>
ghosts == <<attempts, won, achieved, late, saw>>
vars == <<stopFlag, pc, cursor, stack, result, command, items, goals, sent,
          waiting, attempts, won, achieved, late, saw>>

Labels == {"new", "enter", "compile", "query", "validate", "check",
           "send", "accept", "recheck", "result", "return", "done"}
Frame == [node : Node, child : Nat, round : Nat]
Goal == [run : Run, seq : Nat,
         state : {"sent", "rejected", "running", "canceling", "stopped",
                  "succeeded", "failed"}]

Rounds(r, n) ==
    IF Type[n] \in {"repeat", "retry"} THEN Count[n]
    ELSE IF Type[n] = "for_each" THEN items[r]
    ELSE 1

TypeOK ==
    /\ stopFlag \in BOOLEAN
    /\ pc \in [Run -> Labels]
    /\ cursor \in [Run -> Node]
    /\ stack \in [Run -> Seq(Frame)]
    /\ \A r \in Run : \A i \in DOMAIN stack[r] :
          /\ stack[r][i].child \in DOMAIN Kids[stack[r][i].node]
          /\ stack[r][i].round \in 1..Rounds(r, stack[r][i].node)
    /\ result \in [Run -> BOOLEAN]
    /\ command \in [Run -> Nat] /\ items \in [Run -> 0..MaxItems]
    /\ goals \subseteq Goal
    /\ sent \in [Run -> Nat] /\ attempts \in [Run -> Nat]
    /\ won \in [Run -> Nat] /\ late \in [Run -> Nat]
    /\ waiting \in Run \cup {NoRun}
    /\ achieved \in [Run -> SUBSET Node]
    /\ saw \subseteq Run

Init ==
    /\ stopFlag = FALSE
    /\ pc = [r \in Run |-> "new"]
    /\ cursor = [r \in Run |-> CHOOSE n \in Root[r] : TRUE]
    /\ stack = [r \in Run |-> <<>>]
    /\ result = [r \in Run |-> FALSE]
    /\ command = [r \in Run |-> 0]
    /\ items = [r \in Run |-> 0]
    /\ goals = {}
    /\ sent = [r \in Run |-> 0]
    /\ waiting = NoRun
    /\ attempts = [r \in Run |-> 0] /\ won = [r \in Run |-> 0]
    /\ achieved = [r \in Run |-> {}]
    /\ late = [r \in Run |-> 0]
    /\ saw = {}

-----------------------------------------------------------------------------
(* The confirmation of a task, one at a time as far as the HMI knows.      *)

UsesCollection ==
    LET U[n \in Node] ==
          Type[n] = "for_each" \/ \E i \in DOMAIN Kids[n] : U[Kids[n][i]]
    IN  U

(* The collection of for_each is taken from the world model of this moment.*)
ConfirmFactoryTask(r) ==
    /\ pc[r] = "new" /\ waiting = NoRun
    /\ \A q \in Run : q < r => pc[q] # "new"
    /\ waiting' = r
    /\ stopFlag' = FALSE
    /\ late' = [x \in Run |-> 0]
    /\ saw' = {}
    /\ \E root \in Root[r], size \in 0..MaxItems :
          /\ size > 0 => UsesCollection[root]
          /\ cursor' = [cursor EXCEPT ![r] = root]
          /\ items' = [items EXCEPT ![r] = size]
    /\ pc' = [pc EXCEPT ![r] = "enter"]
    /\ UNCHANGED <<stack, result, command, goals, sent, attempts, won, achieved>>

(* confirm_execution times out, or cancel_command finds no goal handle and *)
(* marks the command CANCELLED.                                            *)
GiveUpWaiting ==
    /\ waiting # NoRun
    /\ waiting' = NoRun
    /\ UNCHANGED <<stopFlag, control, goals, sent, ghosts>>

(* _state_robot_status_callback with an error or an emergency stop.        *)
FaultReported ==
    /\ ~stopFlag
    /\ stopFlag' = TRUE
    /\ UNCHANGED <<control, goals, sent, waiting, ghosts>>

-----------------------------------------------------------------------------
(* TaskRuntime._run_node                                                   *)

Finish(r, ok) ==
    /\ result' = [result EXCEPT ![r] = ok]
    /\ pc' = [pc EXCEPT ![r] = "return"]

Saw(r) == saw' = IF stopFlag THEN saw \cup {r} ELSE saw

IsStopped == stopFlag

Top(r) == stack[r][Len(stack[r])]

(* The composite node is done: its own result goes to the node around it.  *)
Pop(r) ==
    /\ stack' = [stack EXCEPT ![r] = SubSeq(@, 1, Len(@) - 1)]
    /\ cursor' = [cursor EXCEPT ![r] = Top(r).node]
    /\ UNCHANGED pc

EnterNode(r) ==
    LET n == cursor[r] IN
    /\ pc[r] = "enter"
    /\ \/ IsStopped /\ Finish(r, FALSE) /\ UNCHANGED <<cursor, stack, attempts, achieved>>
       \/ /\ ~IsStopped /\ Type[n] = "skill"
          /\ attempts' = [attempts EXCEPT ![r] = @ + 1]
          /\ achieved' = [achieved EXCEPT ![r] = @ \ {n}]
          /\ pc' = [pc EXCEPT ![r] = "compile"]
          /\ UNCHANGED <<cursor, stack, result>>
       \/ /\ ~IsStopped /\ Type[n] # "skill" /\ Rounds(r, n) > 0
          /\ stack' = [stack EXCEPT ![r] = Append(@, [node |-> n, child |-> 1, round |-> 1])]
          /\ cursor' = [cursor EXCEPT ![r] = Kids[n][1]]
          /\ UNCHANGED <<pc, result, attempts, achieved>>
       \/ /\ ~IsStopped /\ Type[n] # "skill" /\ Rounds(r, n) = 0
          /\ Finish(r, Type[n] # "retry")
          /\ UNCHANGED <<cursor, stack, attempts, achieved>>
    /\ Saw(r)
    /\ UNCHANGED <<stopFlag, command, items, goals, sent, waiting, won, late>>

(* The next child of the composite node, or its next round.                *)
Resume(r, child, round) ==
    LET n == Top(r).node IN
    /\ stack' = [stack EXCEPT ![r][Len(stack[r])] =
                    [node |-> n, child |-> child, round |-> round]]
    /\ cursor' = [cursor EXCEPT ![r] = Kids[n][child]]
    /\ pc' = [pc EXCEPT ![r] = "enter"]

LastChild(r) == Top(r).child = Len(Kids[Top(r).node])

LastRound(r) == Top(r).round = Rounds(r, Top(r).node)

(* A child succeeded: _run_children, and the loops around it.              *)
AfterSuccess(r) ==
    LET type == Type[Top(r).node] IN
    IF type = "fallback" THEN Pop(r)
    ELSE IF ~LastChild(r) THEN Resume(r, Top(r).child + 1, Top(r).round)
    ELSE IF type \in {"repeat", "for_each"} /\ ~LastRound(r)
         THEN Resume(r, 1, Top(r).round + 1)
    ELSE Pop(r)

AfterFailure(r) ==
    LET type == Type[Top(r).node] IN
    IF type = "fallback" /\ ~LastChild(r)
    THEN Resume(r, Top(r).child + 1, Top(r).round)
    ELSE IF type = "retry" /\ ~LastRound(r) THEN Resume(r, 1, Top(r).round + 1)
    ELSE Pop(r)

ReturnToParent(r) ==
    /\ pc[r] = "return" /\ stack[r] # <<>>
    /\ IF result[r] THEN AfterSuccess(r) ELSE AfterFailure(r)
    /\ UNCHANGED <<stopFlag, result, command, items, goals, sent, waiting, ghosts>>

(* The report of the root is the answer of the service; what was local to  *)
(* the run is gone.                                                        *)
AnswerConfirmation(r) ==
    /\ pc[r] = "return" /\ stack[r] = <<>>
    /\ pc' = [pc EXCEPT ![r] = "done"]
    /\ waiting' = IF waiting = r THEN NoRun ELSE waiting
    /\ items' = [items EXCEPT ![r] = 0]
    /\ attempts' = [attempts EXCEPT ![r] = 0]
    /\ achieved' = [achieved EXCEPT ![r] = {}]
    /\ late' = [late EXCEPT ![r] = 0]
    /\ UNCHANGED <<stopFlag, cursor, stack, result, command, goals, sent, won, saw>>

-----------------------------------------------------------------------------
(* A skill: ground its object, compile it, then validate and run its       *)
(* commands one by one.  An exception is a failed step.                    *)

EndSkill(r, ok) ==
    /\ Finish(r, ok)
    /\ achieved' = IF ok /\ won[r] = Motions[cursor[r]]
                   THEN [achieved EXCEPT ![r] = @ \cup {cursor[r]}] ELSE achieved
    /\ won' = [won EXCEPT ![r] = 0]
    /\ command' = [command EXCEPT ![r] = 0]

Proceed(r, label) ==
    /\ pc' = [pc EXCEPT ![r] = label]
    /\ UNCHANGED <<result, achieved, won, command>>

(* _prime_factory_task_world_model, TaskCompiler and IntentRouter: the     *)
(* skill cannot be grounded, or it yields its commands.                    *)
CompileSkill(r) ==
    /\ pc[r] = "compile"
    /\ \/ EndSkill(r, FALSE)
       \/ Proceed(r, IF Motions[cursor[r]] = 0 THEN "query" ELSE "validate")
    /\ UNCHANGED <<stopFlag, cursor, stack, items, goals, sent, waiting,
                   attempts, late, saw>>

(* GET_POSE and verify_grasp: nothing moves.                               *)
RunQuery(r) ==
    /\ pc[r] = "query"
    /\ \E ok \in BOOLEAN : EndSkill(r, ok)
    /\ UNCHANGED <<stopFlag, cursor, stack, items, goals, sent, waiting,
                   attempts, late, saw>>

(* The schema, normalisation and /validate_command.                        *)
ValidateRuntimeCommand(r) ==
    /\ pc[r] = "validate"
    /\ \/ EndSkill(r, FALSE)
       \/ Proceed(r, "check")
    /\ UNCHANGED <<stopFlag, cursor, stack, items, goals, sent, waiting,
                   attempts, late, saw>>

-----------------------------------------------------------------------------
(* dispatch_and_await                                                      *)

Mine(r) == {g \in goals : g.run = r /\ g.seq = sent[r]}
Become(g, state) == goals' = (goals \ {g}) \cup {[g EXCEPT !.state = state]}
Concluded == {"rejected", "succeeded", "failed"}
Forget(r) == goals' = {g \in goals : g.run # r \/ g.state \notin Concluded}

(* A goal that is not awaited any longer may still run; one more than      *)
(* MaxLeft is taken to be lost.                                            *)
Leave(r) ==
    IF Cardinality({g \in goals : g.run = r} \ Mine(r)) < MaxLeft THEN Forget(r)
    ELSE goals' = goals \ Mine(r)

CheckBeforeSend(r) ==
    /\ pc[r] = "check"
    /\ \/ EndSkill(r, FALSE)      \* stopped, or the action server is not ready
       \/ ~IsStopped /\ Proceed(r, "send")
    /\ Saw(r)
    /\ UNCHANGED <<stopFlag, cursor, stack, items, goals, sent, waiting,
                   attempts, late>>

SendGoal(r) ==
    /\ pc[r] = "send"
    /\ sent' = [sent EXCEPT ![r] = @ + 1]
    /\ goals' = goals \cup {[run |-> r, seq |-> sent[r] + 1, state |-> "sent"]}
    /\ late' = IF stopFlag THEN [late EXCEPT ![r] = @ + 1] ELSE late
    /\ pc' = [pc EXCEPT ![r] = "accept"]
    /\ UNCHANGED <<stopFlag, cursor, stack, result, command, items, waiting,
                   attempts, won, achieved, saw>>

(* A goal that is not answered in time is neither cancelled nor awaited.   *)
AwaitAccept(r) ==
    /\ pc[r] = "accept"
    /\ \/ EndSkill(r, FALSE) /\ Leave(r)
       \/ /\ \E g \in Mine(r) : g.state \notin {"sent", "rejected"}
          /\ Proceed(r, "recheck") /\ UNCHANGED goals
    /\ UNCHANGED <<stopFlag, cursor, stack, items, sent, waiting,
                   attempts, late, saw>>

(* Mutant: an accepted goal is awaited whatever happened meanwhile.        *)
AwaitAtOnce(r) ==
    /\ pc[r] = "recheck"
    /\ pc' = [pc EXCEPT ![r] = "result"]
    /\ UNCHANGED <<stopFlag, cursor, stack, result, command, items, goals, sent,
                   waiting, ghosts>>

CheckAfterAccept(r) ==
    /\ pc[r] = "recheck"
    /\ \/ /\ IsStopped
          /\ \E g \in Mine(r) :
                IF g.state = "running" THEN Become(g, "canceling")
                ELSE IF g.state \in Concluded THEN Forget(r) ELSE UNCHANGED goals
          /\ EndSkill(r, FALSE)
       \/ /\ ~IsStopped
          /\ Proceed(r, "result") /\ UNCHANGED goals
    /\ Saw(r)
    /\ UNCHANGED <<stopFlag, cursor, stack, items, sent, waiting,
                   attempts, late>>

NextCommand(r) ==
    IF command[r] + 1 = Motions[cursor[r]] THEN EndSkill(r, TRUE)
    ELSE /\ command' = [command EXCEPT ![r] = @ + 1]
         /\ pc' = [pc EXCEPT ![r] = "validate"]
         /\ UNCHANGED <<result, achieved, won>>

(* Mutant: a motion that does not answer in time counts as done.           *)
AwaitResultOrAssume(r) ==
    /\ pc[r] = "result"
    /\ NextCommand(r) /\ Leave(r)
    /\ UNCHANGED <<stopFlag, cursor, stack, items, sent, waiting,
                   attempts, late, saw>>

(* Mutant: the result is awaited without a timeout.                        *)
AwaitResultForever(r) ==
    /\ pc[r] = "result"
    /\ \E g \in Mine(r) :
          \/ g.state = "succeeded" /\ NextCommand(r)
          \/ g.state = "failed" /\ EndSkill(r, FALSE)
    /\ Forget(r)
    /\ UNCHANGED <<stopFlag, cursor, stack, items, sent, waiting,
                   attempts, late, saw>>

AwaitResult(r) ==
    /\ pc[r] = "result"
    /\ \/ EndSkill(r, FALSE) /\ Leave(r)             \* failed, or timed out
       \/ (\E g \in Mine(r) : g.state = "succeeded") /\ NextCommand(r) /\ Forget(r)
    /\ UNCHANGED <<stopFlag, cursor, stack, items, sent, waiting,
                   attempts, late, saw>>

-----------------------------------------------------------------------------
(* The ExecuteMotion server: one goal moves the robot, others fail.        *)

(* A result that nobody waits for any more is forgotten.                   *)
Conclude(g, state) ==
    IF pc[g.run] \in {"accept", "recheck", "result"} /\ g \in Mine(g.run)
    THEN /\ Become(g, state)
         /\ won' = IF state = "succeeded" THEN [won EXCEPT ![g.run] = @ + 1] ELSE won
    ELSE goals' = goals \ {g} /\ UNCHANGED won

ServerAnswers(g) ==
    /\ g.state = "sent"
    /\ \/ Conclude(g, "rejected")
       \/ /\ \A h \in goals : h.state \notin {"running", "canceling"}
          /\ Become(g, "running") /\ UNCHANGED won
       \/ /\ \E h \in goals : h.state \in {"running", "canceling"}
          /\ Conclude(g, "failed")
    /\ UNCHANGED <<stopFlag, control, sent, waiting, attempts, achieved, late, saw>>

ServerEnds(g) ==
    /\ g.state \in {"running", "canceling", "stopped"}
    /\ \E state \in {"succeeded", "failed"} :
          (g.state = "stopped" => state = "failed") /\ Conclude(g, state)
    /\ UNCHANGED <<stopFlag, control, sent, waiting, attempts, achieved, late, saw>>

(* The operator's STOP goes to motion_core and halts what is moving.       *)
OperatorStop(g) ==
    /\ g.state = "running"
    /\ Become(g, "stopped")
    /\ UNCHANGED <<stopFlag, control, sent, waiting, ghosts>>

-----------------------------------------------------------------------------
RunStep(r) ==
    \/ EnterNode(r) \/ ReturnToParent(r) \/ AnswerConfirmation(r)
    \/ CompileSkill(r) \/ RunQuery(r)
    \/ ValidateRuntimeCommand(r) \/ CheckBeforeSend(r) \/ SendGoal(r)
    \/ AwaitAccept(r) \/ CheckAfterAccept(r) \/ AwaitResult(r)

Next ==
    \/ \E r \in Run : ConfirmFactoryTask(r) \/ RunStep(r)
    \/ GiveUpWaiting
    \/ FaultReported
    \/ \E g \in goals : ServerAnswers(g) \/ ServerEnds(g) \/ OperatorStop(g)

Spec == Init /\ [][Next]_vars

(* The threads of the gateway keep running; every wait has a timeout.      *)
FairSpec == Spec /\ \A r \in Run : WF_vars(RunStep(r))

-----------------------------------------------------------------------------
(* What the latest executions of its skills say of a node: the meaning of  *)
(* the composite nodes, written without the machine that runs them.        *)
Meaning(r, n, A) ==
    CASE Type[n] = "skill" -> n \in achieved[r]
      [] Type[n] = "fallback" -> \E i \in DOMAIN Kids[n] : A[Kids[n][i]]
      [] OTHER -> Rounds(r, n) = 0 \/ \A i \in DOMAIN Kids[n] : A[Kids[n][i]]

Achieved(r) == LET A[n \in Node] == Meaning(r, n, A) IN A

(* The number of skill executions a task may ever need: of the first       *)
(* children of a node, of a node, of all.                                  *)
Spent(n, B) ==
    LET sum[i \in 0..Len(Kids[n])] ==
          IF i = 0 THEN 0 ELSE sum[i - 1] + B[Kids[n][i]]
    IN  sum

Need(r, n, B) ==
    IF Type[n] = "skill" THEN 1 ELSE Rounds(r, n) * Spent(n, B)[Len(Kids[n])]

Budget(r) == LET B[n \in Node] == Need(r, n, B) IN B

TaskOf(r) == IF stack[r] = <<>> THEN cursor[r] ELSE stack[r][1].node

(* A node that reports success has been achieved: every motion that its    *)
(* latest pass asked for was carried out, whatever was retried, fell back, *)
(* timed out or was stopped on the way.                                    *)
SuccessIsEarned ==
    \A r \in Run : pc[r] = "return" /\ result[r] => Achieved(r)[cursor[r]]

(* Retries, rounds and fallbacks do not run more skills than the confirmed *)
(* task contains.                                                          *)
WithinBudget == \A r \in Run : attempts[r] <= Budget(r)[TaskOf(r)]

(* Once the stop flag is up a run sends at most the one goal it had        *)
(* already checked for, and does not wait for it.                          *)
OneLateGoal ==
    \A r \in Run : late[r] <= 1 /\ (stopFlag /\ late[r] = 1 => pc[r] # "result")

(* A run that met the stop flag fails, unless a later confirmation has     *)
(* cleared the flag.                                                       *)
StopFails == \A r \in saw : pc[r] \in {"return", "done"} => ~result[r]

(* An operator STOP ends the task: with a motion of it halted, the check   *)
(* before the next goal is not passed.                                     *)
StopEndsTask ==
    [][\A g \in goals : g.state = "stopped" /\ pc[g.run] = "check"
                            => pc'[g.run] # "send"]_vars

(* Every confirmed task is answered, whatever the robot does.              *)
TasksAnswered == \A r \in Run : pc[r] = "enter" ~> pc[r] = "done"

(* A task does what was confirmed: all of it when it reports success, and  *)
(* never more of it.                                                       *)
RunsTheTask == TypeOK /\ SuccessIsEarned /\ WithinBudget

(* A fault ends the tasks that it meets, and they report it.               *)
FaultEndsTasks == OneLateGoal /\ StopFails
=============================================================================
