--------------------------- MODULE ExecutionMonitor ---------------------------
(***************************************************************************)
(* The execution monitor of the ROS supervisor (execution_monitor.cpp): it *)
(* overhears the ExecuteMotion goals of one client, warns when a goal takes*)
(* longer than its velocity allows and counts failures in a row.           *)
(*                                                                         *)
(* Its callbacks share the default callback group of the node and never    *)
(* run at once.  They are called in the order of the subscriptions when    *)
(* several messages are waiting: a request or a response may overtake a    *)
(* status, never the reverse.                                              *)
(***************************************************************************)
EXTENDS Integers, Sequences, FiniteSets

CONSTANTS
    Goal,           \* goals in the order in which they are sent
    Allowed,        \* allowed_duration_sec of a goal, after its velocity scale
    DefaultAllowed, \* that of a goal of velocity scale 1
    MaxTime,        \* bound of the clock
    MaxBus          \* bound of the messages under way

None == 0

\* Of the constants; the module that checks this one assumes it.
MonitorAssumption ==
    /\ Cardinality(Goal) \in Nat /\ Goal = 1..Cardinality(Goal)
    /\ DefaultAllowed \in Nat /\ MaxTime \in Nat /\ MaxBus \in Nat
    /\ Allowed \in [Goal -> Nat] /\ \A g \in Goal : Allowed[g] >= DefaultAllowed

VARIABLES
    now,        \* the clock
    server,     \* the state of each goal at the action server
    accepted,   \* when the server accepted it
    bus,        \* messages that the monitor did not hear yet
    state,      \* state_ between callbacks
    pending,    \* pending_goal_
    active,     \* active_goal_
    failures,   \* consecutive_failure_count
    alert,      \* last_alert_message
    successes,  \* how often a goal was reported completed successfully
    defeats,    \* how often a goal was reported failed
    early       \* goals warned of before their time

world == <<now, server, accepted>>
vars == <<now, server, accepted, bus, state, pending, active, failures, alert,
          successes, defeats, early>>

Active == {"accepted", "executing", "canceling"}
Terminal == {"succeeded", "canceled", "aborted"}

Untracked == [goal |-> None, since |-> 0, allowed |-> 0, warned |-> FALSE]
TrackedGoal == [goal : Goal, since : 0..MaxTime,
                allowed : {DefaultAllowed} \cup {Allowed[g] : g \in Goal},
                warned : BOOLEAN]

TypeOK ==
    /\ now \in 0..MaxTime
    /\ server \in [Goal -> {"new", "requested", "rejected"} \cup Active \cup Terminal]
    /\ accepted \in [Goal -> 0..MaxTime]
    /\ Len(bus) <= MaxBus
    /\ state \in {"IDLE", "EXECUTING"}
    /\ pending \in Goal \cup {None}
    /\ active \in TrackedGoal \cup {Untracked}
    /\ state = "EXECUTING" <=> active # Untracked
    /\ failures \in Nat
    /\ alert \in {"idle", "completed", "failed", "threshold", "overdue"}
    /\ successes \in [Goal -> Nat] /\ defeats \in [Goal -> Nat]
    /\ early \subseteq Goal

Init ==
    /\ now = 0
    /\ server = [g \in Goal |-> "new"]
    /\ accepted = [g \in Goal |-> 0]
    /\ bus = <<>>
    /\ state = "IDLE" /\ pending = None /\ active = Untracked
    /\ failures = 0 /\ alert = "idle"
    /\ successes = [g \in Goal |-> 0] /\ defeats = [g \in Goal |-> 0]
    /\ early = {}

-----------------------------------------------------------------------------
(* The client and the action server, with what they put on the bus.        *)

monitor == <<state, pending, active, failures, alert, successes, defeats, early>>

Send(messages) == Len(bus) + Len(messages) <= MaxBus /\ bus' = bus \o messages

Status(s) == [kind |-> "status", list |-> s]

RequestGoal(g) ==
    /\ server[g] = "new"
    /\ \A h \in Goal : h < g => server[h] \in Terminal \cup {"rejected"}
    /\ server' = [server EXCEPT ![g] = "requested"]
    /\ Send(<<[kind |-> "request", goal |-> g]>>)
    /\ UNCHANGED <<now, accepted, monitor>>

AnswerGoal(g) ==
    /\ server[g] = "requested"
    /\ \/ /\ server' = [server EXCEPT ![g] = "rejected"]
          /\ Send(<<[kind |-> "response", ok |-> FALSE, stamp |-> now]>>)
          /\ UNCHANGED accepted
       \/ /\ server' = [server EXCEPT ![g] = "accepted"]
          /\ accepted' = [accepted EXCEPT ![g] = now]
          /\ Send(<<[kind |-> "response", ok |-> TRUE, stamp |-> now], Status(server')>>)
    /\ UNCHANGED <<now, monitor>>

ProceedGoal(g) ==
    /\ \E s \in Active \cup Terminal :
          /\ \/ <<server[g], s>> \in {<<"accepted", "executing">>, <<"executing", "canceling">>}
             \/ server[g] \in {"executing", "canceling"} /\ s \in Terminal
          /\ server' = [server EXCEPT ![g] = s]
          /\ Send(<<Status(server')>>)
    /\ UNCHANGED <<now, accepted, monitor>>

Tick == now < MaxTime /\ now' = now + 1 /\ UNCHANGED <<server, accepted, bus, monitor>>

-----------------------------------------------------------------------------
(* What the monitor hears next.                                            *)

Deliverable(i) ==
    \A j \in 1..(i - 1) : bus[j].kind = "status" /\ bus[i].kind # "status"

Heard(i) ==
    /\ Deliverable(i)
    /\ bus' = SubSeq(bus, 1, i - 1) \o SubSeq(bus, i + 1, Len(bus))
    /\ UNCHANGED <<world, early>>

Track(g, since, allowed) ==
    [goal |-> g, since |-> since, allowed |-> allowed, warned |-> FALSE]

(* promote_pending_goal_to_active                                          *)
Promoted(since) == Track(pending, since, Allowed[pending])

(* finalize_goal: the state is SUCCESS or FAILED while it publishes.       *)
FinalizeGoal(g, ok) ==
    /\ IF ok
       THEN /\ successes' = [successes EXCEPT ![g] = @ + 1]
            /\ failures' = 0 /\ alert' = "completed" /\ UNCHANGED defeats
       ELSE /\ defeats' = [defeats EXCEPT ![g] = @ + 1]
            /\ failures' = failures + 1
            /\ alert' = IF failures' >= 3 THEN "threshold" ELSE "failed"
            /\ UNCHANGED successes
    /\ state' = "IDLE" /\ active' = Untracked /\ pending' = None

SendGoalRequest(i) ==
    /\ bus[i].kind = "request" /\ Heard(i)
    /\ pending' = bus[i].goal
    /\ UNCHANGED <<state, active, failures, alert, successes, defeats>>

SendGoalResponse(i) ==
    /\ bus[i].kind = "response" /\ Heard(i)
    /\ \/ /\ pending = None
          /\ UNCHANGED <<state, pending, active, failures, alert, successes, defeats>>
       \/ /\ pending # None /\ bus[i].ok
          /\ active' = Promoted(bus[i].stamp)
          /\ pending' = None /\ state' = "EXECUTING"
          /\ UNCHANGED <<failures, alert, successes, defeats>>
       \/ /\ pending # None /\ ~bus[i].ok
          /\ FinalizeGoal(IF active = Untracked THEN pending ELSE active.goal, FALSE)

(* The list of a status message is read in order until the tracked goal is *)
(* found to have ended; s is what was made of the goals before g.          *)
Look(s, g, list) ==
    LET t == IF s.pending = g /\ list[g] \in Active
             THEN [s EXCEPT !.pending = None, !.active = Promoted(now)]
             ELSE IF s.active = Untracked /\ list[g] \in Active
             THEN [s EXCEPT !.active = Track(g, now, DefaultAllowed)]
             ELSE s
    IN  IF s.done THEN s
        ELSE [t EXCEPT !.done = t.active.goal = g /\ list[g] \in Terminal]

Scan(list) ==
    LET S[g \in 0..Cardinality(Goal)] ==
          IF g = 0 THEN [pending |-> pending, active |-> active, done |-> FALSE]
          ELSE Look(S[g - 1], g, list)
    IN  S[Cardinality(Goal)]

(* Mutant: goals that are heard of by their status alone are not tracked.  *)
ScanTracked(list) ==
    [pending |-> pending, active |-> active,
     done |-> active # Untracked /\ list[active.goal] \in Terminal]

(* What the monitor makes of a status message.                             *)
Reading(list) == Scan(list)

HearStatus(i) ==
    /\ bus[i].kind = "status" /\ Heard(i)
    /\ LET s == Reading(bus[i].list) IN
       IF s.done
       THEN FinalizeGoal(s.active.goal, bus[i].list[s.active.goal] = "succeeded")
       ELSE /\ pending' = s.pending /\ active' = s.active
            /\ state' = IF s.active = Untracked THEN state ELSE "EXECUTING"
            /\ UNCHANGED <<failures, alert, successes, defeats>>

Overdue == now - active.since > active.allowed

CheckTimeout ==
    /\ active # Untracked /\ ~active.warned /\ Overdue
    /\ active' = [active EXCEPT !.warned = TRUE]
    /\ alert' = "overdue"
    /\ early' = IF now - accepted[active.goal] > DefaultAllowed THEN early
                ELSE early \cup {active.goal}
    /\ UNCHANGED <<world, bus, state, pending, failures, successes, defeats>>

PublishHeartbeat ==
    /\ alert' = IF state = "IDLE" THEN "idle" ELSE alert
    /\ UNCHANGED <<world, bus, state, pending, active, failures, successes, defeats, early>>

-----------------------------------------------------------------------------
Deliver ==
    \E i \in DOMAIN bus : SendGoalRequest(i) \/ SendGoalResponse(i) \/ HearStatus(i)

Next ==
    \/ \E g \in Goal : RequestGoal(g) \/ AnswerGoal(g) \/ ProceedGoal(g)
    \/ Tick \/ Deliver \/ CheckTimeout \/ PublishHeartbeat

Spec == Init /\ [][Next]_vars

-----------------------------------------------------------------------------
Ended(g) == server[g] \in Terminal \cup {"rejected"}
Failed == {g \in Goal : server[g] \in {"rejected", "canceled", "aborted"}}

Total(f) ==
    LET sum[g \in 0..Cardinality(Goal)] == IF g = 0 THEN 0 ELSE sum[g - 1] + f[g]
    IN  sum[Cardinality(Goal)]

(* What is reported completed did complete, and is reported once: no       *)
(* message of another goal is taken for its success.                       *)
SuccessIsReal ==
    \A g \in Goal : successes[g] <= 1 /\ (successes[g] = 1 => server[g] = "succeeded")

(* The alerts of failure, whatever goal they name, are no more than the    *)
(* goals that were refused, cancelled or aborted: none is counted twice    *)
(* towards the threshold.                                                  *)
FailuresAreReal ==
    failures <= Total(defeats) /\ Total(defeats) <= Cardinality(Failed)

(* The goal that is tracked as active was accepted by the server.          *)
ActiveWasAccepted == active # Untracked => server[active.goal] \in Active \cup Terminal

(* No goal is called overdue before the shortest allowance has passed since*)
(* the server accepted it, however its messages were delayed.              *)
NoEarlyWarning == early = {}

(* Once every goal has ended and every message was heard nothing is tracked*)
(* any more, and the outcome of the last goal was reported if the server   *)
(* accepted it.                                                            *)
MonitorSettles ==
    bus = <<>> /\ (\A g \in Goal : Ended(g)) =>
        /\ state = "IDLE" /\ pending = None
        /\ \A g \in Goal : (\A h \in Goal : h <= g) =>
              CASE server[g] = "succeeded" -> successes[g] = 1
                [] server[g] = "rejected" -> TRUE
                [] OTHER -> defeats[g] > 0 /\ failures > 0

(* The monitor tells of each goal what became of it, whatever the order in *)
(* which it hears of it.                                                   *)
MonitorIsTruthful ==
    /\ TypeOK /\ SuccessIsReal /\ FailuresAreReal
    /\ ActiveWasAccepted /\ NoEarlyWarning /\ MonitorSettles
=============================================================================
