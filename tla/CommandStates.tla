---------------------------- MODULE CommandStates ----------------------------
(***************************************************************************)
(* The life of a command record (hmi/backend/domain/state_machine.py),     *)
(* shared by single commands, by sequences and by their steps.             *)
(***************************************************************************)

Terminal == {"SUCCEEDED", "FAILED", "REJECTED", "CANCELLED", "EXPIRED"}

Lifecycle ==
    Terminal \cup {"RECEIVED", "PARSING", "VALIDATING", "NEEDS_CONFIRMATION",
                   "CONFIRMED", "EXECUTION_REQUESTED", "EXECUTING"}

(* ALLOWED_COMMAND_TRANSITIONS *)
AllowedTransitions(state) ==
    CASE state = "RECEIVED" -> {"PARSING", "REJECTED", "CANCELLED"}
      [] state = "PARSING" -> {"VALIDATING", "REJECTED", "CANCELLED"}
      [] state = "VALIDATING" ->
            {"NEEDS_CONFIRMATION", "SUCCEEDED", "FAILED", "REJECTED",
             "CANCELLED", "EXPIRED"}
      [] state = "NEEDS_CONFIRMATION" -> {"CONFIRMED", "CANCELLED", "EXPIRED"}
      [] state = "CONFIRMED" -> {"EXECUTION_REQUESTED", "FAILED", "CANCELLED"}
      [] state = "EXECUTION_REQUESTED" -> {"EXECUTING", "FAILED", "CANCELLED"}
      [] state = "EXECUTING" -> {"SUCCEEDED", "FAILED", "CANCELLED"}
      [] OTHER -> {}

-----------------------------------------------------------------------------
(* The ROS side of a command: the goal of ros/command_dispatch.py.         *)

GoalStates == {"none", "sent", "running", "canceling",
               "succeeded", "failed", "cancelled", "rejected"}
GoalDone == {"succeeded", "failed", "cancelled"}

(* execution_result: "blocked" stands for every refusal with                *)
(* dispatchedToRos = False, the others have dispatchedToRos = True.        *)
Outcomes == {"none", "blocked", "succeeded", "failed", "cancelled"}

(* Mutant: whatever ended without a failure counts as a success.           *)
FinalStateUnlessFailed(outcome) ==
    IF outcome \in {"failed", "blocked"} THEN "FAILED" ELSE "SUCCEEDED"

FinalStateOf(outcome) ==
    IF outcome = "succeeded" THEN "SUCCEEDED"
    ELSE IF outcome = "cancelled" THEN "CANCELLED"
    ELSE "FAILED"
=============================================================================
