--------------------------- MODULE DispatchServer ---------------------------
(***************************************************************************)
(* What hw_adapter promises to the clients of its DispatchTrajectory       *)
(* action: one dispatch at a time owns the robot, a dispatch is answered   *)
(* once and only after it gave the robot up, and a dispatch whose          *)
(* cancellation was accepted is answered as canceled.  HwAdapter           *)
(* implements this with threads and flags; MotionCore is built on it.      *)
(***************************************************************************)
CONSTANT Dispatch   \* DispatchTrajectory goals; each is sent once

VARIABLES
    owner,          \* the dispatch that owns the robot: {} or a singleton
    client          \* state of each DispatchTrajectory goal handle

serverVars == <<owner, client>>

ClientStates == {"new", "rejected", "executing", "canceling",
                 "succeeded", "aborted", "canceled"}

ServerTypeOK ==
    /\ owner \in SUBSET Dispatch
    /\ client \in [Dispatch -> ClientStates]

ServerInit ==
    /\ owner = {}
    /\ client = [d \in Dispatch |-> "new"]

Accept(d) ==
    /\ client[d] = "new"
    /\ owner = {}
    /\ owner' = {d}
    /\ client' = [client EXCEPT ![d] = "executing"]

Reject(d) ==
    /\ client[d] = "new"
    /\ client' = [client EXCEPT ![d] = "rejected"]
    /\ UNCHANGED owner

Cancel(d) ==
    /\ client[d] = "executing"
    /\ client' = [client EXCEPT ![d] = "canceling"]
    /\ UNCHANGED owner

(* The trajectory ended, was given up, or the recovery after it ended.     *)
Free(d) ==
    /\ owner = {d}
    /\ owner' = {}
    /\ UNCHANGED client

Answer(d) ==
    /\ d \notin owner
    /\ \/ /\ client[d] = "executing"
          /\ \E state \in {"succeeded", "aborted"} :
                client' = [client EXCEPT ![d] = state]
       \/ /\ client[d] = "canceling"
          /\ client' = [client EXCEPT ![d] = "canceled"]
    /\ UNCHANGED owner

ServerNext ==
    \E d \in Dispatch :
        Accept(d) \/ Reject(d) \/ Cancel(d) \/ Free(d) \/ Answer(d)

ServerSpec == ServerInit /\ [][ServerNext]_serverVars
=============================================================================
