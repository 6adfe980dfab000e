--------------------------- MODULE MotionCore_proofs ---------------------------
(***************************************************************************)
(* motion_core for any number of goals and segments: who owns the          *)
(* orchestrator, and how far a trajectory gets after a STOP.               *)
(***************************************************************************)
EXTENDS MotionCore, TLAPS

(* Before the first goal nothing is owned, sent or answered.               *)
LEMMA InitInvariants == Init => TypeOK /\ OwnerInv /\ SegmentInv /\ SuccessIsReal
<1> SUFFICES ASSUME Init PROVE TypeOK /\ OwnerInv /\ SegmentInv /\ SuccessIsReal
  OBVIOUS
<1> USE NoMotionAssumption, MaxSegmentsAssumption DEF Init, Hw!ServerInit
<1>1. TypeOK
  <2>1. Hw!ServerTypeOK
    BY DEF Hw!ServerTypeOK, Hw!ClientStates
  <2>2. 0 \in 0 .. MaxSegments
    OBVIOUS
  <2> QED
    BY <2>1, <2>2 DEF TypeOK, GoalStates, Labels
<1>2. OwnerInv
  BY DEF OwnerInv, Owning
<1>3. SegmentInv
  BY DEF SegmentInv, Segment, Dispatch, BeforeSegments, InSegments
<1>4. SuccessIsReal
  BY DEF SuccessIsReal
<1> QED
  BY <1>1, <1>2, <1>3, <1>4

(* The worker's dispatch is one, from the first segment on.                *)
LEMMA CurrentIsDispatch ==
    ASSUME TypeOK, SegmentInv, NEW m \in Motion, pc[m] \in InSegments
    PROVE  /\ Current(m) \in Dispatch
           /\ Current(m) = <<m, segment[m]>>
           /\ segment[m] \in Segment
           /\ segment[m] <= total[m] /\ total[m] \in Segment
BY MaxSegmentsAssumption DEF TypeOK, SegmentInv, Current, Dispatch, Segment

(* Every step keeps the types.                                             *)
LEMMA StepTypeOK == TypeOK /\ SegmentInv /\ [Next]_vars => TypeOK'
<1> SUFFICES ASSUME TypeOK, SegmentInv, [Next]_vars PROVE TypeOK'
  OBVIOUS
<1> USE DEF TypeOK, Goto, Answer, GiveUp, orchestrator, plan, wire, server, Labels,
            Owning, Ended, GoalStates
<1>1. ASSUME NEW m \in Motion, HandleGoal(m) \/ HandleCancel(m) PROVE TypeOK'
  BY <1>1 DEF HandleGoal, HandleCancel, Hw!ServerTypeOK
<1>2. ASSUME NEW m \in Motion, RequestStop(m) \/ StopAll(m) PROVE TypeOK'
  BY <1>2 DEF RequestStop, StopAll, Hw!ServerTypeOK
<1>3. ASSUME NEW m \in Motion, BeginGoal(m) \/ GoalStart(m) \/ NonMotion(m) PROVE TypeOK'
  BY <1>3 DEF BeginGoal, GoalStart, NonMotion, Hw!ServerTypeOK
<1>4. ASSUME NEW m \in Motion, PlanMotion(m) PROVE TypeOK'
  BY <1>4, MaxSegmentsAssumption DEF PlanMotion, Segment, Hw!ServerTypeOK
<1>5. ASSUME NEW m \in Motion, PreDispatch(m) \/ DispatchSetup(m) \/ AwaitAccept(m)
      PROVE  TypeOK'
  BY <1>5 DEF PreDispatch, DispatchSetup, AwaitAccept, Hw!ServerTypeOK
<1>6. ASSUME NEW m \in Motion, SendGoal(m) PROVE TypeOK'
  <2>1. Current(m) \in Dispatch
    BY <1>6, CurrentIsDispatch DEF SendGoal, InSegments
  <2> QED
    BY <1>6, <2>1 DEF SendGoal, Hw!ServerTypeOK
<1>7. ASSUME NEW m \in Motion, AwaitResult(m) PROVE TypeOK'
  <2>1. Current(m) \in Dispatch /\ segment[m] \in Segment /\ total[m] \in Segment
    BY <1>7, CurrentIsDispatch DEF AwaitResult, InSegments
  <2>2. segment[m] < total[m] => segment[m] + 1 \in 0 .. MaxSegments
    BY <2>1, MaxSegmentsAssumption DEF Segment
  <2>3. UNCHANGED <<kind, active, stopRequested, sent, cancelAll, late, stopped,
                    client, owner, total>>
    BY <1>7 DEF AwaitResult, NextSegment
  <2>4. cancels' \in SUBSET Dispatch
    BY <1>7, <2>1 DEF AwaitResult, CancelDispatch
  <2>5. goal' \in [Motion -> GoalStates] /\ pc' \in [Motion -> Labels]
    BY <1>7 DEF AwaitResult, NextSegment
  <2>6. segment' \in [Motion -> 0 .. MaxSegments]
    BY <1>7, <2>2 DEF AwaitResult, NextSegment
  <2> QED
    BY <2>3, <2>4, <2>5, <2>6 DEF Hw!ServerTypeOK
<1>8. ASSUME NEW m \in Motion, CancelWithMessage(m) \/ Finish(m) PROVE TypeOK'
  BY <1>8 DEF CancelWithMessage, Finish, Hw!ServerTypeOK
<1>9. ASSUME NEW m \in Motion, HwReceivesCancelAll(m) PROVE TypeOK'
  BY <1>9 DEF HwReceivesCancelAll, Hw!ServerTypeOK
<1>10. ASSUME NEW d \in Dispatch, HwReceivesGoal(d) PROVE TypeOK'
  BY <1>10 DEF HwReceivesGoal, Hw!Accept, Hw!Reject, Hw!ServerTypeOK, Hw!ClientStates
<1>11. ASSUME NEW d \in Dispatch, HwReceivesCancel(d) PROVE TypeOK'
  BY <1>11 DEF HwReceivesCancel, Hw!Cancel, Hw!ServerTypeOK, Hw!ClientStates
<1>12. ASSUME NEW d \in Dispatch, HwRuns(d) PROVE TypeOK'
  BY <1>12 DEF HwRuns, Hw!Free, Hw!Answer, Hw!ServerTypeOK, Hw!ClientStates
<1>13. CASE UNCHANGED vars
  BY <1>13 DEF vars, Hw!ServerTypeOK
<1> QED
  BY <1>1, <1>2, <1>3, <1>4, <1>5, <1>6, <1>7, <1>8, <1>9, <1>10, <1>11, <1>12, <1>13
  DEF Next, WorkerStep

-----------------------------------------------------------------------------
(* A worker that moves inside Owning, or outside of it, does not change    *)
(* the owner.                                                              *)
LEMMA MoveKeepsOwner ==
    ASSUME TypeOK, OwnerInv, NEW m \in Motion, NEW label, Goto(m, label),
           UNCHANGED <<active, stopRequested, stopped>>,
           pc[m] \in Owning <=> label \in Owning,
           pc[m] \in Ended => label \in Ended
    PROVE  OwnerInv'
<1>1. \A n \in Motion : pc'[n] = IF n = m THEN label ELSE pc[n]
  BY DEF Goto, TypeOK
<1>2. \A n \in Motion : pc'[n] \in Owning <=> active = n
  BY <1>1 DEF OwnerInv
<1>3. \A n \in stopped : pc'[n] \in Owning \cup Ended
  BY <1>1 DEF OwnerInv, TypeOK
<1> QED
  BY <1>2, <1>3 DEF OwnerInv

(* Every step keeps the orchestrator's bookkeeping.                        *)
LEMMA StepOwnerInv ==
    TypeOK /\ OwnerInv /\ SegmentInv /\ [Next]_vars => OwnerInv'
<1> SUFFICES ASSUME TypeOK, OwnerInv, SegmentInv, [Next]_vars PROVE OwnerInv'
  OBVIOUS
<1> USE DEF orchestrator
<1>1. ASSUME NEW m \in Motion, HandleGoal(m) PROVE OwnerInv'
  <2> USE DEF Owning, Ended
  <2>1. UNCHANGED <<active, stopRequested, stopped>>
    BY <1>1 DEF HandleGoal
  <2>2. \A n \in Motion : /\ pc'[n] \in Owning <=> pc[n] \in Owning
                          /\ pc[n] \in Ended => pc'[n] \in Ended
    BY <1>1 DEF HandleGoal, TypeOK, SegmentInv
  <2> QED
    BY <2>1, <2>2 DEF OwnerInv, TypeOK
<1>2. ASSUME NEW m \in Motion, RequestStop(m) PROVE OwnerInv'
  <2>1. \A n \in Motion : pc'[n] = IF n = m THEN "stopAll" ELSE pc[n]
    BY <1>2 DEF RequestStop, Goto, TypeOK
  <2>2. pc[m] = "accepted" /\ active' = active
    BY <1>2 DEF RequestStop
  <2>3. CASE active = NoMotion
    BY <1>2, <2>1, <2>2, <2>3 DEF RequestStop, OwnerInv, TypeOK, Owning, Ended
  <2>4. CASE active # NoMotion
    <3>1. stopped' = stopped \cup {active} /\ stopRequested' = TRUE /\ active' = active
      BY <1>2, <2>4 DEF RequestStop
    <3>2. active \in Motion /\ stopped \subseteq Motion
      BY <2>4 DEF TypeOK
    <3> QED
      BY <2>1, <2>2, <2>4, <3>1, <3>2 DEF OwnerInv, Owning, Ended
  <2> QED
    BY <2>3, <2>4
<1>3. ASSUME NEW m \in Motion, BeginGoal(m) PROVE OwnerInv'
  <2>1. CASE active = NoMotion /\ active' = m /\ stopRequested' = FALSE
             /\ Goto(m, "goalStart")
    <3>1. \A n \in Motion : pc'[n] = IF n = m THEN "goalStart" ELSE pc[n]
      BY <2>1 DEF Goto, TypeOK
    <3>2. m \notin stopped /\ stopped' = stopped
      BY <1>3 DEF BeginGoal, OwnerInv, Owning, Ended
    <3> QED
      BY <2>1, <3>1, <3>2, NoMotionAssumption DEF OwnerInv, TypeOK, Owning, Ended
  <2>2. CASE Goto(m, "done") /\ UNCHANGED orchestrator
    BY <1>3, <2>2, MoveKeepsOwner DEF BeginGoal, Owning, Ended
  <2> QED
    BY <1>3, <2>1, <2>2 DEF BeginGoal
<1>4. ASSUME NEW m \in Motion,
             \/ StopAll(m) \/ GoalStart(m) \/ NonMotion(m) \/ PlanMotion(m)
             \/ PreDispatch(m) \/ DispatchSetup(m) \/ SendGoal(m) \/ AwaitAccept(m)
             \/ AwaitResult(m) \/ CancelWithMessage(m)
      PROVE  OwnerInv'
  <2> USE DEF StopAll, GoalStart, NonMotion, PlanMotion, PreDispatch, DispatchSetup,
              SendGoal, AwaitAccept, AwaitResult, NextSegment, CancelWithMessage,
              Answer, GiveUp
  <2>1. UNCHANGED <<active, stopRequested, stopped>>
    BY <1>4
  <2>2. \E label : /\ Goto(m, label)
                   /\ pc[m] \in Owning <=> label \in Owning
                   /\ pc[m] \notin Ended
    BY <1>4 DEF Owning, Ended
  <2> QED
    BY <2>1, <2>2, MoveKeepsOwner
<1>5. ASSUME NEW m \in Motion, Finish(m) PROVE OwnerInv'
  <2>1. \E label \in Ended : \A n \in Motion : pc'[n] = IF n = m THEN label ELSE pc[n]
    BY <1>5 DEF Finish, Goto, TypeOK, Ended
  <2>2. active = m /\ active' = NoMotion /\ stopRequested' = FALSE /\ stopped' = stopped
    BY <1>5 DEF Finish, OwnerInv, Owning, TypeOK
  <2> QED
    BY <2>1, <2>2, NoMotionAssumption DEF OwnerInv, TypeOK, Owning, Ended
<1>6. CASE \/ \E m \in Motion : HandleCancel(m) \/ HwReceivesCancelAll(m)
           \/ \E d \in Dispatch : HwReceivesGoal(d) \/ HwReceivesCancel(d) \/ HwRuns(d)
           \/ UNCHANGED vars
  <2>1. UNCHANGED <<pc, active, stopRequested, stopped>>
    BY <1>6 DEF HandleCancel, HwReceivesCancelAll, HwReceivesGoal, HwReceivesCancel,
                HwRuns, vars
  <2> QED
    BY <2>1 DEF OwnerInv
<1> QED
  BY <1>1, <1>2, <1>3, <1>4, <1>5, <1>6 DEF Next, WorkerStep

-----------------------------------------------------------------------------
(* A dispatch that hw_adapter answered with success stays answered so.     *)
LEMMA SuccessIsKept ==
    TypeOK /\ [Next]_vars =>
        \A d \in Dispatch : client[d] = "succeeded" => client'[d] = "succeeded"
<1> SUFFICES ASSUME TypeOK, [Next]_vars,
                    NEW d \in Dispatch, client[d] = "succeeded"
             PROVE  client'[d] = "succeeded"
  OBVIOUS
<1> USE DEF server
<1>1. CASE UNCHANGED client
  BY <1>1
<1>2. ASSUME NEW e \in Dispatch, HwReceivesGoal(e) PROVE client'[d] = "succeeded"
  BY <1>2 DEF HwReceivesGoal, Hw!Accept, Hw!Reject, TypeOK, Hw!ServerTypeOK
<1>3. ASSUME NEW e \in Dispatch, HwReceivesCancel(e) PROVE client'[d] = "succeeded"
  BY <1>3 DEF HwReceivesCancel, Hw!Cancel, TypeOK, Hw!ServerTypeOK
<1>4. ASSUME NEW e \in Dispatch, HwRuns(e) PROVE client'[d] = "succeeded"
  BY <1>4 DEF HwRuns, Hw!Free, Hw!Answer, TypeOK, Hw!ServerTypeOK
<1>5. ASSUME NEW m \in Motion,
             HandleGoal(m) \/ HandleCancel(m) \/ WorkerStep(m) \/ HwReceivesCancelAll(m)
      PROVE  UNCHANGED client
  BY <1>5 DEF HandleGoal, HandleCancel, HwReceivesCancelAll, WorkerStep, RequestStop,
              StopAll, BeginGoal, GoalStart, NonMotion, PlanMotion, PreDispatch,
              DispatchSetup, SendGoal, AwaitAccept, AwaitResult, CancelWithMessage,
              Finish
<1> QED
  BY <1>1, <1>2, <1>3, <1>4, <1>5 DEF Next, vars

(* A goal that owns the orchestrator is interrupted exactly when a client  *)
(* or a STOP called it off.                                                *)
LEMMA CalledOffIsInterrupted ==
    ASSUME TypeOK, OwnerInv, NEW m \in Motion, pc[m] \in Owning
    PROVE  CalledOff(m) <=> Interrupted(m)
BY DEF OwnerInv, CalledOff, Interrupted

(* A worker that moves on without touching its trajectory.                 *)
LEMMA MoveKeepsSegments ==
    ASSUME TypeOK, SegmentInv, NEW m \in Motion, NEW label, NEW result,
           Goto(m, label),
           goal' = [goal EXCEPT ![m] = result],
           UNCHANGED <<segment, total, sent, late, client>>,
           stopped \subseteq stopped',
           pc[m] # "none", label # "none",
           result \notin {"new", "rejected"},
           label \notin {"finish", "done"} => result \in {"executing", "canceling"},
           label \in BeforeSegments => pc[m] \in BeforeSegments,
           label \in InSegments => pc[m] \in InSegments /\ result = goal[m],
           label \in {"segment", "setup", "send"} => pc[m] \in {"segment", "setup", "send"},
           label \in {"setup", "send"} => ~CalledOff(m) \/ pc[m] \in {"setup", "send"}
    PROVE  SegmentInv'
<1>1. /\ \A n \in Motion : pc'[n] = IF n = m THEN label ELSE pc[n]
      /\ \A n \in Motion : goal'[n] = IF n = m THEN result ELSE goal[n]
  BY DEF Goto, TypeOK
<1>2. \A n \in Motion : n # m \/ label \in InSegments => (CalledOff(n) => CalledOff(n)')
  BY <1>1 DEF CalledOff
<1>3. /\ \A n \in Motion : pc'[n] = "none" <=> goal'[n] \in {"new", "rejected"}
      /\ \A n \in Motion : pc'[n] \notin {"none", "finish", "done"}
                             => goal'[n] \in {"executing", "canceling"}
      /\ \A n \in Motion : pc'[n] \in BeforeSegments
                             => segment'[n] = 0 /\ total'[n] = 0
      /\ \A n \in Motion : pc'[n] \in InSegments => segment'[n] \in 1 .. total'[n]
  BY <1>1 DEF SegmentInv
<1>4. ASSUME NEW n \in Motion, NEW s \in Segment
      PROVE  /\ s < segment'[n] => client'[<<n, s>>] = "succeeded"
             /\ <<n, s>> \in sent' => s <= segment'[n]
             /\ <<n, s>> \in sent' /\ pc'[n] \in {"segment", "setup", "send"}
                  => s < segment'[n]
             /\ <<n, s>> \in late' =>
                  /\ <<n, s>> \in sent'
                  /\ pc'[n] \notin {"setup", "send"}
                  /\ pc'[n] \in InSegments => CalledOff(n)'
  <2>1. /\ s < segment[n] => client[<<n, s>>] = "succeeded"
        /\ <<n, s>> \in sent => s <= segment[n]
        /\ <<n, s>> \in sent /\ pc[n] \in {"segment", "setup", "send"}
             => s < segment[n]
        /\ <<n, s>> \in late =>
             /\ <<n, s>> \in sent
             /\ pc[n] \notin {"setup", "send"}
             /\ pc[n] \in InSegments => CalledOff(n)
    BY DEF SegmentInv
  <2>2. UNCHANGED <<segment[n], client[<<n, s>>]>>
    OBVIOUS
  <2>3. <<n, s>> \in late' => pc'[n] \notin {"setup", "send"}
    BY <1>1, <2>1 DEF InSegments
  <2>4. <<n, s>> \in late' /\ pc'[n] \in InSegments => CalledOff(n)'
    BY <1>1, <1>2, <2>1
  <2> QED
    BY <1>1, <2>1, <2>2, <2>3, <2>4
<1> QED
  BY <1>3, <1>4 DEF SegmentInv
(* Every step keeps the progress of the segments.                          *)
LEMMA StepSegmentInv ==
    TypeOK /\ OwnerInv /\ SegmentInv /\ [Next]_vars => SegmentInv'
<1> SUFFICES ASSUME TypeOK, OwnerInv, SegmentInv, [Next]_vars PROVE SegmentInv'
  OBVIOUS
<1> USE DEF orchestrator, plan, wire, server
<1>1. ASSUME NEW m \in Motion, HandleGoal(m) PROVE SegmentInv'
  <2>1. /\ UNCHANGED <<segment, total, sent, late, stopped, client>>
        /\ pc[m] = "none" /\ segment[m] = 0 /\ total[m] = 0
    BY <1>1 DEF HandleGoal, SegmentInv, BeforeSegments
  <2>2. CASE /\ goal' = [goal EXCEPT ![m] = "rejected"]
             /\ UNCHANGED pc
    BY <2>1, <2>2 DEF SegmentInv, CalledOff, TypeOK
  <2>3. CASE /\ goal' = [n \in Motion |->
                            IF n = m THEN "executing"
                            ELSE IF pc[n] = "threw" THEN "canceled" ELSE goal[n]]
             /\ pc' = [n \in Motion |->
                            IF n = m THEN "accepted"
                            ELSE IF pc[n] = "threw" THEN "done" ELSE pc[n]]
    <3> USE DEF BeforeSegments, InSegments
    <3>1. /\ pc'[m] = "accepted" /\ goal'[m] = "executing"
          /\ \A n \in Motion : n # m /\ pc[n] # "threw" =>
                pc'[n] = pc[n] /\ goal'[n] = goal[n]
          /\ \A n \in Motion : n # m /\ pc[n] = "threw" =>
                pc'[n] = "done" /\ goal'[n] = "canceled"
      BY <2>1, <2>3
    <3>2. /\ \A n \in Motion : pc'[n] = "none" <=> goal'[n] \in {"new", "rejected"}
          /\ \A n \in Motion : pc'[n] \notin {"none", "finish", "done"}
                                 => goal'[n] \in {"executing", "canceling"}
          /\ \A n \in Motion : pc'[n] \in BeforeSegments
                                 => segment'[n] = 0 /\ total'[n] = 0
          /\ \A n \in Motion : pc'[n] \in InSegments => segment'[n] \in 1 .. total'[n]
      BY <2>1, <3>1 DEF SegmentInv
    <3>3. ASSUME NEW n \in Motion, NEW s \in Segment
          PROVE  /\ s < segment'[n] => client'[<<n, s>>] = "succeeded"
                 /\ <<n, s>> \in sent' => s <= segment'[n]
                 /\ <<n, s>> \in sent' /\ pc'[n] \in {"segment", "setup", "send"}
                      => s < segment'[n]
                 /\ <<n, s>> \in late' =>
                      /\ <<n, s>> \in sent'
                      /\ pc'[n] \notin {"setup", "send"}
                      /\ pc'[n] \in InSegments => CalledOff(n)'
      BY <2>1, <3>1 DEF SegmentInv, CalledOff
    <3> QED
      BY <3>2, <3>3 DEF SegmentInv
  <2> QED
    BY <1>1, <2>2, <2>3 DEF HandleGoal
<1>2. ASSUME NEW m \in Motion, HandleCancel(m) PROVE SegmentInv'
  <2>1. \A n \in Motion : goal'[n] = IF n = m THEN "canceling" ELSE goal[n]
    BY <1>2 DEF HandleCancel, TypeOK
  <2>2. goal[m] = "executing" /\ UNCHANGED <<pc, segment, total, sent, late, stopped, client>>
    BY <1>2 DEF HandleCancel
  <2> QED
    BY <2>1, <2>2 DEF SegmentInv, CalledOff
<1>3. ASSUME NEW m \in Motion,
             \/ RequestStop(m) \/ BeginGoal(m) \/ GoalStart(m) \/ NonMotion(m)
             \/ PreDispatch(m) \/ DispatchSetup(m) \/ AwaitAccept(m)
             \/ CancelWithMessage(m)
      PROVE  SegmentInv'
  <2>1. goal[m] \in {"executing", "canceling"}
    BY <1>3 DEF SegmentInv, RequestStop, BeginGoal, GoalStart, NonMotion,
                PreDispatch, DispatchSetup, AwaitAccept, CancelWithMessage
  <2>2. goal[m] \notin {"new", "rejected"}
    BY <2>1
  <2>3. CalledOff(m) => Interrupted(m) \/ pc[m] \notin Owning
    BY CalledOffIsInterrupted
  <2> USE DEF RequestStop, BeginGoal, GoalStart, NonMotion, PreDispatch,
              DispatchSetup, AwaitAccept, CancelWithMessage, Answer, GiveUp
  <2>4. /\ UNCHANGED <<segment, total, sent, late, client>>
        /\ stopped \subseteq stopped'
    BY <1>3
  <2>5. \E label, result :
           /\ Goto(m, label)
           /\ goal' = [goal EXCEPT ![m] = result]
           /\ pc[m] # "none" /\ label # "none"
           /\ result \notin {"new", "rejected"}
           /\ label \notin {"finish", "done"} => result \in {"executing", "canceling"}
           /\ label \in BeforeSegments => pc[m] \in BeforeSegments
           /\ label \in InSegments => pc[m] \in InSegments /\ result = goal[m]
           /\ label \in {"segment", "setup", "send"} => pc[m] \in {"segment", "setup", "send"}
           /\ label \in {"setup", "send"} => ~CalledOff(m) \/ pc[m] \in {"setup", "send"}
    <3>0. goal = [goal EXCEPT ![m] = goal[m]]
      BY DEF TypeOK
    <3> USE DEF BeforeSegments, InSegments, Owning
    <3>1. CASE RequestStop(m)
      BY <2>1, <2>2, <3>0, <3>1
    <3>3. CASE BeginGoal(m)
      BY <2>1, <2>2, <3>0, <3>3
    <3>4. CASE GoalStart(m)
      BY <2>1, <2>2, <3>0, <3>4
    <3>5. CASE NonMotion(m)
      BY <2>1, <2>2, <3>0, <3>5
    <3>6. CASE PreDispatch(m)
      BY <2>1, <2>2, <2>3, <3>0, <3>6
    <3>7. CASE DispatchSetup(m)
      BY <2>1, <2>2, <3>0, <3>7
    <3>8. CASE AwaitAccept(m)
      BY <2>1, <2>2, <3>0, <3>8
    <3>9. CASE CancelWithMessage(m)
      BY <2>1, <2>2, <3>0, <3>9
    <3> QED
      BY <1>3, <3>1, <3>3, <3>4, <3>5, <3>6, <3>7, <3>8, <3>9
  <2> QED
    BY <2>4, <2>5, MoveKeepsSegments
<1>4. ASSUME NEW m \in Motion, PlanMotion(m) PROVE SegmentInv'
  <2>0. /\ pc[m] = "plan" /\ segment[m] = 0 /\ total[m] = 0
        /\ goal[m] \in {"executing", "canceling"}
        /\ UNCHANGED <<sent, late, stopped, client>>
    BY <1>4 DEF PlanMotion, SegmentInv, BeforeSegments
  <2>1. CASE UNCHANGED plan
    <3>1. \/ Goto(m, "finish") /\ \E result \in {"aborted", "succeeded"} :
                                     goal' = [goal EXCEPT ![m] = result]
          \/ Goto(m, "cancel") /\ goal' = [goal EXCEPT ![m] = goal[m]]
      <4>1. goal = [goal EXCEPT ![m] = goal[m]]
        BY DEF TypeOK
      <4>2. total' = total
        BY <2>1
      <4>3. \A n \in Segment : total' # [total EXCEPT ![m] = n]
        BY <2>0, <4>2 DEF TypeOK, Segment
      <4> QED
        BY <1>4, <4>1, <4>3 DEF PlanMotion, Answer, GiveUp
    <3>2. stopped \subseteq stopped' /\ UNCHANGED <<segment, total, sent, late, client>>
      BY <2>0, <2>1
    <3>3. CASE Goto(m, "finish")
      BY <2>0, <3>1, <3>2, <3>3, MoveKeepsSegments DEF BeforeSegments, InSegments
    <3>4. CASE Goto(m, "cancel") /\ goal' = [goal EXCEPT ![m] = goal[m]]
      BY <2>0, <3>2, <3>4, MoveKeepsSegments DEF BeforeSegments, InSegments
    <3> QED
      BY <3>1, <3>3, <3>4
  <2>2. ASSUME NEW k \in Segment, total' = [total EXCEPT ![m] = k],
               segment' = [segment EXCEPT ![m] = 1], Goto(m, "segment"),
               UNCHANGED goal
        PROVE  SegmentInv'
    <3>1. /\ \A n \in Motion : pc'[n] = IF n = m THEN "segment" ELSE pc[n]
          /\ \A n \in Motion : segment'[n] = IF n = m THEN 1 ELSE segment[n]
          /\ \A n \in Motion : total'[n] = IF n = m THEN k ELSE total[n]
      BY <2>2 DEF Goto, TypeOK
    <3>2. \A s \in Segment : <<m, s>> \notin sent /\ <<m, s>> \notin late
      BY <2>0 DEF SegmentInv, Segment
    <3>3. /\ \A n \in Motion : pc'[n] = "none" <=> goal'[n] \in {"new", "rejected"}
          /\ \A n \in Motion : pc'[n] \notin {"none", "finish", "done"}
                                 => goal'[n] \in {"executing", "canceling"}
          /\ \A n \in Motion : pc'[n] \in BeforeSegments
                                 => segment'[n] = 0 /\ total'[n] = 0
          /\ \A n \in Motion : pc'[n] \in InSegments => segment'[n] \in 1 .. total'[n]
      BY <2>0, <2>2, <3>1 DEF SegmentInv, BeforeSegments, Segment
    <3>4. ASSUME NEW n \in Motion, NEW s \in Segment
          PROVE  /\ s < segment'[n] => client'[<<n, s>>] = "succeeded"
                 /\ <<n, s>> \in sent' => s <= segment'[n]
                 /\ <<n, s>> \in sent' /\ pc'[n] \in {"segment", "setup", "send"}
                      => s < segment'[n]
                 /\ <<n, s>> \in late' =>
                      /\ <<n, s>> \in sent'
                      /\ pc'[n] \notin {"setup", "send"}
                      /\ pc'[n] \in InSegments => CalledOff(n)'
      <4>1. CASE n = m
        BY <2>0, <3>1, <3>2, <4>1 DEF Segment
      <4>2. CASE n # m
        BY <2>0, <2>2, <3>1, <4>2 DEF SegmentInv, CalledOff
      <4> QED
        BY <4>1, <4>2
    <3> QED
      BY <3>3, <3>4 DEF SegmentInv
  <2> QED
    BY <1>4, <2>1, <2>2 DEF PlanMotion
<1>5. ASSUME NEW m \in Motion, SendGoal(m) PROVE SegmentInv'
  <2>1. /\ pc[m] = "send"
        /\ UNCHANGED <<goal, segment, total, stopped, client>>
        /\ \A n \in Motion : pc'[n] = IF n = m THEN "awaitAccept" ELSE pc[n]
    BY <1>5 DEF SendGoal, Goto, TypeOK
  <2>2. /\ \A n \in Motion, s \in Segment :
              <<n, s>> \in sent' <=> <<n, s>> \in sent \/ (n = m /\ s = segment[m])
        /\ \A n \in Motion, s \in Segment :
              <<n, s>> \in late' <=>
                 <<n, s>> \in late \/ (n = m /\ s = segment[m] /\ CalledOff(m))
    BY <1>5 DEF SendGoal, Current
  <2>3. \A n \in Motion : CalledOff(n)' <=> CalledOff(n)
    BY <2>1 DEF CalledOff
  <2>4. /\ \A n \in Motion : pc'[n] = "none" <=> goal'[n] \in {"new", "rejected"}
        /\ \A n \in Motion : pc'[n] \notin {"none", "finish", "done"}
                               => goal'[n] \in {"executing", "canceling"}
        /\ \A n \in Motion : pc'[n] \in BeforeSegments
                               => segment'[n] = 0 /\ total'[n] = 0
        /\ \A n \in Motion : pc'[n] \in InSegments => segment'[n] \in 1 .. total'[n]
    BY <2>1 DEF SegmentInv, BeforeSegments, InSegments
  <2>5. ASSUME NEW n \in Motion, NEW s \in Segment
        PROVE  /\ s < segment'[n] => client'[<<n, s>>] = "succeeded"
               /\ <<n, s>> \in sent' => s <= segment'[n]
               /\ <<n, s>> \in sent' /\ pc'[n] \in {"segment", "setup", "send"}
                    => s < segment'[n]
               /\ <<n, s>> \in late' =>
                    /\ <<n, s>> \in sent'
                    /\ pc'[n] \notin {"setup", "send"}
                    /\ pc'[n] \in InSegments => CalledOff(n)'
    <3>1. CASE n = m
      <4>1. /\ s < segment[m] => client[<<m, s>>] = "succeeded"
            /\ <<m, s>> \in sent => s < segment[m]
            /\ <<m, s>> \notin late
        BY <2>1 DEF SegmentInv
      <4>2. s < segment[m] => s <= segment[m]
        BY DEF Segment, TypeOK
      <4>3. segment[m] <= segment[m]
        BY DEF TypeOK
      <4> QED
        BY <2>1, <2>2, <2>3, <3>1, <4>1, <4>2, <4>3
    <3>2. CASE n # m
      BY <2>1, <2>2, <2>3, <3>2 DEF SegmentInv
    <3> QED
      BY <3>1, <3>2
  <2> QED
    BY <2>4, <2>5 DEF SegmentInv
<1>6. ASSUME NEW m \in Motion, StopAll(m) PROVE SegmentInv'
  <2>1. /\ Goto(m, "done") /\ goal' = [goal EXCEPT ![m] = "succeeded"]
        /\ pc[m] # "none"
        /\ UNCHANGED <<segment, total, sent, late, stopped, client>>
    BY <1>6 DEF StopAll
  <2>2. /\ "done" \notin BeforeSegments /\ "done" \notin InSegments
        /\ stopped \subseteq stopped'
    BY <2>1 DEF BeforeSegments, InSegments
  <2>3. \E result \in {"succeeded", "aborted"} : goal' = [goal EXCEPT ![m] = result]
    BY <2>1
  <2> QED
    BY <2>1, <2>2, <2>3, MoveKeepsSegments
<1>7. ASSUME NEW m \in Motion, Finish(m) PROVE SegmentInv'
  <2>1. /\ goal' = [goal EXCEPT ![m] = goal[m]]
        /\ pc[m] \in {"finish", "throwing"}
        /\ UNCHANGED <<segment, total, sent, late, stopped, client>>
    BY <1>7 DEF Finish, TypeOK
  <2>2. goal[m] \notin {"new", "rejected"}
    BY <2>1 DEF SegmentInv
  <2>3. CASE pc[m] = "finish"
    <3>1. Goto(m, "done")
      BY <1>7, <2>3 DEF Finish
    <3> QED
      BY <2>1, <2>2, <3>1, MoveKeepsSegments DEF BeforeSegments, InSegments
  <2>4. CASE pc[m] = "throwing"
    <3>1. Goto(m, "threw") /\ goal[m] \in {"executing", "canceling"}
      BY <1>7, <2>4 DEF Finish, SegmentInv
    <3> QED
      BY <2>1, <2>2, <3>1, MoveKeepsSegments DEF BeforeSegments, InSegments
  <2> QED
    BY <2>1, <2>3, <2>4
<1>8. ASSUME NEW m \in Motion, AwaitResult(m) PROVE SegmentInv'
  <2>0. /\ pc[m] = "awaitResult" /\ segment[m] \in 1 .. total[m]
        /\ goal[m] \in {"executing", "canceling"}
        /\ UNCHANGED <<sent, late, stopped, client, total>>
    BY <1>8 DEF AwaitResult, NextSegment, SegmentInv, InSegments
  <2>1. CASE UNCHANGED segment
    <3>1. \/ Goto(m, "finish") /\ \E result \in {"aborted", "succeeded"} :
                                     goal' = [goal EXCEPT ![m] = result]
          \/ Goto(m, "cancel") /\ goal' = [goal EXCEPT ![m] = goal[m]]
      <4>1. goal = [goal EXCEPT ![m] = goal[m]]
        BY DEF TypeOK
      <4>2. segment' # [segment EXCEPT ![m] = @ + 1]
        BY <2>0, <2>1 DEF TypeOK
      <4> QED
        BY <1>8, <4>1, <4>2 DEF AwaitResult, NextSegment, Answer, GiveUp
    <3>2. CASE Goto(m, "finish")
      BY <2>0, <2>1, <3>1, <3>2, MoveKeepsSegments DEF BeforeSegments, InSegments
    <3>3. CASE Goto(m, "cancel") /\ goal' = [goal EXCEPT ![m] = goal[m]]
      BY <2>0, <2>1, <3>3, MoveKeepsSegments DEF BeforeSegments, InSegments
    <3> QED
      BY <3>1, <3>2, <3>3
  <2>2. CASE /\ client[Current(m)] = "succeeded" /\ segment[m] < total[m]
             /\ segment' = [segment EXCEPT ![m] = @ + 1]
             /\ Goto(m, "segment") /\ UNCHANGED goal
    <3>1. /\ \A n \in Motion : pc'[n] = IF n = m THEN "segment" ELSE pc[n]
          /\ \A n \in Motion : segment'[n] = IF n = m THEN segment[m] + 1 ELSE segment[n]
          /\ segment[m] \in Nat /\ total[m] \in Nat
      BY <2>2 DEF Goto, TypeOK
    <3>2. /\ \A n \in Motion : pc'[n] = "none" <=> goal'[n] \in {"new", "rejected"}
          /\ \A n \in Motion : pc'[n] \notin {"none", "finish", "done"}
                                 => goal'[n] \in {"executing", "canceling"}
          /\ \A n \in Motion : pc'[n] \in BeforeSegments
                                 => segment'[n] = 0 /\ total'[n] = 0
          /\ \A n \in Motion : pc'[n] \in InSegments => segment'[n] \in 1 .. total'[n]
      BY <2>0, <2>2, <3>1 DEF SegmentInv, BeforeSegments
    <3>3. ASSUME NEW n \in Motion, NEW s \in Segment
          PROVE  /\ s < segment'[n] => client'[<<n, s>>] = "succeeded"
                 /\ <<n, s>> \in sent' => s <= segment'[n]
                 /\ <<n, s>> \in sent' /\ pc'[n] \in {"segment", "setup", "send"}
                      => s < segment'[n]
                 /\ <<n, s>> \in late' =>
                      /\ <<n, s>> \in sent'
                      /\ pc'[n] \notin {"setup", "send"}
                      /\ pc'[n] \in InSegments => CalledOff(n)'
      <4>1. CASE n = m
        BY <2>0, <2>2, <3>1, <4>1 DEF SegmentInv, Segment, Current, CalledOff, InSegments
      <4>2. CASE n # m
        BY <2>0, <2>2, <3>1, <4>2 DEF SegmentInv, CalledOff
      <4> QED
        BY <4>1, <4>2
    <3> QED
      BY <3>2, <3>3 DEF SegmentInv
  <2> QED
    BY <1>8, <2>1, <2>2 DEF AwaitResult, NextSegment
<1>9. CASE \/ \E m \in Motion : HwReceivesCancelAll(m)
           \/ \E d \in Dispatch : HwReceivesGoal(d) \/ HwReceivesCancel(d) \/ HwRuns(d)
           \/ UNCHANGED vars
  <2>1. UNCHANGED <<goal, pc, segment, total, sent, late, stopped>>
    BY <1>9 DEF HwReceivesCancelAll, HwReceivesGoal, HwReceivesCancel, HwRuns, vars
  <2>2. \A n \in Motion, s \in Segment :
           client[<<n, s>>] = "succeeded" => client'[<<n, s>>] = "succeeded"
    BY SuccessIsKept DEF Dispatch
  <2>3. \A n \in Motion : CalledOff(n)' <=> CalledOff(n)
    BY <2>1 DEF CalledOff
  <2> QED
    BY <2>1, <2>2, <2>3 DEF SegmentInv
<1> QED
  BY <1>1, <1>2, <1>3, <1>4, <1>5, <1>6, <1>7, <1>8, <1>9 DEF Next, WorkerStep

-----------------------------------------------------------------------------
(* A success is reported when the last segment succeeded, or when there    *)
(* was nothing to send.                                                    *)
LEMMA StepSuccessIsReal ==
    TypeOK /\ SegmentInv /\ SuccessIsReal /\ [Next]_vars => SuccessIsReal'
<1> SUFFICES ASSUME TypeOK, SegmentInv, SuccessIsReal, [Next]_vars,
                    NEW m \in Motion, goal'[m] = "succeeded",
                    NEW s \in 1 .. total'[m]
             PROVE  client'[<<m, s>>] = "succeeded"
  BY DEF SuccessIsReal
<1> USE DEF orchestrator, plan, wire, server
<1>1. ASSUME client[<<m, s>>] = "succeeded", s \in Segment
      PROVE  client'[<<m, s>>] = "succeeded"
  BY <1>1, SuccessIsKept DEF Dispatch
<1>2. CASE goal[m] = "succeeded" /\ total'[m] = total[m]
  <2>1. s \in 1 .. total[m]
    BY <1>2
  <2>2. s \in Segment
    BY <2>1, MaxSegmentsAssumption DEF TypeOK, Segment
  <2> QED
    BY <1>1, <1>2, <2>1, <2>2 DEF SuccessIsReal
<1>3. CASE total'[m] = 0
  BY <1>3
<1>4. ASSUME NEW n \in Motion, PlanMotion(n)
      PROVE  (goal[m] = "succeeded" /\ total'[m] = total[m]) \/ total'[m] = 0
  <2>1. pc[n] = "plan" /\ total[n] = 0 /\ goal[n] \in {"executing", "canceling"}
    BY <1>4 DEF PlanMotion, SegmentInv, BeforeSegments
  <2>2. CASE n = m
    BY <1>4, <2>1, <2>2 DEF PlanMotion, Answer, GiveUp, TypeOK
  <2>3. CASE n # m
    BY <1>4, <2>3 DEF PlanMotion, Answer, GiveUp, TypeOK
  <2> QED
    BY <2>2, <2>3
<1>5. ASSUME NEW n \in Motion, StopAll(n) \/ NonMotion(n)
      PROVE  (goal[m] = "succeeded" /\ total'[m] = total[m]) \/ total'[m] = 0
  <2>1. total[n] = 0 /\ total' = total
    BY <1>5 DEF StopAll, NonMotion, SegmentInv, BeforeSegments
  <2>2. n # m => goal'[m] = goal[m]
    BY <1>5 DEF StopAll, NonMotion, Answer, GiveUp, TypeOK
  <2> QED
    BY <2>1, <2>2
<1>6. ASSUME NEW n \in Motion, AwaitResult(n)
      PROVE  client'[<<m, s>>] = "succeeded"
  <2>1. /\ pc[n] = "awaitResult" /\ goal[n] \in {"executing", "canceling"}
        /\ UNCHANGED total
    BY <1>6 DEF AwaitResult, NextSegment, SegmentInv
  <2>2. CASE goal[m] = "succeeded"
    BY <1>2, <2>1, <2>2
  <2>3. CASE goal[m] # "succeeded"
    <3>1. n = m
      BY <1>6, <2>3 DEF AwaitResult, NextSegment, Answer, GiveUp, TypeOK
    <3>2. client[Current(m)] = "succeeded" /\ ~(segment[m] < total[m])
      BY <1>6, <2>1, <3>1 DEF AwaitResult, NextSegment, Answer, GiveUp, TypeOK
    <3>3. segment[m] = total[m] /\ s \in Segment /\ s <= segment[m]
      <4>1. segment[m] \in 1 .. total[m] /\ total[m] \in 0 .. MaxSegments
        BY <2>1, <3>1 DEF SegmentInv, InSegments, TypeOK
      <4> QED
        BY <2>1, <3>2, <4>1, MaxSegmentsAssumption DEF Segment
    <3>4. s < segment[m] => client[<<m, s>>] = "succeeded"
      BY <3>3 DEF SegmentInv
    <3>5. s = segment[m] => client[<<m, s>>] = "succeeded"
      BY <3>2 DEF Current
    <3>6. s < segment[m] \/ s = segment[m]
      BY <3>3 DEF Segment, TypeOK
    <3> QED
      BY <1>1, <3>3, <3>4, <3>5, <3>6
  <2> QED
    BY <2>2, <2>3
<1>7. ASSUME NEW n \in Motion,
             \/ HandleGoal(n) \/ HandleCancel(n) \/ RequestStop(n) \/ BeginGoal(n)
             \/ GoalStart(n) \/ PreDispatch(n) \/ DispatchSetup(n) \/ SendGoal(n)
             \/ AwaitAccept(n) \/ CancelWithMessage(n) \/ Finish(n)
             \/ HwReceivesCancelAll(n)
      PROVE  goal[m] = "succeeded" /\ total'[m] = total[m]
  BY <1>7 DEF HandleGoal, HandleCancel, RequestStop, BeginGoal, GoalStart, PreDispatch,
              DispatchSetup, SendGoal, AwaitAccept, CancelWithMessage, Finish,
              HwReceivesCancelAll, Answer, GiveUp, TypeOK
<1>8. ASSUME \/ \E d \in Dispatch : HwReceivesGoal(d) \/ HwReceivesCancel(d) \/ HwRuns(d)
             \/ UNCHANGED vars
      PROVE  goal[m] = "succeeded" /\ total'[m] = total[m]
  BY <1>8 DEF HwReceivesGoal, HwReceivesCancel, HwRuns, vars
<1> QED
  BY <1>2, <1>3, <1>4, <1>5, <1>6, <1>7, <1>8 DEF Next, WorkerStep

-----------------------------------------------------------------------------
(* The inductive invariant of motion_core.                                 *)
LEMMA MotionCoreInvariant == Spec => [](TypeOK /\ OwnerInv /\ SegmentInv /\ SuccessIsReal)
BY InitInvariants, StepTypeOK, StepOwnerInv, StepSegmentInv, StepSuccessIsReal, PTL
DEF Spec

(* The worker states, the goal states and the dispatches of motion_core    *)
(* are well typed.                                                         *)
THEOREM TypeCorrect == Spec => []TypeOK
BY MotionCoreInvariant, PTL

(* One goal at a time owns the orchestrator, and a STOP hits exactly the   *)
(* goal that was active when it came.                                      *)
THEOREM OneOwner == Spec => []OwnerInv
BY MotionCoreInvariant, PTL

(* execute_motion reports success only if hw_adapter ran every segment.    *)
THEOREM SuccessIsTruthful == Spec => []SuccessIsReal
BY MotionCoreInvariant, PTL

(* The segments of a split trajectory are dispatched one after the other.  *)
THEOREM SegmentsAreSequential == Spec => []SegmentsInOrder
<1>1. TypeOK /\ SegmentInv => SegmentsInOrder
  <2> SUFFICES ASSUME TypeOK, SegmentInv, NEW m \in Motion, NEW s \in Segment,
                      NEW t \in Segment, <<m, t>> \in sent, s < t
               PROVE  client[<<m, s>>] = "succeeded"
    BY DEF SegmentsInOrder
  <2>1. t <= segment[m]
    BY DEF SegmentInv
  <2>2. s < segment[m]
    BY <2>1 DEF Segment, TypeOK
  <2> QED
    BY <2>2 DEF SegmentInv
<1> QED
  BY <1>1, MotionCoreInvariant, PTL

(* A worker that is about to send has no late segment behind it.           *)
LEMMA StepOneLateSegment ==
    TypeOK /\ SegmentInv /\ OneLateSegment /\ [Next]_vars => OneLateSegment'
<1> SUFFICES ASSUME TypeOK, SegmentInv, OneLateSegment, [Next]_vars
             PROVE  OneLateSegment'
  OBVIOUS
<1>1. CASE UNCHANGED late
  BY <1>1 DEF OneLateSegment
<1>2. ASSUME NEW m \in Motion, SendGoal(m) PROVE OneLateSegment'
  <2>1. \A s \in Segment : <<m, s>> \notin late
    BY <1>2 DEF SendGoal, SegmentInv
  <2>2. \A n \in Motion, s \in Segment :
           <<n, s>> \in late' => <<n, s>> \in late \/ (n = m /\ s = segment[m])
    BY <1>2 DEF SendGoal, Current
  <2> QED
    BY <2>1, <2>2 DEF OneLateSegment
<1>3. ASSUME NEW m \in Motion,
             \/ HandleGoal(m) \/ HandleCancel(m) \/ HwReceivesCancelAll(m)
             \/ WorkerStep(m) /\ ~SendGoal(m)
      PROVE  UNCHANGED late
  BY <1>3 DEF HandleGoal, HandleCancel, HwReceivesCancelAll, WorkerStep, RequestStop,
              StopAll, BeginGoal, GoalStart, NonMotion, PlanMotion, PreDispatch,
              DispatchSetup, AwaitAccept, AwaitResult, CancelWithMessage, Finish, wire
<1>4. ASSUME NEW d \in Dispatch, HwReceivesGoal(d) \/ HwReceivesCancel(d) \/ HwRuns(d)
      PROVE  UNCHANGED late
  BY <1>4 DEF HwReceivesGoal, HwReceivesCancel, HwRuns, wire
<1> QED
  BY <1>1, <1>2, <1>3, <1>4 DEF Next, vars

(* After a STOP or a cancellation at most the segment that was being sent  *)
(* still leaves for hw_adapter.                                            *)
THEOREM StopsAfterOneSegment == Spec => []OneLateSegment
<1>1. Init => OneLateSegment
  BY DEF Init, OneLateSegment
<1> QED
  BY <1>1, StepOneLateSegment, MotionCoreInvariant, InitInvariants, StepTypeOK,
     StepOwnerInv, StepSegmentInv, PTL
  DEF Spec
=============================================================================
