----------------------- MODULE CommandSupervisor_proofs -----------------------
(***************************************************************************)
(* Proofs about CommandSupervisor, for every set of sessions, operators,   *)
(* threads and commands.                                                   *)
(***************************************************************************)
EXTENDS CommandSupervisor, TLAPS

(* The lease part of the state keeps its type under every lease step.      *)
LEMMA LeaseStepTypeOK ==
    ASSUME LeaseTypeOK, LeaseNext
    PROVE  LeaseTypeOK'
<1> USE DEF LeaseTypeOK
<1>1. CASE \E s \in Session, o \in Operator : Takeover(s, o)
  BY <1>1 DEF Takeover, NewHolder, Holder
<1>2. CASE \E s \in Session, o \in Operator, f \in BOOLEAN : Grant(s, o, f)
  BY <1>2 DEF Grant, NewHolder, Holder
<1>3. CASE \E o \in Operator : Reacquire(o)
  BY <1>3 DEF Reacquire, Holder
<1>4. CASE Vacate
  BY <1>4 DEF Vacate
<1> QED
  BY <1>1, <1>2, <1>3, <1>4 DEF LeaseNext

(* A thread without a request has a well-typed frame.                      *)
LEMMA IdleFrameType == IdleFrame \in Frame
BY DEF IdleFrame, Frame, Labels, Ops, Outcomes

(* The frames stay well typed when thread t goes to a label, returns, or   *)
(* receives the answer of the ROS adapter.                                 *)
LEMMA MoveTypes ==
    ASSUME thr \in [Thread -> Frame], NEW t \in Thread
    PROVE  /\ \A l \in Labels : Goto(t, l) => thr' \in [Thread -> Frame]
           /\ Return(t) => thr' \in [Thread -> Frame]
           /\ \A o \in Outcomes : Respond(t, o) => thr' \in [Thread -> Frame]
<1>1. ASSUME NEW l \in Labels, Goto(t, l) PROVE thr' \in [Thread -> Frame]
  BY <1>1 DEF Goto, Frame
<1>2. ASSUME Return(t) PROVE thr' \in [Thread -> Frame]
  BY <1>2, IdleFrameType DEF Return
<1>3. ASSUME NEW o \in Outcomes, Respond(t, o) PROVE thr' \in [Thread -> Frame]
  <2> "conclude" \in Labels /\ "dispatched" \in Labels
    BY DEF Labels
  <2> QED
    BY ZenonT(60), <1>3 DEF Respond, Frame
<1> QED
  BY <1>1, <1>2, <1>3

(* _transition_command and the assignment of final_state keep their types. *)
LEMMA TransitionTypes ==
    ASSUME TypeOK, NEW t \in Thread, NEW c, NEW next \in Lifecycle, NEW l \in Labels,
           Transition(t, c, next, l)
    PROVE  /\ thr' \in [Thread -> Frame]
           /\ lifecycle' \in [Command -> Lifecycle \cup {"ABSENT"}]
<1>1. thr' \in [Thread -> Frame]
  BY MoveTypes DEF Transition, TypeOK
<1>2. lifecycle' \in [Command -> Lifecycle \cup {"ABSENT"}]
  BY DEF Transition, TypeOK
<1> QED
  BY <1>1, <1>2

(* So does the terminal transition, allowed or not.                        *)
LEMMA FinishTypes ==
    ASSUME TypeOK, NEW t \in Thread, NEW c, NEW state \in Terminal,
           Finish(t, c, state)
    PROVE  /\ thr' \in [Thread -> Frame]
           /\ lifecycle' \in [Command -> Lifecycle \cup {"ABSENT"}]
           /\ finalState' \in [Command -> Terminal \cup {"none"}]
<1>1. "idle" \in Labels /\ state \in Lifecycle
  BY DEF Labels, Lifecycle
<1>2. Transition(t, c, state, "idle")
  BY DEF Finish
<1>3. finalState' \in [Command -> Terminal \cup {"none"}]
  BY DEF Finish, TypeOK
<1> QED
  BY <1>1, <1>2, <1>3, TransitionTypes

(* A request starts, and the expiry scan moves on, in well-typed frames.   *)
LEMMA StartTypes ==
    ASSUME TypeOK, NEW t \in Thread, NEW op \in Ops, NEW cl \in Client \cup {NoClient},
           NEW k \in Nat, NEW c \in Command \cup {NoCommand}, Start(t, op, cl, k, c)
    PROVE  TypeOK'
<1>1. thr' \in [Thread -> Frame]
  <2> "scan" \in Labels /\ "none" \in Outcomes
    BY DEF Labels, Outcomes
  <2> thr \in [Thread -> Frame]
    BY DEF TypeOK
  <2> QED
    BY DEF Start, IdleFrame, Frame
<1> QED
  BY <1>1 DEF Start, TypeOK, LeaseTypeOK, leaseVars, cmdVars, rosVars

(* The next frame of the expiry scan is well typed.                        *)
LEMMA ScanTypes ==
    ASSUME thr \in [Thread -> Frame], NEW t \in Thread, NEW rest \in SUBSET Command
    PROVE  AfterScan(t, rest) \in [Thread -> Frame]
<1> "expire" \in Labels /\ "assert" \in Labels
  BY DEF Labels
<1> QED
  BY IdleFrameType DEF AfterScan, Frame

(* Initially and after every step the state is well typed.                 *)
LEMMA InitTypeOK == Init => TypeOK /\ FramesOK
<1>1. Init => TypeOK
  BY SupervisorAssumption, IdleFrameType
  DEF Init, TypeOK, LeaseInit, LeaseTypeOK, GoalStates
<1>2. Init => FramesOK
  BY DEF Init, FramesOK, IdleFrame
<1> QED
  BY <1>1, <1>2

(* Every step of a request, of ROS and of the lease keeps the types.       *)
LEMMA StepTypeOK == TypeOK /\ FramesOK /\ [Next]_vars => TypeOK'
<1> SUFFICES ASSUME TypeOK, FramesOK, [Next]_vars PROVE TypeOK'
  OBVIOUS
<1> USE DEF TypeOK, LeaseTypeOK, leaseVars, cmdVars, rosVars
<1>1. ASSUME NEW t \in Thread, SubmitIntent(t) PROVE TypeOK'
  BY <1>1, StartTypes DEF SubmitIntent, Ops
<1>2. ASSUME NEW t \in Thread, ConfirmCommand(t) PROVE TypeOK'
  BY <1>2, StartTypes DEF ConfirmCommand, Ops
<1>3. ASSUME NEW t \in Thread, CancelCommand(t) PROVE TypeOK'
  BY <1>3, StartTypes DEF CancelCommand, Ops
<1>4. ASSUME NEW t \in Thread, Poll(t) PROVE TypeOK'
  BY <1>4, StartTypes DEF Poll, Ops
<1>5. ASSUME NEW t \in Thread, ScanPending(t) PROVE TypeOK'
  BY <1>5, ScanTypes, MoveTypes DEF ScanPending, Labels, Lifecycle, Terminal
<1>6. ASSUME NEW t \in Thread, ExpirePending(t) PROVE TypeOK'
  <2> thr[t].expiring \in SUBSET Command
    BY DEF Frame
  <2> QED
    BY <1>6, ScanTypes, MoveTypes DEF ExpirePending, Labels, Lifecycle, Terminal
<1>7. ASSUME NEW t \in Thread, AssertController(t) PROVE TypeOK'
  BY <1>7, MoveTypes DEF AssertController, Labels, Outcomes
<1>8. ASSUME NEW t \in Thread, NoActiveJob(t) PROVE TypeOK'
  BY <1>8, MoveTypes DEF NoActiveJob, Labels, Outcomes
<1>9. ASSUME NEW t \in Thread, ReviewAndInsert(t) PROVE TypeOK'
  <2>1. thr[t].cmd \in Command \cup {NoCommand} /\ thr[t].client \in Client \cup {NoClient}
    BY DEF Frame
  <2>2. thr' \in [Thread -> Frame]
    BY <1>9, MoveTypes DEF ReviewAndInsert, Labels
  <2>3. kind' \in [Command -> Kinds \cup {"none"}]
    BY <1>9 DEF ReviewAndInsert
  <2>4. lifecycle' \in [Command -> Lifecycle \cup {"ABSENT"}]
    BY <1>9 DEF ReviewAndInsert, Lifecycle
  <2>5. owner' \in [Command -> Client \cup {NoClient}]
    BY <1>9, <2>1 DEF ReviewAndInsert
  <2> QED
    BY <1>9, <2>1, <2>2, <2>3, <2>4, <2>5 DEF ReviewAndInsert
<1>10. ASSUME NEW t \in Thread, RejectCommand(t) PROVE TypeOK'
  BY <1>10, FinishTypes DEF RejectCommand, Terminal
<1>11. ASSUME NEW t \in Thread, Parse(t) PROVE TypeOK'
  <2>1. PICK label \in {"validating", "reject"} : Transition(t, thr[t].cmd, "PARSING", label)
    BY <1>11 DEF Parse
  <2>2. label \in Labels /\ "PARSING" \in Lifecycle
    BY DEF Labels, Lifecycle
  <2>3. /\ thr' \in [Thread -> Frame]
        /\ lifecycle' \in [Command -> Lifecycle \cup {"ABSENT"}]
    BY <2>1, <2>2, TransitionTypes
  <2> QED
    BY <1>11, <2>3 DEF Parse
<1>12. ASSUME NEW t \in Thread, BeginValidation(t) PROVE TypeOK'
  BY <1>12, TransitionTypes, MoveTypes DEF BeginValidation, Labels, Lifecycle, Terminal
<1>13. ASSUME NEW t \in Thread, Validate(t) PROVE TypeOK'
  BY <1>13, MoveTypes DEF Validate, Labels, Outcomes
<1>14. ASSUME NEW t \in Thread, QueryPose(t) PROVE TypeOK'
  BY <1>14, TransitionTypes, MoveTypes DEF QueryPose, Labels, Lifecycle, Terminal
<1>15. ASSUME NEW t \in Thread, AnswerPose(t) PROVE TypeOK'
  BY <1>15, FinishTypes DEF AnswerPose, Terminal
<1>16. ASSUME NEW t \in Thread, OfferForConfirmation(t) PROVE TypeOK'
  BY <1>16, TransitionTypes, MoveTypes DEF OfferForConfirmation, Labels, Lifecycle, Terminal
<1>17. ASSUME NEW t \in Thread, ConfirmCheck(t) PROVE TypeOK'
  BY <1>17, MoveTypes DEF ConfirmCheck, Labels, Outcomes
<1>18. ASSUME NEW t \in Thread, ExpireOwn(t) PROVE TypeOK'
  BY <1>18, FinishTypes DEF ExpireOwn, Terminal
<1>19. ASSUME NEW t \in Thread, ConfirmGate(t) PROVE TypeOK'
  BY <1>19, MoveTypes DEF ConfirmGate, Labels, Outcomes
<1>20. ASSUME NEW t \in Thread, Confirm(t) PROVE TypeOK'
  BY <1>20, TransitionTypes, MoveTypes DEF Confirm, Labels, Lifecycle, Terminal
<1>21. ASSUME NEW t \in Thread, RequestExecution(t) PROVE TypeOK'
  BY <1>21, TransitionTypes, MoveTypes DEF RequestExecution, Labels, Lifecycle, Terminal
<1>22. ASSUME NEW t \in Thread, Preflight(t) PROVE TypeOK'
  BY <1>22, MoveTypes DEF Preflight, Labels, Outcomes
<1>23. ASSUME NEW t \in Thread, SendGoal(t) PROVE TypeOK'
  BY <1>23, MoveTypes DEF SendGoal, Labels, Outcomes, GoalStates
<1>24. ASSUME NEW t \in Thread, AwaitAccept(t) PROVE TypeOK'
  <2> thr[t].cmd \in Command
    BY <1>24 DEF AwaitAccept, At, FramesOK, Frame, Ops
  <2> QED
    BY <1>24, MoveTypes DEF AwaitAccept, Labels, Outcomes
<1>25. ASSUME NEW t \in Thread, AwaitResult(t) PROVE TypeOK'
  BY <1>25, MoveTypes DEF AwaitResult, Labels, Outcomes, GoalDone
<1>26. ASSUME NEW t \in Thread, RecordDispatched(t) PROVE TypeOK'
  BY <1>26, TransitionTypes, MoveTypes DEF RecordDispatched, Labels, Lifecycle, Terminal
<1>27. ASSUME NEW t \in Thread, Conclude(t) PROVE TypeOK'
  BY <1>27, FinishTypes DEF Conclude, Terminal, FinalStateOf
<1>28. ASSUME NEW t \in Thread, CancelCheck(t) PROVE TypeOK'
  BY <1>28, MoveTypes DEF CancelCheck, Labels, Outcomes
<1>29. ASSUME NEW t \in Thread, AbortCommand(t) PROVE TypeOK'
  <2> thr[t].cmd \in Command
    BY <1>29 DEF AbortCommand, At, FramesOK, Frame, Ops
  <2> QED
    BY <1>29, MoveTypes DEF AbortCommand, Labels, Outcomes
<1>30. ASSUME NEW t \in Thread, CancelGoal(t) PROVE TypeOK'
  BY <1>30, MoveTypes DEF CancelGoal, Labels, Outcomes, GoalStates
<1>31. ASSUME NEW t \in Thread, MarkCancelled(t) PROVE TypeOK'
  BY <1>31, FinishTypes DEF MarkCancelled, Terminal
<1>32. CASE \E c \in Command : WindowElapses(c) \/ GoalResponse(c) \/ GoalEnds(c)
  <2> PICK c \in Command : WindowElapses(c) \/ GoalResponse(c) \/ GoalEnds(c)
    BY <1>32
  <2>1. CASE WindowElapses(c)
    BY <2>1 DEF WindowElapses
  <2>2. CASE GoalResponse(c)
    BY <2>2 DEF GoalResponse, GoalStates
  <2>3. CASE GoalEnds(c)
    BY <2>3 DEF GoalEnds, GoalDone, GoalStates
  <2> QED
    BY <2>1, <2>2, <2>3
<1>33. CASE LeaseChanges
  BY <1>33, LeaseStepTypeOK DEF LeaseChanges
<1>34. CASE UNCHANGED vars
  BY <1>34 DEF vars
<1> QED
  BY <1>1, <1>2, <1>3, <1>4, <1>5, <1>6, <1>7, <1>8, <1>9, <1>10,
     <1>11, <1>12, <1>13, <1>14, <1>15, <1>16, <1>17, <1>18, <1>19, <1>20,
     <1>21, <1>22, <1>23, <1>24, <1>25, <1>26, <1>27, <1>28, <1>29, <1>30,
     <1>31, <1>32, <1>33, <1>34
  DEF Next, Environment, Request, ThreadStep, EntryStep, SubmitStep,
      ConfirmStep, DispatchStep, CancelStep

(* A request keeps its operation and its command until it returns.         *)
LEMMA StepFramesOK == TypeOK /\ FramesOK /\ [Next]_vars => FramesOK'
<1> SUFFICES ASSUME TypeOK, FramesOK, [Next]_vars PROVE FramesOK'
  OBVIOUS
<1> thr \in [Thread -> Frame]
  BY DEF TypeOK
<1> USE DEF FramesOK, At, IdleFrame, Frame
<1>1. ASSUME NEW t \in Thread, SubmitIntent(t) PROVE FramesOK'
  BY <1>1 DEF SubmitIntent, Start
<1>2. ASSUME NEW t \in Thread, ConfirmCommand(t) PROVE FramesOK'
  BY <1>2 DEF ConfirmCommand, Start
<1>3. ASSUME NEW t \in Thread, CancelCommand(t) PROVE FramesOK'
  BY <1>3 DEF CancelCommand, Start
<1>4. ASSUME NEW t \in Thread, Poll(t) PROVE FramesOK'
  BY <1>4 DEF Poll, Start
<1>5. ASSUME NEW t \in Thread, ScanPending(t) PROVE FramesOK'
  BY <1>5 DEF ScanPending, AfterScan
<1>6. ASSUME NEW t \in Thread, ExpirePending(t) PROVE FramesOK'
  BY <1>6 DEF ExpirePending, AfterScan, Return
<1>7. ASSUME NEW t \in Thread, AssertController(t) PROVE FramesOK'
  BY <1>7 DEF AssertController, Goto, Return
<1>8. ASSUME NEW t \in Thread, NoActiveJob(t) PROVE FramesOK'
  BY <1>8 DEF NoActiveJob, Goto, Return
<1>9. ASSUME NEW t \in Thread, ReviewAndInsert(t) PROVE FramesOK'
  BY <1>9 DEF ReviewAndInsert, Goto
<1>10. ASSUME NEW t \in Thread, RejectCommand(t) PROVE FramesOK'
  BY <1>10 DEF RejectCommand, Finish, Transition, Return
<1>11. ASSUME NEW t \in Thread, Parse(t) PROVE FramesOK'
  BY <1>11 DEF Parse, Transition, Goto, Return
<1>12. ASSUME NEW t \in Thread, BeginValidation(t) PROVE FramesOK'
  BY <1>12 DEF BeginValidation, Transition, Goto, Return
<1>13. ASSUME NEW t \in Thread, Validate(t) PROVE FramesOK'
  BY <1>13 DEF Validate, Goto
<1>14. ASSUME NEW t \in Thread, QueryPose(t) PROVE FramesOK'
  BY <1>14 DEF QueryPose, Transition, Goto, Return
<1>15. ASSUME NEW t \in Thread, AnswerPose(t) PROVE FramesOK'
  BY <1>15 DEF AnswerPose, Finish, Transition, Return
<1>16. ASSUME NEW t \in Thread, OfferForConfirmation(t) PROVE FramesOK'
  BY <1>16 DEF OfferForConfirmation, Transition, Goto, Return
<1>17. ASSUME NEW t \in Thread, ConfirmCheck(t) PROVE FramesOK'
  BY <1>17 DEF ConfirmCheck, Goto, Return
<1>18. ASSUME NEW t \in Thread, ExpireOwn(t) PROVE FramesOK'
  BY <1>18 DEF ExpireOwn, Finish, Transition, Return
<1>19. ASSUME NEW t \in Thread, ConfirmGate(t) PROVE FramesOK'
  BY <1>19 DEF ConfirmGate, Goto, Return
<1>20. ASSUME NEW t \in Thread, Confirm(t) PROVE FramesOK'
  BY <1>20 DEF Confirm, Transition, Goto, Return
<1>21. ASSUME NEW t \in Thread, RequestExecution(t) PROVE FramesOK'
  BY <1>21 DEF RequestExecution, Transition, Goto, Return
<1>22. ASSUME NEW t \in Thread, Preflight(t) PROVE FramesOK'
  BY SMTT(20), <1>22 DEF Preflight, Goto, Respond
<1>23. ASSUME NEW t \in Thread, SendGoal(t) PROVE FramesOK'
  BY <1>23 DEF SendGoal, Goto, Respond
<1>24. ASSUME NEW t \in Thread, AwaitAccept(t) PROVE FramesOK'
  BY <1>24 DEF AwaitAccept, Goto, Respond
<1>25. ASSUME NEW t \in Thread, AwaitResult(t) PROVE FramesOK'
  BY <1>25 DEF AwaitResult, Respond
<1>26. ASSUME NEW t \in Thread, RecordDispatched(t) PROVE FramesOK'
  BY <1>26 DEF RecordDispatched, Transition, Goto, Return
<1>27. ASSUME NEW t \in Thread, Conclude(t) PROVE FramesOK'
  BY <1>27 DEF Conclude, Finish, Transition, Return
<1>28. ASSUME NEW t \in Thread, CancelCheck(t) PROVE FramesOK'
  BY SMTT(20), <1>28 DEF CancelCheck, Goto, Return
<1>29. ASSUME NEW t \in Thread, AbortCommand(t) PROVE FramesOK'
  BY <1>29 DEF AbortCommand, Goto
<1>30. ASSUME NEW t \in Thread, CancelGoal(t) PROVE FramesOK'
  BY <1>30 DEF CancelGoal, Goto, Return
<1>31. ASSUME NEW t \in Thread, MarkCancelled(t) PROVE FramesOK'
  BY <1>31 DEF MarkCancelled, Finish, Transition, Return
<1>32. CASE Environment \/ UNCHANGED vars
  BY <1>32 DEF Environment, WindowElapses, GoalResponse, GoalEnds, LeaseChanges, vars
<1> QED
  BY <1>1, <1>2, <1>3, <1>4, <1>5, <1>6, <1>7, <1>8, <1>9, <1>10,
     <1>11, <1>12, <1>13, <1>14, <1>15, <1>16, <1>17, <1>18, <1>19, <1>20,
     <1>21, <1>22, <1>23, <1>24, <1>25, <1>26, <1>27, <1>28, <1>29, <1>30,
     <1>31, <1>32
  DEF Next, Request, ThreadStep, EntryStep, SubmitStep, ConfirmStep,
      DispatchStep, CancelStep

(* The supervisor's tables and the frames of its request threads keep      *)
(* their types, whatever requests arrive and however they interleave.      *)
THEOREM TypeCorrect == Spec => []TypeOK
BY InitTypeOK, StepTypeOK, StepFramesOK, PTL DEF Spec

-----------------------------------------------------------------------------
(* What ensure_command_transition lets through.                            *)
LEMMA TransitionFacts ==
    ASSUME TypeOK, NEW c \in Command, NEW next, MayBecome(c, next)
    PROVE  /\ lifecycle[c] \notin Terminal
           /\ lifecycle[c] # "ABSENT"
           /\ next # "ABSENT"
           /\ lifecycle[c] \in PostConfirm => next \in PostConfirm
           /\ next = "CONFIRMED" => lifecycle[c] = "NEEDS_CONFIRMATION"
BY DEF TypeOK, MayBecome, AllowedTransitions, Lifecycle, Terminal, PostConfirm

(* A request that reaches its terminal transition ends, whether or not the *)
(* transition is allowed.                                                  *)
LEMMA FinishFacts ==
    ASSUME NEW t, NEW c, NEW state, Finish(t, c, state)
    PROVE  /\ Return(t)
           /\ \/ UNCHANGED lifecycle
              \/ MayBecome(c, state) /\ lifecycle' = [lifecycle EXCEPT ![c] = state]
BY DEF Finish, Transition

(* Past its expiry scan a request has a command.                           *)
LEMMA CommandKnown ==
    ASSUME TypeOK, FramesOK, NEW t \in Thread,
           thr[t].pc \notin {"idle", "scan", "expire"}
    PROVE  thr[t].cmd \in Command
BY DEF TypeOK, FramesOK, Frame, Ops

(* After the expiry scan a request waits, is checked on or is done.         *)
LEMMA ScanMoves ==
    ASSUME TypeOK, NEW t \in Thread, NEW rest, thr' = AfterScan(t, rest)
    PROVE  /\ \A s \in Thread : s # t => thr'[s] = thr[s]
           /\ \/ thr'[t] = IdleFrame
              \/ /\ thr'[t].pc \in {"expire", "assert"}
                 /\ thr'[t].op = thr[t].op /\ thr'[t].cmd = thr[t].cmd
BY DEF TypeOK, AfterScan, Frame

(* No step inserts a command twice or forgets one.                         *)
LEMMA StepInsertOnce == TypeOK /\ FramesOK /\ InsertOnce /\ [Next]_vars => InsertOnce'
<1> SUFFICES ASSUME TypeOK, FramesOK, InsertOnce, [Next]_vars PROVE InsertOnce'
  OBVIOUS
<1> thr \in [Thread -> Frame]
  BY DEF TypeOK
<1> lifecycle \in [Command -> Lifecycle \cup {"ABSENT"}]
  BY DEF TypeOK
<1> USE DEF FramesOK, InsertOnce, At, IdleFrame, Frame, BeforeInsert,
  cmdVars, rosVars
<1>1. ASSUME NEW t \in Thread, SubmitIntent(t) PROVE InsertOnce'
  BY <1>1 DEF SubmitIntent, Start
<1>2. ASSUME NEW t \in Thread, ConfirmCommand(t) PROVE InsertOnce'
  BY <1>2 DEF ConfirmCommand, Start
<1>3. ASSUME NEW t \in Thread, CancelCommand(t) PROVE InsertOnce'
  BY <1>3 DEF CancelCommand, Start
<1>4. ASSUME NEW t \in Thread, Poll(t) PROVE InsertOnce'
  BY <1>4 DEF Poll, Start
<1>5. ASSUME NEW t \in Thread, ScanPending(t) PROVE InsertOnce'
  BY <1>5 DEF ScanPending, AfterScan
<1>6. ASSUME NEW t \in Thread, ExpirePending(t) PROVE InsertOnce'
  <2>1. PICK c \in Command :
             \/ /\ MayBecome(c, "EXPIRED")
                /\ lifecycle' = [lifecycle EXCEPT ![c] = "EXPIRED"]
                /\ thr' = AfterScan(t, thr[t].expiring \ {c})
             \/ UNCHANGED lifecycle /\ Return(t)
    BY <1>6 DEF ExpirePending
  <2>2. CASE UNCHANGED lifecycle /\ Return(t)
    BY <1>6, <2>2 DEF ExpirePending, Return
  <2>3. CASE /\ MayBecome(c, "EXPIRED")
             /\ lifecycle' = [lifecycle EXCEPT ![c] = "EXPIRED"]
             /\ thr' = AfterScan(t, thr[t].expiring \ {c})
    <3>1. /\ thr[t].pc = "expire" /\ c \in Command
          /\ UNCHANGED <<kind, goal, sends, handles>>
      BY <1>6 DEF ExpirePending
    <3>2. lifecycle[c] \notin PostConfirm \cup {"ABSENT"}
      BY <2>3, <3>1, TransitionFacts DEF PostConfirm
    <3>3. \A d \in Command : lifecycle'[d] = IF d = c THEN "EXPIRED" ELSE lifecycle[d]
      BY <2>3, <3>1 DEF TypeOK
    <3>4. /\ \A s \in Thread : s # t => thr'[s] = thr[s]
          /\ \/ thr'[t] = IdleFrame
             \/ /\ thr'[t].pc \in {"expire", "assert"}
                /\ thr'[t].op = thr[t].op /\ thr'[t].cmd = thr[t].cmd
      BY <2>3, ScanMoves
    <3>5. \A s \in Thread : thr[s].pc \notin {"idle", "scan", "expire"} => thr[s].cmd \in Command
      BY CommandKnown
    <3> QED
      BY <3>1, <3>2, <3>3, <3>4, <3>5
  <2> QED
    BY <2>1, <2>2, <2>3
<1>7. ASSUME NEW t \in Thread, AssertController(t) PROVE InsertOnce'
  BY <1>7 DEF AssertController, Goto, Return
<1>8. ASSUME NEW t \in Thread, NoActiveJob(t) PROVE InsertOnce'
  BY <1>8 DEF NoActiveJob, Goto, Return
<1>9. ASSUME NEW t \in Thread, ReviewAndInsert(t) PROVE InsertOnce'
  BY <1>9 DEF ReviewAndInsert, Goto
<1>10. ASSUME NEW t \in Thread, RejectCommand(t) PROVE InsertOnce'
  BY <1>10, FinishFacts, TransitionFacts, CommandKnown DEF RejectCommand, Return
<1>11. ASSUME NEW t \in Thread, Parse(t) PROVE InsertOnce'
  BY SMTT(60), <1>11, TransitionFacts, CommandKnown DEF Parse, Transition, Goto, Return
<1>12. ASSUME NEW t \in Thread, BeginValidation(t) PROVE InsertOnce'
  BY SMTT(60), <1>12, TransitionFacts, CommandKnown
  DEF BeginValidation, Transition, Goto, Return
<1>13. ASSUME NEW t \in Thread, Validate(t) PROVE InsertOnce'
  BY <1>13 DEF Validate, Goto
<1>14. ASSUME NEW t \in Thread, QueryPose(t) PROVE InsertOnce'
  <2>1. thr[t].pc = "query" /\ UNCHANGED <<kind, goal, sends, handles>>
    BY <1>14 DEF QueryPose
  <2>2. CASE UNCHANGED lifecycle
    BY SMTT(20), <1>14, <2>1, <2>2 DEF QueryPose, Transition, Goto, Return
  <2>3. CASE /\ MayBecome(thr[t].cmd, "EXECUTING")
             /\ lifecycle' = [lifecycle EXCEPT ![thr[t].cmd] = "EXECUTING"]
             /\ Goto(t, "answer")
    BY <2>1, <2>3, TransitionFacts, CommandKnown DEF Goto
  <2> QED
    BY <1>14, <2>2, <2>3 DEF QueryPose, Transition
<1>15. ASSUME NEW t \in Thread, AnswerPose(t) PROVE InsertOnce'
  BY <1>15, FinishFacts, TransitionFacts, CommandKnown DEF AnswerPose, Return
<1>16. ASSUME NEW t \in Thread, OfferForConfirmation(t) PROVE InsertOnce'
  BY SMTT(60), <1>16, TransitionFacts, CommandKnown
  DEF OfferForConfirmation, Transition, Goto, Return
<1>17. ASSUME NEW t \in Thread, ConfirmCheck(t) PROVE InsertOnce'
  BY <1>17 DEF ConfirmCheck, Goto, Return, Owned
<1>18. ASSUME NEW t \in Thread, ExpireOwn(t) PROVE InsertOnce'
  BY <1>18, FinishFacts, TransitionFacts, CommandKnown DEF ExpireOwn, Return
<1>19. ASSUME NEW t \in Thread, ConfirmGate(t) PROVE InsertOnce'
  BY <1>19 DEF ConfirmGate, Goto, Return
<1>20. ASSUME NEW t \in Thread, Confirm(t) PROVE InsertOnce'
  BY SMTT(60), <1>20, TransitionFacts, CommandKnown DEF Confirm, Transition, Goto, Return
<1>21. ASSUME NEW t \in Thread, RequestExecution(t) PROVE InsertOnce'
  BY SMTT(60), <1>21, TransitionFacts, CommandKnown
  DEF RequestExecution, Transition, Goto, Return
<1>22. ASSUME NEW t \in Thread, Preflight(t) PROVE InsertOnce'
  BY SMTT(20), <1>22 DEF Preflight, Goto, Respond
<1>23. ASSUME NEW t \in Thread, SendGoal(t) PROVE InsertOnce'
  BY <1>23 DEF SendGoal, Goto, Respond
<1>24. ASSUME NEW t \in Thread, AwaitAccept(t) PROVE InsertOnce'
  BY <1>24 DEF AwaitAccept, Goto, Respond
<1>25. ASSUME NEW t \in Thread, AwaitResult(t) PROVE InsertOnce'
  BY <1>25 DEF AwaitResult, Respond
<1>26. ASSUME NEW t \in Thread, RecordDispatched(t) PROVE InsertOnce'
  BY SMTT(60), <1>26, TransitionFacts, CommandKnown
  DEF RecordDispatched, Transition, Goto, Return
<1>27. ASSUME NEW t \in Thread, Conclude(t) PROVE InsertOnce'
  BY <1>27, FinishFacts, TransitionFacts, CommandKnown DEF Conclude, Return
<1>28. ASSUME NEW t \in Thread, CancelCheck(t) PROVE InsertOnce'
  BY <1>28 DEF CancelCheck, Goto, Return, Owned
<1>29. ASSUME NEW t \in Thread, AbortCommand(t) PROVE InsertOnce'
  <2>1. Goto(t, "cancelGoal") \/ Goto(t, "cancel")
    BY <1>29 DEF AbortCommand
  <2>2. thr[t].pc = "abort" /\ UNCHANGED <<lifecycle, kind, goal, sends, handles>>
    BY <1>29 DEF AbortCommand
  <2> QED
    BY <2>1, <2>2 DEF Goto
<1>30. ASSUME NEW t \in Thread, CancelGoal(t) PROVE InsertOnce'
  <2>1. Goto(t, "cancel") \/ Return(t)
    BY <1>30 DEF CancelGoal
  <2>2. thr[t].pc = "cancelGoal" /\ UNCHANGED <<lifecycle, kind, sends, handles>>
    BY <1>30 DEF CancelGoal
  <2>3. \A c \in Command : goal[c] = "succeeded" => goal'[c] = "succeeded"
    BY <1>30 DEF CancelGoal, TypeOK
  <2> QED
    BY SMTT(20), <2>1, <2>2, <2>3, CommandKnown DEF Goto, Return
<1>31. ASSUME NEW t \in Thread, MarkCancelled(t) PROVE InsertOnce'
  BY <1>31, FinishFacts, TransitionFacts, CommandKnown DEF MarkCancelled, Return
<1>32. CASE Environment \/ UNCHANGED vars
  BY <1>32
  DEF Environment, WindowElapses, GoalResponse, GoalEnds, LeaseChanges, vars
<1> QED
  BY <1>1, <1>2, <1>3, <1>4, <1>5, <1>6, <1>7, <1>8, <1>9, <1>10,
     <1>11, <1>12, <1>13, <1>14, <1>15, <1>16, <1>17, <1>18, <1>19, <1>20,
     <1>21, <1>22, <1>23, <1>24, <1>25, <1>26, <1>27, <1>28, <1>29, <1>30,
     <1>31, <1>32
  DEF Next, Request, ThreadStep, EntryStep, SubmitStep, ConfirmStep,
      DispatchStep, CancelStep

(* Only Confirm makes a thread a driver, and it needs NEEDS_CONFIRMATION.  *)
LEMMA StepOneDriver == TypeOK /\ FramesOK /\ InsertOnce /\ OneDriver /\ [Next]_vars => OneDriver'
<1> SUFFICES ASSUME TypeOK, FramesOK, InsertOnce, OneDriver, [Next]_vars PROVE OneDriver'
  OBVIOUS
<1> thr \in [Thread -> Frame]
  BY DEF TypeOK
<1> lifecycle \in [Command -> Lifecycle \cup {"ABSENT"}]
  BY DEF TypeOK
<1> sends \in [Command -> Nat]
  BY DEF TypeOK
<1> USE DEF FramesOK, OneDriver, Drives, At, IdleFrame, Frame, BeforeSend,
  DriverLabels, cmdVars, rosVars
<1>1. ASSUME NEW t \in Thread, SubmitIntent(t) PROVE OneDriver'
  BY <1>1 DEF SubmitIntent, Start
<1>2. ASSUME NEW t \in Thread, ConfirmCommand(t) PROVE OneDriver'
  BY <1>2 DEF ConfirmCommand, Start
<1>3. ASSUME NEW t \in Thread, CancelCommand(t) PROVE OneDriver'
  BY <1>3 DEF CancelCommand, Start
<1>4. ASSUME NEW t \in Thread, Poll(t) PROVE OneDriver'
  BY <1>4 DEF Poll, Start
<1>5. ASSUME NEW t \in Thread, ScanPending(t) PROVE OneDriver'
  BY SMTT(60), <1>5 DEF ScanPending, AfterScan
<1>6. ASSUME NEW t \in Thread, ExpirePending(t) PROVE OneDriver'
  <2>1. PICK c \in Command :
             \/ /\ MayBecome(c, "EXPIRED")
                /\ lifecycle' = [lifecycle EXCEPT ![c] = "EXPIRED"]
                /\ thr' = AfterScan(t, thr[t].expiring \ {c})
             \/ UNCHANGED lifecycle /\ Return(t)
    BY <1>6 DEF ExpirePending
  <2>2. CASE UNCHANGED lifecycle /\ Return(t)
    BY <1>6, <2>2 DEF ExpirePending, Return
  <2>3. CASE /\ MayBecome(c, "EXPIRED")
             /\ lifecycle' = [lifecycle EXCEPT ![c] = "EXPIRED"]
             /\ thr' = AfterScan(t, thr[t].expiring \ {c})
    <3>1. /\ thr[t].pc = "expire" /\ c \in Command
          /\ UNCHANGED <<kind, goal, sends, handles>>
      BY <1>6 DEF ExpirePending
    <3>2. lifecycle[c] \notin PostConfirm \cup {"ABSENT"}
      BY <2>3, <3>1, TransitionFacts DEF PostConfirm
    <3>3. \A d \in Command : lifecycle'[d] = IF d = c THEN "EXPIRED" ELSE lifecycle[d]
      BY <2>3, <3>1 DEF TypeOK
    <3>4. /\ \A s \in Thread : s # t => thr'[s] = thr[s]
          /\ \/ thr'[t] = IdleFrame
             \/ /\ thr'[t].pc \in {"expire", "assert"}
                /\ thr'[t].op = thr[t].op /\ thr'[t].cmd = thr[t].cmd
      BY <2>3, ScanMoves
    <3> QED
      BY <3>1, <3>2, <3>3, <3>4
  <2> QED
    BY <2>1, <2>2, <2>3
<1>7. ASSUME NEW t \in Thread, AssertController(t) PROVE OneDriver'
  BY <1>7 DEF AssertController, Goto, Return
<1>8. ASSUME NEW t \in Thread, NoActiveJob(t) PROVE OneDriver'
  BY <1>8 DEF NoActiveJob, Goto, Return
<1>9. ASSUME NEW t \in Thread, ReviewAndInsert(t) PROVE OneDriver'
  BY <1>9 DEF ReviewAndInsert, Goto, InsertOnce, BeforeInsert, PostConfirm
<1>10. ASSUME NEW t \in Thread, RejectCommand(t) PROVE OneDriver'
  BY <1>10, FinishFacts, TransitionFacts, CommandKnown DEF RejectCommand, Return
<1>11. ASSUME NEW t \in Thread, Parse(t) PROVE OneDriver'
  BY SMTT(60), <1>11, TransitionFacts, CommandKnown DEF Parse, Transition, Goto, Return
<1>12. ASSUME NEW t \in Thread, BeginValidation(t) PROVE OneDriver'
  BY SMTT(60), <1>12, TransitionFacts, CommandKnown
  DEF BeginValidation, Transition, Goto, Return
<1>13. ASSUME NEW t \in Thread, Validate(t) PROVE OneDriver'
  BY <1>13 DEF Validate, Goto
<1>14. ASSUME NEW t \in Thread, QueryPose(t) PROVE OneDriver'
  <2>1. thr[t].pc = "query" /\ UNCHANGED <<kind, goal, sends, handles>>
    BY <1>14 DEF QueryPose
  <2>2. CASE UNCHANGED lifecycle
    BY SMTT(20), <1>14, <2>1, <2>2 DEF QueryPose, Transition, Goto, Return
  <2>3. CASE /\ MayBecome(thr[t].cmd, "EXECUTING")
             /\ lifecycle' = [lifecycle EXCEPT ![thr[t].cmd] = "EXECUTING"]
             /\ Goto(t, "answer")
    BY <2>1, <2>3, TransitionFacts, CommandKnown DEF Goto
  <2> QED
    BY <1>14, <2>2, <2>3 DEF QueryPose, Transition
<1>15. ASSUME NEW t \in Thread, AnswerPose(t) PROVE OneDriver'
  BY <1>15, FinishFacts, TransitionFacts, CommandKnown DEF AnswerPose, Return
<1>16. ASSUME NEW t \in Thread, OfferForConfirmation(t) PROVE OneDriver'
  BY SMTT(60), <1>16, TransitionFacts, CommandKnown
  DEF OfferForConfirmation, Transition, Goto, Return
<1>17. ASSUME NEW t \in Thread, ConfirmCheck(t) PROVE OneDriver'
  BY <1>17 DEF ConfirmCheck, Goto, Return
<1>18. ASSUME NEW t \in Thread, ExpireOwn(t) PROVE OneDriver'
  BY <1>18, FinishFacts, TransitionFacts, CommandKnown DEF ExpireOwn, Return
<1>19. ASSUME NEW t \in Thread, ConfirmGate(t) PROVE OneDriver'
  BY <1>19 DEF ConfirmGate, Goto, Return
<1>20. ASSUME NEW t \in Thread, Confirm(t) PROVE OneDriver'
  <2> DEFINE c == thr[t].cmd
  <2>1. c \in Command /\ thr[t].pc = "confirm" /\ UNCHANGED sends
    BY <1>20, CommandKnown DEF Confirm
  <2>2. CASE MayBecome(c, "CONFIRMED")
    <3>1. /\ lifecycle' = [lifecycle EXCEPT ![c] = "CONFIRMED"]
          /\ thr' = [thr EXCEPT ![t].pc = "request"]
      BY <1>20, <2>2 DEF Confirm, Transition, Goto
    <3>2. lifecycle[c] \notin PostConfirm
      BY <2>1, <2>2, TransitionFacts DEF PostConfirm
    <3>3. sends[c] = 0 /\ \A u \in Thread : ~Drives(u, c)
      BY <2>1, <3>2
    <3>4. \A u \in Thread, d \in Command :
             Drives(u, d)' <=> (Drives(u, d) \/ (u = t /\ d = c))
      BY <2>1, <3>1
    <3>5. \A d \in Command : lifecycle[d] \in PostConfirm => lifecycle'[d] \in PostConfirm
      BY <2>1, <3>1, <3>2
    <3>6. lifecycle'[c] \in PostConfirm
      BY <2>1, <3>1 DEF PostConfirm
    <3> HIDE DEF c
    <3> QED
      BY <2>1, <3>1, <3>3, <3>4, <3>5, <3>6
  <2>3. CASE ~MayBecome(c, "CONFIRMED")
    BY <1>20, <2>3 DEF Confirm, Transition, Return
  <2> QED
    BY <2>2, <2>3
<1>21. ASSUME NEW t \in Thread, RequestExecution(t) PROVE OneDriver'
  BY SMTT(60), <1>21, TransitionFacts, CommandKnown
  DEF RequestExecution, Transition, Goto, Return
<1>22. ASSUME NEW t \in Thread, Preflight(t) PROVE OneDriver'
  BY SMTT(20), <1>22 DEF Preflight, Goto, Respond
<1>23. ASSUME NEW t \in Thread, SendGoal(t) PROVE OneDriver'
  <2> DEFINE c == thr[t].cmd
  <2>1. c \in Command /\ Drives(t, c) /\ thr[t].pc = "send" /\ UNCHANGED lifecycle
    BY <1>23, CommandKnown DEF SendGoal
  <2> DEFINE Moved == /\ \A u \in Thread : u # t => thr'[u] = thr[u]
                      /\ thr'[t].cmd = c
                      /\ thr'[t].pc \in {"conclude", "dispatched",
                                         "awaitResult", "awaitAccept"}
  <2>2. Moved
    <3>1. ASSUME NEW o, Respond(t, o) PROVE Moved
      BY <3>1 DEF Respond
    <3>2. ASSUME NEW l \in {"awaitResult", "awaitAccept"}, Goto(t, l) PROVE Moved
      BY <3>2 DEF Goto
    <3>3. \/ \E o \in {"failed", "blocked"} : Respond(t, o)
          \/ \E l \in {"awaitResult", "awaitAccept"} : Goto(t, l)
      BY <1>23 DEF SendGoal
    <3> HIDE DEF Moved
    <3> QED
      BY <3>1, <3>2, <3>3
  <2>3. \A u \in Thread, d \in Command : Drives(u, d)' <=> Drives(u, d)
    BY <2>1, <2>2
  <2>4. \A d \in Command : d # c => sends'[d] = sends[d]
    BY <1>23, <2>1 DEF SendGoal
  <2>5. lifecycle[c] \in PostConfirm
    BY <2>1
  <2>6. \A u \in Thread : Drives(u, c) => u = t
    BY <2>1
  <2> HIDE DEF c
  <2> QED
    BY <2>1, <2>2, <2>3, <2>4, <2>5, <2>6
<1>24. ASSUME NEW t \in Thread, AwaitAccept(t) PROVE OneDriver'
  BY <1>24 DEF AwaitAccept, Goto, Respond
<1>25. ASSUME NEW t \in Thread, AwaitResult(t) PROVE OneDriver'
  BY <1>25 DEF AwaitResult, Respond
<1>26. ASSUME NEW t \in Thread, RecordDispatched(t) PROVE OneDriver'
  BY SMTT(60), <1>26, TransitionFacts, CommandKnown
  DEF RecordDispatched, Transition, Goto, Return
<1>27. ASSUME NEW t \in Thread, Conclude(t) PROVE OneDriver'
  BY <1>27, FinishFacts, TransitionFacts, CommandKnown DEF Conclude, Return
<1>28. ASSUME NEW t \in Thread, CancelCheck(t) PROVE OneDriver'
  BY SMTT(20), <1>28 DEF CancelCheck, Goto, Return
<1>29. ASSUME NEW t \in Thread, AbortCommand(t) PROVE OneDriver'
  <2>1. Goto(t, "cancelGoal") \/ Goto(t, "cancel")
    BY <1>29 DEF AbortCommand
  <2>2. thr[t].pc = "abort" /\ UNCHANGED <<lifecycle, kind, goal, sends, handles>>
    BY <1>29 DEF AbortCommand
  <2> QED
    BY <2>1, <2>2 DEF Goto
<1>30. ASSUME NEW t \in Thread, CancelGoal(t) PROVE OneDriver'
  <2>1. Goto(t, "cancel") \/ Return(t)
    BY <1>30 DEF CancelGoal
  <2>2. thr[t].pc = "cancelGoal" /\ UNCHANGED <<lifecycle, kind, sends, handles>>
    BY <1>30 DEF CancelGoal
  <2>3. \A c \in Command : goal[c] = "succeeded" => goal'[c] = "succeeded"
    BY <1>30 DEF CancelGoal, TypeOK
  <2> QED
    BY SMTT(20), <2>1, <2>2, <2>3, CommandKnown DEF Goto, Return
<1>31. ASSUME NEW t \in Thread, MarkCancelled(t) PROVE OneDriver'
  BY <1>31, FinishFacts, TransitionFacts, CommandKnown DEF MarkCancelled, Return
<1>32. CASE Environment \/ UNCHANGED vars
  BY <1>32
  DEF Environment, WindowElapses, GoalResponse, GoalEnds, LeaseChanges, vars
<1> QED
  BY <1>1, <1>2, <1>3, <1>4, <1>5, <1>6, <1>7, <1>8, <1>9, <1>10,
     <1>11, <1>12, <1>13, <1>14, <1>15, <1>16, <1>17, <1>18, <1>19, <1>20,
     <1>21, <1>22, <1>23, <1>24, <1>25, <1>26, <1>27, <1>28, <1>29, <1>30,
     <1>31, <1>32
  DEF Next, Request, ThreadStep, EntryStep, SubmitStep, ConfirmStep,
      DispatchStep, CancelStep

(* The goal of a command changes only until it has ended, and its driver   *)
(* reports the end it saw.                                                 *)
LEMMA StepOutcomeIsReal == TypeOK /\ FramesOK /\ InsertOnce /\ OneDriver /\ OutcomeIsReal /\ [Next]_vars => OutcomeIsReal'
<1> SUFFICES ASSUME TypeOK, FramesOK, InsertOnce, OneDriver, OutcomeIsReal, [Next]_vars PROVE OutcomeIsReal'
  OBVIOUS
<1> thr \in [Thread -> Frame]
  BY DEF TypeOK
<1> lifecycle \in [Command -> Lifecycle \cup {"ABSENT"}]
  BY DEF TypeOK
<1> goal \in [Command -> GoalStates] /\ kind \in [Command -> Kinds \cup {"none"}]
  BY DEF TypeOK
<1> USE DEF FramesOK, OutcomeIsReal, At, IdleFrame, Frame, PoseLabels, Drives,
  DriverLabels, cmdVars, rosVars
<1>1. ASSUME NEW t \in Thread, SubmitIntent(t) PROVE OutcomeIsReal'
  BY <1>1 DEF SubmitIntent, Start
<1>2. ASSUME NEW t \in Thread, ConfirmCommand(t) PROVE OutcomeIsReal'
  BY <1>2 DEF ConfirmCommand, Start
<1>3. ASSUME NEW t \in Thread, CancelCommand(t) PROVE OutcomeIsReal'
  BY <1>3 DEF CancelCommand, Start
<1>4. ASSUME NEW t \in Thread, Poll(t) PROVE OutcomeIsReal'
  BY <1>4 DEF Poll, Start
<1>5. ASSUME NEW t \in Thread, ScanPending(t) PROVE OutcomeIsReal'
  BY <1>5 DEF ScanPending, AfterScan
<1>6. ASSUME NEW t \in Thread, ExpirePending(t) PROVE OutcomeIsReal'
  <2>1. PICK c \in Command :
             \/ /\ MayBecome(c, "EXPIRED")
                /\ lifecycle' = [lifecycle EXCEPT ![c] = "EXPIRED"]
                /\ thr' = AfterScan(t, thr[t].expiring \ {c})
             \/ UNCHANGED lifecycle /\ Return(t)
    BY <1>6 DEF ExpirePending
  <2>2. CASE UNCHANGED lifecycle /\ Return(t)
    BY <1>6, <2>2 DEF ExpirePending, Return
  <2>3. CASE /\ MayBecome(c, "EXPIRED")
             /\ lifecycle' = [lifecycle EXCEPT ![c] = "EXPIRED"]
             /\ thr' = AfterScan(t, thr[t].expiring \ {c})
    <3>1. /\ thr[t].pc = "expire" /\ c \in Command
          /\ UNCHANGED <<kind, goal, sends, handles>>
      BY <1>6 DEF ExpirePending
    <3>2. lifecycle[c] \notin PostConfirm \cup {"ABSENT"}
      BY <2>3, <3>1, TransitionFacts DEF PostConfirm
    <3>3. \A d \in Command : lifecycle'[d] = IF d = c THEN "EXPIRED" ELSE lifecycle[d]
      BY <2>3, <3>1 DEF TypeOK
    <3>4. /\ \A s \in Thread : s # t => thr'[s] = thr[s]
          /\ \/ thr'[t] = IdleFrame
             \/ /\ thr'[t].pc \in {"expire", "assert"}
                /\ thr'[t].op = thr[t].op /\ thr'[t].cmd = thr[t].cmd
      BY <2>3, ScanMoves
    <3> QED
      BY <3>1, <3>2, <3>3, <3>4
  <2> QED
    BY <2>1, <2>2, <2>3
<1>7. ASSUME NEW t \in Thread, AssertController(t) PROVE OutcomeIsReal'
  BY <1>7 DEF AssertController, Goto, Return
<1>8. ASSUME NEW t \in Thread, NoActiveJob(t) PROVE OutcomeIsReal'
  BY <1>8 DEF NoActiveJob, Goto, Return
<1>9. ASSUME NEW t \in Thread, ReviewAndInsert(t) PROVE OutcomeIsReal'
  <2>1. /\ thr[t].pc = "review"
        /\ Goto(t, "reject") \/ Goto(t, "parsing")
        /\ UNCHANGED goal
    BY <1>9 DEF ReviewAndInsert
  <2>2. \A u \in Thread : thr[u].pc \in PoseLabels => thr[u].cmd # thr[t].cmd
    BY <2>1 DEF InsertOnce, BeforeInsert
  <2>3. \A c \in Command : c # thr[t].cmd => kind'[c] = kind[c]
    BY <1>9 DEF ReviewAndInsert
  <2>4. lifecycle' = [lifecycle EXCEPT ![thr[t].cmd] = "RECEIVED"]
    BY <1>9 DEF ReviewAndInsert
  <2> QED
    BY <2>1, <2>2, <2>3, <2>4, CommandKnown DEF Goto
<1>10. ASSUME NEW t \in Thread, RejectCommand(t) PROVE OutcomeIsReal'
  BY <1>10, FinishFacts, TransitionFacts, CommandKnown DEF RejectCommand, Return
<1>11. ASSUME NEW t \in Thread, Parse(t) PROVE OutcomeIsReal'
  BY SMTT(60), <1>11, TransitionFacts, CommandKnown DEF Parse, Transition, Goto, Return
<1>12. ASSUME NEW t \in Thread, BeginValidation(t) PROVE OutcomeIsReal'
  BY SMTT(60), <1>12, TransitionFacts, CommandKnown
  DEF BeginValidation, Transition, Goto, Return
<1>13. ASSUME NEW t \in Thread, Validate(t) PROVE OutcomeIsReal'
  BY <1>13, CommandKnown DEF Validate, Goto
<1>14. ASSUME NEW t \in Thread, QueryPose(t) PROVE OutcomeIsReal'
  <2>1. thr[t].pc = "query" /\ UNCHANGED <<kind, goal, sends, handles>>
    BY <1>14 DEF QueryPose
  <2>2. CASE UNCHANGED lifecycle
    BY SMTT(20), <1>14, <2>1, <2>2 DEF QueryPose, Transition, Goto, Return
  <2>3. CASE /\ MayBecome(thr[t].cmd, "EXECUTING")
             /\ lifecycle' = [lifecycle EXCEPT ![thr[t].cmd] = "EXECUTING"]
             /\ Goto(t, "answer")
    BY <2>1, <2>3, TransitionFacts, CommandKnown DEF Goto
  <2> QED
    BY <1>14, <2>2, <2>3 DEF QueryPose, Transition
<1>15. ASSUME NEW t \in Thread, AnswerPose(t) PROVE OutcomeIsReal'
  BY <1>15, FinishFacts, TransitionFacts, CommandKnown DEF AnswerPose, Return
<1>16. ASSUME NEW t \in Thread, OfferForConfirmation(t) PROVE OutcomeIsReal'
  BY SMTT(60), <1>16, TransitionFacts, CommandKnown
  DEF OfferForConfirmation, Transition, Goto, Return
<1>17. ASSUME NEW t \in Thread, ConfirmCheck(t) PROVE OutcomeIsReal'
  BY <1>17 DEF ConfirmCheck, Goto, Return
<1>18. ASSUME NEW t \in Thread, ExpireOwn(t) PROVE OutcomeIsReal'
  BY <1>18, FinishFacts, TransitionFacts, CommandKnown DEF ExpireOwn, Return
<1>19. ASSUME NEW t \in Thread, ConfirmGate(t) PROVE OutcomeIsReal'
  BY <1>19 DEF ConfirmGate, Goto, Return
<1>20. ASSUME NEW t \in Thread, Confirm(t) PROVE OutcomeIsReal'
  BY SMTT(60), <1>20, TransitionFacts, CommandKnown DEF Confirm, Transition, Goto, Return
<1>21. ASSUME NEW t \in Thread, RequestExecution(t) PROVE OutcomeIsReal'
  BY SMTT(60), <1>21, TransitionFacts, CommandKnown
  DEF RequestExecution, Transition, Goto, Return
<1>22. ASSUME NEW t \in Thread, Preflight(t) PROVE OutcomeIsReal'
  BY SMTT(20), <1>22 DEF Preflight, Goto, Respond
<1>23. ASSUME NEW t \in Thread, SendGoal(t) PROVE OutcomeIsReal'
  <2> DEFINE c == thr[t].cmd
  <2>1. /\ c \in Command
        /\ thr[t].pc = "send"
        /\ UNCHANGED <<lifecycle, kind>>
    BY <1>23, CommandKnown DEF SendGoal
  <2>2. \/ Respond(t, "failed") \/ Respond(t, "blocked")
        \/ Goto(t, "awaitResult") \/ Goto(t, "awaitAccept")
    BY <1>23 DEF SendGoal
  <2>3. \A u \in Thread : Drives(u, c) => u = t
    BY <2>1 DEF OneDriver
  <2>4. \A d \in Command : d # c => goal'[d] = goal[d]
    BY <1>23, <2>1 DEF SendGoal
  <2> HIDE DEF c
  <2>5. \A u \in Thread : u # t => thr'[u] = thr[u]
    BY <2>2 DEF Respond, Goto
  <2>6. /\ thr'[t].cmd = c
        /\ thr'[t].pc \in {"awaitAccept", "awaitResult", "dispatched", "conclude"}
        /\ thr'[t].pc \in {"dispatched", "conclude"} => thr'[t].outcome # "succeeded"
    BY <2>1, <2>2 DEF Respond, Goto, c
  <2>7. Drives(t, c)
    BY <2>1 DEF c
  <2> QED
    BY <2>1, <2>3, <2>4, <2>5, <2>6, <2>7, CommandKnown
<1>24. ASSUME NEW t \in Thread, AwaitAccept(t) PROVE OutcomeIsReal'
  BY <1>24, CommandKnown DEF AwaitAccept, Goto, Respond
<1>25. ASSUME NEW t \in Thread, AwaitResult(t) PROVE OutcomeIsReal'
  BY <1>25, CommandKnown DEF AwaitResult, Respond
<1>26. ASSUME NEW t \in Thread, RecordDispatched(t) PROVE OutcomeIsReal'
  <2> DEFINE c == thr[t].cmd
  <2>1. /\ c \in Command
        /\ thr[t].pc = "dispatched"
        /\ UNCHANGED <<goal, kind>>
    BY <1>26, CommandKnown DEF RecordDispatched
  <2>2. CASE UNCHANGED lifecycle /\ Return(t)
    BY <2>1, <2>2 DEF Return
  <2>3. CASE lifecycle' = [lifecycle EXCEPT ![c] = "EXECUTING"] /\ Goto(t, "conclude")
    BY <2>1, <2>3 DEF Goto
  <2> QED
    BY <1>26, <2>2, <2>3 DEF RecordDispatched, Transition
<1>27. ASSUME NEW t \in Thread, Conclude(t) PROVE OutcomeIsReal'
  BY SMTT(20), <1>27, FinishFacts, TransitionFacts, CommandKnown DEF Conclude, Return, OneDriver
<1>28. ASSUME NEW t \in Thread, CancelCheck(t) PROVE OutcomeIsReal'
  BY SMTT(20), <1>28 DEF CancelCheck, Goto, Return
<1>29. ASSUME NEW t \in Thread, AbortCommand(t) PROVE OutcomeIsReal'
  <2>1. Goto(t, "cancelGoal") \/ Goto(t, "cancel")
    BY <1>29 DEF AbortCommand
  <2>2. thr[t].pc = "abort" /\ UNCHANGED <<lifecycle, kind, goal, sends, handles>>
    BY <1>29 DEF AbortCommand
  <2> QED
    BY SMTT(20), <2>1, <2>2 DEF Goto
<1>30. ASSUME NEW t \in Thread, CancelGoal(t) PROVE OutcomeIsReal'
  <2>1. Goto(t, "cancel") \/ Return(t)
    BY <1>30 DEF CancelGoal
  <2>2. thr[t].pc = "cancelGoal" /\ UNCHANGED <<lifecycle, kind, sends, handles>>
    BY <1>30 DEF CancelGoal
  <2>3. \A c \in Command : goal[c] = "succeeded" => goal'[c] = "succeeded"
    BY <1>30 DEF CancelGoal, TypeOK
  <2> QED
    BY SMTT(20), <2>1, <2>2, <2>3, CommandKnown DEF Goto, Return
<1>31. ASSUME NEW t \in Thread, MarkCancelled(t) PROVE OutcomeIsReal'
  BY <1>31, FinishFacts, TransitionFacts, CommandKnown DEF MarkCancelled, Return
<1>32. CASE Environment \/ UNCHANGED vars
  <2>1. UNCHANGED <<thr, kind, lifecycle>>
    BY <1>32 DEF Environment, WindowElapses, GoalResponse, GoalEnds, LeaseChanges, vars
  <2>2. \A c \in Command : goal[c] = "succeeded" => goal'[c] = "succeeded"
    BY <1>32 DEF Environment, WindowElapses, GoalResponse, GoalEnds, LeaseChanges, vars
  <2> QED
    BY <2>1, <2>2, CommandKnown
<1> QED
  BY <1>1, <1>2, <1>3, <1>4, <1>5, <1>6, <1>7, <1>8, <1>9, <1>10,
     <1>11, <1>12, <1>13, <1>14, <1>15, <1>16, <1>17, <1>18, <1>19, <1>20,
     <1>21, <1>22, <1>23, <1>24, <1>25, <1>26, <1>27, <1>28, <1>29, <1>30,
     <1>31, <1>32
  DEF Next, Request, ThreadStep, EntryStep, SubmitStep, ConfirmStep,
      DispatchStep, CancelStep

(* SUCCEEDED is written by a driver whose goal succeeded, or by a pose     *)
(* query.                                                                  *)
LEMMA StepSucceededIsReal == TypeOK /\ FramesOK /\ InsertOnce /\ OneDriver /\ OutcomeIsReal /\ SucceededIsReal /\ [Next]_vars => SucceededIsReal'
<1> SUFFICES ASSUME TypeOK, FramesOK, InsertOnce, OneDriver, OutcomeIsReal, SucceededIsReal, [Next]_vars PROVE SucceededIsReal'
  OBVIOUS
<1> thr \in [Thread -> Frame]
  BY DEF TypeOK
<1> lifecycle \in [Command -> Lifecycle \cup {"ABSENT"}]
  BY DEF TypeOK
<1> goal \in [Command -> GoalStates] /\ kind \in [Command -> Kinds \cup {"none"}]
  BY DEF TypeOK
<1> USE DEF SucceededIsReal, At, IdleFrame, Frame, cmdVars, rosVars
<1>1. ASSUME NEW t \in Thread, SubmitIntent(t) PROVE SucceededIsReal'
  BY <1>1 DEF SubmitIntent, Start
<1>2. ASSUME NEW t \in Thread, ConfirmCommand(t) PROVE SucceededIsReal'
  BY <1>2 DEF ConfirmCommand, Start
<1>3. ASSUME NEW t \in Thread, CancelCommand(t) PROVE SucceededIsReal'
  BY <1>3 DEF CancelCommand, Start
<1>4. ASSUME NEW t \in Thread, Poll(t) PROVE SucceededIsReal'
  BY <1>4 DEF Poll, Start
<1>5. ASSUME NEW t \in Thread, ScanPending(t) PROVE SucceededIsReal'
  BY <1>5 DEF ScanPending, AfterScan
<1>6. ASSUME NEW t \in Thread, ExpirePending(t) PROVE SucceededIsReal'
  <2>1. PICK c \in Command :
             \/ /\ MayBecome(c, "EXPIRED")
                /\ lifecycle' = [lifecycle EXCEPT ![c] = "EXPIRED"]
                /\ thr' = AfterScan(t, thr[t].expiring \ {c})
             \/ UNCHANGED lifecycle /\ Return(t)
    BY <1>6 DEF ExpirePending
  <2>2. CASE UNCHANGED lifecycle /\ Return(t)
    BY <1>6, <2>2 DEF ExpirePending, Return
  <2>3. CASE /\ MayBecome(c, "EXPIRED")
             /\ lifecycle' = [lifecycle EXCEPT ![c] = "EXPIRED"]
             /\ thr' = AfterScan(t, thr[t].expiring \ {c})
    <3>1. /\ thr[t].pc = "expire" /\ c \in Command
          /\ UNCHANGED <<kind, goal, sends, handles>>
      BY <1>6 DEF ExpirePending
    <3>2. lifecycle[c] \notin PostConfirm \cup {"ABSENT"}
      BY <2>3, <3>1, TransitionFacts DEF PostConfirm
    <3>3. \A d \in Command : lifecycle'[d] = IF d = c THEN "EXPIRED" ELSE lifecycle[d]
      BY <2>3, <3>1 DEF TypeOK
    <3>4. /\ \A s \in Thread : s # t => thr'[s] = thr[s]
          /\ \/ thr'[t] = IdleFrame
             \/ /\ thr'[t].pc \in {"expire", "assert"}
                /\ thr'[t].op = thr[t].op /\ thr'[t].cmd = thr[t].cmd
      BY <2>3, ScanMoves
    <3> QED
      BY <3>1, <3>2, <3>3, <3>4
  <2> QED
    BY <2>1, <2>2, <2>3
<1>7. ASSUME NEW t \in Thread, AssertController(t) PROVE SucceededIsReal'
  BY <1>7 DEF AssertController, Goto, Return
<1>8. ASSUME NEW t \in Thread, NoActiveJob(t) PROVE SucceededIsReal'
  BY <1>8 DEF NoActiveJob, Goto, Return
<1>9. ASSUME NEW t \in Thread, ReviewAndInsert(t) PROVE SucceededIsReal'
  BY <1>9, CommandKnown DEF ReviewAndInsert
<1>10. ASSUME NEW t \in Thread, RejectCommand(t) PROVE SucceededIsReal'
  BY <1>10, FinishFacts, TransitionFacts, CommandKnown DEF RejectCommand, Return
<1>11. ASSUME NEW t \in Thread, Parse(t) PROVE SucceededIsReal'
  BY SMTT(60), <1>11, TransitionFacts, CommandKnown DEF Parse, Transition, Goto, Return
<1>12. ASSUME NEW t \in Thread, BeginValidation(t) PROVE SucceededIsReal'
  BY SMTT(60), <1>12, TransitionFacts, CommandKnown
  DEF BeginValidation, Transition, Goto, Return
<1>13. ASSUME NEW t \in Thread, Validate(t) PROVE SucceededIsReal'
  BY <1>13 DEF Validate, Goto
<1>14. ASSUME NEW t \in Thread, QueryPose(t) PROVE SucceededIsReal'
  <2>1. thr[t].pc = "query" /\ UNCHANGED <<kind, goal, sends, handles>>
    BY <1>14 DEF QueryPose
  <2>2. CASE UNCHANGED lifecycle
    BY SMTT(20), <1>14, <2>1, <2>2 DEF QueryPose, Transition, Goto, Return
  <2>3. CASE /\ MayBecome(thr[t].cmd, "EXECUTING")
             /\ lifecycle' = [lifecycle EXCEPT ![thr[t].cmd] = "EXECUTING"]
             /\ Goto(t, "answer")
    BY <2>1, <2>3, TransitionFacts, CommandKnown DEF Goto
  <2> QED
    BY <1>14, <2>2, <2>3 DEF QueryPose, Transition
<1>15. ASSUME NEW t \in Thread, AnswerPose(t) PROVE SucceededIsReal'
  BY <1>15, FinishFacts, TransitionFacts, CommandKnown DEF AnswerPose, Return, OutcomeIsReal, PoseLabels
<1>16. ASSUME NEW t \in Thread, OfferForConfirmation(t) PROVE SucceededIsReal'
  BY SMTT(60), <1>16, TransitionFacts, CommandKnown
  DEF OfferForConfirmation, Transition, Goto, Return
<1>17. ASSUME NEW t \in Thread, ConfirmCheck(t) PROVE SucceededIsReal'
  BY <1>17 DEF ConfirmCheck, Goto, Return
<1>18. ASSUME NEW t \in Thread, ExpireOwn(t) PROVE SucceededIsReal'
  BY <1>18, FinishFacts, TransitionFacts, CommandKnown DEF ExpireOwn, Return
<1>19. ASSUME NEW t \in Thread, ConfirmGate(t) PROVE SucceededIsReal'
  BY <1>19 DEF ConfirmGate, Goto, Return
<1>20. ASSUME NEW t \in Thread, Confirm(t) PROVE SucceededIsReal'
  BY SMTT(60), <1>20, TransitionFacts, CommandKnown DEF Confirm, Transition, Goto, Return
<1>21. ASSUME NEW t \in Thread, RequestExecution(t) PROVE SucceededIsReal'
  BY SMTT(60), <1>21, TransitionFacts, CommandKnown
  DEF RequestExecution, Transition, Goto, Return
<1>22. ASSUME NEW t \in Thread, Preflight(t) PROVE SucceededIsReal'
  BY SMTT(20), <1>22 DEF Preflight, Goto, Respond
<1>23. ASSUME NEW t \in Thread, SendGoal(t) PROVE SucceededIsReal'
  BY <1>23, CommandKnown DEF SendGoal, Goto, Respond, OutcomeIsReal, Drives, DriverLabels
<1>24. ASSUME NEW t \in Thread, AwaitAccept(t) PROVE SucceededIsReal'
  BY <1>24 DEF AwaitAccept, Goto, Respond
<1>25. ASSUME NEW t \in Thread, AwaitResult(t) PROVE SucceededIsReal'
  BY <1>25, CommandKnown DEF AwaitResult, Respond
<1>26. ASSUME NEW t \in Thread, RecordDispatched(t) PROVE SucceededIsReal'
  BY SMTT(60), <1>26, TransitionFacts, CommandKnown
  DEF RecordDispatched, Transition, Goto, Return
<1>27. ASSUME NEW t \in Thread, Conclude(t) PROVE SucceededIsReal'
  BY <1>27, FinishFacts, TransitionFacts, CommandKnown DEF Conclude, Return, OutcomeIsReal, FinalStateOf
<1>28. ASSUME NEW t \in Thread, CancelCheck(t) PROVE SucceededIsReal'
  BY SMTT(20), <1>28 DEF CancelCheck, Goto, Return
<1>29. ASSUME NEW t \in Thread, AbortCommand(t) PROVE SucceededIsReal'
  <2>1. Goto(t, "cancelGoal") \/ Goto(t, "cancel")
    BY <1>29 DEF AbortCommand
  <2>2. thr[t].pc = "abort" /\ UNCHANGED <<lifecycle, kind, goal, sends, handles>>
    BY <1>29 DEF AbortCommand
  <2> QED
    BY <2>1, <2>2 DEF Goto
<1>30. ASSUME NEW t \in Thread, CancelGoal(t) PROVE SucceededIsReal'
  <2>1. Goto(t, "cancel") \/ Return(t)
    BY <1>30 DEF CancelGoal
  <2>2. thr[t].pc = "cancelGoal" /\ UNCHANGED <<lifecycle, kind, sends, handles>>
    BY <1>30 DEF CancelGoal
  <2>3. \A c \in Command : goal[c] = "succeeded" => goal'[c] = "succeeded"
    BY <1>30 DEF CancelGoal, TypeOK
  <2> QED
    BY SMTT(20), <2>1, <2>2, <2>3, CommandKnown DEF Goto, Return
<1>31. ASSUME NEW t \in Thread, MarkCancelled(t) PROVE SucceededIsReal'
  BY <1>31, FinishFacts, TransitionFacts, CommandKnown DEF MarkCancelled, Return
<1>32. CASE Environment \/ UNCHANGED vars
  BY <1>32
  DEF Environment, WindowElapses, GoalResponse, GoalEnds, LeaseChanges, vars
<1> QED
  BY <1>1, <1>2, <1>3, <1>4, <1>5, <1>6, <1>7, <1>8, <1>9, <1>10,
     <1>11, <1>12, <1>13, <1>14, <1>15, <1>16, <1>17, <1>18, <1>19, <1>20,
     <1>21, <1>22, <1>23, <1>24, <1>25, <1>26, <1>27, <1>28, <1>29, <1>30,
     <1>31, <1>32
  DEF Next, Request, ThreadStep, EntryStep, SubmitStep, ConfirmStep,
      DispatchStep, CancelStep

(* Only the thread that registered a handle drops it.                      *)
LEMMA StepHandleHasWaiter == TypeOK /\ FramesOK /\ HandleHasWaiter /\ [Next]_vars => HandleHasWaiter'
<1> SUFFICES ASSUME TypeOK, FramesOK, HandleHasWaiter, [Next]_vars PROVE HandleHasWaiter'
  OBVIOUS
<1> thr \in [Thread -> Frame]
  BY DEF TypeOK
<1> USE DEF HandleHasWaiter, At, IdleFrame, Frame, cmdVars, rosVars
<1>1. ASSUME NEW t \in Thread, SubmitIntent(t) PROVE HandleHasWaiter'
  BY <1>1 DEF SubmitIntent, Start
<1>2. ASSUME NEW t \in Thread, ConfirmCommand(t) PROVE HandleHasWaiter'
  BY <1>2 DEF ConfirmCommand, Start
<1>3. ASSUME NEW t \in Thread, CancelCommand(t) PROVE HandleHasWaiter'
  BY <1>3 DEF CancelCommand, Start
<1>4. ASSUME NEW t \in Thread, Poll(t) PROVE HandleHasWaiter'
  BY <1>4 DEF Poll, Start
<1>5. ASSUME NEW t \in Thread, ScanPending(t) PROVE HandleHasWaiter'
  BY <1>5 DEF ScanPending, AfterScan
<1>6. ASSUME NEW t \in Thread, ExpirePending(t) PROVE HandleHasWaiter'
  <2>1. PICK c \in Command :
             \/ /\ MayBecome(c, "EXPIRED")
                /\ lifecycle' = [lifecycle EXCEPT ![c] = "EXPIRED"]
                /\ thr' = AfterScan(t, thr[t].expiring \ {c})
             \/ UNCHANGED lifecycle /\ Return(t)
    BY <1>6 DEF ExpirePending
  <2>2. CASE UNCHANGED lifecycle /\ Return(t)
    BY <1>6, <2>2 DEF ExpirePending, Return
  <2>3. CASE /\ MayBecome(c, "EXPIRED")
             /\ lifecycle' = [lifecycle EXCEPT ![c] = "EXPIRED"]
             /\ thr' = AfterScan(t, thr[t].expiring \ {c})
    <3>1. /\ thr[t].pc = "expire" /\ c \in Command
          /\ UNCHANGED <<kind, goal, sends, handles>>
      BY <1>6 DEF ExpirePending
    <3>2. lifecycle[c] \notin PostConfirm \cup {"ABSENT"}
      BY <2>3, <3>1, TransitionFacts DEF PostConfirm
    <3>3. \A d \in Command : lifecycle'[d] = IF d = c THEN "EXPIRED" ELSE lifecycle[d]
      BY <2>3, <3>1 DEF TypeOK
    <3>4. /\ \A s \in Thread : s # t => thr'[s] = thr[s]
          /\ \/ thr'[t] = IdleFrame
             \/ /\ thr'[t].pc \in {"expire", "assert"}
                /\ thr'[t].op = thr[t].op /\ thr'[t].cmd = thr[t].cmd
      BY <2>3, ScanMoves
    <3> QED
      BY <3>1, <3>2, <3>3, <3>4
  <2> QED
    BY <2>1, <2>2, <2>3
<1>7. ASSUME NEW t \in Thread, AssertController(t) PROVE HandleHasWaiter'
  BY <1>7 DEF AssertController, Goto, Return
<1>8. ASSUME NEW t \in Thread, NoActiveJob(t) PROVE HandleHasWaiter'
  BY <1>8 DEF NoActiveJob, Goto, Return
<1>9. ASSUME NEW t \in Thread, ReviewAndInsert(t) PROVE HandleHasWaiter'
  BY <1>9 DEF ReviewAndInsert, Goto
<1>10. ASSUME NEW t \in Thread, RejectCommand(t) PROVE HandleHasWaiter'
  BY <1>10, FinishFacts, TransitionFacts, CommandKnown DEF RejectCommand, Return
<1>11. ASSUME NEW t \in Thread, Parse(t) PROVE HandleHasWaiter'
  BY SMTT(60), <1>11, TransitionFacts, CommandKnown DEF Parse, Transition, Goto, Return
<1>12. ASSUME NEW t \in Thread, BeginValidation(t) PROVE HandleHasWaiter'
  BY SMTT(60), <1>12, TransitionFacts, CommandKnown
  DEF BeginValidation, Transition, Goto, Return
<1>13. ASSUME NEW t \in Thread, Validate(t) PROVE HandleHasWaiter'
  BY <1>13 DEF Validate, Goto
<1>14. ASSUME NEW t \in Thread, QueryPose(t) PROVE HandleHasWaiter'
  <2>1. thr[t].pc = "query" /\ UNCHANGED <<kind, goal, sends, handles>>
    BY <1>14 DEF QueryPose
  <2>2. CASE UNCHANGED lifecycle
    BY SMTT(20), <1>14, <2>1, <2>2 DEF QueryPose, Transition, Goto, Return
  <2>3. CASE /\ MayBecome(thr[t].cmd, "EXECUTING")
             /\ lifecycle' = [lifecycle EXCEPT ![thr[t].cmd] = "EXECUTING"]
             /\ Goto(t, "answer")
    BY <2>1, <2>3, TransitionFacts, CommandKnown DEF Goto
  <2> QED
    BY <1>14, <2>2, <2>3 DEF QueryPose, Transition
<1>15. ASSUME NEW t \in Thread, AnswerPose(t) PROVE HandleHasWaiter'
  BY <1>15, FinishFacts, TransitionFacts, CommandKnown DEF AnswerPose, Return
<1>16. ASSUME NEW t \in Thread, OfferForConfirmation(t) PROVE HandleHasWaiter'
  BY SMTT(60), <1>16, TransitionFacts, CommandKnown
  DEF OfferForConfirmation, Transition, Goto, Return
<1>17. ASSUME NEW t \in Thread, ConfirmCheck(t) PROVE HandleHasWaiter'
  BY <1>17 DEF ConfirmCheck, Goto, Return
<1>18. ASSUME NEW t \in Thread, ExpireOwn(t) PROVE HandleHasWaiter'
  BY <1>18, FinishFacts, TransitionFacts, CommandKnown DEF ExpireOwn, Return
<1>19. ASSUME NEW t \in Thread, ConfirmGate(t) PROVE HandleHasWaiter'
  BY <1>19 DEF ConfirmGate, Goto, Return
<1>20. ASSUME NEW t \in Thread, Confirm(t) PROVE HandleHasWaiter'
  BY SMTT(60), <1>20, TransitionFacts, CommandKnown DEF Confirm, Transition, Goto, Return
<1>21. ASSUME NEW t \in Thread, RequestExecution(t) PROVE HandleHasWaiter'
  BY SMTT(60), <1>21, TransitionFacts, CommandKnown
  DEF RequestExecution, Transition, Goto, Return
<1>22. ASSUME NEW t \in Thread, Preflight(t) PROVE HandleHasWaiter'
  BY SMTT(20), <1>22 DEF Preflight, Goto, Respond
<1>23. ASSUME NEW t \in Thread, SendGoal(t) PROVE HandleHasWaiter'
  BY <1>23 DEF SendGoal, Goto, Respond
<1>24. ASSUME NEW t \in Thread, AwaitAccept(t) PROVE HandleHasWaiter'
  BY <1>24, CommandKnown DEF AwaitAccept, Goto, Respond
<1>25. ASSUME NEW t \in Thread, AwaitResult(t) PROVE HandleHasWaiter'
  BY <1>25, CommandKnown DEF AwaitResult, Respond
<1>26. ASSUME NEW t \in Thread, RecordDispatched(t) PROVE HandleHasWaiter'
  BY SMTT(60), <1>26, TransitionFacts, CommandKnown
  DEF RecordDispatched, Transition, Goto, Return
<1>27. ASSUME NEW t \in Thread, Conclude(t) PROVE HandleHasWaiter'
  BY <1>27, FinishFacts, TransitionFacts, CommandKnown DEF Conclude, Return
<1>28. ASSUME NEW t \in Thread, CancelCheck(t) PROVE HandleHasWaiter'
  BY SMTT(20), <1>28 DEF CancelCheck, Goto, Return
<1>29. ASSUME NEW t \in Thread, AbortCommand(t) PROVE HandleHasWaiter'
  <2>1. Goto(t, "cancelGoal") \/ Goto(t, "cancel")
    BY <1>29 DEF AbortCommand
  <2>2. thr[t].pc = "abort" /\ UNCHANGED <<lifecycle, kind, goal, sends, handles>>
    BY <1>29 DEF AbortCommand
  <2> QED
    BY <2>1, <2>2 DEF Goto
<1>30. ASSUME NEW t \in Thread, CancelGoal(t) PROVE HandleHasWaiter'
  <2>1. Goto(t, "cancel") \/ Return(t)
    BY <1>30 DEF CancelGoal
  <2>2. thr[t].pc = "cancelGoal" /\ UNCHANGED <<lifecycle, kind, sends, handles>>
    BY <1>30 DEF CancelGoal
  <2>3. \A c \in Command : goal[c] = "succeeded" => goal'[c] = "succeeded"
    BY <1>30 DEF CancelGoal, TypeOK
  <2> QED
    BY SMTT(20), <2>1, <2>2, <2>3, CommandKnown DEF Goto, Return
<1>31. ASSUME NEW t \in Thread, MarkCancelled(t) PROVE HandleHasWaiter'
  BY <1>31, FinishFacts, TransitionFacts, CommandKnown DEF MarkCancelled, Return
<1>32. CASE Environment \/ UNCHANGED vars
  BY <1>32
  DEF Environment, WindowElapses, GoalResponse, GoalEnds, LeaseChanges, vars
<1> QED
  BY <1>1, <1>2, <1>3, <1>4, <1>5, <1>6, <1>7, <1>8, <1>9, <1>10,
     <1>11, <1>12, <1>13, <1>14, <1>15, <1>16, <1>17, <1>18, <1>19, <1>20,
     <1>21, <1>22, <1>23, <1>24, <1>25, <1>26, <1>27, <1>28, <1>29, <1>30,
     <1>31, <1>32
  DEF Next, Request, ThreadStep, EntryStep, SubmitStep, ConfirmStep,
      DispatchStep, CancelStep

(* Only SendGoal sends, and a driver that has not sent finds nothing sent.  *)
LEMMA StepAtMostOneGoal ==
    TypeOK /\ FramesOK /\ OneDriver /\ AtMostOneGoal /\ [Next]_vars => AtMostOneGoal'
<1> SUFFICES ASSUME TypeOK, FramesOK, OneDriver, AtMostOneGoal, [Next]_vars
             PROVE  AtMostOneGoal'
  OBVIOUS
<1>1. ASSUME NEW t \in Thread, SendGoal(t) PROVE AtMostOneGoal'
  <2>1. thr[t].cmd \in Command /\ sends[thr[t].cmd] = 0
    BY <1>1, CommandKnown
    DEF SendGoal, At, OneDriver, Drives, DriverLabels, BeforeSend
  <2>2. sends \in [Command -> Nat]
    BY DEF TypeOK
  <2> QED
    BY <1>1, <2>1, <2>2 DEF SendGoal, AtMostOneGoal
<1>2. CASE UNCHANGED sends
  BY <1>2 DEF AtMostOneGoal
<1>3. ASSUME NEW t \in Thread, DispatchStep(t), ~SendGoal(t) PROVE UNCHANGED sends
  BY <1>3
  DEF DispatchStep, Preflight, AwaitAccept, AwaitResult, RecordDispatched, Conclude, rosVars
<1>4. ASSUME NEW t \in Thread, Request(t) \/ EntryStep(t) PROVE UNCHANGED sends
  BY <1>4
  DEF Request, SubmitIntent, ConfirmCommand, CancelCommand, Poll, Start, EntryStep,
      ScanPending, ExpirePending, AssertController, rosVars
<1>5. ASSUME NEW t \in Thread, SubmitStep(t) PROVE UNCHANGED sends
  BY <1>5
  DEF SubmitStep, NoActiveJob, ReviewAndInsert, RejectCommand, Parse, BeginValidation,
      Validate, QueryPose, AnswerPose, OfferForConfirmation, rosVars
<1>6. ASSUME NEW t \in Thread, ConfirmStep(t) \/ CancelStep(t) PROVE UNCHANGED sends
  BY <1>6
  DEF ConfirmStep, ConfirmCheck, ExpireOwn, ConfirmGate, Confirm, RequestExecution,
      CancelStep, CancelCheck, AbortCommand, CancelGoal, MarkCancelled, rosVars
<1>7. ASSUME Environment \/ UNCHANGED vars PROVE UNCHANGED sends
  BY <1>7
  DEF Environment, WindowElapses, GoalResponse, GoalEnds, LeaseChanges, rosVars, vars
<1> QED
  BY <1>1, <1>2, <1>3, <1>4, <1>5, <1>6, <1>7 DEF Next, ThreadStep

(* Nothing is driven, sent or settled before the first request.            *)
LEMMA InitDispatchInv == Init => DispatchInv
<1> SUFFICES ASSUME Init PROVE DispatchInv
  OBVIOUS
<1>1. FramesOK
  BY InitTypeOK
<1>2. \A t \in Thread : thr[t] = IdleFrame
  BY DEF Init
<1>3. InsertOnce
  BY <1>2 DEF InsertOnce, BeforeInsert, IdleFrame
<1>4. OneDriver
  BY <1>2 DEF Init, OneDriver, Drives, DriverLabels, IdleFrame
<1>5. OutcomeIsReal
  BY <1>2 DEF OutcomeIsReal, PoseLabels, Drives, DriverLabels, IdleFrame
<1>6. AtMostOneGoal /\ SucceededIsReal /\ HandleHasWaiter
  BY DEF Init, AtMostOneGoal, SucceededIsReal, HandleHasWaiter
<1> QED
  BY <1>1, <1>3, <1>4, <1>5, <1>6 DEF DispatchInv

(* The inductive invariant: one confirmation carries a command to the      *)
(* robot, at most once, and reports what the robot did.                    *)
THEOREM DispatchInvariant == Spec => [](TypeOK /\ DispatchInv)
<1>1. Init => TypeOK /\ DispatchInv
  BY InitTypeOK, InitDispatchInv
<1>2. TypeOK /\ DispatchInv /\ [Next]_vars => (TypeOK /\ DispatchInv)'
  BY StepTypeOK, StepFramesOK, StepInsertOnce, StepOneDriver, StepOutcomeIsReal,
     StepAtMostOneGoal, StepSucceededIsReal, StepHandleHasWaiter
  DEF DispatchInv
<1> QED
  BY <1>1, <1>2, PTL DEF Spec

(* confirm_command, cancel_command and the expiry scans may race in any    *)
(* number of threads: a command reaches ROS at most once.                  *)
THEOREM OneGoalPerCommand == Spec => []AtMostOneGoal
<1>1. DispatchInv => AtMostOneGoal
  BY DEF DispatchInv
<1> QED
  BY <1>1, DispatchInvariant, PTL

(* A command that _expire_command or _reject_command settled was not sent. *)
THEOREM ExpiredStaysOffRobot == Spec => []ExpiredNeverDispatched
<1>1. TypeOK /\ DispatchInv => ExpiredNeverDispatched
  BY DEF TypeOK, DispatchInv, OneDriver, ExpiredNeverDispatched, PostConfirm
<1> QED
  BY <1>1, DispatchInvariant, PTL

(* SUCCEEDED in the HMI means that the ROS goal succeeded.                 *)
THEOREM SuccessIsTruthful == Spec => []SucceededIsReal
<1>1. DispatchInv => SucceededIsReal
  BY DEF DispatchInv
<1> QED
  BY <1>1, DispatchInvariant, PTL

(* _goal_handles holds no entry whose dispatching request has ended.       *)
THEOREM NoHandleLeaks == Spec => []HandleHasWaiter
<1>1. DispatchInv => HandleHasWaiter
  BY DEF DispatchInv
<1> QED
  BY <1>1, DispatchInvariant, PTL

(* Nothing but one goal of a confirmed command leaves for ROS.             *)
THEOREM DispatchIsSafe == Spec => []DispatchSafe
<1>1. TypeOK /\ AtMostOneGoal /\ ExpiredNeverDispatched /\ HandleHasWaiter => DispatchSafe
  BY DEF DispatchSafe
<1> QED
  BY <1>1, TypeCorrect, OneGoalPerCommand, ExpiredStaysOffRobot, NoHandleLeaks, PTL

(* _transition_command never moves a settled command.                      *)
LEMMA TransitionKeepsSettled ==
    ASSUME TypeOK, NEW t, NEW d \in Command, NEW next, NEW l,
           Transition(t, d, next, l),
           NEW c \in Command, lifecycle[c] \in Terminal
    PROVE  lifecycle'[c] = lifecycle[c]
<1> lifecycle \in [Command -> Lifecycle \cup {"ABSENT"}]
  BY DEF TypeOK
<1>1. CASE MayBecome(d, next)
  BY <1>1, TransitionFacts DEF Transition
<1>2. CASE ~MayBecome(d, next)
  BY <1>2 DEF Transition
<1> QED
  BY <1>1, <1>2

(* Whatever requests race, a settled command keeps its lifecycle state.    *)
THEOREM SettledStaysSettled == Spec => TerminalIsFinal
<1> DEFINE Keeps == \A c \in Command :
                       lifecycle[c] \in Terminal => lifecycle'[c] = lifecycle[c]
<1>1. TypeOK /\ DispatchInv /\ [Next]_vars => Keeps
  <2> SUFFICES ASSUME TypeOK, FramesOK, InsertOnce, [Next]_vars,
                      NEW c \in Command, lifecycle[c] \in Terminal
               PROVE  lifecycle'[c] = lifecycle[c]
    BY DEF DispatchInv
  <2> lifecycle \in [Command -> Lifecycle \cup {"ABSENT"}] /\ thr \in [Thread -> Frame]
    BY DEF TypeOK
  <2> USE DEF At, cmdVars
  <2>1. ASSUME NEW t \in Thread, Request(t) PROVE UNCHANGED lifecycle
    BY <2>1 DEF Request, SubmitIntent, ConfirmCommand, CancelCommand, Poll, Start
  <2>2. ASSUME NEW t \in Thread, ScanPending(t) \/ AssertController(t)
        PROVE  UNCHANGED lifecycle
    BY <2>2 DEF ScanPending, AssertController
  <2>3. ASSUME NEW t \in Thread, ExpirePending(t) PROVE lifecycle'[c] = lifecycle[c]
    <3>1. PICK d \in Command :
             \/ /\ MayBecome(d, "EXPIRED")
                /\ lifecycle' = [lifecycle EXCEPT ![d] = "EXPIRED"]
             \/ UNCHANGED lifecycle
      BY <2>3 DEF ExpirePending, Frame
    <3> QED
      BY <3>1, TransitionFacts
  <2>4. ASSUME NEW t \in Thread, ReviewAndInsert(t) PROVE lifecycle'[c] = lifecycle[c]
    BY <2>4, CommandKnown DEF ReviewAndInsert, InsertOnce, BeforeInsert, FramesOK, Terminal
  <2>5. ASSUME NEW t \in Thread, SubmitStep(t), ~ReviewAndInsert(t)
        PROVE  lifecycle'[c] = lifecycle[c]
    BY <2>5, CommandKnown, TransitionKeepsSettled
    DEF SubmitStep, NoActiveJob, RejectCommand, Parse, BeginValidation, Validate,
        QueryPose, AnswerPose, OfferForConfirmation, Finish
  <2>6. ASSUME NEW t \in Thread, ConfirmStep(t) PROVE lifecycle'[c] = lifecycle[c]
    BY <2>6, CommandKnown, TransitionKeepsSettled
    DEF ConfirmStep, ConfirmCheck, ExpireOwn, ConfirmGate, Confirm, RequestExecution, Finish
  <2>7. ASSUME NEW t \in Thread, DispatchStep(t) PROVE lifecycle'[c] = lifecycle[c]
    BY <2>7, CommandKnown, TransitionKeepsSettled
    DEF DispatchStep, Preflight, SendGoal, AwaitAccept, AwaitResult, RecordDispatched,
        Conclude, Finish
  <2>8. ASSUME NEW t \in Thread, CancelStep(t) PROVE lifecycle'[c] = lifecycle[c]
    BY <2>8, CommandKnown, TransitionKeepsSettled
    DEF CancelStep, CancelCheck, AbortCommand, CancelGoal, MarkCancelled, Finish
  <2>9. CASE Environment \/ UNCHANGED vars
    BY <2>9 DEF Environment, WindowElapses, GoalResponse, GoalEnds, LeaseChanges, vars
  <2> QED
    BY <2>1, <2>2, <2>3, <2>4, <2>5, <2>6, <2>7, <2>8, <2>9
    DEF Next, ThreadStep, EntryStep
<1>2. TypeOK /\ DispatchInv /\ [Next]_vars => [Keeps]_vars
  BY <1>1
<1>3. [](TypeOK /\ DispatchInv) /\ [][Next]_vars => [][Keeps]_vars
  BY <1>2, PTL
<1> QED
  BY <1>3, DispatchInvariant, PTL DEF Spec, TerminalIsFinal

-----------------------------------------------------------------------------
(* A request that is past its check works on a command of its own client.  *)
ActsForOwner ==
    \A t \in Thread :
        thr[t].pc \notin BeforeInsert \cup {"idle", "confirmCheck", "cancelCheck"}
            => owner[thr[t].cmd] = thr[t].client

(* A step of a thread leaves the others where they are, and its own frame  *)
(* keeps command and client until it is idle.                              *)
LEMMA StepOfOneThread ==
    ASSUME TypeOK, FramesOK, NEW t \in Thread, ThreadStep(t)
    PROVE  /\ \A u \in Thread : u # t => thr'[u] = thr[u]
           /\ \/ thr'[t] = IdleFrame
              \/ thr'[t].cmd = thr[t].cmd /\ thr'[t].client = thr[t].client
<1> thr \in [Thread -> Frame]
  BY DEF TypeOK
<1> USE DEF Frame
<1>1. CASE (\E l : Goto(t, l)) \/ Return(t) \/ (\E o : Respond(t, o))
  BY <1>1 DEF Goto, Return, Respond
<1>2. CASE \E rest : thr' = AfterScan(t, rest)
  BY <1>2 DEF AfterScan
<1>3. ASSUME NEW c, NEW next, NEW l, Transition(t, c, next, l)
      PROVE  (\E m : Goto(t, m)) \/ Return(t)
  BY <1>3 DEF Transition
<1>4. CASE EntryStep(t)
  BY <1>1, <1>2, <1>4 DEF EntryStep, ScanPending, ExpirePending, AssertController
<1>5. CASE SubmitStep(t)
  BY <1>1, <1>3, <1>5
  DEF SubmitStep, NoActiveJob, ReviewAndInsert, RejectCommand, Parse, BeginValidation,
      Validate, QueryPose, AnswerPose, OfferForConfirmation, Finish
<1>6. CASE ConfirmStep(t)
  BY <1>1, <1>3, <1>6
  DEF ConfirmStep, ConfirmCheck, ExpireOwn, ConfirmGate, Confirm, RequestExecution, Finish
<1>7. CASE DispatchStep(t)
  BY <1>1, <1>3, <1>7
  DEF DispatchStep, Preflight, SendGoal, AwaitAccept, AwaitResult, RecordDispatched,
      Conclude, Finish
<1>8. CASE CancelStep(t)
  BY <1>1, <1>3, <1>8
  DEF CancelStep, CancelCheck, AbortCommand, CancelGoal, MarkCancelled, Finish
<1> QED
  BY <1>4, <1>5, <1>6, <1>7, <1>8 DEF ThreadStep

(* A request starts in a frame that acts for nobody yet.                   *)
LEMMA RequestStarts ==
    ASSUME TypeOK, NEW t \in Thread, Request(t)
    PROVE  /\ thr[t].pc = "idle" /\ thr'[t].pc = "scan"
           /\ \A u \in Thread : u # t => thr'[u] = thr[u]
           /\ UNCHANGED <<lifecycle, owner>>
<1>1. PICK op, cl, k, c : Start(t, op, cl, k, c)
  BY DEF Request, SubmitIntent, ConfirmCommand, CancelCommand, Poll
<1>2. thr \in [Thread -> Frame]
  BY DEF TypeOK
<1>3. thr' = [thr EXCEPT ![t] = [IdleFrame EXCEPT
                  !.pc = "scan", !.op = op, !.client = cl, !.token = k, !.cmd = c]]
  BY <1>1 DEF Start
<1>4. thr'[t].pc = "scan"
  BY <1>2, <1>3 DEF IdleFrame
<1>5. \A u \in Thread : u # t => thr'[u] = thr[u]
  BY <1>3
<1> QED
  BY <1>1, <1>4, <1>5 DEF Start, At, cmdVars

(* The owner of a command is set once, with its insertion.                 *)
LEMMA StepActsForOwner ==
    TypeOK /\ FramesOK /\ InsertOnce /\ ActsForOwner /\ [Next]_vars => ActsForOwner'
<1> SUFFICES ASSUME TypeOK, FramesOK, InsertOnce, ActsForOwner, [Next]_vars
             PROVE  ActsForOwner'
  OBVIOUS
<1> DEFINE Early == BeforeInsert \cup {"idle", "confirmCheck", "cancelCheck"}
<1> thr \in [Thread -> Frame] /\ owner \in [Command -> Client \cup {NoClient}]
  BY DEF TypeOK
<1> USE DEF At, BeforeInsert, cmdVars
<1>1. ASSUME NEW t \in Thread, Request(t) PROVE ActsForOwner'
  BY <1>1, RequestStarts DEF ActsForOwner
<1>2. ASSUME NEW t \in Thread, ReviewAndInsert(t) PROVE ActsForOwner'
  <2>1. /\ thr[t].cmd \in Command /\ lifecycle[thr[t].cmd] = "ABSENT"
        /\ owner' = [owner EXCEPT ![thr[t].cmd] = thr[t].client]
    BY <1>2, CommandKnown DEF ReviewAndInsert, FramesOK, InsertOnce
  <2>2. (Goto(t, "reject") \/ Goto(t, "parsing"))
    BY <1>2 DEF ReviewAndInsert
  <2>3. ASSUME NEW u \in Thread, thr'[u].pc \notin Early
        PROVE  owner'[thr'[u].cmd] = thr'[u].client
    <3>1. CASE u = t
      BY <2>1, <2>2, <3>1 DEF Goto, Frame
    <3>2. CASE u # t
      <4>1. thr'[u] = thr[u]
        BY <2>2, <3>2 DEF Goto
      <4>2. thr[u].cmd \in Command /\ lifecycle[thr[u].cmd] # "ABSENT"
        BY <2>3, <4>1, CommandKnown DEF InsertOnce
      <4> QED
        BY <2>1, <2>3, <4>1, <4>2 DEF ActsForOwner
    <3> QED
      BY <3>1, <3>2
  <2> QED
    BY <2>3 DEF ActsForOwner
<1>3. ASSUME NEW t \in Thread, ThreadStep(t), ~ReviewAndInsert(t) PROVE ActsForOwner'
  <2>1. UNCHANGED owner
    <3>1. CASE EntryStep(t) \/ CancelStep(t)
      BY <3>1 DEF EntryStep, CancelStep, ScanPending, ExpirePending, AssertController,
                  CancelCheck, AbortCommand, CancelGoal, MarkCancelled
    <3>2. CASE SubmitStep(t)
      BY <1>3, <3>2
      DEF SubmitStep, NoActiveJob, RejectCommand, Parse, BeginValidation, Validate,
          QueryPose, AnswerPose, OfferForConfirmation
    <3>3. CASE ConfirmStep(t) \/ DispatchStep(t)
      BY <3>3
      DEF ConfirmStep, ConfirmCheck, ExpireOwn, ConfirmGate, Confirm, RequestExecution,
          DispatchStep, Preflight, SendGoal, AwaitAccept, AwaitResult,
          RecordDispatched, Conclude
    <3> QED
      BY <1>3, <3>1, <3>2, <3>3 DEF ThreadStep
  <2>2. \/ thr'[t] = IdleFrame \/ thr'[t].pc \in Early
        \/ thr[t].pc \notin Early \/ owner[thr[t].cmd] = thr[t].client
    <3> USE DEF Goto, Return, Frame
    <3>1. CASE EntryStep(t)
      BY <3>1 DEF EntryStep, ScanPending, ExpirePending, AssertController, AfterScan
    <3>2. CASE SubmitStep(t)
      BY <1>3, <3>2
      DEF SubmitStep, NoActiveJob, RejectCommand, Parse, BeginValidation, Validate,
          QueryPose, AnswerPose, OfferForConfirmation
    <3>3. CASE ConfirmStep(t)
      BY <3>3
      DEF ConfirmStep, ConfirmCheck, ExpireOwn, ConfirmGate, Confirm, RequestExecution, Owned
    <3>4. CASE DispatchStep(t)
      BY <3>4 DEF DispatchStep, Preflight, SendGoal, AwaitAccept, AwaitResult,
          RecordDispatched, Conclude
    <3>5. CASE CancelStep(t)
      BY <3>5 DEF CancelStep, CancelCheck, AbortCommand, CancelGoal, MarkCancelled, Owned
    <3> QED
      BY <1>3, <3>1, <3>2, <3>3, <3>4, <3>5 DEF ThreadStep
  <2> QED
    BY <1>3, <2>1, <2>2, StepOfOneThread DEF ActsForOwner, IdleFrame
<1>4. CASE Environment \/ UNCHANGED vars
  BY <1>4
  DEF Environment, WindowElapses, GoalResponse, GoalEnds, LeaseChanges, vars, ActsForOwner
<1> QED
  BY <1>1, <1>2, <1>3, <1>4 DEF Next

(* Whoever confirms or cancels a command is served by a request of the     *)
(* client that submitted it, whatever happened to the lease meanwhile.     *)
THEOREM OwnersAct == Spec => OnlyOwnerActs
<1> DEFINE Own == \A c \in Command :
                lifecycle'[c] # lifecycle[c] /\ lifecycle'[c] \in {"CONFIRMED", "CANCELLED"}
                   => \E t \in Thread : /\ thr'[t] # thr[t]
                                        /\ thr[t].cmd = c
                                        /\ thr[t].client = owner[c]
<1>1. TypeOK /\ DispatchInv /\ ActsForOwner /\ [Next]_vars => Own
  <2> SUFFICES ASSUME TypeOK, FramesOK, ActsForOwner, [Next]_vars, NEW c \in Command,
                      lifecycle'[c] # lifecycle[c],
                      lifecycle'[c] \in {"CONFIRMED", "CANCELLED"}
               PROVE  \E t \in Thread : /\ thr'[t] # thr[t]
                                        /\ thr[t].cmd = c
                                        /\ thr[t].client = owner[c]
    BY DEF DispatchInv
  <2> lifecycle \in [Command -> Lifecycle \cup {"ABSENT"}] /\ thr \in [Thread -> Frame]
    BY DEF TypeOK
  <2> USE DEF At, cmdVars
  <2>1. ASSUME NEW t \in Thread, NEW l, thr[t].pc # l,
               (Return(t) /\ thr[t].pc # "idle") \/ Goto(t, l)
        PROVE  thr'[t] # thr[t]
    BY <2>1 DEF Return, Goto, IdleFrame, Frame
  <2>2. ASSUME NEW t \in Thread, Confirm(t) \/ Conclude(t) \/ MarkCancelled(t)
        PROVE  /\ thr'[t] # thr[t] /\ thr[t].cmd = c
               /\ thr[t].client = owner[c]
    <3>1. thr[t].pc \in {"confirm", "conclude", "cancel"} /\ thr[t].cmd \in Command
      BY <2>2, CommandKnown DEF Confirm, Conclude, MarkCancelled
    <3>2. thr[t].client = owner[thr[t].cmd]
      BY <3>1 DEF ActsForOwner, BeforeInsert
    <3>3. \E d : lifecycle' = [lifecycle EXCEPT ![thr[t].cmd] = d]
      BY <2>2 DEF Confirm, Conclude, MarkCancelled, Finish, Transition
    <3>4. thr[t].cmd = c
      BY <3>1, <3>3
    <3>5. Return(t) \/ Goto(t, "request")
      BY <2>2 DEF Confirm, Conclude, MarkCancelled, Finish, Transition
    <3> QED
      BY <2>1, <3>1, <3>2, <3>4, <3>5
  <2>3. ASSUME NEW t \in Thread, ThreadStep(t), ~(Confirm(t) \/ Conclude(t) \/ MarkCancelled(t))
        PROVE  FALSE
    <3>1. \/ UNCHANGED lifecycle
          \/ \E d \in Command : \E s :
                /\ s \notin {"CONFIRMED", "CANCELLED"}
                /\ lifecycle' = [lifecycle EXCEPT ![d] = s]
      <4>1. CASE EntryStep(t)
        BY <4>1 DEF EntryStep, ScanPending, ExpirePending, AssertController, Frame
      <4>2. CASE SubmitStep(t)
        BY <4>2, CommandKnown
        DEF SubmitStep, NoActiveJob, ReviewAndInsert, RejectCommand, Parse,
            BeginValidation, Validate, QueryPose, AnswerPose, OfferForConfirmation,
            Finish, Transition
      <4>3. CASE ConfirmStep(t)
        BY <2>3, <4>3, CommandKnown
        DEF ConfirmStep, ConfirmCheck, ExpireOwn, ConfirmGate, RequestExecution,
            Finish, Transition
      <4>4. CASE DispatchStep(t)
        BY <2>3, <4>4, CommandKnown
        DEF DispatchStep, Preflight, SendGoal, AwaitAccept, AwaitResult, RecordDispatched,
            Transition
      <4>5. CASE CancelStep(t)
        BY <2>3, <4>5 DEF CancelStep, CancelCheck, AbortCommand, CancelGoal
      <4> QED
        BY <2>3, <4>1, <4>2, <4>3, <4>4, <4>5 DEF ThreadStep
    <3> QED
      BY <3>1
  <2>4. CASE (\E t \in Thread : Request(t)) \/ Environment \/ UNCHANGED vars
    BY <2>4, RequestStarts
    DEF Environment, WindowElapses, GoalResponse, GoalEnds, LeaseChanges, vars
  <2> QED
    BY <2>2, <2>3, <2>4 DEF Next
<1>2. Init => ActsForOwner
  BY DEF Init, ActsForOwner, IdleFrame
<1>3. TypeOK /\ DispatchInv /\ ActsForOwner /\ [Next]_vars => [Own]_vars
  BY <1>1
<1>4. TypeOK /\ DispatchInv /\ ActsForOwner /\ [Next]_vars => ActsForOwner'
  BY StepActsForOwner DEF DispatchInv
<1>5. Spec => [](TypeOK /\ DispatchInv /\ ActsForOwner)
  BY <1>2, <1>4, DispatchInvariant, PTL DEF Spec
<1>6. [](TypeOK /\ DispatchInv /\ ActsForOwner) /\ [][Next]_vars => [][Own]_vars
  BY <1>3, PTL
<1> QED
  BY <1>5, <1>6, PTL DEF Spec, OnlyOwnerActs
=============================================================================
