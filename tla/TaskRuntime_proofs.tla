--------------------------- MODULE TaskRuntime_proofs ---------------------------
(***************************************************************************)
(* The task runtime of the gateway and the perception that grounds its     *)
(* tasks, for any number of runs and objects and for any task tree.  A run *)
(* does what was confirmed: all of it when it reports success, never more, *)
(* and a fault ends it.  scene_processor remembers every object it put     *)
(* into the planning scene, what it answers the planner stands on the      *)
(* calibration in force, and its tracker reports what was seen.            *)
(***************************************************************************)
EXTENDS TaskRuntime, ScenePerception, FiniteSetTheorems, TLAPS

(* ---- the tasks ---- *)

Flags == stopFlag \in BOOLEAN /\ result \in [Run -> BOOLEAN]

Counts ==
    /\ command \in [Run -> Nat] /\ items \in [Run -> 0..MaxItems]
    /\ sent \in [Run -> Nat] /\ attempts \in [Run -> Nat]
    /\ won \in [Run -> Nat] /\ late \in [Run -> Nat]

Places ==
    /\ pc \in [Run -> Labels] /\ cursor \in [Run -> Node] /\ stack \in [Run -> Seq(Frame)]
    /\ waiting \in Run \cup {NoRun} /\ achieved \in [Run -> SUBSET Node] /\ saw \subseteq Run
    /\ goals \subseteq Goal

(* A frame of the stack stands at a child that the node has and in a round *)
(* that it makes.                                                          *)
Fits(f, n) == f.child \in DOMAIN Kids[f.node] /\ f.round \in 1..n

StackFits ==
    \A r \in Run : \A i \in DOMAIN stack[r] : Fits(stack[r][i], Rounds(r, stack[r][i].node))

(* A collection changes only while its run has no stack.                   *)
NewIsEmpty == \A r \in Run : pc[r] = "new" => stack[r] = <<>>

TaskInv == Flags /\ Counts /\ Places /\ StackFits /\ NewIsEmpty

(* What the assumptions give of the tree and of the bounds.                *)
LEMMA TaskBounds ==
    /\ MaxItems \in Nat /\ MaxLeft \in Nat /\ NoRun \notin Run
    /\ Type \in [Node -> {"skill", "sequence", "repeat", "retry", "fallback", "for_each"}]
    /\ Kids \in [Node -> Seq(Node)] /\ \A n \in Node : Type[n] = "skill" <=> Kids[n] = <<>>
    /\ Count \in [Node -> Nat] /\ Motions \in [Node -> Nat]
    /\ Root \in [Run -> (SUBSET Node) \ {{}}]
    BY TaskAssumption

(* A node makes a number of rounds.                                        *)
LEMMA RoundsCount == ASSUME Counts, NEW r \in Run, NEW n \in Node PROVE Rounds(r, n) \in Nat
    BY TaskBounds DEF Counts, Rounds

(* The invariant of the tasks has their types.                             *)
LEMMA TaskTypes == TaskInv => TypeOK
    BY DEF TaskInv, Flags, Counts, Places, StackFits, Fits, TypeOK

(* Before the first confirmation nothing runs.                             *)
LEMMA TaskInitially == Init => TaskInv
<1> SUFFICES ASSUME Init PROVE TaskInv
    OBVIOUS
<1>1. Flags
    BY Zenon DEF Init, Flags
<1>2. Counts
    BY TaskBounds DEF Init, Counts
<1>3. \A r \in Run : (CHOOSE n \in Root[r] : TRUE) \in Node
    <2> TAKE r \in Run
    <2>1. Root[r] \subseteq Node /\ \E n \in Root[r] : TRUE
        BY TaskBounds
    <2> QED
        BY <2>1
<1>4. Places
    BY <1>3, TaskBounds DEF Init, Places, Labels
<1>5. StackFits /\ NewIsEmpty
    BY DEF Init, StackFits, NewIsEmpty
<1> QED
    BY <1>1, <1>2, <1>4, <1>5 DEF TaskInv

(* The end of a skill or of a node is a result of its run.                 *)
LEMMA FinishFlags ==
    ASSUME Flags, stopFlag' = stopFlag, NEW r \in Run, NEW ok \in BOOLEAN,
           \/ result' = [result EXCEPT ![r] = ok]
           \/ result' = result
    PROVE  Flags'
    BY Zenon DEF Flags

(* What the steps within a skill leave alone, and within which types they  *)
(* end it.                                                                 *)
LEMMA SkillKeeps ==
    ASSUME TaskInv, NEW r \in Run, NEW ok \in BOOLEAN,
           UNCHANGED <<stopFlag, cursor, stack, items, waiting, attempts>>,
           \/ EndSkill(r, ok)
           \/ \E label \in Labels \ {"new"} : Proceed(r, label)
           \/ NextCommand(r)
    PROVE  /\ Flags'
           /\ pc' \in [Run -> Labels] /\ achieved' \in [Run -> SUBSET Node]
           /\ command' \in [Run -> Nat] /\ won' \in [Run -> Nat]
           /\ StackFits' /\ NewIsEmpty'
<1>0. /\ Flags /\ pc \in [Run -> Labels] /\ achieved \in [Run -> SUBSET Node]
      /\ command \in [Run -> Nat] /\ won \in [Run -> Nat] /\ cursor \in [Run -> Node]
      /\ StackFits /\ NewIsEmpty
    BY DEF TaskInv, Counts, Places
<1>1. ASSUME NEW o \in BOOLEAN, EndSkill(r, o)
      PROVE  /\ Flags' /\ pc' = [pc EXCEPT ![r] = "return"]
             /\ achieved' \in [Run -> SUBSET Node]
             /\ command' \in [Run -> Nat] /\ won' \in [Run -> Nat]
    <2>1. Flags'
        BY <1>0, <1>1, FinishFlags DEF EndSkill, Finish
    <2>2. achieved' \in [Run -> SUBSET Node]
        BY <1>0, <1>1 DEF EndSkill
    <2> QED
        BY <1>0, <1>1, <2>1, <2>2 DEF EndSkill, Finish
<1>2. \/ /\ Flags' /\ pc' = [pc EXCEPT ![r] = "return"]
         /\ achieved' \in [Run -> SUBSET Node]
         /\ command' \in [Run -> Nat] /\ won' \in [Run -> Nat]
      \/ \E label \in Labels \ {"new"} : Proceed(r, label)
      \/ /\ command' = [command EXCEPT ![r] = @ + 1]
         /\ pc' = [pc EXCEPT ![r] = "validate"] /\ UNCHANGED <<result, achieved, won>>
    BY <1>1 DEF NextCommand
<1>3. /\ Flags' /\ achieved' \in [Run -> SUBSET Node]
      /\ command' \in [Run -> Nat] /\ won' \in [Run -> Nat]
    <2>1. CASE UNCHANGED <<result, achieved, won>> /\ command' \in [Run -> Nat]
        BY <1>0, <2>1, FinishFlags
    <2> QED
        BY <1>0, <1>2, <2>1 DEF Proceed
<1>4. \E label \in Labels \ {"new"} : pc' = [pc EXCEPT ![r] = label]
    BY <1>2 DEF Proceed, Labels
<1>5. StackFits'
    BY <1>0 DEF StackFits, Rounds
<1>6. NewIsEmpty' /\ pc' \in [Run -> Labels]
    BY <1>0, <1>4 DEF NewIsEmpty
<1> QED
    BY <1>3, <1>5, <1>6

(* The goals stay goals, whichever is answered, cancelled or forgotten.    *)
LEMMA GoalsStay ==
    ASSUME goals \subseteq Goal, NEW r,
           \/ goals' = goals \/ Forget(r) \/ Leave(r)
           \/ \E g \in goals : goals' = goals \ {g}
           \/ \E g \in goals : \E state \in {"sent", "rejected", "running", "canceling",
                                             "stopped", "succeeded", "failed"} : Become(g, state)
    PROVE  goals' \subseteq Goal
<1>1. CASE \E g \in goals : \E state \in {"sent", "rejected", "running", "canceling",
                                          "stopped", "succeeded", "failed"} : Become(g, state)
    <2>1. PICK g \in goals : \E state \in {"sent", "rejected", "running", "canceling",
                                          "stopped", "succeeded", "failed"} : Become(g, state)
        BY <1>1
    <2>2. PICK state \in {"sent", "rejected", "running", "canceling",
                          "stopped", "succeeded", "failed"} : Become(g, state)
        BY <2>1
    <2>3. [g EXCEPT !.state = state] \in Goal
        BY DEF Goal
    <2> QED
        BY <2>2, <2>3 DEF Become
<1>2. CASE goals' \subseteq goals
    BY <1>2
<1> QED
    BY <1>1, <1>2 DEF Forget, Leave

(* Entering a node and returning from one keep the stack within the task.  *)
LEMMA EnterKeeps ==
    ASSUME TaskInv, NEW r \in Run, EnterNode(r)
    PROVE  TaskInv'
<1> DEFINE n == cursor[r]
<1>0. /\ Flags /\ Counts /\ Places /\ StackFits /\ NewIsEmpty /\ pc[r] = "enter"
      /\ UNCHANGED <<stopFlag, command, items, goals, sent, waiting, won, late>>
      /\ pc \in [Run -> Labels] /\ stack \in [Run -> Seq(Frame)] /\ cursor \in [Run -> Node]
      /\ n \in Node
    BY DEF TaskInv, EnterNode, Places
<1>1. saw' \subseteq Run
    BY <1>0 DEF EnterNode, Saw, Places
<1>2. Rounds(r, n) \in Nat
    BY <1>0, RoundsCount
<1>3. CASE \E ok \in BOOLEAN : Finish(r, ok) /\ UNCHANGED <<cursor, stack, attempts, achieved>>
    <2>1. PICK ok \in BOOLEAN : Finish(r, ok) /\ UNCHANGED <<cursor, stack, attempts, achieved>>
        BY <1>3
    <2>2. Flags'
        BY <1>0, <2>1, FinishFlags DEF Finish
    <2>3. Counts' /\ Places'
        BY <1>0, <1>1, <2>1 DEF Counts, Places, Finish, Labels
    <2>4. StackFits' /\ NewIsEmpty'
        BY <1>0, <2>1 DEF StackFits, Rounds, NewIsEmpty, Finish
    <2> QED
        BY <2>2, <2>3, <2>4 DEF TaskInv
<1>4. CASE /\ attempts' = [attempts EXCEPT ![r] = @ + 1]
           /\ achieved' = [achieved EXCEPT ![r] = @ \ {n}]
           /\ pc' = [pc EXCEPT ![r] = "compile"]
           /\ UNCHANGED <<cursor, stack, result>>
    <2>1. Flags'
        BY <1>0, <1>4, FinishFlags
    <2>2. Counts' /\ Places'
        <3>1. achieved' \in [Run -> SUBSET Node]
            BY <1>0, <1>4 DEF Places
        <3>2. Counts'
            BY <1>0, <1>4 DEF Counts
        <3> QED
            BY <1>0, <1>1, <1>4, <3>1, <3>2 DEF Places, Labels
    <2>3. StackFits' /\ NewIsEmpty'
        BY <1>0, <1>4 DEF StackFits, Rounds, NewIsEmpty
    <2> QED
        BY <2>1, <2>2, <2>3 DEF TaskInv
<1>5. CASE /\ Type[n] # "skill" /\ Rounds(r, n) > 0
           /\ stack' = [stack EXCEPT ![r] = Append(@, [node |-> n, child |-> 1, round |-> 1])]
           /\ cursor' = [cursor EXCEPT ![r] = Kids[n][1]]
           /\ UNCHANGED <<pc, result, attempts, achieved>>
    <2> DEFINE f == [node |-> n, child |-> 1, round |-> 1]
    <2>1. /\ Kids[n] \in Seq(Node) /\ Kids[n] # <<>> /\ 1 \in DOMAIN Kids[n]
          /\ Kids[n][1] \in Node
        BY <1>0, <1>5, TaskBounds
    <2>2. f \in Frame /\ Fits(f, Rounds(r, n)) /\ f.node = n
        BY <1>0, <1>2, <1>5, <2>1 DEF Frame, Fits
    <2>3. stack[r] \in Seq(Frame) /\ stack' = [stack EXCEPT ![r] = Append(stack[r], f)]
        BY <1>0, <1>5
    <2> HIDE DEF f, n
    <2>4. Append(stack[r], f) \in Seq(Frame)
        BY <2>2, <2>3
    <2>5. Flags'
        BY <1>0, <1>5, FinishFlags
    <2>6. Counts' /\ Places'
        BY <1>0, <1>1, <1>5, <2>1, <2>3, <2>4 DEF Counts, Places
    <2>7. StackFits'
        <3> SUFFICES ASSUME NEW q \in Run, NEW i \in DOMAIN stack'[q]
                     PROVE  Fits(stack'[q][i], Rounds(q, stack'[q][i].node))
            BY <1>0 DEF StackFits, Rounds
        <3>1. CASE q = r /\ i = Len(stack[r]) + 1
            <4>1. stack'[q][i] = f
                BY <1>0, <2>2, <2>3, <3>1
            <4> QED
                BY <2>2, <3>1, <4>1
        <3>2. CASE ~(q = r /\ i = Len(stack[r]) + 1)
            <4>1. i \in DOMAIN stack[q] /\ stack'[q][i] = stack[q][i]
                BY <1>0, <2>2, <2>3, <3>2
            <4> QED
                BY <1>0, <4>1 DEF StackFits
        <3> QED
            BY <3>1, <3>2
    <2>8. NewIsEmpty'
        BY <1>0, <1>5, <2>3 DEF NewIsEmpty
    <2> QED
        BY <2>5, <2>6, <2>7, <2>8 DEF TaskInv
<1>6. \/ \E ok \in BOOLEAN : Finish(r, ok) /\ UNCHANGED <<cursor, stack, attempts, achieved>>
      \/ /\ attempts' = [attempts EXCEPT ![r] = @ + 1]
         /\ achieved' = [achieved EXCEPT ![r] = @ \ {n}]
         /\ pc' = [pc EXCEPT ![r] = "compile"]
         /\ UNCHANGED <<cursor, stack, result>>
      \/ /\ Type[n] # "skill" /\ Rounds(r, n) > 0
         /\ stack' = [stack EXCEPT ![r] = Append(@, [node |-> n, child |-> 1, round |-> 1])]
         /\ cursor' = [cursor EXCEPT ![r] = Kids[n][1]]
         /\ UNCHANGED <<pc, result, attempts, achieved>>
    <2>1. FALSE \in BOOLEAN /\ (Type[n] # "retry") \in BOOLEAN
        OBVIOUS
    <2> QED
        BY <2>1, Zenon DEF EnterNode
<1> QED
    BY <1>3, <1>4, <1>5, <1>6

(* A node that returns leaves its run well formed.                         *)
LEMMA ReturnKeeps ==
    ASSUME TaskInv, NEW r \in Run, ReturnToParent(r)
    PROVE  TaskInv'
<1> DEFINE top == stack[r][Len(stack[r])]
<1>0. /\ Flags /\ Counts /\ Places /\ StackFits /\ NewIsEmpty
      /\ pc[r] = "return" /\ stack[r] # <<>>
      /\ UNCHANGED <<stopFlag, result, command, items, goals, sent, waiting, ghosts>>
      /\ pc \in [Run -> Labels] /\ stack \in [Run -> Seq(Frame)] /\ cursor \in [Run -> Node]
    BY DEF TaskInv, ReturnToParent, Places
<1>1. /\ stack[r] \in Seq(Frame) /\ Len(stack[r]) \in DOMAIN stack[r] /\ Len(stack[r]) \in Nat
      /\ top \in Frame /\ top = Top(r)
    BY <1>0 DEF Top
<1>2. /\ top.node \in Node /\ top.child \in DOMAIN Kids[top.node]
      /\ top.round \in 1..Rounds(r, top.node) /\ Rounds(r, top.node) \in Nat
      /\ top.child \in Nat /\ top.round \in Nat
    <2>1. top.node \in Node /\ top.child \in Nat /\ top.round \in Nat
        BY <1>1 DEF Frame
    <2>2. Fits(top, Rounds(r, top.node))
        BY <1>0, <1>1 DEF StackFits
    <2>3. Rounds(r, top.node) \in Nat
        BY <1>0, <2>1, RoundsCount
    <2> QED
        BY <2>1, <2>2, <2>3 DEF Fits
<1> HIDE DEF top
<1>3. Kids[top.node] \in Seq(Node) /\ DOMAIN Kids[top.node] = 1..Len(Kids[top.node])
      /\ Len(Kids[top.node]) \in Nat
    <2>1. Kids[top.node] \in Seq(Node)
        BY <1>2, TaskBounds
    <2> QED
        BY <2>1
<1>4. CASE Pop(r)
    <2> DEFINE rest == SubSeq(stack[r], 1, Len(stack[r]) - 1)
    <2>1. /\ rest \in Seq(Frame) /\ Len(rest) = Len(stack[r]) - 1
          /\ \A i \in DOMAIN rest : rest[i] = stack[r][i] /\ i \in DOMAIN stack[r]
        BY <1>1
    <2>2. stack' = [stack EXCEPT ![r] = rest] /\ cursor' = [cursor EXCEPT ![r] = top.node]
          /\ pc' = pc
        BY <1>1, <1>4 DEF Pop
    <2> HIDE DEF rest
    <2>3. Flags' /\ Counts' /\ Places'
        <3>1. Flags'
            BY <1>0, FinishFlags
        <3>2. Counts' /\ Places'
            BY <1>0, <1>2, <2>1, <2>2 DEF Counts, Places, ghosts
        <3> QED
            BY <3>1, <3>2
    <2>4. StackFits'
        <3> SUFFICES ASSUME NEW q \in Run, NEW i \in DOMAIN stack'[q]
                     PROVE  Fits(stack'[q][i], Rounds(q, stack'[q][i].node))
            BY <1>0 DEF StackFits, Rounds
        <3>1. i \in DOMAIN stack[q] /\ stack'[q][i] = stack[q][i]
            BY <1>0, <2>1, <2>2
        <3> QED
            BY <1>0, <3>1 DEF StackFits
    <2>5. NewIsEmpty'
        BY <1>0, <2>2 DEF NewIsEmpty
    <2> QED
        BY <2>3, <2>4, <2>5 DEF TaskInv
<1>5. ASSUME NEW child \in 1..Len(Kids[top.node]), NEW round \in 1..Rounds(r, top.node),
             Resume(r, child, round)
      PROVE  TaskInv'
    <2> DEFINE f == [node |-> top.node, child |-> child, round |-> round]
    <2>1. f \in Frame /\ Fits(f, Rounds(r, f.node))
        BY <1>2, <1>3 DEF Frame, Fits
    <2>2. /\ stack' = [stack EXCEPT ![r] = [stack[r] EXCEPT ![Len(stack[r])] = f]]
          /\ cursor' = [cursor EXCEPT ![r] = Kids[top.node][child]]
          /\ pc' = [pc EXCEPT ![r] = "enter"]
        BY <1>1, <1>5 DEF Resume
    <2>3. Kids[top.node][child] \in Node
        BY <1>3
    <2> DEFINE changed == [stack[r] EXCEPT ![Len(stack[r])] = f]
    <2> HIDE DEF f
    <2>4. /\ changed \in Seq(Frame) /\ DOMAIN changed = DOMAIN stack[r]
          /\ \A i \in DOMAIN stack[r] : changed[i] = IF i = Len(stack[r]) THEN f ELSE stack[r][i]
        BY <1>1, <2>1
    <2>5. stack' = [stack EXCEPT ![r] = changed]
        BY <2>2
    <2> HIDE DEF changed
    <2>6. Flags' /\ Counts' /\ Places'
        <3>1. Flags'
            BY <1>0, FinishFlags
        <3>2. Counts'
            BY <1>0 DEF Counts, ghosts
        <3>3. stack' \in [Run -> Seq(Frame)] /\ cursor' \in [Run -> Node] /\ pc' \in [Run -> Labels]
            BY <1>0, <2>2, <2>3, <2>4, <2>5 DEF Places, Labels
        <3>4. Places'
            BY <1>0, <3>3 DEF Places, ghosts
        <3> QED
            BY <3>1, <3>2, <3>4
    <2>7. StackFits'
        <3> SUFFICES ASSUME NEW q \in Run, NEW i \in DOMAIN stack'[q]
                     PROVE  Fits(stack'[q][i], Rounds(q, stack'[q][i].node))
            BY <1>0 DEF StackFits, Rounds
        <3>1. CASE q = r /\ i = Len(stack[r])
            <4>1. stack'[q][i] = f
                BY <1>0, <1>1, <2>4, <2>5, <3>1
            <4> QED
                BY <2>1, <3>1, <4>1
        <3>2. CASE ~(q = r /\ i = Len(stack[r]))
            <4>1. i \in DOMAIN stack[q] /\ stack'[q][i] = stack[q][i]
                BY <1>0, <2>4, <2>5, <3>2
            <4> QED
                BY <1>0, <4>1 DEF StackFits
        <3> QED
            BY <3>1, <3>2
    <2>8. NewIsEmpty'
        BY <1>0, <2>2, <2>5 DEF NewIsEmpty
    <2> QED
        BY <2>6, <2>7, <2>8 DEF TaskInv
<1>6. 1 \in 1..Len(Kids[top.node])
    BY <1>2, <1>3
<1>7. ~LastChild(r) => top.child + 1 \in 1..Len(Kids[top.node])
    BY <1>1, <1>2, <1>3 DEF LastChild
<1>8. ~LastRound(r) => top.round + 1 \in 1..Rounds(r, top.node)
    BY <1>1, <1>2 DEF LastRound
<1>9. CASE AfterSuccess(r)
    BY <1>1, <1>2, <1>4, <1>5, <1>6, <1>7, <1>8, <1>9 DEF AfterSuccess
<1>10. CASE AfterFailure(r)
    BY <1>1, <1>2, <1>4, <1>5, <1>6, <1>7, <1>8, <1>10 DEF AfterFailure
<1> QED
    BY <1>9, <1>10 DEF ReturnToParent

(* A step of the runtime keeps the types and the stack.                    *)
LEMMA TaskStep == TaskInv /\ [Next]_vars => TaskInv'
<1> SUFFICES ASSUME TaskInv, [Next]_vars PROVE TaskInv'
    OBVIOUS
<1>0. /\ Flags /\ Counts /\ Places /\ StackFits /\ NewIsEmpty /\ goals \subseteq Goal
      /\ pc \in [Run -> Labels] /\ stack \in [Run -> Seq(Frame)] /\ cursor \in [Run -> Node]
    BY DEF TaskInv, Places
<1>1. ASSUME NEW r \in Run, ConfirmFactoryTask(r) PROVE TaskInv'
    <2>1. /\ pc[r] = "new" /\ pc' = [pc EXCEPT ![r] = "enter"] /\ waiting' = r
          /\ stopFlag' = FALSE /\ late' = [x \in Run |-> 0] /\ saw' = {}
          /\ UNCHANGED <<stack, result, command, goals, sent, attempts, won, achieved>>
        BY <1>1 DEF ConfirmFactoryTask
    <2>2. PICK root \in Root[r] : \E size \in 0..MaxItems :
              /\ cursor' = [cursor EXCEPT ![r] = root] /\ items' = [items EXCEPT ![r] = size]
        BY <1>1 DEF ConfirmFactoryTask
    <2>3. PICK size \in 0..MaxItems :
              /\ cursor' = [cursor EXCEPT ![r] = root] /\ items' = [items EXCEPT ![r] = size]
        BY <2>2
    <2>4. root \in Node /\ stack[r] = <<>>
        BY <1>0, <2>1, TaskBounds DEF NewIsEmpty
    <2>5. Flags'
        BY <1>0, <2>1, Zenon DEF Flags
    <2>6. Counts' /\ Places'
        BY <1>0, <2>1, <2>3, <2>4 DEF Counts, Places, Labels
    <2>7. StackFits'
        <3> SUFFICES ASSUME NEW q \in Run, NEW i \in DOMAIN stack[q]
                     PROVE  Fits(stack[q][i], Rounds(q, stack[q][i].node)')
            BY <2>1 DEF StackFits, Rounds
        <3>1. q # r
            BY <2>4
        <3>2. Rounds(q, stack[q][i].node)' = Rounds(q, stack[q][i].node)
            BY <1>0, <2>1, <2>3, <3>1 DEF Rounds, Counts
        <3> QED
            BY <1>0, <3>2 DEF StackFits
    <2>8. NewIsEmpty'
        BY <1>0, <2>1 DEF NewIsEmpty
    <2> QED
        BY <2>5, <2>6, <2>7, <2>8 DEF TaskInv
<1>2. ASSUME NEW r \in Run, AnswerConfirmation(r) PROVE TaskInv'
    <2>1. /\ stack[r] = <<>> /\ pc[r] = "return" /\ pc' = [pc EXCEPT ![r] = "done"]
          /\ waiting' = IF waiting = r THEN NoRun ELSE waiting
          /\ items' = [items EXCEPT ![r] = 0] /\ attempts' = [attempts EXCEPT ![r] = 0]
          /\ achieved' = [achieved EXCEPT ![r] = {}] /\ late' = [late EXCEPT ![r] = 0]
          /\ UNCHANGED <<stopFlag, cursor, stack, result, command, goals, sent, won, saw>>
        BY <1>2 DEF AnswerConfirmation
    <2>2. Flags'
        BY <1>0, <2>1, FinishFlags
    <2>3. Counts' /\ Places'
        <3>1. achieved' \in [Run -> SUBSET Node] /\ waiting' \in Run \cup {NoRun}
            BY <1>0, <2>1 DEF Places
        <3>2. items' \in [Run -> 0..MaxItems]
            BY <1>0, <2>1, TaskBounds DEF Counts
        <3>3. Counts'
            BY <1>0, <2>1, <3>2 DEF Counts
        <3> QED
            BY <1>0, <2>1, <3>1, <3>3 DEF Places, Labels
    <2>4. StackFits'
        <3> SUFFICES ASSUME NEW q \in Run, NEW i \in DOMAIN stack[q]
                     PROVE  Fits(stack[q][i], Rounds(q, stack[q][i].node)')
            BY <2>1 DEF StackFits, Rounds
        <3>1. q # r
            BY <2>1
        <3>2. Rounds(q, stack[q][i].node)' = Rounds(q, stack[q][i].node)
            BY <1>0, <2>1, <3>1 DEF Rounds, Counts
        <3> QED
            BY <1>0, <3>2 DEF StackFits
    <2>5. NewIsEmpty'
        BY <1>0, <2>1 DEF NewIsEmpty
    <2> QED
        BY <2>2, <2>3, <2>4, <2>5 DEF TaskInv
<1>3. ASSUME NEW r \in Run,
             \/ CompileSkill(r) \/ RunQuery(r) \/ ValidateRuntimeCommand(r) \/ CheckBeforeSend(r)
             \/ AwaitAccept(r) \/ CheckAfterAccept(r) \/ AwaitResult(r)
      PROVE  TaskInv'
    <2>1. /\ UNCHANGED <<stopFlag, cursor, stack, items, waiting, attempts, sent, late>>
          /\ \E ok \in BOOLEAN : \/ EndSkill(r, ok)
                               \/ \E label \in Labels \ {"new"} : Proceed(r, label)
                               \/ NextCommand(r)
        BY <1>3, Zenon DEF CompileSkill, RunQuery, ValidateRuntimeCommand, CheckBeforeSend,
                    AwaitAccept, CheckAfterAccept, AwaitResult, Labels
    <2>2. /\ Flags'
          /\ pc' \in [Run -> Labels] /\ achieved' \in [Run -> SUBSET Node]
          /\ command' \in [Run -> Nat] /\ won' \in [Run -> Nat]
          /\ StackFits' /\ NewIsEmpty'
        BY <2>1, SkillKeeps
    <2>3. goals' \subseteq Goal
        <3>1. \/ goals' = goals \/ Forget(r) \/ Leave(r)
              \/ \E g \in goals : \E state \in {"sent", "rejected", "running", "canceling",
                                                "stopped", "succeeded", "failed"} : Become(g, state)
            <4>1. CASE CheckAfterAccept(r)
                BY <4>1 DEF CheckAfterAccept, Mine
            <4>2. CASE ~CheckAfterAccept(r)
                BY <1>3, <4>2 DEF CompileSkill, RunQuery, ValidateRuntimeCommand, CheckBeforeSend,
                                  AwaitAccept, AwaitResult
            <4> QED
                BY <4>1, <4>2
        <3> QED
            BY <1>0, <3>1, GoalsStay
    <2>4. saw' \subseteq Run
        BY <1>0, <1>3 DEF CompileSkill, RunQuery, ValidateRuntimeCommand, CheckBeforeSend,
                          AwaitAccept, CheckAfterAccept, AwaitResult, Saw, Places
    <2>5. Counts' /\ Places'
        BY <1>0, <2>1, <2>2, <2>3, <2>4 DEF Counts, Places
    <2> QED
        BY <2>2, <2>5 DEF TaskInv
<1>4. ASSUME NEW r \in Run, SendGoal(r) PROVE TaskInv'
    <2>1. /\ pc[r] = "send" /\ pc' = [pc EXCEPT ![r] = "accept"]
          /\ sent' = [sent EXCEPT ![r] = @ + 1]
          /\ goals' = goals \cup {[run |-> r, seq |-> sent[r] + 1, state |-> "sent"]}
          /\ late' = IF stopFlag THEN [late EXCEPT ![r] = @ + 1] ELSE late
          /\ UNCHANGED <<stopFlag, cursor, stack, result, command, items, waiting,
                         attempts, won, achieved, saw>>
        BY <1>4 DEF SendGoal
    <2>2. Flags'
        BY <1>0, <2>1, FinishFlags
    <2>3. goals' \subseteq Goal
        <3>1. [run |-> r, seq |-> sent[r] + 1, state |-> "sent"] \in Goal
            BY <1>0 DEF Goal, Counts
        <3> QED
            BY <1>0, <2>1, <3>1
    <2>4. Counts'
        <3>1. late' \in [Run -> Nat]
            BY <1>0, <2>1 DEF Counts
        <3> QED
            BY <1>0, <2>1, <3>1 DEF Counts
    <2>5. Places'
        BY <1>0, <2>1, <2>3 DEF Places, Labels
    <2>6. StackFits' /\ NewIsEmpty'
        BY <1>0, <2>1 DEF StackFits, Rounds, NewIsEmpty
    <2> QED
        BY <2>2, <2>4, <2>5, <2>6 DEF TaskInv
<1>5. ASSUME \/ GiveUpWaiting \/ FaultReported
             \/ \E g \in goals : ServerAnswers(g) \/ ServerEnds(g) \/ OperatorStop(g)
      PROVE  TaskInv'
    <2>1. /\ UNCHANGED <<pc, cursor, stack, result, command, items, sent>>
          /\ UNCHANGED <<attempts, achieved, late, saw>>
          /\ stopFlag' = stopFlag \/ stopFlag' = TRUE
          /\ waiting' = waiting \/ waiting' = NoRun
        BY <1>5, Zenon DEF GiveUpWaiting, FaultReported, ServerAnswers, ServerEnds, OperatorStop,
                    control, ghosts
    <2>2. Flags'
        BY <1>0, <2>1, Zenon DEF Flags
    <2>3. /\ won' \in [Run -> Nat]
          /\ \/ goals' = goals
             \/ \E g \in goals : goals' = goals \ {g}
             \/ \E g \in goals : \E state \in {"sent", "rejected", "running", "canceling",
                                               "stopped", "succeeded", "failed"} : Become(g, state)
        <3>1. CASE GiveUpWaiting \/ FaultReported
            BY <1>0, <3>1 DEF GiveUpWaiting, FaultReported, ghosts, Counts
        <3>2. ASSUME NEW g \in goals, ServerAnswers(g) \/ ServerEnds(g) \/ OperatorStop(g)
              PROVE  /\ won' \in [Run -> Nat]
                     /\ \/ goals' = goals \ {g}
                        \/ \E state \in {"running", "rejected", "succeeded", "failed", "stopped"} :
                               Become(g, state)
            <4>1. \/ UNCHANGED won
                        /\ (Become(g, "running") \/ Become(g, "stopped"))
                  \/ \E state \in {"rejected", "succeeded", "failed"} : Conclude(g, state)
                BY <3>2 DEF ServerAnswers, ServerEnds, OperatorStop, ghosts
            <4>2. won \in [Run -> Nat]
                BY <1>0 DEF Counts
            <4>3. ASSUME NEW state \in {"rejected", "succeeded", "failed"}, Conclude(g, state)
                  PROVE  won' \in [Run -> Nat] /\ (goals' = goals \ {g} \/ Become(g, state))
                BY <4>2, <4>3 DEF Conclude
            <4> QED
                BY <4>1, <4>2, <4>3
        <3> QED
            BY <1>5, <3>1, <3>2
    <2>4. goals' \subseteq Goal
        BY <1>0, <2>3, GoalsStay
    <2>5. Counts' /\ Places'
        BY <1>0, <2>1, <2>3, <2>4 DEF Counts, Places
    <2>6. StackFits' /\ NewIsEmpty'
        BY <1>0, <2>1 DEF StackFits, Rounds, NewIsEmpty
    <2> QED
        BY <2>2, <2>5, <2>6 DEF TaskInv
<1>6. CASE UNCHANGED vars
    BY <1>6 DEF vars, TaskInv, Flags, Counts, Places, StackFits, Rounds, NewIsEmpty
<1> QED
    BY <1>1, <1>2, <1>3, <1>4, <1>5, <1>6, EnterKeeps, ReturnKeeps DEF Next, RunStep

(* The frames of a run stay within the tree that was confirmed: a cursor is*)
(* at a node of it, a frame at a child that its node has and in a round    *)
(* that it makes, whatever fails, times out or is confirmed beside it.     *)
THEOREM TaskTypeCorrect == Spec => []TypeOK
<1>1. TaskInv => TypeOK
    BY TaskTypes
<1> QED
    BY TaskInitially, TaskStep, <1>1, PTL DEF Spec

(* ---- a fault ---- *)

(* A goal that is sent under the stop flag is the last of its run, and the *)
(* run is on its way out.                                                  *)
LateInv ==
    /\ ~stopFlag => \A r \in Run : late[r] = 0
    /\ \A r \in Run :
          late[r] = 0 \/ (late[r] = 1 /\ pc[r] \in {"accept", "recheck", "return", "enter"})

(* A run that met the flag carries a failure up to its root, or meets the  *)
(* flag again at the next node.                                            *)
SawOut == saw # {} => stopFlag /\ \A r \in saw : pc[r] \in {"enter", "return", "done"}
SawFails == \A r \in saw : pc[r] \in {"return", "done"} => ~result[r]
SawInv == SawOut /\ SawFails

FaultInv == TaskInv /\ LateInv /\ SawInv

(* What a step of one run can do to the faults of all: it sends no goal,   *)
(* and it meets the flag, or it goes on without having met it.             *)
LEMMA RunKeepsFaults ==
    ASSUME FaultInv, NEW r \in Run, NEW label \in Labels, UNCHANGED <<stopFlag, late>>,
           pc' = [pc EXCEPT ![r] = label],
           late[r] = 1 => label \in {"recheck", "return", "enter"},
           \/ saw' = saw /\ label \in {"enter", "return", "done"} /\ result' = result
                 /\ (label \in {"return", "done"} => pc[r] \in {"return", "done"})
           \/ saw' = saw /\ r \notin saw
                 /\ \E ok \in BOOLEAN : result' = [result EXCEPT ![r] = ok]
           \/ saw' = saw /\ r \notin saw /\ result' = result
           \/ saw' = saw \cup {r} /\ stopFlag /\ label = "return"
                 /\ result' = [result EXCEPT ![r] = FALSE]
    PROVE  LateInv' /\ SawInv'
<1>0. /\ LateInv /\ SawOut /\ saw \subseteq Run /\ pc \in [Run -> Labels]
      /\ late \in [Run -> Nat]
    BY DEF FaultInv, TaskInv, Places, Counts, SawInv
<1>1. \A q \in Run : pc'[q] = IF q = r THEN label ELSE pc[q]
    BY <1>0
<1>2. LateInv'
    BY <1>0, <1>1 DEF LateInv
<1>3. SawOut'
    BY <1>0, <1>1 DEF SawOut
<1>4. SawFails'
    <2> SUFFICES ASSUME NEW q \in saw', pc'[q] \in {"return", "done"} PROVE ~result'[q]
        BY DEF SawFails
    <2>1. q \in Run
        BY <1>0
    <2>2. result \in [Run -> BOOLEAN] /\ (q \in saw /\ pc[q] \in {"return", "done"} => ~result[q])
        BY DEF FaultInv, TaskInv, Flags, SawInv, SawFails
    <2>3. CASE q # r
        <3>1. q \in saw /\ pc[q] \in {"return", "done"}
            BY <1>1, <2>1, <2>3
        <3>2. result'[q] = result[q]
            BY <2>1, <2>2, <2>3, Zenon
        <3> QED
            BY <2>2, <3>1, <3>2, Zenon
    <2>4. CASE q = r
        <3>1. \/ q \in saw /\ pc[q] \in {"return", "done"} /\ result' = result
              \/ result' = [result EXCEPT ![r] = FALSE]
            BY <1>1, <2>1, <2>4
        <3> QED
            BY <2>1, <2>2, <2>4, <3>1, Zenon
    <2> QED
        BY <2>3, <2>4
<1> QED
    BY <1>2, <1>3, <1>4 DEF SawInv

(* No fault at first.                                                      *)
LEMMA FaultInitially == Init => FaultInv
<1> SUFFICES ASSUME Init PROVE FaultInv
    OBVIOUS
<1>1. LateInv
    <2>1. late = [r \in Run |-> 0]
        BY Zenon DEF Init
    <2> QED
        BY <2>1 DEF LateInv
<1>2. SawInv
    BY Zenon DEF Init, SawInv, SawOut, SawFails
<1> QED
    BY <1>1, <1>2, TaskInitially DEF FaultInv

(* Every step keeps the invariant of the faults.                           *)
LEMMA FaultStep == FaultInv /\ [Next]_vars => FaultInv'
<1> SUFFICES ASSUME FaultInv, [Next]_vars PROVE LateInv' /\ SawInv'
    BY TaskStep DEF FaultInv
<1>0. /\ LateInv /\ SawInv /\ saw \subseteq Run /\ late \in [Run -> Nat]
      /\ pc \in [Run -> Labels] /\ stopFlag \in BOOLEAN
    BY DEF FaultInv, TaskInv, Places, Flags, Counts
<1>1. \A r \in Run : r \in saw => pc[r] \in {"enter", "return", "done"} /\ stopFlag
    BY <1>0 DEF SawInv, SawOut
<1>2. \A r \in Run : late[r] = 1 => stopFlag /\ pc[r] \in {"accept", "recheck", "return", "enter"}
    BY <1>0 DEF LateInv
<1>3. ASSUME NEW r \in Run, ConfirmFactoryTask(r) PROVE LateInv' /\ SawInv'
    BY <1>0, <1>3 DEF ConfirmFactoryTask, LateInv, SawInv, SawOut, SawFails
<1>4. ASSUME NEW r \in Run, EnterNode(r) PROVE LateInv' /\ SawInv'
    <2>1. pc[r] = "enter" /\ UNCHANGED <<stopFlag, late>> /\ Saw(r)
        BY <1>4 DEF EnterNode
    <2>2. CASE IsStopped
        <3>1. pc' = [pc EXCEPT ![r] = "return"] /\ result' = [result EXCEPT ![r] = FALSE]
              /\ saw' = saw \cup {r} /\ stopFlag
            BY <1>4, <2>1, <2>2 DEF EnterNode, Finish, Saw, IsStopped
        <3> QED
            BY <2>1, <3>1, RunKeepsFaults DEF Labels
    <2>3. CASE ~IsStopped
        <3>1. ~stopFlag /\ saw' = saw /\ r \notin saw /\ late[r] # 1
            BY <1>1, <1>2, <2>1, <2>3 DEF IsStopped, Saw
        <3>2. \/ \E ok \in BOOLEAN : Finish(r, ok)
              \/ pc' = [pc EXCEPT ![r] = "compile"] /\ result' = result
              \/ pc' = pc /\ result' = result
            <4>1. FALSE \in BOOLEAN /\ (Type[cursor[r]] # "retry") \in BOOLEAN
                OBVIOUS
            <4> QED
                BY <1>4, <4>1, Zenon DEF EnterNode
        <3>3. pc = [pc EXCEPT ![r] = "enter"]
            BY <1>0, <2>1
        <3>4. CASE \E ok \in BOOLEAN : Finish(r, ok)
            BY <2>1, <3>1, <3>4, RunKeepsFaults DEF Finish, Labels
        <3>5. CASE pc' = [pc EXCEPT ![r] = "compile"] /\ result' = result
            BY <2>1, <3>1, <3>5, RunKeepsFaults DEF Labels
        <3>6. CASE pc' = pc /\ result' = result
            BY <2>1, <3>1, <3>3, <3>6, RunKeepsFaults DEF Labels
        <3> QED
            BY <3>2, <3>4, <3>5, <3>6
    <2> QED
        BY <2>2, <2>3
<1>5. ASSUME NEW r \in Run, ReturnToParent(r) PROVE LateInv' /\ SawInv'
    <2>1. pc[r] = "return" /\ UNCHANGED <<stopFlag, result, late, saw>>
        BY <1>5 DEF ReturnToParent, ghosts
    <2>2. pc' = [pc EXCEPT ![r] = "return"] \/ pc' = [pc EXCEPT ![r] = "enter"]
        <3>1. pc = [pc EXCEPT ![r] = "return"]
            BY <1>0, <2>1
        <3>2. Pop(r) => pc' = pc
            BY DEF Pop
        <3>3. \A child, round : Resume(r, child, round) => pc' = [pc EXCEPT ![r] = "enter"]
            BY DEF Resume
        <3> QED
            BY <1>5, <3>1, <3>2, <3>3 DEF ReturnToParent, AfterSuccess, AfterFailure
    <2> QED
        BY <2>1, <2>2, RunKeepsFaults DEF Labels
<1>6. ASSUME NEW r \in Run, AnswerConfirmation(r) PROVE LateInv' /\ SawInv'
    <2>1. /\ pc[r] = "return" /\ pc' = [pc EXCEPT ![r] = "done"]
          /\ late' = [late EXCEPT ![r] = 0] /\ UNCHANGED <<stopFlag, result, saw>>
        BY <1>6 DEF AnswerConfirmation
    <2>2. LateInv'
        <3>1. \A q \in Run : late'[q] = IF q = r THEN 0 ELSE late[q]
            BY <1>0, <2>1
        <3>2. \A q \in Run : q # r => pc'[q] = pc[q]
            BY <1>0, <2>1
        <3> QED
            BY <1>0, <2>1, <3>1, <3>2 DEF LateInv
    <2>3. \A q \in Run : pc'[q] = IF q = r THEN "done" ELSE pc[q]
        BY <1>0, <2>1
    <2>4. SawInv'
        <3>1. \A q \in saw : pc'[q] \in {"return", "done"} => pc[q] \in {"return", "done"}
            BY <1>0, <2>1, <2>3
        <3>2. SawFails'
            BY <1>0, <2>1, <3>1, Zenon DEF SawInv, SawFails
        <3>3. SawOut'
            BY <1>0, <2>1, <2>3 DEF SawInv, SawOut
        <3> QED
            BY <3>2, <3>3 DEF SawInv
    <2> QED
        BY <2>2, <2>4
<1>7. ASSUME NEW r \in Run,
             CompileSkill(r) \/ RunQuery(r) \/ ValidateRuntimeCommand(r) \/ AwaitResult(r)
      PROVE  LateInv' /\ SawInv'
    <2>1. /\ UNCHANGED <<stopFlag, late, saw>>
          /\ pc[r] \in {"compile", "query", "validate", "result"}
          /\ \/ \E ok \in BOOLEAN : Finish(r, ok)
             \/ \E label \in Labels : pc' = [pc EXCEPT ![r] = label] /\ result' = result
        BY <1>7, Zenon DEF CompileSkill, RunQuery, ValidateRuntimeCommand, AwaitResult,
                    EndSkill, NextCommand, Proceed, Labels
    <2>2. r \notin saw /\ late[r] # 1
        BY <1>1, <1>2, <2>1
    <2> QED
        BY <2>1, <2>2, RunKeepsFaults DEF Finish, Labels
<1>8. ASSUME NEW r \in Run, CheckBeforeSend(r) \/ CheckAfterAccept(r) PROVE LateInv' /\ SawInv'
    <2>1. /\ UNCHANGED <<stopFlag, late>> /\ pc[r] \in {"check", "recheck"} /\ Saw(r)
          /\ \/ pc' = [pc EXCEPT ![r] = "return"] /\ result' = [result EXCEPT ![r] = FALSE]
             \/ /\ ~stopFlag /\ result' = result
                /\ \E label \in {"send", "result"} : pc' = [pc EXCEPT ![r] = label]
        BY <1>8 DEF CheckBeforeSend, CheckAfterAccept, EndSkill, Finish, Proceed, IsStopped
    <2>2. r \notin saw
        BY <1>1, <2>1
    <2>3. CASE stopFlag
        BY <2>1, <2>3, RunKeepsFaults DEF Saw, Labels
    <2>4. CASE ~stopFlag
        <3>1. late[r] # 1 /\ saw' = saw
            BY <1>2, <2>1, <2>4 DEF Saw
        <3> QED
            BY <2>1, <2>2, <2>4, <3>1, RunKeepsFaults DEF Labels
    <2> QED
        BY <2>3, <2>4
<1>9. ASSUME NEW r \in Run, SendGoal(r) PROVE LateInv' /\ SawInv'
    <2>1. /\ pc[r] = "send" /\ pc' = [pc EXCEPT ![r] = "accept"]
          /\ late' = IF stopFlag THEN [late EXCEPT ![r] = @ + 1] ELSE late
          /\ UNCHANGED <<stopFlag, result, saw>>
        BY <1>9 DEF SendGoal
    <2>2. r \notin saw /\ late[r] = 0
        BY <1>0, <1>1, <2>1 DEF LateInv
    <2>3. LateInv'
        <3>1. \A q \in Run : pc'[q] = IF q = r THEN "accept" ELSE pc[q]
            BY <1>0, <2>1
        <3>2. CASE stopFlag
            <4>1. \A q \in Run : late'[q] = IF q = r THEN 1 ELSE late[q]
                BY <1>0, <2>1, <2>2, <3>2
            <4> QED
                BY <1>0, <2>1, <3>1, <3>2, <4>1 DEF LateInv
        <3>3. CASE ~stopFlag
            BY <1>0, <2>1, <3>1, <3>3 DEF LateInv
        <3> QED
            BY <3>2, <3>3
    <2>4. SawInv'
        <3>1. \A q \in saw : pc'[q] = pc[q]
            BY <1>0, <2>1, <2>2
        <3> QED
            BY <1>0, <2>1, <3>1, Zenon DEF SawInv, SawOut, SawFails
    <2> QED
        BY <2>3, <2>4
<1>10. ASSUME NEW r \in Run, AwaitAccept(r) PROVE LateInv' /\ SawInv'
    <2>1. /\ UNCHANGED <<stopFlag, late, saw>> /\ pc[r] = "accept"
          /\ \/ pc' = [pc EXCEPT ![r] = "return"] /\ result' = [result EXCEPT ![r] = FALSE]
             \/ pc' = [pc EXCEPT ![r] = "recheck"] /\ result' = result
        BY <1>10 DEF AwaitAccept, EndSkill, Finish, Proceed
    <2>2. r \notin saw
        BY <1>1, <2>1
    <2> QED
        BY <2>1, <2>2, RunKeepsFaults DEF Labels
<1>11. ASSUME \/ GiveUpWaiting
              \/ \E g \in goals : ServerAnswers(g) \/ ServerEnds(g) \/ OperatorStop(g)
       PROVE  LateInv' /\ SawInv'
    <2>1. UNCHANGED <<stopFlag, pc, result, late, saw>>
        BY <1>11, Zenon DEF GiveUpWaiting, ServerAnswers, ServerEnds, OperatorStop, control, ghosts
    <2>2. LateInv'
        BY <1>0, <2>1 DEF LateInv
    <2>3. SawInv'
        BY <1>0, <2>1, Zenon DEF SawInv, SawOut, SawFails
    <2> QED
        BY <2>2, <2>3
<1>12. CASE FaultReported
    <2>1. ~stopFlag /\ stopFlag' = TRUE /\ UNCHANGED <<pc, result, late, saw>>
        BY <1>12 DEF FaultReported, control, ghosts
    <2>2. LateInv'
        BY <1>0, <2>1 DEF LateInv
    <2>3. SawInv'
        BY <1>0, <2>1, Zenon DEF SawInv, SawOut, SawFails
    <2> QED
        BY <2>2, <2>3
<1>13. CASE UNCHANGED vars
    <2>1. UNCHANGED <<stopFlag, pc, result, late, saw>>
        BY <1>13 DEF vars
    <2>2. LateInv'
        BY <1>0, <2>1 DEF LateInv
    <2>3. SawInv'
        BY <1>0, <2>1, Zenon DEF SawInv, SawOut, SawFails
    <2> QED
        BY <2>2, <2>3
<1> QED
    BY <1>3, <1>4, <1>5, <1>6, <1>7, <1>8, <1>9, <1>10, <1>11, <1>12, <1>13 DEF Next, RunStep

(* A fault ends the tasks that it meets: a run sends at most the one goal  *)
(* it had checked for, does not wait for it, and reports a failure, however*)
(* many runs and tasks there are and whatever the tree around the skill.   *)
THEOREM FaultsEndTasks == Spec => []FaultEndsTasks
<1>1. FaultInv => FaultEndsTasks
    <2> SUFFICES ASSUME FaultInv PROVE FaultEndsTasks
        OBVIOUS
    <2>1. OneLateGoal
        BY DEF FaultInv, LateInv, OneLateGoal
    <2>2. StopFails
        BY DEF FaultInv, SawInv, SawFails, StopFails
    <2> QED
        BY <2>1, <2>2 DEF FaultEndsTasks
<1> QED
    BY FaultInitially, FaultStep, <1>1, PTL DEF Spec

-----------------------------------------------------------------------------
(* ---- recursion over the numbers ---- *)

(* Induction over the naturals, with a set for what is shown.              *)
LEMMA Induction ==
    ASSUME NEW Good, 0 \in Good, \A n \in Nat : n \in Good => n + 1 \in Good
    PROVE  Nat \subseteq Good
<1> DEFINE Bad == {n \in Nat : n \notin Good}
           Segments == {1 .. n : n \in Bad}
<1>1. SUFFICES ASSUME Segments # {} PROVE FALSE
    OBVIOUS
<1>2. \A n \in Nat : IsFiniteSet(1 .. n)
    BY FS_Interval
<1>3. Segments \subseteq FiniteSubsetsOf(Nat)
    <2> SUFFICES ASSUME NEW n \in Bad PROVE 1 .. n \in FiniteSubsetsOf(Nat)
        OBVIOUS
    <2>1. 1 .. n \subseteq Nat
        OBVIOUS
    <2> QED
        BY <1>2, <2>1 DEF FiniteSubsetsOf
<1>4. PICK x \in Segments : \A y \in Segments : <<y, x>> \notin StrictSubsetOrdering(Nat)
    <2> HIDE DEF Segments
    <2> QED
        BY <1>1, <1>3, FS_StrictSubsetOrderingWellFounded, WFMin
<1>5. PICK n \in Bad : x = 1 .. n
    OBVIOUS
<1>6. n - 1 \in Bad
    OBVIOUS
<1>7. 1 .. (n - 1) \in Segments
    BY <1>6
<1>8. <<1 .. (n - 1), x>> \in StrictSubsetOrdering(Nat)
    <2>1. n >= 1
        OBVIOUS
    <2>2. /\ 1 .. (n - 1) \subseteq 1 .. n /\ n \in 1 .. n /\ n \notin 1 .. (n - 1)
          /\ 1 .. n \subseteq Nat
        BY <2>1
    <2>3. <<1 .. (n - 1), x>> \in (SUBSET Nat) \X (SUBSET Nat)
        BY <2>2, <1>5
    <2> QED
        BY <2>2, <2>3, <1>5, Zenon DEF StrictSubsetOrdering
<1> QED
    BY <1>4, <1>7, <1>8

(* f is the function that starts with base and goes on with G.             *)
Recurs(f, n, A, base, G) ==
    f \in [0 .. n -> A] /\ f = [k \in 0 .. n |-> IF k = 0 THEN base ELSE G[<<k, f[k - 1]>>]]

(* A recursive function on 0 .. n exists, whatever its step is.            *)
LEMMA Recursion ==
    ASSUME NEW A, NEW base \in A, NEW n \in Nat, NEW G \in [(1 .. n) \X A -> A]
    PROVE  \E f : Recurs(f, n, A, base, G)
<1> DEFINE Fine(m, f) == f[0] = base /\ \A k \in 1 .. m : f[k] = G[<<k, f[k - 1]>>]
           Good == {m \in Nat : m <= n => \E f \in [0 .. m -> A] : Fine(m, f)}
<1>1. 0 \in Good
    <2> DEFINE f == [k \in 0 .. 0 |-> base]
    <2>1. f \in [0 .. 0 -> A] /\ Fine(0, f)
        OBVIOUS
    <2> QED
        BY <2>1
<1>2. ASSUME NEW m \in Nat, m \in Good PROVE m + 1 \in Good
    <2> SUFFICES ASSUME m + 1 <= n PROVE \E f \in [0 .. m + 1 -> A] : Fine(m + 1, f)
        OBVIOUS
    <2>1. PICK f \in [0 .. m -> A] : Fine(m, f)
        BY <1>2
    <2> DEFINE g == [k \in 0 .. m + 1 |-> IF k = m + 1 THEN G[<<m + 1, f[m]>>] ELSE f[k]]
    <2>2. G[<<m + 1, f[m]>>] \in A
        <3>1. m + 1 \in 1 .. n /\ f[m] \in A
            OBVIOUS
        <3> QED
            BY <3>1
    <2>3. g \in [0 .. m + 1 -> A]
        BY <2>2
    <2>4. g[0] = base
        BY <2>1
    <2>5. ASSUME NEW k \in 1 .. m + 1 PROVE g[k] = G[<<k, g[k - 1]>>]
        <3>1. CASE k = m + 1
            <4>1. k - 1 = m /\ g[k - 1] = f[m] /\ g[k] = G[<<m + 1, f[m]>>]
                BY <3>1
            <4> QED
                BY <3>1, <4>1
        <3>2. CASE k # m + 1
            <4>1. k \in 1 .. m /\ g[k] = f[k] /\ g[k - 1] = f[k - 1]
                BY <3>2
            <4> QED
                BY <2>1, <4>1
        <3> QED
            BY <3>1, <3>2
    <2> HIDE DEF g
    <2> QED
        BY <2>3, <2>4, <2>5
<1>3. n \in Good
    <2> HIDE DEF Good
    <2> QED
        BY <1>1, <1>2, Induction
<1>4. PICK f \in [0 .. n -> A] : Fine(n, f)
    BY <1>3
<1>5. f = [k \in 0 .. n |-> IF k = 0 THEN base ELSE G[<<k, f[k - 1]>>]]
    <2> DEFINE h == [k \in 0 .. n |-> IF k = 0 THEN base ELSE G[<<k, f[k - 1]>>]]
    <2>1. \A k \in 0 .. n : f[k] = h[k]
        BY <1>4
    <2> QED
        BY <2>1
<1> QED
    BY <1>5 DEF Recurs

-----------------------------------------------------------------------------
(* ---- the tree of a task ---- *)

(* The children of a node are later nodes.                                 *)
LEMMA KidsAre ==
    ASSUME NEW n \in Node
    PROVE  /\ Kids[n] \in Seq(Node) /\ Len(Kids[n]) \in Nat
           /\ DOMAIN Kids[n] = 1 .. Len(Kids[n])
           /\ \A i \in DOMAIN Kids[n] : Kids[n][i] \in Node /\ Kids[n][i] > n
           /\ n \in Nat
<1>1. Kids[n] \in Seq(Node) /\ \A i \in DOMAIN Kids[n] : Kids[n][i] > n
    BY TaskAssumption
<1>2. n \in Nat
    BY TaskAssumption
<1> QED
    BY <1>1, <1>2

(* What holds of a node once it holds of all later ones holds of the tree. *)
LEMMA FromTheLeaves ==
    ASSUME NEW Good, \A n \in Node : (\A m \in Node : m > n => m \in Good) => n \in Good
    PROVE  Node \subseteq Good
<1>1. Node \subseteq Nat /\ \E top \in Node : \A n \in Node : n <= top
    BY TaskAssumption
<1>2. PICK top \in Node : \A n \in Node : n <= top
    BY <1>1
<1> DEFINE Below == {k \in Nat : \A n \in Node : n + k > top => n \in Good}
<1>0. top \in Nat /\ \A n \in Node : n \in Nat
    BY <1>1
<1>3. 0 \in Below
    BY <1>0, <1>2
<1>4. ASSUME NEW k \in Nat, k \in Below PROVE k + 1 \in Below
    <2> SUFFICES ASSUME NEW n \in Node, n + (k + 1) > top PROVE n \in Good
        OBVIOUS
    <2>1. ASSUME NEW m \in Node, m > n PROVE m \in Good
        <3>1. m + k > top
            BY <1>0, <2>1
        <3> QED
            BY <1>4, <3>1
    <2> QED
        BY <2>1
<1>5. Nat \subseteq Below
    <2> HIDE DEF Below
    <2> QED
        BY <1>3, <1>4, Induction
<1> QED
    <2> SUFFICES ASSUME NEW n \in Node PROVE n \in Good
        OBVIOUS
    <2>1. top + 1 \in Nat /\ n + (top + 1) > top
        BY <1>0
    <2> QED
        BY <1>5, <2>1

(* ---- what a node has earned ---- *)

(* The rounds of a node, with a collection of k members.                   *)
Turns(k, n) ==
    IF Type[n] \in {"repeat", "retry"} THEN Count[n]
    ELSE IF Type[n] = "for_each" THEN k ELSE 1

(* A node is earned, when S is the set of the skills that moved the robot  *)
(* and W that of the other nodes that are.                                 *)
Means(S, k, n, W) ==
    \/ Type[n] = "skill" /\ n \in S
    \/ Type[n] = "fallback" /\ \E i \in DOMAIN Kids[n] : Kids[n][i] \in W
    \/ /\ Type[n] \notin {"skill", "fallback"}
       /\ Turns(k, n) = 0 \/ \A i \in DOMAIN Kids[n] : Kids[n][i] \in W

Earned(S, k) == UNION {X \in SUBSET Node : \A n \in X : Means(S, k, n, X)}

(* The more is earned below it, the more a node has.                       *)
LEMMA MeansGrows ==
    ASSUME NEW S, NEW T, S \subseteq T, NEW k, NEW n \in Node, NEW V, NEW W, V \subseteq W,
           Means(S, k, n, V)
    PROVE  Means(T, k, n, W)
    BY DEF Means

(* The earned nodes are those that their skills give.                      *)
LEMMA EarnedIs ==
    ASSUME NEW S, NEW k
    PROVE  /\ Earned(S, k) \subseteq Node
           /\ \A n \in Node : n \in Earned(S, k) <=> Means(S, k, n, Earned(S, k))
<1> DEFINE E == Earned(S, k)
<1>1. E \subseteq Node
    BY DEF Earned
<1>2. ASSUME NEW X \in SUBSET Node, \A n \in X : Means(S, k, n, X) PROVE X \subseteq E
    BY <1>2 DEF Earned
<1>3. ASSUME NEW n \in E PROVE Means(S, k, n, E)
    <2>1. PICK X \in SUBSET Node : n \in X /\ \A m \in X : Means(S, k, m, X)
        BY DEF Earned
    <2>2. X \subseteq E
        BY <1>2, <2>1
    <2> HIDE DEF E
    <2> QED
        BY <2>1, <2>2, MeansGrows
<1> HIDE DEF E
<1>4. ASSUME NEW n \in Node, Means(S, k, n, E) PROVE n \in E
    <2> DEFINE X == E \cup {n}
    <2>1. \A m \in X : Means(S, k, m, X)
        <3> TAKE m \in X
        <3>1. Means(S, k, m, E) /\ E \subseteq X /\ m \in Node
            BY <1>1, <1>3, <1>4
        <3> HIDE DEF X
        <3> QED
            BY <3>1, MeansGrows
    <2>2. X \in SUBSET Node
        BY <1>1
    <2>3. X \subseteq E
        <3> HIDE DEF X
        <3> QED
            BY <1>2, <2>1, <2>2
    <2> QED
        BY <2>3
<1> QED
    BY <1>1, <1>3, <1>4 DEF E

(* A part of the tree that holds the children of its nodes decides by its  *)
(* own skills what it has earned.                                          *)
LEMMA EarnedApart ==
    ASSUME NEW S, NEW T, NEW k, NEW D \in SUBSET Node,
           \A n \in D : \A i \in DOMAIN Kids[n] : Kids[n][i] \in D,
           \A n \in D : n \in S <=> n \in T
    PROVE  \A n \in D : n \in Earned(S, k) <=> n \in Earned(T, k)
<1> DEFINE Good == {n \in Node : n \in D => (n \in Earned(S, k) <=> n \in Earned(T, k))}
<1>1. ASSUME NEW n \in Node, \A m \in Node : m > n => m \in Good PROVE n \in Good
    <2> SUFFICES ASSUME n \in D PROVE n \in Earned(S, k) <=> n \in Earned(T, k)
        OBVIOUS
    <2>1. \A i \in DOMAIN Kids[n] : Kids[n][i] \in Earned(S, k) <=> Kids[n][i] \in Earned(T, k)
        <3> TAKE i \in DOMAIN Kids[n]
        <3>1. Kids[n][i] \in Node /\ Kids[n][i] > n /\ Kids[n][i] \in D
            BY KidsAre
        <3> QED
            BY <1>1, <3>1
    <2>2. Means(S, k, n, Earned(S, k)) <=> Means(T, k, n, Earned(T, k))
        BY <2>1 DEF Means
    <2> QED
        BY <2>2, EarnedIs
<1>2. Node \subseteq Good
    <2> HIDE DEF Good
    <2> QED
        BY <1>1, FromTheLeaves
<1> QED
    BY <1>2

(* A skill that moves the robot takes nothing from what was earned.        *)
LEMMA EarnedGrows ==
    ASSUME NEW S, NEW T, S \subseteq T, NEW k
    PROVE  Earned(S, k) \subseteq Earned(T, k)
<1> DEFINE Good == {n \in Node : n \in Earned(S, k) => n \in Earned(T, k)}
<1>1. ASSUME NEW n \in Node, \A m \in Node : m > n => m \in Good PROVE n \in Good
    <2> SUFFICES ASSUME n \in Earned(S, k) PROVE n \in Earned(T, k)
        OBVIOUS
    <2>1. \A i \in DOMAIN Kids[n] : Kids[n][i] \in Earned(S, k) => Kids[n][i] \in Earned(T, k)
        <3> TAKE i \in DOMAIN Kids[n]
        <3>1. Kids[n][i] \in Node /\ Kids[n][i] > n
            BY KidsAre
        <3> QED
            BY <1>1, <3>1
    <2>2. Means(S, k, n, Earned(S, k)) => Means(T, k, n, Earned(T, k))
        BY <2>1 DEF Means
    <2> QED
        BY <2>2, EarnedIs
<1>2. Node \subseteq Good
    <2> HIDE DEF Good
    <2> QED
        BY <1>1, FromTheLeaves
<1> QED
    BY <1>2, EarnedIs

(* A function that means of every node what it means of its children says  *)
(* of each node whether it is earned.                                      *)
LEMMA EarnedOnly ==
    ASSUME NEW S, NEW k, NEW A,
           \A n \in Node : A[n] <=>
               \/ Type[n] = "skill" /\ n \in S
               \/ Type[n] = "fallback" /\ \E i \in DOMAIN Kids[n] : A[Kids[n][i]]
               \/ /\ Type[n] \notin {"skill", "fallback"}
                  /\ Turns(k, n) = 0 \/ \A i \in DOMAIN Kids[n] : A[Kids[n][i]]
    PROVE  \A n \in Node : A[n] <=> n \in Earned(S, k)
<1> DEFINE Good == {n \in Node : A[n] <=> n \in Earned(S, k)}
<1>1. ASSUME NEW n \in Node, \A m \in Node : m > n => m \in Good PROVE n \in Good
    <2>1. \A i \in DOMAIN Kids[n] : A[Kids[n][i]] <=> Kids[n][i] \in Earned(S, k)
        <3> TAKE i \in DOMAIN Kids[n]
        <3>1. Kids[n][i] \in Node /\ Kids[n][i] > n
            BY KidsAre
        <3> QED
            BY <1>1, <3>1
    <2>2. A[n] <=> Means(S, k, n, Earned(S, k))
        BY <2>1, Zenon DEF Means
    <2>3. A[n] <=> n \in Earned(S, k)
        BY <2>2, EarnedIs, Zenon
    <2> QED
        BY <2>3, Zenon
<1>2. Node \subseteq Good
    <2> HIDE DEF Good
    <2> QED
        BY <1>1, FromTheLeaves
<1> QED
    BY <1>2, Zenon

(* What the skills of a run have achieved is what they earned.             *)
LEMMA AchievedIs ==
    ASSUME NEW r \in Run
    PROVE  \A n \in Node : Achieved(r)[n] <=> n \in Earned(achieved[r], items[r])
<1> DEFINE E == Earned(achieved[r], items[r])
           Rec(f) == f = [n \in Node |-> Meaning(r, n, f)]
           f0 == [n \in Node |-> IF n \in E THEN TRUE ELSE FALSE]
<1>1. ASSUME NEW n \in Node, NEW A, \A m \in Node : A[m] \in BOOLEAN
      PROVE  /\ Meaning(r, n, A) \in BOOLEAN
             /\ Meaning(r, n, A) <=>
                   \/ Type[n] = "skill" /\ n \in achieved[r]
                   \/ Type[n] = "fallback" /\ \E i \in DOMAIN Kids[n] : A[Kids[n][i]]
                   \/ /\ Type[n] \notin {"skill", "fallback"}
                      /\ Turns(items[r], n) = 0 \/ \A i \in DOMAIN Kids[n] : A[Kids[n][i]]
    <2>1. CASE Type[n] = "skill"
        BY <2>1 DEF Meaning
    <2>2. CASE Type[n] = "fallback"
        BY <2>2 DEF Meaning
    <2>3. CASE Type[n] \notin {"skill", "fallback"}
        BY <2>3 DEF Meaning, Turns, Rounds
    <2> QED
        BY <2>1, <2>2, <2>3
<1>2. Rec(f0)
    <2>1. ASSUME NEW n \in Node PROVE f0[n] = Meaning(r, n, f0)
        <3>1. \A m \in Node : f0[m] \in BOOLEAN /\ (f0[m] <=> m \in E)
            <4> HIDE DEF E
            <4> TAKE m \in Node
            <4>1. f0[m] = IF m \in E THEN TRUE ELSE FALSE
                BY Zenon
            <4> HIDE DEF f0
            <4>2. CASE m \in E
                BY <4>1, <4>2
            <4>3. CASE m \notin E
                BY <4>1, <4>3
            <4> QED
                BY <4>2, <4>3
        <3> HIDE DEF f0
        <3>2. /\ Meaning(r, n, f0) \in BOOLEAN
              /\ Meaning(r, n, f0) <=>
                   \/ Type[n] = "skill" /\ n \in achieved[r]
                   \/ Type[n] = "fallback" /\ \E i \in DOMAIN Kids[n] : f0[Kids[n][i]]
                   \/ /\ Type[n] \notin {"skill", "fallback"}
                      /\ Turns(items[r], n) = 0 \/ \A i \in DOMAIN Kids[n] : f0[Kids[n][i]]
            BY <1>1, <3>1
        <3>3. \A i \in DOMAIN Kids[n] : f0[Kids[n][i]] <=> Kids[n][i] \in E
            BY <3>1, KidsAre
        <3>4. n \in E <=> Means(achieved[r], items[r], n, E)
            BY EarnedIs
        <3>5. Meaning(r, n, f0) <=> Means(achieved[r], items[r], n, E)
            BY <3>2, <3>3, Zenon DEF Means
        <3> QED
            BY <3>1, <3>2, <3>4, <3>5
    <2> QED
        BY <2>1
<1> DEFINE A == CHOOSE f : Rec(f)
<1>3. Rec(A)
    <2> HIDE DEF Rec, f0
    <2> QED
        BY <1>2
<1>4. Achieved(r) = A
    BY DEF Achieved
<1>5. \A n \in Node : A[n] = Meaning(r, n, A)
    <2> HIDE DEF A
    <2> QED
        BY <1>3
<1>6. \A n \in Node : A[n] \in BOOLEAN
    <2> HIDE DEF A
    <2> SUFFICES ASSUME NEW n \in Node PROVE Meaning(r, n, A) \in BOOLEAN
        BY <1>5
    <2>1. CASE Type[n] = "skill"
        BY <2>1 DEF Meaning
    <2>2. CASE Type[n] = "fallback"
        BY <2>2 DEF Meaning
    <2>3. CASE Type[n] \notin {"skill", "fallback"}
        BY <2>3 DEF Meaning
    <2> QED
        BY <2>1, <2>2, <2>3
<1> QED
    <2> HIDE DEF A
    <2>1. \A n \in Node : A[n] <=>
               \/ Type[n] = "skill" /\ n \in achieved[r]
               \/ Type[n] = "fallback" /\ \E i \in DOMAIN Kids[n] : A[Kids[n][i]]
               \/ /\ Type[n] \notin {"skill", "fallback"}
                  /\ Turns(items[r], n) = 0 \/ \A i \in DOMAIN Kids[n] : A[Kids[n][i]]
        <3> TAKE n \in Node
        <3> QED
            BY <1>1, <1>5, <1>6, Zenon
    <2> QED
        BY <2>1, <1>4, EarnedOnly

(* ---- what a node may need ---- *)

(* The children of a node need, one after the other, what they need.       *)
LEMMA SpentIs ==
    ASSUME NEW n \in Node, NEW B, \A i \in DOMAIN Kids[n] : B[Kids[n][i]] \in Nat
    PROVE  /\ Spent(n, B)[0] = 0
           /\ \A i \in 0 .. Len(Kids[n]) : Spent(n, B)[i] \in Nat
           /\ \A i \in 1 .. Len(Kids[n]) :
                 Spent(n, B)[i] = Spent(n, B)[i - 1] + B[Kids[n][i]]
<1> DEFINE L == Len(Kids[n])
           G == [p \in (1 .. L) \X Nat |-> p[2] + B[Kids[n][p[1]]]]
           Rec(f) == f = [i \in 0 .. L |-> IF i = 0 THEN 0 ELSE f[i - 1] + B[Kids[n][i]]]
<1>1. L \in Nat /\ DOMAIN Kids[n] = 1 .. L /\ 0 \in Nat
    BY KidsAre
<1>2. \A i \in 1 .. L : B[Kids[n][i]] \in Nat
    BY <1>1
<1> HIDE DEF L
<1>3. G \in [(1 .. L) \X Nat -> Nat]
    BY <1>2
<1>4. \E f : Recurs(f, L, Nat, 0, G)
    <2> HIDE DEF G
    <2> QED
        BY <1>1, <1>3, Recursion
<1>5. PICK f \in [0 .. L -> Nat] : f = [i \in 0 .. L |-> IF i = 0 THEN 0 ELSE G[<<i, f[i - 1]>>]]
    <2> HIDE DEF G
    <2> QED
        BY <1>4 DEF Recurs
<1>6. Rec(f)
    <2>1. ASSUME NEW i \in 0 .. L, i # 0 PROVE G[<<i, f[i - 1]>>] = f[i - 1] + B[Kids[n][i]]
        <3>1. i \in 1 .. L /\ i - 1 \in 0 .. L /\ f[i - 1] \in Nat
            BY <1>1, <2>1
        <3> QED
            BY <3>1
    <2> HIDE DEF G
    <2>2. [i \in 0 .. L |-> IF i = 0 THEN 0 ELSE G[<<i, f[i - 1]>>]] =
          [i \in 0 .. L |-> IF i = 0 THEN 0 ELSE f[i - 1] + B[Kids[n][i]]]
        BY <2>1
    <2> QED
        BY <1>5, <2>2
<1> DEFINE s == CHOOSE x : Rec(x)
<1>7. Rec(s)
    <2> HIDE DEF Rec
    <2> QED
        BY <1>6
<1>8. Spent(n, B) = s
    BY DEF Spent, L
<1>9. s[0] = 0 /\ \A i \in 1 .. L : s[i] = s[i - 1] + B[Kids[n][i]]
    <2> HIDE DEF s
    <2>1. \A i \in 0 .. L : s[i] = IF i = 0 THEN 0 ELSE s[i - 1] + B[Kids[n][i]]
        BY <1>7
    <2>2. 0 \in 0 .. L /\ \A i \in 1 .. L : i \in 0 .. L /\ i # 0
        BY <1>1
    <2> QED
        BY <2>1, <2>2
<1>10. \A i \in 0 .. L : s[i] \in Nat
    <2> HIDE DEF s
    <2> DEFINE Good == {i \in Nat : i <= L => s[i] \in Nat}
    <2>1. 0 \in Good
        BY <1>9
    <2>2. ASSUME NEW i \in Nat, i \in Good PROVE i + 1 \in Good
        <3> SUFFICES ASSUME i + 1 <= L PROVE s[i + 1] \in Nat
            OBVIOUS
        <3>1. i + 1 \in 1 .. L /\ (i + 1) - 1 = i /\ s[i] \in Nat
            BY <1>1, <2>2
        <3>2. s[i + 1] = s[i] + B[Kids[n][i + 1]] /\ B[Kids[n][i + 1]] \in Nat
            BY <1>2, <1>9, <3>1
        <3> QED
            BY <3>1, <3>2
    <2>3. Nat \subseteq Good
        <3> HIDE DEF Good
        <3> QED
            BY <2>1, <2>2, Induction
    <2> QED
        BY <2>3
<1> QED
    <2> HIDE DEF s
    <2> QED
        BY <1>8, <1>9, <1>10 DEF L

(* They need no more of one price list than of another that agrees on them.*)
LEMMA SpentAgrees ==
    ASSUME NEW n \in Node, NEW B, NEW C, \A i \in DOMAIN Kids[n] : B[Kids[n][i]] \in Nat,
           \A i \in DOMAIN Kids[n] : B[Kids[n][i]] = C[Kids[n][i]]
    PROVE  \A i \in 0 .. Len(Kids[n]) : Spent(n, B)[i] = Spent(n, C)[i]
<1> DEFINE L == Len(Kids[n])
           Good == {i \in Nat : i <= L => Spent(n, B)[i] = Spent(n, C)[i]}
<1>0. L \in Nat /\ DOMAIN Kids[n] = 1 .. L
    BY KidsAre
<1>1. /\ Spent(n, B)[0] = 0
      /\ \A i \in 1 .. L : Spent(n, B)[i] = Spent(n, B)[i - 1] + B[Kids[n][i]]
    BY SpentIs
<1>2. /\ Spent(n, C)[0] = 0
      /\ \A i \in 1 .. L : Spent(n, C)[i] = Spent(n, C)[i - 1] + C[Kids[n][i]]
    <2>1. \A i \in DOMAIN Kids[n] : C[Kids[n][i]] \in Nat
        OBVIOUS
    <2> QED
        BY <2>1, SpentIs
<1> HIDE DEF L
<1>3. 0 \in Good
    BY <1>1, <1>2
<1>4. ASSUME NEW i \in Nat, i \in Good PROVE i + 1 \in Good
    <2> SUFFICES ASSUME i + 1 <= L PROVE Spent(n, B)[i + 1] = Spent(n, C)[i + 1]
        OBVIOUS
    <2>1. i + 1 \in 1 .. L /\ (i + 1) - 1 = i /\ Spent(n, B)[i] = Spent(n, C)[i]
        BY <1>0, <1>4
    <2>2. B[Kids[n][i + 1]] = C[Kids[n][i + 1]]
        BY <1>0, <2>1
    <2>3. Spent(n, B)[i + 1] = Spent(n, B)[i] + B[Kids[n][i + 1]]
        BY <1>1, <2>1
    <2>4. Spent(n, C)[i + 1] = Spent(n, C)[i] + C[Kids[n][i + 1]]
        BY <1>2, <2>1
    <2> QED
        BY <2>1, <2>2, <2>3, <2>4
<1>5. Nat \subseteq Good
    <2> HIDE DEF Good
    <2> QED
        BY <1>3, <1>4, Induction
<1> QED
    BY <1>0, <1>5 DEF L

(* The more of them, the more they need.                                   *)
LEMMA SpentGrows ==
    ASSUME NEW n \in Node, NEW B, \A i \in DOMAIN Kids[n] : B[Kids[n][i]] \in Nat,
           NEW j \in 0 .. Len(Kids[n])
    PROVE  Spent(n, B)[j] <= Spent(n, B)[Len(Kids[n])]
<1> DEFINE L == Len(Kids[n])
           Good == {i \in Nat : j + i <= L => Spent(n, B)[j] <= Spent(n, B)[j + i]}
<1>0. L \in Nat /\ DOMAIN Kids[n] = 1 .. L /\ j \in 0 .. L
    BY KidsAre
<1>1. /\ \A i \in 0 .. L : Spent(n, B)[i] \in Nat
      /\ \A i \in 1 .. L : Spent(n, B)[i] = Spent(n, B)[i - 1] + B[Kids[n][i]]
    BY SpentIs
<1>2. L - j \in Nat /\ j + (L - j) = L
    BY <1>0
<1> HIDE DEF L
<1>3. 0 \in Good
    BY <1>0, <1>1
<1>4. ASSUME NEW i \in Nat, i \in Good PROVE i + 1 \in Good
    <2> SUFFICES ASSUME j + (i + 1) <= L PROVE Spent(n, B)[j] <= Spent(n, B)[j + (i + 1)]
        OBVIOUS
    <2>1. j + (i + 1) \in 1 .. L /\ (j + (i + 1)) - 1 = j + i /\ j + i \in 0 .. L
        BY <1>0
    <2>2. Spent(n, B)[j + (i + 1)] = Spent(n, B)[j + i] + B[Kids[n][j + (i + 1)]]
        BY <1>1, <2>1
    <2>3. B[Kids[n][j + (i + 1)]] \in Nat /\ Spent(n, B)[j + i] \in Nat /\ Spent(n, B)[j] \in Nat
        BY <1>0, <1>1, <2>1
    <2>4. Spent(n, B)[j] <= Spent(n, B)[j + i]
        BY <1>4, <2>1
    <2> QED
        BY <2>2, <2>3, <2>4
<1>5. Nat \subseteq Good
    <2> HIDE DEF Good
    <2> QED
        BY <1>3, <1>4, Induction
<1>6. L - j \in Good
    BY <1>2, <1>5
<1> QED
    BY <1>2, <1>6 DEF L

(* The most that a node may need, with a collection of k members and the   *)
(* price list B, and the price list of the whole tree.                     *)
Cost(k, n, B) == IF Type[n] = "skill" THEN 1 ELSE Turns(k, n) * Spent(n, B)[Len(Kids[n])]

Prices(k, B) == B \in [Node -> Nat] /\ \A n \in Node : B[n] = Cost(k, n, B)

Price(k) == CHOOSE B : Prices(k, B)

(* Rounds and products of them are natural numbers.                        *)
LEMMA TurnsCount == ASSUME NEW k \in Nat, NEW n \in Node PROVE Turns(k, n) \in Nat
    BY TaskBounds DEF Turns

(* A product of numbers is a number.                                      *)
LEMMA Times == ASSUME NEW a \in Nat, NEW b \in Nat PROVE a * b \in Nat
    OBVIOUS

(* What a node needs is decided by what its children do.                   *)
LEMMA CostIs ==
    ASSUME NEW k \in Nat, NEW n \in Node, NEW B, NEW C,
           \A i \in DOMAIN Kids[n] : B[Kids[n][i]] \in Nat,
           \A i \in DOMAIN Kids[n] : B[Kids[n][i]] = C[Kids[n][i]]
    PROVE  Cost(k, n, B) \in Nat /\ Cost(k, n, B) = Cost(k, n, C)
<1>1. Len(Kids[n]) \in 0 .. Len(Kids[n])
    BY KidsAre
<1>2. Spent(n, B)[Len(Kids[n])] = Spent(n, C)[Len(Kids[n])]
    BY <1>1, SpentAgrees
<1>3. Spent(n, B)[Len(Kids[n])] \in Nat
    BY <1>1, SpentIs
<1>4. Turns(k, n) \in Nat
    BY TurnsCount
<1>5. Turns(k, n) * Spent(n, B)[Len(Kids[n])] \in Nat
    BY <1>3, <1>4, Times
<1> QED
    BY <1>2, <1>5 DEF Cost

(* The price list exists: a tree that ends can be priced from its leaves.  *)
LEMMA PriceIs == ASSUME NEW k \in Nat PROVE Prices(k, Price(k))
<1>1. Node \subseteq Nat /\ \E top \in Node : \A n \in Node : n <= top
    BY TaskAssumption
<1>2. PICK top \in Node : \A n \in Node : n <= top
    BY <1>1
<1>3. top \in Nat /\ \A n \in Node : n \in Nat
    BY <1>1
<1> DEFINE Below == {j \in Nat : \E B \in [Node -> Nat] :
                                    \A n \in Node : n + j > top => B[n] = Cost(k, n, B)}
<1>4. 0 \in Below
    <2> DEFINE B == [n \in Node |-> 0]
    <2>1. B \in [Node -> Nat] /\ \A n \in Node : ~(n + 0 > top)
        BY <1>2, <1>3
    <2> HIDE DEF B
    <2> QED
        BY <2>1
<1>5. ASSUME NEW j \in Nat, j \in Below PROVE j + 1 \in Below
    <2>1. PICK B \in [Node -> Nat] : \A n \in Node : n + j > top => B[n] = Cost(k, n, B)
        BY <1>5
    <2> DEFINE C == [n \in Node |-> IF n + (j + 1) > top THEN Cost(k, n, B) ELSE 0]
    <2>2. \A n \in Node : Cost(k, n, B) \in Nat
        <3> TAKE n \in Node
        <3>1. \A i \in DOMAIN Kids[n] : B[Kids[n][i]] \in Nat
            BY KidsAre
        <3> QED
            BY <3>1, CostIs
    <2>3. C \in [Node -> Nat]
        BY <2>2
    <2>4. \A n \in Node : n + j > top => C[n] = B[n]
        <3> TAKE n \in Node
        <3> HAVE n + j > top
        <3>1. n + (j + 1) > top
            BY <1>3
        <3> QED
            BY <2>1, <3>1
    <2>5. \A n \in Node : n + (j + 1) > top => C[n] = Cost(k, n, B)
        OBVIOUS
    <2> HIDE DEF C
    <2>6. ASSUME NEW n \in Node, n + (j + 1) > top PROVE C[n] = Cost(k, n, C)
        <3>1. \A i \in DOMAIN Kids[n] : B[Kids[n][i]] \in Nat /\ B[Kids[n][i]] = C[Kids[n][i]]
            <4> TAKE i \in DOMAIN Kids[n]
            <4>1. Kids[n][i] \in Node /\ Kids[n][i] > n
                BY KidsAre
            <4>2. \A a, b \in Nat : a > b /\ b + (j + 1) > top => a + j > top
                BY <1>3
            <4>3. Kids[n][i] + j > top
                BY <1>3, <2>6, <4>1, <4>2
            <4> QED
                BY <2>4, <4>1, <4>3
        <3>2. Cost(k, n, B) = Cost(k, n, C)
            BY <3>1, CostIs
        <3> QED
            BY <2>5, <2>6, <3>2
    <2> QED
        BY <2>3, <2>6
<1>6. Nat \subseteq Below
    <2> HIDE DEF Below
    <2> QED
        BY <1>4, <1>5, Induction
<1>7. top + 1 \in Below
    <2>1. top + 1 \in Nat
        BY <1>3
    <2> HIDE DEF Below
    <2> QED
        BY <1>6, <2>1
<1>8. PICK B \in [Node -> Nat] : \A n \in Node : n + (top + 1) > top => B[n] = Cost(k, n, B)
    BY <1>7
<1>9. \A n \in Node : n + (top + 1) > top
    BY <1>3
<1>10. Prices(k, B)
    BY <1>8, <1>9 DEF Prices
<1> QED
    BY <1>10 DEF Price

(* The budget of a task is its price.                                      *)
LEMMA BudgetIs ==
    ASSUME NEW r \in Run, items[r] \in Nat
    PROVE  \A n \in Node : Budget(r)[n] = Price(items[r])[n]
<1> DEFINE k == items[r]
           P == Price(k)
           Rec(f) == f = [n \in Node |-> Need(r, n, f)]
<1>1. \A n \in Node : \A f : Need(r, n, f) = Cost(k, n, f)
    BY DEF Need, Cost, Turns, Rounds
<1>2. P \in [Node -> Nat] /\ \A n \in Node : P[n] = Cost(k, n, P)
    BY PriceIs DEF Prices
<1> HIDE DEF P, k
<1>3. Rec(P)
    BY <1>1, <1>2
<1> DEFINE B == CHOOSE f : Rec(f)
<1>4. Rec(B)
    <2> HIDE DEF Rec
    <2> QED
        BY <1>3
<1>5. Budget(r) = B
    BY DEF Budget
<1>6. \A n \in Node : B[n] = Cost(k, n, B)
    <2> HIDE DEF B
    <2> QED
        BY <1>1, <1>4
<1> HIDE DEF B
<1> DEFINE Good == {n \in Node : B[n] = P[n]}
<1>7. ASSUME NEW n \in Node, \A m \in Node : m > n => m \in Good PROVE n \in Good
    <2>1. \A i \in DOMAIN Kids[n] : P[Kids[n][i]] \in Nat /\ P[Kids[n][i]] = B[Kids[n][i]]
        <3> TAKE i \in DOMAIN Kids[n]
        <3>1. Kids[n][i] \in Node /\ Kids[n][i] > n
            BY KidsAre
        <3> QED
            BY <1>2, <1>7, <3>1
    <2>2. Cost(k, n, P) = Cost(k, n, B)
        <3>1. k \in Nat
            BY DEF k
        <3> QED
            BY <2>1, <3>1, CostIs
    <2> QED
        BY <1>2, <1>6, <2>2
<1>8. Node \subseteq Good
    <2> HIDE DEF Good
    <2> QED
        BY <1>7, FromTheLeaves
<1> QED
    BY <1>5, <1>8 DEF P, k

(* ---- the path from the root of a task to the node that is run ---- *)

(* The frames of s with the node c below them.                             *)
Place(s, c, i) == IF i \in DOMAIN s THEN s[i].node ELSE c

OnPath(s, c) == \A i \in DOMAIN s : Place(s, c, i + 1) = Kids[s[i].node][s[i].child]

Framed(s) == s \in Seq(Frame) /\ \A i \in DOMAIN s : s[i].child \in DOMAIN Kids[s[i].node]

(* A frame below the others takes the place of the node that was run.      *)
LEMMA PushIs ==
    ASSUME NEW s \in Seq(Frame), NEW f \in Frame
    PROVE  /\ Append(s, f) \in Seq(Frame) /\ Len(s) \in Nat /\ DOMAIN s = 1 .. Len(s)
           /\ Len(Append(s, f)) = Len(s) + 1 /\ DOMAIN Append(s, f) = 1 .. Len(s) + 1
           /\ Append(s, f)[Len(s) + 1] = f
           /\ \A i \in DOMAIN s : Append(s, f)[i] = s[i]
    OBVIOUS

(* The path t with d below goes the way of s with c below, and then to d.  *)
Lengthens(t, d, s, c) ==
    /\ \A i \in 1 .. Len(s) + 1 : Place(t, d, i) = Place(s, c, i)
    /\ Place(t, d, Len(s) + 2) = d

(* The places of the path with one frame more, whose last is the new node. *)
LEMMA PlacesPushed ==
    ASSUME NEW s \in Seq(Frame), NEW f \in Frame, NEW d
    PROVE  Lengthens(Append(s, f), d, s, f.node)
<1> DEFINE t == Append(s, f)
<1>1. /\ t \in Seq(Frame) /\ Len(s) \in Nat /\ DOMAIN s = 1 .. Len(s)
      /\ Len(t) = Len(s) + 1 /\ DOMAIN t = 1 .. Len(s) + 1
      /\ t[Len(s) + 1] = f
      /\ \A i \in DOMAIN s : t[i] = s[i]
    BY PushIs
<1> HIDE DEF t
<1>2. ASSUME NEW i \in 1 .. Len(s) + 1 PROVE Place(t, d, i) = Place(s, f.node, i)
    <2>1. CASE i \in DOMAIN s
        BY <1>1, <2>1 DEF Place
    <2>2. CASE i \notin DOMAIN s
        <3>1. i = Len(s) + 1
            BY <1>1, <2>2
        <3> QED
            BY <1>1, <2>2, <3>1 DEF Place
    <2> QED
        BY <2>1, <2>2
<1>3. Place(t, d, Len(s) + 2) = d
    <2>1. Len(s) + 2 \notin DOMAIN t
        BY <1>1
    <2> QED
        BY <2>1 DEF Place
<1> QED
    BY <1>2, <1>3 DEF t, Lengthens

(* A frame is taken from the path as it was put there.                     *)
LEMMA PopIs ==
    ASSUME NEW s \in Seq(Frame), s # <<>>
    PROVE  /\ SubSeq(s, 1, Len(s) - 1) \in Seq(Frame) /\ s[Len(s)] \in Frame
           /\ s = Append(SubSeq(s, 1, Len(s) - 1), s[Len(s)])
           /\ Len(s) \in Nat /\ Len(s) > 0 /\ DOMAIN s = 1 .. Len(s)
           /\ Len(SubSeq(s, 1, Len(s) - 1)) = Len(s) - 1
           /\ DOMAIN SubSeq(s, 1, Len(s) - 1) = 1 .. Len(s) - 1
           /\ \A i \in 1 .. Len(s) - 1 : SubSeq(s, 1, Len(s) - 1)[i] = s[i]
<1> DEFINE t == SubSeq(s, 1, Len(s) - 1)
<1>1. Len(s) \in Nat /\ Len(s) > 0 /\ DOMAIN s = 1 .. Len(s) /\ s[Len(s)] \in Frame
    OBVIOUS
<1>2. /\ t \in Seq(Frame) /\ Len(t) = Len(s) - 1 /\ DOMAIN t = 1 .. Len(s) - 1
      /\ \A i \in 1 .. Len(s) - 1 : t[i] = s[i]
    BY <1>1
<1> HIDE DEF t
<1>3. s = Append(t, s[Len(s)])
    <2> DEFINE f == s[Len(s)]
               u == Append(t, f)
    <2>1. f \in Frame
        BY <1>1
    <2> HIDE DEF f
    <2>2. u \in Seq(Frame) /\ Len(u) = Len(t) + 1 /\ u[Len(t) + 1] = f
          /\ \A i \in 1 .. Len(t) : u[i] = t[i]
        BY <1>2, <2>1
    <2> HIDE DEF u
    <2>3. Len(t) + 1 = Len(s) /\ Len(u) = Len(s)
        BY <1>1, <1>2, <2>2
    <2>4. \A i \in 1 .. Len(s) : u[i] = s[i]
        <3> TAKE i \in 1 .. Len(s)
        <3>1. CASE i = Len(s)
            BY <2>2, <2>3, <3>1 DEF f
        <3>2. CASE i # Len(s)
            <4>0. Len(t) = Len(s) - 1
                BY <1>2
            <4> HIDE DEF f
            <4>1. i \in 1 .. Len(s) - 1
                <5>1. Len(s) \in Nat
                    BY <1>1
                <5>2. i \in Int /\ 1 <= i /\ i <= Len(s)
                    BY <5>1
                <5> QED
                    BY <3>2, <5>1, <5>2
            <4>2. i \in 1 .. Len(t)
                BY <4>0, <4>1
            <4> QED
                BY <1>2, <2>2, <4>1, <4>2
        <3> QED
            BY <3>1, <3>2
    <2>5. s = u
        BY <2>2, <2>3, <2>4
    <2> QED
        BY <2>5 DEF u, f
<1> QED
    BY <1>1, <1>2, <1>3 DEF t

(* The path goes on from child to child.                                   *)
LEMMA PathGrows ==
    ASSUME NEW s \in Seq(Frame), NEW f \in Frame, NEW c, f.node = c, OnPath(s, c)
    PROVE  OnPath(Append(s, f), Kids[c][f.child])
<1> DEFINE d == Kids[c][f.child]
           t == Append(s, f)
<1>1. /\ Len(s) \in Nat /\ DOMAIN s = 1 .. Len(s) /\ DOMAIN t = 1 .. Len(s) + 1
      /\ t[Len(s) + 1] = f
      /\ \A i \in DOMAIN s : t[i] = s[i]
    BY PushIs
<1>5. Lengthens(t, d, s, f.node)
    <2> HIDE DEF d
    <2> QED
        BY PlacesPushed
<1>3. /\ \A i \in 1 .. Len(s) + 1 : Place(t, d, i) = Place(s, c, i)
      /\ Place(t, d, Len(s) + 2) = d
    <2> HIDE DEF t, d
    <2> QED
        BY <1>5 DEF Lengthens
<1>2. ASSUME NEW i \in DOMAIN t PROVE Place(t, d, i + 1) = Kids[t[i].node][t[i].child]
    <2> HIDE DEF t, d
    <2>1. CASE i = Len(s) + 1
        <3>1. i + 1 = Len(s) + 2
            BY <1>1, <2>1
        <3> QED
            BY <1>1, <1>3, <2>1, <3>1 DEF d
    <2>2. CASE i # Len(s) + 1
        <3>1. i \in DOMAIN s /\ i + 1 \in 1 .. Len(s) + 1 /\ t[i] = s[i]
            BY <1>1, <2>2
        <3>2. Place(s, c, i + 1) = Kids[s[i].node][s[i].child]
            BY <3>1 DEF OnPath
        <3> QED
            BY <1>1, <1>3, <3>1, <3>2
    <2> QED
        BY <2>1, <2>2
<1> HIDE DEF t, d
<1>4. OnPath(t, d)
    BY <1>2 DEF OnPath
<1> QED
    BY <1>4 DEF t, d

(* It ends earlier at the node of its last frame.                          *)
LEMMA PathShrinks ==
    ASSUME NEW s \in Seq(Frame), s # <<>>, NEW c, OnPath(s, c)
    PROVE  /\ OnPath(SubSeq(s, 1, Len(s) - 1), s[Len(s)].node)
           /\ c = Kids[s[Len(s)].node][s[Len(s)].child]
<1> DEFINE t == SubSeq(s, 1, Len(s) - 1)
           f == s[Len(s)]
<1>1. /\ t \in Seq(Frame) /\ f \in Frame /\ s = Append(t, f) /\ Len(s) \in Nat /\ Len(s) > 0
      /\ DOMAIN s = 1 .. Len(s) /\ Len(t) = Len(s) - 1
    BY PopIs
<1> HIDE DEF t
<1>2. /\ DOMAIN t = 1 .. Len(t) /\ \A i \in DOMAIN t : s[i] = t[i]
      /\ \A i \in 1 .. Len(t) + 1 : Place(s, c, i) = Place(t, f.node, i)
      /\ Place(s, c, Len(t) + 2) = c
    <2> HIDE DEF f
    <2>1. Len(t) \in Nat /\ DOMAIN t = 1 .. Len(t)
          /\ \A i \in DOMAIN t : Append(t, f)[i] = t[i]
        BY <1>1, PushIs
    <2>2. t \in Seq(Frame) /\ f \in Frame /\ s = Append(t, f)
        BY <1>1
    <2>3. Lengthens(s, c, t, f.node)
        BY <2>2, PlacesPushed
    <2> QED
        BY <2>1, <2>2, <2>3 DEF Lengthens
<1>3. Place(s, c, Len(s) + 1) = Kids[f.node][f.child]
    BY <1>1 DEF OnPath
<1> HIDE DEF f
<1>4. c = Kids[f.node][f.child]
    <2>1. Len(t) + 2 = Len(s) + 1
        BY <1>1
    <2> QED
        BY <1>2, <1>3, <2>1
<1>5. ASSUME NEW i \in DOMAIN t PROVE Place(t, f.node, i + 1) = Kids[t[i].node][t[i].child]
    <2>1. i \in DOMAIN s /\ i + 1 \in 1 .. Len(t) + 1 /\ s[i] = t[i]
        BY <1>1, <1>2
    <2>2. Place(s, c, i + 1) = Kids[s[i].node][s[i].child]
        BY <2>1 DEF OnPath
    <2> QED
        BY <1>2, <2>1, <2>2
<1>6. OnPath(t, f.node)
    BY <1>5 DEF OnPath
<1> QED
    BY <1>4, <1>6 DEF t, f

(* It goes down the tree, and is at no node twice.                         *)
LEMMA PathRises ==
    ASSUME NEW s, Framed(s), NEW c \in Node, OnPath(s, c),
           NEW i \in 1 .. Len(s) + 1, NEW j \in 1 .. Len(s) + 1, i < j
    PROVE  Place(s, c, i) \in Node /\ Place(s, c, i) < Place(s, c, j)
<1>0. s \in Seq(Frame) /\ Len(s) \in Nat /\ DOMAIN s = 1 .. Len(s)
    BY DEF Framed
<1>1. \A p \in 1 .. Len(s) + 1 : Place(s, c, p) \in Node /\ Place(s, c, p) \in Nat
    <2> TAKE p \in 1 .. Len(s) + 1
    <2>1. CASE p \in DOMAIN s
        <3>1. s[p] \in Frame
            BY <1>0, <2>1
        <3>2. s[p].node \in Node
            BY <3>1 DEF Frame
        <3> QED
            BY <2>1, <3>2, KidsAre DEF Place
    <2>2. CASE p \notin DOMAIN s
        BY <2>2, KidsAre DEF Place
    <2> QED
        BY <2>1, <2>2
<1>2. \A p \in 1 .. Len(s) : Place(s, c, p) < Place(s, c, p + 1)
    <2> TAKE p \in 1 .. Len(s)
    <2>1. p \in DOMAIN s /\ s[p].node \in Node /\ s[p].child \in DOMAIN Kids[s[p].node]
        <3>1. p \in DOMAIN s /\ s[p] \in Frame
            BY <1>0
        <3> QED
            BY <3>1 DEF Frame, Framed
    <2>2. Place(s, c, p + 1) = Kids[s[p].node][s[p].child] /\ Place(s, c, p) = s[p].node
        BY <2>1 DEF OnPath, Place
    <2>3. Kids[s[p].node][s[p].child] > s[p].node
        BY <2>1, KidsAre
    <2>4. Place(s, c, p + 1) > Place(s, c, p)
        BY <2>2, <2>3
    <2>5. Place(s, c, p + 1) \in Nat /\ Place(s, c, p) \in Nat
        BY <1>0, <1>1
    <2> QED
        BY <2>4, <2>5
<1> DEFINE Good == {q \in Nat : i + q + 1 <= Len(s) + 1 => Place(s, c, i) < Place(s, c, i + q + 1)}
<1>3. 0 \in Good
    <2>1. i + 0 + 1 = i + 1 /\ (i + 1 <= Len(s) + 1 => i \in 1 .. Len(s))
        BY <1>0
    <2> QED
        BY <1>2, <2>1
<1>4. ASSUME NEW q \in Nat, q \in Good PROVE q + 1 \in Good
    <2> SUFFICES ASSUME i + (q + 1) + 1 <= Len(s) + 1
                 PROVE  Place(s, c, i) < Place(s, c, i + (q + 1) + 1)
        OBVIOUS
    <2>1. i + (q + 1) + 1 = (i + q + 1) + 1 /\ i + q + 1 \in 1 .. Len(s)
        BY <1>0
    <2>2. Place(s, c, i + q + 1) < Place(s, c, i + (q + 1) + 1)
        BY <1>2, <2>1
    <2>3. Place(s, c, i) < Place(s, c, i + q + 1)
        BY <1>4, <2>1
    <2>4. Place(s, c, i) \in Nat /\ Place(s, c, i + q + 1) \in Nat
          /\ Place(s, c, i + (q + 1) + 1) \in Nat
        BY <1>0, <1>1, <2>1
    <2> QED
        BY <2>2, <2>3, <2>4
<1>5. Nat \subseteq Good
    <2> HIDE DEF Good
    <2> QED
        BY <1>3, <1>4, Induction
<1>6. (j - i) - 1 \in Good /\ i + ((j - i) - 1) + 1 = j
    <2>1. (j - i) - 1 \in Nat /\ i + ((j - i) - 1) + 1 = j
        BY <1>0
    <2> HIDE DEF Good
    <2> QED
        BY <1>5, <2>1
<1> QED
    BY <1>0, <1>1, <1>6

(* What the frames before a child have earned: the children of this round, *)
(* other than those of a fallback, which failed.                           *)
Passed(s, W) ==
    \A i \in DOMAIN s : Type[s[i].node] # "fallback" =>
        \A j \in 1 .. s[i].child - 1 : Kids[s[i].node][j] \in W

(* A skill that is begun again loses what it had, and nothing before it on *)
(* the path does: no node that was passed contains it.                     *)
LEMMA BeginsAgain ==
    ASSUME NEW s, Framed(s), NEW c \in Node, OnPath(s, c), NEW S, NEW k, Passed(s, Earned(S, k))
    PROVE  Passed(s, Earned(S \ {c}, k))
<1> DEFINE P == {Place(s, c, i) : i \in 1 .. Len(s) + 1}
           D == {n \in Node : n > Place(s, c, 1) /\ n \notin P}
<1>1. s \in Seq(Frame) /\ Len(s) \in Nat /\ DOMAIN s = 1 .. Len(s)
    BY DEF Framed
<1>2. \A i \in DOMAIN s : s[i].node \in Node /\ s[i].child \in DOMAIN Kids[s[i].node]
                          /\ s[i].child \in Nat
    <2> TAKE i \in DOMAIN s
    <2>1. s[i] \in Frame
        BY <1>1
    <2> QED
        BY <2>1 DEF Frame, Framed
<1>3. \A i, j \in 1 .. Len(s) + 1 : i < j => Place(s, c, i) < Place(s, c, j)
    BY PathRises
<1>4. \A i \in 1 .. Len(s) + 1 : Place(s, c, i) \in Nat
    <2> TAKE i \in 1 .. Len(s) + 1
    <2>1. CASE i \in DOMAIN s
        BY <1>2, <2>1, KidsAre DEF Place
    <2>2. CASE i \notin DOMAIN s
        BY <2>2, KidsAre DEF Place
    <2> QED
        BY <2>1, <2>2
<1>5. \A m, n \in Node : \A i \in DOMAIN Kids[m], j \in DOMAIN Kids[n] :
          Kids[m][i] = Kids[n][j] => m = n /\ i = j
    BY TaskAssumption
<1>6. \A i \in 1 .. Len(s) : Place(s, c, i) = s[i].node
                             /\ Place(s, c, i + 1) = Kids[s[i].node][s[i].child]
    BY <1>1 DEF Place, OnPath
(* A node of the path that is a child is the one its own parent stands at. *)
<1>7. ASSUME NEW n \in Node, NEW j \in DOMAIN Kids[n], n >= Place(s, c, 1), Kids[n][j] \in P
      PROVE  \E i \in 1 .. Len(s) : n = s[i].node /\ j = s[i].child
    <2>1. PICK i \in 1 .. Len(s) + 1 : Kids[n][j] = Place(s, c, i)
        BY <1>7
    <2>2. Kids[n][j] > n /\ Kids[n][j] \in Nat /\ n \in Nat
        <3>1. Kids[n][j] \in Node /\ Kids[n][j] > n /\ n \in Nat
            BY KidsAre
        <3> QED
            BY <3>1, KidsAre
    <2>3. i # 1
        <3>1. Place(s, c, 1) \in Nat
            BY <1>1, <1>4
        <3> QED
            BY <1>7, <2>1, <2>2, <3>1
    <2>4. i - 1 \in 1 .. Len(s) /\ (i - 1) + 1 = i
        BY <1>1, <2>3
    <2>5. Kids[n][j] = Kids[s[i - 1].node][s[i - 1].child]
        BY <1>6, <2>1, <2>4
    <2>6. i - 1 \in DOMAIN s
        BY <1>1, <2>4
    <2>7. n = s[i - 1].node /\ j = s[i - 1].child
        BY <1>2, <1>5, <2>5, <2>6
    <2> QED
        BY <2>4, <2>7
<1> HIDE DEF P
<1>8. ASSUME NEW n \in D, NEW j \in DOMAIN Kids[n] PROVE Kids[n][j] \in D
    <2>1. Kids[n][j] \in Node /\ Kids[n][j] > n /\ n \in Nat /\ n \in Node
        BY KidsAre
    <2>2. Kids[n][j] > Place(s, c, 1)
        <3>1. Place(s, c, 1) \in Nat
            BY <1>1, <1>4
        <3>2. Kids[n][j] \in Nat
            BY <2>1, KidsAre
        <3>3. n > Place(s, c, 1)
            OBVIOUS
        <3> HIDE DEF D
        <3> QED
            BY <2>1, <3>1, <3>2, <3>3
    <2>3. ASSUME Kids[n][j] \in P PROVE FALSE
        <3>1. n >= Place(s, c, 1)
            BY <1>1, <1>4, <2>1
        <3>2. PICK i \in 1 .. Len(s) : n = s[i].node
            BY <1>7, <2>1, <2>3, <3>1
        <3>3. n \in P
            BY <1>1, <1>6, <3>2 DEF P
        <3> QED
            BY <3>3
    <2> QED
        BY <2>1, <2>2, <2>3
<1>9. c \in P
    <2>1. Len(s) + 1 \in 1 .. Len(s) + 1 /\ Place(s, c, Len(s) + 1) = c
        BY <1>1 DEF Place
    <2> QED
        BY <2>1 DEF P
<1>10. \A n \in D : n \in Earned(S, k) <=> n \in Earned(S \ {c}, k)
    <2>1. D \in SUBSET Node /\ \A n \in D : n \in S <=> n \in S \ {c}
        BY <1>9
    <2> HIDE DEF D
    <2> QED
        BY <1>8, <2>1, EarnedApart
<1>11. ASSUME NEW i \in DOMAIN s, NEW j \in 1 .. s[i].child - 1
       PROVE  Kids[s[i].node][j] \in D
    <2> DEFINE n == s[i].node
    <2>1. n \in Node /\ j \in DOMAIN Kids[n] /\ j # s[i].child
        <3>1. DOMAIN Kids[n] = 1 .. Len(Kids[n]) /\ Len(Kids[n]) \in Nat
            BY <1>2, KidsAre
        <3> QED
            BY <1>2, <3>1
    <2>2. n >= Place(s, c, 1) /\ n \in Nat /\ Place(s, c, 1) \in Nat
        <3>1. i \in 1 .. Len(s) + 1 /\ 1 \in 1 .. Len(s) + 1 /\ Place(s, c, i) = n
            BY <1>1, <1>6
        <3>2. i = 1 \/ 1 < i
            BY <1>1
        <3>3. i = 1 \/ Place(s, c, 1) < Place(s, c, i)
            BY <1>3, <3>1, <3>2
        <3>4. Place(s, c, 1) \in Nat /\ Place(s, c, i) \in Nat
            BY <1>4, <3>1
        <3> QED
            BY <3>1, <3>3, <3>4
    <2>3. Kids[n][j] \in Node /\ Kids[n][j] > n
        BY <2>1, KidsAre
    <2>4. Kids[n][j] > Place(s, c, 1)
        <3>1. Kids[n][j] \in Nat
            BY <2>3, KidsAre
        <3> QED
            BY <2>2, <2>3, <3>1
    <2>5. ASSUME Kids[n][j] \in P PROVE FALSE
        <3>1. PICK p \in 1 .. Len(s) : n = s[p].node /\ j = s[p].child
            BY <1>7, <2>1, <2>2, <2>5
        <3>2. p # i
            BY <2>1, <3>1
        <3>3. i \in 1 .. Len(s) + 1 /\ p \in 1 .. Len(s) + 1 /\ (p < i \/ i < p)
            BY <1>1, <3>2
        <3>4. Place(s, c, p) = Place(s, c, i)
            BY <1>1, <1>6, <3>1
        <3>5. Place(s, c, p) < Place(s, c, i) \/ Place(s, c, i) < Place(s, c, p)
            BY <1>3, <3>3
        <3>6. Place(s, c, p) \in Nat /\ Place(s, c, i) \in Nat
            BY <1>4, <3>3
        <3> QED
            BY <3>4, <3>5, <3>6
    <2> QED
        BY <2>3, <2>4, <2>5
<1> HIDE DEF D
<1> QED
    BY <1>10, <1>11 DEF Passed

(* What a path has passed, a longer one has, if its frame has it too.      *)
LEMMA PassedGrows ==
    ASSUME NEW s \in Seq(Frame), NEW f \in Frame, NEW W, Passed(s, W),
           Type[f.node] # "fallback" => \A j \in 1 .. f.child - 1 : Kids[f.node][j] \in W
    PROVE  Passed(Append(s, f), W)
<1> DEFINE t == Append(s, f)
<1>1. /\ Len(s) \in Nat /\ DOMAIN s = 1 .. Len(s) /\ DOMAIN t = 1 .. Len(s) + 1
      /\ t[Len(s) + 1] = f
      /\ \A i \in DOMAIN s : t[i] = s[i]
    BY PushIs
<1> HIDE DEF t
<1>2. ASSUME NEW i \in DOMAIN t, Type[t[i].node] # "fallback", NEW j \in 1 .. t[i].child - 1
      PROVE  Kids[t[i].node][j] \in W
    <2>1. CASE i = Len(s) + 1
        BY <1>1, <1>2, <2>1
    <2>2. CASE i # Len(s) + 1
        <3>1. i \in DOMAIN s /\ t[i] = s[i]
            BY <1>1, <2>2
        <3> QED
            BY <1>2, <3>1 DEF Passed
    <2> QED
        BY <2>1, <2>2
<1>3. Passed(t, W)
    BY <1>2 DEF Passed
<1> QED
    BY <1>3 DEF t

(* An earlier end of the path has passed no more.                          *)
LEMMA PassedShrinks ==
    ASSUME NEW s \in Seq(Frame), s # <<>>, NEW W, Passed(s, W)
    PROVE  /\ Passed(SubSeq(s, 1, Len(s) - 1), W)
           /\ Type[s[Len(s)].node] # "fallback" =>
                 \A j \in 1 .. s[Len(s)].child - 1 : Kids[s[Len(s)].node][j] \in W
<1> DEFINE t == SubSeq(s, 1, Len(s) - 1)
<1>1. /\ Len(s) \in Nat /\ Len(s) > 0 /\ DOMAIN s = 1 .. Len(s) /\ DOMAIN t = 1 .. Len(s) - 1
      /\ \A i \in 1 .. Len(s) - 1 : t[i] = s[i]
    BY PopIs
<1> HIDE DEF t
<1>2. \A i \in DOMAIN t : i \in DOMAIN s /\ t[i] = s[i]
    BY <1>1
<1>3. Passed(t, W)
    BY <1>2 DEF Passed
<1>4. Len(s) \in DOMAIN s
    BY <1>1
<1> QED
    BY <1>3, <1>4 DEF Passed, t

(* ---- what a path has spent ---- *)

(* What the rounds and the children before that of a frame may have needed.*)
SpentAt(k, n, child, round) ==
    (round - 1) * Spent(n, Price(k))[Len(Kids[n])] + Spent(n, Price(k))[child - 1]

Share(k, f) == SpentAt(k, f.node, f.child, f.round)

(* v is spent before c, all that the frames above it may have needed, and  *)
(* leaves for it what it may need, as for every node on the path.          *)
Accounts(s, c, k, v, a) ==
    /\ a \in [1 .. Len(s) + 1 -> Nat] /\ a[1] = 0 /\ a[Len(s) + 1] = v
    /\ \A i \in DOMAIN s : a[i + 1] = a[i] + Share(k, s[i])
    /\ \A i \in 1 .. Len(s) + 1 : a[i] + Price(k)[Place(s, c, i)] <= Price(k)[Place(s, c, 1)]

Spends(s, c, k, v) == \E a : Accounts(s, c, k, v, a)

(* One round more is the price of all children more.                       *)
LEMMA OneRound == ASSUME NEW a \in Nat, NEW b \in Nat PROVE (a + 1) * b = a * b + b
    OBVIOUS

(* More rounds cost no less.                                               *)
LEMMA MoreRounds ==
    ASSUME NEW a \in Nat, NEW c \in Nat, NEW b \in Nat, a <= c PROVE a * b <= c * b
<1>1. PICK d \in Nat : c = a + d
    <2>1. c - a \in Nat /\ c = a + (c - a)
        OBVIOUS
    <2> QED
        BY <2>1
<1>2. (a + d) * b = a * b + d * b
    OBVIOUS
<1>3. a * b \in Nat /\ d * b \in Nat
    BY Times
<1> QED
    BY <1>1, <1>2, <1>3

(* A composite node has spent nothing at its first child, the price of a   *)
(* child more at the next, no less in the next round, and never more than  *)
(* its own price.                                                          *)
LEMMA SpentSteps ==
    ASSUME NEW k \in Nat, NEW n \in Node, NEW child \in DOMAIN Kids[n],
           NEW round \in 1 .. Turns(k, n)
    PROVE  /\ SpentAt(k, n, 1, 1) = 0 /\ SpentAt(k, n, child, round) \in Nat
           /\ Price(k)[Kids[n][child]] \in Nat /\ Price(k)[n] \in Nat
           /\ SpentAt(k, n, child + 1, round)
                  = SpentAt(k, n, child, round) + Price(k)[Kids[n][child]]
           /\ SpentAt(k, n, child + 1, round) <= SpentAt(k, n, 1, round + 1)
           /\ SpentAt(k, n, child + 1, round) <= Price(k)[n]
<1> DEFINE P == Price(k)
           L == Len(Kids[n])
           s == Spent(n, P)
           T == s[L]
<1>1. P \in [Node -> Nat] /\ \A m \in Node : P[m] = Cost(k, m, P)
    BY PriceIs DEF Prices
<1>2. L \in Nat /\ DOMAIN Kids[n] = 1 .. L /\ child \in 1 .. L
      /\ \A i \in DOMAIN Kids[n] : Kids[n][i] \in Node
    BY KidsAre
<1> HIDE DEF P
<1>3. \A i \in DOMAIN Kids[n] : P[Kids[n][i]] \in Nat
    BY <1>1, <1>2
<1>4. /\ s[0] = 0 /\ \A i \in 0 .. L : s[i] \in Nat
      /\ \A i \in 1 .. L : s[i] = s[i - 1] + P[Kids[n][i]]
    BY <1>3, SpentIs
<1>5. \A i \in 0 .. L : s[i] <= s[L]
    BY <1>3, SpentGrows
<1>6. Turns(k, n) \in Nat
    BY TurnsCount
<1>7. Type[n] # "skill"
    <2>1. Kids[n] # <<>>
        BY <1>2
    <2> QED
        BY <2>1, TaskBounds
<1>8. P[n] = Turns(k, n) * T
    BY <1>1, <1>7 DEF Cost
<1> HIDE DEF s
<1>9. /\ child - 1 \in 0 .. L /\ child \in 0 .. L /\ L \in 0 .. L /\ child \in 1 .. L
      /\ (child + 1) - 1 = child /\ round - 1 \in Nat /\ (round - 1) + 1 = round
      /\ round \in Nat /\ (round + 1) - 1 = round /\ round <= Turns(k, n)
    BY <1>2, <1>6
<1>10. T \in Nat /\ s[child - 1] \in Nat /\ s[child] \in Nat /\ s[child] <= T
       /\ s[child] = s[child - 1] + P[Kids[n][child]]
    BY <1>4, <1>5, <1>9
<1>11. P[Kids[n][child]] \in Nat /\ P[n] \in Nat
    BY <1>1, <1>2, <1>3
<1> HIDE DEF T
<1> DEFINE a == (round - 1) * T
<1>12. a \in Nat
    BY <1>9, <1>10, Times
<1>13. round * T = a + T
    BY <1>9, <1>10, OneRound
<1>14. round * T <= P[n]
    BY <1>6, <1>8, <1>9, <1>10, MoreRounds
<1>15. /\ SpentAt(k, n, child, round) = a + s[child - 1]
       /\ SpentAt(k, n, child + 1, round) = a + s[child]
       /\ SpentAt(k, n, 1, round + 1) = a + T
       /\ SpentAt(k, n, 1, 1) = 0
    <2>1. SpentAt(k, n, child, round) = a + s[child - 1]
        BY DEF SpentAt, T, s, P
    <2>2. SpentAt(k, n, child + 1, round) = a + s[child]
        BY <1>9 DEF SpentAt, T, s, P
    <2>3. SpentAt(k, n, 1, round + 1) = ((round + 1) - 1) * T + s[1 - 1]
        BY DEF SpentAt, T, s, P
    <2>4. SpentAt(k, n, 1, 1) = (1 - 1) * T + s[1 - 1]
        BY DEF SpentAt, T, s, P
    <2> HIDE DEF a
    <2>5. SpentAt(k, n, 1, round + 1) = a + T
        <3>1. s[1 - 1] = 0
            BY <1>4
        <3> QED
            BY <1>9, <1>10, <1>12, <1>13, <2>3, <3>1
    <2>6. SpentAt(k, n, 1, 1) = 0
        <3>1. s[1 - 1] = 0
            BY <1>4
        <3> QED
            BY <1>10, <2>4, <3>1
    <2> QED
        BY <2>1, <2>2, <2>5, <2>6
<1> HIDE DEF a
<1> DEFINE p == P[n]
           q == P[Kids[n][child]]
<1>16. a + s[child - 1] \in Nat /\ a + s[child] = (a + s[child - 1]) + q
       /\ a + s[child] <= a + T /\ a + s[child] <= p
    <2>1. p \in Nat /\ q \in Nat /\ s[child] = s[child - 1] + q /\ a + T <= p
        BY <1>10, <1>11, <1>13, <1>14
    <2> HIDE DEF p, q
    <2> QED
        BY <1>10, <1>12, <2>1
<1> QED
    BY <1>11, <1>15, <1>16 DEF P

(* A path without frames has spent nothing.                                *)
LEMMA SpendsNothing ==
    ASSUME NEW k \in Nat, NEW c \in Node
    PROVE  Spends(<<>>, c, k, 0)
<1> DEFINE a == [i \in 1 .. 1 |-> 0]
<1>1. Price(k)[c] \in Nat
    BY PriceIs DEF Prices
<1>2. Place(<<>>, c, 1) = c /\ Len(<<>>) = 0 /\ DOMAIN <<>> = {}
    BY DEF Place
<1>3. a \in [1 .. 1 -> Nat] /\ a[1] = 0
    OBVIOUS
<1> HIDE DEF a
<1>4. Accounts(<<>>, c, k, 0, a)
    BY <1>1, <1>2, <1>3 DEF Accounts
<1> QED
    BY <1>4 DEF Spends

(* A frame below the others spends its share.                              *)
LEMMA SpendsGrows ==
    ASSUME NEW k \in Nat, NEW s \in Seq(Frame), NEW f \in Frame, NEW c, f.node = c,
           f.child \in DOMAIN Kids[c], f.round \in 1 .. Turns(k, c), NEW v, Spends(s, c, k, v)
    PROVE  Spends(Append(s, f), Kids[c][f.child], k, v + Share(k, f))
<1> DEFINE d == Kids[c][f.child]
           t == Append(s, f)
           sh == Share(k, f)
           L == Len(s)
           P == Price(k)
<1>1. PICK a : Accounts(s, c, k, v, a)
    BY DEF Spends
<1>2. /\ L \in Nat /\ DOMAIN s = 1 .. L /\ Len(t) = L + 1 /\ DOMAIN t = 1 .. L + 1
      /\ t[L + 1] = f /\ \A i \in DOMAIN s : t[i] = s[i]
    BY PushIs
<1>0. Lengthens(t, d, s, f.node)
    <2> HIDE DEF d
    <2> QED
        BY PlacesPushed
<1>3. /\ \A i \in 1 .. L + 1 : Place(t, d, i) = Place(s, c, i)
      /\ Place(t, d, L + 2) = d
    <2> HIDE DEF t, d
    <2> QED
        BY <1>0 DEF Lengthens
<1>4. c \in Node /\ sh = SpentAt(k, c, f.child, f.round)
    BY DEF Frame, Share
<1>5. /\ SpentAt(k, c, f.child, f.round) \in Nat /\ P[d] \in Nat /\ P[c] \in Nat
      /\ SpentAt(k, c, f.child + 1, f.round) = SpentAt(k, c, f.child, f.round) + P[d]
      /\ SpentAt(k, c, f.child + 1, f.round) <= P[c]
    BY <1>4, SpentSteps
<1> HIDE DEF d, t, sh, P
<1>6. sh \in Nat /\ P[d] \in Nat /\ P[c] \in Nat /\ sh + P[d] <= P[c]
    BY <1>4, <1>5
<1> HIDE DEF L
<1>7. /\ a \in [1 .. L + 1 -> Nat] /\ a[1] = 0 /\ a[L + 1] = v
      /\ \A i \in DOMAIN s : a[i + 1] = a[i] + Share(k, s[i])
      /\ \A i \in 1 .. L + 1 : a[i] + P[Place(s, c, i)] <= P[Place(s, c, 1)]
    BY <1>1 DEF Accounts, L, P
<1>8. v \in Nat /\ v + P[c] <= P[Place(s, c, 1)] /\ P[Place(s, c, 1)] \in Nat
    <2>1. L + 1 \in 1 .. L + 1 /\ 1 \in 1 .. L + 1 /\ L + 1 \notin DOMAIN s
        BY <1>2
    <2>2. Place(s, c, L + 1) = c
        BY <2>1 DEF Place
    <2>3. v + P[c] <= P[Place(s, c, 1)] /\ v \in Nat
        BY <1>7, <2>1, <2>2
    <2>4. Place(s, c, 1) \in Node
        <3>1. CASE 1 \in DOMAIN s
            <4>1. s[1] \in Frame
                BY <1>2, <3>1
            <4> QED
                BY <3>1, <4>1 DEF Place, Frame
        <3>2. CASE 1 \notin DOMAIN s
            BY <1>4, <3>2 DEF Place
        <3> QED
            BY <3>1, <3>2
    <2>5. P[Place(s, c, 1)] \in Nat
        BY <2>4, PriceIs DEF P, Prices
    <2> QED
        BY <2>3, <2>5
<1> DEFINE b == [i \in 1 .. L + 2 |-> IF i = L + 2 THEN v + sh ELSE a[i]]
<1>9. /\ b \in [1 .. L + 2 -> Nat] /\ b[1] = 0 /\ b[L + 2] = v + sh
      /\ \A i \in 1 .. L + 1 : b[i] = a[i]
    <2>1. \A i \in 1 .. L + 2 : i # L + 2 => i \in 1 .. L + 1
        BY <1>2
    <2>2. 1 \in 1 .. L + 2 /\ 1 # L + 2 /\ L + 2 \in 1 .. L + 2
          /\ \A i \in 1 .. L + 1 : i \in 1 .. L + 2 /\ i # L + 2
        BY <1>2
    <2>3. v + sh \in Nat
        BY <1>6, <1>8
    <2> QED
        BY <1>7, <2>1, <2>2, <2>3
<1> HIDE DEF b
<1>10. \A i \in DOMAIN t : b[i + 1] = b[i] + Share(k, t[i])
    <2> TAKE i \in DOMAIN t
    <2>1. CASE i = L + 1
        <3>1. i + 1 = L + 2 /\ i \in 1 .. L + 1 /\ t[i] = f
            BY <1>2, <2>1
        <3>2. b[i + 1] = v + sh /\ b[i] = v
            BY <1>7, <1>9, <2>1, <3>1
        <3> QED
            BY <3>1, <3>2 DEF sh
    <2>2. CASE i # L + 1
        <3>1. i \in DOMAIN s /\ i \in 1 .. L + 1 /\ i + 1 \in 1 .. L + 1 /\ t[i] = s[i]
            BY <1>2, <2>2
        <3>2. b[i + 1] = a[i + 1] /\ b[i] = a[i]
            BY <1>9, <3>1
        <3> QED
            BY <1>7, <3>1, <3>2
    <2> QED
        BY <2>1, <2>2
<1>11. \A i \in 1 .. L + 2 : b[i] + P[Place(t, d, i)] <= P[Place(t, d, 1)]
    <2> TAKE i \in 1 .. L + 2
    <2>0. Place(t, d, 1) = Place(s, c, 1)
        BY <1>2, <1>3
    <2>1. CASE i = L + 2
        <3>1. b[i] = v + sh /\ Place(t, d, i) = d
            BY <1>3, <1>9, <2>1
        <3>2. (v + sh) + P[d] <= P[Place(s, c, 1)]
            BY <1>6, <1>8
        <3> QED
            BY <2>0, <3>1, <3>2
    <2>2. CASE i # L + 2
        <3>1. i \in 1 .. L + 1
            BY <1>2, <2>2
        <3> QED
            BY <1>3, <1>7, <1>9, <2>0, <3>1
    <2> QED
        BY <2>1, <2>2
<1>12. Accounts(t, d, k, v + sh, b)
    <2>1. Len(t) + 1 = L + 2
        BY <1>2
    <2> QED
        BY <1>9, <1>10, <1>11, <2>1 DEF Accounts, P
<1> QED
    BY <1>12 DEF Spends, t, d, sh

(* Before the node of the last frame its share is not spent yet.           *)
LEMMA SpendsShrinks ==
    ASSUME NEW k \in Nat, NEW s \in Seq(Frame), s # <<>>, NEW c, NEW v, Spends(s, c, k, v)
    PROVE  \E u \in Nat : /\ Spends(SubSeq(s, 1, Len(s) - 1), s[Len(s)].node, k, u)
                          /\ v = u + Share(k, s[Len(s)])
<1> DEFINE t == SubSeq(s, 1, Len(s) - 1)
           f == s[Len(s)]
           L == Len(s)
           P == Price(k)
<1>1. PICK a : Accounts(s, c, k, v, a)
    BY DEF Spends
<1>2. /\ t \in Seq(Frame) /\ f \in Frame /\ s = Append(t, f) /\ L \in Nat /\ L > 0
      /\ DOMAIN s = 1 .. L /\ Len(t) = L - 1 /\ DOMAIN t = 1 .. L - 1
      /\ \A i \in 1 .. L - 1 : t[i] = s[i]
    BY PopIs
<1> HIDE DEF t
<1>3. \A i \in 1 .. Len(t) + 1 : Place(s, c, i) = Place(t, f.node, i)
    <2> HIDE DEF f
    <2>1. t \in Seq(Frame) /\ f \in Frame /\ s = Append(t, f)
        BY <1>2
    <2>2. Lengthens(s, c, t, f.node)
        BY <2>1, PlacesPushed
    <2> QED
        BY <2>2 DEF Lengthens
<1>4. /\ a \in [1 .. L + 1 -> Nat] /\ a[1] = 0 /\ a[L + 1] = v
      /\ \A i \in DOMAIN s : a[i + 1] = a[i] + Share(k, s[i])
      /\ \A i \in 1 .. L + 1 : a[i] + P[Place(s, c, i)] <= P[Place(s, c, 1)]
    BY <1>1 DEF Accounts
<1>5. Len(t) + 1 = L /\ L \in 1 .. L /\ L \in DOMAIN s /\ 1 \in 1 .. L
      /\ \A i \in 1 .. L : i \in 1 .. L + 1
    BY <1>2
<1> HIDE DEF P, L
<1> DEFINE b == [i \in 1 .. L |-> a[i]]
<1>6. b \in [1 .. L -> Nat] /\ b[1] = 0 /\ b[L] = a[L] /\ \A i \in 1 .. L : b[i] = a[i]
    BY <1>4, <1>5
<1> HIDE DEF b
<1>7. \A i \in DOMAIN t : b[i + 1] = b[i] + Share(k, t[i])
    <2> TAKE i \in DOMAIN t
    <2>1. i \in DOMAIN s /\ i \in 1 .. L /\ i + 1 \in 1 .. L /\ t[i] = s[i]
        BY <1>2
    <2> QED
        BY <1>4, <1>6, <2>1
<1>8. \A i \in 1 .. L : b[i] + P[Place(t, f.node, i)] <= P[Place(t, f.node, 1)]
    <2> TAKE i \in 1 .. L
    <2>1. Place(t, f.node, i) = Place(s, c, i) /\ Place(t, f.node, 1) = Place(s, c, 1)
        BY <1>3, <1>5
    <2> QED
        BY <1>4, <1>5, <1>6, <2>1
<1>9. Accounts(t, f.node, k, a[L], b)
    BY <1>5, <1>6, <1>7, <1>8 DEF Accounts, P
<1>10. a[L] \in Nat /\ v = a[L] + Share(k, f)
    <2>1. a[L + 1] = a[L] + Share(k, s[L])
        BY <1>4, <1>5
    <2> QED
        BY <1>4, <1>5, <2>1 DEF L
<1>11. Spends(t, f.node, k, a[L])
    BY <1>9 DEF Spends
<1> QED
    BY <1>10, <1>11 DEF t, f

(* What was spent leaves for a node on the path what it may need.          *)
LEMMA SpendsEnough ==
    ASSUME NEW k \in Nat, NEW s \in Seq(Frame), NEW c \in Node, NEW v, Spends(s, c, k, v)
    PROVE  v \in Nat /\ v + Price(k)[c] <= Price(k)[Place(s, c, 1)]
<1>1. PICK a : Accounts(s, c, k, v, a)
    BY DEF Spends
<1>2. Len(s) + 1 \in 1 .. Len(s) + 1 /\ Place(s, c, Len(s) + 1) = c
    BY DEF Place
<1>3. a \in [1 .. Len(s) + 1 -> Nat] /\ a[Len(s) + 1] = v
      /\ \A i \in 1 .. Len(s) + 1 : a[i] + Price(k)[Place(s, c, i)] <= Price(k)[Place(s, c, 1)]
    BY <1>1 DEF Accounts
<1> QED
    BY <1>2, <1>3

(* ---- the motions of a skill ---- *)

Succeeded(r) == \E g \in Mine(r) : g.state = "succeeded"

(* A run gives every goal a number of its own.                             *)
GoalsOnce ==
    /\ \A g \in goals : g.seq <= sent[g.run]
    /\ \A g, h \in goals : g.run = h.run /\ g.seq = h.seq => g = h

Quiet == {"new", "enter", "compile", "query", "return", "done"}
Ready == {"validate", "check", "send"}
Awaited == {"accept", "recheck", "result"}

(* As many goals succeeded since a skill began as its commands are done,   *)
(* and the one that is awaited, if it did.                                 *)
Moves(r) ==
    /\ pc[r] \in Quiet => won[r] = 0 /\ command[r] = 0
    /\ pc[r] \in Ready => won[r] = command[r]
    /\ pc[r] \in Awaited => won[r] = command[r] + (IF Succeeded(r) THEN 1 ELSE 0)
    /\ pc[r] \in Ready \cup Awaited => command[r] < Motions[cursor[r]]
    /\ pc[r] = "query" => Motions[cursor[r]] = 0
    /\ pc[r] \notin {"new", "enter", "return", "done"} => Type[cursor[r]] = "skill"

MovesInv == TaskInv /\ GoalsOnce /\ \A r \in Run : Moves(r)

(* What a run is about; its goals are shared.                              *)
Own(r) == <<pc[r], cursor[r], stack[r], result[r], command[r], items[r], sent[r],
            attempts[r], won[r], achieved[r]>>

(* A run that is left alone moves as before.                               *)
LEMMA MovesKept ==
    ASSUME NEW q \in Run, Moves(q), Own(q)' = Own(q), Succeeded(q)' <=> Succeeded(q)
    PROVE  Moves(q)'
<1>1. pc'[q] = pc[q] /\ cursor'[q] = cursor[q] /\ command'[q] = command[q] /\ won'[q] = won[q]
    BY DEF Own
<1>2. (IF Succeeded(q)' THEN 1 ELSE 0) = (IF Succeeded(q) THEN 1 ELSE 0)
    OBVIOUS
<1> QED
    BY <1>1, <1>2 DEF Moves

(* To forget goals of one run changes nothing for the others.              *)
LEMMA GoalsFewer ==
    ASSUME GoalsOnce, sent' = sent, goals' \subseteq goals
    PROVE  GoalsOnce'
    BY DEF GoalsOnce

(* Whether the goal that a run awaits did succeed depends on that goal     *)
(* only.                                                                   *)
LEMMA SucceededApart ==
    ASSUME sent' = sent, NEW q,
           \A g \in goals : g.run = q /\ g.seq = sent[q] => g \in goals',
           \A g \in goals' : g.run = q /\ g.seq = sent[q] => g \in goals
    PROVE  Succeeded(q)' <=> Succeeded(q)
    BY DEF Succeeded, Mine

(* A goal that changes its state stays the goal that it was.               *)
LEMMA BecomeIs ==
    ASSUME goals \subseteq Goal, GoalsOnce, NEW g \in goals, NEW state, Become(g, state),
           sent' = sent
    PROVE  /\ GoalsOnce'
           /\ \A q : IF g \in Mine(q) THEN Succeeded(q)' <=> state = "succeeded"
                     ELSE Succeeded(q)' <=> Succeeded(q)
<1> DEFINE h == [g EXCEPT !.state = state]
<1>1. h.run = g.run /\ h.seq = g.seq /\ h.state = state
    BY DEF Goal
<1>2. goals' = (goals \ {g}) \cup {h}
    BY DEF Become
<1> HIDE DEF h
<1>3. GoalsOnce'
    BY <1>1, <1>2 DEF GoalsOnce
<1>4. ASSUME NEW q, g \in Mine(q) PROVE Succeeded(q)' <=> state = "succeeded"
    <2>1. g.run = q /\ g.seq = sent[q]
        BY <1>4 DEF Mine
    <2>2. h \in goals' /\ h.run = q /\ h.seq = sent'[q]
        BY <1>1, <1>2, <2>1
    <2>3. \A x \in goals' : x.run = q /\ x.seq = sent'[q] => x = h
        BY <1>2, <2>1 DEF GoalsOnce
    <2> QED
        BY <1>1, <2>2, <2>3 DEF Succeeded, Mine
<1>5. ASSUME NEW q, g \notin Mine(q) PROVE Succeeded(q)' <=> Succeeded(q)
    <2>1. ~(g.run = q /\ g.seq = sent[q])
        BY <1>5 DEF Mine
    <2>2. /\ \A x \in goals : x.run = q /\ x.seq = sent[q] => x \in goals'
          /\ \A x \in goals' : x.run = q /\ x.seq = sent[q] => x \in goals
        BY <1>1, <1>2, <2>1
    <2> QED
        BY <2>2, SucceededApart
<1> QED
    BY <1>3, <1>4, <1>5

(* The run that gives up a goal or concludes with it forgets its own only. *)
LEMMA OwnGoals ==
    ASSUME goals \subseteq Goal, GoalsOnce, sent' = sent, NEW r \in Run,
           \/ goals' = goals \/ Forget(r) \/ Leave(r)
           \/ \E g \in Mine(r) : Become(g, "canceling")
    PROVE  GoalsOnce' /\ \A q \in Run \ {r} : Succeeded(q)' <=> Succeeded(q)
<1>1. CASE goals' = goals \/ Forget(r) \/ Leave(r)
    <2>1. goals' \subseteq goals /\ \A g \in goals : g.run # r => g \in goals'
        BY <1>1 DEF Forget, Leave, Mine
    <2>2. \A q \in Run \ {r} : Succeeded(q)' <=> Succeeded(q)
        <3> TAKE q \in Run \ {r}
        <3>1. /\ \A g \in goals : g.run = q /\ g.seq = sent[q] => g \in goals'
              /\ \A g \in goals' : g.run = q /\ g.seq = sent[q] => g \in goals
            BY <2>1
        <3> QED
            BY <3>1, SucceededApart
    <2> QED
        BY <2>1, <2>2, GoalsFewer
<1>2. ASSUME NEW g \in Mine(r), Become(g, "canceling")
      PROVE  GoalsOnce' /\ \A q \in Run \ {r} : Succeeded(q)' <=> Succeeded(q)
    <2>1. g \in goals /\ g.run = r
        BY DEF Mine
    <2>2. \A q \in Run \ {r} : g \notin Mine(q)
        BY <2>1 DEF Mine
    <2>3. GoalsOnce' /\ \A q : IF g \in Mine(q) THEN Succeeded(q)' <=> "canceling" = "succeeded"
                               ELSE Succeeded(q)' <=> Succeeded(q)
        BY <1>2, <2>1, BecomeIs
    <2> QED
        BY <2>2, <2>3
<1> QED
    BY <1>1, <1>2

(* How a skill ends, goes on, or comes to its next command.                *)
LEMMA SkillEnds ==
    ASSUME TaskInv, NEW r \in Run, NEW ok \in BOOLEAN, EndSkill(r, ok)
    PROVE  /\ pc'[r] = "return" /\ result'[r] = ok /\ won'[r] = 0 /\ command'[r] = 0
           /\ achieved'[r] = IF ok /\ won[r] = Motions[cursor[r]]
                             THEN achieved[r] \cup {cursor[r]} ELSE achieved[r]
           /\ \A q \in Run \ {r} :
                 /\ pc'[q] = pc[q] /\ result'[q] = result[q] /\ won'[q] = won[q]
                 /\ command'[q] = command[q] /\ achieved'[q] = achieved[q]
<1>1. /\ pc \in [Run -> Labels] /\ result \in [Run -> BOOLEAN] /\ won \in [Run -> Nat]
      /\ command \in [Run -> Nat] /\ achieved \in [Run -> SUBSET Node]
    BY DEF TaskInv, Flags, Counts, Places
<1>2. /\ result' = [result EXCEPT ![r] = ok] /\ pc' = [pc EXCEPT ![r] = "return"]
      /\ achieved' = (IF ok /\ won[r] = Motions[cursor[r]]
                      THEN [achieved EXCEPT ![r] = @ \cup {cursor[r]}] ELSE achieved)
      /\ won' = [won EXCEPT ![r] = 0] /\ command' = [command EXCEPT ![r] = 0]
    BY DEF EndSkill, Finish
<1>3. result'[r] = ok /\ \A q \in Run \ {r} : result'[q] = result[q]
    BY <1>1, <1>2, Zenon
<1>4. /\ pc'[r] = "return" /\ won'[r] = 0 /\ command'[r] = 0
      /\ \A q \in Run \ {r} :
            pc'[q] = pc[q] /\ won'[q] = won[q] /\ command'[q] = command[q]
    BY <1>1, <1>2
<1>5. CASE ok /\ won[r] = Motions[cursor[r]]
    <2>1. achieved' = [achieved EXCEPT ![r] = @ \cup {cursor[r]}]
        BY <1>2, <1>5
    <2>2. achieved'[r] = achieved[r] \cup {cursor[r]}
          /\ \A q \in Run \ {r} : achieved'[q] = achieved[q]
        BY <1>1, <2>1
    <2> QED
        BY <1>3, <1>4, <1>5, <2>2
<1>6. CASE ~(ok /\ won[r] = Motions[cursor[r]])
    <2>1. achieved' = achieved
        BY <1>2, <1>6
    <2> QED
        BY <1>3, <1>4, <1>6, <2>1
<1> QED
    BY <1>5, <1>6

(* What a skill that goes on leaves alone.                                 *)
LEMMA SkillProceeds ==
    ASSUME TaskInv, NEW r \in Run, NEW label, Proceed(r, label)
    PROVE  /\ pc'[r] = label /\ UNCHANGED <<result, achieved, won, command>>
           /\ \A q \in Run \ {r} : pc'[q] = pc[q]
<1>1. pc \in [Run -> Labels]
    BY DEF TaskInv, Places
<1> QED
    BY <1>1 DEF Proceed

(* What a step within a skill comes to: a node that returns, having done   *)
(* its motions if it succeeds, or the next thing that the skill does.      *)
Ends(r, ok) ==
    /\ EndSkill(r, ok)
    /\ ok => won[r] = Motions[cursor[r]]

Continues(r) ==
    /\ pc'[r] \in {"query"} \cup Ready \cup Awaited
    /\ result' = result /\ achieved' = achieved
    /\ \A q \in Run \ {r} : pc'[q] = pc[q] /\ won'[q] = won[q] /\ command'[q] = command[q]
    /\ Moves(r)'

InSkill(r) ==
    \/ CompileSkill(r) \/ RunQuery(r) \/ ValidateRuntimeCommand(r) \/ CheckBeforeSend(r)
    \/ AwaitAccept(r) \/ CheckAfterAccept(r) \/ AwaitResult(r)

(* A skill that ended has done its moves.                                  *)
LEMMA EndMoves ==
    ASSUME TaskInv, NEW r \in Run, NEW ok \in BOOLEAN, EndSkill(r, ok)
    PROVE  Moves(r)'
<1>1. pc'[r] = "return" /\ won'[r] = 0 /\ command'[r] = 0
    BY SkillEnds
<1> QED
    BY <1>1 DEF Moves, Quiet, Ready, Awaited

(* Before a motion is sent nothing of the next one has succeeded.          *)
LEMMA CompileComes ==
    ASSUME MovesInv, NEW r \in Run, CompileSkill(r) \/ RunQuery(r)
    PROVE  (\E ok \in BOOLEAN : Ends(r, ok)) \/ Continues(r)
<1>1. TaskInv /\ Moves(r) /\ pc[r] \in {"compile", "query"} /\ cursor' = cursor
    BY DEF MovesInv, CompileSkill, RunQuery
<1>2. cursor[r] \in Node /\ Motions[cursor[r]] \in Nat
    BY <1>1, TaskBounds DEF TaskInv, Places
<1>3. won[r] = 0 /\ command[r] = 0 /\ Type[cursor[r]] = "skill"
    BY <1>1 DEF Moves, Quiet
<1>4. CASE EndSkill(r, FALSE)
    BY <1>4 DEF Ends
<1>5. CASE RunQuery(r)
    <2>1. PICK ok \in BOOLEAN : EndSkill(r, ok)
        BY <1>5 DEF RunQuery
    <2>2. Motions[cursor[r]] = 0
        BY <1>1, <1>5 DEF RunQuery, Moves
    <2> QED
        BY <1>3, <2>1, <2>2 DEF Ends
<1>6. CASE Proceed(r, IF Motions[cursor[r]] = 0 THEN "query" ELSE "validate")
    <2>1. /\ pc'[r] = (IF Motions[cursor[r]] = 0 THEN "query" ELSE "validate")
          /\ UNCHANGED <<result, achieved, won, command>>
          /\ \A q \in Run \ {r} : pc'[q] = pc[q]
        BY <1>1, <1>6, SkillProceeds
    <2>2. Moves(r)'
        <3>1. CASE Motions[cursor[r]] = 0
            <4>1. pc'[r] = "query"
                BY <2>1, <3>1
            <4> QED
                BY <1>1, <1>3, <2>1, <3>1, <4>1 DEF Moves, Quiet, Ready, Awaited
        <3>2. CASE Motions[cursor[r]] # 0
            <4>1. pc'[r] = "validate" /\ 0 < Motions[cursor[r]]
                BY <1>2, <2>1, <3>2
            <4> QED
                BY <1>1, <1>3, <2>1, <4>1 DEF Moves, Quiet, Ready, Awaited
        <3> QED
            BY <3>1, <3>2
    <2>3. pc'[r] \in {"query"} \cup Ready \cup Awaited
        BY <2>1 DEF Ready
    <2> QED
        BY <2>1, <2>2, <2>3 DEF Continues
<1> QED
    BY <1>4, <1>5, <1>6 DEF CompileSkill

(* A command is checked, sent, accepted and awaited in this order.         *)
LEMMA CommandComes ==
    ASSUME MovesInv, NEW r \in Run,
           \/ ValidateRuntimeCommand(r) \/ CheckBeforeSend(r)
           \/ AwaitAccept(r) \/ CheckAfterAccept(r)
    PROVE  (\E ok \in BOOLEAN : Ends(r, ok)) \/ Continues(r)
<1>1. TaskInv /\ Moves(r) /\ cursor' = cursor /\ sent' = sent
      /\ pc[r] \in Ready \cup Awaited
    BY DEF MovesInv, ValidateRuntimeCommand, CheckBeforeSend, AwaitAccept, CheckAfterAccept,
           Ready, Awaited
<1>2. CASE EndSkill(r, FALSE)
    BY <1>2 DEF Ends
<1>3. ASSUME NEW label \in {"check", "send"}, pc[r] \in Ready, Proceed(r, label)
      PROVE  Continues(r)
    <2>1. /\ pc'[r] = label /\ UNCHANGED <<result, achieved, won, command>>
          /\ \A q \in Run \ {r} : pc'[q] = pc[q]
        BY <1>1, <1>3, SkillProceeds
    <2>2. Moves(r)'
        BY <1>1, <1>3, <2>1 DEF Moves, Quiet, Ready, Awaited
    <2>3. pc'[r] \in {"query"} \cup Ready \cup Awaited
        BY <2>1 DEF Ready
    <2> QED
        BY <2>1, <2>2, <2>3 DEF Continues
<1>4. ASSUME NEW label \in {"recheck", "result"}, pc[r] \in Awaited, Proceed(r, label),
             goals' = goals
      PROVE  Continues(r)
    <2>1. /\ pc'[r] = label /\ UNCHANGED <<result, achieved, won, command>>
          /\ \A q \in Run \ {r} : pc'[q] = pc[q]
        BY <1>1, <1>4, SkillProceeds
    <2>2. (IF Succeeded(r)' THEN 1 ELSE 0) = (IF Succeeded(r) THEN 1 ELSE 0)
        BY <1>1, <1>4 DEF Succeeded, Mine
    <2>3. Moves(r)'
        BY <1>1, <1>4, <2>1, <2>2 DEF Moves, Quiet, Ready, Awaited
    <2>4. pc'[r] \in {"query"} \cup Ready \cup Awaited
        BY <2>1 DEF Awaited
    <2> QED
        BY <2>1, <2>3, <2>4 DEF Continues
<1>5. \/ EndSkill(r, FALSE)
      \/ \E label \in {"check", "send"} : pc[r] \in Ready /\ Proceed(r, label)
      \/ \E label \in {"recheck", "result"} :
             pc[r] \in Awaited /\ Proceed(r, label) /\ goals' = goals
    <2>1. CASE ValidateRuntimeCommand(r) \/ CheckBeforeSend(r)
        BY <2>1 DEF ValidateRuntimeCommand, CheckBeforeSend, Ready
    <2>2. CASE AwaitAccept(r)
        BY <2>2 DEF AwaitAccept, Awaited
    <2>3. CASE CheckAfterAccept(r)
        BY <2>3 DEF CheckAfterAccept, Awaited
    <2> QED
        BY <2>1, <2>2, <2>3
<1> QED
    BY <1>2, <1>3, <1>4, <1>5

(* A motion that succeeded is one more, or the last.                       *)
LEMMA ResultComes ==
    ASSUME MovesInv, NEW r \in Run, AwaitResult(r)
    PROVE  (\E ok \in BOOLEAN : Ends(r, ok)) \/ Continues(r)
<1>1. TaskInv /\ Moves(r) /\ cursor' = cursor /\ sent' = sent /\ pc[r] = "result"
    BY DEF MovesInv, AwaitResult
<1>2. /\ cursor[r] \in Node /\ Motions[cursor[r]] \in Nat /\ command[r] \in Nat
      /\ command \in [Run -> Nat] /\ pc \in [Run -> Labels]
    <2>1. cursor[r] \in Node /\ command \in [Run -> Nat] /\ pc \in [Run -> Labels]
        BY <1>1 DEF TaskInv, Places, Counts
    <2> QED
        BY <2>1, TaskBounds
<1>3. CASE EndSkill(r, FALSE)
    BY <1>3 DEF Ends
<1>4. CASE Succeeded(r) /\ NextCommand(r)
    <2>1. won[r] = command[r] + 1 /\ command[r] < Motions[cursor[r]]
          /\ Type[cursor[r]] = "skill"
        BY <1>1, <1>4 DEF Moves, Awaited
    <2>2. CASE command[r] + 1 = Motions[cursor[r]]
        BY <1>4, <2>1, <2>2 DEF NextCommand, Ends
    <2>3. CASE command[r] + 1 # Motions[cursor[r]]
        <3>1. /\ command' = [command EXCEPT ![r] = @ + 1]
              /\ pc' = [pc EXCEPT ![r] = "validate"] /\ UNCHANGED <<result, achieved, won>>
            BY <1>4, <2>3 DEF NextCommand
        <3>2. /\ command'[r] = command[r] + 1 /\ pc'[r] = "validate"
              /\ \A q \in Run \ {r} : pc'[q] = pc[q] /\ command'[q] = command[q]
            BY <1>2, <3>1
        <3>3. command[r] + 1 < Motions[cursor[r]]
            BY <1>2, <2>1, <2>3
        <3>4. Moves(r)'
            BY <1>1, <2>1, <3>1, <3>2, <3>3 DEF Moves, Quiet, Ready, Awaited
        <3>5. pc'[r] \in {"query"} \cup Ready \cup Awaited
            BY <3>2 DEF Ready
        <3> QED
            BY <3>1, <3>2, <3>4, <3>5 DEF Continues
    <2> QED
        BY <2>2, <2>3
<1> QED
    BY <1>3, <1>4 DEF AwaitResult, Succeeded

(* The steps of a skill concern its run, and leave where it is.            *)
LEMMA SkillComes ==
    ASSUME MovesInv, NEW r \in Run, InSkill(r)
    PROVE  /\ UNCHANGED <<cursor, stack, items, sent, attempts>>
           /\ (\E ok \in BOOLEAN : Ends(r, ok)) \/ Continues(r)
           /\ Moves(r)' /\ GoalsOnce' /\ Type[cursor[r]] = "skill"
           /\ pc[r] \notin {"new", "enter", "return", "done"}
           /\ \A q \in Run \ {r} : Own(q)' = Own(q) /\ (Succeeded(q)' <=> Succeeded(q))
<1>1. TaskInv /\ GoalsOnce /\ Moves(r) /\ goals \subseteq Goal
    BY DEF MovesInv, TaskInv, Places
<1>2. UNCHANGED <<cursor, stack, items, sent, attempts>>
      /\ pc[r] \notin {"new", "enter", "return", "done"}
    BY DEF InSkill, CompileSkill, RunQuery, ValidateRuntimeCommand, CheckBeforeSend,
           AwaitAccept, CheckAfterAccept, AwaitResult
<1>3. (\E ok \in BOOLEAN : Ends(r, ok)) \/ Continues(r)
    BY CompileComes, CommandComes, ResultComes DEF InSkill
<1>4. \/ goals' = goals \/ Forget(r) \/ Leave(r)
      \/ \E g \in Mine(r) : Become(g, "canceling")
    <2>1. CASE CheckAfterAccept(r)
        BY <2>1 DEF CheckAfterAccept
    <2>2. CASE ~CheckAfterAccept(r)
        BY <2>2 DEF InSkill, CompileSkill, RunQuery, ValidateRuntimeCommand, CheckBeforeSend,
                    AwaitAccept, AwaitResult
    <2> QED
        BY <2>1, <2>2
<1>5. GoalsOnce' /\ \A q \in Run \ {r} : Succeeded(q)' <=> Succeeded(q)
    BY <1>1, <1>2, <1>4, OwnGoals
<1>6. Moves(r)'
    BY <1>1, <1>3, EndMoves DEF Ends, Continues
<1>7. Type[cursor[r]] = "skill"
    BY <1>1, <1>2 DEF Moves
<1>8. \A q \in Run \ {r} : /\ pc'[q] = pc[q] /\ result'[q] = result[q] /\ won'[q] = won[q]
                           /\ command'[q] = command[q] /\ achieved'[q] = achieved[q]
    <2>1. CASE \E ok \in BOOLEAN : Ends(r, ok)
        BY <1>1, <2>1, SkillEnds DEF Ends
    <2>2. CASE Continues(r)
        BY <2>2 DEF Continues
    <2> QED
        BY <1>3, <2>1, <2>2
<1>9. \A q \in Run \ {r} : Own(q)' = Own(q)
    BY <1>2, <1>8 DEF Own
<1> QED
    BY <1>2, <1>3, <1>5, <1>6, <1>7, <1>9

(* The steps of a run in the tree, outside of a skill.                     *)
OnTree(r) ==
    EnterNode(r) \/ ReturnToParent(r) \/ AnswerConfirmation(r) \/ ConfirmFactoryTask(r)

(* A step along the tree concerns its run alone, and none of its motions.  *)
LEMMA TreeApart ==
    ASSUME TaskInv, NEW r \in Run, OnTree(r)
    PROVE  /\ UNCHANGED <<won, command, goals, sent>>
           /\ pc[r] \in Quiet
           /\ \/ pc'[r] \in {"enter", "return", "done"}
              \/ pc'[r] = "compile" /\ cursor'[r] = cursor[r] /\ Type[cursor[r]] = "skill"
           /\ \A q \in Run \ {r} : Own(q)' = Own(q) /\ (Succeeded(q)' <=> Succeeded(q))
<1>1. /\ pc \in [Run -> Labels] /\ cursor \in [Run -> Node] /\ stack \in [Run -> Seq(Frame)]
      /\ result \in [Run -> BOOLEAN] /\ items \in [Run -> 0 .. MaxItems]
      /\ attempts \in [Run -> Nat] /\ achieved \in [Run -> SUBSET Node]
    BY DEF TaskInv, Flags, Counts, Places
<1>2. UNCHANGED <<won, command, goals, sent>> /\ pc[r] \in {"enter", "return", "new"}
    BY DEF OnTree, EnterNode, ReturnToParent, AnswerConfirmation, ConfirmFactoryTask, ghosts
<1> DEFINE Others == \A q \in Run \ {r} :
               /\ pc'[q] = pc[q] /\ cursor'[q] = cursor[q] /\ stack'[q] = stack[q]
               /\ result'[q] = result[q] /\ items'[q] = items[q]
               /\ attempts'[q] = attempts[q] /\ achieved'[q] = achieved[q]
           Comes == \/ pc'[r] \in {"enter", "return", "done"}
                    \/ pc'[r] = "compile" /\ cursor'[r] = cursor[r] /\ Type[cursor[r]] = "skill"
<1>3. ASSUME EnterNode(r) PROVE Others /\ Comes
    <2>1. items' = items
        BY <1>3 DEF EnterNode
    <2>2. CASE \E ok \in BOOLEAN : Finish(r, ok) /\ UNCHANGED <<cursor, stack, attempts, achieved>>
        <3>1. PICK ok \in BOOLEAN : Finish(r, ok) /\ UNCHANGED <<cursor, stack, attempts, achieved>>
            BY <2>2
        <3>2. \A q \in Run \ {r} : result'[q] = result[q]
            BY <1>1, <3>1, Zenon DEF Finish
        <3>3. pc'[r] = "return" /\ \A q \in Run \ {r} : pc'[q] = pc[q]
            BY <1>1, <3>1 DEF Finish
        <3> QED
            BY <2>1, <3>1, <3>2, <3>3
    <2>3. CASE /\ Type[cursor[r]] = "skill"
               /\ attempts' = [attempts EXCEPT ![r] = @ + 1]
               /\ achieved' = [achieved EXCEPT ![r] = @ \ {cursor[r]}]
               /\ pc' = [pc EXCEPT ![r] = "compile"]
               /\ UNCHANGED <<cursor, stack, result>>
        <3>1. pc'[r] = "compile" /\ \A q \in Run \ {r} :
                  pc'[q] = pc[q] /\ attempts'[q] = attempts[q] /\ achieved'[q] = achieved[q]
            BY <1>1, <2>3
        <3> QED
            BY <2>1, <2>3, <3>1
    <2>4. CASE \E f, k : /\ stack' = [stack EXCEPT ![r] = Append(@, f)]
                         /\ cursor' = [cursor EXCEPT ![r] = k]
                         /\ UNCHANGED <<pc, result, attempts, achieved>>
        <3>1. pc'[r] = "enter"
            BY <1>3, <2>4 DEF EnterNode
        <3>2. \A q \in Run \ {r} : stack'[q] = stack[q] /\ cursor'[q] = cursor[q]
            BY <1>1, <2>4
        <3> QED
            BY <2>1, <2>4, <3>1, <3>2
    <2>5. \/ \E ok \in BOOLEAN : Finish(r, ok) /\ UNCHANGED <<cursor, stack, attempts, achieved>>
          \/ /\ Type[cursor[r]] = "skill"
             /\ attempts' = [attempts EXCEPT ![r] = @ + 1]
             /\ achieved' = [achieved EXCEPT ![r] = @ \ {cursor[r]}]
             /\ pc' = [pc EXCEPT ![r] = "compile"]
             /\ UNCHANGED <<cursor, stack, result>>
          \/ \E f, k : /\ stack' = [stack EXCEPT ![r] = Append(@, f)]
                       /\ cursor' = [cursor EXCEPT ![r] = k]
                       /\ UNCHANGED <<pc, result, attempts, achieved>>
        <3>1. FALSE \in BOOLEAN /\ (Type[cursor[r]] # "retry") \in BOOLEAN
            OBVIOUS
        <3> QED
            BY <1>3, <3>1, Zenon DEF EnterNode
    <2> QED
        BY <2>2, <2>3, <2>4, <2>5
<1>4. ASSUME ReturnToParent(r) PROVE Others /\ Comes
    <2>1. UNCHANGED <<result, items, attempts, achieved>> /\ pc[r] = "return"
        BY <1>4 DEF ReturnToParent, ghosts
    <2>2. \/ Pop(r)
          \/ \E child, round : Resume(r, child, round)
        BY <1>4, Zenon DEF ReturnToParent, AfterSuccess, AfterFailure
    <2>3. CASE Pop(r)
        BY <1>1, <2>1, <2>3 DEF Pop
    <2>4. CASE \E child, round : Resume(r, child, round)
        <3>1. \E x, k : /\ stack' = [stack EXCEPT ![r] = x]
                        /\ cursor' = [cursor EXCEPT ![r] = k]
                        /\ pc' = [pc EXCEPT ![r] = "enter"]
            BY <2>4 DEF Resume
        <3> QED
            BY <1>1, <2>1, <3>1
    <2> QED
        BY <2>2, <2>3, <2>4
<1>5. ASSUME AnswerConfirmation(r) PROVE Others /\ Comes
    BY <1>1, <1>5 DEF AnswerConfirmation
<1>6. ASSUME ConfirmFactoryTask(r) PROVE Others /\ Comes
    <2>1. \E root, size : cursor' = [cursor EXCEPT ![r] = root] /\ items' = [items EXCEPT ![r] = size]
        BY <1>6 DEF ConfirmFactoryTask
    <2>2. pc' = [pc EXCEPT ![r] = "enter"] /\ UNCHANGED <<stack, result, attempts, achieved>>
        BY <1>6 DEF ConfirmFactoryTask
    <2> QED
        BY <1>1, <2>1, <2>2
<1>7. Others /\ Comes
    BY <1>3, <1>4, <1>5, <1>6 DEF OnTree
<1>8. \A q \in Run \ {r} : Succeeded(q)' <=> Succeeded(q)
    BY <1>2 DEF Succeeded, Mine
<1>9. \A q \in Run \ {r} : Own(q)' = Own(q)
    BY <1>2, <1>7 DEF Own
<1>10. pc[r] \in Quiet
    BY <1>2 DEF Quiet
<1> QED
    BY <1>2, <1>7, <1>8, <1>9, <1>10

(* A goal that is sent has a number that no other had.                     *)
LEMMA SendMoves ==
    ASSUME MovesInv, NEW r \in Run, SendGoal(r)
    PROVE  /\ GoalsOnce' /\ Moves(r)' /\ pc[r] = "send" /\ pc'[r] = "accept"
           /\ UNCHANGED <<cursor, stack, result, items, attempts, achieved>>
           /\ \A q \in Run \ {r} : Moves(q)' /\ pc'[q] = pc[q]
<1> DEFINE h == [run |-> r, seq |-> sent[r] + 1, state |-> "sent"]
<1>1. /\ TaskInv /\ GoalsOnce /\ Moves(r) /\ pc[r] = "send"
      /\ pc' = [pc EXCEPT ![r] = "accept"]
      /\ sent' = [sent EXCEPT ![r] = @ + 1] /\ goals' = goals \cup {h}
      /\ UNCHANGED <<cursor, stack, result, command, items, attempts, won, achieved>>
    BY DEF MovesInv, SendGoal
<1>2. pc \in [Run -> Labels] /\ sent \in [Run -> Nat] /\ goals \subseteq Goal
    BY <1>1 DEF TaskInv, Places, Counts
<1>3. /\ h.run = r /\ h.seq = sent[r] + 1 /\ h.state = "sent" /\ sent[r] \in Nat
      /\ sent'[r] = sent[r] + 1 /\ pc'[r] = "accept"
      /\ \A q \in Run \ {r} : sent'[q] = sent[q] /\ pc'[q] = pc[q]
    BY <1>1, <1>2
<1> HIDE DEF h
<1>4. \A g \in goals : g.run \in Run /\ g.seq \in Nat /\ g.seq <= sent[g.run]
    BY <1>1, <1>2 DEF GoalsOnce, Goal
<1>5. \A g \in goals : g.run = r => g.seq < sent[r] + 1
    BY <1>3, <1>4
<1>6. GoalsOnce'
    <2>1. \A g \in goals' : g.seq <= sent'[g.run]
        <3> TAKE g \in goals'
        <3>1. CASE g = h
            BY <1>3, <3>1
        <3>2. CASE g \in goals
            <4>1. CASE g.run = r
                BY <1>3, <1>4, <1>5, <3>2, <4>1
            <4>2. CASE g.run # r
                <5>1. g.run \in Run \ {r} /\ g.seq <= sent[g.run]
                    BY <1>4, <3>2, <4>2
                <5> QED
                    BY <1>3, <5>1
            <4> QED
                BY <4>1, <4>2
        <3> QED
            BY <1>1, <3>1, <3>2
    <2>2. ASSUME NEW g \in goals', NEW x \in goals', g.run = x.run, g.seq = x.seq
          PROVE  g = x
        <3>1. CASE g \in goals /\ x \in goals
            BY <1>1, <2>2, <3>1 DEF GoalsOnce
        <3>2. ASSUME NEW y \in goals, y.run = h.run, y.seq = h.seq PROVE FALSE
            <4>1. y.run = r /\ y.seq = sent[r] + 1 /\ y.seq < sent[r] + 1
                BY <1>3, <1>5, <3>2
            <4> QED
                BY <1>3, <4>1
        <3> QED
            BY <1>1, <2>2, <3>1, <3>2
    <2> QED
        BY <2>1, <2>2 DEF GoalsOnce
<1>7. Moves(r)'
    <2>1. ~Succeeded(r)'
        <3>1. \A g \in goals' : g.run = r /\ g.seq = sent'[r] => g.state = "sent"
            <4> SUFFICES ASSUME NEW g \in goals', g.run = r, g.seq = sent'[r] PROVE g.state = "sent"
                OBVIOUS
            <4>1. CASE g \in goals
                <5>1. g.seq < sent[r] + 1 /\ g.seq \in Nat
                    BY <1>4, <1>5, <4>1
                <5> QED
                    BY <1>3, <5>1
            <4> QED
                BY <1>1, <1>3, <4>1
        <3> QED
            BY <3>1 DEF Succeeded, Mine
    <2>2. won[r] = command[r] /\ command[r] < Motions[cursor[r]] /\ Type[cursor[r]] = "skill"
        BY <1>1 DEF Moves, Ready
    <2>3. command[r] \in Nat /\ command[r] + 0 = command[r]
        <3>1. command \in [Run -> Nat]
            BY <1>1 DEF TaskInv, Counts
        <3> QED
            BY <3>1
    <2>4. (IF Succeeded(r)' THEN 1 ELSE 0) = 0
        BY <2>1
    <2> QED
        BY <1>1, <1>3, <2>2, <2>3, <2>4 DEF Moves, Quiet, Ready, Awaited
<1>8. ASSUME NEW q \in Run \ {r} PROVE Moves(q)'
    <2>1. Succeeded(q)' <=> Succeeded(q)
        <3>1. \A g \in goals' : g.run = q => g \in goals
            BY <1>1, <1>3
        <3>2. \A g \in goals : g \in goals'
            BY <1>1
        <3> QED
            BY <1>3, <3>1, <3>2 DEF Succeeded, Mine
    <2>2. (IF Succeeded(q)' THEN 1 ELSE 0) = (IF Succeeded(q) THEN 1 ELSE 0)
        BY <2>1
    <2>3. Moves(q)
        BY DEF MovesInv
    <2> QED
        BY <1>1, <1>3, <2>2, <2>3 DEF Moves
<1> QED
    BY <1>1, <1>3, <1>6, <1>7, <1>8

(* The server concludes with a goal that is awaited, and counts it.        *)
LEMMA ServerMoves ==
    ASSUME MovesInv, NEW g \in goals, ServerAnswers(g) \/ ServerEnds(g) \/ OperatorStop(g)
    PROVE  GoalsOnce' /\ \A q \in Run : Moves(q)'
<1>1. /\ TaskInv /\ GoalsOnce /\ goals \subseteq Goal /\ won \in [Run -> Nat]
      /\ command \in [Run -> Nat] /\ \A q \in Run : Moves(q)
    BY DEF MovesInv, TaskInv, Places, Counts
<1>2. UNCHANGED <<pc, cursor, command, sent>> /\ g.state # "succeeded" /\ g.run \in Run
    <2>1. UNCHANGED <<pc, cursor, command, sent>>
        BY DEF ServerAnswers, ServerEnds, OperatorStop, control
    <2>2. g.state # "succeeded"
        BY DEF ServerAnswers, ServerEnds, OperatorStop
    <2> QED
        BY <1>1, <2>1, <2>2 DEF Goal
<1>3. \A q : g \in Mine(q) => ~Succeeded(q)
    BY <1>1, <1>2 DEF Succeeded, Mine, GoalsOnce
<1>4. CASE /\ goals' = goals \ {g} /\ won' = won
           /\ ~(pc[g.run] \in Awaited /\ g \in Mine(g.run))
    <2>1. GoalsOnce'
        BY <1>1, <1>2, <1>4, GoalsFewer
    <2>2. ASSUME NEW q \in Run PROVE Moves(q)'
        <3>1. pc[q] \in Awaited => (Succeeded(q)' <=> Succeeded(q))
            <4> SUFFICES ASSUME pc[q] \in Awaited PROVE Succeeded(q)' <=> Succeeded(q)
                OBVIOUS
            <4>1. ~(g.run = q /\ g.seq = sent[q])
                BY <1>4 DEF Mine
            <4>2. /\ \A x \in goals : x.run = q /\ x.seq = sent[q] => x \in goals'
                  /\ \A x \in goals' : x.run = q /\ x.seq = sent[q] => x \in goals
                BY <1>4, <4>1
            <4> QED
                BY <1>2, <4>2, SucceededApart
        <3>2. pc[q] \in Awaited =>
                  (IF Succeeded(q)' THEN 1 ELSE 0) = (IF Succeeded(q) THEN 1 ELSE 0)
            BY <3>1
        <3>3. Moves(q)
            BY <1>1
        <3> QED
            BY <1>2, <1>4, <3>2, <3>3 DEF Moves
    <2> QED
        BY <2>1, <2>2
<1>5. ASSUME NEW state, Become(g, state), state # "succeeded", won' = won
      PROVE  GoalsOnce' /\ \A q \in Run : Moves(q)'
    <2>1. GoalsOnce' /\ \A q : IF g \in Mine(q) THEN Succeeded(q)' <=> state = "succeeded"
                               ELSE Succeeded(q)' <=> Succeeded(q)
        BY <1>1, <1>2, <1>5, BecomeIs
    <2>2. ASSUME NEW q \in Run PROVE Moves(q)'
        <3>1. Succeeded(q)' <=> Succeeded(q)
            BY <1>3, <1>5, <2>1
        <3>2. (IF Succeeded(q)' THEN 1 ELSE 0) = (IF Succeeded(q) THEN 1 ELSE 0)
            BY <3>1
        <3>3. Moves(q)
            BY <1>1
        <3> QED
            BY <1>2, <1>5, <3>2, <3>3 DEF Moves
    <2> QED
        BY <2>1, <2>2
<1>6. CASE /\ Become(g, "succeeded") /\ won' = [won EXCEPT ![g.run] = @ + 1]
           /\ pc[g.run] \in Awaited /\ g \in Mine(g.run)
    <2>1. GoalsOnce' /\ \A q : IF g \in Mine(q) THEN Succeeded(q)' <=> "succeeded" = "succeeded"
                               ELSE Succeeded(q)' <=> Succeeded(q)
        BY <1>1, <1>2, <1>6, BecomeIs
    <2>2. ASSUME NEW q \in Run PROVE Moves(q)'
        <3>1. CASE q = g.run
            <4>1. Succeeded(q)' /\ ~Succeeded(q)
                BY <1>3, <1>6, <2>1, <3>1
            <4>2. (IF Succeeded(q)' THEN 1 ELSE 0) = 1 /\ (IF Succeeded(q) THEN 1 ELSE 0) = 0
                BY <4>1
            <4>3. won'[q] = won[q] + 1 /\ won[q] \in Nat /\ command[q] \in Nat
                BY <1>1, <1>6, <3>1
            <4>4. Moves(q) /\ pc[q] \in Awaited
                BY <1>1, <1>6, <3>1
            <4>5. won[q] = command[q] + 0
                BY <4>2, <4>4 DEF Moves
            <4>6. won'[q] = command'[q] + 1
                BY <1>2, <4>3, <4>5
            <4> QED
                BY <1>2, <4>2, <4>4, <4>6 DEF Moves, Quiet, Ready, Awaited
        <3>2. CASE q # g.run
            <4>1. g \notin Mine(q)
                BY <3>2 DEF Mine
            <4>2. Succeeded(q)' <=> Succeeded(q)
                BY <2>1, <4>1
            <4>3. (IF Succeeded(q)' THEN 1 ELSE 0) = (IF Succeeded(q) THEN 1 ELSE 0)
                BY <4>2
            <4>4. won'[q] = won[q] /\ Moves(q)
                BY <1>1, <1>6, <3>2
            <4> QED
                BY <1>2, <4>3, <4>4 DEF Moves
        <3> QED
            BY <3>1, <3>2
    <2> QED
        BY <2>1, <2>2
<1>7. \/ /\ goals' = goals \ {g} /\ won' = won
         /\ ~(pc[g.run] \in Awaited /\ g \in Mine(g.run))
      \/ \E state \in {"running", "stopped", "rejected", "failed"} : Become(g, state) /\ won' = won
      \/ /\ Become(g, "succeeded") /\ won' = [won EXCEPT ![g.run] = @ + 1]
         /\ pc[g.run] \in Awaited /\ g \in Mine(g.run)
    <2>1. ASSUME NEW state \in {"rejected", "failed", "succeeded"}, Conclude(g, state)
          PROVE  \/ /\ goals' = goals \ {g} /\ won' = won
                    /\ ~(pc[g.run] \in Awaited /\ g \in Mine(g.run))
                 \/ state \in {"rejected", "failed"} /\ Become(g, state) /\ won' = won
                 \/ /\ Become(g, "succeeded") /\ won' = [won EXCEPT ![g.run] = @ + 1]
                    /\ pc[g.run] \in Awaited /\ g \in Mine(g.run)
        BY <2>1 DEF Conclude, Awaited
    <2>2. \/ \E state \in {"rejected", "failed", "succeeded"} : Conclude(g, state)
          \/ (Become(g, "running") \/ Become(g, "stopped")) /\ won' = won
        BY DEF ServerAnswers, ServerEnds, OperatorStop, ghosts
    <2> QED
        BY <2>1, <2>2
<1> QED
    BY <1>4, <1>5, <1>6, <1>7

(* ---- a task does what was confirmed ---- *)

(* What holds of a run at p, with the frames s around the node c and a     *)
(* collection of k members, when the skills S moved the robot, the last    *)
(* node returned ok and n skills were begun: what was passed is earned, a  *)
(* node that succeeded is, and no more was begun than is accounted for.    *)
Tale(p, s, c, k, S, ok, n) ==
    /\ OnPath(s, c)
    /\ Passed(s, Earned(S, k))
    /\ p = "return" /\ ok => c \in Earned(S, k)
    /\ \E v \in Nat : /\ Spends(s, c, k, v)
                      /\ n <= v + (IF p \in {"new", "enter"} THEN 0 ELSE Price(k)[c])

Tells(r) ==
    Tale(pc[r], stack[r], cursor[r], items[r], achieved[r], result[r], attempts[r])

RunInv == MovesInv /\ \A r \in Run : Tells(r)

(* A run has a place of its own in the tree of its task.                   *)
LEMMA RunTypes ==
    ASSUME TaskInv, NEW r \in Run
    PROVE  /\ Framed(stack[r]) /\ stack[r] \in Seq(Frame) /\ cursor[r] \in Node
           /\ items[r] \in Nat /\ attempts[r] \in Nat /\ result[r] \in BOOLEAN
           /\ achieved[r] \subseteq Node /\ pc[r] \in Labels
           /\ Price(items[r])[cursor[r]] \in Nat
           /\ \A i \in DOMAIN stack[r] :
                 stack[r][i].round \in 1 .. Turns(items[r], stack[r][i].node)
<1>1. /\ stack \in [Run -> Seq(Frame)] /\ cursor \in [Run -> Node]
      /\ items \in [Run -> 0 .. MaxItems] /\ attempts \in [Run -> Nat]
      /\ result \in [Run -> BOOLEAN] /\ pc \in [Run -> Labels]
      /\ achieved \in [Run -> SUBSET Node] /\ MaxItems \in Nat
    BY TaskBounds DEF TaskInv, Flags, Counts, Places
<1>2. /\ stack[r] \in Seq(Frame) /\ cursor[r] \in Node /\ attempts[r] \in Nat
      /\ achieved[r] \subseteq Node /\ pc[r] \in Labels /\ items[r] \in Nat
    BY <1>1
<1>3. result[r] \in BOOLEAN
    BY <1>1, Zenon
<1>4. \A i \in DOMAIN stack[r] :
          /\ stack[r][i].child \in DOMAIN Kids[stack[r][i].node]
          /\ stack[r][i].round \in 1 .. Turns(items[r], stack[r][i].node)
    BY DEF TaskInv, StackFits, Fits, Rounds, Turns
<1>5. Price(items[r])[cursor[r]] \in Nat
    BY <1>2, PriceIs DEF Prices
<1> QED
    BY <1>2, <1>3, <1>4, <1>5 DEF Framed

(* A run that is left alone tells the same.                                *)
LEMMA TellsKept ==
    ASSUME NEW q \in Run, Tells(q), Own(q)' = Own(q)
    PROVE  Tells(q)'
<1>1. /\ pc'[q] = pc[q] /\ stack'[q] = stack[q] /\ cursor'[q] = cursor[q]
      /\ items'[q] = items[q] /\ achieved'[q] = achieved[q] /\ result'[q] = result[q]
      /\ attempts'[q] = attempts[q]
    BY DEF Own
<1> QED
    BY <1>1 DEF Tells

(* What a step within skill c comes to: the skills T are achieved where S  *)
(* were, and success adds c.                                               *)
Performs(q, c, S, T, good) ==
    /\ q \notin {"new", "enter"}
    /\ T = S \/ T = S \cup {c}
    /\ q = "return" /\ good => T = S \cup {c}

(* What happens within a skill tells as much.                              *)
LEMMA SkillTale ==
    ASSUME NEW p, NEW s, NEW c \in Node, NEW k, NEW S, NEW ok, NEW n,
           Tale(p, s, c, k, S, ok, n), p \notin {"new", "enter"}, Type[c] = "skill",
           NEW q, NEW good, NEW T, Performs(q, c, S, T, good)
    PROVE  Tale(q, s, c, k, T, good, n)
<1>0. S \subseteq T
    BY DEF Performs
<1>1. Earned(S, k) \subseteq Earned(T, k)
    BY <1>0, EarnedGrows
<1>2. Passed(s, Earned(T, k))
    BY <1>1 DEF Tale, Passed
<1>3. ASSUME T = S \cup {c} PROVE c \in Earned(T, k)
    <2>1. Means(T, k, c, Earned(T, k))
        BY <1>3 DEF Means
    <2> QED
        BY <2>1, EarnedIs
<1>4. q = "return" /\ good => c \in Earned(T, k)
    BY <1>3 DEF Performs
<1>5. \E v \in Nat : Spends(s, c, k, v)
                     /\ n <= v + (IF q \in {"new", "enter"} THEN 0 ELSE Price(k)[c])
    BY DEF Tale, Performs
<1> QED
    BY <1>2, <1>4, <1>5 DEF Tale

(* A skill that is begun is one more, and for nothing yet.                 *)
LEMMA BeginTale ==
    ASSUME NEW s, Framed(s), NEW c \in Node, NEW k \in Nat, NEW S, NEW ok, NEW n \in Nat,
           Tale("enter", s, c, k, S, ok, n), Type[c] = "skill"
    PROVE  Tale("compile", s, c, k, S \ {c}, ok, n + 1)
<1>1. OnPath(s, c) /\ Passed(s, Earned(S, k))
    BY DEF Tale
<1>2. Passed(s, Earned(S \ {c}, k))
    BY <1>1, BeginsAgain
<1>3. PICK v \in Nat : Spends(s, c, k, v) /\ n <= v + 0
    BY DEF Tale
<1>4. Price(k)[c] = 1
    BY PriceIs DEF Prices, Cost
<1>5. n + 1 <= v + Price(k)[c]
    BY <1>3, <1>4
<1> QED
    BY <1>1, <1>2, <1>3, <1>5 DEF Tale

(* A node that ends at once, by a stop or without rounds.                  *)
LEMMA EndTale ==
    ASSUME NEW s, NEW c \in Node, NEW k \in Nat, NEW S, NEW ok, NEW n \in Nat,
           Tale("enter", s, c, k, S, ok, n), NEW good,
           good => Type[c] # "skill" /\ Turns(k, c) = 0
    PROVE  Tale("return", s, c, k, S, good, n)
<1>1. PICK v \in Nat : Spends(s, c, k, v) /\ n <= v + 0
    BY DEF Tale
<1>2. Price(k)[c] \in Nat
    BY PriceIs DEF Prices
<1>3. n <= v + Price(k)[c]
    BY <1>1, <1>2
<1>4. ASSUME good PROVE c \in Earned(S, k)
    <2>1. Type[c] \notin {"skill", "fallback"}
        BY <1>4 DEF Turns
    <2>2. Means(S, k, c, Earned(S, k))
        BY <1>4, <2>1 DEF Means
    <2> QED
        BY <2>2, EarnedIs
<1> QED
    BY <1>1, <1>3, <1>4 DEF Tale

(* A child is entered with what its parent spent before it.                *)
LEMMA ChildTale ==
    ASSUME NEW s \in Seq(Frame), NEW c \in Node, NEW k \in Nat, NEW S, NEW ok, NEW n \in Nat,
           OnPath(s, c), Passed(s, Earned(S, k)), NEW u \in Nat, Spends(s, c, k, u),
           NEW child \in DOMAIN Kids[c], NEW round \in 1 .. Turns(k, c),
           n <= u + SpentAt(k, c, child, round),
           Type[c] # "fallback" => \A j \in 1 .. child - 1 : Kids[c][j] \in Earned(S, k)
    PROVE  Tale("enter", Append(s, [node |-> c, child |-> child, round |-> round]),
                Kids[c][child], k, S, ok, n)
<1> DEFINE f == [node |-> c, child |-> child, round |-> round]
<1>1. /\ f \in Frame /\ f.node = c /\ f.child = child /\ f.round = round
      /\ Share(k, f) = SpentAt(k, c, child, round)
    <2>1. child \in Nat
        BY KidsAre
    <2>2. round \in Nat
        BY TurnsCount
    <2> QED
        BY <2>1, <2>2 DEF Frame, Share
<1> HIDE DEF f
<1>2. OnPath(Append(s, f), Kids[c][child])
    BY <1>1, PathGrows
<1>3. Passed(Append(s, f), Earned(S, k))
    BY <1>1, PassedGrows
<1>4. Spends(Append(s, f), Kids[c][child], k, u + SpentAt(k, c, child, round))
    BY <1>1, SpendsGrows
<1>5. u + SpentAt(k, c, child, round) \in Nat
    <2>1. SpentAt(k, c, child, round) \in Nat
        BY SpentSteps
    <2> QED
        BY <2>1
<1>6. n <= (u + SpentAt(k, c, child, round)) + 0
    BY <1>5
<1>7. Tale("enter", Append(s, f), Kids[c][child], k, S, ok, n)
    BY <1>2, <1>3, <1>4, <1>5, <1>6 DEF Tale
<1> QED
    BY <1>7 DEF f

(* f is the last frame of s, t are those before it.                        *)
Around(s, k, t, f) ==
    /\ Framed(s) /\ s # <<>> /\ f = s[Len(s)] /\ t = SubSeq(s, 1, Len(s) - 1)
    /\ f.round \in 1 .. Turns(k, f.node)

(* A child that returns has spent what its parent accounts for it.         *)
LEMMA ParentIs ==
    ASSUME NEW s, NEW c \in Node, NEW k \in Nat, NEW S, NEW ok,
           NEW m \in Nat, Tale("return", s, c, k, S, ok, m), NEW f, NEW t,
           Around(s, k, t, f)
    PROVE  /\ t \in Seq(Frame) /\ f \in Frame /\ f.node \in Node
           /\ f.child \in DOMAIN Kids[f.node]
           /\ c = Kids[f.node][f.child] /\ OnPath(t, f.node) /\ Passed(t, Earned(S, k))
           /\ Type[f.node] # "fallback" =>
                 \A j \in 1 .. f.child - 1 : Kids[f.node][j] \in Earned(S, k)
           /\ \E u \in Nat : /\ Spends(t, f.node, k, u)
                             /\ m <= u + SpentAt(k, f.node, f.child + 1, f.round)
<1>0. /\ Framed(s) /\ s # <<>> /\ f = s[Len(s)] /\ t = SubSeq(s, 1, Len(s) - 1)
      /\ f.round \in 1 .. Turns(k, f.node)
    BY DEF Around
<1>1. s \in Seq(Frame) /\ OnPath(s, c) /\ Passed(s, Earned(S, k))
    BY <1>0 DEF Framed, Tale
<1>2. t \in Seq(Frame) /\ f \in Frame /\ Len(s) \in DOMAIN s
    BY <1>0, <1>1, PopIs
<1>3. f.node \in Node /\ f.child \in DOMAIN Kids[f.node]
    BY <1>0, <1>2 DEF Frame, Framed
<1>4. OnPath(t, f.node) /\ c = Kids[f.node][f.child]
    BY <1>0, <1>1, PathShrinks
<1>5. /\ Passed(t, Earned(S, k))
      /\ Type[f.node] # "fallback" =>
            \A j \in 1 .. f.child - 1 : Kids[f.node][j] \in Earned(S, k)
    BY <1>0, <1>1, PassedShrinks
<1>6. PICK v \in Nat : Spends(s, c, k, v) /\ m <= v + Price(k)[c]
    BY DEF Tale
<1>7. PICK u \in Nat : Spends(t, f.node, k, u) /\ v = u + Share(k, f)
    BY <1>0, <1>1, <1>6, SpendsShrinks
<1> DEFINE here == SpentAt(k, f.node, f.child, f.round)
           next == SpentAt(k, f.node, f.child + 1, f.round)
           price == Price(k)[Kids[f.node][f.child]]
<1>8. here \in Nat /\ price \in Nat /\ next = here + price
    BY <1>0, <1>3, SpentSteps
<1>9. v = u + here /\ m <= v + price
    BY <1>4, <1>6, <1>7 DEF Share
<1> HIDE DEF here, next, price
<1>10. m <= u + next
    BY <1>8, <1>9
<1> QED
    BY <1>2, <1>3, <1>4, <1>5, <1>7, <1>10 DEF next

(* A parent that returns in its turn needed no more than its price.        *)
LEMMA PopTale ==
    ASSUME NEW s, NEW c \in Node, NEW k \in Nat, NEW S, NEW ok,
           NEW m \in Nat, Tale("return", s, c, k, S, ok, m), NEW f, NEW t,
           Around(s, k, t, f),
           ok => Type[f.node] = "fallback" \/ f.child = Len(Kids[f.node])
    PROVE  Tale("return", t, f.node, k, S, ok, m)
<1>0. f.round \in 1 .. Turns(k, f.node)
    BY DEF Around
<1>1. /\ t \in Seq(Frame) /\ f \in Frame /\ f.node \in Node
      /\ f.child \in DOMAIN Kids[f.node]
      /\ c = Kids[f.node][f.child] /\ OnPath(t, f.node) /\ Passed(t, Earned(S, k))
      /\ Type[f.node] # "fallback" =>
            \A j \in 1 .. f.child - 1 : Kids[f.node][j] \in Earned(S, k)
      /\ \E u \in Nat : /\ Spends(t, f.node, k, u)
                        /\ m <= u + SpentAt(k, f.node, f.child + 1, f.round)
    BY ParentIs
<1> DEFINE n == f.node
<1>2. PICK u \in Nat : Spends(t, n, k, u) /\ m <= u + SpentAt(k, n, f.child + 1, f.round)
    BY <1>1
<1>3. n \in Node /\ Price(k)[n] \in Nat /\ SpentAt(k, n, f.child, f.round) \in Nat
      /\ Price(k)[Kids[n][f.child]] \in Nat
      /\ SpentAt(k, n, f.child + 1, f.round)
             = SpentAt(k, n, f.child, f.round) + Price(k)[Kids[n][f.child]]
      /\ SpentAt(k, n, f.child + 1, f.round) <= Price(k)[n]
    BY <1>0, <1>1, SpentSteps
<1>4. m <= u + Price(k)[n]
    <2> DEFINE next == SpentAt(k, n, f.child + 1, f.round)
               price == Price(k)[n]
    <2>1. next \in Nat /\ price \in Nat /\ next <= price /\ m <= u + next
        BY <1>2, <1>3
    <2> HIDE DEF next, price
    <2>2. m <= u + price
        BY <2>1
    <2> QED
        BY <2>2 DEF price
<1>5. ASSUME ok PROVE n \in Earned(S, k)
    <2>1. c \in Earned(S, k)
        BY <1>5 DEF Tale
    <2>2. Kids[n] # <<>> /\ DOMAIN Kids[n] = 1 .. Len(Kids[n]) /\ Len(Kids[n]) \in Nat
        BY <1>1, KidsAre
    <2>3. Type[n] # "skill"
        BY <1>1, <2>2, TaskBounds
    <2>4. CASE Type[n] = "fallback"
        <3>1. Means(S, k, n, Earned(S, k))
            BY <1>1, <2>1, <2>4 DEF Means
        <3> QED
            BY <1>1, <3>1, EarnedIs
    <2>5. CASE Type[n] # "fallback"
        <3>1. f.child = Len(Kids[n])
            BY <1>5, <2>5
        <3>2. \A j \in DOMAIN Kids[n] : Kids[n][j] \in Earned(S, k)
            <4> TAKE j \in DOMAIN Kids[n]
            <4>1. j = f.child \/ j \in 1 .. f.child - 1
                BY <2>2, <3>1
            <4> QED
                BY <1>1, <2>1, <2>5, <4>1
        <3>3. Means(S, k, n, Earned(S, k))
            BY <2>3, <2>5, <3>2 DEF Means
        <3> QED
            BY <1>1, <3>3, EarnedIs
    <2> QED
        BY <2>4, <2>5
<1> HIDE DEF n
<1>6. Tale("return", t, n, k, S, ok, m)
    BY <1>1, <1>2, <1>4, <1>5 DEF Tale, n
<1> QED
    BY <1>6 DEF n

(* The next child is entered, or the first one of the next round.          *)
LEMMA ResumeTale ==
    ASSUME NEW s, NEW c \in Node, NEW k \in Nat, NEW S, NEW ok,
           NEW m \in Nat, Tale("return", s, c, k, S, ok, m), NEW f, NEW t,
           Around(s, k, t, f),
           NEW child \in DOMAIN Kids[f.node], NEW round \in 1 .. Turns(k, f.node),
           \/ child = f.child + 1 /\ round = f.round /\ (Type[f.node] = "fallback" \/ ok)
           \/ child = 1 /\ round = f.round + 1
    PROVE  Tale("enter", Append(t, [node |-> f.node, child |-> child, round |-> round]),
                Kids[f.node][child], k, S, ok, m)
<1>0. f.round \in 1 .. Turns(k, f.node)
    BY DEF Around
<1>1. /\ t \in Seq(Frame) /\ f \in Frame /\ f.node \in Node
      /\ f.child \in DOMAIN Kids[f.node]
      /\ c = Kids[f.node][f.child] /\ OnPath(t, f.node) /\ Passed(t, Earned(S, k))
      /\ Type[f.node] # "fallback" =>
            \A j \in 1 .. f.child - 1 : Kids[f.node][j] \in Earned(S, k)
      /\ \E u \in Nat : /\ Spends(t, f.node, k, u)
                        /\ m <= u + SpentAt(k, f.node, f.child + 1, f.round)
    BY ParentIs
<1>2. PICK u \in Nat : /\ Spends(t, f.node, k, u)
                       /\ m <= u + SpentAt(k, f.node, f.child + 1, f.round)
    BY <1>1
<1> DEFINE next == SpentAt(k, f.node, f.child + 1, f.round)
           there == SpentAt(k, f.node, child, round)
<1>3. /\ SpentAt(k, f.node, f.child, f.round) \in Nat /\ Price(k)[Kids[f.node][f.child]] \in Nat
      /\ next = SpentAt(k, f.node, f.child, f.round) + Price(k)[Kids[f.node][f.child]]
      /\ next <= SpentAt(k, f.node, 1, f.round + 1)
    <2> DEFINE n == f.node
               i == f.child
    <2>1. n \in Node /\ i \in DOMAIN Kids[n] /\ f.round \in 1 .. Turns(k, n)
        BY <1>0, <1>1
    <2> HIDE DEF n, i
    <2>2. /\ SpentAt(k, n, i, f.round) \in Nat /\ Price(k)[Kids[n][i]] \in Nat
          /\ SpentAt(k, n, i + 1, f.round) = SpentAt(k, n, i, f.round) + Price(k)[Kids[n][i]]
          /\ SpentAt(k, n, i + 1, f.round) <= SpentAt(k, n, 1, f.round + 1)
        BY <2>1, SpentSteps
    <2> QED
        BY <2>2 DEF n, i
<1>4. next \in Nat /\ next <= there /\ there \in Nat
    <2>1. next \in Nat
        BY <1>3
    <2>2. there \in Nat
        BY <1>0, <1>1, SpentSteps
    <2>3. next <= there
        <3>1. CASE child = f.child + 1 /\ round = f.round
            <4>1. next = there
                BY <3>1
            <4> HIDE DEF next, there
            <4> QED
                BY <2>1, <4>1
        <3>2. CASE child = 1 /\ round = f.round + 1
            BY <1>3, <3>2
        <3> QED
            BY <3>1, <3>2
    <2> QED
        BY <2>1, <2>2, <2>3
<1>5. m <= u + there
    <2>1. m <= u + next
        BY <1>2
    <2> HIDE DEF next, there
    <2> QED
        BY <1>4, <2>1
<1>6. Type[f.node] # "fallback" => \A j \in 1 .. child - 1 : Kids[f.node][j] \in Earned(S, k)
    <2> SUFFICES ASSUME Type[f.node] # "fallback", NEW j \in 1 .. child - 1
                 PROVE  Kids[f.node][j] \in Earned(S, k)
        OBVIOUS
    <2>1. f.child \in Nat
        BY <1>1 DEF Frame
    <2>2. child = f.child + 1 /\ ok
        BY <2>1
    <2>3. j = f.child \/ j \in 1 .. f.child - 1
        BY <2>1, <2>2
    <2>4. c \in Earned(S, k)
        BY <2>2 DEF Tale
    <2> QED
        BY <1>1, <2>3, <2>4
<1> QED
    BY <1>1, <1>2, <1>5, <1>6, ChildTale

(* A node that is entered is begun, ends, or comes to its first child.     *)
LEMMA EnterTells ==
    ASSUME TaskInv, NEW r \in Run, Tells(r), EnterNode(r)
    PROVE  Tells(r)'
<1> DEFINE s == stack[r]
           c == cursor[r]
           k == items[r]
           S == achieved[r]
           m == attempts[r]
<1>0. /\ stack \in [Run -> Seq(Frame)] /\ cursor \in [Run -> Node]
      /\ attempts \in [Run -> Nat] /\ result \in [Run -> BOOLEAN] /\ pc \in [Run -> Labels]
      /\ achieved \in [Run -> SUBSET Node]
    BY DEF TaskInv, Flags, Counts, Places
<1>1. Framed(s) /\ s \in Seq(Frame) /\ c \in Node /\ k \in Nat /\ m \in Nat
    BY RunTypes
<1>2. pc[r] = "enter" /\ items' = items /\ Tale("enter", s, c, k, S, result[r], m)
    BY DEF EnterNode, Tells
<1>3. CASE \E ok \in BOOLEAN : /\ ok => Type[c] # "skill" /\ Rounds(r, c) = 0
                               /\ Finish(r, ok)
                               /\ UNCHANGED <<cursor, stack, attempts, achieved>>
    <2>1. PICK ok \in BOOLEAN : /\ ok => Type[c] # "skill" /\ Rounds(r, c) = 0
                                /\ Finish(r, ok)
                                /\ UNCHANGED <<cursor, stack, attempts, achieved>>
        BY <1>3
    <2>2. pc'[r] = "return"
        BY <1>0, <2>1 DEF Finish
    <2>3. result'[r] = ok
        BY <1>0, <2>1, Zenon DEF Finish
    <2>4. ok => Type[c] # "skill" /\ Turns(k, c) = 0
        BY <2>1 DEF Turns, Rounds
    <2> HIDE DEF s, c, k, S, m
    <2>5. Tale("return", s, c, k, S, ok, m)
        BY <1>1, <1>2, <2>4, EndTale
    <2> QED
        BY <1>2, <2>1, <2>2, <2>3, <2>5 DEF Tells, s, c, k, S, m
<1>4. CASE /\ Type[c] = "skill"
           /\ attempts' = [attempts EXCEPT ![r] = @ + 1]
           /\ achieved' = [achieved EXCEPT ![r] = @ \ {c}]
           /\ pc' = [pc EXCEPT ![r] = "compile"]
           /\ UNCHANGED <<cursor, stack, result>>
    <2>1. attempts'[r] = m + 1 /\ achieved'[r] = S \ {c} /\ pc'[r] = "compile"
        BY <1>0, <1>4
    <2>2. UNCHANGED <<cursor, stack, result>> /\ Type[c] = "skill"
        BY <1>4
    <2> DEFINE ok == result[r]
    <2> HIDE DEF s, c, k, S, m, ok
    <2>3. Tale("compile", s, c, k, S \ {c}, ok, m + 1)
        BY <1>1, <1>2, <2>2, BeginTale DEF ok
    <2> QED
        BY <1>2, <2>1, <2>2, <2>3 DEF Tells, s, c, k, S, m, ok
<1>5. CASE /\ Type[c] # "skill" /\ Rounds(r, c) > 0
           /\ stack' = [stack EXCEPT ![r] = Append(@, [node |-> c, child |-> 1, round |-> 1])]
           /\ cursor' = [cursor EXCEPT ![r] = Kids[c][1]]
           /\ UNCHANGED <<pc, result, attempts, achieved>>
    <2>1. /\ stack'[r] = Append(s, [node |-> c, child |-> 1, round |-> 1])
          /\ cursor'[r] = Kids[c][1]
        BY <1>0, <1>5
    <2>2. UNCHANGED <<pc, result, attempts, achieved>> /\ Type[c] # "skill"
        BY <1>5
    <2>3. Rounds(r, c) = Turns(k, c) /\ Rounds(r, c) > 0
        BY <1>5 DEF Turns, Rounds
    <2> DEFINE ok == result[r]
    <2> HIDE DEF s, c, k, S, m, ok
    <2>4. 1 \in 1 .. Turns(k, c) /\ 1 \in DOMAIN Kids[c]
        <3>1. Turns(k, c) \in Nat /\ Turns(k, c) > 0
            BY <1>1, <2>3, TurnsCount
        <3>2. Kids[c] # <<>> /\ Kids[c] \in Seq(Node)
            BY <1>1, <2>2, TaskBounds
        <3> QED
            BY <3>1, <3>2
    <2>5. PICK v \in Nat : Spends(s, c, k, v) /\ m <= v + 0
        BY <1>2 DEF Tale
    <2>6. m <= v + SpentAt(k, c, 1, 1)
        BY <1>1, <2>4, <2>5, SpentSteps
    <2>7. OnPath(s, c) /\ Passed(s, Earned(S, k))
        BY <1>2 DEF Tale
    <2>8. \A j \in 1 .. 1 - 1 : Kids[c][j] \in Earned(S, k)
        OBVIOUS
    <2>9. Tale("enter", Append(s, [node |-> c, child |-> 1, round |-> 1]), Kids[c][1], k, S, ok, m)
        BY <1>1, <2>4, <2>5, <2>6, <2>7, <2>8, ChildTale
    <2> QED
        BY <1>2, <2>1, <2>2, <2>9 DEF Tells, s, c, k, S, m, ok
<1>6. \/ \E ok \in BOOLEAN : /\ ok => Type[c] # "skill" /\ Rounds(r, c) = 0
                             /\ Finish(r, ok)
                             /\ UNCHANGED <<cursor, stack, attempts, achieved>>
      \/ /\ Type[c] = "skill"
         /\ attempts' = [attempts EXCEPT ![r] = @ + 1]
         /\ achieved' = [achieved EXCEPT ![r] = @ \ {c}]
         /\ pc' = [pc EXCEPT ![r] = "compile"]
         /\ UNCHANGED <<cursor, stack, result>>
      \/ /\ Type[c] # "skill" /\ Rounds(r, c) > 0
         /\ stack' = [stack EXCEPT ![r] = Append(@, [node |-> c, child |-> 1, round |-> 1])]
         /\ cursor' = [cursor EXCEPT ![r] = Kids[c][1]]
         /\ UNCHANGED <<pc, result, attempts, achieved>>
    <2>1. FALSE \in BOOLEAN /\ (Type[c] # "retry") \in BOOLEAN
        OBVIOUS
    <2> QED
        BY <2>1, Zenon DEF EnterNode
<1> QED
    BY <1>3, <1>4, <1>5, <1>6

(* To replace the last frame is to take it away and to put another there.  *)
LEMMA ReplacesLast ==
    ASSUME NEW s \in Seq(Frame), s # <<>>, NEW g \in Frame
    PROVE  [s EXCEPT ![Len(s)] = g] = Append(SubSeq(s, 1, Len(s) - 1), g)
<1> DEFINE t == SubSeq(s, 1, Len(s) - 1)
           x == [s EXCEPT ![Len(s)] = g]
           y == Append(t, g)
<1>1. /\ t \in Seq(Frame) /\ Len(s) \in Nat /\ Len(s) > 0 /\ DOMAIN s = 1 .. Len(s)
      /\ Len(t) = Len(s) - 1 /\ DOMAIN t = 1 .. Len(s) - 1
      /\ \A i \in 1 .. Len(s) - 1 : t[i] = s[i]
    BY PopIs
<1> HIDE DEF t
<1>2. x \in Seq(Frame) /\ Len(x) = Len(s)
      /\ \A i \in 1 .. Len(s) : x[i] = IF i = Len(s) THEN g ELSE s[i]
    BY <1>1
<1>3. y \in Seq(Frame) /\ Len(y) = Len(t) + 1 /\ y[Len(t) + 1] = g
      /\ \A i \in DOMAIN t : y[i] = t[i]
    BY <1>1, PushIs
<1> HIDE DEF x, y
<1>4. Len(t) + 1 = Len(s) /\ Len(y) = Len(s)
    BY <1>1, <1>3
<1>5. ASSUME NEW i \in 1 .. Len(s) PROVE x[i] = y[i]
    <2>1. CASE i = Len(s)
        BY <1>2, <1>3, <1>4, <2>1
    <2>2. CASE i # Len(s)
        <3>0. Len(s) \in Nat
            BY <1>1
        <3>1. i \in 1 .. Len(s) - 1
            BY <2>2, <3>0
        <3> QED
            BY <1>1, <1>2, <1>3, <2>2, <3>1
    <2> QED
        BY <2>1, <2>2
<1>6. x = y
    BY <1>2, <1>3, <1>4, <1>5
<1> QED
    BY <1>6 DEF x, y, t

(* A child that returned is followed by another one or by its parent.      *)
LEMMA ReturnTells ==
    ASSUME TaskInv, NEW r \in Run, Tells(r), ReturnToParent(r)
    PROVE  Tells(r)'
<1> DEFINE s == stack[r]
           c == cursor[r]
           k == items[r]
           S == achieved[r]
           m == attempts[r]
           ok == result[r]
           f == s[Len(s)]
           t == SubSeq(s, 1, Len(s) - 1)
<1>0. /\ stack \in [Run -> Seq(Frame)] /\ cursor \in [Run -> Node] /\ pc \in [Run -> Labels]
    BY DEF TaskInv, Places
<1>1. Framed(s) /\ s \in Seq(Frame) /\ c \in Node /\ k \in Nat /\ m \in Nat
      /\ \A i \in DOMAIN s : s[i].round \in 1 .. Turns(k, s[i].node)
    BY RunTypes
<1>2. /\ pc[r] = "return" /\ s # <<>> /\ UNCHANGED <<result, items, attempts, achieved>>
      /\ Tale("return", s, c, k, S, ok, m)
    BY DEF ReturnToParent, Tells, ghosts
<1>3. Around(s, k, t, f)
    <2>1. Len(s) \in DOMAIN s
        BY <1>1, <1>2
    <2> QED
        BY <1>1, <1>2, <2>1 DEF Around
<1>4. f \in Frame /\ t \in Seq(Frame) /\ f = Top(r) /\ f.child \in DOMAIN Kids[f.node]
      /\ f.node \in Node /\ f.round \in 1 .. Turns(k, f.node)
      /\ Turns(k, f.node) = Rounds(r, f.node)
    <2>1. f \in Frame /\ t \in Seq(Frame) /\ Len(s) \in DOMAIN s
        BY <1>1, <1>2, PopIs
    <2>2. f.child \in DOMAIN Kids[f.node]
        BY <1>1, <2>1 DEF Framed
    <2>3. f.node \in Node
        BY <2>1 DEF Frame
    <2> QED
        BY <1>1, <2>1, <2>2, <2>3 DEF Top, Turns, Rounds
<1>5. CASE Pop(r) /\ (ok => Type[f.node] = "fallback" \/ f.child = Len(Kids[f.node]))
    <2>1. stack' = [stack EXCEPT ![r] = t] /\ cursor' = [cursor EXCEPT ![r] = f.node] /\ pc' = pc
        BY <1>4, <1>5 DEF Pop
    <2>2. stack'[r] = t /\ cursor'[r] = f.node
        BY <1>0, <2>1
    <2>3. ok => Type[f.node] = "fallback" \/ f.child = Len(Kids[f.node])
        BY <1>5
    <2> DEFINE x == f.node
    <2> HIDE DEF s, c, k, S, m, ok, f, t
    <2>4. Tale("return", t, x, k, S, ok, m)
        BY <1>1, <1>2, <1>3, <2>3, PopTale
    <2> HIDE DEF x
    <2>5. cursor'[r] = x
        BY <2>2 DEF x
    <2> QED
        BY <1>2, <2>1, <2>2, <2>4, <2>5 DEF Tells, k, S, m, ok
<1>6. ASSUME NEW child \in DOMAIN Kids[f.node], NEW round \in 1 .. Turns(k, f.node),
             \/ child = f.child + 1 /\ round = f.round /\ (Type[f.node] = "fallback" \/ ok)
             \/ child = 1 /\ round = f.round + 1,
             Resume(r, child, round)
      PROVE  Tells(r)'
    <2> DEFINE g == [node |-> f.node, child |-> child, round |-> round]
               d == Kids[f.node][child]
    <2>1. /\ stack' = [stack EXCEPT ![r][Len(stack[r])] = g]
          /\ cursor' = [cursor EXCEPT ![r] = d]
          /\ pc' = [pc EXCEPT ![r] = "enter"]
        BY <1>4, <1>6 DEF Resume
    <2> HIDE DEF g, d
    <2>2. stack'[r] = [s EXCEPT ![Len(s)] = g] /\ cursor'[r] = d /\ pc'[r] = "enter"
        BY <1>0, <2>1
    <2>3. g \in Frame
        <3>1. child \in Nat /\ f.node \in Node
            BY <1>4, KidsAre
        <3>2. round \in Nat
            BY <1>1, <1>4, TurnsCount
        <3> QED
            BY <3>1, <3>2 DEF Frame, g
    <2>4. [s EXCEPT ![Len(s)] = g] = Append(t, g)
        BY <1>1, <1>2, <2>3, ReplacesLast
    <2> HIDE DEF s, c, k, S, m, ok, f, t
    <2>5. Tale("enter", Append(t, [node |-> f.node, child |-> child, round |-> round]),
               Kids[f.node][child], k, S, ok, m)
        BY <1>1, <1>2, <1>3, <1>6, ResumeTale
    <2>6. Tale("enter", Append(t, g), d, k, S, ok, m)
        BY <2>5 DEF g, d
    <2> QED
        BY <1>2, <2>2, <2>4, <2>6 DEF Tells, k, S, m, ok
<1>7. \/ Pop(r) /\ (ok => Type[f.node] = "fallback" \/ f.child = Len(Kids[f.node]))
      \/ /\ f.child # Len(Kids[f.node]) /\ Resume(r, f.child + 1, f.round)
         /\ Type[f.node] = "fallback" \/ ok
      \/ f.round # Rounds(r, f.node) /\ Resume(r, 1, f.round + 1)
    <2>1. CASE ok
        <3>1. AfterSuccess(r)
            BY <2>1 DEF ReturnToParent
        <3> HIDE DEF f
        <3> QED
            BY <1>4, <2>1, <3>1 DEF AfterSuccess, LastChild, LastRound
    <2>2. CASE ~ok
        <3>1. AfterFailure(r)
            BY <2>2 DEF ReturnToParent
        <3> HIDE DEF f
        <3> QED
            BY <1>4, <2>2, <3>1 DEF AfterFailure, LastChild, LastRound
    <2> QED
        BY <2>1, <2>2
<1>8. CASE /\ f.child # Len(Kids[f.node]) /\ Resume(r, f.child + 1, f.round)
           /\ Type[f.node] = "fallback" \/ ok
    <2>1. f.child + 1 \in DOMAIN Kids[f.node]
        <3>1. f.node \in Node /\ f.child \in DOMAIN Kids[f.node] /\ f.child # Len(Kids[f.node])
            BY <1>4, <1>8
        <3>2. DOMAIN Kids[f.node] = 1 .. Len(Kids[f.node]) /\ Len(Kids[f.node]) \in Nat
            BY <3>1, KidsAre
        <3> HIDE DEF f
        <3> QED
            BY <3>1, <3>2
    <2> HIDE DEF s, c, k, S, m, ok, f, t
    <2> QED
        BY <1>4, <1>6, <1>8, <2>1
<1>9. CASE f.round # Rounds(r, f.node) /\ Resume(r, 1, f.round + 1)
    <2>1. 1 \in DOMAIN Kids[f.node]
        <3>1. f.node \in Node /\ f.child \in DOMAIN Kids[f.node]
            BY <1>4
        <3>2. DOMAIN Kids[f.node] = 1 .. Len(Kids[f.node]) /\ Len(Kids[f.node]) \in Nat
            BY <3>1, KidsAre
        <3> HIDE DEF f
        <3> QED
            BY <3>1, <3>2
    <2>2. f.round + 1 \in 1 .. Turns(k, f.node)
        <3>1. f.round \in 1 .. Turns(k, f.node) /\ f.round # Turns(k, f.node)
            BY <1>4, <1>9
        <3>2. Turns(k, f.node) \in Nat
            BY <1>1, <1>4, TurnsCount
        <3> HIDE DEF f, k
        <3> QED
            BY <3>1, <3>2
    <2> HIDE DEF s, c, k, S, m, ok, f, t
    <2> QED
        BY <1>6, <1>9, <2>1, <2>2
<1> QED
    BY <1>5, <1>7, <1>8, <1>9

(* A task that is confirmed starts at its root, and one that is answered   *)
(* has nothing left.                                                       *)
LEMMA OutsideTells ==
    ASSUME TaskInv, TaskInv', NEW r \in Run, Tells(r),
           ConfirmFactoryTask(r) \/ AnswerConfirmation(r)
    PROVE  Tells(r)'
<1>1. /\ cursor'[r] \in Node /\ items'[r] \in Nat
    <2>1. /\ cursor' \in [Run -> Node] /\ items' \in [Run -> 0 .. MaxItems] /\ MaxItems \in Nat
        BY TaskBounds DEF TaskInv, Places, Counts
    <2> QED
        BY <2>1
<1>2. /\ stack[r] = <<>> /\ stack' = stack /\ pc'[r] \in {"enter", "done"}
      /\ attempts'[r] = attempts[r] \/ attempts'[r] = 0
    <2>1. pc \in [Run -> Labels] /\ attempts \in [Run -> Nat]
        BY DEF TaskInv, Places, Counts
    <2>2. CASE ConfirmFactoryTask(r)
        BY <2>1, <2>2 DEF ConfirmFactoryTask, TaskInv, NewIsEmpty
    <2>3. CASE AnswerConfirmation(r)
        BY <2>1, <2>3 DEF AnswerConfirmation
    <2> QED
        BY <2>2, <2>3
<1>3. attempts'[r] <= 0
    <2>1. CASE ConfirmFactoryTask(r)
        <3>1. pc[r] = "new" /\ attempts' = attempts
            BY <2>1 DEF ConfirmFactoryTask
        <3>2. PICK v \in Nat : Spends(<<>>, cursor[r], items[r], v) /\ attempts[r] <= v + 0
            BY <1>2, <3>1 DEF Tells, Tale
        <3>3. v = 0
            <4>1. PICK a : Accounts(<<>>, cursor[r], items[r], v, a)
                BY <3>2 DEF Spends
            <4>2. a[1] = 0 /\ a[Len(<<>>) + 1] = v /\ Len(<<>>) + 1 = 1
                BY <4>1 DEF Accounts
            <4> QED
                BY <4>2
        <3> QED
            BY <3>1, <3>2, <3>3
    <2>2. CASE AnswerConfirmation(r)
        <3>1. attempts \in [Run -> Nat] /\ attempts' = [attempts EXCEPT ![r] = 0]
            BY <2>2 DEF AnswerConfirmation, TaskInv, Counts
        <3> QED
            BY <3>1
    <2> QED
        BY <2>1, <2>2
<1> DEFINE c == cursor'[r]
           k == items'[r]
           m == attempts'[r]
<1>4. Spends(<<>>, c, k, 0) /\ Price(k)[c] \in Nat
    <2>1. Spends(<<>>, c, k, 0)
        BY <1>1, SpendsNothing
    <2> QED
        BY <1>1, <2>1, PriceIs DEF Prices
<1>5. OnPath(<<>>, c) /\ \A W : Passed(<<>>, W)
    BY DEF OnPath, Passed
<1>6. m <= 0 + (IF pc'[r] \in {"new", "enter"} THEN 0 ELSE Price(k)[c])
    <2>1. m \in Nat
        <3>1. attempts' \in [Run -> Nat]
            BY DEF TaskInv, Counts
        <3> QED
            BY <3>1
    <2> HIDE DEF m, c, k
    <2> QED
        BY <1>3, <1>4, <2>1 DEF m
<1>7. pc'[r] # "return"
    BY <1>2
<1> QED
    BY <1>2, <1>4, <1>5, <1>6, <1>7 DEF Tells, Tale

(* The steps of a skill tell of its motions.                               *)
LEMMA InSkillTells ==
    ASSUME MovesInv, NEW r \in Run, Tells(r), InSkill(r)
    PROVE  Tells(r)'
<1>1. /\ UNCHANGED <<cursor, stack, items, attempts>> /\ Type[cursor[r]] = "skill"
      /\ pc[r] \notin {"new", "enter"}
      /\ (\E ok \in BOOLEAN : Ends(r, ok)) \/ Continues(r)
    BY SkillComes
<1>2. TaskInv /\ cursor[r] \in Node
    BY RunTypes DEF MovesInv
<1>3. /\ pc'[r] \notin {"new", "enter"}
      /\ achieved'[r] = achieved[r] \/ achieved'[r] = achieved[r] \cup {cursor[r]}
      /\ pc'[r] = "return" /\ result'[r] => achieved'[r] = achieved[r] \cup {cursor[r]}
    <2>1. ASSUME NEW ok \in BOOLEAN, Ends(r, ok)
          PROVE  /\ pc'[r] = "return" /\ result'[r] = ok
                 /\ achieved'[r] = IF ok THEN achieved[r] \cup {cursor[r]} ELSE achieved[r]
        BY <1>2, <2>1, SkillEnds DEF Ends
    <2>2. CASE Continues(r)
        BY <2>2 DEF Continues, Ready, Awaited
    <2> QED
        BY <1>1, <2>1, <2>2
<1> DEFINE s == stack[r]
           c == cursor[r]
           k == items[r]
           m == attempts[r]
           S == achieved[r]
           T == achieved'[r]
           q == pc'[r]
           good == result'[r]
           p == pc[r]
           ok == result[r]
<1>4. Tale(p, s, c, k, S, ok, m) /\ p \notin {"new", "enter"} /\ Type[c] = "skill" /\ c \in Node
    BY <1>1, <1>2 DEF Tells
<1>5. Performs(q, c, S, T, good)
    BY <1>3 DEF Performs
<1> HIDE DEF s, c, k, m, S, T, q, good, p, ok
<1>6. Tale(q, s, c, k, T, good, m)
    BY <1>4, <1>5, SkillTale
<1> QED
    BY <1>1, <1>6 DEF Tells, s, c, k, m, T, q, good

(* Before the first confirmation nothing moves.                            *)
LEMMA RunInitially == Init => RunInv
<1> SUFFICES ASSUME Init PROVE RunInv
    OBVIOUS
<1>1. TaskInv
    BY TaskInitially
<1>2. GoalsOnce
    BY DEF Init, GoalsOnce
<1>3. ASSUME NEW r \in Run PROVE Moves(r) /\ Tells(r)
    <2>1. /\ pc[r] = "new" /\ stack[r] = <<>> /\ won[r] = 0 /\ command[r] = 0
          /\ attempts[r] = 0 /\ items[r] = 0
        BY DEF Init
    <2>2. Moves(r)
        BY <2>1 DEF Moves, Quiet, Ready, Awaited
    <2>3. cursor[r] \in Node /\ items[r] \in Nat
        BY <1>1, RunTypes
    <2>4. Spends(<<>>, cursor[r], items[r], 0)
        BY <2>3, SpendsNothing
    <2>5. OnPath(<<>>, cursor[r]) /\ \A W : Passed(<<>>, W)
        BY DEF OnPath, Passed
    <2>6. attempts[r] <= 0 + 0
        BY <2>1
    <2>7. Tells(r)
        BY <2>1, <2>4, <2>5, <2>6 DEF Tells, Tale
    <2> QED
        BY <2>2, <2>7
<1> QED
    BY <1>1, <1>2, <1>3 DEF RunInv, MovesInv

(* Every step keeps every run at what it tells.                            *)
LEMMA RunStays == RunInv /\ [Next]_vars => RunInv'
<1> SUFFICES ASSUME RunInv, [Next]_vars PROVE RunInv'
    OBVIOUS
<1>0. /\ TaskInv /\ GoalsOnce /\ MovesInv
      /\ \A r \in Run : Moves(r) /\ Tells(r)
    BY DEF RunInv, MovesInv
<1>1. TaskInv'
    BY <1>0, TaskStep
<1>2. ASSUME NEW r \in Run, OnTree(r) PROVE RunInv'
    <2>1. /\ UNCHANGED <<won, command, goals, sent>>
          /\ pc[r] \in Quiet
          /\ \/ pc'[r] \in {"enter", "return", "done"}
             \/ pc'[r] = "compile" /\ cursor'[r] = cursor[r] /\ Type[cursor[r]] = "skill"
          /\ \A q \in Run \ {r} : Own(q)' = Own(q) /\ (Succeeded(q)' <=> Succeeded(q))
        BY <1>0, <1>2, TreeApart
    <2>2. Moves(r)'
        <3>1. won'[r] = 0 /\ command'[r] = 0
            BY <1>0, <2>1 DEF Moves
        <3>2. CASE pc'[r] \in {"enter", "return", "done"}
            BY <3>1, <3>2 DEF Moves, Quiet, Ready, Awaited
        <3>3. CASE pc'[r] = "compile" /\ cursor'[r] = cursor[r] /\ Type[cursor[r]] = "skill"
            BY <3>1, <3>3 DEF Moves, Quiet, Ready, Awaited
        <3> QED
            BY <2>1, <3>2, <3>3
    <2>3. Tells(r)'
        BY <1>0, <1>1, <1>2, EnterTells, ReturnTells, OutsideTells DEF OnTree
    <2>4. \A q \in Run \ {r} : Moves(q)' /\ Tells(q)'
        BY <1>0, <2>1, MovesKept, TellsKept
    <2>5. GoalsOnce'
        BY <1>0, <2>1, GoalsFewer
    <2> QED
        BY <1>1, <2>2, <2>3, <2>4, <2>5 DEF RunInv, MovesInv
<1>3. ASSUME NEW r \in Run, InSkill(r) PROVE RunInv'
    <2>1. /\ Moves(r)' /\ GoalsOnce'
          /\ \A q \in Run \ {r} : Own(q)' = Own(q) /\ (Succeeded(q)' <=> Succeeded(q))
        BY <1>0, <1>3, SkillComes
    <2>2. Tells(r)'
        BY <1>0, <1>3, InSkillTells
    <2>3. \A q \in Run \ {r} : Moves(q)' /\ Tells(q)'
        BY <1>0, <2>1, MovesKept, TellsKept
    <2> QED
        BY <1>1, <2>1, <2>2, <2>3 DEF RunInv, MovesInv
<1>4. ASSUME NEW r \in Run, SendGoal(r) PROVE RunInv'
    <2>1. /\ GoalsOnce' /\ Moves(r)' /\ pc[r] = "send" /\ pc'[r] = "accept"
          /\ UNCHANGED <<cursor, stack, result, items, attempts, achieved>>
          /\ \A q \in Run \ {r} : Moves(q)' /\ pc'[q] = pc[q]
        BY <1>0, <1>4, SendMoves
    <2>2. Tells(r)'
        BY <1>0, <2>1 DEF Tells, Tale
    <2>3. \A q \in Run \ {r} : Tells(q)'
        BY <1>0, <2>1 DEF Tells
    <2> QED
        BY <1>1, <2>1, <2>2, <2>3 DEF RunInv, MovesInv
<1>5. ASSUME UNCHANGED <<pc, cursor, stack, result, items, attempts, achieved>>
      PROVE  \A q \in Run : Tells(q)'
    BY <1>0, <1>5 DEF Tells
<1>6. ASSUME NEW g \in goals, ServerAnswers(g) \/ ServerEnds(g) \/ OperatorStop(g)
      PROVE  RunInv'
    <2>1. UNCHANGED <<pc, cursor, stack, result, items, attempts, achieved>>
        BY <1>6 DEF ServerAnswers, ServerEnds, OperatorStop, control, ghosts
    <2>2. GoalsOnce' /\ \A q \in Run : Moves(q)'
        BY <1>0, <1>6, ServerMoves
    <2> QED
        BY <1>1, <1>5, <2>1, <2>2 DEF RunInv, MovesInv
<1>7. CASE GiveUpWaiting \/ FaultReported \/ UNCHANGED vars
    <2>1. UNCHANGED <<control, goals, sent, ghosts>>
        BY <1>7 DEF GiveUpWaiting, FaultReported, vars, control, ghosts
    <2>2. \A q \in Run : Own(q)' = Own(q) /\ (Succeeded(q)' <=> Succeeded(q))
        BY <2>1 DEF Own, Succeeded, Mine, control, ghosts
    <2>3. \A q \in Run : Moves(q)' /\ Tells(q)'
        BY <1>0, <2>2, MovesKept, TellsKept
    <2>4. GoalsOnce'
        BY <1>0, <2>1, GoalsFewer
    <2> QED
        BY <1>1, <2>3, <2>4 DEF RunInv, MovesInv
<1> QED
    BY <1>2, <1>3, <1>4, <1>6, <1>7 DEF Next, RunStep, OnTree, InSkill

(* What the invariant tells of a run is what the task promises.            *)
LEMMA RunsHere == RunInv => RunsTheTask
<1> SUFFICES ASSUME RunInv PROVE RunsTheTask
    OBVIOUS
<1>1. TaskInv /\ \A r \in Run : Tells(r)
    BY DEF RunInv, MovesInv
<1>2. TypeOK
    BY <1>1, TaskTypes
<1>3. ASSUME NEW r \in Run, pc[r] = "return", result[r] PROVE Achieved(r)[cursor[r]]
    <2>1. cursor[r] \in Earned(achieved[r], items[r])
        BY <1>1, <1>3 DEF Tells, Tale
    <2>2. cursor[r] \in Node
        BY <1>1, RunTypes
    <2> QED
        BY <2>1, <2>2, AchievedIs
<1>4. ASSUME NEW r \in Run PROVE attempts[r] <= Budget(r)[TaskOf(r)]
    <2> DEFINE s == stack[r]
               c == cursor[r]
               k == items[r]
               root == Place(s, c, 1)
    <2>1. s \in Seq(Frame) /\ c \in Node /\ k \in Nat /\ attempts[r] \in Nat
          /\ Price(k)[c] \in Nat
        BY <1>1, RunTypes
    <2>2. PICK v \in Nat :
              /\ Spends(s, c, k, v)
              /\ attempts[r] <= v + (IF pc[r] \in {"new", "enter"} THEN 0 ELSE Price(k)[c])
        BY <1>1 DEF Tells, Tale
    <2>3. v + Price(k)[c] <= Price(k)[root]
        BY <2>1, <2>2, SpendsEnough
    <2>4. root \in Node /\ root = TaskOf(r)
        <3>1. CASE s = <<>>
            <4>1. root = c
                BY <3>1 DEF Place
            <4> QED
                BY <2>1, <3>1, <4>1 DEF TaskOf
        <3>2. CASE s # <<>>
            <4>1. 1 \in DOMAIN s /\ s[1] \in Frame
                BY <2>1, <3>2
            <4>2. root = s[1].node /\ s[1].node \in Node
                BY <4>1 DEF Place, Frame
            <4> QED
                BY <3>2, <4>2 DEF TaskOf
        <3> QED
            BY <3>1, <3>2
    <2>5. Budget(r)[root] = Price(k)[root]
        BY <2>1, <2>4, BudgetIs
    <2>6. Price(k)[root] \in Nat
        BY <2>1, <2>4, PriceIs DEF Prices
    <2> DEFINE p == Price(k)[c]
               b == Price(k)[root]
               m == attempts[r]
    <2>7. m \in Nat /\ p \in Nat /\ b \in Nat /\ v + p <= b /\ (m <= v + 0 \/ m <= v + p)
        BY <2>1, <2>2, <2>3, <2>6
    <2> HIDE DEF p, b, m
    <2>8. m <= b
        BY <2>7
    <2> QED
        BY <2>4, <2>5, <2>8 DEF m, b
<1> QED
    BY <1>2, <1>3, <1>4 DEF RunsTheTask, SuccessIsEarned, WithinBudget

(* A task does what was confirmed, whatever fails, falls back, is retried, *)
(* times out or is stopped: a run that reports success has carried out all *)
(* motions of its latest pass, and none begins more skills than its task   *)
(* contains.                                                               *)
THEOREM TasksRunAsConfirmed == Spec => []RunsTheTask
<1>1. Init => RunInv
    BY RunInitially
<1>2. RunInv /\ [Next]_vars => RunInv'
    BY RunStays
<1>3. RunInv => RunsTheTask
    BY RunsHere
<1> QED
    BY <1>1, <1>2, <1>3, PTL DEF Spec

(* ---- the perception ---- *)

(* What keeps the cached verdict true: a write gives the file a time that  *)
(* no verdict was kept for.                                                *)
CalibrationInv ==
    /\ file \in [mtime : Nat, text : Texts]
    /\ cache \in [mtime : Nat, valid : BOOLEAN]
    /\ cache.mtime <= file.mtime
    /\ CalibrationCurrent

(* A file that is written is newer than the cached verdict, so the         *)
(* invariant holds of it whatever was written.                             *)
LEMMA WriteKeepsCache ==
    ASSUME CalibrationInv, file' \in Writes, cache' = cache
    PROVE  CalibrationInv'
<1>1. file'.mtime = file.mtime + 1 /\ file' \in [mtime : Nat, text : Texts]
    BY DEF CalibrationInv, Writes
<1> QED
    BY <1>1 DEF CalibrationInv, CalibrationCurrent

(* Reading the calibration keeps the invariant, and a verdict of "valid"   *)
(* is that of the file before or after the call.                           *)
LEMMA StatusIsCurrent ==
    ASSUME CalibrationInv, NEW valid \in BOOLEAN, CalibrationStatus(valid)
    PROVE  /\ CalibrationInv'
           /\ valid => Verdict(file.text) \/ Verdict(file'.text)
<1>1. CASE file.text # "absent" /\ cache.mtime = file.mtime
    <2>1. valid = cache.valid /\ file' = file /\ cache' = cache
        BY <1>1 DEF CalibrationStatus
    <2> QED
        BY <1>1, <2>1 DEF CalibrationInv, CalibrationCurrent
<1>2. CASE ~(file.text # "absent" /\ cache.mtime = file.mtime)
    <2>1. /\ file' \in {file} \cup Writes
          /\ valid = Verdict(file'.text)
          /\ cache' = IF file.text = "absent" THEN cache
                      ELSE [mtime |-> file.mtime, valid |-> valid]
        BY <1>2 DEF CalibrationStatus
    <2>2. cache' \in [mtime : Nat, valid : BOOLEAN] /\ cache'.mtime <= file.mtime
        BY <2>1 DEF CalibrationInv
    <2>3. CASE file' = file
        BY <1>2, <2>1, <2>2, <2>3 DEF CalibrationInv, CalibrationCurrent
    <2>4. CASE file' \in Writes
        <3>1. file'.mtime = file.mtime + 1 /\ file' \in [mtime : Nat, text : Texts]
            BY <2>4 DEF CalibrationInv, Writes
        <3> QED
            BY <2>1, <2>2, <3>1 DEF CalibrationInv, CalibrationCurrent
    <2> QED
        BY <2>1, <2>3, <2>4
<1> QED
    BY <1>1, <1>2

(* No verdict is kept at first.                                            *)
LEMMA CalibrationInitially == PerceptionInit => CalibrationInv
<1> SUFFICES ASSUME PerceptionInit PROVE CalibrationInv
    OBVIOUS
<1>1. file \in [mtime : Nat, text : Texts] /\ file.mtime = 1
    BY DEF PerceptionInit
<1>2. cache \in [mtime : Nat, valid : BOOLEAN] /\ cache.mtime = 0
    BY DEF PerceptionInit, NoCache
<1> QED
    BY <1>1, <1>2 DEF CalibrationInv, CalibrationCurrent

(* Every step keeps the verdict true to the file.                          *)
LEMMA CalibrationPreserved ==
    CalibrationInv /\ [PerceptionNext]_perception => CalibrationInv'
<1> SUFFICES ASSUME CalibrationInv, [PerceptionNext]_perception
             PROVE  CalibrationInv'
    OBVIOUS
<1>1. CASE UNCHANGED calibration
    BY <1>1 DEF calibration, CalibrationInv, CalibrationCurrent
<1>2. CASE \E valid \in BOOLEAN : CalibrationStatus(valid)
    BY <1>2, StatusIsCurrent
<1>3. CASE WriteCalibration
    BY <1>3, WriteKeepsCache DEF WriteCalibration
<1>4. CASE OnCloud \/ OnRgbDetections \/ Tick \/ UNCHANGED perception
    BY <1>1, <1>4 DEF OnCloud, OnRgbDetections, Tick, perception
<1>5. CASE ProcessLatestCloud \/ PublishDetections \/ HandleGetObjectPositions
    BY <1>2, <1>5 DEF ProcessLatestCloud, PublishDetections, HandleGetObjectPositions
<1> QED
    BY <1>3, <1>4, <1>5 DEF PerceptionNext

(* check_calibration_status: the verdict that is kept for the calibration  *)
(* file is that of the file, also when the file is written while it is     *)
(* read.                                                                   *)
THEOREM CalibrationStaysCurrent == PerceptionSpec => []CalibrationCurrent
<1>1. CalibrationInv => CalibrationCurrent
    BY DEF CalibrationInv
<1> QED
    BY CalibrationInitially, CalibrationPreserved, <1>1, PTL DEF PerceptionSpec

(* handle_get_object_positions: an answer to the planner stands on a valid *)
(* calibration, on depth that was in range, and on detections of the       *)
(* latest array that had not expired.                                      *)
THEOREM AnswersStayGrounded == PerceptionSpec => AnswersAreGrounded
<1> DEFINE Grounded ==
        answer' # answer /\ answer'.ok =>
          /\ Verdict(file.text) \/ Verdict(file'.text)
          /\ \A k \in DOMAIN samples : samples[k]
          /\ answer'.detections # {} => rgbAge < TTL
          /\ answer'.detections \subseteq rgb
<1>1. CalibrationInv /\ [PerceptionNext]_perception => [Grounded]_perception
    <2> SUFFICES ASSUME CalibrationInv, PerceptionNext, answer' # answer, answer'.ok
                 PROVE  Grounded
        BY DEF perception
    <2>1. HandleGetObjectPositions
        BY DEF PerceptionNext, OnCloud, ProcessLatestCloud, PublishDetections,
               OnRgbDetections, Tick, WriteCalibration, grounding
    <2>2. PICK valid \in BOOLEAN :
              /\ CalibrationStatus(valid)
              /\ IF valid /\ DepthInRange
                 THEN answer' = [ok |-> TRUE, detections |->
                         {d \in Fresh : d.inside /\ d.depth # "DEGRADED_DEPTH"}]
                 ELSE answer' = NoAnswer
        BY <2>1 DEF HandleGetObjectPositions
    <2>3. valid /\ DepthInRange
        BY <2>2 DEF NoAnswer
    <2>4. Verdict(file.text) \/ Verdict(file'.text)
        BY <2>2, <2>3, StatusIsCurrent
    <2>5. answer'.detections \subseteq Fresh
        BY <2>2, <2>3
    <2> QED
        BY <2>3, <2>4, <2>5 DEF DepthInRange, Fresh
<1> QED
    BY CalibrationInitially, CalibrationPreserved, <1>1, PTL
       DEF PerceptionSpec, AnswersAreGrounded

(* ---- the objects in the planning scene ---- *)

(* A scene that is cleared has no object left to remember.                 *)
LEMMA ClearAccounted ==
    ASSUME ObjectsAccounted, RemovePublished
    PROVE  ObjectsAccounted'
    BY DEF ObjectsAccounted, RemovePublished

(* A cloud leaves the node with the objects it put into the scene.         *)
LEMMA DetectAccounted ==
    ASSUME ObjectsAccounted, NEW clusters, DetectObjects(clusters)
    PROVE  ObjectsAccounted'
<1> DEFINE stable == Reported(tracks')
<1>1. /\ world' = [i \in DOMAIN world \cup DOMAIN stable |->
                      IF i \in DOMAIN stable THEN stable[i] ELSE world[i]]
      /\ ids' = ids \cup DOMAIN stable
    BY DEF DetectObjects
<1> HIDE DEF stable
<1> QED
    BY <1>1 DEF ObjectsAccounted

(* _process_latest_cloud, _publish_detections: the ids that the node       *)
(* remembers and would remove are those of the objects in the scene,       *)
(* whatever happens to the calibration and to the transform.               *)
THEOREM ObjectsStayAccounted == PerceptionSpec => []ObjectsAccounted
<1>1. PerceptionInit => ObjectsAccounted
    BY DEF PerceptionInit, ObjectsAccounted
<1>2. ObjectsAccounted /\ [PerceptionNext]_perception => ObjectsAccounted'
    <2> SUFFICES ASSUME ObjectsAccounted, [PerceptionNext]_perception
                 PROVE  ObjectsAccounted'
        OBVIOUS
    <2>1. CASE UNCHANGED <<world, ids>>
        BY <2>1 DEF ObjectsAccounted
    <2>2. CASE OnCloud \/ OnRgbDetections \/ HandleGetObjectPositions \/ Tick
               \/ WriteCalibration \/ UNCHANGED perception
        BY <2>1, <2>2 DEF OnCloud, OnRgbDetections, HandleGetObjectPositions, Tick,
                          WriteCalibration, perception, scene
    <2>3. ASSUME NEW clusters, NEW transform, ProcessCloud(clusters, transform)
          PROVE  ObjectsAccounted'
        <3>1. \/ ClearScene \/ DetectObjects(clusters) \/ UNCHANGED <<world, ids>>
            BY <2>3 DEF ProcessCloud
        <3> QED
            BY <3>1, <2>1, ClearAccounted, DetectAccounted DEF ClearScene
    <2>4. CASE ProcessLatestCloud
        <3>1. \/ ClearScene \/ UNCHANGED scene
              \/ \E clusters \in Clouds, transform \in BOOLEAN :
                     ProcessCloud(clusters, transform)
            BY <2>4 DEF ProcessLatestCloud
        <3> QED
            BY <3>1, <2>1, <2>3, ClearAccounted DEF ClearScene, scene
    <2>5. CASE PublishDetections
        <3>1. \/ ClearScene \/ RemoveStale \/ UNCHANGED <<world, ids>>
            BY <2>5 DEF PublishDetections
        <3>2. CASE RemoveStale
            BY <3>2 DEF RemoveStale, ObjectsAccounted
        <3> QED
            BY <3>1, <3>2, <2>1, ClearAccounted DEF ClearScene
    <2> QED
        BY <2>2, <2>4, <2>5 DEF PerceptionNext
<1> QED
    BY <1>1, <1>2, PTL DEF PerceptionSpec

-----------------------------------------------------------------------------
(* ---- the tracker ---- *)

(* r is the run of the recursion in Select.                                *)
SelectsBy(r, s, S, good) ==
    /\ r \in [0 .. Len(s) -> Seq(S)]
    /\ r[0] = <<>>
    /\ \A k \in 1 .. Len(s) :
          r[k] = (IF s[k] \in good THEN Append(r[k - 1], s[k]) ELSE r[k - 1])
    /\ Select(s, good) = r[Len(s)]

(* Select has such a run, over any sequence.                               *)
LEMMA SelectRuns ==
    ASSUME NEW S, NEW s \in Seq(S), NEW good
    PROVE  \E r : SelectsBy(r, s, S, good)
<1> DEFINE n == Len(s)
           A == Seq(S)
           G == [p \in (1 .. n) \X A |-> IF s[p[1]] \in good THEN Append(p[2], s[p[1]]) ELSE p[2]]
           Rec(f) == f = [k \in 0 .. n |->
                          IF k = 0 THEN <<>>
                          ELSE IF s[k] \in good THEN Append(f[k - 1], s[k]) ELSE f[k - 1]]
<1>1. n \in Nat /\ <<>> \in A
    OBVIOUS
<1>2. G \in [(1 .. n) \X A -> A]
    OBVIOUS
<1>3. \E f : Recurs(f, n, A, <<>>, G)
    <2> HIDE DEF G, n, A
    <2> QED
        BY <1>1, <1>2, Recursion
<1>4. PICK f \in [0 .. n -> A] : f = [k \in 0 .. n |-> IF k = 0 THEN <<>> ELSE G[<<k, f[k - 1]>>]]
    <2> HIDE DEF G, n, A
    <2> QED
        BY <1>3 DEF Recurs
<1>5. ASSUME NEW k \in 1 .. n
      PROVE  G[<<k, f[k - 1]>>] = IF s[k] \in good THEN Append(f[k - 1], s[k]) ELSE f[k - 1]
    <2>1. k - 1 \in 0 .. n /\ f[k - 1] \in A
        OBVIOUS
    <2> QED
        BY <2>1
<1>6. Rec(f)
    <2>1. [k \in 0 .. n |-> IF k = 0 THEN <<>> ELSE G[<<k, f[k - 1]>>]] =
          [k \in 0 .. n |-> IF k = 0 THEN <<>>
                            ELSE IF s[k] \in good THEN Append(f[k - 1], s[k]) ELSE f[k - 1]]
        <3>1. \A k \in 0 .. n : k # 0 => k \in 1 .. n
            OBVIOUS
        <3> HIDE DEF G, n, A
        <3> QED
            BY <1>5, <3>1
    <2> QED
        BY <1>4, <2>1
<1> DEFINE r == CHOOSE x : Rec(x)
<1>7. Rec(r)
    <2> HIDE DEF Rec
    <2> QED
        BY <1>6
<1>8. Select(s, good) = r[n]
    BY DEF Select
<1>9. /\ r[0] = <<>>
      /\ \A k \in 1 .. n : r[k] = (IF s[k] \in good THEN Append(r[k - 1], s[k]) ELSE r[k - 1])
    <2> HIDE DEF r, n
    <2>1. 0 \in 0 .. n
        BY <1>1
    <2>2. r[0] = <<>>
        BY <1>7, <2>1
    <2>3. ASSUME NEW k \in 1 .. n
          PROVE  r[k] = (IF s[k] \in good THEN Append(r[k - 1], s[k]) ELSE r[k - 1])
        <3>1. k \in 0 .. n /\ k # 0
            BY <1>1
        <3> QED
            BY <1>7, <3>1
    <2> QED
        BY <2>2, <2>3
<1>10. r \in [0 .. n -> A]
    <2> DEFINE Good == {k \in Nat : k <= n => r[k] \in A}
    <2>1. 0 \in Good
        BY <1>1, <1>9
    <2>2. ASSUME NEW k \in Nat, k \in Good PROVE k + 1 \in Good
        <3> HIDE DEF r
        <3> SUFFICES ASSUME k + 1 <= n PROVE r[k + 1] \in A
            OBVIOUS
        <3>1. k + 1 \in 1 .. n /\ (k + 1) - 1 = k /\ r[k] \in A /\ s[k + 1] \in S
            BY <2>2
        <3>2. r[k + 1] = (IF s[k + 1] \in good THEN Append(r[k], s[k + 1]) ELSE r[k])
            BY <1>9, <3>1
        <3> QED
            BY <3>1, <3>2
    <2>3. Nat \subseteq Good
        <3> HIDE DEF Good
        <3> QED
            BY <2>1, <2>2, Induction
    <2>4. \A k \in 0 .. n : r[k] \in A
        <3> HIDE DEF r
        <3> QED
            BY <2>3
    <2>5. \E y : r = [k \in 0 .. n |-> y[k]]
        <3> DEFINE F == [j \in 0 .. n |->
                            IF j = 0 THEN <<>>
                            ELSE IF s[j] \in good THEN Append(r[j - 1], s[j]) ELSE r[j - 1]]
        <3>1. r = F
            <4> HIDE DEF r
            <4> QED
                BY <1>7
        <3>2. F = [k \in 0 .. n |-> F[k]]
            <4> HIDE DEF r
            <4> QED
                OBVIOUS
        <3> HIDE DEF r, F
        <3>3. r = [k \in 0 .. n |-> F[k]]
            BY <3>1, <3>2
        <3> QED
            BY <3>3
    <2> HIDE DEF r
    <2> QED
        BY <2>4, <2>5
<1> HIDE DEF r
<1> QED
    BY <1>8, <1>9, <1>10 DEF SelectsBy

(* out is what the first m elements of s leave in good: f gives the place  *)
(* each element of out came from, in order, and no good element is left    *)
(* out.                                                                    *)
Picks(out, s, m, good, f) ==
    /\ f \in [1 .. Len(out) -> 1 .. m]
    /\ \A k \in 1 .. Len(out) : out[k] = s[f[k]] /\ s[f[k]] \in good
    /\ \A k, l \in 1 .. Len(out) : k < l => f[k] < f[l]
    /\ \A i \in 1 .. m : s[i] \in good => \E k \in 1 .. Len(out) : f[k] = i

(* One element more of the sequence is left out or picked.                 *)
LEMMA OneMore ==
    ASSUME NEW S, NEW s \in Seq(S), NEW good, NEW m \in Nat, m + 1 <= Len(s),
           NEW out \in Seq(S), \E f : Picks(out, s, m, good, f)
    PROVE  /\ s[m + 1] \notin good => \E f : Picks(out, s, m + 1, good, f)
           /\ s[m + 1] \in good => \E f : Picks(Append(out, s[m + 1]), s, m + 1, good, f)
<1>1. PICK f : Picks(out, s, m, good, f)
    OBVIOUS
<1>2. /\ f \in [1 .. Len(out) -> 1 .. m]
      /\ \A k \in 1 .. Len(out) : out[k] = s[f[k]] /\ s[f[k]] \in good
      /\ \A k, l \in 1 .. Len(out) : k < l => f[k] < f[l]
      /\ \A i \in 1 .. m : s[i] \in good => \E k \in 1 .. Len(out) : f[k] = i
    BY <1>1 DEF Picks
<1>3. CASE s[m + 1] \notin good
    <2>1. f \in [1 .. Len(out) -> 1 .. m + 1]
        BY <1>2
    <2>2. ASSUME NEW i \in 1 .. m + 1, s[i] \in good
          PROVE  \E k \in 1 .. Len(out) : f[k] = i
        <3>1. i \in 1 .. m
            BY <1>3, <2>2
        <3> QED
            BY <1>2, <2>2, <3>1
    <2> QED
        BY <1>2, <1>3, <2>1, <2>2 DEF Picks
<1>4. CASE s[m + 1] \in good
    <2> DEFINE e == s[m + 1]
               new == Append(out, e)
               g == [k \in 1 .. Len(out) + 1 |-> IF k = Len(out) + 1 THEN m + 1 ELSE f[k]]
    <2>1. /\ Len(out) \in Nat /\ Len(new) = Len(out) + 1 /\ new[Len(out) + 1] = e
          /\ \A k \in 1 .. Len(out) : new[k] = out[k]
        OBVIOUS
    <2>2. \A k \in 1 .. Len(out) : f[k] \in 1 .. m
        BY <1>2
    <2>3. /\ g \in [1 .. Len(out) + 1 -> 1 .. m + 1]
          /\ g[Len(out) + 1] = m + 1
          /\ \A k \in 1 .. Len(out) : g[k] = f[k]
        <3> HIDE DEF new, e
        <3>1. ASSUME NEW k \in 1 .. Len(out) + 1
              PROVE  (IF k = Len(out) + 1 THEN m + 1 ELSE f[k]) \in 1 .. m + 1
            <4>1. CASE k = Len(out) + 1
                BY <4>1
            <4>2. CASE k # Len(out) + 1
                <5>1. k \in 1 .. Len(out)
                    BY <2>1, <4>2
                <5>2. f[k] \in 1 .. m
                    BY <2>2, <5>1
                <5> QED
                    BY <4>2, <5>2
            <4> QED
                BY <4>1, <4>2
        <3>2. g \in [1 .. Len(out) + 1 -> 1 .. m + 1]
            BY <3>1
        <3>3. /\ Len(out) + 1 \in 1 .. Len(out) + 1
              /\ \A k \in 1 .. Len(out) : k \in 1 .. Len(out) + 1 /\ k # Len(out) + 1
            BY <2>1
        <3> QED
            BY <3>2, <3>3
    <2> HIDE DEF new, g, e
    <2>4. ASSUME NEW k \in 1 .. Len(new) PROVE new[k] = s[g[k]] /\ s[g[k]] \in good
        <3>1. CASE k = Len(out) + 1
            BY <1>4, <2>1, <2>3, <3>1 DEF e
        <3>2. CASE k # Len(out) + 1
            <4>1. k \in 1 .. Len(out)
                BY <2>1, <3>2
            <4> QED
                BY <1>2, <2>1, <2>3, <4>1
        <3> QED
            BY <3>1, <3>2
    <2>5. ASSUME NEW k \in 1 .. Len(new), NEW l \in 1 .. Len(new), k < l
          PROVE  g[k] < g[l]
        <3>1. k \in 1 .. Len(out) /\ g[k] = f[k] /\ f[k] \in 1 .. m
            BY <2>1, <2>2, <2>3, <2>5
        <3>2. CASE l = Len(out) + 1
            BY <2>3, <3>1, <3>2
        <3>3. CASE l # Len(out) + 1
            <4>1. l \in 1 .. Len(out) /\ g[l] = f[l]
                BY <2>1, <2>3, <3>3
            <4> QED
                BY <1>2, <2>5, <3>1, <4>1
        <3> QED
            BY <3>2, <3>3
    <2>6. ASSUME NEW i \in 1 .. m + 1, s[i] \in good
          PROVE  \E k \in 1 .. Len(new) : g[k] = i
        <3>1. CASE i = m + 1
            <4>1. Len(out) + 1 \in 1 .. Len(new)
                BY <2>1
            <4> QED
                BY <2>3, <3>1, <4>1
        <3>2. CASE i # m + 1
            <4>1. i \in 1 .. m
                BY <3>2
            <4>2. PICK k \in 1 .. Len(out) : f[k] = i
                BY <1>2, <2>6, <4>1
            <4>3. k \in 1 .. Len(new)
                BY <2>1
            <4> QED
                BY <2>3, <4>2, <4>3
        <3> QED
            BY <3>1, <3>2
    <2>7. Picks(new, s, m + 1, good, g)
        <3>1. g \in [1 .. Len(new) -> 1 .. m + 1]
            BY <2>1, <2>3
        <3> QED
            BY <2>4, <2>5, <2>6, <3>1 DEF Picks
    <2> QED
        BY <1>4, <2>7 DEF new, e
<1> QED
    BY <1>3, <1>4

(* What Select does, for a sequence of any length: it keeps the elements   *)
(* in good, all of them and in their order.                                *)
LEMMA SelectIs ==
    ASSUME NEW S, NEW s \in Seq(S), NEW good
    PROVE  /\ Select(s, good) \in Seq(S)
           /\ \E f : Picks(Select(s, good), s, Len(s), good, f)
<1>1. PICK r : SelectsBy(r, s, S, good)
    BY SelectRuns
<1> DEFINE Good == {m \in Nat : m <= Len(s) => \E f : Picks(r[m], s, m, good, f)}
<1>2. 0 \in Good
    <2>1. r[0] = <<>> /\ Len(r[0]) = 0
        BY <1>1 DEF SelectsBy
    <2> DEFINE f == [k \in 1 .. 0 |-> 0]
    <2>2. Picks(r[0], s, 0, good, f)
        BY <2>1 DEF Picks
    <2> HIDE DEF f
    <2> QED
        BY <2>2
<1>3. ASSUME NEW m \in Nat, m \in Good PROVE m + 1 \in Good
    <2> SUFFICES ASSUME m + 1 <= Len(s) PROVE \E f : Picks(r[m + 1], s, m + 1, good, f)
        OBVIOUS
    <2>1. (\E f : Picks(r[m], s, m, good, f)) /\ r[m] \in Seq(S)
        BY <1>1, <1>3 DEF SelectsBy
    <2>2. r[m + 1] = (IF s[m + 1] \in good THEN Append(r[m], s[m + 1]) ELSE r[m])
        <3>1. m + 1 \in 1 .. Len(s) /\ (m + 1) - 1 = m
            OBVIOUS
        <3> QED
            BY <1>1, <3>1 DEF SelectsBy
    <2>3. /\ s[m + 1] \notin good => \E f : Picks(r[m], s, m + 1, good, f)
          /\ s[m + 1] \in good => \E f : Picks(Append(r[m], s[m + 1]), s, m + 1, good, f)
        BY <2>1, OneMore
    <2> QED
        BY <2>2, <2>3
<1>4. Len(s) \in Good
    <2> HIDE DEF Good
    <2>1. Len(s) \in Nat
        OBVIOUS
    <2> QED
        BY <1>2, <1>3, <2>1, Induction
<1>5. r[Len(s)] \in Seq(S)
    BY <1>1 DEF SelectsBy
<1> QED
    BY <1>1, <1>4, <1>5 DEF SelectsBy

(* A set of naturals that is not empty has a least element.                *)
LEMMA Least ==
    ASSUME NEW S \in SUBSET Nat, S # {}
    PROVE  \E n \in S : \A m \in S : n <= m
<1> SUFFICES ASSUME \A n \in S : \E m \in S : m < n PROVE FALSE
    OBVIOUS
<1> DEFINE Good == {n \in Nat : \A k \in 0 .. n : k \notin S}
<1>1. 0 \in Good
    OBVIOUS
<1>2. ASSUME NEW n \in Nat, n \in Good PROVE n + 1 \in Good
    <2>1. n + 1 \notin S
        <3> SUFFICES ASSUME n + 1 \in S PROVE FALSE
            OBVIOUS
        <3>1. PICK m \in S : m < n + 1
            OBVIOUS
        <3>2. m \in 0 .. n
            BY <3>1
        <3> QED
            BY <1>2, <3>2
    <2>2. \A k \in 0 .. n + 1 : k = n + 1 \/ k \in 0 .. n
        OBVIOUS
    <2> QED
        BY <1>2, <2>1, <2>2
<1>3. Nat \subseteq Good
    <2> HIDE DEF Good
    <2> QED
        BY <1>1, <1>2, Induction
<1>4. PICK n : n \in S
    OBVIOUS
<1>5. n \in 0 .. n /\ n \in Good
    <2>1. n \in Nat
        BY <1>4
    <2> HIDE DEF Good
    <2> QED
        BY <1>3, <2>1
<1> QED
    BY <1>4, <1>5

(* What the tracker is given, and what it keeps.                           *)
Item == [class : STRING, at : Int]
TrackT == [class : STRING, at : Int, hits : Seq(BOOLEAN), missed : Nat, confirmed : BOOLEAN]

(* The distance of two places is a natural, the same both ways, and zero   *)
(* only for one place.                                                     *)
LEMMA DistanceIs ==
    ASSUME NEW p \in Int, NEW q \in Int
    PROVE  /\ Distance(p, q) \in Nat /\ Distance(p, q) = Distance(q, p)
           /\ Distance(p, q) = 0 <=> p = q
    BY DEF Distance

(* BestMatch finds a candidate when there is one: the nearest, and the     *)
(* newest of the nearest.                                                  *)
LEMMA BestIs ==
    ASSUME NEW ts \in Seq(TrackT), NEW taken, NEW d \in Item, Candidates(ts, taken, d) # {}
    PROVE  /\ BestMatch(ts, taken, d) \in Candidates(ts, taken, d)
           /\ \A j \in Candidates(ts, taken, d) :
                 \/ Distance(ts[BestMatch(ts, taken, d)].at, d.at) < Distance(ts[j].at, d.at)
                 \/ Distance(ts[BestMatch(ts, taken, d)].at, d.at) = Distance(ts[j].at, d.at)
                    /\ j <= BestMatch(ts, taken, d)
<1> DEFINE C == Candidates(ts, taken, d)
           far(i) == Distance(ts[i].at, d.at)
           Best(i) == \A j \in C : far(i) < far(j) \/ (far(i) = far(j) /\ j <= i)
<1>1. C \subseteq 1 .. Len(ts) /\ Len(ts) \in Nat
    BY DEF Candidates
<1>2. \A i \in C : far(i) \in Nat
    <2> SUFFICES ASSUME NEW i \in C PROVE far(i) \in Nat
        OBVIOUS
    <2>1. ts[i] \in TrackT
        BY <1>1
    <2>2. ts[i].at \in Int /\ d.at \in Int
        BY <2>1 DEF TrackT, Item
    <2> QED
        BY <2>2, DistanceIs
<1> HIDE DEF C, far
<1>3. PICK x \in C : \A j \in C : far(x) <= far(j)
    <2> DEFINE D == {far(j) : j \in C}
    <2>1. D \in SUBSET Nat /\ D # {}
        BY <1>2 DEF C
    <2>2. \E n \in D : \A m \in D : n <= m
        <3> HIDE DEF D
        <3> QED
            BY <2>1, Least
    <2> QED
        BY <2>2
<1>4. PICK i \in C : far(i) = far(x) /\ \A j \in C : far(j) = far(x) => j <= i
    <2> DEFINE L == {Len(ts) - j : j \in {l \in C : far(l) = far(x)}}
    <2>1. L \in SUBSET Nat /\ L # {}
        <3>1. Len(ts) - x \in L
            OBVIOUS
        <3> QED
            BY <1>1, <3>1
    <2>2. \E n \in L : \A m \in L : n <= m
        <3> HIDE DEF L
        <3> QED
            BY <2>1, Least
    <2>3. PICK i \in C : far(i) = far(x) /\ \A m \in L : Len(ts) - i <= m
        BY <2>2
    <2>4. ASSUME NEW j \in C, far(j) = far(x) PROVE j <= i
        <3>1. Len(ts) - j \in L
            BY <2>4
        <3>2. Len(ts) - i <= Len(ts) - j
            BY <2>3, <3>1
        <3> QED
            BY <1>1, <3>2
    <2> QED
        BY <2>3, <2>4
<1>5. Best(i)
    <2> SUFFICES ASSUME NEW j \in C PROVE far(i) < far(j) \/ (far(i) = far(j) /\ j <= i)
        OBVIOUS
    <2>1. far(i) \in Nat /\ far(j) \in Nat /\ far(i) <= far(j)
        BY <1>2, <1>3, <1>4
    <2>2. far(j) = far(i) => j <= i
        BY <1>4
    <2> QED
        BY <2>1, <2>2
<1>6. BestMatch(ts, taken, d) = CHOOSE b \in C : Best(b)
    BY DEF BestMatch, C, far
<1> HIDE DEF Best
<1>7. BestMatch(ts, taken, d) \in C /\ Best(BestMatch(ts, taken, d))
    BY <1>5, <1>6
<1> QED
    BY <1>7 DEF Best, C, far

(* t is a candidate for d.                                                 *)
Suits(t, d) == t.class = d.class /\ Distance(t.at, d.at) <= Jitter

(* t, at i, is the track that d took: ts[i] with a hit more, or a new one. *)
TakenBy(t, i, d, ts) ==
    /\ t \in TrackT /\ t.class = d.class /\ t.at = d.at /\ t.missed = 0
    /\ i <= Len(ts) => /\ Suits(ts[i], d)
                       /\ t.hits = Append(ts[i].hits, TRUE)
                       /\ t.confirmed = ts[i].confirmed
    /\ i > Len(ts) => t.hits = <<TRUE>> /\ t.confirmed = FALSE

(* Of the tracks i and j, d goes to j.                                     *)
Nearest(i, j, d, ts) ==
    /\ j <= Len(ts)
    /\ \/ Distance(ts[j].at, d.at) < Distance(ts[i].at, d.at)
       \/ Distance(ts[j].at, d.at) = Distance(ts[i].at, d.at) /\ i <= j

(* What the matching of the first k detections comes to, m: own[j] is the  *)
(* track of the j-th, and no track that is left over suits a detection     *)
(* better than the one it took.                                            *)
Matched(m, ts, ds, k, own) ==
    /\ m \in [tracks : Seq(TrackT), taken : SUBSET Nat]
    /\ Len(ts) <= Len(m.tracks)
    /\ own \in [1 .. k -> 1 .. Len(m.tracks)]
    /\ m.taken = {own[j] : j \in 1 .. k}
    /\ \A i \in 1 .. Len(m.tracks) : i \notin m.taken => i <= Len(ts) /\ m.tracks[i] = ts[i]
    /\ \A j \in 1 .. k : TakenBy(m.tracks[own[j]], own[j], ds[j], ts)
    /\ \A j \in 1 .. k, i \in 1 .. Len(ts) :
          i \notin m.taken /\ Suits(ts[i], ds[j]) => Nearest(i, own[j], ds[j], ts)

(* A hit moves a track and clears its misses.                              *)
LEMMA HitIs ==
    ASSUME NEW t \in TrackT, NEW d \in Item
    PROVE  /\ Hit(t, d) \in TrackT /\ Hit(t, d).class = t.class /\ Hit(t, d).at = d.at
           /\ Hit(t, d).missed = 0 /\ Hit(t, d).hits = Append(t.hits, TRUE)
           /\ Hit(t, d).confirmed = t.confirmed
<1>1. t.hits \in Seq(BOOLEAN) /\ d.at \in Int
    BY DEF TrackT, Item
<1>2. Append(t.hits, TRUE) \in Seq(BOOLEAN)
    BY <1>1
<1> DEFINE h == Append(t.hits, TRUE)
<1>3. Hit(t, d) = [t EXCEPT !.at = d.at, !.missed = 0, !.hits = h]
    BY DEF Hit
<1> HIDE DEF h
<1>4. h \in Seq(BOOLEAN)
    BY <1>2 DEF h
<1>5. [t EXCEPT !.at = d.at, !.missed = 0, !.hits = h] \in TrackT
    BY <1>1, <1>4 DEF TrackT
<1>6. /\ Hit(t, d).class = t.class /\ Hit(t, d).at = d.at
      /\ Hit(t, d).missed = 0 /\ Hit(t, d).hits = h
      /\ Hit(t, d).confirmed = t.confirmed
    BY <1>3 DEF TrackT
<1> QED
    BY <1>3, <1>5, <1>6 DEF h

(* A new track has one hit.                                                *)
LEMMA NewTrackIs ==
    ASSUME NEW d \in Item
    PROVE  NewTrack(d) \in TrackT /\ NewTrack(d).class = d.class /\ NewTrack(d).hits = <<>>
           /\ NewTrack(d).confirmed = FALSE
<1>1. <<>> \in Seq(BOOLEAN)
    OBVIOUS
<1> DEFINE none == <<>>
<1> HIDE DEF none
<1>2. [class |-> d.class, at |-> d.at, hits |-> none, missed |-> 0, confirmed |-> FALSE] \in TrackT
    BY <1>1 DEF TrackT, Item, none
<1> QED
    BY <1>2 DEF NewTrack, none

(* Matching one detection keeps the types.                                 *)
LEMMA AssignTypes ==
    ASSUME NEW m \in [tracks : Seq(TrackT), taken : SUBSET Nat], NEW d \in Item
    PROVE  Assign(m, d) \in [tracks : Seq(TrackT), taken : SUBSET Nat]
<1>1. m.tracks \in Seq(TrackT) /\ m.taken \in SUBSET Nat /\ Len(m.tracks) \in Nat
    OBVIOUS
<1>2. CASE Candidates(m.tracks, m.taken, d) = {}
    <2>1. Hit(NewTrack(d), d) \in TrackT
        BY HitIs, NewTrackIs
    <2>2. Append(m.tracks, Hit(NewTrack(d), d)) \in Seq(TrackT)
        BY <1>1, <2>1
    <2>3. m.taken \cup {Len(m.tracks) + 1} \in SUBSET Nat
        BY <1>1
    <2> QED
        BY <1>2, <2>2, <2>3 DEF Assign
<1>3. CASE Candidates(m.tracks, m.taken, d) # {}
    <2> DEFINE i == BestMatch(m.tracks, m.taken, d)
    <2>1. i \in 1 .. Len(m.tracks)
        <3>1. i \in Candidates(m.tracks, m.taken, d)
            BY <1>1, <1>3, BestIs
        <3>2. Candidates(m.tracks, m.taken, d) \subseteq 1 .. Len(m.tracks)
            BY <1>1 DEF Candidates
        <3> QED
            BY <3>1, <3>2
    <2>2. Assign(m, d) = [tracks |-> [m.tracks EXCEPT ![i] = Hit(m.tracks[i], d)], taken |-> m.taken \cup {i}]
        BY <1>3 DEF Assign
    <2> HIDE DEF i
    <2>3. Hit(m.tracks[i], d) \in TrackT
        <3>1. m.tracks[i] \in TrackT
            BY <1>1, <2>1
        <3> QED
            BY <3>1, HitIs
    <2>4. [m.tracks EXCEPT ![i] = Hit(m.tracks[i], d)] \in Seq(TrackT)
        BY <1>1, <2>1, <2>3
    <2>5. m.taken \cup {i} \in SUBSET Nat
        BY <1>1, <2>1
    <2> QED
        BY <2>2, <2>4, <2>5
<1> QED
    BY <1>2, <1>3

(* Matching one detection more keeps Matched: a candidate that is passed   *)
(* over stays worse than the one taken.                                    *)
LEMMA AssignStep ==
    ASSUME NEW ts \in Seq(TrackT), NEW ds \in Seq(Item), NEW k \in Nat, k + 1 <= Len(ds),
           NEW m, NEW own, Matched(m, ts, ds, k, own)
    PROVE  \E new : Matched(Assign(m, ds[k + 1]), ts, ds, k + 1, new)
<1> DEFINE d == ds[k + 1]
<1>1. /\ m \in [tracks : Seq(TrackT), taken : SUBSET Nat]
      /\ Len(ts) <= Len(m.tracks)
      /\ own \in [1 .. k -> 1 .. Len(m.tracks)]
      /\ m.taken = {own[j] : j \in 1 .. k}
      /\ \A i \in 1 .. Len(m.tracks) : i \notin m.taken => i <= Len(ts) /\ m.tracks[i] = ts[i]
      /\ \A j \in 1 .. k : TakenBy(m.tracks[own[j]], own[j], ds[j], ts)
      /\ \A j \in 1 .. k, i \in 1 .. Len(ts) :
            i \notin m.taken /\ Suits(ts[i], ds[j]) => Nearest(i, own[j], ds[j], ts)
    BY DEF Matched
<1>2. /\ m.tracks \in Seq(TrackT) /\ Len(m.tracks) \in Nat /\ Len(ts) \in Nat
      /\ d \in Item
    BY <1>1
<1>3. Assign(m, d) \in [tracks : Seq(TrackT), taken : SUBSET Nat]
    BY <1>1, <1>2, AssignTypes
<1>4. ASSUME NEW x \in Nat, NEW out,
             Assign(m, d) = [tracks |-> out, taken |-> m.taken \cup {x}],
             Len(m.tracks) <= Len(out), x \in 1 .. Len(out),
             \A i \in 1 .. Len(out) : i # x => i <= Len(m.tracks) /\ out[i] = m.tracks[i],
             x \notin m.taken, TakenBy(out[x], x, d, ts),
             \A i \in 1 .. Len(ts) : i \notin m.taken /\ i # x /\ Suits(ts[i], d) => Nearest(i, x, d, ts)
      PROVE  \E new : Matched(Assign(m, d), ts, ds, k + 1, new)
    <2> DEFINE a == Assign(m, d)
               new == [j \in 1 .. k + 1 |-> IF j = k + 1 THEN x ELSE own[j]]
    <2>1. a.tracks = out /\ a.taken = m.taken \cup {x} /\ Len(out) \in Nat
        BY <1>3, <1>4
    <2>2. /\ new[k + 1] = x
          /\ \A j \in 1 .. k : /\ new[j] = own[j] /\ own[j] \in m.taken
                               /\ own[j] \in 1 .. Len(m.tracks) /\ own[j] # x
        <3>1. \A j \in 1 .. k : j \in 1 .. k + 1 /\ j # k + 1
            OBVIOUS
        <3>2. k + 1 \in 1 .. k + 1
            OBVIOUS
        <3> QED
            BY <1>1, <1>4, <3>1, <3>2
    <2>3. new \in [1 .. k + 1 -> 1 .. Len(out)]
        <3>1. ASSUME NEW j \in 1 .. k + 1
              PROVE  (IF j = k + 1 THEN x ELSE own[j]) \in 1 .. Len(out)
            <4>1. CASE j = k + 1
                BY <1>4, <4>1
            <4>2. CASE j # k + 1
                <5>1. j \in 1 .. k
                    BY <4>2
                <5>2. own[j] \in 1 .. Len(m.tracks)
                    BY <2>2, <5>1
                <5> QED
                    BY <1>2, <1>4, <2>1, <4>2, <5>2
            <4> QED
                BY <4>1, <4>2
        <3> QED
            BY <3>1
    <2>4. m.taken \cup {x} = {new[j] : j \in 1 .. k + 1}
        <3> HIDE DEF new
        <3>1. ASSUME NEW i \in m.taken \cup {x}
              PROVE  \E j \in 1 .. k + 1 : new[j] = i
            <4>1. CASE i = x
                <5>1. k + 1 \in 1 .. k + 1
                    OBVIOUS
                <5> QED
                    BY <2>2, <4>1, <5>1
            <4>2. CASE i \in m.taken
                <5>1. PICK j \in 1 .. k : own[j] = i
                    BY <1>1, <4>2
                <5>2. j \in 1 .. k + 1
                    OBVIOUS
                <5> QED
                    BY <2>2, <5>1, <5>2
            <4> QED
                BY <4>1, <4>2
        <3>2. ASSUME NEW j \in 1 .. k + 1 PROVE new[j] \in m.taken \cup {x}
            <4>1. CASE j = k + 1
                BY <2>2, <4>1
            <4>2. CASE j # k + 1
                <5>1. j \in 1 .. k
                    BY <4>2
                <5> QED
                    BY <2>2, <5>1
            <4> QED
                BY <4>1, <4>2
        <3> QED
            BY <3>1, <3>2
    <2> HIDE DEF new, a
    <2>5. ASSUME NEW i \in 1 .. Len(out), i \notin m.taken \cup {x}
          PROVE  i <= Len(ts) /\ out[i] = ts[i]
        <3>1. i \in 1 .. Len(m.tracks) /\ out[i] = m.tracks[i]
            BY <1>4, <2>5, <1>2
        <3> QED
            BY <1>1, <2>5, <3>1
    <2>6. ASSUME NEW j \in 1 .. k + 1 PROVE TakenBy(out[new[j]], new[j], ds[j], ts)
        <3>1. CASE j = k + 1
            BY <1>4, <2>2, <3>1 DEF d
        <3>2. CASE j # k + 1
            <4>1. j \in 1 .. k
                BY <3>2
            <4>2. new[j] = own[j] /\ own[j] \in 1 .. Len(out) /\ own[j] # x
                BY <1>2, <1>4, <2>1, <2>2, <4>1
            <4>3. out[own[j]] = m.tracks[own[j]]
                BY <1>4, <4>2
            <4> QED
                BY <1>1, <4>1, <4>2, <4>3
        <3> QED
            BY <3>1, <3>2
    <2>7. ASSUME NEW j \in 1 .. k + 1, NEW i \in 1 .. Len(ts), i \notin m.taken \cup {x}, Suits(ts[i], ds[j])
          PROVE  Nearest(i, new[j], ds[j], ts)
        <3>1. CASE j = k + 1
            BY <1>4, <2>2, <2>7, <3>1 DEF d
        <3>2. CASE j # k + 1
            <4>1. j \in 1 .. k
                BY <3>2
            <4> QED
                BY <1>1, <2>2, <2>7, <4>1
        <3> QED
            BY <3>1, <3>2
    <2>8. Len(ts) <= Len(out)
        BY <1>1, <1>2, <1>4, <2>1
    <2>9. a \in [tracks : Seq(TrackT), taken : SUBSET Nat]
        BY <1>3 DEF a
    <2>10. Matched(a, ts, ds, k + 1, new)
        BY <2>1, <2>3, <2>4, <2>5, <2>6, <2>7, <2>8, <2>9 DEF Matched
    <2> QED
        BY <2>10 DEF a
<1>5. CASE Candidates(m.tracks, m.taken, d) = {}
    <2> DEFINE x == Len(m.tracks) + 1
               t == Hit(NewTrack(d), d)
               out == Append(m.tracks, t)
    <2>1. Assign(m, d) = [tracks |-> out, taken |-> m.taken \cup {x}]
        BY <1>5 DEF Assign
    <2>2. /\ t \in TrackT /\ t.class = d.class /\ t.at = d.at /\ t.missed = 0
          /\ t.hits = <<TRUE>> /\ t.confirmed = FALSE
        <3> HIDE DEF d
        <3>1. /\ t.hits = Append(NewTrack(d).hits, TRUE) /\ NewTrack(d).hits = <<>>
            BY <1>2, HitIs, NewTrackIs
        <3>2. Append(<<>>, TRUE) = <<TRUE>>
            OBVIOUS
        <3> QED
            BY <1>2, <3>1, <3>2, HitIs, NewTrackIs
    <2> HIDE DEF t, d
    <2>3. /\ Len(out) = Len(m.tracks) + 1 /\ out[x] = t /\ x \in 1 .. Len(out)
          /\ x \in Nat
          /\ \A i \in 1 .. Len(out) : i # x => i <= Len(m.tracks) /\ out[i] = m.tracks[i]
        BY <1>2, <2>2
    <2>4. x \notin m.taken
        BY <1>1, <1>2
    <2>5. TakenBy(out[x], x, d, ts)
        <3>1. ~(x <= Len(ts)) /\ out[x] = t
            BY <1>1, <1>2, <2>3
        <3> HIDE DEF out, x
        <3>2. TakenBy(t, x, d, ts)
            BY <2>2, <3>1 DEF TakenBy
        <3> QED
            BY <3>1, <3>2
    <2>6. ASSUME NEW i \in 1 .. Len(ts), i \notin m.taken, Suits(ts[i], d)
          PROVE  FALSE
        <3>1. i \in 1 .. Len(m.tracks) /\ m.tracks[i] = ts[i]
            BY <1>1, <1>2, <2>6
        <3>2. i \in Candidates(m.tracks, m.taken, d)
            BY <2>6, <3>1, <1>2 DEF Candidates, Suits
        <3> QED
            BY <1>5, <3>2
    <2> HIDE DEF out, x
    <2>7. Len(m.tracks) <= Len(out)
        BY <1>2, <2>3
    <2> QED
        BY <1>4, <2>1, <2>3, <2>4, <2>5, <2>6, <2>7 DEF d
<1>6. CASE Candidates(m.tracks, m.taken, d) # {}
    <2> DEFINE x == BestMatch(m.tracks, m.taken, d)
               t == Hit(m.tracks[x], d)
               out == [m.tracks EXCEPT ![x] = t]
    <2>1. Assign(m, d) = [tracks |-> out, taken |-> m.taken \cup {x}]
        BY <1>6 DEF Assign
    <2> HIDE DEF d
    <2>2. /\ x \in Candidates(m.tracks, m.taken, d)
          /\ \A j \in Candidates(m.tracks, m.taken, d) :
                \/ Distance(m.tracks[x].at, d.at) < Distance(m.tracks[j].at, d.at)
                \/ Distance(m.tracks[x].at, d.at) = Distance(m.tracks[j].at, d.at) /\ j <= x
        BY <1>2, <1>6, BestIs
    <2> HIDE DEF x
    <2>3. x \in 1 .. Len(m.tracks) /\ x \notin m.taken /\ Suits(m.tracks[x], d)
        BY <1>2, <2>2 DEF Candidates, Suits
    <2>4. /\ x <= Len(ts) /\ m.tracks[x] = ts[x] /\ ts[x] \in TrackT
          /\ x \in 1 .. Len(ts)
        BY <1>1, <1>2, <2>3
    <2>5. /\ t \in TrackT /\ t.class = ts[x].class /\ t.at = d.at /\ t.missed = 0
          /\ t.hits = Append(ts[x].hits, TRUE) /\ t.confirmed = ts[x].confirmed
        <3>1. t = Hit(ts[x], d) /\ ts[x] \in TrackT /\ d \in Item
            BY <1>2, <2>4
        <3> HIDE DEF t, x
        <3> QED
            BY <3>1, HitIs
    <2> HIDE DEF t
    <2>6. /\ Len(out) = Len(m.tracks) /\ out[x] = t
          /\ \A i \in 1 .. Len(out) : i # x => i <= Len(m.tracks) /\ out[i] = m.tracks[i]
        BY <1>2, <2>3, <2>5
    <2> HIDE DEF out
    <2>7. TakenBy(out[x], x, d, ts)
        <3>1. ~(x > Len(ts))
            BY <1>2, <2>4
        <3>2. Suits(ts[x], d) /\ t.class = d.class
            BY <2>3, <2>4, <2>5 DEF Suits
        <3>3. TakenBy(t, x, d, ts)
            BY <2>5, <3>1, <3>2 DEF TakenBy
        <3> QED
            BY <2>6, <3>3
    <2>8. ASSUME NEW i \in 1 .. Len(ts), i \notin m.taken, Suits(ts[i], d)
          PROVE  Nearest(i, x, d, ts)
        <3>1. i \in 1 .. Len(m.tracks) /\ m.tracks[i] = ts[i]
            BY <1>1, <1>2, <2>8
        <3>2. i \in Candidates(m.tracks, m.taken, d)
            BY <2>8, <3>1, <1>2 DEF Candidates, Suits
        <3> QED
            BY <2>2, <2>4, <3>1, <3>2 DEF Nearest
    <2>9. x \in Nat /\ x \in 1 .. Len(out) /\ Len(m.tracks) <= Len(out)
        BY <1>2, <2>3, <2>6
    <2> QED
        BY <1>4, <2>1, <2>3, <2>6, <2>7, <2>8, <2>9 DEF d
<1> QED
    BY <1>5, <1>6 DEF d

(* r is the run of the recursion in Assigned.                              *)
AssignsBy(r, ts, ds) ==
    /\ r[0] = [tracks |-> ts, taken |-> {}]
    /\ \A k \in 1 .. Len(ds) : r[k] = Assign(r[k - 1], ds[k])
    /\ Assigned(ts, ds) = r[Len(ds)]

(* Assigned has such a run, over any detections.                           *)
LEMMA AssignRuns ==
    ASSUME NEW ts \in Seq(TrackT), NEW ds \in Seq(Item)
    PROVE  \E r : AssignsBy(r, ts, ds)
<1> DEFINE n == Len(ds)
           A == [tracks : Seq(TrackT), taken : SUBSET Nat]
           base == [tracks |-> ts, taken |-> {}]
           G == [p \in (1 .. n) \X A |-> Assign(p[2], ds[p[1]])]
           Rec(f) == f = [k \in 0 .. n |-> IF k = 0 THEN base ELSE Assign(f[k - 1], ds[k])]
<1>1. n \in Nat /\ base \in A
    OBVIOUS
<1>2. G \in [(1 .. n) \X A -> A]
    <2> HIDE DEF A
    <2>1. ASSUME NEW p \in (1 .. n) \X A PROVE Assign(p[2], ds[p[1]]) \in A
        <3>1. p[2] \in A /\ ds[p[1]] \in Item
            OBVIOUS
        <3> QED
            BY <3>1, AssignTypes DEF A
    <2> QED
        BY <2>1
<1>3. \E f : Recurs(f, n, A, base, G)
    <2> HIDE DEF G, n, A, base
    <2> QED
        BY <1>1, <1>2, Recursion
<1>4. PICK f \in [0 .. n -> A] : f = [k \in 0 .. n |-> IF k = 0 THEN base ELSE G[<<k, f[k - 1]>>]]
    <2> HIDE DEF G, n, A, base
    <2> QED
        BY <1>3 DEF Recurs
<1>5. ASSUME NEW k \in 1 .. n PROVE G[<<k, f[k - 1]>>] = Assign(f[k - 1], ds[k])
    <2> HIDE DEF A
    <2>1. k - 1 \in 0 .. n /\ f[k - 1] \in A
        OBVIOUS
    <2> QED
        BY <2>1
<1>6. Rec(f)
    <2>1. [k \in 0 .. n |-> IF k = 0 THEN base ELSE G[<<k, f[k - 1]>>]] =
          [k \in 0 .. n |-> IF k = 0 THEN base ELSE Assign(f[k - 1], ds[k])]
        <3>1. \A k \in 0 .. n : k # 0 => k \in 1 .. n
            OBVIOUS
        <3> HIDE DEF G, n, A, base
        <3> QED
            BY <1>5, <3>1
    <2> HIDE DEF G, n, A, base
    <2> QED
        BY <1>4, <2>1
<1> DEFINE r == CHOOSE x : Rec(x)
<1>7. Rec(r)
    <2> HIDE DEF Rec
    <2> QED
        BY <1>6
<1>8. Assigned(ts, ds) = r[n]
    BY DEF Assigned
<1>9. r[0] = base /\ \A k \in 1 .. n : r[k] = Assign(r[k - 1], ds[k])
    <2> HIDE DEF r, n, base
    <2>1. 0 \in 0 .. n
        BY <1>1
    <2>2. r[0] = base
        BY <1>7, <2>1
    <2>3. ASSUME NEW k \in 1 .. n PROVE r[k] = Assign(r[k - 1], ds[k])
        <3>1. k \in 0 .. n /\ k # 0
            BY <1>1
        <3> QED
            BY <1>7, <3>1
    <2> QED
        BY <2>2, <2>3
<1> HIDE DEF r
<1> QED
    BY <1>8, <1>9 DEF AssignsBy

(* What a whole frame is matched to, for any number of detections.         *)
LEMMA AssignedIs ==
    ASSUME NEW ts \in Seq(TrackT), NEW ds \in Seq(Item)
    PROVE  \E own : Matched(Assigned(ts, ds), ts, ds, Len(ds), own)
<1>1. PICK r : AssignsBy(r, ts, ds)
    BY AssignRuns
<1> DEFINE Good == {k \in Nat : k <= Len(ds) => \E own : Matched(r[k], ts, ds, k, own)}
<1>2. 0 \in Good
    <2> DEFINE own == [j \in 1 .. 0 |-> 0]
    <2>1. r[0] = [tracks |-> ts, taken |-> {}]
        BY <1>1 DEF AssignsBy
    <2>2. /\ r[0] \in [tracks : Seq(TrackT), taken : SUBSET Nat] /\ r[0].tracks = ts
          /\ r[0].taken = {}
        BY <2>1
    <2>3. own \in [1 .. 0 -> 1 .. Len(ts)] /\ {own[j] : j \in 1 .. 0} = {}
        OBVIOUS
    <2>4. Len(ts) \in Nat
        OBVIOUS
    <2> HIDE DEF own
    <2>5. Matched(r[0], ts, ds, 0, own)
        BY <2>2, <2>3, <2>4 DEF Matched
    <2> QED
        BY <2>5
<1>3. ASSUME NEW k \in Nat, k \in Good PROVE k + 1 \in Good
    <2> SUFFICES ASSUME k + 1 <= Len(ds) PROVE \E own : Matched(r[k + 1], ts, ds, k + 1, own)
        OBVIOUS
    <2>1. PICK own : Matched(r[k], ts, ds, k, own)
        BY <1>3
    <2>2. r[k + 1] = Assign(r[k], ds[k + 1])
        <3>1. k + 1 \in 1 .. Len(ds) /\ (k + 1) - 1 = k
            OBVIOUS
        <3> QED
            BY <1>1, <3>1 DEF AssignsBy
    <2>3. \E new : Matched(Assign(r[k], ds[k + 1]), ts, ds, k + 1, new)
        BY <2>1, AssignStep
    <2> QED
        BY <2>2, <2>3
<1>4. Len(ds) \in Good
    <2> HIDE DEF Good
    <2>1. Len(ds) \in Nat
        OBVIOUS
    <2> QED
        BY <1>2, <1>3, <2>1, Induction
<1> QED
    BY <1>1, <1>4 DEF AssignsBy

(* The newest n elements of a sequence, with their places in it.           *)
LEMMA NewestIs ==
    ASSUME NEW S, NEW s \in Seq(S), NEW n \in Nat
    PROVE  /\ Newest(s, n) \in Seq(S)
           /\ Len(Newest(s, n)) = (IF Len(s) <= n THEN Len(s) ELSE n)
           /\ \A k \in 1 .. Len(Newest(s, n)) :
                 /\ Len(s) - Len(Newest(s, n)) + k \in 1 .. Len(s)
                 /\ Newest(s, n)[k] = s[Len(s) - Len(Newest(s, n)) + k]
<1>1. Len(s) \in Nat
    OBVIOUS
<1>2. CASE Len(s) <= n
    <2>1. Newest(s, n) = s
        BY <1>2 DEF Newest
    <2> QED
        BY <1>1, <1>2, <2>1
<1>3. CASE ~(Len(s) <= n)
    <2> DEFINE a == Len(s) - n + 1
    <2>1. Newest(s, n) = SubSeq(s, a, Len(s))
        BY <1>3 DEF Newest
    <2>2. a \in 1 .. Len(s) + 1 /\ a \in Nat
        BY <1>1, <1>3
    <2>3. \A k \in a .. Len(s) : s[k] \in S
        <3>1. \A k \in a .. Len(s) : k \in 1 .. Len(s)
            BY <1>1, <2>2
        <3> QED
            BY <3>1
    <2> HIDE DEF a
    <2>4. /\ SubSeq(s, a, Len(s)) \in Seq(S)
          /\ Len(SubSeq(s, a, Len(s))) = Len(s) - a + 1
          /\ \A k \in 1 .. Len(s) - a + 1 : SubSeq(s, a, Len(s))[k] = s[a + k - 1]
        BY <1>1, <2>2, <2>3
    <2>5. Len(s) - a + 1 = n
        BY <1>1 DEF a
    <2>6. ASSUME NEW k \in 1 .. n
          PROVE  Len(s) - n + k = a + k - 1 /\ Len(s) - n + k \in 1 .. Len(s)
        BY <1>1, <1>3 DEF a
    <2> QED
        BY <1>3, <2>1, <2>4, <2>5, <2>6
<1> QED
    BY <1>2, <1>3

(* A track keeps between one and Window votes, and its latest misses are   *)
(* among them.                                                             *)
Sound(t) ==
    /\ t \in TrackT
    /\ Len(t.hits) \in 1 .. Window
    /\ \A k \in 1 .. Len(t.hits) : k > Len(t.hits) - t.missed => ~t.hits[k]

(* A miss leaves a track where it is.                                      *)
LEMMA MissIs ==
    ASSUME NEW t \in TrackT
    PROVE  /\ Miss(t) \in TrackT /\ Miss(t).class = t.class /\ Miss(t).at = t.at
           /\ Miss(t).missed = t.missed + 1 /\ Miss(t).hits = Append(t.hits, FALSE)
           /\ Miss(t).confirmed = t.confirmed
<1>1. t.hits \in Seq(BOOLEAN) /\ t.missed \in Nat
    BY DEF TrackT
<1> DEFINE h == Append(t.hits, FALSE)
           n == t.missed + 1
<1>2. h \in Seq(BOOLEAN) /\ n \in Nat
    BY <1>1
<1>3. Miss(t) = [t EXCEPT !.missed = n, !.hits = h]
    BY DEF Miss
<1> HIDE DEF h, n
<1>4. [t EXCEPT !.missed = n, !.hits = h] \in TrackT
    BY <1>2 DEF TrackT
<1>5. /\ Miss(t).class = t.class /\ Miss(t).at = t.at
      /\ Miss(t).missed = n /\ Miss(t).hits = h /\ Miss(t).confirmed = t.confirmed
    BY <1>3 DEF TrackT
<1> QED
    BY <1>3, <1>4, <1>5 DEF h, n

(* The vote trims the hits, and confirms a track that has enough.          *)
LEMMA VotedIs ==
    ASSUME NEW t \in TrackT
    PROVE  /\ Voted(t) \in TrackT /\ Voted(t).class = t.class /\ Voted(t).at = t.at
           /\ Voted(t).missed = t.missed /\ Voted(t).hits = Newest(t.hits, Window)
           /\ Voted(t).confirmed <=> (t.confirmed \/ Hits(Voted(t)) >= MinHits)
<1>1. t.hits \in Seq(BOOLEAN) /\ t.confirmed \in BOOLEAN /\ Window \in Nat
    BY PerceptionAssumption DEF TrackT
<1> DEFINE h == Newest(t.hits, Window)
           u == [t EXCEPT !.hits = h]
           c == t.confirmed \/ Hits(u) >= MinHits
<1>2. h \in Seq(BOOLEAN)
    BY <1>1, NewestIs
<1>3. Voted(t) = [u EXCEPT !.confirmed = u.confirmed \/ Hits(u) >= MinHits]
    BY DEF Voted
<1> HIDE DEF h
<1>4. /\ u \in TrackT /\ u.hits = h /\ u.class = t.class /\ u.at = t.at
      /\ u.missed = t.missed /\ u.confirmed = t.confirmed
    BY <1>2 DEF TrackT
<1> HIDE DEF u
<1>5. Voted(t) = [u EXCEPT !.confirmed = c] /\ c \in BOOLEAN
    BY <1>3, <1>4
<1> HIDE DEF c
<1>6. [u EXCEPT !.confirmed = c] \in TrackT
    BY <1>4, <1>5 DEF TrackT
<1>7. /\ Voted(t).hits = h /\ Voted(t).class = t.class /\ Voted(t).at = t.at
      /\ Voted(t).missed = t.missed
      /\ Voted(t).confirmed = c
    BY <1>4, <1>5 DEF TrackT
<1>8. Hits(Voted(t)) = Hits(u)
    BY <1>4, <1>7, Zenon DEF Hits
<1>9. c <=> (t.confirmed \/ Hits(Voted(t)) >= MinHits)
    BY <1>8 DEF c
<1> QED
    BY <1>5, <1>6, <1>7, <1>9 DEF h

(* A track that was hit is sound after the vote.                           *)
LEMMA HitIsSound ==
    ASSUME NEW t \in TrackT, Len(t.hits) >= 1, t.missed = 0
    PROVE  Sound(Voted(t))
<1>1. t.hits \in Seq(BOOLEAN) /\ Window \in Nat /\ Window >= 1
    BY PerceptionAssumption DEF TrackT
<1>2. Len(Newest(t.hits, Window)) \in 1 .. Window
    <2>1. Len(Newest(t.hits, Window)) = (IF Len(t.hits) <= Window THEN Len(t.hits) ELSE Window)
        BY <1>1, NewestIs
    <2> QED
        BY <1>1, <2>1
<1>3. /\ Voted(t) \in TrackT /\ Voted(t).missed = 0
      /\ Voted(t).hits = Newest(t.hits, Window)
    BY VotedIs
<1> QED
    BY <1>2, <1>3 DEF Sound

(* A track that was missed stays sound.                                    *)
LEMMA MissIsSound ==
    ASSUME NEW t, Sound(t)
    PROVE  Sound(Voted(Miss(t)))
<1>1. /\ t \in TrackT /\ t.hits \in Seq(BOOLEAN) /\ t.missed \in Nat
      /\ Window \in Nat /\ Window >= 1
    BY PerceptionAssumption DEF TrackT, Sound
<1> DEFINE h == t.hits
           a == Append(h, FALSE)
           n == Newest(a, Window)
           v == Voted(Miss(t))
<1>2. /\ v \in TrackT /\ v.missed = t.missed + 1 /\ v.hits = n
    <2>1. /\ Miss(t) \in TrackT /\ Miss(t).missed = t.missed + 1 /\ Miss(t).hits = a
        BY <1>1, MissIs
    <2> QED
        BY <2>1, VotedIs
<1>3. a \in Seq(BOOLEAN) /\ Len(a) = Len(h) + 1 /\ ~a[Len(h) + 1] /\ Len(h) \in Nat
      /\ \A k \in 1 .. Len(h) : a[k] = h[k]
    <2> DEFINE no == FALSE
    <2>1. h \in Seq(BOOLEAN) /\ no \in BOOLEAN /\ ~no
        BY <1>1
    <2> HIDE DEF no, h
    <2>2. /\ Append(h, no) \in Seq(BOOLEAN) /\ Len(Append(h, no)) = Len(h) + 1
          /\ Append(h, no)[Len(h) + 1] = no /\ Len(h) \in Nat
          /\ \A k \in 1 .. Len(h) : Append(h, no)[k] = h[k]
        BY <2>1
    <2>3. a = Append(h, no)
        BY DEF no
    <2>4. ~Append(h, no)[Len(h) + 1]
        BY <2>1, <2>2
    <2> HIDE DEF a
    <2> QED
        BY <2>2, <2>3, <2>4
<1>4. \A k \in 1 .. Len(h) : k > Len(h) - t.missed => ~h[k]
    BY DEF Sound
<1> HIDE DEF h, a
<1>5. /\ Len(n) = (IF Len(a) <= Window THEN Len(a) ELSE Window)
      /\ \A k \in 1 .. Len(n) : /\ Len(a) - Len(n) + k \in 1 .. Len(a)
                                /\ n[k] = a[Len(a) - Len(n) + k]
    <2>1. a \in Seq(BOOLEAN) /\ Window \in Nat
        BY <1>1, <1>3
    <2> QED
        BY <2>1, NewestIs
<1> HIDE DEF n, v
<1>6. Len(n) \in 1 .. Window
    BY <1>1, <1>3, <1>5
<1>7. ASSUME NEW k \in 1 .. Len(n), k > Len(n) - (t.missed + 1) PROVE ~n[k]
    <2> DEFINE q == Len(a) - Len(n) + k
    <2>1. n[k] = a[q] /\ q \in 1 .. Len(a) /\ q > Len(a) - (t.missed + 1)
        <3>1. n[k] = a[q] /\ q \in 1 .. Len(a)
            BY <1>5
        <3>2. Len(a) \in Nat /\ Len(n) \in Nat /\ t.missed \in Nat /\ k \in Nat
            BY <1>1, <1>3, <1>6
        <3>3. q > Len(a) - (t.missed + 1)
            BY <1>7, <3>2
        <3> QED
            BY <3>1, <3>3
    <2> HIDE DEF q
    <2>2. CASE q = Len(h) + 1
        BY <1>3, <2>1, <2>2
    <2>3. CASE q # Len(h) + 1
        <3>1. q \in 1 .. Len(h) /\ q > Len(h) - t.missed
            BY <1>1, <1>3, <2>1, <2>3
        <3>2. a[q] = h[q] /\ ~h[q]
            BY <1>3, <1>4, <3>1
        <3> QED
            BY <2>1, <3>2
    <2> QED
        BY <2>2, <2>3
<1>8. \A k \in 1 .. Len(v.hits) : k > Len(v.hits) - v.missed => ~v.hits[k]
    BY <1>2, <1>7
<1>9. Sound(v)
    BY <1>2, <1>6, <1>8 DEF Sound
<1> QED
    BY <1>9 DEF v

(* The updates that are remembered, and one more of them.                  *)
History(us) == us \in Seq(Seq(Item)) /\ Len(us) <= Kept
With(us, u) == Newest(Append(us, u), Kept)

(* Enough updates are remembered for both properties of the tracker.       *)
LEMMA KeptIs == Kept \in Nat /\ Kept > MissTolerance /\ Kept >= MinHits /\ Kept >= 1
    BY PerceptionAssumption DEF Kept

(* The update q before the last is, after one more, q + 1 before the last. *)
LEMMA HistoryGrows ==
    ASSUME NEW us, History(us), NEW u \in Seq(Item)
    PROVE  /\ History(With(us, u))
           /\ Len(With(us, u)) = (IF Len(us) < Kept THEN Len(us) + 1 ELSE Kept)
           /\ With(us, u)[Len(With(us, u))] = u
           /\ \A q \in 0 .. Len(With(us, u)) - 2 :
                 /\ Len(us) - q \in 1 .. Len(us)
                 /\ With(us, u)[Len(With(us, u)) - (q + 1)] = us[Len(us) - q]
<1> DEFINE T == Seq(Item)
           a == Append(us, u)
           n == Newest(a, Kept)
<1>1. us \in Seq(T) /\ Len(us) \in Nat /\ Len(us) <= Kept /\ u \in T
    BY DEF History
<1> HIDE DEF T
<1>2. /\ a \in Seq(T) /\ Len(a) = Len(us) + 1 /\ a[Len(us) + 1] = u
      /\ \A k \in 1 .. Len(us) : a[k] = us[k]
    BY <1>1
<1> HIDE DEF a
<1>3. /\ n \in Seq(T) /\ Len(n) = (IF Len(a) <= Kept THEN Len(a) ELSE Kept)
      /\ \A k \in 1 .. Len(n) : Len(a) - Len(n) + k \in 1 .. Len(a) /\ n[k] = a[Len(a) - Len(n) + k]
    <2>1. a \in Seq(T) /\ Kept \in Nat
        BY <1>2, KeptIs
    <2> QED
        BY <2>1, NewestIs
<1> HIDE DEF n
<1>4. /\ Len(n) = (IF Len(us) < Kept THEN Len(us) + 1 ELSE Kept) /\ Len(n) <= Kept
      /\ Len(n) >= 1 /\ Len(n) \in Nat
    BY <1>1, <1>2, <1>3, KeptIs
<1>5. n[Len(n)] = u
    <2>1. Len(n) \in 1 .. Len(n) /\ Len(a) - Len(n) + Len(n) = Len(us) + 1
        BY <1>1, <1>2, <1>4
    <2>2. n[Len(n)] = a[Len(a) - Len(n) + Len(n)]
        BY <1>3, <2>1
    <2> QED
        BY <1>2, <2>1, <2>2
<1>6. ASSUME NEW q \in 0 .. Len(n) - 2
      PROVE  Len(us) - q \in 1 .. Len(us) /\ n[Len(n) - (q + 1)] = us[Len(us) - q]
    <2> DEFINE k == Len(n) - (q + 1)
    <2>1. k \in 1 .. Len(n) /\ Len(a) - Len(n) + k = Len(us) - q
        BY <1>1, <1>2, <1>4
    <2>2. Len(us) - q \in 1 .. Len(us)
        BY <1>1, <1>4
    <2> HIDE DEF k
    <2>3. n[k] = a[Len(us) - q]
        BY <1>3, <2>1
    <2> QED
        BY <1>2, <2>2, <2>3 DEF k
<1>7. With(us, u) = n
    BY DEF With, n, a
<1>8. History(n)
    BY <1>3, <1>4 DEF History, T
<1> QED
    BY <1>4, <1>5, <1>6, <1>7, <1>8

(* A track stands where an update saw it: the one before its misses.       *)
Seen(t, us) ==
    t.missed < Kept =>
        /\ Len(us) - t.missed \in 1 .. Len(us)
        /\ \E n \in 1 .. Len(us[Len(us) - t.missed]) :
              us[Len(us) - t.missed][n] = [class |-> t.class, at |-> t.at]

(* The tracks after the vote, each made from the track at its place.       *)
LEMMA CountedIs ==
    ASSUME NEW m \in [tracks : Seq(TrackT), taken : SUBSET Nat]
    PROVE  /\ Counted(m) \in Seq(TrackT) /\ Len(Counted(m)) = Len(m.tracks)
           /\ \A i \in 1 .. Len(m.tracks) :
                 Counted(m)[i] = Voted(IF i \in m.taken THEN m.tracks[i] ELSE Miss(m.tracks[i]))
<1>1. /\ m.tracks \in Seq(TrackT) /\ Len(m.tracks) \in Nat
      /\ DOMAIN m.tracks = 1 .. Len(m.tracks)
    OBVIOUS
<1> DEFINE v(i) == Voted(IF i \in m.taken THEN m.tracks[i] ELSE Miss(m.tracks[i]))
<1>2. ASSUME NEW i \in 1 .. Len(m.tracks) PROVE v(i) \in TrackT
    <2>1. m.tracks[i] \in TrackT
        BY <1>1
    <2>2. (IF i \in m.taken THEN m.tracks[i] ELSE Miss(m.tracks[i])) \in TrackT
        BY <2>1, MissIs
    <2> QED
        BY <2>2, VotedIs
<1>3. Counted(m) = [i \in 1 .. Len(m.tracks) |-> v(i)]
    BY <1>1 DEF Counted
<1> HIDE DEF v
<1>4. /\ [i \in 1 .. Len(m.tracks) |-> v(i)] \in Seq(TrackT)
      /\ Len([i \in 1 .. Len(m.tracks) |-> v(i)]) = Len(m.tracks)
    BY <1>1, <1>2
<1>5. \A i \in 1 .. Len(m.tracks) : Counted(m)[i] = v(i)
    BY <1>3
<1> QED
    BY <1>3, <1>4, <1>5 DEF v

(* An item is its class and its place.                                     *)
LEMMA ShownIs ==
    ASSUME NEW d \in Item, NEW t, t.class = d.class, t.at = d.at
    PROVE  d = [class |-> t.class, at |-> t.at]
    BY DEF Item

(* Every track of a frame is sound, and seen where it stands, when those   *)
(* before it were.                                                         *)
LEMMA CountedIsTrue ==
    ASSUME NEW ts \in Seq(TrackT), NEW us, History(us), NEW ds \in Seq(Item),
           \A i \in 1 .. Len(ts) : Sound(ts[i]) /\ Seen(ts[i], us),
           NEW m, NEW own, Matched(m, ts, ds, Len(ds), own),
           NEW i \in 1 .. Len(m.tracks)
    PROVE  Sound(Counted(m)[i]) /\ Seen(Counted(m)[i], With(us, ds))
<1>1. /\ m \in [tracks : Seq(TrackT), taken : SUBSET Nat]
      /\ own \in [1 .. Len(ds) -> 1 .. Len(m.tracks)]
      /\ m.taken = {own[j] : j \in 1 .. Len(ds)}
      /\ i \notin m.taken => i <= Len(ts) /\ m.tracks[i] = ts[i]
      /\ \A j \in 1 .. Len(ds) : TakenBy(m.tracks[own[j]], own[j], ds[j], ts)
    BY DEF Matched
<1> DEFINE new == With(us, ds)
           t == m.tracks[i]
<1>2. /\ History(new) /\ new[Len(new)] = ds /\ Len(us) \in Nat /\ Len(new) \in Nat
      /\ Len(new) = (IF Len(us) < Kept THEN Len(us) + 1 ELSE Kept)
      /\ \A q \in 0 .. Len(new) - 2 : Len(us) - q \in 1 .. Len(us) /\ new[Len(new) - (q + 1)] = us[Len(us) - q]
    <2>1. Len(us) \in Nat
        BY DEF History
    <2>2. History(new)
        BY HistoryGrows
    <2>3. new[Len(new)] = ds
        BY HistoryGrows
    <2>4. Len(new) = (IF Len(us) < Kept THEN Len(us) + 1 ELSE Kept)
        BY HistoryGrows
    <2>5. \A q \in 0 .. Len(new) - 2 :
             Len(us) - q \in 1 .. Len(us) /\ new[Len(new) - (q + 1)] = us[Len(us) - q]
        BY HistoryGrows
    <2> HIDE DEF new
    <2>6. Len(new) \in Nat
        BY <2>1, <2>4, KeptIs
    <2> QED
        BY <2>1, <2>2, <2>3, <2>4, <2>5, <2>6
<1> HIDE DEF new
<1>3. Len(new) >= 1
    BY <1>2, KeptIs
<1>4. CASE i \in m.taken
    <2>1. PICK j \in 1 .. Len(ds) : own[j] = i
        BY <1>1, <1>4
    <2>2. TakenBy(t, i, ds[j], ts)
        BY <1>1, <2>1
    <2>3. t \in TrackT /\ t.missed = 0 /\ t.class = ds[j].class /\ t.at = ds[j].at
        BY <2>2 DEF TakenBy
    <2>4. Len(t.hits) >= 1
        <3> HIDE DEF t
        <3>1. CASE i <= Len(ts)
            <4>1. t.hits = Append(ts[i].hits, TRUE)
                BY <2>2, <3>1 DEF TakenBy
            <4>3. i \in 1 .. Len(ts)
                BY <3>1
            <4>4. ts[i] \in TrackT
                BY <4>3
            <4>2. ts[i].hits \in Seq(BOOLEAN)
                BY <4>4 DEF TrackT
            <4> QED
                BY <4>1, <4>2
        <3>2. CASE i > Len(ts)
            <4>1. t.hits = <<TRUE>>
                BY <2>2, <3>2 DEF TakenBy
            <4> QED
                BY <4>1
        <3>3. i \in Nat /\ Len(ts) \in Nat
            BY <1>1
        <3> QED
            BY <3>1, <3>2, <3>3
    <2>5. Counted(m)[i] = Voted(t)
        BY <1>1, <1>4, CountedIs
    <2> HIDE DEF t
    <2>6. /\ Sound(Voted(t)) /\ Voted(t).missed = 0 /\ Voted(t).class = ds[j].class
          /\ Voted(t).at = ds[j].at
        BY <2>3, <2>4, HitIsSound, VotedIs
    <2>7. Seen(Voted(t), new)
        <3>1. ds[j] = [class |-> Voted(t).class, at |-> Voted(t).at]
            <4>1. ds[j] \in Item
                OBVIOUS
            <4> QED
                BY <2>6, <4>1, ShownIs
        <3>2. Len(new) - Voted(t).missed = Len(new)
            BY <1>2, <2>6
        <3>3. Len(new) \in 1 .. Len(new)
            BY <1>2, <1>3
        <3> QED
            BY <1>2, <3>1, <3>2, <3>3 DEF Seen
    <2> QED
        BY <2>5, <2>6, <2>7 DEF new
<1>5. CASE i \notin m.taken
    <2>1. t = ts[i] /\ i \in 1 .. Len(ts)
        BY <1>1, <1>5
    <2>2. Sound(t) /\ Seen(t, us) /\ t \in TrackT
        BY <2>1 DEF Sound
    <2>3. Counted(m)[i] = Voted(Miss(t))
        BY <1>1, <1>5, CountedIs
    <2> HIDE DEF t
    <2>4. Sound(Voted(Miss(t)))
        BY <2>2, MissIsSound
    <2> DEFINE v == Voted(Miss(t))
    <2>5. /\ v.missed = t.missed + 1 /\ v.class = t.class /\ v.at = t.at
          /\ t.missed \in Nat
        <3>1. /\ Miss(t) \in TrackT /\ Miss(t).class = t.class /\ Miss(t).at = t.at
              /\ Miss(t).missed = t.missed + 1
            BY <2>2, MissIs
        <3> QED
            BY <2>2, <3>1, VotedIs DEF TrackT
    <2> HIDE DEF v
    <2>6. Seen(v, new)
        <3> SUFFICES ASSUME v.missed < Kept
                     PROVE  /\ Len(new) - v.missed \in 1 .. Len(new)
                            /\ \E n \in 1 .. Len(new[Len(new) - v.missed]) :
                                  new[Len(new) - v.missed][n] = [class |-> v.class, at |-> v.at]
            BY DEF Seen
        <3>1. /\ Len(us) - t.missed \in 1 .. Len(us)
              /\ \E n \in 1 .. Len(us[Len(us) - t.missed]) :
                    us[Len(us) - t.missed][n] = [class |-> t.class, at |-> t.at]
            BY <2>2, <2>5, KeptIs DEF Seen
        <3>2. t.missed \in 0 .. Len(new) - 2
            BY <1>2, <2>5, <3>1, KeptIs
        <3>3. new[Len(new) - (t.missed + 1)] = us[Len(us) - t.missed]
            BY <1>2, <3>2
        <3>4. /\ Len(new) - v.missed \in 1 .. Len(new)
              /\ new[Len(new) - v.missed] = us[Len(us) - t.missed]
            <4>1. Len(new) - v.missed = Len(new) - (t.missed + 1)
                BY <2>5
            <4>2. Len(new) - (t.missed + 1) \in 1 .. Len(new)
                BY <1>2, <3>2
            <4> QED
                BY <3>3, <4>1, <4>2
        <3> QED
            BY <2>5, <3>1, <3>4
    <2> QED
        BY <2>3, <2>4, <2>6 DEF v, new
<1> QED
    BY <1>4, <1>5

(* d is in the frame, and no other detection suits a track at d.           *)
Apart(ds, d) ==
    \E n \in DOMAIN ds :
        /\ ds[n] = d
        /\ \A k \in DOMAIN ds :
              ds[k].class = d.class /\ Distance(ds[k].at, d.at) <= Jitter => k = n

(* d stood still and apart in each of the last n updates.                  *)
Still(us, d, n) ==
    /\ Len(us) >= n
    /\ \A k \in Len(us) - n + 1 .. Len(us) : Apart(us[k], d)

(* t stands where d does.                                                  *)
AtPlace(t, d) == t.class = d.class /\ t.at = d.at

(* The last n votes of h are hits.                                         *)
Hot(h, n) == n <= Len(h) /\ \A k \in 1 .. Len(h) : k > Len(h) - n => h[k]

(* No track at d is newer than the i-th.                                   *)
Newer(ts, d, i) == \A j \in 1 .. Len(ts) : AtPlace(ts[j], d) => j <= i

(* The i-th track is the one that follows d: the newest that stands there, *)
(* hit by the last n updates.                                              *)
Holds(ts, d, i, n) ==
    /\ i \in 1 .. Len(ts) /\ AtPlace(ts[i], d) /\ Newer(ts, d, i)
    /\ ts[i].missed = 0 /\ Hot(ts[i].hits, n)
    /\ n >= MinHits => ts[i].confirmed

(* Every detection that stood still and apart, for any time up to MinHits, *)
(* is followed by one track.  The number of updates is part of it, for the *)
(* property speaks of MinHits of them and is not inductive alone.          *)
Followed(ts, us) ==
    \A d \in Item, n \in 1 .. MinHits : Still(us, d, n) => \E i : Holds(ts, d, i, n)

(* A detection that is apart takes a track that is afterwards the newest   *)
(* at its place; and if a track at its place was the newest before, it is  *)
(* the one that it takes, so its hits are not split between the two.       *)
LEMMA SoleIs ==
    ASSUME NEW ts \in Seq(TrackT), NEW ds \in Seq(Item), NEW d \in Item,
           NEW m, NEW own, Matched(m, ts, ds, Len(ds), own),
           NEW n \in 1 .. Len(ds), ds[n] = d,
           \A k \in DOMAIN ds :
              ds[k].class = d.class /\ Distance(ds[k].at, d.at) <= Jitter => k = n
    PROVE  /\ own[n] \in 1 .. Len(m.tracks) /\ own[n] \in m.taken
           /\ TakenBy(m.tracks[own[n]], own[n], d, ts)
           /\ Newer(m.tracks, d, own[n])
           /\ \A i \in 1 .. Len(ts) :
                 AtPlace(ts[i], d) /\ Newer(ts, d, i) => i = own[n]
<1> DEFINE o == own[n]
<1>1. /\ own \in [1 .. Len(ds) -> 1 .. Len(m.tracks)]
      /\ m.taken = {own[j] : j \in 1 .. Len(ds)}
      /\ \A i \in 1 .. Len(m.tracks) : i \notin m.taken => i <= Len(ts) /\ m.tracks[i] = ts[i]
      /\ \A j \in 1 .. Len(ds) : TakenBy(m.tracks[own[j]], own[j], ds[j], ts)
      /\ \A j \in 1 .. Len(ds), i \in 1 .. Len(ts) :
            i \notin m.taken /\ Suits(ts[i], ds[j]) => Nearest(i, own[j], ds[j], ts)
    BY DEF Matched
<1>2. /\ Len(m.tracks) \in Nat /\ Len(ts) \in Nat /\ Len(ts) <= Len(m.tracks)
      /\ DOMAIN ds = 1 .. Len(ds)
      /\ Jitter \in Nat /\ d.at \in Int
    BY PerceptionAssumption DEF Matched, Item
<1>3. o \in 1 .. Len(m.tracks) /\ o \in m.taken /\ TakenBy(m.tracks[o], o, d, ts)
    BY <1>1
<1>4. ASSUME NEW i \in 1 .. Len(ts) PROVE ts[i].at \in Int
    <2>1. ts[i] \in TrackT
        OBVIOUS
    <2> QED
        BY <2>1 DEF TrackT
<1>5. Distance(d.at, d.at) = 0
    BY <1>2, DistanceIs
<1> HIDE DEF o
<1>6. ASSUME NEW j \in 1 .. Len(m.tracks), AtPlace(m.tracks[j], d) PROVE j <= o
    <2>1. CASE j \in m.taken
        <3>1. PICK k \in 1 .. Len(ds) : own[k] = j
            BY <1>1, <2>1
        <3>2. TakenBy(m.tracks[j], j, ds[k], ts)
            BY <1>1, <3>1
        <3>3. ds[k].class = d.class /\ ds[k].at = d.at
            BY <1>6, <3>2 DEF TakenBy, AtPlace
        <3>4. k = n
            BY <1>2, <1>5, <3>3
        <3> QED
            BY <1>2, <3>1, <3>4 DEF o
    <2>2. CASE j \notin m.taken
        <3>1. j \in 1 .. Len(ts) /\ m.tracks[j] = ts[j]
            <4>1. j \notin m.taken => j <= Len(ts) /\ m.tracks[j] = ts[j]
                BY <1>1
            <4>2. j \in Nat /\ j >= 1
                BY <1>2
            <4> QED
                BY <1>2, <2>2, <4>1, <4>2
        <3>2. Suits(ts[j], d) /\ Distance(ts[j].at, d.at) = 0
            BY <1>2, <1>5, <1>6, <3>1 DEF Suits, AtPlace
        <3>3. Nearest(j, o, d, ts)
            BY <1>1, <2>2, <3>1, <3>2 DEF o
        <3>4. o \in 1 .. Len(ts)
            BY <1>2, <1>3, <3>3 DEF Nearest
        <3>5. Distance(ts[o].at, d.at) \in Nat
            BY <1>2, <1>4, <3>4, DistanceIs
        <3> QED
            BY <3>2, <3>3, <3>5 DEF Nearest
    <2> QED
        BY <2>1, <2>2
<1>7. ASSUME NEW i \in 1 .. Len(ts), AtPlace(ts[i], d), Newer(ts, d, i) PROVE i = o
    <2>0. Distance(ts[i].at, d.at) = 0 /\ i \in 1 .. Len(m.tracks)
        BY <1>2, <1>5, <1>7 DEF AtPlace
    <2>1. CASE i \in m.taken
        <3>1. PICK k \in 1 .. Len(ds) : own[k] = i
            BY <1>1, <2>1
        <3>2. TakenBy(m.tracks[i], i, ds[k], ts)
            BY <1>1, <3>1
        <3>3. Suits(ts[i], ds[k])
            BY <3>2 DEF TakenBy
        <3>4. ds[k] \in Item
            OBVIOUS
        <3>5. ds[k].at \in Int
            BY <3>4 DEF Item
        <3>6. ds[k].class = d.class /\ Distance(ds[k].at, d.at) <= Jitter
            <4>1. /\ ts[i].class = ds[k].class
                  /\ Distance(ts[i].at, ds[k].at) <= Jitter
                BY <3>3 DEF Suits
            <4>2. ts[i].class = d.class /\ ts[i].at = d.at
                BY <1>7 DEF AtPlace
            <4>3. Distance(d.at, ds[k].at) = Distance(ds[k].at, d.at)
                BY <1>2, <3>5, DistanceIs
            <4> QED
                BY <4>1, <4>2, <4>3
        <3>7. k = n
            BY <1>2, <3>6
        <3> QED
            BY <3>1, <3>7 DEF o
    <2>2. CASE i \notin m.taken
        <3>1. Suits(ts[i], d)
            BY <1>2, <1>7, <2>0 DEF Suits, AtPlace
        <3>2. Nearest(i, o, d, ts)
            BY <1>1, <2>2, <3>1 DEF o
        <3>3. o \in 1 .. Len(ts)
            BY <1>2, <1>3, <3>2 DEF Nearest
        <3>4. /\ Distance(ts[o].at, d.at) \in Nat
              /\ (Distance(ts[o].at, d.at) = 0 => ts[o].at = d.at)
            BY <1>2, <1>4, <3>3, DistanceIs
        <3>5. Distance(ts[o].at, d.at) = 0 /\ i <= o
            BY <2>0, <3>2, <3>4 DEF Nearest
        <3>6. Suits(ts[o], d)
            BY <1>2, <1>3, <3>3 DEF TakenBy
        <3>7. AtPlace(ts[o], d)
            BY <3>4, <3>5, <3>6 DEF Suits, AtPlace
        <3>8. o <= i
            BY <1>7, <3>3, <3>7 DEF Newer
        <3> QED
            BY <1>2, <3>3, <3>5, <3>8
    <2> QED
        BY <2>1, <2>2
<1> QED
    BY <1>3, <1>6, <1>7 DEF o, Newer

(* Trimming the votes to the window leaves the last hits.                  *)
LEMMA HotNewest ==
    ASSUME NEW h \in Seq(BOOLEAN), NEW n \in 1 .. Window, Hot(h, n)
    PROVE  Hot(Newest(h, Window), n)
<1> DEFINE w == Newest(h, Window)
<1>1. Window \in Nat /\ n \in Nat /\ n <= Window /\ Len(h) \in Nat
    BY PerceptionAssumption
<1>2. /\ Len(w) = (IF Len(h) <= Window THEN Len(h) ELSE Window)
      /\ \A k \in 1 .. Len(w) : Len(h) - Len(w) + k \in 1 .. Len(h) /\ w[k] = h[Len(h) - Len(w) + k]
    BY <1>1, NewestIs
<1>3. n <= Len(h) /\ \A k \in 1 .. Len(h) : k > Len(h) - n => h[k]
    BY DEF Hot
<1> HIDE DEF w
<1>4. Len(w) \in Nat /\ n <= Len(w)
    BY <1>1, <1>2, <1>3
<1>5. ASSUME NEW k \in 1 .. Len(w), k > Len(w) - n PROVE w[k]
    <2>1. Len(h) - Len(w) + k \in 1 .. Len(h) /\ w[k] = h[Len(h) - Len(w) + k]
        BY <1>2
    <2>2. Len(h) - Len(w) + k > Len(h) - n
        BY <1>1, <1>4, <1>5
    <2>3. h[Len(h) - Len(w) + k]
        BY <1>3, <2>1, <2>2
    <2> QED
        BY <2>1, <2>3
<1>6. Hot(w, n)
    BY <1>4, <1>5 DEF Hot
<1> QED
    BY <1>6 DEF w

(* A track whose last n votes are hits has n hits at least.                *)
LEMMA HotHits ==
    ASSUME NEW t \in TrackT, NEW n \in Nat, Hot(t.hits, n)
    PROVE  Hits(t) \in Nat /\ Hits(t) >= n
<1> DEFINE all == 1 .. Len(t.hits)
           hot == {k \in all : t.hits[k]}
           final == Len(t.hits) - n + 1 .. Len(t.hits)
<1>1. Len(t.hits) \in Nat /\ DOMAIN t.hits = all
    BY DEF TrackT
<1>2. Hits(t) = Cardinality(hot)
    BY <1>1 DEF Hits
<1>3. IsFiniteSet(all) /\ hot \subseteq all
    <2>1. IsFiniteSet(all)
        BY <1>1, FS_Interval
    <2> QED
        BY <2>1
<1>4. IsFiniteSet(hot)
    BY <1>3, FS_Subset
<1>5. final \subseteq hot
    BY <1>1 DEF Hot
<1>6. Cardinality(final) = n
    <2> DEFINE b == Len(t.hits)
               a == b - n + 1
    <2>1. a \in Int /\ b \in Int /\ n <= b
        BY <1>1 DEF Hot
    <2>2. final = a .. b
        OBVIOUS
    <2>3. ~(a > b) => b - a + 1 = n
        BY <1>1
    <2>4. a > b => n = 0
        BY <1>1
    <2> HIDE DEF final, a, b
    <2>5. Cardinality(a .. b) = IF a > b THEN 0 ELSE b - a + 1
        BY <2>1, FS_Interval
    <2> QED
        BY <2>2, <2>3, <2>4, <2>5
<1>7. Cardinality(final) <= Cardinality(hot)
    BY <1>4, <1>5, FS_Subset
<1>8. Cardinality(hot) \in Nat
    BY <1>4, FS_CardinalityType
<1> QED
    BY <1>2, <1>6, <1>7, <1>8

(* A track with n hits in a row outlives the vote, and is confirmed by     *)
(* MinHits of them.                                                        *)
LEMMA VotedHolds ==
    ASSUME NEW t \in TrackT, NEW n \in 1 .. MinHits, Hot(t.hits, n), t.missed = 0
    PROVE  /\ Hot(Voted(t).hits, n) /\ (n >= MinHits => Voted(t).confirmed)
           /\ Alive(Voted(t))
<1> DEFINE v == Voted(t)
<1>1. /\ n \in 1 .. Window /\ n \in Nat /\ n >= 1 /\ MissTolerance \in Nat
      /\ MinHits \in Nat
    BY PerceptionAssumption
<1>2. /\ v \in TrackT /\ v.missed = 0 /\ v.hits = Newest(t.hits, Window)
      /\ v.confirmed <=> (t.confirmed \/ Hits(v) >= MinHits)
    BY VotedIs
<1>3. t.hits \in Seq(BOOLEAN)
    BY DEF TrackT
<1>4. Hot(Newest(t.hits, Window), n)
    BY <1>1, <1>3, HotNewest
<1> HIDE DEF v
<1>5. Hot(v.hits, n)
    BY <1>2, <1>4
<1>6. Hits(v) \in Nat /\ Hits(v) >= n
    BY <1>1, <1>2, <1>5, HotHits
<1>7. n >= MinHits => v.confirmed
    BY <1>1, <1>2, <1>6
<1>8. Alive(v)
    BY <1>1, <1>2, <1>6 DEF Alive
<1> QED
    BY <1>5, <1>7, <1>8 DEF v

(* An update leaves tracks that are sound, alive, and seen where they      *)
(* stand.                                                                  *)
LEMMA UpdateIs ==
    ASSUME NEW ts \in Seq(TrackT), NEW us, History(us), NEW ds \in Seq(Item),
           \A i \in 1 .. Len(ts) : Sound(ts[i]) /\ Seen(ts[i], us)
    PROVE  /\ Update(ts, ds) \in Seq(TrackT)
           /\ \A i \in 1 .. Len(Update(ts, ds)) :
                 /\ Sound(Update(ts, ds)[i])
                 /\ Seen(Update(ts, ds)[i], With(us, ds))
                 /\ Alive(Update(ts, ds)[i])
<1> DEFINE m == Assigned(ts, ds)
           v == Counted(m)
           out == Select(v, Living(v))
<1>1. PICK own : Matched(m, ts, ds, Len(ds), own)
    BY AssignedIs
<1>2. m \in [tracks : Seq(TrackT), taken : SUBSET Nat]
    BY <1>1 DEF Matched
<1> HIDE DEF m
<1>3. v \in Seq(TrackT) /\ Len(v) = Len(m.tracks)
    BY <1>2, CountedIs
<1>4. \A i \in 1 .. Len(v) : Sound(v[i]) /\ Seen(v[i], With(us, ds))
    BY <1>1, <1>3, CountedIsTrue
<1>5. Update(ts, ds) = out
    BY DEF Update, m
<1> HIDE DEF v
<1>6. out \in Seq(TrackT) /\ \E f : Picks(out, v, Len(v), Living(v), f)
    BY <1>3, SelectIs
<1>7. PICK f : Picks(out, v, Len(v), Living(v), f)
    BY <1>6
<1> HIDE DEF out
<1>8. ASSUME NEW i \in 1 .. Len(out)
      PROVE  Sound(out[i]) /\ Seen(out[i], With(us, ds)) /\ Alive(out[i])
    <2>1. f[i] \in 1 .. Len(v) /\ out[i] = v[f[i]] /\ v[f[i]] \in Living(v)
        BY <1>7 DEF Picks
    <2> QED
        BY <1>4, <2>1 DEF Living
<1> QED
    BY <1>5, <1>6, <1>8

(* Deleting dead tracks leaves the one that follows d, and leaves it the   *)
(* newest at its place.                                                    *)
LEMMA SelectHolds ==
    ASSUME NEW v \in Seq(TrackT), NEW d \in Item, NEW i, NEW n \in Nat,
           Holds(v, d, i, n), Alive(v[i])
    PROVE  \E k : Holds(Select(v, Living(v)), d, k, n)
<1> DEFINE out == Select(v, Living(v))
<1>1. out \in Seq(TrackT) /\ \E f : Picks(out, v, Len(v), Living(v), f)
    BY SelectIs
<1>2. PICK f : Picks(out, v, Len(v), Living(v), f)
    BY <1>1
<1>3. i \in 1 .. Len(v) /\ v[i] \in Living(v)
    <2>1. i \in 1 .. Len(v) /\ DOMAIN v = 1 .. Len(v)
        BY DEF Holds
    <2>2. v[i] \in Range(v)
        BY <2>1 DEF Range
    <2> QED
        BY <2>1, <2>2 DEF Living
<1> HIDE DEF out
<1>4. PICK k \in 1 .. Len(out) : f[k] = i
    BY <1>2, <1>3 DEF Picks
<1>5. out[k] = v[i]
    BY <1>2, <1>4 DEF Picks
<1>6. ASSUME NEW j \in 1 .. Len(out), AtPlace(out[j], d) PROVE j <= k
    <2>1. f[j] \in 1 .. Len(v) /\ AtPlace(v[f[j]], d)
        BY <1>2, <1>6 DEF Picks
    <2>2. f[j] <= f[k]
        BY <1>4, <2>1 DEF Holds, Newer
    <2>3. k < j => f[k] < f[j]
        BY <1>2 DEF Picks
    <2>4. j \in Nat /\ k \in Nat /\ f[j] \in Nat /\ f[k] \in Nat
        BY <1>1, <1>3, <1>4, <2>1
    <2> QED
        BY <2>2, <2>3, <2>4
<1>7. Holds(out, d, k, n)
    BY <1>5, <1>6 DEF Holds, Newer
<1> QED
    BY <1>7 DEF out

(* What Append does.                                                       *)
LEMMA AppendIs ==
    ASSUME NEW S, NEW s \in Seq(S), NEW e \in S
    PROVE  /\ Append(s, e) \in Seq(S) /\ Len(Append(s, e)) = Len(s) + 1 /\ Len(s) \in Nat
           /\ Append(s, e)[Len(s) + 1] = e
           /\ \A k \in 1 .. Len(s) : Append(s, e)[k] = s[k]
    OBVIOUS

(* One hit more in a row.                                                  *)
LEMMA AppendHot ==
    ASSUME NEW h \in Seq(BOOLEAN), NEW n \in Nat, Hot(h, n)
    PROVE  Hot(Append(h, TRUE), n + 1)
<1> DEFINE a == Append(h, TRUE)
<1>1. /\ Len(a) = Len(h) + 1 /\ a[Len(h) + 1] = TRUE /\ Len(h) \in Nat
      /\ \A k \in 1 .. Len(h) : a[k] = h[k]
    <2>1. TRUE \in BOOLEAN
        OBVIOUS
    <2> QED
        BY <2>1, AppendIs
<1> HIDE DEF a
<1>2. /\ Len(a) = Len(h) + 1 /\ a[Len(h) + 1] /\ Len(h) \in Nat
      /\ \A k \in 1 .. Len(h) : a[k] = h[k]
    BY <1>1
<1>3. n + 1 <= Len(a)
    BY <1>2 DEF Hot
<1>4. ASSUME NEW k \in 1 .. Len(a), k > Len(a) - (n + 1) PROVE a[k]
    <2>1. CASE k = Len(h) + 1
        BY <1>2, <2>1
    <2>2. CASE k # Len(h) + 1
        <3>1. k \in 1 .. Len(h) /\ k > Len(h) - n
            BY <1>2, <1>4, <2>2
        <3>2. h[k]
            BY <3>1 DEF Hot
        <3> QED
            BY <1>2, <3>1, <3>2
    <2> QED
        BY <2>1, <2>2
<1>5. Hot(a, n + 1)
    BY <1>3, <1>4 DEF Hot
<1> QED
    BY <1>5 DEF a

(* No hit in a row.                                                        *)
LEMMA ColdHot == ASSUME NEW h \in Seq(BOOLEAN) PROVE Hot(h, 0)
<1>1. Len(h) \in Nat
    OBVIOUS
<1> QED
    BY <1>1 DEF Hot

(* The first hit of a track.                                               *)
LEMMA FirstHot == Hot(<<TRUE>>, 1)
<1> DEFINE h == <<TRUE>>
<1>1. Len(h) = 1 /\ h[1] = TRUE
    OBVIOUS
<1> HIDE DEF h
<1>2. \A k \in 1 .. Len(h) : k = 1
    BY <1>1
<1>3. \A k \in 1 .. Len(h) : h[k]
    BY <1>1, <1>2
<1>4. Hot(h, 1)
    BY <1>1, <1>3 DEF Hot
<1> QED
    BY <1>4 DEF h

(* A track that the n-th update in a row has hit at d follows it after the *)
(* vote.                                                                   *)
LEMMA CountedHolds ==
    ASSUME NEW m \in [tracks : Seq(TrackT), taken : SUBSET Nat], NEW d \in Item,
           NEW o \in 1 .. Len(m.tracks), o \in m.taken, NEW n \in 1 .. MinHits,
           AtPlace(m.tracks[o], d), Newer(m.tracks, d, o), m.tracks[o].missed = 0,
           Hot(m.tracks[o].hits, n)
    PROVE  Holds(Counted(m), d, o, n) /\ Alive(Counted(m)[o])
<1> DEFINE v == Counted(m)
           t == m.tracks[o]
<1>1. v \in Seq(TrackT) /\ Len(v) = Len(m.tracks)
    BY CountedIs
<1>2. \A i \in 1 .. Len(m.tracks) : v[i] = Voted(IF i \in m.taken THEN m.tracks[i] ELSE Miss(m.tracks[i]))
    BY CountedIs
<1>3. \A i \in 1 .. Len(m.tracks) : m.tracks[i] \in TrackT
    OBVIOUS
<1> HIDE DEF v
<1>4. ASSUME NEW i \in 1 .. Len(m.tracks)
      PROVE  v[i].class = m.tracks[i].class /\ v[i].at = m.tracks[i].at
    <2> DEFINE u == IF i \in m.taken THEN m.tracks[i] ELSE Miss(m.tracks[i])
    <2>1. u \in TrackT /\ u.class = m.tracks[i].class /\ u.at = m.tracks[i].at
        BY <1>3, MissIs
    <2> HIDE DEF u
    <2>2. Voted(u).class = u.class /\ Voted(u).at = u.at
        BY <2>1, VotedIs
    <2> QED
        BY <1>2, <2>1, <2>2 DEF u
<1>5. v[o] = Voted(t) /\ t \in TrackT /\ t.missed = 0
    BY <1>2, <1>3
<1> HIDE DEF t
<1>6. /\ Hot(Voted(t).hits, n) /\ (n >= MinHits => Voted(t).confirmed)
      /\ Alive(Voted(t))
    BY <1>5, VotedHolds DEF t
<1>7. Voted(t).missed = 0
    BY <1>5, VotedIs
<1>8. AtPlace(v[o], d) /\ Newer(v, d, o)
    BY <1>1, <1>4 DEF AtPlace, Newer
<1>9. Holds(v, d, o, n)
    BY <1>1, <1>5, <1>6, <1>7, <1>8 DEF Holds
<1> QED
    BY <1>5, <1>6, <1>9 DEF v

(* A frame in which d stands apart is followed by a track with one hit     *)
(* more than before.                                                       *)
LEMMA AssignedHolds ==
    ASSUME NEW ts \in Seq(TrackT), NEW ds \in Seq(Item), NEW d \in Item, Apart(ds, d),
           NEW n \in 1 .. MinHits, n > 1 => \E i : Holds(ts, d, i, n - 1)
    PROVE  \E i : Holds(Update(ts, ds), d, i, n)
<1> DEFINE m == Assigned(ts, ds)
           v == Counted(m)
<1>1. PICK own : Matched(m, ts, ds, Len(ds), own)
    BY AssignedIs
<1> HIDE DEF m
<1>2. PICK e \in 1 .. Len(ds) :
         /\ ds[e] = d
         /\ \A k \in DOMAIN ds :
               ds[k].class = d.class /\ Distance(ds[k].at, d.at) <= Jitter => k = e
    BY DEF Apart
<1> DEFINE o == own[e]
<1>3. m \in [tracks : Seq(TrackT), taken : SUBSET Nat]
    BY <1>1 DEF Matched
<1>4. /\ o \in 1 .. Len(m.tracks) /\ o \in m.taken
      /\ TakenBy(m.tracks[o], o, d, ts)
      /\ Newer(m.tracks, d, o)
      /\ \A i \in 1 .. Len(ts) : AtPlace(ts[i], d) /\ Newer(ts, d, i) => i = o
    BY <1>1, <1>2, SoleIs
<1> HIDE DEF o
<1>5. AtPlace(m.tracks[o], d) /\ m.tracks[o].missed = 0
    BY <1>4 DEF TakenBy, AtPlace
<1>6. o \in Nat /\ Len(ts) \in Nat /\ n \in Nat /\ MinHits \in Nat
    BY <1>3, <1>4, PerceptionAssumption
<1>7. Hot(m.tracks[o].hits, n)
    <2>1. CASE n = 1
        <3>1. CASE o <= Len(ts)
            <4> DEFINE h == ts[o].hits
            <4>1. ts[o] \in TrackT
                BY <1>4, <1>6, <3>1
            <4>2. h \in Seq(BOOLEAN)
                BY <4>1 DEF TrackT
            <4>3. m.tracks[o].hits = Append(h, TRUE)
                BY <1>4, <3>1 DEF TakenBy
            <4> HIDE DEF h
            <4>4. Hot(h, 0)
                BY <4>2, ColdHot
            <4>5. Hot(Append(h, TRUE), 0 + 1)
                BY <4>2, <4>4, AppendHot
            <4>6. 0 + 1 = n
                BY <2>1
            <4> QED
                BY <4>3, <4>5, <4>6, Zenon
        <3>2. CASE o > Len(ts)
            <4>1. m.tracks[o].hits = <<TRUE>>
                BY <1>4, <3>2 DEF TakenBy
            <4> QED
                BY <2>1, <4>1, FirstHot, Zenon
        <3> QED
            BY <1>6, <3>1, <3>2
    <2>2. CASE n > 1
        <3>1. PICK i : Holds(ts, d, i, n - 1)
            BY <2>2
        <3>2. /\ i \in 1 .. Len(ts) /\ AtPlace(ts[i], d) /\ Newer(ts, d, i)
              /\ Hot(ts[i].hits, n - 1)
            BY <3>1 DEF Holds
        <3>3. i = o
            BY <1>4, <3>2
        <3>4. ts[i] \in TrackT
            BY <3>2
        <3> DEFINE p == n - 1
                   h == ts[i].hits
        <3>5. h \in Seq(BOOLEAN)
            BY <3>4 DEF TrackT
        <3>6. m.tracks[o].hits = Append(h, TRUE)
            <4>1. o <= Len(ts)
                BY <1>6, <3>2, <3>3
            <4>2. m.tracks[o].hits = Append(ts[o].hits, TRUE)
                BY <1>4, <4>1 DEF TakenBy
            <4> QED
                BY <3>3, <4>2, Zenon
        <3>7. p \in Nat /\ p + 1 = n
            BY <1>6, <2>2
        <3>8. Hot(h, p)
            BY <3>2
        <3> HIDE DEF p, h
        <3>9. Hot(Append(h, TRUE), p + 1)
            BY <3>5, <3>7, <3>8, AppendHot
        <3> QED
            BY <3>6, <3>7, <3>9, Zenon
    <2> QED
        BY <1>6, <2>1, <2>2
<1>8. Holds(v, d, o, n) /\ Alive(v[o])
    BY <1>3, <1>4, <1>5, <1>7, CountedHolds
<1>9. v \in Seq(TrackT)
    BY <1>3, CountedIs
<1>10. Update(ts, ds) = Select(v, Living(v))
    BY DEF Update, m
<1> HIDE DEF v
<1> QED
    BY <1>6, <1>8, <1>9, <1>10, SelectHolds

(* An update keeps every detection that stood still followed.              *)
LEMMA UpdateFollows ==
    ASSUME NEW ts \in Seq(TrackT), NEW us, History(us), NEW ds \in Seq(Item),
           Followed(ts, us)
    PROVE  Followed(Update(ts, ds), With(us, ds))
<1> DEFINE new == With(us, ds)
<1> SUFFICES ASSUME NEW d \in Item, NEW n \in 1 .. MinHits, Still(new, d, n)
             PROVE  \E i : Holds(Update(ts, ds), d, i, n)
    BY DEF Followed
<1>1. Len(new) = (IF Len(us) < Kept THEN Len(us) + 1 ELSE Kept)
    BY HistoryGrows
<1>2. new[Len(new)] = ds
    BY HistoryGrows
<1>3. \A q \in 0 .. Len(new) - 2 :
          Len(us) - q \in 1 .. Len(us) /\ new[Len(new) - (q + 1)] = us[Len(us) - q]
    BY HistoryGrows
<1> HIDE DEF new
<1>4. /\ Len(us) \in Nat /\ Len(us) <= Kept /\ Kept \in Nat /\ Kept >= 1
      /\ n \in Nat /\ n >= 1
      /\ MinHits \in Nat /\ n <= MinHits
    BY KeptIs, PerceptionAssumption DEF History
<1>5. Len(new) >= n /\ \A k \in Len(new) - n + 1 .. Len(new) : Apart(new[k], d)
    BY DEF Still
<1>6. Apart(ds, d)
    <2>1. Len(new) \in Len(new) - n + 1 .. Len(new)
        BY <1>1, <1>4
    <2> QED
        BY <1>2, <1>5, <2>1
<1>7. ASSUME n > 1 PROVE \E i : Holds(ts, d, i, n - 1)
    <2>1. n - 1 \in 1 .. MinHits
        BY <1>4, <1>7
    <2>2. Len(us) >= n - 1
        BY <1>1, <1>4, <1>5
    <2>3. ASSUME NEW k \in Len(us) - (n - 1) + 1 .. Len(us) PROVE Apart(us[k], d)
        <3> DEFINE q == Len(us) - k
        <3>1. q \in 0 .. Len(new) - 2 /\ Len(us) - q = k
            BY <1>1, <1>4, <1>5
        <3>2. Len(new) - (q + 1) \in Len(new) - n + 1 .. Len(new)
            BY <1>1, <1>4, <1>5
        <3> HIDE DEF q
        <3>3. new[Len(new) - (q + 1)] = us[k]
            BY <1>3, <3>1
        <3> QED
            BY <1>5, <3>2, <3>3
    <2>4. Still(us, d, n - 1)
        BY <2>2, <2>3 DEF Still
    <2> QED
        BY <2>1, <2>4 DEF Followed
<1> QED
    BY <1>6, <1>7, AssignedHolds

(* What is true of the tracks: each is sound, alive, and seen where it     *)
(* stands.                                                                 *)
TracksTrue ==
    /\ tracks \in Seq(TrackT)
    /\ \A i \in 1 .. Len(tracks) :
          Sound(tracks[i]) /\ Seen(tracks[i], updates) /\ Alive(tracks[i])

Samples == samples \in Seq(BOOLEAN) /\ Len(samples) <= MaxSamples

Simple ==
    /\ file \in [mtime : 1 .. MaxWrites, text : Texts]
    /\ cache \in [mtime : 0 .. MaxWrites, valid : BOOLEAN]
    /\ slot \in BOOLEAN /\ placed \in BOOLEAN
    /\ lastAge \in 0 .. TTL /\ rgbAge \in 0 .. TTL

Memory == TracksTrue /\ History(updates) /\ Followed(tracks, updates)

TrackerInv == Simple /\ Samples /\ Memory

(* A track that lives has a bound on its misses: unconfirmed, one of its   *)
(* votes is still a hit.                                                   *)
LEMMA MissedIs ==
    ASSUME NEW t, Sound(t), Alive(t)
    PROVE  t.missed \in 0 .. Window + MissTolerance
<1>1. t \in TrackT /\ t.missed \in Nat /\ Window \in Nat /\ MissTolerance \in Nat
      /\ Len(t.hits) \in 1 .. Window /\ DOMAIN t.hits = 1 .. Len(t.hits)
    BY PerceptionAssumption DEF Sound, TrackT
<1>2. CASE t.confirmed
    <2>1. t.missed <= MissTolerance
        BY <1>2 DEF Alive
    <2> QED
        BY <1>1, <2>1
<1>3. CASE ~t.confirmed
    <2> DEFINE hot == {k \in DOMAIN t.hits : t.hits[k]}
    <2>1. Hits(t) > 0
        BY <1>3 DEF Alive
    <2>2. hot # {}
        <3>1. Hits(t) = Cardinality(hot)
            BY DEF Hits
        <3>2. Cardinality({}) = 0
            BY FS_EmptySet
        <3> HIDE DEF hot
        <3> QED
            BY <2>1, <3>1, <3>2
    <2>3. PICK k \in 1 .. Len(t.hits) : t.hits[k]
        BY <1>1, <2>2
    <2>4. ~(k > Len(t.hits) - t.missed)
        BY <2>3 DEF Sound
    <2> QED
        BY <1>1, <2>3, <2>4
<1> QED
    BY <1>2, <1>3

(* The invariant gives the types.                                          *)
LEMMA TrackerTypes == TrackerInv => PerceptionTypeOK
<1> SUFFICES ASSUME TrackerInv PROVE PerceptionTypeOK
    OBVIOUS
<1>1. {slot, placed} \subseteq BOOLEAN /\ {lastAge, rgbAge} \subseteq 0 .. TTL
    BY DEF TrackerInv, Simple
<1>2. ASSUME NEW i \in DOMAIN tracks
      PROVE  Len(tracks[i].hits) \in 1 .. Window /\ tracks[i].missed \in 0 .. Window + MissTolerance
    <2>1. i \in 1 .. Len(tracks)
        BY DEF TrackerInv, Memory, TracksTrue
    <2>2. Sound(tracks[i]) /\ Alive(tracks[i])
        BY <2>1 DEF TrackerInv, Memory, TracksTrue
    <2> QED
        BY <2>2, MissedIs DEF Sound
<1> QED
    BY <1>1, <1>2 DEF TrackerInv, Memory, Simple, Samples, History, PerceptionTypeOK

(* What a cloud gives the tracker and the samples of the depth.            *)
LEMMA ItemsAre ==
    ASSUME NEW clusters \in Clouds
    PROVE  TrackerItems(clusters) \in Seq(Item) /\ InRange(clusters) \in Seq(BOOLEAN)
<1>1. clusters \in Seq(Cluster)
    BY PerceptionAssumption
<1> DEFINE a == Accepted(clusters)
           b == Measured(clusters)
<1>2. a \in Seq(Cluster) /\ b \in Seq(Cluster)
    BY <1>1, SelectIs DEF Accepted, Measured
<1>3. TrackerItems(clusters) = [k \in DOMAIN a |-> [class |-> a[k].class, at |-> a[k].at]]
    BY DEF TrackerItems
<1>4. InRange(clusters) = [k \in DOMAIN b |-> b[k].depth = "OK"]
    BY DEF InRange
<1> HIDE DEF a, b
<1>5. \A k \in DOMAIN a : [class |-> a[k].class, at |-> a[k].at] \in Item
    <2> SUFFICES ASSUME NEW k \in DOMAIN a PROVE [class |-> a[k].class, at |-> a[k].at] \in Item
        OBVIOUS
    <2>1. a[k] \in Cluster
        BY <1>2
    <2>2. a[k].class \in STRING /\ a[k].at \in Int
        BY <2>1 DEF Cluster
    <2> QED
        BY <2>2 DEF Item
<1>6. /\ DOMAIN a = 1 .. Len(a) /\ Len(a) \in Nat /\ DOMAIN b = 1 .. Len(b)
      /\ Len(b) \in Nat
    BY <1>2
<1> DEFINE it(k) == [class |-> a[k].class, at |-> a[k].at]
           ok(k) == b[k].depth = "OK"
<1>7. \A k \in 1 .. Len(b) : ok(k) \in BOOLEAN
    OBVIOUS
<1>8. /\ TrackerItems(clusters) = [k \in 1 .. Len(a) |-> it(k)]
      /\ InRange(clusters) = [k \in 1 .. Len(b) |-> ok(k)]
    BY <1>3, <1>4, <1>6
<1>9. \A k \in 1 .. Len(a) : it(k) \in Item
    BY <1>5, <1>6
<1> HIDE DEF it, ok
<1> QED
    BY <1>6, <1>7, <1>8, <1>9

(* What is reported are the confirmed tracks.                              *)
LEMMA ReportedIs ==
    ASSUME NEW ts \in Seq(TrackT)
    PROVE  Range(Reported(ts)) =
             {[class |-> ts[i].class, at |-> ts[i].at] : i \in {j \in 1 .. Len(ts) : ts[j].confirmed}}
<1> DEFINE good == {t \in Range(ts) : t.confirmed}
           c == Select(ts, good)
           show(t) == [class |-> t.class, at |-> t.at]
<1>1. c \in Seq(TrackT) /\ \E f : Picks(c, ts, Len(ts), good, f)
    BY SelectIs
<1>2. PICK f : Picks(c, ts, Len(ts), good, f)
    BY <1>1
<1>3. DOMAIN c = 1 .. Len(c) /\ DOMAIN ts = 1 .. Len(ts)
    BY <1>1
<1>4. Reported(ts) = [i \in DOMAIN c |-> show(c[i])]
    BY DEF Reported
<1> HIDE DEF c
<1>5. Range(Reported(ts)) = {show(c[i]) : i \in 1 .. Len(c)}
    BY <1>3, <1>4 DEF Range
<1>6. ASSUME NEW i \in 1 .. Len(c)
      PROVE  \E j \in 1 .. Len(ts) : ts[j].confirmed /\ c[i] = ts[j]
    <2>1. f[i] \in 1 .. Len(ts) /\ c[i] = ts[f[i]] /\ ts[f[i]] \in good
        BY <1>2 DEF Picks
    <2> QED
        BY <2>1
<1>7. ASSUME NEW j \in 1 .. Len(ts), ts[j].confirmed
      PROVE  \E i \in 1 .. Len(c) : c[i] = ts[j]
    <2>1. ts[j] \in Range(ts)
        BY <1>3 DEF Range
    <2>2. ts[j] \in good
        BY <1>7, <2>1
    <2> HIDE DEF good
    <2>3. PICK i \in 1 .. Len(c) : f[i] = j
        BY <1>2, <2>2 DEF Picks
    <2>4. c[i] = ts[j]
        BY <1>2, <2>3 DEF Picks
    <2> QED
        BY <2>4
<1> HIDE DEF show, good
<1>8. {show(c[i]) : i \in 1 .. Len(c)} = {show(ts[i]) : i \in {j \in 1 .. Len(ts) : ts[j].confirmed}}
    BY <1>6, <1>7
<1> QED
    BY <1>5, <1>8 DEF show

(* The invariant leaves no ghost: a confirmed track that lives was hit by  *)
(* one of the last MissTolerance + 1 updates, where it stands.             *)
LEMMA NoGhostsHere == TrackerInv => NoGhosts
<1> SUFFICES ASSUME TrackerInv, NEW d \in Range(Reported(tracks))
             PROVE  \E k \in DOMAIN updates :
                       k > Len(updates) - (MissTolerance + 1) /\ d \in Range(updates[k])
    BY DEF NoGhosts
<1>1. tracks \in Seq(TrackT) /\ updates \in Seq(Seq(Item))
    BY DEF TrackerInv, Memory, TracksTrue, History
<1>2. PICK i \in 1 .. Len(tracks) :
         tracks[i].confirmed /\ d = [class |-> tracks[i].class, at |-> tracks[i].at]
    BY <1>1, ReportedIs
<1> DEFINE t == tracks[i]
           k == Len(updates) - t.missed
<1>3. Seen(t, updates) /\ Alive(t) /\ t \in TrackT
    BY <1>2 DEF TrackerInv, Memory, TracksTrue, Sound
<1>4. t.confirmed /\ d = [class |-> t.class, at |-> t.at]
    BY <1>2
<1> HIDE DEF t
<1>5. t.missed <= MissTolerance /\ t.missed \in Nat /\ MissTolerance \in Nat
    BY <1>3, <1>4, PerceptionAssumption DEF Alive, TrackT
<1>6. t.missed < Kept
    BY <1>5, KeptIs
<1>7. k \in 1 .. Len(updates) /\ \E n \in 1 .. Len(updates[k]) : updates[k][n] = d
    BY <1>3, <1>4, <1>6 DEF Seen
<1>8. k > Len(updates) - (MissTolerance + 1)
    BY <1>1, <1>5
<1> HIDE DEF k
<1>9. k \in DOMAIN updates /\ updates[k] \in Seq(Item)
    BY <1>1, <1>7
<1>10. d \in Range(updates[k])
    BY <1>7, <1>9 DEF Range
<1> QED
    BY <1>8, <1>9, <1>10

(* The invariant gives a steady detection its report.                      *)
LEMMA SteadyHere == TrackerInv => SteadyIsReported
<1> SUFFICES ASSUME TrackerInv, updates # <<>>,
                    NEW d \in Range(updates[Len(updates)]), Steady(d)
             PROVE  d \in Range(Reported(tracks))
    BY DEF SteadyIsReported
<1>1. /\ tracks \in Seq(TrackT) /\ updates \in Seq(Seq(Item)) /\ MinHits \in Nat
      /\ MinHits >= 1
    BY PerceptionAssumption DEF TrackerInv, Memory, TracksTrue, History
<1>2. d \in Item
    <2>1. Len(updates) \in DOMAIN updates
        BY <1>1
    <2>2. updates[Len(updates)] \in Seq(Item)
        BY <1>1, <2>1
    <2> QED
        BY <2>2 DEF Range
<1>3. Still(updates, d, MinHits)
    <2>1. ASSUME NEW k \in Len(updates) - MinHits + 1 .. Len(updates)
          PROVE  Apart(updates[k], d)
        <3> DEFINE near == {n \in DOMAIN updates[k] :
                              /\ updates[k][n].class = d.class
                              /\ Distance(updates[k][n].at, d.at) <= Jitter}
        <3>1. PICK n \in near : near = {n} /\ updates[k][n] = d
            BY DEF Steady
        <3>2. n \in DOMAIN updates[k]
            OBVIOUS
        <3>3. \A j \in DOMAIN updates[k] :
                 updates[k][j].class = d.class /\ Distance(updates[k][j].at, d.at) <= Jitter => j = n
            BY <3>1
        <3> QED
            BY <3>1, <3>2, <3>3 DEF Apart
    <2> QED
        BY <2>1 DEF Steady, Still
<1>4. PICK i : Holds(tracks, d, i, MinHits)
    <2>1. MinHits \in 1 .. MinHits
        BY <1>1
    <2> QED
        BY <1>2, <1>3, <2>1 DEF TrackerInv, Memory, Followed
<1>5. /\ i \in 1 .. Len(tracks) /\ tracks[i].confirmed /\ tracks[i].class = d.class
      /\ tracks[i].at = d.at
    BY <1>1, <1>4 DEF Holds, AtPlace
<1>6. d = [class |-> tracks[i].class, at |-> tracks[i].at]
    BY <1>2, <1>5, ShownIs
<1> QED
    BY <1>1, <1>5, <1>6, ReportedIs

(* Nothing is tracked at first.                                            *)
LEMMA TrackerInitially == PerceptionInit => TrackerInv
<1> SUFFICES ASSUME PerceptionInit PROVE TrackerInv
    OBVIOUS
<1>1. Simple
    <2>1. MaxWrites \in Nat /\ MaxWrites >= 1 /\ TTL \in Nat
        BY PerceptionAssumption
    <2>2. file \in [mtime : 1 .. MaxWrites, text : Texts]
        BY <2>1 DEF PerceptionInit
    <2>3. cache \in [mtime : 0 .. MaxWrites, valid : BOOLEAN]
        BY <2>1 DEF PerceptionInit, NoCache
    <2>4. slot \in BOOLEAN /\ placed \in BOOLEAN
        BY DEF PerceptionInit
    <2>5. lastAge \in 0 .. TTL /\ rgbAge \in 0 .. TTL
        BY <2>1 DEF PerceptionInit
    <2> QED
        BY <2>2, <2>3, <2>4, <2>5 DEF Simple
<1>2. Samples
    BY PerceptionAssumption DEF PerceptionInit, Samples
<1>3. tracks = <<>> /\ updates = <<>> /\ Len(updates) = 0 /\ Len(tracks) = 0
    BY DEF PerceptionInit
<1>4. TracksTrue
    BY <1>3 DEF TracksTrue
<1>5. History(updates)
    BY <1>3, KeptIs DEF History
<1>6. Followed(tracks, updates)
    <2> SUFFICES ASSUME NEW d \in Item, NEW n \in 1 .. MinHits PROVE ~Still(updates, d, n)
        BY DEF Followed
    <2>1. ~(Len(updates) >= n)
        BY <1>3, PerceptionAssumption
    <2> QED
        BY <2>1 DEF Still
<1> QED
    BY <1>1, <1>2, <1>4, <1>5, <1>6 DEF TrackerInv, Memory

(* A write of the file keeps its type.                                     *)
LEMMA FileTyped ==
    ASSUME Simple, NEW new \in Writes PROVE new \in [mtime : 1 .. MaxWrites, text : Texts]
<1>1. file.mtime # MaxWrites /\ new \in [mtime : {file.mtime + 1}, text : Texts]
    BY DEF Writes
<1>2. file.mtime + 1 \in 1 .. MaxWrites
    BY <1>1, PerceptionAssumption DEF Simple
<1> QED
    BY <1>1, <1>2

(* Reading the calibration keeps the types of the file and of the verdict. *)
LEMMA StatusTyped ==
    ASSUME Simple, NEW valid \in BOOLEAN, CalibrationStatus(valid)
    PROVE  /\ file' \in [mtime : 1 .. MaxWrites, text : Texts]
           /\ cache' \in [mtime : 0 .. MaxWrites, valid : BOOLEAN]
<1>1. CASE UNCHANGED <<file, cache>>
    BY <1>1 DEF Simple
<1>2. CASE /\ file' \in {file} \cup Writes
           /\ valid = Verdict(file'.text)
           /\ cache' = IF file.text = "absent" THEN cache
                       ELSE [mtime |-> file.mtime, valid |-> valid]
    <2>1. file' \in [mtime : 1 .. MaxWrites, text : Texts]
        BY <1>2, FileTyped DEF Simple
    <2>2. file.mtime \in 0 .. MaxWrites
        BY PerceptionAssumption DEF Simple
    <2>3. [mtime |-> file.mtime, valid |-> valid] \in [mtime : 0 .. MaxWrites, valid : BOOLEAN]
        BY <2>2
    <2> QED
        BY <1>2, <2>1, <2>3 DEF Simple
<1> QED
    BY <1>1, <1>2 DEF CalibrationStatus

(* What leaves the tracker alone keeps what is true of it.                 *)
LEMMA MemoryStays ==
    ASSUME Memory, UNCHANGED <<tracks, updates>>
    PROVE  Memory'
    BY DEF Memory, TracksTrue, Followed

(* What leaves the samples alone keeps their number.                       *)
LEMMA SamplesStay == ASSUME Samples, UNCHANGED samples PROVE Samples'
    BY DEF Samples

(* An update of the tracker keeps what is true of it.                      *)
LEMMA MemoryGrows ==
    ASSUME Memory, NEW clusters \in Clouds,
           tracks' = Update(tracks, TrackerItems(clusters)),
           updates' = Newest(Append(updates, TrackerItems(clusters)), Kept)
    PROVE  Memory'
<1> DEFINE ds == TrackerItems(clusters)
<1>1. ds \in Seq(Item)
    BY ItemsAre
<1>2. updates' = With(updates, ds)
    BY DEF With
<1>3. tracks' = Update(tracks, ds)
    OBVIOUS
<1> HIDE DEF ds
<1>4. /\ tracks \in Seq(TrackT) /\ History(updates) /\ Followed(tracks, updates)
      /\ \A i \in 1 .. Len(tracks) : Sound(tracks[i]) /\ Seen(tracks[i], updates)
    BY DEF Memory, TracksTrue
<1>5. /\ Update(tracks, ds) \in Seq(TrackT)
      /\ \A i \in 1 .. Len(Update(tracks, ds)) :
            /\ Sound(Update(tracks, ds)[i])
            /\ Seen(Update(tracks, ds)[i], With(updates, ds))
            /\ Alive(Update(tracks, ds)[i])
    BY <1>1, <1>4, UpdateIs
<1>6. History(With(updates, ds))
    BY <1>1, <1>4, HistoryGrows
<1>7. Followed(Update(tracks, ds), With(updates, ds))
    BY <1>1, <1>4, UpdateFollows
<1>8. TracksTrue'
    <2>1. /\ tracks' \in Seq(TrackT)
          /\ \A i \in 1 .. Len(tracks') :
                Sound(tracks'[i]) /\ Seen(tracks'[i], updates') /\ Alive(tracks'[i])
        BY <1>2, <1>3, <1>5
    <2> QED
        BY <2>1 DEF TracksTrue
<1>9. History(updates') /\ Followed(tracks', updates')
    BY <1>2, <1>3, <1>6, <1>7
<1> QED
    BY <1>8, <1>9 DEF Memory

(* The samples of the depth stay bounded.                                  *)
LEMMA SamplesGrow ==
    ASSUME Samples, NEW clusters \in Clouds,
           samples' = Newest(samples \o InRange(clusters), MaxSamples)
    PROVE  Samples'
<1> DEFINE r == InRange(clusters)
           s == samples \o r
<1>1. r \in Seq(BOOLEAN) /\ samples \in Seq(BOOLEAN) /\ MaxSamples \in Nat
    BY ItemsAre, PerceptionAssumption DEF Samples
<1> HIDE DEF r
<1>2. s \in Seq(BOOLEAN)
    BY <1>1
<1>3. samples' = Newest(s, MaxSamples)
    BY DEF r
<1> HIDE DEF s
<1>4. /\ Newest(s, MaxSamples) \in Seq(BOOLEAN)
      /\ Len(Newest(s, MaxSamples)) = (IF Len(s) <= MaxSamples THEN Len(s) ELSE MaxSamples)
    BY <1>1, <1>2, NewestIs
<1>5. Len(Newest(s, MaxSamples)) <= MaxSamples
    BY <1>1, <1>2, <1>4
<1> QED
    BY <1>3, <1>4, <1>5 DEF Samples

(* An age stops at the TTL.                                                *)
LEMMA AgeIs == ASSUME NEW a \in 0 .. TTL PROVE Age(a) \in 0 .. TTL
    BY PerceptionAssumption DEF Age

(* A cloud with clusters keeps the tracker.                                *)
LEMMA DetectKeeps ==
    ASSUME Samples, Memory, lastAge \in 0 .. TTL, NEW clusters \in Clouds, DetectObjects(clusters)
    PROVE  Samples' /\ Memory' /\ lastAge' \in 0 .. TTL
<1>1. /\ tracks' = Update(tracks, TrackerItems(clusters))
      /\ updates' = Newest(Append(updates, TrackerItems(clusters)), Kept)
      /\ samples' = Newest(samples \o InRange(clusters), MaxSamples)
      /\ lastAge' = 0
    BY DEF DetectObjects
<1>2. lastAge' \in 0 .. TTL
    BY <1>1, PerceptionAssumption
<1>3. Memory'
    BY <1>1, MemoryGrows
<1>4. Samples'
    BY <1>1, SamplesGrow
<1> QED
    BY <1>2, <1>3, <1>4

(* Clearing the scene leaves the tracker alone.                            *)
LEMMA ClearKeeps ==
    ASSUME Samples, Memory, lastAge \in 0 .. TTL, ClearScene
    PROVE  Samples' /\ Memory' /\ lastAge' \in 0 .. TTL
<1>1. UNCHANGED samples /\ UNCHANGED <<tracks, updates>> /\ UNCHANGED lastAge
    BY DEF ClearScene
<1> QED
    BY <1>1, MemoryStays, SamplesStay

(* Any cloud keeps the tracker.                                            *)
LEMMA ProcessKeeps ==
    ASSUME Samples, Memory, lastAge \in 0 .. TTL, placed \in BOOLEAN,
           NEW clusters \in Clouds, NEW transform \in BOOLEAN, ProcessCloud(clusters, transform)
    PROVE  Samples' /\ Memory' /\ lastAge' \in 0 .. TTL /\ placed' \in BOOLEAN
<1>1. CASE ~(placed \/ transform)
    <2>1. ClearScene /\ UNCHANGED placed
        BY <1>1 DEF ProcessCloud
    <2> QED
        BY <2>1, ClearKeeps
<1>2. CASE placed \/ transform
    <2>1. /\ placed' = TRUE
          /\ \/ DetectObjects(clusters)
             \/ UNCHANGED <<tracks, last, lastAge, ids, world, samples, frames, updates>>
        BY <1>2 DEF ProcessCloud
    <2>2. CASE DetectObjects(clusters)
        BY <2>1, <2>2, DetectKeeps
    <2>3. CASE UNCHANGED <<tracks, last, lastAge, ids, world, samples, frames, updates>>
        <3>1. /\ UNCHANGED samples /\ UNCHANGED <<tracks, updates>>
              /\ UNCHANGED lastAge
            BY <2>3
        <3> QED
            BY <2>1, <3>1, MemoryStays, SamplesStay
    <2> QED
        BY <2>1, <2>2, <2>3
<1> QED
    BY <1>1, <1>2

(* Every callback and timer keeps the invariant.                           *)
LEMMA TrackerStep == TrackerInv /\ [PerceptionNext]_perception => TrackerInv'
<1> SUFFICES ASSUME TrackerInv, [PerceptionNext]_perception PROVE TrackerInv'
    OBVIOUS
<1>1. Simple /\ Samples /\ Memory
    BY DEF TrackerInv
<1>2. /\ lastAge \in 0 .. TTL /\ rgbAge \in 0 .. TTL /\ slot \in BOOLEAN
      /\ placed \in BOOLEAN
    BY <1>1 DEF Simple
<1>3. Samples' /\ Memory' /\ Simple' => TrackerInv'
    BY DEF TrackerInv
<1>4. CASE OnCloud
    <2>1. /\ slot' = TRUE /\ UNCHANGED <<file, cache, placed, lastAge, rgbAge>>
          /\ UNCHANGED samples /\ UNCHANGED <<tracks, updates>>
        BY <1>4 DEF OnCloud, calibration, scene, grounding
    <2>2. Simple'
        BY <1>1, <2>1 DEF Simple
    <2> QED
        BY <1>1, <1>3, <2>1, <2>2, MemoryStays, SamplesStay
<1>5. CASE ProcessLatestCloud
    <2>1. slot' = FALSE /\ UNCHANGED rgbAge
        BY <1>5 DEF ProcessLatestCloud, grounding
    <2>2. PICK valid \in BOOLEAN :
            /\ CalibrationStatus(valid)
            /\ \/ ClearScene /\ UNCHANGED placed
               \/ UNCHANGED scene
               \/ \E clusters \in Clouds, transform \in BOOLEAN : ProcessCloud(clusters, transform)
        BY <1>5 DEF ProcessLatestCloud
    <2>3. Samples' /\ Memory' /\ lastAge' \in 0 .. TTL /\ placed' \in BOOLEAN
        <3>1. CASE ClearScene /\ UNCHANGED placed
            BY <1>1, <1>2, <3>1, ClearKeeps
        <3>2. CASE UNCHANGED scene
            <4>1. /\ UNCHANGED placed /\ UNCHANGED samples
                  /\ UNCHANGED <<tracks, updates>> /\ UNCHANGED lastAge
                BY <3>2 DEF scene
            <4> QED
                BY <1>1, <1>2, <4>1, MemoryStays, SamplesStay
        <3>3. CASE \E clusters \in Clouds, transform \in BOOLEAN : ProcessCloud(clusters, transform)
            BY <1>1, <1>2, <3>3, ProcessKeeps
        <3> QED
            BY <2>2, <3>1, <3>2, <3>3
    <2>4. /\ file' \in [mtime : 1 .. MaxWrites, text : Texts]
          /\ cache' \in [mtime : 0 .. MaxWrites, valid : BOOLEAN]
        BY <1>1, <2>2, StatusTyped
    <2>5. Simple'
        BY <1>2, <2>1, <2>3, <2>4 DEF Simple
    <2> QED
        BY <1>3, <2>3, <2>5
<1>6. CASE PublishDetections
    <2>1. UNCHANGED <<slot, placed, rgbAge>>
        BY <1>6 DEF PublishDetections, grounding
    <2>2. PICK valid \in BOOLEAN :
            /\ CalibrationStatus(valid)
            /\ \/ ClearScene
               \/ UNCHANGED <<lastAge, samples, tracks, frames, updates>>
        BY <1>6 DEF PublishDetections
    <2>3. Samples' /\ Memory' /\ lastAge' \in 0 .. TTL
        <3>1. CASE ClearScene
            BY <1>1, <1>2, <3>1, ClearKeeps
        <3>2. CASE UNCHANGED <<lastAge, samples, tracks, frames, updates>>
            <4>1. /\ UNCHANGED samples /\ UNCHANGED <<tracks, updates>>
                  /\ UNCHANGED lastAge
                BY <3>2
            <4> QED
                BY <1>1, <1>2, <4>1, MemoryStays, SamplesStay
        <3> QED
            BY <2>2, <3>1, <3>2
    <2>4. /\ file' \in [mtime : 1 .. MaxWrites, text : Texts]
          /\ cache' \in [mtime : 0 .. MaxWrites, valid : BOOLEAN]
        BY <1>1, <2>2, StatusTyped
    <2>5. Simple'
        BY <1>2, <2>1, <2>3, <2>4 DEF Simple
    <2> QED
        BY <1>3, <2>3, <2>5
<1>7. CASE OnRgbDetections
    <2>1. /\ rgbAge' = 0 /\ UNCHANGED <<file, cache, slot, placed, lastAge>>
          /\ UNCHANGED samples /\ UNCHANGED <<tracks, updates>>
        BY <1>7 DEF OnRgbDetections, calibration, scene
    <2>2. rgbAge' \in 0 .. TTL
        BY <2>1, PerceptionAssumption
    <2>3. Simple'
        BY <1>1, <2>1, <2>2 DEF Simple
    <2> QED
        BY <1>1, <1>3, <2>1, <2>3, MemoryStays, SamplesStay
<1>8. CASE HandleGetObjectPositions
    <2>1. /\ UNCHANGED <<slot, placed, lastAge, rgbAge>>
          /\ UNCHANGED samples /\ UNCHANGED <<tracks, updates>>
        BY <1>8 DEF HandleGetObjectPositions, scene
    <2>2. PICK valid \in BOOLEAN : CalibrationStatus(valid)
        BY <1>8 DEF HandleGetObjectPositions
    <2>3. /\ file' \in [mtime : 1 .. MaxWrites, text : Texts]
          /\ cache' \in [mtime : 0 .. MaxWrites, valid : BOOLEAN]
        BY <1>1, <2>2, StatusTyped
    <2>4. Simple'
        BY <1>2, <2>1, <2>3 DEF Simple
    <2> QED
        BY <1>1, <1>3, <2>1, <2>4, MemoryStays, SamplesStay
<1>9. CASE Tick
    <2>1. /\ lastAge' = Age(lastAge) /\ rgbAge' = Age(rgbAge)
          /\ UNCHANGED <<file, cache, slot, placed>>
          /\ UNCHANGED samples /\ UNCHANGED <<tracks, updates>>
        BY <1>9 DEF Tick, calibration
    <2>2. lastAge' \in 0 .. TTL /\ rgbAge' \in 0 .. TTL
        BY <1>2, <2>1, AgeIs
    <2>3. Simple'
        BY <1>1, <2>1, <2>2 DEF Simple
    <2> QED
        BY <1>1, <1>3, <2>1, <2>3, MemoryStays, SamplesStay
<1>10. CASE WriteCalibration
    <2>1. /\ file' \in Writes /\ UNCHANGED <<cache, slot, placed, lastAge, rgbAge>>
          /\ UNCHANGED samples /\ UNCHANGED <<tracks, updates>>
        BY <1>10 DEF WriteCalibration, scene, grounding
    <2>2. file' \in [mtime : 1 .. MaxWrites, text : Texts]
        BY <1>1, <2>1, FileTyped
    <2>3. Simple'
        BY <1>1, <2>1, <2>2 DEF Simple
    <2> QED
        BY <1>1, <1>3, <2>1, <2>3, MemoryStays, SamplesStay
<1>11. CASE UNCHANGED perception
    <2>1. /\ UNCHANGED <<file, cache, slot, placed, lastAge, rgbAge>>
          /\ UNCHANGED samples /\ UNCHANGED <<tracks, updates>>
        BY <1>11 DEF perception, calibration, scene, grounding
    <2>2. Simple'
        BY <1>1, <2>1 DEF Simple
    <2> QED
        BY <1>1, <1>3, <2>1, <2>2, MemoryStays, SamplesStay
<1> QED
    BY <1>4, <1>5, <1>6, <1>7, <1>8, <1>9, <1>10, <1>11 DEF PerceptionNext

(* TemporalTracker.update: whatever clouds come in and whenever the        *)
(* calibration or the transform is lost, a confirmed track was seen where  *)
(* it is reported in one of the last MissTolerance + 1 updates, and a      *)
(* detection that stood still and apart for MinHits updates is reported.   *)
THEOREM TrackerStaysTrue == PerceptionSpec => []TrackerIsTrue
<1>1. TrackerInv => TrackerIsTrue
    BY TrackerTypes, NoGhostsHere, SteadyHere DEF TrackerIsTrue
<1> QED
    BY TrackerInitially, TrackerStep, <1>1, PTL DEF PerceptionSpec
=================================================================================
