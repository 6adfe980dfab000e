------------------------------ MODULE MCHwAdapter ------------------------------
(* hw_adapter in two halves, each explored on its own: its dispatch goals, *)
(* and the monitors that share the executor with its services.             *)
EXTENDS HwAdapter, HwMonitors

VARIABLE half   \* the half that this behaviour is about

ASSUME OneNode == Simulated = SimMode

NodeInit ==
    /\ half \in {"dispatches", "monitors"}
    /\ Init
    /\ MonitorsInit /\ (half = "dispatches" => ~output)

Dispatches(A) == half = "dispatches" /\ A /\ UNCHANGED <<half, monitors>>
Monitors(A) == half = "monitors" /\ A /\ UNCHANGED <<half, vars>>

NodeNext == Dispatches(Next) \/ Monitors(MonitorsNext)

node == <<half, vars, monitors>>

\* The threads of a dispatch keep running; the executor looks at its timers
\* before all else that is ready.
NodeSpec ==
    /\ NodeInit /\ [][NodeNext]_node
    /\ \A d \in Dispatch :
          WF_node(Dispatches(WorkerStep(d))) /\ WF_node(Dispatches(WatcherStep(d)))
    /\ WF_node(Monitors(Tick)) /\ WF_node(Monitors(EndService))
    /\ SF_node(Monitors(\E reachable \in BOOLEAN : PollTool(reachable)))
=============================================================================
