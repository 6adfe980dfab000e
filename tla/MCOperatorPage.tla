----------------------------- MODULE MCOperatorPage -----------------------------
(* The operator's page for TLC: an arm of two joints, jogs of either kind  *)
(* with one that is rejected, and the groups of sources that may send.     *)
EXTENDS OperatorPage

Joints2 == <<"joint_1_s", "joint_2_l">>
Limits == [j \in {"joint_1_s", "joint_2_l"} |-> [min |-> -2, max |-> 2]]
Points == {[names |-> Joints2, positions |-> <<3, -3>>],
           [names |-> Joints2, positions |-> <<4, 0>>]}
Jogs == {[joint |-> 1, dir |-> 1, discrete |-> FALSE],
         [joint |-> 2, dir |-> -1, discrete |-> FALSE],
         [joint |-> 2, dir |-> 1, discrete |-> TRUE],
         [joint |-> 0, dir |-> 1, discrete |-> FALSE]}
Groups == {{"robot", "readiness", "alert", "primary", "fallback"},
           {"gateway", "debug", "command", "readiness", "primary"},
           {"readiness", "validate", "execute", "review"}}
================================================================================
