------------------------------ MODULE MCObservers ------------------------------
(* The observers for TLC: three goals, of which the first may take longer  *)
(* than the others.                                                        *)
EXTENDS Observers

MCAllowed == [g \in Goal |-> IF g = 1 THEN 3 ELSE 1]
================================================================================
