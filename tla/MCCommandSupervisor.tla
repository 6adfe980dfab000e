------------------------- MODULE MCCommandSupervisor -------------------------
(* The supervisor for TLC: request threads are interchangeable.            *)
EXTENDS CommandSupervisor, TLC

ThreadSymmetry == Permutations(Thread)
=============================================================================
