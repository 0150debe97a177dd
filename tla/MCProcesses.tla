---------------------------- MODULE MCProcesses ----------------------------
(* Processes for TLC: processes are model values and never ordered, one of  *)
(* the launchers runs in another session, and the machines that end early   *)
(* or branch most get smaller bounds.                                       *)
EXTENDS Processes, TLC
CONSTANTS other, s1, s2
MCSessionOf == [l \in Launcher |-> IF l = other THEN s2 ELSE s1]
MCStarts == [m \in Machine |-> IF m = "sound" THEN 3 ELSE 2]
MCSaves == [m \in Machine |-> IF m = "unprotected" THEN 1 ELSE 2]
Symmetry == Permutations(Process)
=============================================================================
