------------------------------ MODULE MCTsh ------------------------------
(* Instances of Tsh for TLC. *)
EXTENDS Tsh, TLC

(* mask_one holds what the code means it to hold: SIGCHLD, and perhaps more. *)
MasksWithSigchld == {{"CHLD"}, Signals}

Symmetry == Permutations(Pids)
=============================================================================
