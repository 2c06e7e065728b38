----------------------------- MODULE MCTaskBoard -----------------------------
(* The constants of the task board's model-checking runs. *)
EXTENDS TaskBoard, TLC

CONSTANTS c1, c2

Symmetry == Permutations(Callers)
=============================================================================
