------------------------------ MODULE MCRunLock ------------------------------
(* The constants of the session lock's model-checking runs. *)
EXTENDS RunLock, TLC
CONSTANTS s1

OneSession == [r \in Runs |-> s1]
AllFaults == FaultKinds
StoreAndCancel == {"store", "cancel"}
Symmetry == Permutations(Runs)
=============================================================================
