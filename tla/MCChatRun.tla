------------------------------ MODULE MCChatRun ------------------------------
(* Two runs of one session, the constants of the chat run's checks. *)
EXTENDS ChatRun, TLC
CONSTANTS s1

OneSession == [r \in Runs |-> s1]
BeatOnly == {"beat"}
StorePrepareKill == {"store", "prepare", "kill"}
AllFaults == FaultKinds
Symmetry == Permutations(Runs)

\* The server cuts one of the requests: what it leaves behind meets the other.
OneCut == Cardinality({r \in Runs : run[r].killed}) <= 1
=============================================================================
