------------------------------- MODULE MCTasks -------------------------------
(* Symmetric instances of TaskProperties and TaskClaims for TLC. *)
EXTENDS TaskClaims, TLC

Symmetry == Permutations(Requests) \cup Permutations(Tasks)
              \cup Permutations(Users) \cup Permutations(Contents)
=============================================================================
