----------------------------- MODULE MCSessions -----------------------------
(* A symmetric instance of Sessions for TLC. *)
EXTENDS Sessions, TLC

Symmetry == Permutations(Requests) \cup Permutations(Users) \cup Permutations(Tokens)
=============================================================================
