----------------------------- MODULE MCRateLimit -----------------------------
(* A symmetric instance of RateLimit for TLC. *)
EXTENDS RateLimit, TLC

Symmetry == Permutations(Requests)
=============================================================================
