------------------------------ MODULE MCListing ------------------------------
(* A symmetric instance of Listing for TLC. *)
EXTENDS Listing, TLC

Symmetry == Permutations(Tasks) \cup Permutations(Writers)
=============================================================================
