-------------------------- MODULE MCDvvRefinement --------------------------
(* DvvRefinement for TLC. *)
EXTENDS DvvRefinement, TLC
Symmetric == Permutations(Server) \cup Permutations(Client)
=============================================================================
