------------------------------- MODULE MCDvv -------------------------------
(* Dvv on two or three servers, for TLC. *)
EXTENDS Dvv, TLC

Symmetric == Permutations(Server) \cup Permutations(Client)
=============================================================================
