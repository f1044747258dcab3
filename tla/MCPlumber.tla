----------------------------- MODULE MCPlumber -----------------------------
(* Plumber for TLC: a few requests, cookies and calls. *)
EXTENDS Plumber, TLC
=============================================================================
