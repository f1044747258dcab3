---------------------------- MODULE MCPullToHdfs ----------------------------
(* PullToHdfs for TLC: interchangeable collectors. *)
EXTENDS PullToHdfs, TLC

Symmetric == Permutations(Collector)
=============================================================================
