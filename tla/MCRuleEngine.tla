---------------------------- MODULE MCRuleEngine ----------------------------
(* RuleEngine for TLC: interchangeable rules and engines. *)
EXTENDS RuleEngine, TLC

Symmetric == Permutations(Rule) \cup Permutations(Engine)

(* Executors that are refused the lock or succeed, without a state to save: an
   engine treats every exit alike, but for the status it passes on. *)
BriskSpec ==
    /\ EngineInit
    /\ [][EngineNext /\ \A p \in Process :
              code'[p] \in {0, 1} /\ step'[p] \notin {"open", "killed"}]_allVars

FairBriskSpec == BriskSpec /\ Fairness
=============================================================================
