-------------------------- MODULE RuleEngineProofs --------------------------
(***************************************************************************)
(* The processes that engines fork behave as RuleExecutor has them, so     *)
(* that what holds for processes forked in any way holds for czil.         *)
(***************************************************************************)
EXTENDS RuleEngine, RuleExecutorProofs, FiniteSetTheorems

(* The rules an engine still has to apply are rules of its configuration. *)
Graphs ==
    /\ depends \in [Rule -> SUBSET Rule]
    /\ DOMAIN rulegraph = Engine
    /\ \A e \in Engine : DOMAIN rulegraph[e] \subseteq Rule

\* No engine has a graph before it starts.
LEMMA InitGraphs == EngineInit => Graphs
  BY DEF EngineInit, Graphs

(* What _run_executors does to the processes is to fork some of them, each for
   a rule of the graph. *)
LEMMA StartsFork ==
  ASSUME NEW e \in Engine, NEW g, DOMAIN g \subseteq Rule, NEW running, NEW known, Graphs,
         run_executors(e, g, running, known)
  PROVE  /\ \E P \in SUBSET Process : \E started \in [P -> Rule] : Fork(started)
         /\ DOMAIN rulegraph' = Engine
         /\ \A f \in Engine : DOMAIN rulegraph'[f] \subseteq Rule
  <1>1. PICK s \in Starts(g, running) : Fork(s) /\ rulegraph' = [rulegraph EXCEPT ![e] = g]
    BY DEF run_executors
  <1>2. PICK P \in SUBSET Process : s \in [P -> Free(g)]
    BY DEF Starts, kSubset
  <1>3. s \in [P -> Rule]
    BY <1>2 DEF Free
  <1>4. \A f \in Engine : DOMAIN rulegraph'[f] \subseteq Rule
    BY <1>1 DEF Graphs
  <1> QED
    BY <1>1, <1>3, <1>4 DEF Graphs

\* An engine that starts works on the rules of its configuration.
LEMMA StartForks ==
  ASSUME Graphs, NEW e \in Engine, Start(e)
  PROVE  Graphs' /\ [Next]_vars
  <1>1. CASE run_executors(e, depends, 0, states[e])
    <2>1. DOMAIN depends \subseteq Rule
      BY DEF Graphs
    <2> QED
      BY <1>1, <2>1, StartsFork DEF Start, Graphs, Next
  <1>2. CASE UNCHANGED <<vars, rulegraph>>
    BY <1>2 DEF Start, Graphs
  <1> QED
    BY <1>1, <1>2 DEF Start

\* An engine that is told of an exit works on what is left.
LEMMA ChildExitForks ==
  ASSUME Graphs, NEW e \in Engine, NEW p \in Process, ChildExit(e, p)
  PROVE  Graphs' /\ [Next]_vars
  <1>1. DOMAIN WithoutRule(rulegraph[e], rule[p]) \subseteq Rule
    BY DEF Graphs, WithoutRule
  <1> QED
    BY <1>1, StartsFork DEF ChildExit, Graphs, Next

\* The processes take a step of their own.
LEMMA ProcessesRun ==
  ASSUME Graphs, Processes
  PROVE  Graphs' /\ [Next]_vars
  BY DEF Processes, engineVars, Graphs, Next

\* One step per action of EngineNext.
LEMMA EngineStep == Graphs /\ [EngineNext]_allVars => Graphs' /\ [Next]_vars
  <1> SUFFICES ASSUME Graphs, [EngineNext]_allVars PROVE Graphs' /\ [Next]_vars
    OBVIOUS
  <1>1. CASE UNCHANGED allVars
    BY <1>1 DEF allVars, engineVars, Graphs
  <1>2. ASSUME NEW e \in Engine, KillEngine(e) PROVE Graphs' /\ [Next]_vars
    BY <1>2 DEF KillEngine, Graphs
  <1> QED
    BY <1>1, <1>2, StartForks, ChildExitForks, ProcessesRun DEF EngineNext

(* Each behaviour of engines, any number of them with any limit and any
   configuration, is one of RuleExecutor. *)
THEOREM EnginesForkExecutors == EngineSpec => Spec
  <1>1. EngineInit => Init
    BY DEF EngineInit
  <1> QED
    BY <1>1, InitGraphs, EngineStep, PTL DEF EngineSpec, Spec

(* One process at a time applies a rule, whatever engines start, start again or
   leave behind. *)
THEOREM EnginesExclude == EngineSpec => []Exclusive
  BY EnginesForkExecutors, MutualExclusion, PTL

(* The state file of a half-done execution stays until it is rolled back, and no engine
   has the rule executed again before that. *)
THEOREM EnginesUndo == EngineSpec => []Undoable /\ RollbackFirst
  BY EnginesForkExecutors, AlwaysUndoable, RollsBackFirst, PTL
-----------------------------------------------------------------------------
(* What engines keep of their rules and processes *)

Ended(p) == step[p] \in {"exited", "killed"}
Started(e) == phase[e] \in {"running", "killed"}

\* The process q of the engine has ended with that status, and the engine knows.
Witness(e, r, status) ==
    \E q \in Process : owner[q] = e /\ rule[q] = r /\ reaped[q] /\ Status(q) = status

EngineTypes ==
    /\ depends \in [Rule -> SUBSET Rule]
    /\ phase \in [Engine -> {"new", "refused", "running", "killed"}]
    /\ DOMAIN rulegraph = Engine
    /\ \A e \in Engine : \E R \in SUBSET Rule : rulegraph[e] \in [R -> SUBSET R]
    /\ states \in [Engine -> [Rule -> Statuses]]
    /\ owner \in [Process -> Engine \cup {NoEngine}]
    /\ reaped \in [Process -> BOOLEAN]
    /\ DOMAIN exit_codes = Process
    /\ \A p \in Process : \E R \in SUBSET Rule : exit_codes[p] \in [R -> Statuses \ {NotStarted}]

\* What is left of a graph, given the rules that are still in it.
LeftOver(g) ==
    /\ DOMAIN g \subseteq Rule /\ g \in [DOMAIN g -> SUBSET DOMAIN g]
    /\ \A r \in DOMAIN g : g[r] = depends[r] \cap DOMAIN g

(* A rule has left the graph because a process for it has ended; that of a
   process which is forked has no predecessor there. *)
Book ==
    /\ EngineTypes
    /\ \A p \in Process : step[p] = "unborn" => owner[p] = NoEngine
    /\ \A p \in Process : step[p] # "unborn" => owner[p] \in Engine /\ Started(owner[p])
    /\ \A p \in Process : reaped[p] => Ended(p)
    /\ \A e \in Engine : Started(e) =>
         /\ LeftOver(rulegraph[e])
         /\ \A r \in Rule \ DOMAIN rulegraph[e] : Witness(e, r, states[e][r])
    /\ \A p \in Process : step[p] # "unborn" =>
         \A d \in depends[rule[p]] : /\ d # rule[p] /\ d \in DOMAIN exit_codes[p]
                                     /\ Witness(owner[p], d, exit_codes[p][d])

LEMMA InitBook == EngineInit => Book
  <1> SUFFICES ASSUME EngineInit PROVE Book
    OBVIOUS
  <1>1. NotStarted \in Statuses
    BY DEF Statuses
  <1>2. \A e \in Engine : rulegraph[e] \in [{} -> SUBSET {}]
    BY DEF EngineInit
  <1>3. \A p \in Process : exit_codes[p] \in [{} -> Statuses \ {NotStarted}]
    BY DEF EngineInit
  <1> QED
    BY <1>1, <1>2, <1>3 DEF EngineInit, Init, Book, EngineTypes, Started

\* A process that has ended has a status.
LEMMA StatusFact ==
  ASSUME TypeOK, NEW p \in Process
  PROVE  Status(p) \in Statuses \ {NotStarted}
  BY DEF TypeOK, Status, Statuses, NotStarted, TermSignal, Unknown

\* _run_executors, for a graph whose missing rules have ended.
LEMMA ForkBook ==
  ASSUME Book, TypeOK, TypeOK', NEW e \in Engine, NEW g, NEW running, NEW known,
         run_executors(e, g, running, known), UNCHANGED depends, LeftOver(g),
         known \in [Rule -> Statuses],
         phase' \in [Engine -> {"new", "refused", "running", "killed"}],
         phase'[e] = "running", \A f \in Engine \ {e} : phase'[f] = phase[f],
         reaped' \in [Process -> BOOLEAN],
         \A p \in Process : (reaped[p] => reaped'[p]) /\ (reaped'[p] => Ended(p)),
         \A r \in Rule \ DOMAIN g : \E q \in Process : /\ owner[q] = e /\ rule[q] = r /\ reaped'[q]
                                                       /\ Status(q) = known[r]
  PROVE  Book'
  <1>1. PICK s \in Starts(g, running) :
           /\ Fork(s)
           /\ rulegraph' = [rulegraph EXCEPT ![e] = g]
           /\ owner' = [p \in Process |-> IF p \in DOMAIN s THEN e ELSE owner[p]]
           /\ exit_codes' = [p \in Process |->
                                IF p \in DOMAIN s THEN Told(s[p], known) ELSE exit_codes[p]]
           /\ states' = [states EXCEPT ![e] = [r \in Rule |->
                            IF \E p \in DOMAIN s : s[p] = r THEN Unknown ELSE known[r]]]
    BY DEF run_executors
  <1>2. PICK P \in SUBSET Process : s \in [P -> Free(g)]
    BY <1>1 DEF Starts, kSubset
  <1>3. \A p \in P : s[p] \in DOMAIN g /\ g[s[p]] = {} /\ s[p] \in Rule /\ step[p] = "unborn"
    BY <1>1, <1>2 DEF Free, Fork, LeftOver
  <1>4. \A p \in Process : /\ p \in P => step'[p] = "lock" /\ rule'[p] = s[p] /\ owner'[p] = e
                                         /\ exit_codes'[p] = Told(s[p], known)
                           /\ p \notin P => /\ step'[p] = step[p] /\ rule'[p] = rule[p]
                                            /\ owner'[p] = owner[p] /\ exit_codes'[p] = exit_codes[p]
                           /\ code'[p] = code[p]
    BY <1>1, <1>2 DEF Fork
  <1>5. \A q \in Process : reaped'[q] => q \notin P /\ Status(q)' = Status(q)
    BY <1>3, <1>4 DEF Ended, Status
  \* Those who know of an end go on knowing.
  <1>6. \A f, r, status : Witness(f, r, status) => Witness(f, r, status)'
    BY <1>4, <1>5 DEF Witness
  <1>7. \A r \in Rule \ DOMAIN g : Witness(e, r, known[r])'
    BY <1>4, <1>5 DEF Witness
  <1>8. \A r \in Rule : known[r] \in Statuses
    OBVIOUS
  <1>9. /\ states' \in [Engine -> [Rule -> Statuses]]
        /\ \A r \in Rule \ DOMAIN g : states'[e][r] = known[r]
        /\ \A f \in Engine \ {e} : states'[f] = states[f]
    <2>1. [r \in Rule |-> IF \E p \in DOMAIN s : s[p] = r THEN Unknown ELSE known[r]]
             \in [Rule -> Statuses]
      BY DEF Statuses
    <2> QED
      BY <1>1, <1>2, <1>3, <2>1 DEF Book, EngineTypes
  <1>10. /\ DOMAIN rulegraph' = Engine /\ rulegraph'[e] = g
         /\ \A f \in Engine \ {e} : rulegraph'[f] = rulegraph[f]
    BY <1>1 DEF Book, EngineTypes
  <1>11. \A r \in DOMAIN g : g[r] = {} => \A d \in depends[r] : d \in Rule \ DOMAIN g /\ d # r
    BY DEF LeftOver, Book, EngineTypes
  <1>12. \A p \in P : Told(s[p], known) \in [depends[s[p]] -> Statuses \ {NotStarted}]
    <2> SUFFICES ASSUME NEW p \in P, NEW d \in depends[s[p]]
                 PROVE  known[d] \in Statuses \ {NotStarted}
      BY DEF Told
    <2>1. d \in Rule \ DOMAIN g
      BY <1>3, <1>11
    <2> QED
      BY <2>1, StatusFact
  <1>13. EngineTypes'
    <2>1. \A f \in Engine : \E R \in SUBSET Rule : rulegraph'[f] \in [R -> SUBSET R]
      BY <1>10 DEF Book, EngineTypes, LeftOver
    <2>2. owner' \in [Process -> Engine \cup {NoEngine}]
      BY <1>1 DEF Book, EngineTypes
    <2>3. DOMAIN exit_codes' = Process
      BY <1>1
    <2>4. \A p \in Process : \E R \in SUBSET Rule : exit_codes'[p] \in [R -> Statuses \ {NotStarted}]
      <3> TAKE p \in Process
      <3>1. CASE p \in P
        <4>1. depends[s[p]] \in SUBSET Rule
          BY <1>3, <3>1 DEF Book, EngineTypes
        <4> QED
          BY <1>4, <1>12, <3>1, <4>1
      <3>2. CASE p \notin P
        BY <1>4, <3>2 DEF Book, EngineTypes
      <3> QED
        BY <3>1, <3>2
    <2> QED
      BY <1>9, <1>10, <2>1, <2>2, <2>3, <2>4 DEF Book, EngineTypes
  <1>14. \A p \in Process : /\ step'[p] = "unborn" => owner'[p] = NoEngine
                            /\ step'[p] # "unborn" => owner'[p] \in Engine /\ Started(owner[p])'
                            /\ reaped'[p] => Ended(p)'
    <2>1. \A f \in Engine : Started(f) => Started(f)'
      BY DEF Started
    <2>2. Started(e)'
      BY DEF Started
    <2> QED
      BY <1>4, <1>5, <2>1, <2>2 DEF Book, Ended, Started
  <1>15. \A f \in Engine : Started(f)' =>
           /\ LeftOver(rulegraph[f])'
           /\ \A r \in Rule \ DOMAIN rulegraph'[f] : Witness(f, r, states[f][r])'
    <2> TAKE f \in Engine
    <2>1. CASE f = e
      BY <1>7, <1>9, <1>10, <2>1 DEF LeftOver, Witness
    <2>2. CASE f # e
      <3>1. Started(f)' => Started(f)
        BY <2>2 DEF Started
      <3>2. rulegraph'[f] = rulegraph[f] /\ states'[f] = states[f]
        BY <1>9, <1>10, <2>2
      <3>3. LeftOver(rulegraph[f]) => LeftOver(rulegraph[f])'
        BY <3>2 DEF LeftOver
      <3>4. \A r \in Rule : Witness(f, r, states[f][r]) => Witness(f, r, states[f][r])'
        BY <1>4, <1>5, <3>2 DEF Witness
      <3> QED
        BY <3>1, <3>2, <3>3, <3>4 DEF Book
    <2> QED
      BY <2>1, <2>2
  <1>16. \A p \in Process : step'[p] # "unborn" =>
           \A d \in depends'[rule'[p]] : /\ d # rule'[p] /\ d \in DOMAIN exit_codes'[p]
                                         /\ Witness(owner[p], d, exit_codes[p][d])'
    <2> SUFFICES ASSUME NEW p \in Process, step'[p] # "unborn", NEW d \in depends[rule'[p]]
                 PROVE  /\ d # rule'[p] /\ d \in DOMAIN exit_codes'[p]
                        /\ Witness(owner[p], d, exit_codes[p][d])'
      OBVIOUS
    <2>1. CASE p \in P
      <3>1. d \in Rule \ DOMAIN g /\ d # rule'[p]
        BY <1>3, <1>4, <1>11, <2>1
      <3>2. d \in DOMAIN exit_codes'[p] /\ exit_codes'[p][d] = known[d]
        <4>1. exit_codes'[p] = Told(s[p], known) /\ d \in depends[s[p]]
          BY <1>4, <2>1
        <4> QED
          BY <4>1 DEF Told
      <3>3. \E q \in Process : /\ owner'[q] = owner'[p] /\ rule'[q] = d /\ reaped'[q]
                               /\ Status(q)' = exit_codes'[p][d]
        BY <1>4, <1>7, <2>1, <3>1, <3>2 DEF Witness
      <3> QED
        BY <3>1, <3>2, <3>3 DEF Witness
    <2>2. CASE p \notin P
      BY <1>4, <1>5, <2>2 DEF Book, Witness
    <2> QED
      BY <2>1, <2>2
  <1> QED
    BY <1>13, <1>14, <1>15, <1>16 DEF Book

LEMMA StartBook ==
  ASSUME Book, TypeOK, TypeOK', NEW e \in Engine, Start(e)
  PROVE  Book'
  <1>1. CASE phase' = [phase EXCEPT ![e] = "running"] /\ run_executors(e, depends, 0, states[e])
    <2>1. LeftOver(depends) /\ DOMAIN depends = Rule
      BY DEF Book, EngineTypes, LeftOver
    <2>2. /\ phase' \in [Engine -> {"new", "refused", "running", "killed"}]
          /\ phase'[e] = "running" /\ \A f \in Engine \ {e} : phase'[f] = phase[f]
          /\ states[e] \in [Rule -> Statuses] /\ UNCHANGED <<depends, reaped>>
          /\ reaped' \in [Process -> BOOLEAN]
          /\ \A p \in Process : (reaped[p] => reaped'[p]) /\ (reaped'[p] => Ended(p))
      BY <1>1 DEF Start, Book, EngineTypes
    <2> QED
      BY <1>1, <2>1, <2>2, ForkBook
  <1>2. CASE phase' = [phase EXCEPT ![e] = "refused"]
             /\ UNCHANGED <<vars, rulegraph, states, owner, exit_codes>>
    <2>1. phase[e] = "new" /\ UNCHANGED <<rule, step, code, depends, reaped>>
      BY <1>2 DEF Start, vars
    <2>2. EngineTypes' /\ \A f \in Engine : Started(f)' <=> Started(f)
      BY <1>2, <2>1 DEF Book, EngineTypes, Started
    <2>3. \A p \in Process : (Ended(p)' <=> Ended(p)) /\ Status(p)' = Status(p)
      BY <2>1 DEF Ended, Status
    <2>4. \A f, r, status : Witness(f, r, status)' <=> Witness(f, r, status)
      BY <1>2, <2>1, <2>3 DEF Witness
    <2>5. \A f \in Engine : LeftOver(rulegraph[f])' <=> LeftOver(rulegraph[f])
      BY <1>2, <2>1 DEF LeftOver
    <2> QED
      BY <1>2, <2>1, <2>2, <2>3, <2>4, <2>5 DEF Book, Started, Witness
  <1> QED
    BY <1>1, <1>2 DEF Start

LEMMA ChildExitBook ==
  ASSUME Book, TypeOK, TypeOK', NEW e \in Engine, NEW p \in Process, ChildExit(e, p)
  PROVE  Book'
  <1> DEFINE g == WithoutRule(rulegraph[e], rule[p])
             known == [states[e] EXCEPT ![rule[p]] = Status(p)]
  <1>1. /\ owner[p] = e /\ Ended(p) /\ ~reaped[p] /\ Started(e)
        /\ reaped' = [reaped EXCEPT ![p] = TRUE] /\ UNCHANGED <<depends, phase>>
        /\ run_executors(e, g, Cardinality(Running(e)) - 1, known)
    BY DEF ChildExit, Ended, Started
  <1>2. rule[p] \in Rule /\ Status(p) \in Statuses
    BY <1>1, StatusFact DEF TypeOK, Ended
  <1>3. known \in [Rule -> Statuses] /\ known[rule[p]] = Status(p)
        /\ \A r \in Rule : r # rule[p] => known[r] = states[e][r]
    BY <1>2 DEF Book, EngineTypes
  <1>4. LeftOver(g) /\ DOMAIN g = DOMAIN rulegraph[e] \ {rule[p]}
    BY <1>1 DEF WithoutRule, LeftOver, Book
  <1>5. \A r \in Rule \ DOMAIN g : \E q \in Process : /\ owner[q] = e /\ rule[q] = r /\ reaped'[q]
                                                       /\ Status(q) = known[r]
    <2> TAKE r \in Rule \ DOMAIN g
    <2>1. CASE r = rule[p]
      BY <1>1, <1>3, <2>1 DEF Book, EngineTypes
    <2>2. CASE r # rule[p]
      <3>1. Witness(e, r, states[e][r])
        BY <1>1, <1>4, <2>2 DEF Book
      <3> QED
        BY <1>1, <1>3, <2>2, <3>1 DEF Witness, Book, EngineTypes
    <2> QED
      BY <2>1, <2>2
  <1>6. /\ phase' \in [Engine -> {"new", "refused", "running", "killed"}]
        /\ phase'[e] = "running" /\ \A f \in Engine \ {e} : phase'[f] = phase[f]
        /\ reaped' \in [Process -> BOOLEAN]
        /\ \A q \in Process : (reaped[q] => reaped'[q]) /\ (reaped'[q] => Ended(q))
    BY <1>1 DEF Book, EngineTypes, ChildExit
  <1> HIDE DEF g, known
  <1> QED
    BY <1>1, <1>3, <1>4, <1>5, <1>6, ForkBook

\* Processes leave alone what has ended.
LEMMA ProcessesEnds ==
  ASSUME TypeOK, Processes
  PROVE  /\ UNCHANGED <<rule, engineVars>>
         /\ \A p \in Process : /\ step[p] = "unborn" <=> step'[p] = "unborn"
                               /\ Ended(p) => step'[p] = step[p] /\ code'[p] = code[p]
  <1>1. ASSUME NEW p \in Process, Run(p) \/ Kill(p)
        PROVE  /\ UNCHANGED rule /\ step[p] \in Alive /\ step'[p] # "unborn"
               /\ \A q \in Process \ {p} : step'[q] = step[q] /\ code'[q] = code[q]
    BY <1>1 DEF TypeOK, Run, Lock, Locked, LockRefused, Rollback, NothingToRollBack, BadStateFile,
                RolledBack, RollbackFailed, Forget, Prepare, OpenState, WriteState, Execute,
                Executed, Unlock, Kill, Go, Fail, Alive, Inside
  <1>2. ASSUME NEW r \in Rule, RemoveStaleLock(r)
        PROVE  UNCHANGED <<rule, step, code>>
    BY <1>2 DEF RemoveStaleLock
  <1> QED
    BY <1>1, <1>2 DEF Processes, Ended, Alive, Inside

LEMMA ProcessesBook ==
  ASSUME Book, TypeOK, Processes
  PROVE  Book'
  <1>1. /\ UNCHANGED <<rule, engineVars>>
        /\ \A p \in Process : /\ step[p] = "unborn" <=> step'[p] = "unborn"
                              /\ Ended(p) => step'[p] = step[p] /\ code'[p] = code[p]
    BY ProcessesEnds
  <1>2. UNCHANGED <<depends, phase, rulegraph, states, owner, reaped, exit_codes>>
    BY <1>1 DEF engineVars
  <1>3. \A p \in Process : Ended(p) => Ended(p)' /\ Status(p)' = Status(p)
    BY <1>1 DEF Ended, Status
  <1>4. \A f, r, status : Witness(f, r, status) => Witness(f, r, status)'
    BY <1>1, <1>2, <1>3 DEF Witness, Book
  <1>5. \A f \in Engine : /\ Started(f)' <=> Started(f)
                          /\ LeftOver(rulegraph[f])' <=> LeftOver(rulegraph[f])
    BY <1>2 DEF Started, LeftOver
  <1>6. EngineTypes'
    BY <1>2 DEF Book, EngineTypes
  <1> QED
    BY <1>1, <1>2, <1>3, <1>4, <1>5, <1>6 DEF Book, Started, Witness

LEMMA BookStep ==
  ASSUME Book, TypeOK, TypeOK', [EngineNext]_allVars
  PROVE  Book'
  <1>1. CASE UNCHANGED allVars
    <2>1. UNCHANGED <<rule, step, code, depends, phase, rulegraph, states, owner, reaped, exit_codes>>
      BY <1>1 DEF allVars, vars, engineVars
    <2> QED
      BY <2>1 DEF Book, EngineTypes, Started, LeftOver, Witness, Ended, Status
  <1>2. ASSUME NEW e \in Engine, KillEngine(e) PROVE Book'
    <2>1. UNCHANGED <<rule, step, code, depends, rulegraph, states, owner, reaped, exit_codes>>
      BY <1>2 DEF KillEngine, vars
    <2>2. EngineTypes' /\ \A f \in Engine : Started(f)' <=> Started(f)
      BY <1>2, <2>1 DEF KillEngine, Started, Book, EngineTypes
    <2>3. \A p \in Process : (Ended(p)' <=> Ended(p)) /\ Status(p)' = Status(p)
      BY <2>1 DEF Ended, Status
    <2>4. \A f, r, status : Witness(f, r, status)' <=> Witness(f, r, status)
      BY <2>1, <2>3 DEF Witness
    <2>5. \A f \in Engine : LeftOver(rulegraph[f])' <=> LeftOver(rulegraph[f])
      BY <2>1 DEF LeftOver
    <2> QED
      BY <2>1, <2>2, <2>3, <2>4, <2>5 DEF Book, Started, Witness
  <1> QED
    BY <1>1, <1>2, StartBook, ChildExitBook, ProcessesBook DEF EngineNext

LEMMA BookInvariant == EngineSpec => [](Book /\ TypeOK)
  <1>1. EngineSpec => []TypeOK
    BY EnginesForkExecutors, TypeCorrect, PTL
  <1>2. Book /\ TypeOK /\ TypeOK' /\ [EngineNext]_allVars => Book'
    BY BookStep
  <1> QED
    BY <1>1, <1>2, InitBook, PTL DEF EngineSpec

(* The graphs of engines, what they know of their rules and what they tell
   their processes are well-typed. *)
THEOREM EngineTypeCorrect == EngineSpec => []EngineTypeOK
  <1>1. Book /\ TypeOK => EngineTypeOK
    BY DEF Book, EngineTypes, EngineTypeOK
  <1> QED
    BY <1>1, BookInvariant, PTL
-----------------------------------------------------------------------------
(* The limit *)

Limited == Concurrent > 0 => \A e \in Engine : Cardinality(Running(e)) <= Concurrent

LEMMA RunningFinite ==
  ASSUME NEW e
  PROVE  IsFiniteSet(Running(e)) /\ Cardinality(Running(e)) \in Nat
  <1>1. Running(e) \in SUBSET Process
    BY DEF Running
  <1> QED
    BY <1>1, FiniteAssumption, FS_Subset, FS_CardinalityType

\* _run_executors forks what the limit leaves.
LEMMA ForkLimited ==
  ASSUME Concurrent > 0, Book, NEW e \in Engine, NEW g, DOMAIN g \subseteq Rule, NEW R, NEW known,
         run_executors(e, g, Cardinality(R), known), IsFiniteSet(R), Cardinality(R) <= Concurrent,
         Running(e)' \subseteq R \cup {q \in Process : owner'[q] = e /\ owner[q] # e}
  PROVE  Cardinality(Running(e)') <= Concurrent
  <1> DEFINE running == Cardinality(R)
             n == IF Free(g) = {} THEN 0 ELSE MaxCount(g, running)
  <1>1. PICK s \in Starts(g, running) :
           owner' = [p \in Process |-> IF p \in DOMAIN s THEN e ELSE owner[p]]
    BY DEF run_executors
  <1>2. PICK P \in SUBSET Process : s \in [P -> Free(g)] /\ Cardinality(P) = n
    BY <1>1 DEF Starts, kSubset
  <1>3. IsFiniteSet(P) /\ IsFiniteSet(DOMAIN g)
    BY FiniteAssumption, FS_Subset
  <1>4. /\ Cardinality(R) \in Nat /\ Cardinality(DOMAIN g) \in Nat /\ Cardinality(P) \in Nat
        /\ Concurrent \in Nat
    BY <1>3, FS_CardinalityType, ConcurrentAssumption
  <1>5. n <= Concurrent - running
    BY <1>4 DEF MaxCount
  <1>6. Running(e)' \subseteq R \cup P
    BY <1>1, <1>2
  <1>7. IsFiniteSet(R \cup P) /\ Cardinality(R \cup P) <= Cardinality(R) + Cardinality(P)
    <2>1. IsFiniteSet(R \cap P)
      BY FS_Subset
    <2>2. Cardinality(R \cap P) \in Nat
      BY <2>1, FS_CardinalityType
    <2>3. /\ IsFiniteSet(R \cup P)
          /\ Cardinality(R \cup P) = Cardinality(R) + Cardinality(P) - Cardinality(R \cap P)
      BY <1>3, FS_Union
    <2> QED
      BY <1>4, <2>2, <2>3
  <1>8. Cardinality(Running(e)') \in Nat /\ Cardinality(Running(e)') <= Cardinality(R \cup P)
    BY <1>6, <1>7, FS_Subset, FS_CardinalityType
  <1>9. Cardinality(R \cup P) \in Nat
    BY <1>7, FS_CardinalityType
  <1> HIDE DEF n
  <1> QED
    BY <1>2, <1>4, <1>5, <1>7, <1>8, <1>9

LEMMA LimitedStep ==
  ASSUME Limited, Book, TypeOK, Concurrent > 0, [EngineNext]_allVars
  PROVE  Limited'
  <1> SUFFICES ASSUME NEW f \in Engine PROVE Cardinality(Running(f)') <= Concurrent
    BY DEF Limited, Running
  <1>1. Cardinality(Running(f)) <= Concurrent
    BY DEF Limited
  <1>2. CASE Running(f)' \subseteq Running(f)
    <2>1. /\ IsFiniteSet(Running(f)') /\ Cardinality(Running(f)') <= Cardinality(Running(f))
          /\ Cardinality(Running(f)') \in Nat /\ Cardinality(Running(f)) \in Nat
      BY <1>2, RunningFinite, FS_Subset, FS_CardinalityType
    <2> QED
      BY <1>1, <2>1, ConcurrentAssumption
  <1>3. ASSUME NEW e \in Engine, e # f, NEW g, NEW running, NEW known,
               run_executors(e, g, running, known), \A p \in Process : reaped[p] => reaped'[p]
        PROVE  Running(f)' \subseteq Running(f)
    <2>1. \A p \in Process : owner'[p] \in {e, owner[p]}
      BY <1>3 DEF run_executors
    <2> QED
      BY <1>3, <2>1 DEF Running
  <1>4. ASSUME NEW e \in Engine, Start(e) PROVE Cardinality(Running(f)') <= Concurrent
    <2>1. CASE UNCHANGED owner
      BY <1>2, <1>4, <2>1 DEF Start, Running
    <2>2. CASE run_executors(e, depends, 0, states[e])
      <3>1. CASE e # f
        BY <1>2, <1>3, <1>4, <2>2, <3>1 DEF Start
      <3>2. CASE e = f
        <4>1. \A p \in Process : owner[p] # e
          BY <1>4, EngineAssumption DEF Start, Book, Started
        <4>2. Running(e)' \subseteq {} \cup {q \in Process : owner'[q] = e /\ owner[q] # e}
          BY <4>1 DEF Running
        <4>3. IsFiniteSet({}) /\ Cardinality({}) = 0
          BY FS_EmptySet
        <4>4. DOMAIN depends \subseteq Rule
          BY DEF Book, EngineTypes
        <4>5. run_executors(e, depends, Cardinality({}), states[e]) /\ Cardinality({}) <= Concurrent
          BY <2>2, <4>3, ConcurrentAssumption
        <4> QED
          BY <3>2, <4>2, <4>3, <4>4, <4>5, ForkLimited
      <3> QED
        BY <3>1, <3>2
    <2> QED
      BY <1>4, <2>1, <2>2 DEF Start
  <1>5. ASSUME NEW e \in Engine, NEW p \in Process, ChildExit(e, p)
        PROVE  Cardinality(Running(f)') <= Concurrent
    <2>1. CASE e # f
      <3>1. \A q \in Process : reaped[q] => reaped'[q]
        BY <1>5 DEF ChildExit, Book, EngineTypes
      <3> QED
        BY <1>2, <1>3, <1>5, <2>1, <3>1 DEF ChildExit
    <2>2. CASE e = f
      <3> DEFINE R == Running(e) \ {p}
      <3>1. p \in Running(e)
        BY <1>5 DEF ChildExit, Running
      <3>2. IsFiniteSet(R) /\ Cardinality(R) = Cardinality(Running(e)) - 1
        BY <3>1, RunningFinite, FS_RemoveElement
      <3>3. Cardinality(R) <= Concurrent
        BY <1>1, <2>2, <3>2, RunningFinite, ConcurrentAssumption
      <3>4. Running(e)' \subseteq R \cup {q \in Process : owner'[q] = e /\ owner[q] # e}
        BY <1>5 DEF ChildExit, Running, Book, EngineTypes
      <3>5. DOMAIN WithoutRule(rulegraph[e], rule[p]) \subseteq Rule
        BY DEF WithoutRule, Book, EngineTypes
      <3>6. run_executors(e, WithoutRule(rulegraph[e], rule[p]), Cardinality(R),
                          [states[e] EXCEPT ![rule[p]] = Status(p)])
        BY <1>5, <3>2 DEF ChildExit
      <3> HIDE DEF R
      <3> QED
        BY <2>2, <3>2, <3>3, <3>4, <3>5, <3>6, ForkLimited
    <2> QED
      BY <2>1, <2>2
  <1>6. CASE UNCHANGED allVars \/ Processes \/ \E e \in Engine : KillEngine(e)
    BY <1>2, <1>6 DEF allVars, engineVars, Processes, KillEngine, Running
  <1> QED
    BY <1>4, <1>5, <1>6 DEF EngineNext

LEMMA InitLimited == EngineInit => Limited
  <1> SUFFICES ASSUME EngineInit, Concurrent > 0, NEW e \in Engine
               PROVE  Cardinality(Running(e)) <= Concurrent
    BY DEF Limited
  <1>1. Running(e) = {}
    BY EngineAssumption DEF EngineInit, Running
  <1> QED
    BY <1>1, FS_EmptySet, ConcurrentAssumption

(* An engine never has more processes than its limit, whatever exits in whatever
   order and however many rules become free at once. *)
THEOREM AtMostConcurrentAlways == EngineSpec => []AtMostConcurrent
  <1>1. Limited /\ Book /\ TypeOK /\ [EngineNext]_allVars => Limited'
    BY LimitedStep DEF Limited
  <1>2. Limited => AtMostConcurrent
    BY DEF Limited, AtMostConcurrent
  <1> QED
    BY <1>1, <1>2, InitLimited, BookInvariant, PTL DEF EngineSpec

(* With a limit of one no rule is started before those it depends on are over:
   nothing that runs can be started a second time. *)
THEOREM InOrderOneByOne == ASSUME Concurrent = 1 PROVE EngineSpec => []DependenciesFirst
  <1>1. Limited /\ Book /\ TypeOK => DependenciesFirst
    <2> SUFFICES ASSUME Limited, Book, TypeOK, NEW p \in Process, step[p] \in Inside,
                        NEW d \in depends[rule[p]]
                 PROVE  /\ \E q \in Process : owner[q] = owner[p] /\ rule[q] = d /\ reaped[q]
                        /\ \A q \in Process : owner[q] = owner[p] /\ rule[q] = d => Over(q)
      BY DEF DependenciesFirst, ProcessesFor
    <2> DEFINE e == owner[p]
    <2>1. step[p] # "unborn" /\ ~Ended(p)
      BY DEF Inside, Ended
    <2>2. e \in Engine /\ d # rule[p] /\ Witness(e, d, exit_codes[p][d]) /\ ~reaped[p]
      BY <2>1 DEF Book
    <2>3. p \in Running(e)
      BY <2>2 DEF Running
    <2>4. Cardinality(Running(e)) <= 1
      BY <2>2 DEF Limited
    <2>5. Running(e) = {p}
      <3>1. /\ IsFiniteSet(Running(e) \ {p})
            /\ Cardinality(Running(e) \ {p}) = Cardinality(Running(e)) - 1
            /\ Cardinality(Running(e) \ {p}) \in Nat
        BY <2>3, RunningFinite, FS_RemoveElement, FS_CardinalityType
      <3>2. Cardinality(Running(e) \ {p}) = 0
        BY <2>4, <3>1, RunningFinite
      <3> QED
        BY <2>3, <3>1, <3>2, FS_EmptySet
    <2>6. ASSUME NEW q \in Process, owner[q] = owner[p], rule[q] = d PROVE Over(q)
      <3>1. q \notin Running(e)
        BY <2>2, <2>5, <2>6
      <3> QED
        BY <2>6, <3>1 DEF Running, Book, Ended, Over
    <2> QED
      BY <2>2, <2>6 DEF Witness
  <1>2. Limited /\ Book /\ TypeOK /\ [EngineNext]_allVars => Limited'
    BY LimitedStep DEF Limited
  <1> QED
    BY <1>1, <1>2, InitLimited, BookInvariant, PTL DEF EngineSpec
-----------------------------------------------------------------------------
(* One process for each rule *)

(* An engine has one process for a rule, and the rule leaves the graph when the
   exit of that process is handled. *)
Once ==
    /\ \A p, q \in Process : owner[p] = owner[q] /\ owner[p] \in Engine /\ rule[p] = rule[q] => p = q
    /\ \A p \in Process : reaped[p] => rule[p] \notin DOMAIN rulegraph[owner[p]]

LEMMA InitOnce == EngineInit => Once
  BY EngineAssumption DEF EngineInit, Once

(* With a limit of one, what _run_executors forks is one process when none runs, for
   a rule that is still in the graph: the rules of all others have left it. *)
LEMMA ForkOnce ==
  ASSUME Concurrent = 1, Book, Once, NEW e \in Engine, NEW g, DOMAIN g \subseteq Rule,
         NEW R \in SUBSET Process, NEW known, run_executors(e, g, Cardinality(R), known),
         IsFiniteSet(R), Cardinality(R) <= 1,
         \A q \in Process : owner[q] = e => q \in R \/ rule[q] \notin DOMAIN g,
         \A q \in Process : owner[q] = e /\ reaped'[q] => rule[q] \notin DOMAIN g,
         \A q \in Process : reaped'[q] => step[q] # "unborn" /\ (owner[q] # e => reaped[q])
  PROVE  Once'
  <1>1. PICK s \in Starts(g, Cardinality(R)) :
           /\ Fork(s)
           /\ rulegraph' = [rulegraph EXCEPT ![e] = g]
           /\ owner' = [p \in Process |-> IF p \in DOMAIN s THEN e ELSE owner[p]]
    BY DEF run_executors
  <1> DEFINE n == IF Free(g) = {} THEN 0 ELSE MaxCount(g, Cardinality(R))
  <1>2. PICK P \in SUBSET Process : s \in [P -> Free(g)] /\ Cardinality(P) = n
    BY <1>1 DEF Starts, kSubset
  <1>3. \A p \in P : s[p] \in DOMAIN g /\ step[p] = "unborn"
    BY <1>1, <1>2 DEF Free, Fork
  <1>4. IsFiniteSet(P) /\ IsFiniteSet(DOMAIN g)
    BY FiniteAssumption, FS_Subset
  <1>5. /\ Cardinality(R) \in Nat /\ Cardinality(P) \in Nat /\ Cardinality(DOMAIN g) \in Nat
    BY <1>4, FS_CardinalityType
  <1>6. n <= 1 - Cardinality(R)
    BY <1>5 DEF MaxCount
  <1> HIDE DEF n
  <1>7. ASSUME NEW p \in P
        PROVE  P = {p} /\ R = {}
    <2>1. /\ Cardinality(P \ {p}) = Cardinality(P) - 1 /\ IsFiniteSet(P \ {p})
          /\ Cardinality(P \ {p}) \in Nat
      BY <1>4, FS_RemoveElement, FS_CardinalityType
    <2>2. Cardinality(P \ {p}) = 0 /\ Cardinality(R) = 0
      BY <1>2, <1>5, <1>6, <2>1
    <2> QED
      BY <2>1, <2>2, FS_EmptySet
  <1>8. \A p \in Process : /\ p \in P => rule'[p] = s[p] /\ owner'[p] = e
                           /\ p \notin P => rule'[p] = rule[p] /\ owner'[p] = owner[p]
    BY <1>1, <1>2 DEF Fork
  <1>9. /\ rulegraph'[e] = g /\ \A f \in Engine \ {e} : rulegraph'[f] = rulegraph[f]
    BY <1>1 DEF Book, EngineTypes
  <1>10. ASSUME NEW p \in P, NEW q \in Process, q # p, owner'[q] = e PROVE rule'[q] # rule'[p]
    <2>1. P = {p} /\ R = {}
      BY <1>7
    <2>2. owner[q] = e /\ rule'[q] = rule[q]
      BY <1>8, <1>10, <2>1
    <2> QED
      BY <1>3, <1>8, <2>1, <2>2
  <1>11. \A p, q \in Process : owner'[p] = owner'[q] /\ owner'[p] \in Engine /\ rule'[p] = rule'[q]
                                 => p = q
    <2> SUFFICES ASSUME NEW p \in Process, NEW q \in Process, owner'[p] = owner'[q],
                        owner'[p] \in Engine, rule'[p] = rule'[q]
                 PROVE  p = q
      OBVIOUS
    <2>1. CASE p \in P
      BY <1>8, <1>10, <2>1
    <2>2. CASE q \in P
      BY <1>8, <1>10, <2>2
    <2>3. CASE p \notin P /\ q \notin P
      BY <1>8, <2>3 DEF Once
    <2> QED
      BY <2>1, <2>2, <2>3
  <1>12. ASSUME NEW p \in Process, reaped'[p] PROVE rule'[p] \notin DOMAIN rulegraph'[owner'[p]]
    <2>1. p \notin P /\ rule'[p] = rule[p] /\ owner'[p] = owner[p] /\ owner[p] \in Engine
      BY <1>3, <1>8, <1>12 DEF Book
    <2>2. CASE owner[p] = e
      BY <1>9, <1>12, <2>1, <2>2
    <2>3. CASE owner[p] # e
      BY <1>9, <1>12, <2>1, <2>3 DEF Once
    <2> QED
      BY <2>2, <2>3
  <1> QED
    BY <1>11, <1>12 DEF Once

LEMMA OnceStep ==
  ASSUME Concurrent = 1, Once, Limited, Book, TypeOK, [EngineNext]_allVars
  PROVE  Once'
  <1>1. CASE UNCHANGED <<rule, owner, reaped, rulegraph>>
    BY <1>1 DEF Once
  <1>2. ASSUME NEW e \in Engine, Start(e) PROVE Once'
    <2>1. CASE UNCHANGED <<vars, rulegraph, owner>>
      BY <1>1, <1>2, <2>1 DEF Start, vars
    <2>2. CASE run_executors(e, depends, 0, states[e])
      <3>1. /\ \A q \in Process : owner[q] # e
            /\ \A q \in Process : reaped[q] => step[q] # "unborn"
        BY <1>2, EngineAssumption DEF Start, Book, Started, Ended
      <3>2. IsFiniteSet({}) /\ Cardinality({}) = 0 /\ {} \in SUBSET Process
        BY FS_EmptySet
      <3>3. DOMAIN depends \subseteq Rule
        BY DEF Book, EngineTypes
      <3>4. run_executors(e, depends, Cardinality({}), states[e]) /\ reaped' = reaped
        BY <1>2, <2>2, <3>2 DEF Start
      <3> QED
        BY <3>1, <3>2, <3>3, <3>4, ForkOnce
    <2> QED
      BY <1>2, <2>1, <2>2 DEF Start
  <1>3. ASSUME NEW e \in Engine, NEW p \in Process, ChildExit(e, p) PROVE Once'
    <2> DEFINE R == Running(e) \ {p}
               g == WithoutRule(rulegraph[e], rule[p])
               known == [states[e] EXCEPT ![rule[p]] = Status(p)]
    <2>1. /\ p \in Running(e) /\ owner[p] = e /\ Ended(p)
          /\ \A q \in Process : reaped'[q] <=> (reaped[q] \/ q = p)
      BY <1>3 DEF ChildExit, Running, Ended, Book, EngineTypes
    <2>2. /\ IsFiniteSet(R) /\ Cardinality(R) = Cardinality(Running(e)) - 1
          /\ R \in SUBSET Process /\ Cardinality(R) <= 1
      <3>1. IsFiniteSet(R) /\ Cardinality(R) = Cardinality(Running(e)) - 1
        BY <2>1, RunningFinite, FS_RemoveElement
      <3>2. R \in SUBSET Process
        BY DEF Running
      <3>3. Cardinality(Running(e)) <= 1 /\ Cardinality(Running(e)) \in Nat
        BY RunningFinite DEF Limited
      <3> QED
        BY <3>1, <3>2, <3>3
    <2>3. DOMAIN g \subseteq Rule /\ DOMAIN g = DOMAIN rulegraph[e] \ {rule[p]}
      BY DEF WithoutRule, Book, EngineTypes
    <2>4. run_executors(e, g, Cardinality(R), known)
      BY <1>3, <2>2 DEF ChildExit
    <2>5. \A q \in Process : owner[q] = e => q \in R \/ rule[q] \notin DOMAIN g
      BY <2>1, <2>3 DEF Running, Once
    <2>6. \A q \in Process : owner[q] = e /\ reaped'[q] => rule[q] \notin DOMAIN g
      BY <2>1, <2>3 DEF Once
    <2>7. \A q \in Process : reaped'[q] => step[q] # "unborn" /\ (owner[q] # e => reaped[q])
      BY <2>1 DEF Book, Ended
    <2> HIDE DEF R, g, known
    <2> QED
      BY <2>2, <2>3, <2>4, <2>5, <2>6, <2>7, ForkOnce
  <1>4. ASSUME NEW e \in Engine, KillEngine(e) PROVE Once'
    BY <1>1, <1>4 DEF KillEngine, vars
  <1>5. CASE Processes
    <2>1. UNCHANGED <<rule, engineVars>>
      BY <1>5, ProcessesEnds
    <2> QED
      BY <1>1, <2>1 DEF engineVars
  <1>6. CASE UNCHANGED allVars
    BY <1>1, <1>6 DEF allVars, vars, engineVars
  <1> QED
    BY <1>2, <1>3, <1>4, <1>5, <1>6 DEF EngineNext

(* With a limit of one, a process is told of each rule its own one depends on how the only
   process that its engine has had for that rule ended (Engine.pm:291-296, 325-337). *)
THEOREM TruthTold == ASSUME Concurrent = 1 PROVE EngineSpec => []ToldTheTruth
  <1>1. Once /\ Book => ToldTheTruth
    <2> SUFFICES ASSUME Once, Book, NEW p \in Process, step[p] # "unborn", NEW d \in depends[rule[p]]
                 PROVE  /\ d \in DOMAIN exit_codes[p]
                        /\ \E q \in Process : /\ ProcessesFor(owner[p], d) = {q}
                                              /\ reaped[q] /\ Status(q) = exit_codes[p][d]
      BY DEF ToldTheTruth
    <2>1. d \in DOMAIN exit_codes[p] /\ owner[p] \in Engine
      BY DEF Book
    <2>2. PICK q \in Process : /\ owner[q] = owner[p] /\ rule[q] = d /\ reaped[q]
                               /\ Status(q) = exit_codes[p][d]
      BY DEF Book, Witness
    <2>3. ProcessesFor(owner[p], d) = {q}
      BY <2>1, <2>2 DEF ProcessesFor, Once
    <2> QED
      BY <2>1, <2>2, <2>3
  <1>2. Once /\ Limited /\ Book /\ TypeOK /\ [EngineNext]_allVars => Limited' /\ Once'
    BY LimitedStep, OnceStep DEF Limited
  <1> QED
    BY <1>1, <1>2, InitLimited, InitOnce, BookInvariant, PTL DEF EngineSpec
=============================================================================
