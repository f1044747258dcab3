----------------------------- MODULE RuleEngine -----------------------------
(***************************************************************************)
(* Perl/ConfigZilla: Config::Zilla::Engine.  A czil instance checks the    *)
(* dependencies of its rules, then forks a process for each rule that has  *)
(* no predecessor left, and again whenever a process exits.                *)
(*                                                                         *)
(* An engine is a POE session, so each handler is one action; it runs      *)
(* against the processes of module RuleExecutor, its own and those of      *)
(* other instances.                                                        *)
(***************************************************************************)
EXTENDS RuleExecutor, FiniteSets, FiniteSetsExt

CONSTANTS
    Engine,         \* czil instances, one after another or at the same time
    Concurrent      \* $options->concurrent, 0 for no limit

ASSUME ProcessAssumption == Process \subseteq Nat
ASSUME FiniteAssumption == IsFiniteSet(Process) /\ IsFiniteSet(Rule)
ASSUME ConcurrentAssumption == Concurrent \in Nat

VARIABLES
    depends,    \* per rule: the rules it depends on (one configuration)
    phase,      \* of an engine
    rulegraph,  \* per engine and unapplied rule: the predecessors left
    states,     \* per engine and rule: exit_code of its ExecutorState
    owner,      \* per process: the engine that forked it
    reaped,     \* per process: has its engine handled its exit?
    exit_codes  \* per process: what it was told of the rules it depends on

engineVars == <<depends, phase, rulegraph, states, owner, reaped, exit_codes>>
allVars == <<vars, engineVars>>
-----------------------------------------------------------------------------
NoEngine == "no engine"
NotStarted == 0 - 1
Unknown == 255          \* ExecutorState's default
TermSignal == 15

ASSUME EngineAssumption == NoEngine \notin Engine

\* The wait status $? of a process that has ended.
Status(p) == IF step[p] = "killed" THEN TermSignal ELSE 256 * code[p]
Statuses == {NotStarted, Unknown, TermSignal} \cup {256 * c : c \in 0 .. 4}

EngineTypeOK ==
    /\ TypeOK
    /\ depends \in [Rule -> SUBSET Rule]
    /\ phase \in [Engine -> {"new", "refused", "running", "killed"}]
    /\ \A e \in Engine : \E R \in SUBSET Rule : rulegraph[e] \in [R -> SUBSET R]
    /\ states \in [Engine -> [Rule -> Statuses]]
    /\ owner \in [Process -> Engine \cup {NoEngine}]
    /\ reaped \in [Process -> BOOLEAN]
    /\ \A p \in Process : \E R \in SUBSET Rule : exit_codes[p] \in [R -> Statuses \ {NotStarted}]

EngineInit ==
    /\ Init
    /\ depends \in [Rule -> SUBSET Rule]
    /\ phase = [e \in Engine |-> "new"]
    /\ rulegraph = [e \in Engine |-> [r \in {} |-> {}]]
    /\ states = [e \in Engine |-> [r \in Rule |-> NotStarted]]
    /\ owner = [p \in Process |-> NoEngine]
    /\ reaped = [p \in Process |-> FALSE]
    /\ exit_codes = [p \in Process |-> [r \in {} |-> 0]]
-----------------------------------------------------------------------------
\* Fault: the rule is forgotten, its successors go on waiting for it.
WithoutRule_only(g, r) == [x \in DOMAIN g \ {r} |-> g[x]]

\* Fault: the rule itself stays and is started again once it has ended.
WithoutRule_stays(g, r) == [x \in DOMAIN g |-> g[x] \ {r}]

\* _remove_rule_from_graph
WithoutRule(g, r) == [x \in DOMAIN g \ {r} |-> g[x] \ {r}]

\* Fault: one rule that has no predecessor is enough.
Acyclic_started(g) == DOMAIN g = {} \/ \E r \in DOMAIN g : g[r] = {}

\* _validate_circular_dependency: rules without predecessors are peeled off.
Acyclic(g) ==
    LET rest[R \in SUBSET DOMAIN g] ==
            LET peeled == {r \in R : g[r] \cap R = {}}
            IN  IF peeled = {} THEN R ELSE rest[R \ peeled]
    IN  rest[DOMAIN g] = {}

Running(e) == {p \in Process : owner[p] = e /\ ~reaped[p]}

\* Fault: the processes that run already do not count.
MaxCount_fresh(g, running) ==
    IF Concurrent > 0 THEN Min({Concurrent, Cardinality(DOMAIN g)}) ELSE Cardinality(DOMAIN g)

\* $max_count: how many processes may be forked now.
MaxCount(g, running) ==
    IF Concurrent > 0 /\ Concurrent < running + Cardinality(DOMAIN g)
    THEN Concurrent - running ELSE Cardinality(DOMAIN g)

\* Fault: the predecessors are not looked at.
Free_any(g) == DOMAIN g

Free(g) == {r \in DOMAIN g : g[r] = {}}

(* The two loops of _run_executors: pass after pass over the rules without a
   predecessor, one process for each, until $max_count are forked.  A rule that
   runs is in the graph until it ends, so that it may be started again.  Process
   ids are handed out in order. *)
Starts(g, running) ==
    LET unborn == {p \in Process : step[p] = "unborn"}
        free == Free(g)
        n == IF free = {} THEN 0 ELSE MaxCount(g, running)
        Times(s, r) == Cardinality({p \in DOMAIN s : s[p] = r})
        next == {P \in kSubset(n, unborn) : \A p \in P, q \in unborn \ P : p < q}
    IN  {s \in UNION {[P -> free] : P \in next} :
            \A r, q \in free : Times(s, r) <= Times(s, q) + 1}

Told(r, known) == [d \in depends[r] |-> known[d]]

run_executors(e, g, running, known) ==
    \E s \in Starts(g, running) :
        /\ Fork(s)
        /\ rulegraph' = [rulegraph EXCEPT ![e] = g]
        /\ owner' = [p \in Process |-> IF p \in DOMAIN s THEN e ELSE owner[p]]
        /\ exit_codes' = [p \in Process |->
                             IF p \in DOMAIN s THEN Told(s[p], known) ELSE exit_codes[p]]
        /\ states' = [states EXCEPT ![e] = [r \in Rule |->
                         IF \E p \in DOMAIN s : s[p] = r THEN Unknown ELSE known[r]]]

\* run: _validate, then _on_start.
Start(e) ==
    /\ phase[e] = "new"
    /\ IF Acyclic(depends)
       THEN /\ phase' = [phase EXCEPT ![e] = "running"]
            /\ run_executors(e, depends, 0, states[e])
       ELSE /\ phase' = [phase EXCEPT ![e] = "refused"]
            /\ UNCHANGED <<vars, rulegraph, states, owner, exit_codes>>
    /\ UNCHANGED <<depends, reaped>>

\* _on_child_exit
ChildExit(e, p) ==
    /\ phase[e] = "running"
    /\ owner[p] = e /\ ~reaped[p]
    /\ step[p] \in {"exited", "killed"}
    /\ reaped' = [reaped EXCEPT ![p] = TRUE]
    /\ run_executors(e, WithoutRule(rulegraph[e], rule[p]), Cardinality(Running(e)) - 1,
                     [states[e] EXCEPT ![rule[p]] = Status(p)])
    /\ UNCHANGED <<depends, phase>>

\* The engine is killed; its processes are not.
KillEngine(e) ==
    /\ phase[e] = "running"
    /\ phase' = [phase EXCEPT ![e] = "killed"]
    /\ UNCHANGED <<vars, depends, rulegraph, states, owner, reaped, exit_codes>>

Processes ==
    /\ \/ \E p \in Process : Run(p) \/ Kill(p)
       \/ \E r \in Rule : RemoveStaleLock(r)
    /\ UNCHANGED engineVars

EngineNext ==
    \/ \E e \in Engine : Start(e) \/ KillEngine(e) \/ \E p \in Process : ChildExit(e, p)
    \/ Processes

EngineSpec == EngineInit /\ [][EngineNext]_allVars

(* Processes run on (executors end, or the engine's timer kills them) and the
   engine is told of their exits. *)
Fairness ==
    \A p \in Process : /\ WF_allVars(Run(p) /\ UNCHANGED engineVars)
                       /\ \A e \in Engine : WF_allVars(ChildExit(e, p))

FairSpec == EngineSpec /\ Fairness
-----------------------------------------------------------------------------
(* Properties *)

(* "Allow at most N concurrent executors" *)
AtMostConcurrent ==
    Concurrent > 0 => \A e \in Engine : Cardinality(Running(e)) <= Concurrent

Over(p) == step[p] \in {"unborn", "exited", "killed"}

\* The processes an engine has had for a rule.
ProcessesFor(e, r) == {q \in Process : owner[q] = e /\ rule[q] = r}

(* "topological sort, whether this node has no predecessor": when a rule is
   applied, the engine has seen the end of each rule it depends on, and none of
   its processes is still, or again, at one of those. *)
DependenciesFirst ==
    \A p \in Process : step[p] \in Inside =>
        \A d \in depends[rule[p]] :
            /\ \E q \in ProcessesFor(owner[p], d) : reaped[q]
            /\ \A q \in ProcessesFor(owner[p], d) : Over(q)

(* A rule is told of each rule it depends on how the one process that its engine
   has ever had for that rule ended (that it was refused the lock, when another
   engine applies the rule): no second process has been started whose end could
   be taken for that of the first (Engine.pm:291-296, 325-337). *)
ToldTheTruth ==
    \A p \in Process : step[p] # "unborn" =>
        \A d \in depends[rule[p]] :
            /\ d \in DOMAIN exit_codes[p]
            /\ \E q \in Process : /\ ProcessesFor(owner[p], d) = {q}
                                  /\ reaped[q] /\ Status(q) = exit_codes[p][d]

(* Every engine that has started gets through its rules, whatever becomes of
   their processes, unless it is killed. *)
EngineFinishes ==
    \A e \in Engine :
        phase[e] = "running" ~>
            \/ phase[e] = "killed"
            \/ /\ rulegraph[e] = [r \in {} |-> {}]
               /\ Running(e) = {}
               /\ \A r \in Rule : states[e][r] \notin {NotStarted, Unknown}
=============================================================================
