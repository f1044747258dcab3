------------------------- MODULE RuleExecutorProofs -------------------------
(***************************************************************************)
(* Theorems about RuleExecutor, for any number of processes and rules.     *)
(***************************************************************************)
EXTENDS RuleExecutor, TLAPS

(* A process that applies a rule is the one named in its lock file: only its
   own Unlock deletes the file, and it is stale only once the process is dead. *)
Held == \A p \in Process : step[p] \in Inside => lockFile[rule[p]] = {p}

(* What a process knows of its rule at each step, from the steps it has made:
   nobody else writes the state file or touches the machine meanwhile. *)
Known ==
    \A p \in Process :
        /\ step[p] = "forget" => machine[rule[p]] = "clean"
        /\ step[p] \in {"prepare", "open"} => stateFile[rule[p]] = "absent"
        /\ step[p] = "execute" => stateFile[rule[p]] # "partial"
        /\ step[p] \in {"write", "execute"} => ~(machine[rule[p]] = "dirty" /\ kept[rule[p]])

IInv == TypeOK /\ Held /\ Undoable /\ Known
-----------------------------------------------------------------------------
\* Held makes the processes that apply one rule one and the same.
LEMMA HeldExclusive == Held => Exclusive
  BY DEF Held, Exclusive

\* Nothing has been started or written at first.
LEMMA InitInv == Init => IInv
  BY DEF Init, IInv, TypeOK, Held, Undoable, Known, Inside, Alive, Written

(* Forked processes are at the lock: they hold nothing yet. *)
LEMMA ForkInv ==
  ASSUME IInv, NEW P \in SUBSET Process, NEW started \in [P -> Rule], Fork(started)
  PROVE  IInv'
  <1> USE DEF Fork, IInv, Inside, Alive, Written
  <1>1. TypeOK'
    BY DEF TypeOK
  <1>2. \A p \in Process : /\ step'[p] = IF p \in P THEN "lock" ELSE step[p]
                           /\ p \notin P => rule'[p] = rule[p]
    BY DEF TypeOK
  <1>3. Held'
    BY <1>2 DEF Held
  <1>4. Undoable' /\ Known'
    BY <1>2 DEF Undoable, Known
  <1> QED
    BY <1>1, <1>3, <1>4

\* The lock file was absent, so nobody else holds it; or the process is done.
LEMMA LockInv ==
  ASSUME IInv, NEW p \in Process, Lock(p)
  PROVE  IInv'
  <1> USE DEF Lock, Locked, LockRefused, Go, IInv, Inside, Alive, Written
  <1>1. rule[p] \in Rule /\ TypeOK'
    BY DEF TypeOK
  <1>2. Held'
    BY <1>1 DEF Held, TypeOK
  <1>3. Undoable'
    BY <1>1 DEF Held, Undoable, Known, TypeOK
  <1>4. Known'
    BY <1>1 DEF Held, Undoable, Known, TypeOK
  <1> QED
    BY <1>1, <1>2, <1>3, <1>4

\* What is left of an earlier execution is absent, rolled back or refused.
LEMMA RollbackInv ==
  ASSUME IInv, NEW p \in Process, Rollback(p)
  PROVE  IInv'
  <1> USE DEF Rollback, NothingToRollBack, BadStateFile, RolledBack, RollbackFailed, Fail, Go, IInv, Inside, Alive, Written
  <1>1. rule[p] \in Rule /\ TypeOK'
    BY DEF TypeOK
  <1>2. Held'
    BY <1>1 DEF Held, TypeOK
  <1>3. Undoable'
    BY <1>1 DEF Held, Undoable, Known, TypeOK
  <1>4. Known'
    <2>1. \A q \in Process \ {p} : step'[q] = step[q]
      BY DEF TypeOK
    <2>2. \A q \in Process \ {p} : step[q] \in Inside => rule[q] \in Rule /\ rule[q] # rule[p]
      BY DEF TypeOK, Held
    <2>3. \A r \in Rule \ {rule[p]} : machine'[r] = machine[r]
      BY DEF TypeOK
    <2>4. /\ step'[p] \in {"prepare", "forget", "unlock"}
          /\ step'[p] = "prepare" => stateFile[rule[p]] = "absent"
          /\ step'[p] = "forget" => machine'[rule[p]] = "clean"
      BY <1>1 DEF TypeOK
    <2> QED
      BY <1>1, <2>1, <2>2, <2>3, <2>4 DEF Known
  <1> QED
    BY <1>1, <1>2, <1>3, <1>4

\* The machine is clean when the state file goes.
LEMMA ForgetInv ==
  ASSUME IInv, NEW p \in Process, Forget(p)
  PROVE  IInv'
  <1> USE DEF Forget, Fail, Go, IInv, Inside, Alive, Written
  <1>1. rule[p] \in Rule /\ TypeOK'
    BY DEF TypeOK
  <1>2. Held'
    BY <1>1 DEF Held, TypeOK
  <1>3. Undoable'
    BY <1>1 DEF Held, Undoable, Known, TypeOK
  <1>4. Known'
    BY <1>1 DEF Held, Undoable, Known, TypeOK
  <1> QED
    BY <1>1, <1>2, <1>3, <1>4

\* Nothing is written yet: without a state file there is nothing to undo.
LEMMA PrepareInv ==
  ASSUME IInv, NEW p \in Process, Prepare(p)
  PROVE  IInv'
  <1> USE DEF Prepare, Fail, Go, IInv, Inside, Alive, Written
  <1>1. rule[p] \in Rule /\ TypeOK'
    BY DEF TypeOK
  <1>2. Held'
    BY <1>1 DEF Held, TypeOK
  <1>3. Undoable'
    BY <1>1 DEF Held, Undoable, Known, TypeOK
  <1>4. Known'
    BY <1>1 DEF Held, Undoable, Known, TypeOK
  <1> QED
    BY <1>1, <1>2, <1>3, <1>4

\* The state file is partial while the machine is as it was.
LEMMA OpenStateInv ==
  ASSUME IInv, NEW p \in Process, OpenState(p)
  PROVE  IInv'
  <1> USE DEF OpenState, Fail, Discarded, Go, IInv, Inside, Alive, Written
  <1>1. rule[p] \in Rule /\ TypeOK'
    BY DEF TypeOK
  <1>2. \A q \in Process \ {p} : step'[q] = step[q]
    BY DEF TypeOK
  <1>3. \A r \in Rule \ {rule[p]} : /\ stateFile'[r] = stateFile[r] /\ machine'[r] = machine[r]
                                    /\ kept'[r] = kept[r] /\ lockFile'[r] = lockFile[r]
    BY <1>1 DEF TypeOK
  <1>own. step'[p] \in {"write", "unlock"} /\ ~(machine[rule[p]] = "dirty" /\ kept[rule[p]])
    BY <1>1 DEF TypeOK, Held, Undoable, Known
  <1>others. \A q \in Process \ {p} : step[q] \in Inside => rule[q] \in Rule /\ rule[q] # rule[p]
    BY DEF TypeOK, Held
  <1>4. Held'
    BY <1>1, <1>2, <1>3, <1>others DEF Held
  <1>5. Undoable'
    BY <1>1, <1>2, <1>3, <1>own DEF Undoable, Known
  <1>6. Known'
    BY <1>1, <1>2, <1>3, <1>own, <1>others DEF Known
  <1> QED
    BY <1>1, <1>4, <1>5, <1>6

\* The process goes on to execute with a file that it takes for complete.
LEMMA WriteStateInv ==
  ASSUME IInv, NEW p \in Process, WriteState(p)
  PROVE  IInv'
  <1> USE DEF WriteState, Fail, Discarded, Go, IInv, Inside, Alive, Written
  <1>1. rule[p] \in Rule /\ TypeOK'
    BY DEF TypeOK
  <1>2. \A q \in Process \ {p} : step'[q] = step[q]
    BY DEF TypeOK
  <1>3. \A r \in Rule \ {rule[p]} : /\ stateFile'[r] = stateFile[r] /\ machine'[r] = machine[r]
                                    /\ kept'[r] = kept[r] /\ lockFile'[r] = lockFile[r]
    BY <1>1 DEF TypeOK
  <1>own. /\ step'[p] \in {"execute", "unlock"} /\ ~(machine[rule[p]] = "dirty" /\ kept[rule[p]])
          /\ step'[p] = "execute" => stateFile'[rule[p]] \in Written
    BY <1>1 DEF TypeOK, Held, Undoable, Known
  <1>others. \A q \in Process \ {p} : step[q] \in Inside => rule[q] \in Rule /\ rule[q] # rule[p]
    BY DEF TypeOK, Held
  <1>4. Held'
    BY <1>1, <1>2, <1>3, <1>others DEF Held
  <1>5. Undoable'
    <2> SUFFICES ASSUME NEW r \in Rule, machine'[r] = "dirty", kept'[r]
                 PROVE  stateFile'[r] \in Written
      BY DEF Undoable
    <2>1. machine[r] = "dirty" /\ kept[r]
      OBVIOUS
    <2>2. r # rule[p]
      BY <1>own, <2>1, Zenon
    <2>3. stateFile'[r] = stateFile[r]
      BY <1>3, <2>2
    <2> QED
      BY <2>1, <2>3 DEF Undoable
  <1>6. Known'
    <2>1. machine' = machine /\ kept' = kept /\ rule' = rule
      OBVIOUS
    <2>2. stateFile'[rule[p]] # "partial" \/ step'[p] = "unlock"
      BY <1>own DEF Written
    <2>3. ASSUME NEW q \in Process \ {p}, step[q] \in Inside
          PROVE  stateFile'[rule[q]] = stateFile[rule[q]]
      BY <1>3, <1>others, <2>3
    <2> QED
      BY <1>2, <1>own, <2>1, <2>2, <2>3 DEF Known
  <1> QED
    BY <1>1, <1>4, <1>5, <1>6

\* The machine gets dirty with a state file that is absent or taken for complete.
LEMMA ExecuteInv ==
  ASSUME IInv, NEW p \in Process, Execute(p)
  PROVE  IInv'
  <1> USE DEF Execute, Go, IInv, Inside, Alive, Written
  <1>1. rule[p] \in Rule /\ TypeOK'
    BY DEF TypeOK
  <1>2. \A q \in Process \ {p} : step'[q] = step[q]
    BY DEF TypeOK
  <1>3. \A r \in Rule \ {rule[p]} : /\ stateFile'[r] = stateFile[r] /\ machine'[r] = machine[r]
                                    /\ kept'[r] = kept[r] /\ lockFile'[r] = lockFile[r]
    BY <1>1 DEF TypeOK
  <1>own. step'[p] = "executing" /\ (kept'[rule[p]] => stateFile[rule[p]] \in Written)
    <2>1. stateFile[rule[p]] \in {"absent"} \cup Written
      BY <1>1 DEF TypeOK, Known
    <2>2. kept'[rule[p]] = (stateFile[rule[p]] # "absent")
      BY <1>1, Zenon DEF TypeOK
    <2>3. step'[p] = "executing"
      BY DEF TypeOK
    <2> QED
      BY <2>1, <2>2, <2>3
  <1>others. \A q \in Process \ {p} : step[q] \in Inside => rule[q] \in Rule /\ rule[q] # rule[p]
    BY DEF TypeOK, Held
  <1>4. Held'
    BY <1>1, <1>2, <1>3, <1>others DEF Held
  <1>5. Undoable'
    BY <1>1, <1>2, <1>3, <1>own DEF Undoable, Known
  <1>6. Known'
    BY <1>1, <1>2, <1>3, <1>own, <1>others DEF Known
  <1> QED
    BY <1>1, <1>4, <1>5, <1>6

\* Either the machine is no longer dirty or nothing has changed.
LEMMA ExecutedInv ==
  ASSUME IInv, NEW p \in Process, Executed(p)
  PROVE  IInv'
  <1> USE DEF Executed, Fail, Go, IInv, Inside, Alive, Written
  <1>1. rule[p] \in Rule /\ TypeOK'
    BY DEF TypeOK
  <1>2. \A q \in Process \ {p} : step'[q] = step[q]
    BY DEF TypeOK
  <1>3. \A r \in Rule \ {rule[p]} : /\ stateFile'[r] = stateFile[r] /\ machine'[r] = machine[r]
                                    /\ kept'[r] = kept[r] /\ lockFile'[r] = lockFile[r]
    BY <1>1 DEF TypeOK
  <1>own. step'[p] = "unlock" /\ (machine'[rule[p]] \in {machine[rule[p]], "applied"})
    BY <1>1 DEF TypeOK, Held, Undoable, Known
  <1>others. \A q \in Process \ {p} : step[q] \in Inside => rule[q] \in Rule /\ rule[q] # rule[p]
    BY DEF TypeOK, Held
  <1>4. Held'
    BY <1>1, <1>2, <1>3, <1>others DEF Held
  <1>5. Undoable'
    BY <1>1, <1>2, <1>3, <1>own DEF Undoable, Known
  <1>6. Known'
    BY <1>1, <1>2, <1>3, <1>own, <1>others DEF Known
  <1> QED
    BY <1>1, <1>4, <1>5, <1>6

\* The process is the one in the lock file, and gives it up with its last step.
LEMMA UnlockInv ==
  ASSUME IInv, NEW p \in Process, Unlock(p)
  PROVE  IInv'
  <1> USE DEF Unlock, Go, IInv, Inside, Alive, Written
  <1>1. rule[p] \in Rule /\ TypeOK'
    BY DEF TypeOK
  <1>2. \A q \in Process \ {p} : step'[q] = step[q]
    BY DEF TypeOK
  <1>3. \A r \in Rule \ {rule[p]} : /\ stateFile'[r] = stateFile[r] /\ machine'[r] = machine[r]
                                    /\ kept'[r] = kept[r] /\ lockFile'[r] = lockFile[r]
    BY <1>1 DEF TypeOK
  <1>own. step'[p] = "exited" /\ lockFile[rule[p]] = {p}
    BY <1>1 DEF TypeOK, Held, Undoable, Known
  <1>others. \A q \in Process \ {p} : step[q] \in Inside => rule[q] \in Rule /\ rule[q] # rule[p]
    BY DEF TypeOK, Held
  <1>4. Held'
    BY <1>1, <1>2, <1>3, <1>own, <1>others DEF Held
  <1>5. Undoable'
    BY <1>1, <1>2, <1>3, <1>own DEF Undoable, Known
  <1>6. Known'
    BY <1>1, <1>2, <1>3, <1>own, <1>others DEF Known
  <1> QED
    BY <1>1, <1>4, <1>5, <1>6

\* A dead process keeps its lock file.
LEMMA KillInv ==
  ASSUME IInv, NEW p \in Process, Kill(p)
  PROVE  IInv'
  <1> USE DEF Kill, Go, IInv, Inside, Alive, Written
  <1>1. rule[p] \in Rule /\ TypeOK'
    BY DEF TypeOK
  <1>2. Held'
    BY <1>1 DEF Held, TypeOK
  <1>3. Undoable'
    BY <1>1 DEF Held, Undoable, Known, TypeOK
  <1>4. Known'
    BY <1>1 DEF Held, Undoable, Known, TypeOK
  <1> QED
    BY <1>1, <1>2, <1>3, <1>4

\* Only the lock of a process that will make no step any more is removed.
LEMMA RemoveStaleLockInv ==
  ASSUME IInv, NEW r \in Rule, RemoveStaleLock(r)
  PROVE  IInv'
  <1> USE DEF RemoveStaleLock, IInv, Inside, Alive, Written
  <1>1. TypeOK'
    BY DEF TypeOK
  <1>2. Held'
    BY DEF Held, TypeOK
  <1>3. Undoable' /\ Known'
    BY DEF Undoable, Known
  <1> QED
    BY <1>1, <1>2, <1>3

\* One lemma per action of Next.
LEMMA NextInv == IInv /\ [Next]_vars => IInv'
  <1> SUFFICES ASSUME IInv, [Next]_vars PROVE IInv'
    OBVIOUS
  <1>1. CASE UNCHANGED vars
    BY <1>1 DEF vars, IInv, TypeOK, Held, Undoable, Known
  <1>2. ASSUME NEW P \in SUBSET Process, NEW started \in [P -> Rule], Fork(started) PROVE IInv'
    BY <1>2, ForkInv
  <1>3. ASSUME NEW p \in Process, Run(p) PROVE IInv'
    BY <1>3, LockInv, RollbackInv, ForgetInv, PrepareInv, OpenStateInv, WriteStateInv, ExecuteInv,
       ExecutedInv, UnlockInv DEF Run
  <1>4. ASSUME NEW p \in Process, Kill(p) PROVE IInv'
    BY <1>4, KillInv
  <1>5. ASSUME NEW r \in Rule, RemoveStaleLock(r) PROVE IInv'
    BY <1>5, RemoveStaleLockInv
  <1> QED
    BY <1>1, <1>2, <1>3, <1>4, <1>5 DEF Next

\* IInv is inductive.
THEOREM Invariant == Spec => []IInv
  BY InitInv, NextInv, PTL DEF Spec

(* Every reachable state is well-typed: the engine knows what each process is for. *)
THEOREM TypeCorrect == Spec => []TypeOK
  <1>1. IInv => TypeOK
    BY DEF IInv
  <1> QED
    BY <1>1, Invariant, PTL

(* "avoid multiple instances applying same rule concurrently", for any number of
   instances, processes, kills and stale locks. *)
THEOREM MutualExclusion == Spec => []Exclusive
  <1>1. IInv => Exclusive
    BY HeldExclusive DEF IInv
  <1> QED
    BY <1>1, Invariant, PTL

(* The state file of a half-done execution stays as that execution left it, through every
   step of every later process and every kill, until it is rolled back (Engine.pm:429-500). *)
THEOREM AlwaysUndoable == Spec => []Undoable
  <1>1. IInv => Undoable
    BY DEF IInv
  <1> QED
    BY <1>1, Invariant, PTL

(* No rule is executed on top of a half-done execution that had saved a state, not even when
   its file was cut short unnoticed (Engine.pm:445-465, 487-491). *)
THEOREM RollsBackFirst == Spec => RollbackFirst
  <1>1. IInv => \A p \in Process : Execute(p) => ~(machine[rule[p]] = "dirty" /\ kept[rule[p]])
    BY DEF IInv, Known, Execute
  <1>2. Spec => [][\A p \in Process : Execute(p) => ~(machine[rule[p]] = "dirty" /\ kept[rule[p]])]_vars
    BY <1>1, Invariant, PTL
  <1> QED
    BY <1>2 DEF RollbackFirst
=============================================================================
