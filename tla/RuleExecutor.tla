---------------------------- MODULE RuleExecutor ----------------------------
(***************************************************************************)
(* Perl/ConfigZilla: the processes that apply rules to a machine           *)
(* (_run_executor_in_child_process and Config::Zilla::FileLock), started   *)
(* by any number of czil instances that share lock_dir and state_dir.      *)
(*                                                                         *)
(* A process that is killed leaves its files behind; the scalar $mutex     *)
(* deletes the lock file only when the process leaves its scope.           *)
(***************************************************************************)
EXTENDS Naturals

CONSTANTS
    Process,    \* process ids
    Rule

VARIABLES
    rule,       \* the rule a process applies
    step,       \* what it does next
    code,       \* $exit_code
    lockFile,   \* per rule: the process that created it, none if it is absent
    stateFile,  \* per rule: absent, written in part, damaged or complete
    machine,    \* per rule: what its executor has done to the machine
    kept        \* history: did the last execution of the rule save a state?

vars == <<rule, step, code, lockFile, stateFile, machine, kept>>
-----------------------------------------------------------------------------
NoRule == "no rule"

\* The steps of a process that holds the lock of its rule.
Inside == {"rollback", "forget", "prepare", "open", "write", "execute", "executing", "unlock"}
Alive == Inside \cup {"lock"}

(* A "damaged" file was taken for complete by the process that wrote it and is
   refused by the next one. *)
Written == {"complete", "damaged"}

TypeOK ==
    /\ rule \in [Process -> Rule \cup {NoRule}]
    /\ step \in [Process -> Alive \cup {"unborn", "exited", "killed"}]
    /\ code \in [Process -> 0 .. 4]
    /\ lockFile \in [Rule -> {{}} \cup {{p} : p \in Process}]
    /\ stateFile \in [Rule -> {"absent", "partial"} \cup Written]
    /\ machine \in [Rule -> {"clean", "dirty", "applied"}]
    /\ kept \in [Rule -> BOOLEAN]
    /\ \A p \in Process : step[p] # "unborn" => rule[p] \in Rule

Init ==
    /\ rule = [p \in Process |-> NoRule]
    /\ step = [p \in Process |-> "unborn"]
    /\ code = [p \in Process |-> 0]
    /\ lockFile = [r \in Rule |-> {}]
    /\ stateFile = [r \in Rule |-> "absent"]
    /\ machine = [r \in Rule |-> "clean"]
    /\ kept = [r \in Rule |-> FALSE]
-----------------------------------------------------------------------------
Go(p, s) == step' = [step EXCEPT ![p] = s]
Fail(p, c) == Go(p, "unlock") /\ code' = [code EXCEPT ![p] = c]

\* Fault: the engine does not know which rule the process is for.
Fork_anonymous(started) ==
    /\ \A p \in DOMAIN started : step[p] = "unborn"
    /\ step' = [p \in Process |-> IF p \in DOMAIN started THEN "lock" ELSE step[p]]
    /\ UNCHANGED <<rule, code, lockFile, stateFile, machine, kept>>

\* A czil instance forks one process or more.
Fork(started) ==
    /\ \A p \in DOMAIN started : step[p] = "unborn"
    /\ rule' = [p \in Process |-> IF p \in DOMAIN started THEN started[p] ELSE rule[p]]
    /\ step' = [p \in Process |-> IF p \in DOMAIN started THEN "lock" ELSE step[p]]
    /\ UNCHANGED <<code, lockFile, stateFile, machine, kept>>

\* Fault: the file is opened without O_EXCL.
Locked_shared(p) ==
    /\ lockFile' = [lockFile EXCEPT ![rule[p]] = {p}]
    /\ Go(p, "rollback")
    /\ UNCHANGED code

\* The lock file is created exclusively.
Locked(p) ==
    /\ lockFile[rule[p]] = {}
    /\ lockFile' = [lockFile EXCEPT ![rule[p]] = {p}]
    /\ Go(p, "rollback")
    /\ UNCHANGED code

\* The lock file exists, or cannot be created.
LockRefused(p) ==
    /\ Go(p, "exited")
    /\ code' = [code EXCEPT ![p] = 1]
    /\ UNCHANGED lockFile

Lock(p) ==
    /\ step[p] = "lock"
    /\ Locked(p) \/ LockRefused(p)
    /\ UNCHANGED <<rule, stateFile, machine, kept>>

\* Fault: a rollback that fails is not an error.
RollbackFailed_ignored(p) ==
    stateFile[rule[p]] = "complete" /\ Go(p, "forget") /\ UNCHANGED <<code, machine>>

NothingToRollBack(p) ==
    stateFile[rule[p]] = "absent" /\ Go(p, "prepare") /\ UNCHANGED <<code, machine>>

\* The length or checksum does not match, or the text after "---" is not found.
BadStateFile(p) ==
    stateFile[rule[p]] \in {"partial", "damaged"} /\ Fail(p, 2) /\ UNCHANGED machine

RolledBack(p) ==
    /\ stateFile[rule[p]] = "complete"
    /\ machine' = [machine EXCEPT ![rule[p]] = "clean"]
    /\ Go(p, "forget")
    /\ UNCHANGED code

\* The executor's rollback() returns false or dies, having done what it could.
RollbackFailed(p) ==
    /\ stateFile[rule[p]] = "complete"
    /\ machine' = [machine EXCEPT ![rule[p]] = "dirty"]
    /\ Fail(p, 2)

Rollback(p) ==
    /\ step[p] = "rollback"
    /\ NothingToRollBack(p) \/ BadStateFile(p) \/ RolledBack(p) \/ RollbackFailed(p)
    /\ UNCHANGED <<rule, lockFile, stateFile, kept>>

\* The state file is deleted, or cannot be.
Forget(p) ==
    /\ step[p] = "forget"
    /\ \/ /\ stateFile' = [stateFile EXCEPT ![rule[p]] = "absent"]
          /\ Go(p, "prepare") /\ UNCHANGED code
       \/ Fail(p, 2) /\ UNCHANGED stateFile
    /\ UNCHANGED <<rule, lockFile, machine, kept>>

\* The executor leaves a state to save, leaves none, or fails.
Prepare(p) ==
    /\ step[p] = "prepare"
    /\ \/ Go(p, "open") /\ UNCHANGED code
       \/ Go(p, "execute") /\ UNCHANGED code
       \/ Fail(p, 3)
    /\ UNCHANGED <<rule, lockFile, stateFile, machine, kept>>

\* After an error the state file is deleted, if that does not fail as well.
Discarded(r) == \E left \in {"absent", "partial"} : stateFile' = [stateFile EXCEPT ![r] = left]

\* The state file is truncated and its first line written.
OpenState(p) ==
    /\ step[p] = "open"
    /\ \/ Go(p, "write") /\ stateFile' = [stateFile EXCEPT ![rule[p]] = "partial"]
          /\ UNCHANGED code
       \/ Fail(p, 3) /\ Discarded(rule[p])
    /\ UNCHANGED <<rule, lockFile, machine, kept>>

\* Fault: the rest is still buffered when the rule is executed.
WriteState_later(p) ==
    /\ step[p] = "write"
    /\ Go(p, "execute")
    /\ UNCHANGED <<rule, code, lockFile, stateFile, machine, kept>>

(* The rest is written.  A syswrite that takes less than it is given, or a close
   that fails, is not noticed; and a state that is dumped without a line "---" of
   its own ("--- {}", an empty one) is written but will not be accepted. *)
WriteState(p) ==
    /\ step[p] = "write"
    /\ \/ /\ Go(p, "execute")
          /\ \E made \in Written : stateFile' = [stateFile EXCEPT ![rule[p]] = made]
          /\ UNCHANGED code
       \/ Fail(p, 3) /\ Discarded(rule[p])
    /\ UNCHANGED <<rule, lockFile, machine, kept>>

\* From here on a kill leaves the machine half changed.
Execute(p) ==
    /\ step[p] = "execute"
    /\ Go(p, "executing")
    /\ machine' = [machine EXCEPT ![rule[p]] = "dirty"]
    /\ kept' = [kept EXCEPT ![rule[p]] = stateFile[rule[p]] # "absent"]
    /\ UNCHANGED <<rule, code, lockFile, stateFile>>

Executed(p) ==
    /\ step[p] = "executing"
    /\ \/ Go(p, "unlock") /\ machine' = [machine EXCEPT ![rule[p]] = "applied"]
          /\ UNCHANGED code
       \/ Fail(p, 4) /\ UNCHANGED machine
    /\ UNCHANGED <<rule, lockFile, stateFile, kept>>

\* $mutex is destroyed, then the process exits.
Unlock(p) ==
    /\ step[p] = "unlock"
    /\ lockFile' = [lockFile EXCEPT ![rule[p]] = {}]
    /\ Go(p, "exited")
    /\ UNCHANGED <<rule, code, stateFile, machine, kept>>

\* The engine's timer or a signal: what the process has written stays.
Kill(p) ==
    /\ step[p] \in Alive
    /\ Go(p, "killed")
    /\ UNCHANGED <<rule, code, lockFile, stateFile, machine, kept>>

\* "or $lock_file is stale": an operator deletes the file of a dead process.
RemoveStaleLock(r) ==
    /\ \E p \in lockFile[r] : step[p] = "killed"
    /\ lockFile' = [lockFile EXCEPT ![r] = {}]
    /\ UNCHANGED <<rule, step, code, stateFile, machine, kept>>

Run(p) == \/ Lock(p) \/ Rollback(p) \/ Forget(p) \/ Prepare(p) \/ OpenState(p) \/ WriteState(p)
          \/ Execute(p) \/ Executed(p) \/ Unlock(p)

Next ==
    \/ \E P \in SUBSET Process : \E started \in [P -> Rule] : Fork(started)
    \/ \E p \in Process : Run(p) \/ Kill(p)
    \/ \E r \in Rule : RemoveStaleLock(r)

Spec == Init /\ [][Next]_vars
-----------------------------------------------------------------------------
(* Properties *)

(* "avoid multiple instances applying same rule concurrently": whatever is
   killed and cleaned up after, one process at a time applies a rule. *)
Exclusive ==
    \A p, q \in Process :
        step[p] \in Inside /\ step[q] \in Inside /\ rule[p] = rule[q] => p = q

(* A machine left half changed by an execution that saved a state has the file
   that execution went on with, whole or as it was damaged unnoticed, however the
   execution ended and whoever came after: it is neither deleted nor written anew
   before the machine is clean again (Engine.pm:429-500). *)
Undoable ==
    \A r \in Rule : machine[r] = "dirty" /\ kept[r] => stateFile[r] \in Written

(* A rule is not executed on top of a half-done execution that had saved a state,
   be it that the rollback fails or that the file turns out to be damaged. *)
RollbackFirst ==
    [][\A p \in Process : Execute(p) => ~(machine[rule[p]] = "dirty" /\ kept[rule[p]])]_vars
=============================================================================
