------------------------------- MODULE MyTrac -------------------------------
(***************************************************************************)
(* Perl/MyTrac: a document database over a git work tree                   *)
(* (lib/MyTrac/Database.pm and Database/{Operation,InsertOp,UpdateOp,      *)
(* DeleteOp}.pm).                                                          *)
(*                                                                         *)
(* A transaction is a list of operations on files.  Each file is opened,   *)
(* then locked with a flock that does not wait; the work tree is written   *)
(* under these locks, .git/ under the lock of .git/mytrac.lck.  What fails *)
(* is undone by the destructors of the operations.  select() is left out:  *)
(* it dies at Database.pm:261, and is one of the ways a caller dies.  So   *)
(* are callers that catch the exception of an operation and go on: their   *)
(* transaction is committed with the operation that has failed in its list. *)
(***************************************************************************)
EXTENDS Naturals, Sequences, FiniteSets

CONSTANTS
    Process,          \* processes with a database object
    File,             \* names of files, derived from the identifiers of objects
    Transaction,      \* lists of operations: [kind |-> ..., file |-> ...]
    Mode,             \* "async" is the default of transact(), "sync" an option
    MaxTransactions,  \* bound on the transactions begun
    MaxFaults,        \* bound on write errors, on locks that cannot be had, on callers that
                      \* die, and on git commands failing for another one
    MaxInodes,        \* bound on the inodes: enough for the files and for all that is open
    NoOne             \* not a process

Kind == {"insert", "update", "delete"}

ASSUME ProcessAssumption == NoOne \notin Process

ASSUME TransactionAssumption ==
    /\ MaxTransactions \in Nat /\ MaxFaults \in Nat /\ MaxInodes \in Nat
    /\ \E n \in [File -> 1..MaxInodes] : \A f, g \in File : n[f] = n[g] => f = g
    /\ Transaction \subseteq Seq([kind : Kind, file : File]) /\ <<>> \notin Transaction
    /\ Mode \subseteq {"async", "sync"}

VARIABLES
    tree,        \* the work tree: the inode a name stands for
    content,     \* of inodes: the transaction that has written it
    index, head, \* git's index, the last commit
    git,         \* who holds the lock of .git/mytrac.lck
    pc, mode, at, ops, number,   \* of processes; `at' is a position in ops
    began, faults,
    \* history
    aborted,     \* transactions that have failed
    spoiled      \* "left": an undo has left something behind; "replaced": a name was given
                 \* to a new file while an operation had the old one open, locked or not

gitVars == <<index, head, git>>
vars == <<tree, content, gitVars, pc, mode, at, ops, number, began, faults, aborted, spoiled>>

Inode == 1..MaxInodes
NoFile == 0
InodeOf == CHOOSE n \in [File -> Inode] : \A f, g \in File : n[f] = n[g] => f = g
Old == 0                        \* what was there in the beginning
Empty == MaxTransactions + 1    \* a file of no bytes
None == MaxTransactions + 2     \* no entry
Data == 0..Empty

Op(p) == ops[p][at[p]]
Locked(i) == \E p \in Process : \E k \in DOMAIN ops[p] : ops[p][k].inode = i /\ ops[p][k].locked
Open(i) == \E p \in Process : \E k \in DOMAIN ops[p] : ops[p][k].inode = i
Fresh(i) == ~Open(i) /\ \A f \in File : tree[f] # i
Room == \E i \in Inode : Fresh(i)
NewInode == CHOOSE i \in Inode : Fresh(i)
\* What is spoiled when a new file gets the name f: another operation has opened an old one.
Replaced(p, f) ==
    IF \E q \in Process : \E k \in DOMAIN ops[q] :
          (q # p \/ k # at[p]) /\ ops[q][k].file = f /\ ops[q][k].inode # NoFile
    THEN {"replaced"} ELSE {}
Writes(p) == {k \in DOMAIN ops[p] : ops[p][k].kind # "delete"}
Deletes(p) == DOMAIN ops[p] \ Writes(p)
FileOf(p, k) == ops[p][k].file
Stored(f) == IF tree[f] = NoFile THEN None ELSE content[tree[f]]

Goto(p, step) == pc' = [pc EXCEPT ![p] = step]
Position(p, k) == at' = [at EXCEPT ![p] = k]
SetOp(p, op) == ops' = [ops EXCEPT ![p][at[p]] = op]

\* An exception: the transaction is undone, from its last operation on.
Throw(p) ==
    /\ Goto(p, "undo")
    /\ Position(p, Len(ops[p]))
    /\ aborted' = aborted \cup {number[p]}

Init ==
    /\ \E there \in SUBSET File :
          tree = [f \in File |-> IF f \in there THEN InodeOf[f] ELSE NoFile]
    /\ content = [i \in Inode |-> Old]
    /\ index = [f \in File |-> IF tree[f] = NoFile THEN None ELSE Old]
    /\ head = index
    /\ git = NoOne
    /\ pc = [p \in Process |-> "idle"]
    /\ mode = [p \in Process |-> "async"]
    /\ at = [p \in Process |-> 0]
    /\ ops = [p \in Process |-> <<>>]
    /\ number = [p \in Process |-> 0]
    /\ began = 0 /\ faults = 0
    /\ aborted = {} /\ spoiled = {}

-----------------------------------------------------------------------------
(* transact() calls the caller's function, which calls insert, update and delete. *)

Begin(p) ==
    /\ pc[p] = "idle" /\ began < MaxTransactions
    /\ \E t \in Transaction, m \in Mode :
          /\ ops' = [ops EXCEPT ![p] =
                [k \in DOMAIN t |-> [kind |-> t[k].kind, file |-> t[k].file,
                                     inode |-> NoFile, locked |-> FALSE]]]
          /\ mode' = [mode EXCEPT ![p] = m]
    /\ began' = began + 1
    /\ number' = [number EXCEPT ![p] = began + 1]
    /\ Position(p, 1)
    /\ Goto(p, "open")
    /\ UNCHANGED <<tree, content, gitVars, faults, aborted, spoiled>>

\* prepare(): sysopen, with O_CREAT | O_EXCL for an insert
OpenFile(p) ==
    LET f == Op(p).file
    IN /\ pc[p] = "open"
       /\ \/ /\ Op(p).kind = "insert" /\ tree[f] = NoFile
             /\ Room
             /\ tree' = [tree EXCEPT ![f] = NewInode]
             /\ content' = [content EXCEPT ![NewInode] = Empty]
             /\ SetOp(p, [Op(p) EXCEPT !.inode = NewInode])
             /\ spoiled' = spoiled \cup Replaced(p, f)
             /\ Goto(p, "lock")
             /\ UNCHANGED <<at, aborted>>
          \/ /\ Op(p).kind # "insert" /\ tree[f] # NoFile
             /\ SetOp(p, [Op(p) EXCEPT !.inode = tree[f]])
             /\ Goto(p, "lock")
             /\ UNCHANGED <<tree, content, at, aborted, spoiled>>
          \/ /\ (Op(p).kind = "insert") # (tree[f] = NoFile)
             /\ Throw(p)
             /\ UNCHANGED <<tree, content, ops, spoiled>>
       /\ UNCHANGED <<gitVars, mode, number, began, faults>>

\* Fault: the position runs past the last operation.
Continue_past(p, step, then) ==
    LET last == at[p] = Len(ops[p])
    IN Goto(p, IF last THEN then ELSE step) /\ Position(p, at[p] + 1)

\* The same for the next operation, or else what comes then for the first one.
Continue(p, step, then) ==
    LET last == at[p] = Len(ops[p])
    IN Goto(p, IF last THEN then ELSE step) /\ Position(p, IF last THEN 1 ELSE at[p] + 1)

\* Fault: the flock waits (no LOCK_NB).
LockFile_waits(p) ==
    /\ pc[p] = "lock" /\ ~Locked(Op(p).inode)
    /\ SetOp(p, [Op(p) EXCEPT !.locked = TRUE])
    /\ IF mode[p] = "sync" THEN Goto(p, "execute") /\ UNCHANGED at
       ELSE Continue(p, "open", "execute")
    /\ UNCHANGED <<tree, content, gitVars, mode, number, began, faults, aborted, spoiled>>

\* prepare(): flock(LOCK_EX | LOCK_NB).  An insert finds that others have written its
\* file: it is `added', and rollback() is to leave it alone.
LockFile(p) ==
    /\ pc[p] = "lock"
    /\ \/ /\ ~Locked(Op(p).inode)
          /\ Op(p).kind = "insert" => content[Op(p).inode] = Empty
          /\ SetOp(p, [Op(p) EXCEPT !.locked = TRUE])
          /\ IF mode[p] = "sync" THEN Goto(p, "execute") /\ UNCHANGED at
             ELSE Continue(p, "open", "execute")
          /\ UNCHANGED <<aborted, spoiled>>
       \/ /\ \/ Locked(Op(p).inode)
             \/ Op(p).kind = "insert" /\ content[Op(p).inode] # Empty
          /\ Throw(p)
          /\ spoiled' = spoiled \cup (IF Op(p).kind = "insert" THEN {"left"} ELSE {})
          /\ UNCHANGED ops
    /\ UNCHANGED <<tree, content, gitVars, mode, number, began, faults>>

\* Fault: a deletion does not wait.
Execute_deletes(p) ==
    /\ pc[p] = "execute"
    /\ IF Op(p).kind = "delete"
       THEN tree' = [tree EXCEPT ![Op(p).file] = NoFile] /\ UNCHANGED content
       ELSE content' = [content EXCEPT ![Op(p).inode] = number[p]] /\ UNCHANGED tree
    /\ Continue(p, IF mode[p] = "sync" THEN "open" ELSE "execute", "flock")
    /\ UNCHANGED <<gitVars, ops, mode, number, began, faults, aborted, spoiled>>

\* A deletion waits until the transaction is successful.
Execute(p) ==
    /\ pc[p] = "execute"
    /\ content' = IF Op(p).kind = "delete" THEN content
                  ELSE [content EXCEPT ![Op(p).inode] = number[p]]
    /\ Continue(p, IF mode[p] = "sync" THEN "open" ELSE "execute", "flock")
    /\ UNCHANGED <<tree, gitVars, ops, mode, number, began, faults, aborted, spoiled>>

\* The file is truncated and then cannot be written.
ExecuteFails(p) ==
    /\ pc[p] = "execute" /\ Op(p).kind # "delete" /\ faults < MaxFaults
    /\ faults' = faults + 1
    /\ content' = [content EXCEPT ![Op(p).inode] = Empty]
    /\ Throw(p)
    /\ UNCHANGED <<tree, gitVars, ops, mode, number, began, spoiled>>

\* The caller's function dies, between two operations or after the last one.  (In async
\* mode it does so before anything is opened, and nothing comes of it.)
FunctionDies(p) ==
    /\ pc[p] \in {"open", "flock"} /\ mode[p] = "sync" /\ faults < MaxFaults
    /\ faults' = faults + 1
    /\ Throw(p)
    /\ UNCHANGED <<tree, content, gitVars, ops, mode, number, began, spoiled>>

-----------------------------------------------------------------------------
(* The commit, under the lock of .git/mytrac.lck. *)

\* Fault: the lock is not tested.
LockGit_unlocked(p) ==
    /\ pc[p] = "flock"
    /\ git' = p
    /\ Goto(p, "add")
    /\ UNCHANGED <<tree, content, index, head, at, ops, mode, number, began, faults, aborted,
                   spoiled>>

LockGit(p) ==
    /\ pc[p] = "flock" /\ git = NoOne
    /\ git' = p
    /\ Goto(p, "add")
    /\ UNCHANGED <<tree, content, index, head, at, ops, mode, number, began, faults, aborted,
                   spoiled>>

\* The lock file cannot be opened, or flock fails.
LockGitFails(p) ==
    /\ pc[p] = "flock" /\ faults < MaxFaults
    /\ faults' = faults + 1
    /\ Throw(p)
    /\ UNCHANGED <<tree, content, gitVars, ops, mode, number, began, spoiled>>

\* git add takes what the names stand for, and nothing if one of them is missing.
Add(p) ==
    /\ pc[p] = "add"
    /\ \/ /\ \A k \in Writes(p) : tree[FileOf(p, k)] # NoFile
          /\ index' = [f \in File |->
                IF \E k \in Writes(p) : FileOf(p, k) = f THEN content[tree[f]] ELSE index[f]]
          /\ Goto(p, "rm")
          /\ UNCHANGED <<at, aborted>>
       \/ /\ \E k \in Writes(p) : tree[FileOf(p, k)] = NoFile
          /\ Throw(p)
          /\ UNCHANGED index
    /\ UNCHANGED <<tree, content, head, git, ops, mode, number, began, faults, spoiled>>

\* git rm --cached removes all of the files, or nothing if one of them is unknown.
Rm(p) ==
    /\ pc[p] = "rm"
    /\ \/ /\ \A k \in Deletes(p) : index[FileOf(p, k)] # None
          /\ index' = [f \in File |->
                IF \E k \in Deletes(p) : FileOf(p, k) = f THEN None ELSE index[f]]
          /\ Goto(p, "commit")
          /\ UNCHANGED <<at, aborted>>
       \/ /\ \E k \in Deletes(p) : index[FileOf(p, k)] = None
          /\ Throw(p)
          /\ UNCHANGED index
    /\ UNCHANGED <<tree, content, head, git, ops, mode, number, began, faults, spoiled>>

\* git commit takes all of the index; it fails when nothing has changed.
CommitGit(p) ==
    /\ pc[p] = "commit"
    /\ \/ /\ index # head
          /\ head' = index
          /\ Goto(p, "done")
          /\ Position(p, Len(ops[p]))
          /\ UNCHANGED aborted
       \/ /\ index = head
          /\ Throw(p)
          /\ UNCHANGED head
    /\ UNCHANGED <<tree, content, index, git, ops, mode, number, began, faults, spoiled>>

\* A git command of p fails: another process, which is undoing a transaction
\* without the lock of .git/mytrac.lck, has locked the index.
Meddling(p) == \E q \in Process \ {p} : pc[q] = "undo" /\ git # q

GitFails(p) ==
    /\ pc[p] \in {"add", "rm", "commit"} /\ Meddling(p) /\ faults < MaxFaults
    /\ faults' = faults + 1
    /\ Throw(p)
    /\ UNCHANGED <<tree, content, gitVars, ops, mode, number, began, spoiled>>

-----------------------------------------------------------------------------
(* The scope guard drops the operations, and then the lock of .git/mytrac.lck. *)

Unlink(f) == tree' = [tree EXCEPT ![f] = NoFile]
Unstage(f) == index' = [index EXCEPT ![f] = head[f]]

\* Operation::DEMOLISH: unlock and close.
Drop(p) ==
    /\ SetOp(p, [Op(p) EXCEPT !.inode = NoFile, !.locked = FALSE])
    /\ Position(p, at[p] - 1)

\* Fault: the index keeps the file.
rollback_insert_staged(p) ==
    /\ Unlink(Op(p).file)
    /\ UNCHANGED <<content, index, spoiled>>

\* InsertOp::rollback
rollback_insert(p) ==
    /\ index' = [index EXCEPT ![Op(p).file] = None]
    /\ Unlink(Op(p).file)
    /\ UNCHANGED <<content, spoiled>>

\* UpdateOp::rollback: git checkout HEAD -- file, which puts a file of its own in place of
\* one that differs.
rollback_update(p) ==
    LET f == Op(p).file
        replaces == Stored(f) # head[f]
    IN \/ /\ head[f] = None
          /\ spoiled' = spoiled \cup (IF Stored(f) # None THEN {"left"} ELSE {})
          /\ UNCHANGED <<tree, content, index>>
       \/ /\ head[f] # None /\ replaces /\ Room
          /\ Unstage(f)
          /\ tree' = [tree EXCEPT ![f] = NewInode]
          /\ content' = [content EXCEPT ![NewInode] = head[f]]
          /\ spoiled' = spoiled \cup Replaced(p, f)
       \/ /\ head[f] # None /\ ~replaces
          /\ Unstage(f)
          /\ UNCHANGED <<tree, content, spoiled>>

\* DeleteOp::rollback: git reset -- file
rollback_delete(p) ==
    /\ Unstage(Op(p).file)
    /\ UNCHANGED <<tree, content, spoiled>>

rollback(p) ==
    \/ Op(p).kind = "insert" /\ rollback_insert(p)
    \/ Op(p).kind = "update" /\ rollback_update(p)
    \/ Op(p).kind = "delete" /\ rollback_delete(p)

Undo(p) ==
    /\ pc[p] = "undo" /\ at[p] > 0
    /\ IF Op(p).locked THEN rollback(p) ELSE UNCHANGED <<tree, content, index, spoiled>>
    /\ Drop(p)
    /\ UNCHANGED <<head, git, pc, mode, number, began, faults, aborted>>

\* As GitFails; an insert's file is deleted all the same.
UndoFails(p) ==
    /\ pc[p] = "undo" /\ at[p] > 0 /\ Op(p).locked
    /\ faults < MaxFaults
    /\ Meddling(p) \/ git \notin {p, NoOne}
    /\ faults' = faults + 1
    /\ LET f == Op(p).file
           left == index[f] # head[f] \/ (Op(p).kind = "update" /\ Stored(f) # head[f])
       IN spoiled' = spoiled \cup (IF left THEN {"left"} ELSE {})
    /\ IF Op(p).kind = "insert" THEN Unlink(Op(p).file) ELSE UNCHANGED tree
    /\ Drop(p)
    /\ UNCHANGED <<content, gitVars, pc, mode, number, began, aborted>>

\* DeleteOp::DEMOLISH deletes the file now.
Release(p) ==
    /\ pc[p] = "done" /\ at[p] > 0
    /\ IF Op(p).kind = "delete" THEN Unlink(Op(p).file) ELSE UNCHANGED tree
    /\ Drop(p)
    /\ UNCHANGED <<content, gitVars, pc, mode, number, began, faults, aborted, spoiled>>

Return(p) ==
    /\ pc[p] \in {"undo", "done"} /\ at[p] = 0
    /\ git' = IF git = p THEN NoOne ELSE git
    /\ ops' = [ops EXCEPT ![p] = <<>>]
    /\ Goto(p, "idle")
    /\ UNCHANGED <<tree, content, index, head, at, mode, number, began, faults, aborted, spoiled>>

Step(p) ==
    \/ OpenFile(p) \/ LockFile(p) \/ Execute(p) \/ ExecuteFails(p) \/ FunctionDies(p)
    \/ LockGit(p) \/ LockGitFails(p) \/ Add(p) \/ Rm(p) \/ CommitGit(p) \/ GitFails(p)
    \/ Undo(p) \/ UndoFails(p) \/ Release(p) \/ Return(p)

Next == \E p \in Process : Begin(p) \/ Step(p)

Spec == Init /\ [][Next]_vars

\* A process runs; it waits only for the lock of .git/mytrac.lck.
FairSpec == Spec /\ \A p \in Process : WF_vars(Step(p))
-----------------------------------------------------------------------------
Operation == [kind : Kind, file : File, inode : Inode \cup {NoFile}, locked : BOOLEAN]

TypeOK ==
    /\ tree \in [File -> Inode \cup {NoFile}]
    /\ content \in [Inode -> Data]
    /\ index \in [File -> Data \cup {None}] /\ head \in [File -> Data \cup {None}]
    /\ git \in Process \cup {NoOne}
    /\ pc \in [Process -> {"idle", "open", "lock", "execute", "flock", "add", "rm", "commit",
                           "undo", "done"}]
    /\ mode \in [Process -> {"async", "sync"}]
    /\ ops \in [Process -> Seq(Operation)]
    /\ at \in [Process -> Nat]
    /\ \A p \in Process : pc[p] # "idle" => at[p] \in 0..Len(ops[p])
    /\ number \in [Process -> 0..MaxTransactions]
    /\ aborted \subseteq 1..MaxTransactions
    /\ spoiled \subseteq {"left", "replaced"}

\* Until an undo has left something behind or a file was replaced while another operation
\* had it open: while nobody uses a file, git's last commit, its index and the work tree
\* agree about it (Database.pm:311: a failure undoes the operations of a transaction).
Agree ==
    spoiled = {} =>
        \A f \in File :
            (\A p \in Process : \A k \in DOMAIN ops[p] : FileOf(p, k) # f) =>
                index[f] = head[f] /\ head[f] = Stored(f)

\* Until an undo has left something behind or a file was replaced while another operation
\* had it open (UpdateOp.pm:17, where it fails), a commit takes the operations of its own
\* transaction to HEAD, all of them and nothing else, though git commits whatever has been
\* added to the index (Database.pm:173).
CommitsOwn ==
    [][spoiled = {} /\ head' # head =>
        \E p \in Process :
            /\ pc[p] = "commit" /\ pc'[p] = "done"
            /\ \A f \in File :
                  \/ /\ \E k \in Writes(p) : FileOf(p, k) = f
                     /\ head'[f] = number[p]
                  \/ /\ \E k \in Deletes(p) : FileOf(p, k) = f
                     /\ head'[f] = None
                  \/ /\ \A k \in DOMAIN ops[p] : FileOf(p, k) # f
                     /\ head'[f] = head[f]]_vars

\* Until an undo has left something behind or a file was replaced while another operation
\* had it open, no commit holds anything that a failed transaction has written: what it has
\* added to the common index (Database.pm:161) is out of it before anybody commits.
AbortedGone == spoiled = {} => \A f \in File : head[f] \notin aborted

\* Transactions that want the same files in different orders do not wait for each other
\* for ever: every one ends (the flocks do not wait, the lock of .git is the last).
Ends == \A p \in Process : pc[p] # "idle" ~> pc[p] = "idle"
=============================================================================
