---------------------------- MODULE MyTracProofs ----------------------------
(***************************************************************************)
(* Proofs about MyTrac: type correctness, and, as long as nothing is       *)
(* spoiled, that the work tree, the index and HEAD agree about the         *)
(* files nobody uses, that a commit holds its own transaction and nothing  *)
(* else, and that nothing of a failed transaction is committed.            *)
(***************************************************************************)
EXTENDS MyTrac, SequenceTheorems, TLAPS

-----------------------------------------------------------------------------
(* Control: what the step a process is at says about its operations. *)

Opened(p, k) == ops[p][k].inode # NoFile

ControlOf(p) ==
    /\ pc[p] = "idle" => ops[p] = <<>>
    /\ pc[p] \in {"open", "lock", "execute"} => at[p] \in DOMAIN ops[p]
    /\ pc[p] \in {"add", "rm", "commit", "done"} => git = p
    /\ git = p => pc[p] \in {"add", "rm", "commit", "done", "undo"}

HandleOf(p, k) ==
    /\ ops[p][k].locked => Opened(p, k)
    /\ pc[p] = "open" => IF k < at[p] THEN ops[p][k].locked ELSE ~Opened(p, k)
    /\ pc[p] = "lock" =>
          /\ k < at[p] => ops[p][k].locked
          /\ k = at[p] => Opened(p, k) /\ ~ops[p][k].locked
          /\ k > at[p] => ~Opened(p, k)
    /\ pc[p] = "execute" =>
          IF mode[p] = "async" \/ k <= at[p] THEN ops[p][k].locked ELSE ~Opened(p, k)
    /\ pc[p] \in {"flock", "add", "rm", "commit"} => ops[p][k].locked
    /\ pc[p] = "done" => IF k <= at[p] THEN ops[p][k].locked ELSE ~Opened(p, k)
    /\ pc[p] = "undo" /\ k > at[p] => ~Opened(p, k)

Control == \A p \in Process : ControlOf(p)
Handles == \A p \in Process : \A k \in DOMAIN ops[p] : HandleOf(p, k)

Numbers ==
    /\ began \in 0..MaxTransactions /\ aborted \subseteq 1..began
    /\ \A p \in Process :
          /\ number[p] \in 0..began
          /\ pc[p] # "idle" => number[p] # 0
          /\ pc[p] \notin {"undo", "idle"} => number[p] \notin aborted
    /\ \A p, q \in Process : number[p] = number[q] /\ number[p] # 0 => p = q

-----------------------------------------------------------------------------
(* Files: names, inodes and locks, while nothing is spoiled. *)

OneFile ==
    \A p, q \in Process : \A k \in DOMAIN ops[p] : \A l \in DOMAIN ops[q] :
        Opened(p, k) /\ Opened(q, l) =>
            (ops[p][k].file = ops[q][l].file <=> ops[p][k].inode = ops[q][l].inode)

Named ==
    \A p \in Process : \A k \in DOMAIN ops[p] : Opened(p, k) =>
        \A f \in File :
            IF f = ops[p][k].file THEN tree[f] \in {ops[p][k].inode, NoFile}
            ELSE tree[f] # ops[p][k].inode

OneName == \A f, g \in File : tree[f] = tree[g] /\ tree[f] # NoFile => f = g

OneLock ==
    \A p, q \in Process : \A k \in DOMAIN ops[p] : \A l \in DOMAIN ops[q] :
        ops[p][k].locked /\ ops[q][l].locked /\ ops[p][k].inode = ops[q][l].inode =>
            p = q /\ k = l

UndoneInsert ==
    \A p \in Process : \A k \in DOMAIN ops[p] :
        pc[p] = "undo" /\ ops[p][k].kind = "insert" /\ Opened(p, k) => ops[p][k].locked

-----------------------------------------------------------------------------
(* Data: what the work tree, the index and HEAD hold, while nothing is spoiled. *)

\* An insert has created the file and not locked it yet.
Pending(f) ==
    \E p \in Process : \E k \in DOMAIN ops[p] :
        ops[p][k].kind = "insert" /\ ops[p][k].file = f /\ Opened(p, k) /\ ~ops[p][k].locked

InUse(f) ==
    \E p \in Process : \E k \in DOMAIN ops[p] : ops[p][k].locked /\ ops[p][k].file = f

Executed(p, k) ==
    \/ pc[p] \in {"flock", "add", "rm", "commit", "done"}
    \/ k < at[p] /\ pc[p] = "execute"
    \/ k < at[p] /\ pc[p] \in {"open", "lock"} /\ mode[p] = "sync"

Absent == \A f \in File : tree[f] = NoFile => index[f] = None /\ head[f] = None

Staged ==
    \A f \in File : index[f] # head[f] =>
        \E p \in Process : \E k \in DOMAIN ops[p] :
            /\ git = p /\ pc[p] \in {"rm", "commit", "undo"}
            /\ ops[p][k].locked /\ ops[p][k].file = f

WriteHolds(p, k) ==
    LET o == ops[p][k]
    IN /\ o.kind = "insert" /\ pc[p] # "done" => head[o.file] = None
       /\ Executed(p, k) => content[o.inode] = number[p]
       /\ pc[p] \in {"rm", "commit"} => tree[o.file] = o.inode /\ index[o.file] = number[p]
       /\ pc[p] = "done" => tree[o.file] = o.inode /\ head[o.file] = number[p]

DeleteHolds(p, k) ==
    LET f == ops[p][k].file
    IN /\ pc[p] # "done" => Stored(f) = head[f] \/ Pending(f)
       /\ pc[p] = "commit" => index[f] = None
       /\ pc[p] = "done" => head[f] = None

HeldOf(p, k) ==
    ops[p][k].locked =>
        IF ops[p][k].kind = "delete" THEN DeleteHolds(p, k) ELSE WriteHolds(p, k)

Held == \A p \in Process : \A k \in DOMAIN ops[p] : HeldOf(p, k)

Settled == \A f \in File : ~InUse(f) /\ ~Pending(f) => Stored(f) = head[f]

EmptyOf(p, k) ==
    Opened(p, k) /\ content[ops[p][k].inode] = Empty =>
        \/ head[ops[p][k].file] = None
        \/ \E q \in Process : \E l \in DOMAIN ops[q] :
              /\ pc[q] = "undo" /\ ops[q][l].locked /\ ops[q][l].kind = "update"
              /\ ops[q][l].file = ops[p][k].file

EmptyFile == \A p \in Process : \A k \in DOMAIN ops[p] : EmptyOf(p, k)

Committed ==
    \A f \in File :
        /\ head[f] = None \/ head[f] \in 0..began
        /\ head[f] \notin aborted
        /\ \A p \in Process : pc[p] \notin {"done", "idle"} => head[f] # number[p]

Files == OneFile /\ Named /\ OneName /\ OneLock /\ UndoneInsert
Contents == Absent /\ Staged /\ Held /\ Settled /\ EmptyFile /\ Committed

-----------------------------------------------------------------------------
(* Steps on the lists of operations. *)

\* A list of operations is a function on the numbers up to its length.
LEMMA Lists ==
    ASSUME TypeOK
    PROVE  \A p \in Process :
               /\ Len(ops[p]) \in Nat /\ DOMAIN ops[p] = 1..Len(ops[p])
               /\ \A k \in DOMAIN ops[p] : ops[p][k] \in Operation
BY DEF TypeOK

\* SetOp changes one operation.
LEMMA SetOpEffect ==
    ASSUME TypeOK, NEW p \in Process, at[p] \in DOMAIN ops[p], NEW o \in Operation,
           SetOp(p, o)
    PROVE  /\ ops' \in [Process -> Seq(Operation)]
           /\ \A q \in Process : Len(ops'[q]) = Len(ops[q]) /\ DOMAIN ops'[q] = DOMAIN ops[q]
           /\ \A q \in Process : \A k \in DOMAIN ops[q] :
                  ops'[q][k] = IF q = p /\ k = at[p] THEN o ELSE ops[q][k]
<1>1. ops \in [Process -> Seq(Operation)]
  BY DEF TypeOK
<1>2. ops' = [ops EXCEPT ![p] = [ops[p] EXCEPT ![at[p]] = o]]
  BY <1>1 DEF SetOp
<1>3. /\ [ops[p] EXCEPT ![at[p]] = o] \in Seq(Operation)
      /\ Len([ops[p] EXCEPT ![at[p]] = o]) = Len(ops[p])
      /\ DOMAIN [ops[p] EXCEPT ![at[p]] = o] = DOMAIN ops[p]
      /\ \A k \in DOMAIN ops[p] :
             [ops[p] EXCEPT ![at[p]] = o][k] = IF k = at[p] THEN o ELSE ops[p][k]
  BY <1>1, ExceptSeq, LenProperties
<1> QED
  BY <1>1, <1>2, <1>3

-----------------------------------------------------------------------------
(* Types and control. *)

Base == TypeOK /\ Control /\ Handles /\ Numbers

LEMMA InodesOfFiles ==
    InodeOf \in [File -> Inode] /\ \A f, g \in File : InodeOf[f] = InodeOf[g] => f = g
BY TransactionAssumption DEF InodeOf, Inode

LEMMA InitBase == Init => Base
<1> SUFFICES ASSUME Init PROVE Base
  OBVIOUS
<1>1. PICK there \in SUBSET File :
          tree = [f \in File |-> IF f \in there THEN InodeOf[f] ELSE NoFile]
  BY DEF Init
<1>2. tree \in [File -> Inode \cup {NoFile}]
  BY <1>1, InodesOfFiles
<1>3. TypeOK
  BY <1>2, TransactionAssumption DEF Init, TypeOK, Old, None, Data, Empty, Kind
<1>4. Control /\ Handles
  BY ProcessAssumption DEF Init, Control, ControlOf, Handles
<1>5. Numbers
  BY TransactionAssumption DEF Init, Numbers
<1> QED
  BY <1>3, <1>4, <1>5 DEF Base

\* A step of p concerns the control of p only.
LEMMA BaseOf ==
    ASSUME Base, NEW p \in Process, TypeOK', Numbers', ControlOf(p)',
           \A k \in DOMAIN ops'[p] : HandleOf(p, k)',
           \A q \in Process : q # p =>
               /\ pc'[q] = pc[q] /\ at'[q] = at[q] /\ mode'[q] = mode[q] /\ ops'[q] = ops[q]
               /\ git' = q <=> git = q
    PROVE  Base'
<1>1. ASSUME NEW q \in Process, q # p PROVE ControlOf(q)'
  BY <1>1 DEF Base, Control, ControlOf
<1>2. ASSUME NEW q \in Process, NEW k \in DOMAIN ops'[q], q # p PROVE HandleOf(q, k)'
  <2>1. k \in DOMAIN ops[q] /\ HandleOf(q, k)
    BY <1>2 DEF Base, Handles
  <2> QED
    BY <2>1, <1>2 DEF HandleOf, Opened
<1> QED
  BY <1>1, <1>2 DEF Base, Control, Handles

LEMMA BeginBase ==
    ASSUME Base, NEW p \in Process, Begin(p)
    PROVE  Base'
<1>1. PICK t \in Transaction, m \in Mode :
          /\ ops' = [ops EXCEPT ![p] =
                [k \in DOMAIN t |-> [kind |-> t[k].kind, file |-> t[k].file,
                                     inode |-> NoFile, locked |-> FALSE]]]
          /\ mode' = [mode EXCEPT ![p] = m]
  BY DEF Begin
<1> DEFINE new == [k \in DOMAIN t |-> [kind |-> t[k].kind, file |-> t[k].file,
                                       inode |-> NoFile, locked |-> FALSE]]
<1>2. /\ t \in Seq([kind : Kind, file : File]) /\ t # <<>>
      /\ m \in {"async", "sync"} /\ MaxTransactions \in Nat
  BY TransactionAssumption
<1>3. DOMAIN t = 1..Len(t) /\ Len(t) \in Nat \ {0}
  BY <1>2
<1>4. new \in Seq(Operation) /\ Len(new) = Len(t)
  <2>1. \A k \in 1..Len(t) : t[k] \in [kind : Kind, file : File]
    BY <1>2, <1>3, ElementOfSeq
  <2>2. new \in [1..Len(t) -> Operation]
    BY <1>3, <2>1 DEF Operation
  <2> HIDE DEF new
  <2> QED
    BY <1>3, <2>2
<1>5. /\ DOMAIN new = DOMAIN t
      /\ \A k \in DOMAIN t : new[k].inode = NoFile /\ new[k].locked = FALSE
  OBVIOUS
<1>6. ops' = [ops EXCEPT ![p] = new]
  BY <1>1
<1> HIDE DEF new
<1>7. /\ pc[p] = "idle" /\ began < MaxTransactions
      /\ pc' = [pc EXCEPT ![p] = "open"] /\ at' = [at EXCEPT ![p] = 1]
      /\ number' = [number EXCEPT ![p] = began + 1] /\ began' = began + 1
      /\ UNCHANGED <<tree, content, index, head, git, faults, aborted, spoiled>>
  BY DEF Begin, Goto, Position, gitVars
<1>8. /\ ops' \in [Process -> Seq(Operation)]
      /\ \A q \in Process : ops'[q] = IF q = p THEN new ELSE ops[q]
      /\ \A q \in Process : pc'[q] = IF q = p THEN "open" ELSE pc[q]
      /\ \A q \in Process : at'[q] = IF q = p THEN 1 ELSE at[q]
      /\ \A q \in Process : mode'[q] = IF q = p THEN m ELSE mode[q]
  BY <1>1, <1>4, <1>6, <1>7 DEF Base, TypeOK
<1>9. TypeOK'
  <2>1. number' \in [Process -> 0..MaxTransactions] /\ began' \in 0..MaxTransactions
    BY <1>2, <1>7 DEF Base, TypeOK, Numbers
  <2>2. mode' \in [Process -> {"async", "sync"}] /\ at' \in [Process -> Nat]
    BY <1>1, <1>2, <1>7 DEF Base, TypeOK
  <2>3. ASSUME NEW q \in Process, pc'[q] # "idle" PROVE at'[q] \in 0..Len(ops'[q])
    <3>1. CASE q = p
      BY <3>1, <1>3, <1>4, <1>8
    <3>2. CASE q # p
      BY <2>3, <3>2, <1>8 DEF Base, TypeOK
    <3> QED
      BY <3>1, <3>2
  <2> QED
    BY <2>1, <2>2, <2>3, <1>7, <1>8 DEF Base, TypeOK
<1>10. ControlOf(p)'
  BY <1>3, <1>5, <1>7, <1>8 DEF Base, Control, ControlOf
<1>11. \A k \in DOMAIN ops'[p] : HandleOf(p, k)'
  BY <1>3, <1>5, <1>8 DEF HandleOf, Opened
<1>12. Numbers'
  BY <1>2, <1>7 DEF Base, TypeOK, Numbers
<1> QED
  BY <1>7, <1>8, <1>9, <1>10, <1>11, <1>12, BaseOf

\* An exception.
LEMMA ThrowBase ==
    ASSUME Base, NEW p \in Process, Throw(p), pc[p] # "idle",
           UNCHANGED <<git, ops, mode, number, began>>,
           tree' \in [File -> Inode \cup {NoFile}], content' \in [Inode -> Data],
           index' \in [File -> Data \cup {None}], head' \in [File -> Data \cup {None}],
           spoiled' \subseteq {"left", "replaced"}
    PROVE  Base'
<1>1. Len(ops[p]) \in Nat /\ DOMAIN ops[p] = 1..Len(ops[p])
  BY Lists DEF Base
<1>2. /\ pc' = [pc EXCEPT ![p] = "undo"] /\ at' = [at EXCEPT ![p] = Len(ops[p])]
      /\ aborted' = aborted \cup {number[p]}
  BY DEF Throw, Goto, Position
<1>3. \A q \in Process : /\ pc'[q] = IF q = p THEN "undo" ELSE pc[q]
                         /\ at'[q] = IF q = p THEN Len(ops[p]) ELSE at[q]
  BY <1>2 DEF Base, TypeOK
<1>4. number[p] \in 1..MaxTransactions /\ number[p] \in 1..began
  BY DEF Base, TypeOK, Numbers
<1>5. Numbers'
  BY <1>2, <1>3, <1>4 DEF Base, Numbers
<1>6. TypeOK'
  <2>1. ASSUME NEW q \in Process, pc'[q] # "idle" PROVE at'[q] \in 0..Len(ops'[q])
    <3>1. CASE q = p
      BY <3>1, <1>1, <1>3
    <3>2. CASE q # p
      BY <2>1, <3>2, <1>3 DEF Base, TypeOK
    <3> QED
      BY <3>1, <3>2
  <2>2. /\ pc' \in [Process -> {"idle", "open", "lock", "execute", "flock", "add", "rm",
                               "commit", "undo", "done"}]
        /\ at' \in [Process -> Nat] /\ aborted' \subseteq 1..MaxTransactions
    BY <1>1, <1>2, <1>4 DEF Base, TypeOK
  <2> QED
    BY <2>1, <2>2 DEF Base, TypeOK
<1>7. ControlOf(p)'
  BY <1>3 DEF Base, Control, ControlOf
<1>8. \A k \in DOMAIN ops'[p] : HandleOf(p, k)'
  BY <1>1, <1>3 DEF Base, Handles, HandleOf, Opened
<1> QED
  BY <1>3, <1>5, <1>6, <1>7, <1>8, BaseOf

LEMMA NewInodeIsFresh == Room => NewInode \in Inode /\ Fresh(NewInode)
BY DEF Room, NewInode

\* What a step of p leaves to be shown of its own control, when its number is kept.
LEMMA ForwardBase ==
    ASSUME Base, NEW p \in Process, pc[p] # "idle",
           NEW step \in {"open", "lock", "execute", "flock", "add", "rm", "commit", "done",
                         "undo"},
           pc[p] = "undo" => step = "undo",
           pc' = [pc EXCEPT ![p] = step],
           at' \in [Process -> Nat], at'[p] \in 0..Len(ops'[p]),
           \A q \in Process : q # p => at'[q] = at[q],
           ops' \in [Process -> Seq(Operation)], \A q \in Process : q # p => ops'[q] = ops[q],
           step = "undo" => pc[p] = "undo",
           UNCHANGED <<mode, number, began, aborted>>,
           tree' \in [File -> Inode \cup {NoFile}], content' \in [Inode -> Data],
           index' \in [File -> Data \cup {None}], head' \in [File -> Data \cup {None}],
           git' \in {git, p} /\ (git' # git => git = NoOne),
           spoiled' \subseteq {"left", "replaced"},
           ControlOf(p)', \A k \in DOMAIN ops'[p] : HandleOf(p, k)'
    PROVE  Base'
<1>1. \A q \in Process : pc'[q] = IF q = p THEN step ELSE pc[q]
  BY DEF Base, TypeOK
<1>2. Numbers'
  BY <1>1 DEF Base, Numbers
<1>3. TypeOK'
  <2>1. ASSUME NEW q \in Process, pc'[q] # "idle" PROVE at'[q] \in 0..Len(ops'[q])
    <3>1. CASE q = p
      BY <3>1
    <3>2. CASE q # p
      BY <2>1, <3>2, <1>1 DEF Base, TypeOK
    <3> QED
      BY <3>1, <3>2
  <2>2. /\ pc' \in [Process -> {"idle", "open", "lock", "execute", "flock", "add", "rm",
                               "commit", "undo", "done"}]
        /\ git' \in Process \cup {NoOne}
    BY DEF Base, TypeOK
  <2> QED
    BY <2>1, <2>2 DEF Base, TypeOK
<1>4. \A q \in Process : q # p => (git' = q <=> git = q)
  BY ProcessAssumption
<1> QED
  BY <1>1, <1>2, <1>3, <1>4, BaseOf DEF Base

LEMMA OpenFileBase ==
    ASSUME Base, NEW p \in Process, OpenFile(p)
    PROVE  Base'
<1> DEFINE f == Op(p).file
<1>1. /\ pc[p] = "open" /\ at[p] \in DOMAIN ops[p] /\ Op(p) \in Operation /\ f \in File
      /\ Len(ops[p]) \in Nat /\ DOMAIN ops[p] = 1..Len(ops[p])
      /\ UNCHANGED <<index, head, git, mode, number, began, faults>>
  BY Lists DEF Base, OpenFile, Control, ControlOf, gitVars, Op, Operation
<1>2. /\ tree \in [File -> Inode \cup {NoFile}] /\ content \in [Inode -> Data]
      /\ index \in [File -> Data \cup {None}] /\ head \in [File -> Data \cup {None}]
      /\ spoiled \subseteq {"left", "replaced"}
  BY DEF Base, TypeOK
<1> DEFINE opened(i) == [Op(p) EXCEPT !.inode = i]
<1>3. ASSUME NEW i \in Inode, SetOp(p, opened(i)), Goto(p, "lock"), UNCHANGED <<at, aborted>>,
             tree' \in [File -> Inode \cup {NoFile}], content' \in [Inode -> Data],
             spoiled' \subseteq {"left", "replaced"}
      PROVE  Base'
  <2>1. opened(i) \in Operation /\ opened(i).inode = i /\ opened(i).locked = Op(p).locked
    BY <1>1 DEF Operation
  <2> DEFINE o == opened(i)
  <2> HIDE DEF o
  <2>2. /\ ops' \in [Process -> Seq(Operation)]
        /\ \A q \in Process : Len(ops'[q]) = Len(ops[q]) /\ DOMAIN ops'[q] = DOMAIN ops[q]
        /\ \A q \in Process : \A k \in DOMAIN ops[q] :
               ops'[q][k] = IF q = p /\ k = at[p] THEN o ELSE ops[q][k]
        /\ \A q \in Process : q # p => ops'[q] = ops[q]
    <3>1. SetOp(p, o) /\ o \in Operation
      BY <1>3, <2>1 DEF o
    <3>2. \A q \in Process : q # p => ops'[q] = ops[q]
      BY <3>1 DEF SetOp, Base, TypeOK
    <3> QED
      BY <1>1, <3>1, <3>2, SetOpEffect DEF Base
  <2>3. pc' = [pc EXCEPT ![p] = "lock"] /\ pc'[p] = "lock" /\ at' = at
    BY <1>3, <1>1 DEF Goto, Base, TypeOK
  <2>4. o.inode = i /\ o.locked = Op(p).locked /\ i # NoFile
    BY <2>1 DEF o, Inode, NoFile
  <2>5. \A k \in DOMAIN ops[p] : HandleOf(p, k)
    BY DEF Base, Handles
  <2>6. \A k \in DOMAIN ops'[p] : HandleOf(p, k)'
    BY <1>1, <2>2, <2>3, <2>4, <2>5 DEF HandleOf, Opened, Op
  <2>7. ControlOf(p)'
    BY <1>1, <2>2, <2>3 DEF ControlOf, Base, Control
  <2>8. at' \in [Process -> Nat] /\ at'[p] \in 0..Len(ops'[p])
    BY <1>1, <2>2, <2>3 DEF Base, TypeOK
  <2> QED
    BY <1>1, <1>2, <1>3, <2>2, <2>3, <2>6, <2>7, <2>8, ForwardBase
<1> HIDE DEF f
<1>4. CASE /\ Op(p).kind = "insert" /\ tree[f] = NoFile /\ Room
           /\ tree' = [tree EXCEPT ![f] = NewInode]
           /\ content' = [content EXCEPT ![NewInode] = Empty]
           /\ SetOp(p, opened(NewInode)) /\ spoiled' = spoiled \cup Replaced(p, f)
           /\ Goto(p, "lock") /\ UNCHANGED <<at, aborted>>
  <2>1. NewInode \in Inode
    BY <1>4, NewInodeIsFresh
  <2>2. tree' \in [File -> Inode \cup {NoFile}]
    BY <1>1, <1>2, <1>4, <2>1
  <2>3. content' \in [Inode -> Data]
    BY <1>2, <1>4, <2>1, TransactionAssumption DEF Data, Empty
  <2>4. spoiled' \subseteq {"left", "replaced"}
    BY <1>2, <1>4 DEF Replaced
  <2> QED
    BY <1>3, <1>4, <2>1, <2>2, <2>3, <2>4
<1>5. CASE /\ Op(p).kind # "insert" /\ tree[f] # NoFile
           /\ SetOp(p, opened(tree[f])) /\ Goto(p, "lock")
           /\ UNCHANGED <<tree, content, at, aborted, spoiled>>
  <2>1. tree[f] \in Inode
    BY <1>1, <1>2, <1>5
  <2> QED
    BY <1>2, <1>3, <1>5, <2>1
<1>6. CASE Throw(p) /\ UNCHANGED <<tree, content, ops, spoiled>>
  BY <1>1, <1>2, <1>6, ThrowBase
<1> QED
  BY <1>4, <1>5, <1>6 DEF OpenFile, f

\* What is so of every process that is at an operation.
LEMMA AtOperation ==
    ASSUME Base, NEW p \in Process, at[p] \in DOMAIN ops[p]
    PROVE  /\ Op(p) \in Operation /\ Op(p).file \in File
           /\ Len(ops[p]) \in Nat /\ DOMAIN ops[p] = 1..Len(ops[p])
           /\ HandleOf(p, at[p]) /\ Op(p) = ops[p][at[p]]
BY Lists DEF Base, Handles, Op, Operation

LEMMA Types ==
    ASSUME Base
    PROVE  /\ tree \in [File -> Inode \cup {NoFile}] /\ content \in [Inode -> Data]
           /\ index \in [File -> Data \cup {None}] /\ head \in [File -> Data \cup {None}]
           /\ spoiled \subseteq {"left", "replaced"} /\ at \in [Process -> Nat]
           /\ ops \in [Process -> Seq(Operation)]
BY DEF Base, TypeOK

LEMMA ContinueEffect ==
    ASSUME Base, NEW p \in Process, at[p] \in DOMAIN ops[p], NEW step, NEW then,
           Continue(p, step, then)
    PROVE  LET last == at[p] = Len(ops[p])
               position == IF last THEN 1 ELSE at[p] + 1
           IN  /\ pc' = [pc EXCEPT ![p] = IF last THEN then ELSE step]
               /\ pc'[p] = IF last THEN then ELSE step
               /\ at' \in [Process -> Nat] /\ at'[p] = position /\ position \in 1..Len(ops[p])
               /\ \A q \in Process : q # p => at'[q] = at[q]
BY AtOperation DEF Continue, Goto, Position, Base, TypeOK

LEMMA LockFileBase ==
    ASSUME Base, NEW p \in Process, LockFile(p)
    PROVE  Base'
<1>1. /\ pc[p] = "lock" /\ at[p] \in DOMAIN ops[p]
      /\ UNCHANGED <<tree, content, index, head, git, mode, number, began, faults>>
  BY DEF Base, LockFile, Control, ControlOf, gitVars
<1> DEFINE o == [Op(p) EXCEPT !.locked = TRUE]
<1>2. CASE /\ SetOp(p, o)
           /\ IF mode[p] = "sync" THEN Goto(p, "execute") /\ UNCHANGED at
              ELSE Continue(p, "open", "execute")
           /\ UNCHANGED <<aborted, spoiled>>
  <2>1. o \in Operation /\ o.inode = Op(p).inode /\ o.locked = TRUE
    BY <1>1, AtOperation DEF Operation
  <2> HIDE DEF o
  <2>2. /\ ops' \in [Process -> Seq(Operation)]
        /\ \A q \in Process : Len(ops'[q]) = Len(ops[q]) /\ DOMAIN ops'[q] = DOMAIN ops[q]
        /\ \A q \in Process : \A k \in DOMAIN ops[q] :
               ops'[q][k] = IF q = p /\ k = at[p] THEN o ELSE ops[q][k]
        /\ \A q \in Process : q # p => ops'[q] = ops[q]
    <3>1. \A q \in Process : q # p => ops'[q] = ops[q]
      BY <1>2, Types DEF SetOp
    <3> QED
      BY <1>1, <1>2, <2>1, <3>1, SetOpEffect DEF Base
  <2>3. /\ Op(p) = ops[p][at[p]] /\ Opened(p, at[p]) /\ mode[p] \in {"async", "sync"}
        /\ Len(ops[p]) \in Nat /\ DOMAIN ops[p] = 1..Len(ops[p])
    BY <1>1, AtOperation DEF HandleOf, Base, TypeOK
  <2>4. \A k \in DOMAIN ops[p] : HandleOf(p, k)
    BY DEF Base, Handles
  <2>5. CASE mode[p] = "sync"
    <3>1. pc' = [pc EXCEPT ![p] = "execute"] /\ pc'[p] = "execute" /\ at' = at
      BY <1>2, <2>5 DEF Goto, Base, TypeOK
    <3>2. \A k \in DOMAIN ops'[p] : HandleOf(p, k)'
      BY <1>1, <2>1, <2>2, <2>3, <2>4, <2>5, <3>1 DEF HandleOf, Opened
    <3>3. ControlOf(p)'
      BY <1>1, <2>2, <3>1 DEF ControlOf, Base, Control
    <3>4. at' \in [Process -> Nat] /\ at'[p] \in 0..Len(ops'[p])
      BY <1>1, <2>2, <2>3, <3>1, Types
    <3> QED
      BY <1>1, <1>2, <2>2, <3>1, <3>2, <3>3, <3>4, ForwardBase, Types
  <2>6. CASE mode[p] = "async"
    <3>1. Continue(p, "open", "execute")
      BY <1>2, <2>6
    <3>2. /\ pc' = [pc EXCEPT ![p] = IF at[p] = Len(ops[p]) THEN "execute" ELSE "open"]
          /\ pc'[p] = IF at[p] = Len(ops[p]) THEN "execute" ELSE "open"
          /\ at' \in [Process -> Nat] /\ at'[p] \in 1..Len(ops[p])
          /\ at'[p] = IF at[p] = Len(ops[p]) THEN 1 ELSE at[p] + 1
          /\ \A q \in Process : q # p => at'[q] = at[q]
      BY <1>1, <3>1, ContinueEffect
    <3>3. \A k \in DOMAIN ops'[p] : HandleOf(p, k)'
      <4>1. ASSUME NEW k \in DOMAIN ops[p]
            PROVE  IF k <= at[p] THEN ops'[p][k].locked /\ ops'[p][k].inode # NoFile
                   ELSE ops'[p][k].inode = NoFile
        <5>1. CASE k = at[p]
          BY <5>1, <2>1, <2>2, <2>3 DEF Opened
        <5>2. CASE k < at[p]
          BY <5>2, <1>1, <2>2, <2>3, <2>4 DEF HandleOf, Opened
        <5>3. CASE k > at[p]
          BY <5>3, <1>1, <2>2, <2>3, <2>4 DEF HandleOf, Opened
        <5> QED
          BY <5>1, <5>2, <5>3, <1>1, <2>3
      <4>2. at[p] = Len(ops[p]) => pc'[p] = "execute" /\ \A k \in DOMAIN ops[p] : k <= at[p]
        BY <2>3, <3>2
      <4>3. at[p] # Len(ops[p]) => pc'[p] = "open" /\ at'[p] = at[p] + 1
        BY <3>2
      <4>4. \A k \in DOMAIN ops[p] : k <= at[p] <=> k < at[p] + 1
        BY <1>1, <2>3
      <4>5. mode'[p] = "async" /\ DOMAIN ops'[p] = DOMAIN ops[p]
        BY <1>1, <2>2, <2>6
      <4>6. CASE at[p] = Len(ops[p])
        <5>1. \A k \in DOMAIN ops'[p] : ops'[p][k].locked /\ ops'[p][k].inode # NoFile
          BY <4>1, <4>2, <4>5, <4>6
        <5> QED
          BY <5>1, <4>2, <4>5, <4>6 DEF HandleOf, Opened
      <4>7. CASE at[p] # Len(ops[p])
        <5>1. ASSUME NEW k \in DOMAIN ops'[p]
              PROVE  /\ ops'[p][k].locked => ops'[p][k].inode # NoFile
                     /\ IF k < at'[p] THEN ops'[p][k].locked ELSE ops'[p][k].inode = NoFile
          <6>1. CASE k <= at[p]
            BY <6>1, <4>1, <4>3, <4>4, <4>5, <4>7
          <6>2. CASE k > at[p]
            <7>1. ~ops'[p][k].locked
              BY <6>2, <1>1, <2>2, <2>3, <2>4, <4>5 DEF HandleOf, Opened
            <7> QED
              BY <7>1, <6>2, <1>1, <2>3, <4>1, <4>3, <4>5
          <6> QED
            BY <6>1, <6>2, <1>1, <2>3, <4>5
        <5> QED
          BY <5>1, <4>3, <4>5, <4>7 DEF HandleOf, Opened
      <4> QED
        BY <4>6, <4>7
    <3>4. ControlOf(p)'
      BY <1>1, <2>2, <2>3, <3>2 DEF ControlOf, Base, Control
    <3>5. at'[p] \in 0..Len(ops'[p])
      BY <2>2, <2>3, <3>2
    <3> QED
      BY <1>1, <1>2, <2>2, <3>2, <3>3, <3>4, <3>5, ForwardBase, Types
  <2> QED
    BY <2>3, <2>5, <2>6
<1>3. CASE /\ Throw(p) /\ UNCHANGED ops
           /\ spoiled' = spoiled \cup (IF Op(p).kind = "insert" THEN {"left"} ELSE {})
  BY <1>1, <1>3, Types, ThrowBase
<1> QED
  BY <1>2, <1>3 DEF LockFile

LEMMA ExecuteBase ==
    ASSUME Base, NEW p \in Process, Execute(p)
    PROVE  Base'
<1>1. /\ pc[p] = "execute" /\ at[p] \in DOMAIN ops[p]
      /\ UNCHANGED <<tree, index, head, git, ops, mode, number, began, faults, aborted, spoiled>>
      /\ Continue(p, IF mode[p] = "sync" THEN "open" ELSE "execute", "flock")
  BY DEF Base, Execute, Control, ControlOf, gitVars
<1>2. content' \in [Inode -> Data]
  <2>1. number[p] \in Data
    BY TransactionAssumption DEF Base, TypeOK, Data, Empty
  <2> QED
    BY <2>1, Types DEF Execute
<1> DEFINE step == IF mode[p] = "sync" THEN "open" ELSE "execute"
<1>3. /\ pc' = [pc EXCEPT ![p] = IF at[p] = Len(ops[p]) THEN "flock" ELSE step]
      /\ pc'[p] = IF at[p] = Len(ops[p]) THEN "flock" ELSE step
      /\ at' \in [Process -> Nat] /\ at'[p] \in 1..Len(ops[p])
      /\ at'[p] = IF at[p] = Len(ops[p]) THEN 1 ELSE at[p] + 1
      /\ \A q \in Process : q # p => at'[q] = at[q]
  BY <1>1, ContinueEffect
<1>4. Len(ops[p]) \in Nat /\ DOMAIN ops[p] = 1..Len(ops[p]) /\ mode[p] \in {"async", "sync"}
  BY Lists DEF Base, TypeOK
<1>5. \A k \in DOMAIN ops'[p] : HandleOf(p, k)'
  <2>1. \A k \in DOMAIN ops[p] : HandleOf(p, k)
    BY DEF Base, Handles
  <2> QED
    BY <1>1, <1>3, <1>4, <2>1 DEF HandleOf, Opened
<1>6. ControlOf(p)'
  BY <1>1, <1>3, <1>4 DEF ControlOf, Base, Control
<1>7. PICK then : then = IF at[p] = Len(ops[p]) THEN "flock" ELSE step
  OBVIOUS
<1>8. then \in {"flock", "open", "execute"} /\ at'[p] \in 0..Len(ops'[p])
  BY <1>1, <1>3, <1>4, <1>7
<1> QED
  BY <1>1, <1>2, <1>3, <1>5, <1>6, <1>7, <1>8, ForwardBase, Types

LEMMA FaultBase ==
    ASSUME Base, NEW p \in Process,
           ExecuteFails(p) \/ FunctionDies(p) \/ LockGitFails(p) \/ GitFails(p)
    PROVE  Base'
<1>1. content' \in [Inode -> Data]
  BY Types, TransactionAssumption DEF ExecuteFails, FunctionDies, LockGitFails, GitFails, Data, Empty
<1>2. /\ Throw(p) /\ pc[p] \in {"open", "execute", "flock", "add", "rm", "commit"}
      /\ UNCHANGED <<tree, index, head, git, ops, mode, number, began, spoiled>>
  BY DEF ExecuteFails, FunctionDies, LockGitFails, GitFails, gitVars
<1> QED
  BY <1>1, <1>2, Types, ThrowBase

\* What goes on without its operations.
LEMMA CommitBase ==
    ASSUME Base, NEW p \in Process, LockGit(p) \/ Add(p) \/ Rm(p) \/ CommitGit(p)
    PROVE  Base'
<1>1. \A k \in DOMAIN ops[p] : HandleOf(p, k)
  BY DEF Base, Handles
<1>2. Len(ops[p]) \in Nat /\ DOMAIN ops[p] = 1..Len(ops[p])
  BY Lists DEF Base
<1>3. ASSUME NEW step \in {"add", "rm", "commit", "done"}, pc[p] \in {"flock", "add", "rm", "commit"},
             Goto(p, step), UNCHANGED <<tree, content, ops, mode, number, began, aborted, spoiled>>,
             at' = at \/ Position(p, Len(ops[p])), step = "done" => Position(p, Len(ops[p])),
             index' \in [File -> Data \cup {None}], head' \in [File -> Data \cup {None}],
             git' = p, git \in {p, NoOne}
      PROVE  Base'
  <2>1. pc' = [pc EXCEPT ![p] = step] /\ pc'[p] = step
    BY <1>3 DEF Goto, Base, TypeOK
  <2>2. /\ at' \in [Process -> Nat] /\ at'[p] \in 0..Len(ops'[p])
        /\ \A q \in Process : q # p => at'[q] = at[q]
        /\ step = "done" => at'[p] = Len(ops[p])
    <3>1. CASE at' = at
      BY <1>2, <1>3, <3>1, Types DEF Position, Base, TypeOK
    <3>2. CASE Position(p, Len(ops[p]))
      BY <1>2, <1>3, <3>2, Types DEF Position
    <3> QED
      BY <1>3, <3>1, <3>2
  <2>3. \A k \in DOMAIN ops'[p] : HandleOf(p, k)'
    BY <1>1, <1>2, <1>3, <2>1, <2>2 DEF HandleOf, Opened
  <2>4. ControlOf(p)'
    BY <1>3, <2>1 DEF ControlOf
  <2> QED
    BY <1>3, <2>1, <2>2, <2>3, <2>4, Types, ForwardBase
<1>4. CASE LockGit(p)
  BY <1>4, <1>3, Types DEF LockGit
<1>5. CASE Add(p)
  <2>1. pc[p] = "add" /\ git = p /\ UNCHANGED <<tree, content, head, git, ops, mode, number, began, faults, spoiled>>
    BY <1>5 DEF Add, Base, Control, ControlOf
  <2>2. CASE /\ \A k \in Writes(p) : tree[FileOf(p, k)] # NoFile
             /\ index' = [f \in File |->
                  IF \E k \in Writes(p) : FileOf(p, k) = f THEN content[tree[f]] ELSE index[f]]
             /\ Goto(p, "rm") /\ UNCHANGED <<at, aborted>>
    <3>1. ASSUME NEW f \in File, NEW k \in Writes(p), FileOf(p, k) = f PROVE content[tree[f]] \in Data
      BY <2>2, <3>1, Types
    <3>2. index' \in [File -> Data \cup {None}]
      BY <2>2, <3>1, Types
    <3> QED
      BY <2>1, <2>2, <3>2, <1>3, Types
  <2>3. CASE Throw(p) /\ UNCHANGED index
    BY <2>1, <2>3, Types, ThrowBase
  <2> QED
    BY <1>5, <2>2, <2>3 DEF Add
<1>6. CASE Rm(p)
  <2>1. pc[p] = "rm" /\ git = p /\ UNCHANGED <<tree, content, head, git, ops, mode, number, began, faults, spoiled>>
    BY <1>6 DEF Rm, Base, Control, ControlOf
  <2>2. CASE /\ index' = [f \in File |->
                  IF \E k \in Deletes(p) : FileOf(p, k) = f THEN None ELSE index[f]]
             /\ Goto(p, "commit") /\ UNCHANGED <<at, aborted>>
    <3>1. index' \in [File -> Data \cup {None}]
      BY <2>2, Types
    <3> QED
      BY <2>1, <2>2, <3>1, <1>3, Types
  <2>3. CASE Throw(p) /\ UNCHANGED index
    BY <2>1, <2>3, Types, ThrowBase
  <2> QED
    BY <1>6, <2>2, <2>3 DEF Rm
<1>7. CASE CommitGit(p)
  <2>1. pc[p] = "commit" /\ git = p /\ UNCHANGED <<tree, content, index, git, ops, mode, number, began, faults, spoiled>>
    BY <1>7 DEF CommitGit, Base, Control, ControlOf
  <2>2. CASE head' = index /\ Goto(p, "done") /\ Position(p, Len(ops[p])) /\ UNCHANGED aborted
    BY <2>1, <2>2, <1>3, Types
  <2>3. CASE Throw(p) /\ UNCHANGED head
    BY <2>1, <2>3, Types, ThrowBase
  <2> QED
    BY <1>7, <2>2, <2>3 DEF CommitGit
<1> QED
  BY <1>4, <1>5, <1>6, <1>7

LEMMA PositionIsValid ==
    ASSUME Base, NEW p \in Process, pc[p] # "idle", at[p] > 0
    PROVE  /\ at[p] \in DOMAIN ops[p]
           /\ Len(ops[p]) \in Nat /\ DOMAIN ops[p] = 1..Len(ops[p])
<1>1. Len(ops[p]) \in Nat /\ DOMAIN ops[p] = 1..Len(ops[p])
  BY Lists DEF Base
<1>2. at[p] \in 0..Len(ops[p])
  BY DEF Base, TypeOK
<1> QED
  BY <1>1, <1>2

\* Drop closes the operation p is at.
LEMMA DropEffect ==
    ASSUME Base, NEW p \in Process, at[p] \in DOMAIN ops[p], Drop(p)
    PROVE  /\ ops' \in [Process -> Seq(Operation)]
           /\ \A q \in Process : Len(ops'[q]) = Len(ops[q]) /\ DOMAIN ops'[q] = DOMAIN ops[q]
           /\ \A q \in Process : \A k \in DOMAIN ops[q] :
                  IF q = p /\ k = at[p]
                  THEN /\ ops'[q][k].inode = NoFile /\ ~ops'[q][k].locked
                       /\ ops'[q][k].kind = ops[q][k].kind
                       /\ ops'[q][k].file = ops[q][k].file
                  ELSE ops'[q][k] = ops[q][k]
           /\ \A q \in Process : q # p => ops'[q] = ops[q]
           /\ at' = [at EXCEPT ![p] = at[p] - 1]
<1> DEFINE o == [Op(p) EXCEPT !.inode = NoFile, !.locked = FALSE]
<1>1. /\ o \in Operation /\ o.inode = NoFile /\ o.locked = FALSE
      /\ o.kind = Op(p).kind /\ o.file = Op(p).file
  BY AtOperation DEF Operation
<1>2. SetOp(p, o) /\ at' = [at EXCEPT ![p] = at[p] - 1]
  BY DEF Drop, Position
<1> HIDE DEF o
<1>3. \A q \in Process : q # p => ops'[q] = ops[q]
  BY <1>2, Types DEF SetOp
<1>4. /\ ops' \in [Process -> Seq(Operation)]
      /\ \A q \in Process : Len(ops'[q]) = Len(ops[q]) /\ DOMAIN ops'[q] = DOMAIN ops[q]
      /\ \A q \in Process : \A k \in DOMAIN ops[q] :
             ops'[q][k] = IF q = p /\ k = at[p] THEN o ELSE ops[q][k]
  BY <1>1, <1>2, SetOpEffect DEF Base
<1> QED
  BY <1>1, <1>2, <1>3, <1>4 DEF Op

LEMMA DropBase ==
    ASSUME Base, NEW p \in Process, pc[p] \in {"undo", "done"}, at[p] > 0, Drop(p),
           UNCHANGED <<head, git, pc, mode, number, began, aborted>>,
           tree' \in [File -> Inode \cup {NoFile}], content' \in [Inode -> Data],
           index' \in [File -> Data \cup {None}], spoiled' \subseteq {"left", "replaced"}
    PROVE  Base'
<1>1. /\ Len(ops[p]) \in Nat /\ DOMAIN ops[p] = 1..Len(ops[p])
      /\ at[p] \in DOMAIN ops[p]
  BY PositionIsValid
<1>2. /\ at' \in [Process -> Nat] /\ at'[p] \in 0..Len(ops'[p]) /\ at'[p] = at[p] - 1
      /\ \A q \in Process : q # p => at'[q] = at[q]
  <2>1. /\ at' = [at EXCEPT ![p] = at[p] - 1] /\ Len(ops'[p]) = Len(ops[p])
        /\ at \in [Process -> Nat]
    BY <1>1, DropEffect, Types
  <2>2. at[p] - 1 \in Nat /\ at[p] - 1 \in 0..Len(ops[p])
    BY <1>1
  <2> QED
    BY <2>1, <2>2
<1>3. \A k \in DOMAIN ops'[p] : HandleOf(p, k)'
  <2>1. \A k \in DOMAIN ops[p] : HandleOf(p, k)
    BY DEF Base, Handles
  <2>2. ASSUME NEW k \in DOMAIN ops[p], k = at[p] PROVE HandleOf(p, k)'
    BY <2>2, <1>1, <1>2, DropEffect DEF HandleOf, Opened
  <2>3. ASSUME NEW k \in DOMAIN ops[p], k # at[p] PROVE HandleOf(p, k)'
    <3>1. ops'[p][k] = ops[p][k] /\ HandleOf(p, k)
      BY <2>1, <2>3, <1>1, DropEffect
    <3>2. (k > at'[p] => k > at[p]) /\ (k <= at'[p] => k <= at[p])
      BY <2>3, <1>1, <1>2
    <3> QED
      BY <3>1, <3>2, <1>1, <1>2 DEF HandleOf, Opened
  <2> QED
    BY <2>2, <2>3, <1>1, DropEffect
<1>4. ControlOf(p)'
  BY DEF ControlOf, Base, Control
<1>5. pc' = [pc EXCEPT ![p] = pc[p]] /\ (pc'[p] = "undo" <=> pc[p] = "undo")
  BY DEF Base, TypeOK
<1>6. ops' \in [Process -> Seq(Operation)] /\ \A q \in Process : q # p => ops'[q] = ops[q]
  BY <1>1, DropEffect
<1> QED
  BY <1>2, <1>3, <1>4, <1>5, <1>6, Types, ForwardBase

LEMMA UndoBase ==
    ASSUME Base, NEW p \in Process, Undo(p) \/ UndoFails(p) \/ Release(p)
    PROVE  Base'
<1>1. /\ pc[p] \in {"undo", "done"} /\ at[p] > 0 /\ Drop(p)
      /\ UNCHANGED <<head, git, pc, mode, number, began, aborted>>
  BY DEF Undo, UndoFails, Release, gitVars
<1>2. at[p] \in DOMAIN ops[p]
  BY <1>1, PositionIsValid
<1>3. Op(p).file \in File
  BY <1>2, AtOperation
<1>4. None \in Data \cup {None} /\ NoFile \in Inode \cup {NoFile}
  OBVIOUS
<1>5. \A f \in File : Unlink(f) => tree' \in [File -> Inode \cup {NoFile}]
  BY <1>4, Types DEF Unlink
<1>6. CASE Undo(p)
  <2>1. CASE UNCHANGED <<tree, content, index, spoiled>>
    BY <1>1, <2>1, Types, DropBase
  <2>2. CASE rollback_insert(p)
    <3>1. index' \in [File -> Data \cup {None}]
      BY <2>2, Types DEF rollback_insert
    <3> QED
      BY <1>1, <1>3, <1>5, <2>2, <3>1, Types, DropBase DEF rollback_insert
  <2>3. CASE rollback_update(p)
    <3>1. \/ UNCHANGED index
          \/ Unstage(Op(p).file)
      BY <2>3 DEF rollback_update
    <3>2. index' \in [File -> Data \cup {None}]
      BY <1>3, <3>1, Types DEF Unstage
    <3>3. spoiled' \subseteq {"left", "replaced"}
      BY <2>3, Types DEF rollback_update, Replaced
    <3>4. tree' \in [File -> Inode \cup {NoFile}] /\ content' \in [Inode -> Data]
      <4>1. CASE UNCHANGED <<tree, content>>
        BY <4>1, Types
      <4>2. CASE /\ head[Op(p).file] # None /\ Room
                 /\ tree' = [tree EXCEPT ![Op(p).file] = NewInode]
                 /\ content' = [content EXCEPT ![NewInode] = head[Op(p).file]]
        BY <1>3, <4>2, NewInodeIsFresh, Types
      <4> QED
        BY <2>3, <4>1, <4>2 DEF rollback_update
    <3> QED
      BY <1>1, <3>2, <3>3, <3>4, Types, DropBase
  <2>4. CASE rollback_delete(p)
    <3>1. index' \in [File -> Data \cup {None}]
      BY <1>3, <2>4, Types DEF rollback_delete, Unstage
    <3> QED
      BY <1>1, <2>4, <3>1, Types, DropBase DEF rollback_delete
  <2> QED
    BY <1>6, <2>1, <2>2, <2>3, <2>4 DEF Undo, rollback
<1>7. CASE UndoFails(p)
  <2>1. /\ UNCHANGED <<content, index>> /\ spoiled' \subseteq {"left", "replaced"}
        /\ Unlink(Op(p).file) \/ UNCHANGED tree
    BY <1>7, Types DEF UndoFails, gitVars
  <2> QED
    BY <1>1, <1>3, <1>5, <2>1, Types, DropBase
<1>8. CASE Release(p)
  <2>1. UNCHANGED <<content, index, spoiled>> /\ (Unlink(Op(p).file) \/ UNCHANGED tree)
    BY <1>8 DEF Release, gitVars
  <2> QED
    BY <1>1, <1>3, <1>5, <2>1, Types, DropBase
<1> QED
  BY <1>6, <1>7, <1>8

LEMMA ReturnBase ==
    ASSUME Base, NEW p \in Process, Return(p)
    PROVE  Base'
<1>1. /\ pc[p] # "idle" /\ git' = IF git = p THEN NoOne ELSE git
      /\ ops' = [ops EXCEPT ![p] = <<>>] /\ pc' = [pc EXCEPT ![p] = "idle"]
      /\ UNCHANGED <<tree, content, index, head, at, mode, number, began, faults, aborted, spoiled>>
  BY DEF Return, Goto
<1>2. /\ ops' \in [Process -> Seq(Operation)] /\ ops'[p] = <<>>
      /\ \A q \in Process : q # p => ops'[q] = ops[q]
      /\ \A q \in Process : pc'[q] = IF q = p THEN "idle" ELSE pc[q]
  BY <1>1, Types DEF Base, TypeOK
<1>3. TypeOK'
  BY <1>1, <1>2 DEF Base, TypeOK
<1>4. Numbers'
  BY <1>1, <1>2 DEF Base, Numbers
<1>5. ControlOf(p)' /\ \A k \in DOMAIN ops'[p] : HandleOf(p, k)'
  BY <1>1, <1>2, ProcessAssumption DEF ControlOf
<1> QED
  BY <1>1, <1>2, <1>3, <1>4, <1>5, ProcessAssumption, BaseOf

LEMMA NextBase == Base /\ [Next]_vars => Base'
<1> SUFFICES ASSUME Base, [Next]_vars PROVE Base'
  OBVIOUS
<1>1. CASE UNCHANGED vars
  BY <1>1 DEF vars, gitVars, Base, TypeOK, Control, ControlOf, Handles, HandleOf, Opened, Numbers
<1>2. ASSUME NEW p \in Process, Begin(p) \/ Step(p) PROVE Base'
  BY <1>2, BeginBase, OpenFileBase, LockFileBase, ExecuteBase, FaultBase, CommitBase, UndoBase,
     ReturnBase
  DEF Step
<1> QED
  BY <1>1, <1>2 DEF Next

LEMMA BaseInvariant == Spec => []Base
BY InitBase, NextBase, PTL DEF Spec

\* Type correctness: among other things, the position of a process stays in its list.
THEOREM TypeCorrect == Spec => []TypeOK
<1>1. Base => TypeOK
  BY DEF Base
<1> QED
  BY <1>1, BaseInvariant, PTL

-----------------------------------------------------------------------------
(* What a step does to the operations. *)

\* A step of p changes nothing of another process.
Others(p) ==
    \A q \in Process \ {p} :
        /\ pc'[q] = pc[q] /\ at'[q] = at[q] /\ mode'[q] = mode[q] /\ ops'[q] = ops[q]
        /\ number'[q] = number[q]

LEMMA OthersStay ==
    ASSUME Base, NEW p \in Process, Begin(p) \/ Step(p)
    PROVE  Others(p)
<1>1. /\ pc \in [Process -> {"idle", "open", "lock", "execute", "flock", "add", "rm", "commit",
                            "undo", "done"}]
      /\ at \in [Process -> Nat] /\ mode \in [Process -> {"async", "sync"}]
      /\ ops \in [Process -> Seq(Operation)] /\ number \in [Process -> 0..MaxTransactions]
  BY DEF Base, TypeOK
<1>2. CASE Begin(p)
  BY <1>1, <1>2 DEF Others, Begin, Goto, Position
<1>3. CASE OpenFile(p)
  BY <1>1, <1>3 DEF Others, OpenFile, Goto, Position, Throw, SetOp
<1>4. CASE LockFile(p)
  BY <1>1, <1>4 DEF Others, LockFile, Goto, Position, Throw, SetOp, Continue
<1>5. CASE Execute(p)
  BY <1>1, <1>5 DEF Others, Execute, Goto, Position, Continue
<1>6. CASE ExecuteFails(p) \/ FunctionDies(p) \/ LockGitFails(p) \/ GitFails(p)
  BY <1>1, <1>6 DEF Others, ExecuteFails, FunctionDies, LockGitFails, GitFails, Goto, Position,
                    Throw
<1>7. CASE LockGit(p) \/ Add(p) \/ Rm(p) \/ CommitGit(p)
  BY <1>1, <1>7 DEF Others, LockGit, Add, Rm, CommitGit, Goto, Position, Throw
<1>8. CASE Undo(p) \/ UndoFails(p) \/ Release(p)
  <2>1. Drop(p) /\ UNCHANGED <<pc, mode, number>>
    BY <1>8 DEF Undo, UndoFails, Release
  <2> QED
    BY <1>1, <2>1 DEF Others, Drop, SetOp, Position
<1>9. CASE Return(p)
  BY <1>1, <1>9 DEF Others, Return, Goto
<1> QED
  BY <1>2, <1>3, <1>4, <1>5, <1>6, <1>7, <1>8, <1>9 DEF Step

\* Op(p) alone changes, in what the step gives it.
SameBut(p) ==
    /\ \A q \in Process : DOMAIN ops'[q] = DOMAIN ops[q]
    /\ \A q \in Process : \A k \in DOMAIN ops[q] :
           /\ ops'[q][k].kind = ops[q][k].kind /\ ops'[q][k].file = ops[q][k].file
           /\ q # p \/ k # at[p] => ops'[q][k] = ops[q][k]

LEMMA OpenEffect ==
    ASSUME Base, NEW p \in Process, at[p] \in DOMAIN ops[p], NEW i \in Inode,
           SetOp(p, [Op(p) EXCEPT !.inode = i])
    PROVE  /\ SameBut(p)
           /\ ops'[p][at[p]].inode = i /\ ops'[p][at[p]].locked = Op(p).locked
<1> DEFINE o == [Op(p) EXCEPT !.inode = i]
<1>1. /\ o \in Operation /\ o.inode = i /\ o.locked = Op(p).locked
      /\ o.kind = Op(p).kind /\ o.file = Op(p).file
  BY AtOperation DEF Operation
<1>2. SetOp(p, o)
  OBVIOUS
<1> HIDE DEF o
<1> QED
  BY <1>1, <1>2, SetOpEffect DEF Base, SameBut, Op

LEMMA LockEffect ==
    ASSUME Base, NEW p \in Process, at[p] \in DOMAIN ops[p],
           SetOp(p, [Op(p) EXCEPT !.locked = TRUE])
    PROVE  /\ SameBut(p)
           /\ ops'[p][at[p]].inode = Op(p).inode /\ ops'[p][at[p]].locked
<1> DEFINE o == [Op(p) EXCEPT !.locked = TRUE]
<1>1. /\ o \in Operation /\ o.inode = Op(p).inode /\ o.locked = TRUE
      /\ o.kind = Op(p).kind /\ o.file = Op(p).file
  BY AtOperation DEF Operation
<1>2. SetOp(p, o)
  OBVIOUS
<1> HIDE DEF o
<1> QED
  BY <1>1, <1>2, SetOpEffect DEF Base, SameBut, Op

LEMMA CloseEffect ==
    ASSUME Base, NEW p \in Process, at[p] \in DOMAIN ops[p], Drop(p)
    PROVE  /\ SameBut(p)
           /\ ops'[p][at[p]].inode = NoFile /\ ~ops'[p][at[p]].locked
BY DropEffect DEF SameBut

-----------------------------------------------------------------------------
(* Files: inodes, names and locks. *)

\* Files are closed and unlocked, and names removed.
LEMMA FilesShrink ==
    ASSUME Base', Files, UndoneInsert',
           \A q \in Process : \A k \in DOMAIN ops'[q] : Opened(q, k)' =>
               /\ k \in DOMAIN ops[q] /\ Opened(q, k)
               /\ ops'[q][k].file = ops[q][k].file /\ ops'[q][k].inode = ops[q][k].inode
               /\ ops'[q][k].locked => ops[q][k].locked,
           \A f \in File : tree'[f] \in {tree[f], NoFile}
    PROVE  Files'
<1>1. OneFile'
  BY DEF Files, OneFile
<1>2. Named'
  <2> SUFFICES ASSUME NEW q \in Process, NEW k \in DOMAIN ops'[q], Opened(q, k)', NEW f \in File
               PROVE  IF f = ops'[q][k].file THEN tree'[f] \in {ops'[q][k].inode, NoFile}
                      ELSE tree'[f] # ops'[q][k].inode
    BY DEF Named
  <2>1. /\ k \in DOMAIN ops[q] /\ Opened(q, k)
        /\ ops'[q][k].file = ops[q][k].file /\ ops'[q][k].inode = ops[q][k].inode
    OBVIOUS
  <2>2. IF f = ops[q][k].file THEN tree[f] \in {ops[q][k].inode, NoFile}
        ELSE tree[f] # ops[q][k].inode
    BY <2>1 DEF Files, Named
  <2> QED
    BY <2>1, <2>2 DEF Opened
<1>3. OneName'
  BY DEF Files, OneName
<1>4. OneLock'
  <2>1. \A q \in Process : \A k \in DOMAIN ops'[q] : ops'[q][k].locked => Opened(q, k)'
    BY DEF Base, Handles, HandleOf
  <2> QED
    BY <2>1 DEF Files, OneLock
<1> QED
  BY <1>1, <1>2, <1>3, <1>4 DEF Files

\* An operation is opened that finds an inode of the right name, or makes one.
LEMMA FilesOpened ==
    ASSUME Base, Base', Files, NEW p \in Process, at[p] \in DOMAIN ops[p], pc'[p] = "lock",
           Others(p), SameBut(p), NEW i \in Inode, NEW f \in File, Op(p).file = f,
           ops'[p][at[p]].inode = i, ops'[p][at[p]].locked = Op(p).locked,
           ~Opened(p, at[p]),
           tree'[f] = i, \A g \in File : g # f => tree'[g] = tree[g] /\ tree[g] # i,
           \A q \in Process : \A k \in DOMAIN ops[q] :
               Opened(q, k) => (ops[q][k].file = f <=> ops[q][k].inode = i)
    PROVE  Files'
<1>1. ~Op(p).locked /\ i # NoFile
  BY AtOperation DEF HandleOf, Inode, NoFile
<1>2. ASSUME NEW q \in Process, NEW k \in DOMAIN ops'[q]
      PROVE  /\ k \in DOMAIN ops[q]
             /\ ops'[q][k].file = ops[q][k].file /\ ops'[q][k].kind = ops[q][k].kind
             /\ Opened(q, k)' => (ops'[q][k].file = f <=> ops'[q][k].inode = i)
             /\ Opened(q, k)' /\ ops'[q][k].file # f => ops'[q][k] = ops[q][k] /\ Opened(q, k)
             /\ ops'[q][k].locked => ops'[q][k] = ops[q][k]
  BY <1>1 DEF SameBut, Opened, Op
<1>3. OneFile'
  <2> SUFFICES ASSUME NEW q \in Process, NEW r \in Process,
                      NEW k \in DOMAIN ops'[q], NEW l \in DOMAIN ops'[r],
                      Opened(q, k)', Opened(r, l)'
               PROVE  ops'[q][k].file = ops'[r][l].file <=> ops'[q][k].inode = ops'[r][l].inode
    BY DEF OneFile
  <2>1. CASE ops'[q][k].file = f \/ ops'[r][l].file = f
    BY <1>2, <2>1
  <2>2. CASE ops'[q][k].file # f /\ ops'[r][l].file # f
    BY <1>2, <2>2 DEF Files, OneFile
  <2> QED
    BY <2>1, <2>2
<1>4. Named'
  <2> SUFFICES ASSUME NEW q \in Process, NEW k \in DOMAIN ops'[q], Opened(q, k)', NEW g \in File
               PROVE  IF g = ops'[q][k].file THEN tree'[g] \in {ops'[q][k].inode, NoFile}
                      ELSE tree'[g] # ops'[q][k].inode
    BY DEF Named
  <2>1. CASE ops'[q][k].file = f
    BY <1>2, <2>1
  <2>2. CASE ops'[q][k].file # f
    <3>1. k \in DOMAIN ops[q] /\ ops'[q][k] = ops[q][k] /\ Opened(q, k) /\ ops[q][k].inode # i
      BY <1>2, <2>2
    <3> QED
      BY <2>2, <3>1 DEF Files, Named
  <2> QED
    BY <2>1, <2>2
<1>5. OneName'
  BY <1>1 DEF Files, OneName
<1>6. OneLock'
  BY <1>2 DEF Files, OneLock
<1>7. UndoneInsert'
  <2> SUFFICES ASSUME NEW q \in Process, NEW k \in DOMAIN ops'[q], pc'[q] = "undo",
                      ops'[q][k].kind = "insert", Opened(q, k)'
               PROVE  ops'[q][k].locked
    BY DEF UndoneInsert
  <2>1. q # p
    OBVIOUS
  <2> QED
    BY <2>1 DEF Others, Files, UndoneInsert, Opened
<1> QED
  BY <1>3, <1>4, <1>5, <1>6, <1>7 DEF Files

\* An operation is locked.
LEMMA FilesLocked ==
    ASSUME Base, Base', Files, NEW p \in Process, at[p] \in DOMAIN ops[p], pc'[p] # "undo",
           Others(p), SameBut(p), Opened(p, at[p]), ~Locked(Op(p).inode),
           ops'[p][at[p]].inode = Op(p).inode, UNCHANGED tree
    PROVE  Files'
<1>1. ASSUME NEW q \in Process, NEW k \in DOMAIN ops'[q]
      PROVE  /\ k \in DOMAIN ops[q]
             /\ ops'[q][k].file = ops[q][k].file /\ ops'[q][k].inode = ops[q][k].inode
             /\ q # p \/ k # at[p] => ops'[q][k].locked = ops[q][k].locked
             /\ ops[q][k].locked => ops[q][k].inode # Op(p).inode
  BY DEF SameBut, Op, Locked
<1>2. OneFile' /\ Named' /\ OneName'
  BY <1>1 DEF Files, OneFile, Named, OneName, Opened
<1>3. OneLock'
  <2> SUFFICES ASSUME NEW q \in Process, NEW r \in Process,
                      NEW k \in DOMAIN ops'[q], NEW l \in DOMAIN ops'[r],
                      ops'[q][k].locked, ops'[r][l].locked, ops'[q][k].inode = ops'[r][l].inode
               PROVE  q = r /\ k = l
    BY DEF OneLock
  <2>1. CASE q = p /\ k = at[p]
    BY <1>1, <2>1 DEF Op
  <2>2. CASE r = p /\ l = at[p]
    BY <1>1, <2>2 DEF Op
  <2>3. CASE ~(q = p /\ k = at[p]) /\ ~(r = p /\ l = at[p])
    BY <1>1, <2>3 DEF Files, OneLock
  <2> QED
    BY <2>1, <2>2, <2>3
<1>4. UndoneInsert'
  <2> SUFFICES ASSUME NEW q \in Process, NEW k \in DOMAIN ops'[q], pc'[q] = "undo",
                      ops'[q][k].kind = "insert", Opened(q, k)'
               PROVE  ops'[q][k].locked
    BY DEF UndoneInsert
  <2>1. q # p
    OBVIOUS
  <2> QED
    BY <2>1 DEF Others, Files, UndoneInsert, Opened
<1> QED
  BY <1>2, <1>3, <1>4 DEF Files

\* An operation is closed when its name has got another file, which nobody has open.
LEMMA FilesReplaced ==
    ASSUME Base, Base', Files, NEW p \in Process, at[p] \in DOMAIN ops[p], UNCHANGED pc,
           Others(p), SameBut(p), ops'[p][at[p]].inode = NoFile, ~ops'[p][at[p]].locked,
           NEW i \in Inode, NEW f \in File, Op(p).file = f, Fresh(i), Replaced(p, f) = {},
           tree' = [tree EXCEPT ![f] = i]
    PROVE  Files'
<1>1. ASSUME NEW q \in Process, NEW k \in DOMAIN ops'[q], Opened(q, k)'
      PROVE  /\ k \in DOMAIN ops[q] /\ ops'[q][k] = ops[q][k] /\ Opened(q, k)
             /\ ops[q][k].file # f /\ ops[q][k].inode # i
  <2>1. k \in DOMAIN ops[q] /\ (q # p \/ k # at[p]) /\ ops'[q][k] = ops[q][k] /\ Opened(q, k)
    BY <1>1 DEF SameBut, Opened
  <2>2. ops[q][k].file # f
    BY <2>1 DEF Replaced, Opened
  <2>3. ops[q][k].inode # i
    BY <2>1 DEF Fresh, Open
  <2> QED
    BY <2>1, <2>2, <2>3
<1>2. \A g \in File : tree'[g] = (IF g = f THEN i ELSE tree[g]) /\ tree[g] # i
  BY Types DEF Fresh
<1>3. OneFile'
  BY <1>1 DEF Files, OneFile
<1>4. Named'
  BY <1>1, <1>2 DEF Files, Named
<1>5. OneName'
  BY <1>2 DEF Files, OneName
<1>6. OneLock'
  <2>1. \A q \in Process : \A k \in DOMAIN ops'[q] : ops'[q][k].locked => Opened(q, k)'
    BY DEF Base, Handles, HandleOf
  <2> QED
    BY <1>1, <2>1 DEF Files, OneLock
<1>7. UndoneInsert'
  BY <1>1 DEF Files, UndoneInsert
<1> QED
  BY <1>3, <1>4, <1>5, <1>6, <1>7 DEF Files

-----------------------------------------------------------------------------
(* Contents. *)

\* Nobody has locked the file of another.
LEMMA LockedApart ==
    ASSUME Base, Files, NEW p \in Process, NEW k \in DOMAIN ops[p], ops[p][k].locked,
           NEW q \in Process, NEW l \in DOMAIN ops[q], ops[q][l].locked,
           \/ ops[p][k].file = ops[q][l].file
           \/ ops[p][k].inode = ops[q][l].inode
    PROVE  p = q /\ k = l
<1>1. Opened(p, k) /\ Opened(q, l)
  BY DEF Base, Handles, HandleOf
<1>2. ops[p][k].inode = ops[q][l].inode
  BY <1>1 DEF Files, OneFile
<1> QED
  BY <1>2 DEF Files, OneLock

\* What the name of an open file stands for.
LEMMA NameOfOpen ==
    ASSUME Base, Files, NEW p \in Process, NEW k \in DOMAIN ops[p], Opened(p, k)
    PROVE  /\ ops[p][k].file \in File /\ ops[p][k].inode \in Inode
           /\ tree[ops[p][k].file] \in {ops[p][k].inode, NoFile}
           /\ \A g \in File : tree[g] = ops[p][k].inode => g = ops[p][k].file
<1>1. ops[p][k] \in Operation
  BY Lists DEF Base
<1> QED
  BY <1>1 DEF Files, Named, Operation, Opened

\* A step of p does not touch the files that others have locked.
Spares(p) ==
    \A q \in Process \ {p} : \A k \in DOMAIN ops[q] : ops[q][k].locked =>
        /\ tree'[ops[q][k].file] = tree[ops[q][k].file]
        /\ content'[ops[q][k].inode] = content[ops[q][k].inode]
        /\ index'[ops[q][k].file] = index[ops[q][k].file]
        /\ head'[ops[q][k].file] = head[ops[q][k].file]
        /\ \A f \in File : f = ops[q][k].file /\ Pending(f) => Pending(f)'

LEMMA HeldOthers ==
    ASSUME Base, Files, Held, NEW p \in Process, Others(p), Spares(p),
           NEW q \in Process \ {p}, NEW k \in DOMAIN ops'[q]
    PROVE  HeldOf(q, k)'
<1>1. SUFFICES ASSUME ops'[q][k].locked PROVE HeldOf(q, k)'
  BY DEF HeldOf
<1>2. /\ ops'[q] = ops[q] /\ pc'[q] = pc[q] /\ at'[q] = at[q] /\ mode'[q] = mode[q]
      /\ number'[q] = number[q] /\ k \in DOMAIN ops[q] /\ ops[q][k].locked
  BY <1>1 DEF Others
<1> DEFINE f == ops[q][k].file
           i == ops[q][k].inode
<1>3. /\ tree'[f] = tree[f] /\ content'[i] = content[i] /\ index'[f] = index[f]
      /\ head'[f] = head[f]
  BY <1>2 DEF Spares
<1>4. HeldOf(q, k)
  BY <1>2 DEF Held
<1>5. tree[f] \in {i, NoFile} /\ f \in File
  <2>1. Opened(q, k)
    BY <1>2 DEF Base, Handles, HandleOf
  <2> QED
    BY <1>2, <2>1, NameOfOpen
<1>6. Executed(q, k)' <=> Executed(q, k)
  BY <1>2 DEF Executed
<1>8. CASE ops[q][k].kind = "delete"
  <2> PICK g \in File : g = f
    BY <1>5
  <2>1. Pending(g) => Pending(g)'
    BY <1>2 DEF Spares
  <2>2. Stored(g)' = Stored(g) /\ head'[g] = head[g] /\ index'[g] = index[g]
    BY <1>3, <1>5 DEF Stored
  <2> QED
    BY <1>2, <1>4, <1>8, <2>1, <2>2 DEF HeldOf, DeleteHolds
<1>9. CASE ops[q][k].kind # "delete"
  BY <1>2, <1>3, <1>4, <1>6, <1>9 DEF HeldOf, WriteHolds
<1> QED
  BY <1>8, <1>9

\* Who has an open unlocked insert keeps it.
LEMMA PendingKept ==
    ASSUME NEW p \in Process, SameBut(p), NEW f \in File,
           Op(p).kind = "insert" /\ Opened(p, at[p]) => Op(p).locked \/ Op(p).file # f
    PROVE  Pending(f) => Pending(f)'
<1> SUFFICES ASSUME Pending(f) PROVE Pending(f)'
  OBVIOUS
<1>1. PICK q \in Process : \E k \in DOMAIN ops[q] :
          ops[q][k].kind = "insert" /\ ops[q][k].file = f /\ Opened(q, k) /\ ~ops[q][k].locked
  BY DEF Pending
<1>2. PICK k \in DOMAIN ops[q] :
          ops[q][k].kind = "insert" /\ ops[q][k].file = f /\ Opened(q, k) /\ ~ops[q][k].locked
  BY <1>1
<1>3. k \in DOMAIN ops'[q] /\ ops'[q][k] = ops[q][k]
  BY <1>2 DEF SameBut, Op
<1> QED
  BY <1>2, <1>3 DEF Pending, Opened

\* The files stay as they are; p opens at most one of them.
LEMMA QuietContents ==
    ASSUME Base, Base', Files, Contents, NEW p \in Process, Others(p),
           UNCHANGED <<tree, content, index, head>>, Committed',
           \A k \in DOMAIN ops[p] : Opened(p, k) =>
               k \in DOMAIN ops'[p] /\ ops'[p][k] = ops[p][k],
           \A k \in DOMAIN ops'[p] : Opened(p, k)' =>
               \/ k \in DOMAIN ops[p] /\ ops'[p][k] = ops[p][k]
               \/ ~ops'[p][k].locked /\ EmptyOf(p, k)',
           pc'[p] \notin {"rm", "commit", "done"},
           \A k \in DOMAIN ops[p] : ops[p][k].locked =>
               /\ pc[p] # "done" /\ number'[p] = number[p]
               /\ Executed(p, k)' => Executed(p, k)
               /\ pc[p] = "undo" => pc'[p] = "undo"
               /\ git = p /\ pc[p] \in {"rm", "commit", "undo"} => git' = p /\ pc'[p] = "undo",
           \A q \in Process \ {p} : git = q => git' = q
    PROVE  Contents'
<1>1. ASSUME NEW q \in Process, NEW k \in DOMAIN ops[q], Opened(q, k)
      PROVE  k \in DOMAIN ops'[q] /\ ops'[q][k] = ops[q][k]
  BY <1>1 DEF Others
<1>2. ASSUME NEW q \in Process, NEW k \in DOMAIN ops[q], ops[q][k].locked
      PROVE  k \in DOMAIN ops'[q] /\ ops'[q][k] = ops[q][k]
  BY <1>1, <1>2 DEF Base, Handles, HandleOf
<1>3. \A f \in File : (Pending(f) => Pending(f)') /\ (InUse(f) => InUse(f)')
  <2> TAKE f \in File
  <2>1. Pending(f) => Pending(f)'
    BY <1>1 DEF Pending, Opened
  <2>2. InUse(f) => InUse(f)'
    BY <1>2 DEF InUse
  <2> QED
    BY <2>1, <2>2
<1>4. \A f \in File : Stored(f)' = Stored(f)
  BY DEF Stored
<1>5. Absent'
  BY DEF Contents, Absent
<1>6. Staged'
  <2> SUFFICES ASSUME NEW f \in File, index'[f] # head'[f]
               PROVE  \E q \in Process : \E k \in DOMAIN ops'[q] :
                          /\ git' = q /\ pc'[q] \in {"rm", "commit", "undo"}
                          /\ ops'[q][k].locked /\ ops'[q][k].file = f
    BY DEF Staged
  <2>1. PICK q \in Process : \E k \in DOMAIN ops[q] :
            /\ git = q /\ pc[q] \in {"rm", "commit", "undo"}
            /\ ops[q][k].locked /\ ops[q][k].file = f
    BY DEF Contents, Staged
  <2>2. PICK k \in DOMAIN ops[q] : ops[q][k].locked /\ ops[q][k].file = f
    BY <2>1
  <2>3. k \in DOMAIN ops'[q] /\ ops'[q][k] = ops[q][k]
    BY <1>2, <2>2
  <2>4. git' = q /\ pc'[q] \in {"rm", "commit", "undo"}
    BY <2>1, <2>2 DEF Others
  <2> QED
    BY <2>2, <2>3, <2>4
<1>7. Held'
  <2>1. Spares(p)
    BY <1>3 DEF Spares
  <2>2. ASSUME NEW k \in DOMAIN ops'[p] PROVE HeldOf(p, k)'
    <3>1. SUFFICES ASSUME ops'[p][k].locked PROVE HeldOf(p, k)'
      BY DEF HeldOf
    <3>2. Opened(p, k)'
      BY <3>1 DEF Base, Handles, HandleOf
    <3>3. k \in DOMAIN ops[p] /\ ops'[p][k] = ops[p][k] /\ HeldOf(p, k)
      BY <3>1, <3>2 DEF Contents, Held
    <3>4. /\ pc[p] # "done" /\ number'[p] = number[p] /\ (Executed(p, k)' => Executed(p, k))
      BY <3>1, <3>3
    <3>5. CASE ops[p][k].kind = "delete"
      <4>1. ops[p][k].file \in File
        BY <3>1, <3>2, <3>3, NameOfOpen DEF Opened
      <4> PICK f \in File : f = ops[p][k].file
        BY <4>1
      <4> QED
        BY <1>3, <1>4, <3>1, <3>3, <3>4, <3>5 DEF HeldOf, DeleteHolds
    <3>6. CASE ops[p][k].kind # "delete"
      BY <3>1, <3>3, <3>4, <3>6 DEF HeldOf, WriteHolds
    <3> QED
      BY <3>5, <3>6
  <2> QED
    BY <2>1, <2>2, HeldOthers DEF Contents, Held
<1>8. Settled'
  BY <1>3, <1>4 DEF Contents, Settled
<1>9. EmptyFile'
  <2>1. ASSUME NEW q \in Process, NEW k \in DOMAIN ops[q], k \in DOMAIN ops'[q],
               ops'[q][k] = ops[q][k]
        PROVE  EmptyOf(q, k)'
    <3>1. SUFFICES ASSUME Opened(q, k), content[ops[q][k].inode] = Empty,
                          head[ops[q][k].file] # None
                   PROVE  EmptyOf(q, k)'
      BY <2>1 DEF EmptyOf, Opened
    <3>2. PICK r \in Process : \E l \in DOMAIN ops[r] :
              /\ pc[r] = "undo" /\ ops[r][l].locked /\ ops[r][l].kind = "update"
              /\ ops[r][l].file = ops[q][k].file
      BY <3>1 DEF Contents, EmptyFile, EmptyOf
    <3>3. PICK l \in DOMAIN ops[r] :
              /\ pc[r] = "undo" /\ ops[r][l].locked /\ ops[r][l].kind = "update"
              /\ ops[r][l].file = ops[q][k].file
      BY <3>2
    <3>4. l \in DOMAIN ops'[r] /\ ops'[r][l] = ops[r][l] /\ pc'[r] = "undo"
      BY <1>2, <3>3 DEF Others
    <3> QED
      BY <2>1, <3>3, <3>4 DEF EmptyOf
  <2> SUFFICES ASSUME NEW q \in Process, NEW k \in DOMAIN ops'[q] PROVE EmptyOf(q, k)'
    BY DEF EmptyFile
  <2>2. CASE k \in DOMAIN ops[q] /\ ops'[q][k] = ops[q][k]
    BY <2>1, <2>2
  <2>3. CASE ~(k \in DOMAIN ops[q] /\ ops'[q][k] = ops[q][k])
    BY <2>3 DEF Others, EmptyOf
  <2> QED
    BY <2>2, <2>3
<1> QED
  BY <1>5, <1>6, <1>7, <1>8, <1>9 DEF Contents

\* An insert makes its file.
LEMMA CreateContents ==
    ASSUME Base, Base', Files, Contents, NEW p \in Process, at[p] \in DOMAIN ops[p],
           Others(p), SameBut(p), pc[p] = "open", pc'[p] = "lock", Committed',
           NEW i \in Inode, Fresh(i), NEW f \in File, Op(p).file = f, Op(p).kind = "insert",
           ops'[p][at[p]].inode = i, ~ops'[p][at[p]].locked,
           tree[f] = NoFile, Replaced(p, f) = {},
           tree' = [tree EXCEPT ![f] = i], content' = [content EXCEPT ![i] = Empty],
           UNCHANGED <<index, head, git, at, mode, number>>
    PROVE  Contents'
<1>1. /\ i # NoFile /\ ~Opened(p, at[p]) /\ ~Op(p).locked
      /\ \A g \in File : tree'[g] = IF g = f THEN i ELSE tree[g]
      /\ \A g \in File : tree[g] # i
      /\ \A j \in Inode : content'[j] = IF j = i THEN Empty ELSE content[j]
  BY AtOperation, Types DEF HandleOf, Inode, NoFile, Fresh
<1>2. ASSUME NEW q \in Process, NEW k \in DOMAIN ops[q], Opened(q, k)
      PROVE  /\ k \in DOMAIN ops'[q] /\ ops'[q][k] = ops[q][k]
             /\ ops[q][k].inode \in Inode \ {i} /\ ops[q][k].file \in File \ {f}
  <2>1. q # p \/ k # at[p]
    BY <1>1, <1>2
  <2>2. ops[q][k].inode # i /\ ops[q][k].file # f
    BY <1>2, <2>1 DEF Fresh, Open, Replaced, Opened
  <2> QED
    BY <1>2, <2>1, <2>2, NameOfOpen DEF SameBut
<1>3. ASSUME NEW q \in Process, NEW k \in DOMAIN ops[q], ops[q][k].locked
      PROVE  Opened(q, k)
  BY <1>3 DEF Base, Handles, HandleOf
<1>4. \A g \in File : (Pending(g) => Pending(g)') /\ (InUse(g) => InUse(g)')
  <2> TAKE g \in File
  <2>1. Pending(g) => Pending(g)'
    BY <1>2 DEF Pending, Opened
  <2>2. InUse(g) => InUse(g)'
    BY <1>2, <1>3 DEF InUse
  <2> QED
    BY <2>1, <2>2
<1>5. \A g \in File \ {f} : Stored(g)' = Stored(g)
  BY <1>1, Types DEF Stored
<1>6. Pending(f)'
  BY <1>1 DEF Pending, Opened, SameBut, Op
<1>7. Absent'
  BY <1>1 DEF Contents, Absent
<1>8. Staged'
  <2> SUFFICES ASSUME NEW g \in File, index'[g] # head'[g]
               PROVE  \E q \in Process : \E k \in DOMAIN ops'[q] :
                          /\ git' = q /\ pc'[q] \in {"rm", "commit", "undo"}
                          /\ ops'[q][k].locked /\ ops'[q][k].file = g
    BY DEF Staged
  <2>1. PICK q \in Process : \E k \in DOMAIN ops[q] :
            /\ git = q /\ pc[q] \in {"rm", "commit", "undo"}
            /\ ops[q][k].locked /\ ops[q][k].file = g
    BY DEF Contents, Staged
  <2>2. q # p
    BY <2>1
  <2> QED
    BY <2>1, <2>2 DEF Others
<1>9. Held'
  <2>1. Spares(p)
    BY <1>1, <1>2, <1>3, <1>4 DEF Spares
  <2>2. ASSUME NEW k \in DOMAIN ops'[p] PROVE HeldOf(p, k)'
    <3>1. SUFFICES ASSUME ops'[p][k].locked PROVE HeldOf(p, k)'
      BY DEF HeldOf
    <3>2. k \in DOMAIN ops[p] /\ k # at[p] /\ ops'[p][k] = ops[p][k] /\ HeldOf(p, k)
      BY <3>1 DEF SameBut, Contents, Held
    <3>3. /\ Opened(p, k) /\ ops[p][k].inode \in Inode \ {i} /\ ops[p][k].file \in File \ {f}
      BY <1>2, <1>3, <3>1, <3>2
    <3>4. Executed(p, k)' => Executed(p, k)
      BY DEF Executed
    <3>5. CASE ops[p][k].kind = "delete"
      <4> PICK g \in File \ {f} : g = ops[p][k].file
        BY <3>3
      <4> QED
        BY <1>4, <1>5, <3>1, <3>2, <3>3, <3>5 DEF HeldOf, DeleteHolds
    <3>6. CASE ops[p][k].kind # "delete"
      BY <1>1, <3>1, <3>2, <3>3, <3>4, <3>6 DEF HeldOf, WriteHolds
    <3> QED
      BY <3>5, <3>6
  <2> QED
    BY <2>1, <2>2, HeldOthers DEF Contents, Held
<1>10. Settled'
  BY <1>4, <1>5, <1>6 DEF Contents, Settled
<1>11. EmptyFile'
  <2> SUFFICES ASSUME NEW q \in Process, NEW k \in DOMAIN ops'[q], Opened(q, k)',
                      content'[ops'[q][k].inode] = Empty, head'[ops'[q][k].file] # None
               PROVE  EmptyOf(q, k)'
    BY DEF EmptyFile, EmptyOf
  <2>1. ~(q = p /\ k = at[p])
    BY DEF Contents, Absent, SameBut, Op
  <2>2. k \in DOMAIN ops[q] /\ ops'[q][k] = ops[q][k] /\ Opened(q, k)
    BY <2>1 DEF SameBut, Opened
  <2>3. EmptyOf(q, k) /\ content[ops[q][k].inode] = Empty
    BY <1>1, <1>2, <2>2 DEF Contents, EmptyFile
  <2>4. PICK r \in Process : \E l \in DOMAIN ops[r] :
            /\ pc[r] = "undo" /\ ops[r][l].locked /\ ops[r][l].kind = "update"
            /\ ops[r][l].file = ops[q][k].file
    BY <2>2, <2>3 DEF EmptyOf
  <2>5. r # p
    BY <2>4
  <2> QED
    BY <2>2, <2>4, <2>5 DEF EmptyOf, Others
<1> QED
  BY <1>7, <1>8, <1>9, <1>10, <1>11 DEF Contents

\* A file is locked whose lock is free, by an insert if nobody has written it.
LEMMA LockContents ==
    ASSUME Base, Base', Files, Contents, NEW p \in Process, at[p] \in DOMAIN ops[p],
           Others(p), SameBut(p), pc[p] = "lock", pc'[p] \in {"open", "execute"}, Committed',
           ~Locked(Op(p).inode), Op(p).kind = "insert" => content[Op(p).inode] = Empty,
           ops'[p][at[p]].inode = Op(p).inode, ops'[p][at[p]].locked,
           \A k \in DOMAIN ops[p] : Executed(p, k)' => Executed(p, k) /\ k # at[p],
           UNCHANGED <<tree, content, index, head, git, mode, number>>
    PROVE  Contents'
<1> PICK i : i = Op(p).inode
  OBVIOUS
<1>1. Opened(p, at[p]) /\ ~Op(p).locked /\ Op(p).file \in File
  BY AtOperation DEF HandleOf
<1> PICK f \in File : f = Op(p).file
  BY <1>1
<1>2. ASSUME NEW q \in Process, NEW k \in DOMAIN ops[q], ops[q][k].locked
      PROVE  /\ k \in DOMAIN ops'[q] /\ ops'[q][k] = ops[q][k] /\ ops[q][k].file # f
  <2>1. Opened(q, k) /\ ops[q][k].inode # i
    BY <1>2 DEF Base, Handles, HandleOf, Locked
  <2>2. ops[q][k].file # f
    BY <1>1, <2>1 DEF Files, OneFile, Op
  <2> QED
    BY <1>1, <1>2, <2>2 DEF SameBut, Op
<1>3. ~InUse(f)
  BY <1>2 DEF InUse
<1>4. \A g \in File : /\ InUse(g) => InUse(g)'
                      /\ g # f => (Pending(g) => Pending(g)')
                      /\ Op(p).kind # "insert" => (Pending(g) => Pending(g)')
  <2> TAKE g \in File
  <2>1. InUse(g) => InUse(g)'
    BY <1>2 DEF InUse
  <2> QED
    BY <2>1, PendingKept
<1>5. InUse(f)'
  BY DEF InUse, SameBut, Op
<1>6. \A g \in File : Stored(g)' = Stored(g)
  BY DEF Stored
<1>7. Absent'
  BY DEF Contents, Absent
<1>8. Staged'
  <2> SUFFICES ASSUME NEW g \in File, index'[g] # head'[g]
               PROVE  \E q \in Process : \E k \in DOMAIN ops'[q] :
                          /\ git' = q /\ pc'[q] \in {"rm", "commit", "undo"}
                          /\ ops'[q][k].locked /\ ops'[q][k].file = g
    BY DEF Staged
  <2>1. PICK q \in Process : \E k \in DOMAIN ops[q] :
            /\ git = q /\ pc[q] \in {"rm", "commit", "undo"}
            /\ ops[q][k].locked /\ ops[q][k].file = g
    BY DEF Contents, Staged
  <2>2. q # p
    BY <2>1
  <2> QED
    BY <2>1, <2>2 DEF Others
<1>9. EmptyOf(p, at[p])
  BY DEF Contents, EmptyFile
<1>10. Held'
  <2>1. Spares(p)
    BY <1>2, <1>4 DEF Spares
  <2>2. ASSUME NEW k \in DOMAIN ops'[p], k # at[p] PROVE HeldOf(p, k)'
    <3>1. SUFFICES ASSUME ops'[p][k].locked PROVE HeldOf(p, k)'
      BY DEF HeldOf
    <3>2. k \in DOMAIN ops[p] /\ ops'[p][k] = ops[p][k] /\ HeldOf(p, k) /\ ops[p][k].locked
      BY <2>2, <3>1 DEF SameBut, Contents, Held
    <3>3. ops[p][k].file \in File \ {f}
      BY <1>2, <3>2, Lists DEF Base, Operation
    <3>4. CASE ops[p][k].kind = "delete"
      <4> PICK g \in File \ {f} : g = ops[p][k].file
        BY <3>3
      <4> QED
        BY <1>4, <1>6, <3>1, <3>2, <3>4 DEF HeldOf, DeleteHolds
    <3>5. CASE ops[p][k].kind # "delete"
      BY <3>1, <3>2, <3>5 DEF HeldOf, WriteHolds
    <3> QED
      BY <3>4, <3>5
  <2>3. ASSUME NEW k \in DOMAIN ops'[p], k = at[p] PROVE HeldOf(p, k)'
    <3>1. /\ k \in DOMAIN ops[p] /\ ops'[p][k].file = f /\ ops'[p][k].kind = Op(p).kind
          /\ ops[p][k].file = f /\ ops[p][k].kind = Op(p).kind
          /\ ~Executed(p, k)' /\ pc'[p] \notin {"rm", "commit", "done"}
      BY <2>3 DEF SameBut, Op
    <3>2. CASE Op(p).kind = "delete"
      <4>1. Stored(f) = head[f] \/ Pending(f)
        BY <1>3 DEF Contents, Settled
      <4>2. Stored(f)' = head'[f] \/ Pending(f)'
        BY <1>4, <1>6, <3>2, <4>1
      <4> QED
        BY <3>1, <3>2, <4>2 DEF HeldOf, DeleteHolds
    <3>3. CASE Op(p).kind = "insert"
      <4>1. head[f] = None
        BY <1>1, <1>3, <1>9, <3>3 DEF EmptyOf, InUse, Op
      <4> QED
        BY <3>1, <3>3, <4>1 DEF HeldOf, WriteHolds
    <3>4. CASE Op(p).kind = "update"
      BY <3>1, <3>4 DEF HeldOf, WriteHolds
    <3>5. Op(p).kind \in {"insert", "update", "delete"}
      BY AtOperation DEF Operation, Kind
    <3> QED
      BY <3>2, <3>3, <3>4, <3>5
  <2> QED
    BY <2>1, <2>2, <2>3, HeldOthers DEF Contents, Held
<1>11. Settled'
  BY <1>4, <1>5, <1>6 DEF Contents, Settled
<1>12. EmptyFile'
  <2> SUFFICES ASSUME NEW q \in Process, NEW k \in DOMAIN ops'[q], Opened(q, k)',
                      content'[ops'[q][k].inode] = Empty, head'[ops'[q][k].file] # None
               PROVE  EmptyOf(q, k)'
    BY DEF EmptyFile, EmptyOf
  <2>1. /\ k \in DOMAIN ops[q] /\ ops'[q][k].inode = ops[q][k].inode
        /\ ops'[q][k].file = ops[q][k].file
    BY DEF SameBut, Op
  <2>2. PICK r \in Process : \E l \in DOMAIN ops[r] :
            /\ pc[r] = "undo" /\ ops[r][l].locked /\ ops[r][l].kind = "update"
            /\ ops[r][l].file = ops[q][k].file
    BY <2>1 DEF Contents, EmptyFile, EmptyOf, Opened
  <2>3. r # p
    BY <2>2
  <2> QED
    BY <2>1, <2>2, <2>3 DEF EmptyOf, Others
<1> QED
  BY <1>7, <1>8, <1>10, <1>11, <1>12 DEF Contents

\* A step of p that keeps the operations, and writes the file of its locked operation or none.
LEMMA WriteContents ==
    ASSUME Base, Base', Files, Contents, NEW p \in Process, at[p] \in DOMAIN ops[p],
           Others(p), UNCHANGED <<tree, index, head, git, ops, number>>, pc[p] = "execute",
           pc'[p] \in {"open", "execute", "flock", "undo"}, Committed', Op(p).locked,
           NEW value \in Data,
           \/ UNCHANGED content
           \/ Op(p).kind # "delete" /\ content' = [content EXCEPT ![Op(p).inode] = value],
           value = Empty => pc'[p] = "undo",
           \A k \in DOMAIN ops[p] : Executed(p, k)' /\ ops[p][k].kind # "delete" =>
               IF k = at[p] THEN value = number[p] /\ content' = [content EXCEPT ![Op(p).inode] = value]
               ELSE Executed(p, k)
    PROVE  Contents'
<1> PICK i : i = Op(p).inode
  OBVIOUS
<1> PICK m \in DOMAIN ops[p] : m = at[p]
  OBVIOUS
<1>1. /\ Opened(p, m) /\ Op(p).file \in File /\ i \in Inode /\ ops[p][m].inode = i
      /\ ops[p][m].locked /\ ops[p][m].file = Op(p).file /\ ops[p][m].kind = Op(p).kind
  BY AtOperation DEF HandleOf, Op, Operation, Opened
<1> PICK f \in File : f = Op(p).file
  BY <1>1
<1>2. \A j \in Inode : j # i => content'[j] = content[j]
  BY Types
<1>3. content' # content => content'[i] = value /\ Op(p).kind # "delete"
  BY <1>1, Types
<1>4. \A g \in File : (Pending(g) => Pending(g)') /\ (InUse(g) => InUse(g)')
  BY DEF Pending, InUse, Opened
<1>5. ASSUME NEW q \in Process, NEW k \in DOMAIN ops[q], ops[q][k].locked, ~(q = p /\ k = m)
      PROVE  /\ ops[q][k].file \in File \ {f} /\ ops[q][k].inode \in Inode \ {i}
             /\ content'[ops[q][k].inode] = content[ops[q][k].inode]
  <2>1. Opened(q, k)
    BY <1>5 DEF Base, Handles, HandleOf
  <2>2. ops[q][k].file # f /\ ops[q][k].inode # i
    BY <1>1, <1>5, LockedApart
  <2> QED
    BY <1>2, <2>1, <2>2, NameOfOpen
<1>6. \A g \in File \ {f} : Stored(g)' = Stored(g)
  <2> TAKE g \in File \ {f}
  <2>1. tree[g] # i
    BY <1>1, NameOfOpen
  <2> QED
    BY <1>2, <2>1, Types DEF Stored
<1>7. Absent'
  BY DEF Contents, Absent
<1>8. Staged'
  <2> SUFFICES ASSUME NEW g \in File, index'[g] # head'[g]
               PROVE  \E q \in Process : \E k \in DOMAIN ops'[q] :
                          /\ git' = q /\ pc'[q] \in {"rm", "commit", "undo"}
                          /\ ops'[q][k].locked /\ ops'[q][k].file = g
    BY DEF Staged
  <2>1. PICK q \in Process : \E k \in DOMAIN ops[q] :
            /\ git = q /\ pc[q] \in {"rm", "commit", "undo"}
            /\ ops[q][k].locked /\ ops[q][k].file = g
    BY DEF Contents, Staged
  <2>2. q # p
    BY <2>1
  <2> QED
    BY <2>1, <2>2 DEF Others
<1>9. Held'
  <2>1. Spares(p)
    BY <1>4, <1>5 DEF Spares
  <2>2. ASSUME NEW k \in DOMAIN ops'[p], k # m PROVE HeldOf(p, k)'
    <3>1. SUFFICES ASSUME ops[p][k].locked PROVE HeldOf(p, k)'
      BY DEF HeldOf
    <3>2. /\ k \in DOMAIN ops[p] /\ HeldOf(p, k)
          /\ ops[p][k].file \in File \ {f} /\ content'[ops[p][k].inode] = content[ops[p][k].inode]
      BY <1>5, <2>2, <3>1 DEF Contents, Held
    <3>3. CASE ops[p][k].kind = "delete"
      <4> PICK g \in File \ {f} : g = ops[p][k].file
        BY <3>2
      <4> QED
        BY <1>4, <1>6, <3>1, <3>2, <3>3 DEF HeldOf, DeleteHolds
    <3>4. CASE ops[p][k].kind # "delete"
      <4>1. Executed(p, k)' => Executed(p, k)
        BY <2>2, <3>4
      <4> QED
        BY <3>1, <3>2, <3>4, <4>1 DEF HeldOf, WriteHolds
    <3> QED
      BY <3>3, <3>4
  <2>3. HeldOf(p, m)'
    <3>1. HeldOf(p, m)
      BY DEF Contents, Held
    <3>2. CASE Op(p).kind = "delete"
      <4>1. Stored(f)' = Stored(f)
        BY <1>3, <3>2 DEF Stored
      <4> QED
        BY <1>1, <1>4, <3>1, <3>2, <4>1 DEF HeldOf, DeleteHolds
    <3>3. CASE Op(p).kind # "delete"
      <4>1. Executed(p, m)' => content'[i] = number[p]
        BY <1>1, <3>3, Types
      <4> QED
        BY <1>1, <3>1, <3>3, <4>1 DEF HeldOf, WriteHolds
    <3> QED
      BY <3>2, <3>3
  <2> QED
    BY <2>1, <2>2, <2>3, HeldOthers DEF Contents, Held
<1>10. Settled'
  <2>1. InUse(f)'
    BY <1>1 DEF InUse
  <2> QED
    BY <1>4, <1>6, <2>1 DEF Contents, Settled
<1>11. EmptyFile'
  <2> SUFFICES ASSUME NEW q \in Process, NEW k \in DOMAIN ops[q], Opened(q, k),
                      content'[ops[q][k].inode] = Empty, head[ops[q][k].file] # None
               PROVE  EmptyOf(q, k)'
    BY DEF EmptyFile, EmptyOf, Opened
  <2>1. CASE content[ops[q][k].inode] = Empty
    <3>1. PICK r \in Process : \E l \in DOMAIN ops[r] :
              /\ pc[r] = "undo" /\ ops[r][l].locked /\ ops[r][l].kind = "update"
              /\ ops[r][l].file = ops[q][k].file
      BY <2>1 DEF Contents, EmptyFile, EmptyOf
    <3>2. r # p
      BY <3>1
    <3> QED
      BY <3>1, <3>2 DEF EmptyOf, Others
  <2>2. CASE content[ops[q][k].inode] # Empty
    <3>1. ops[q][k].inode = i /\ value = Empty /\ Op(p).kind # "delete"
      BY <1>2, <1>3, <2>2, NameOfOpen
    <3>2. ops[q][k].file = f
      BY <1>1, <3>1 DEF Files, OneFile
    <3>3. Op(p).kind # "insert"
      <4>1. HeldOf(p, m)
        BY DEF Contents, Held
      <4> QED
        BY <1>1, <3>2, <4>1 DEF HeldOf, WriteHolds
    <3>4. Op(p).kind = "update"
      BY <3>1, <3>3, AtOperation DEF Operation, Kind
    <3> QED
      BY <1>1, <3>1, <3>2, <3>4 DEF EmptyOf
  <2> QED
    BY <2>1, <2>2
<1> QED
  BY <1>7, <1>8, <1>9, <1>10, <1>11 DEF Contents

\* git add and git rm: the index changes where p has locked the file.
LEMMA StageContents ==
    ASSUME Base, Base', Files, Contents, NEW p \in Process, Others(p), Committed',
           UNCHANGED <<tree, content, head, git, ops, at, mode, number>>, git = p,
           \/ pc[p] = "add" /\ pc'[p] = "rm"
           \/ pc[p] = "rm" /\ pc'[p] = "commit",
           \A f \in File : index'[f] # index[f] =>
               \E k \in DOMAIN ops[p] : ops[p][k].locked /\ ops[p][k].file = f,
           \A f \in File : tree[f] = NoFile => index'[f] \in {index[f], None},
           \A k \in DOMAIN ops[p] :
               IF ops[p][k].kind = "delete"
               THEN pc'[p] = "commit" => index'[ops[p][k].file] = None
               ELSE /\ tree[ops[p][k].file] = ops[p][k].inode
                    /\ index'[ops[p][k].file] = number[p]
    PROVE  Contents'
<1>1. \A g \in File : (Pending(g) <=> Pending(g)') /\ (InUse(g) <=> InUse(g)')
  BY DEF Pending, InUse, Opened
<1>2. \A g \in File : Stored(g)' = Stored(g)
  BY DEF Stored
<1>3. Absent'
  BY DEF Contents, Absent
<1>4. Staged'
  <2> SUFFICES ASSUME NEW f \in File, index'[f] # head'[f]
               PROVE  \E k \in DOMAIN ops[p] : ops[p][k].locked /\ ops[p][k].file = f
    BY DEF Staged
  <2>1. CASE index'[f] = index[f]
    BY <2>1 DEF Contents, Staged
  <2>2. CASE index'[f] # index[f]
    BY <2>2
  <2> QED
    BY <2>1, <2>2
<1>5. Held'
  <2>1. ASSUME NEW q \in Process \ {p}, NEW k \in DOMAIN ops[q], ops[q][k].locked
        PROVE  index'[ops[q][k].file] = index[ops[q][k].file]
    <3>1. ops[q][k].file \in File
      BY Lists DEF Base, Operation
    <3> PICK f \in File : f = ops[q][k].file
      BY <3>1
    <3>2. ASSUME index'[f] # index[f] PROVE FALSE
      <4>1. PICK l \in DOMAIN ops[p] : ops[p][l].locked /\ ops[p][l].file = f
        BY <3>2
      <4> QED
        BY <2>1, <4>1, LockedApart
    <3> QED
      BY <3>2
  <2>2. Spares(p)
    BY <1>1, <2>1 DEF Spares
  <2>3. ASSUME NEW k \in DOMAIN ops'[p] PROVE HeldOf(p, k)'
    <3>1. SUFFICES ASSUME ops[p][k].locked PROVE HeldOf(p, k)'
      BY DEF HeldOf
    <3>2. k \in DOMAIN ops[p] /\ HeldOf(p, k) /\ ops[p][k].file \in File
      BY Lists DEF Base, Operation, Contents, Held
    <3>3. CASE ops[p][k].kind = "delete"
      <4> PICK g \in File : g = ops[p][k].file
        BY <3>2
      <4>1. Stored(g) = head[g] \/ Pending(g)
        BY <3>1, <3>2, <3>3 DEF HeldOf, DeleteHolds
      <4> QED
        BY <1>1, <1>2, <3>1, <3>2, <3>3, <4>1 DEF HeldOf, DeleteHolds
    <3>4. CASE ops[p][k].kind # "delete"
      BY <3>1, <3>2, <3>4 DEF HeldOf, WriteHolds, Executed
    <3> QED
      BY <3>3, <3>4
  <2> QED
    BY <2>2, <2>3, HeldOthers DEF Contents, Held
<1>6. Settled'
  BY <1>1, <1>2 DEF Contents, Settled
<1>7. EmptyFile'
  <2> SUFFICES ASSUME NEW q \in Process, NEW k \in DOMAIN ops[q], Opened(q, k),
                      content[ops[q][k].inode] = Empty, head[ops[q][k].file] # None
               PROVE  EmptyOf(q, k)'
    BY DEF EmptyFile, EmptyOf, Opened
  <2>1. PICK r \in Process : \E l \in DOMAIN ops[r] :
            /\ pc[r] = "undo" /\ ops[r][l].locked /\ ops[r][l].kind = "update"
            /\ ops[r][l].file = ops[q][k].file
    BY DEF Contents, EmptyFile, EmptyOf
  <2>2. r # p
    BY <2>1
  <2> QED
    BY <2>1, <2>2 DEF EmptyOf, Others
<1> QED
  BY <1>3, <1>4, <1>5, <1>6, <1>7 DEF Contents

\* What git commits of a transaction are its own operations.
LEMMA CommitOwn ==
    ASSUME Base, Files, Contents, NEW p \in Process, pc[p] = "commit", NEW f \in File
    PROVE  /\ index[f] # head[f] => \E k \in DOMAIN ops[p] : ops[p][k].file = f
           /\ \A k \in DOMAIN ops[p] :
                  /\ ops[p][k].locked
                  /\ ops[p][k].file = f =>
                        index[f] = IF ops[p][k].kind = "delete" THEN None ELSE number[p]
<1>1. git = p
  BY DEF Base, Control, ControlOf
<1>2. index[f] # head[f] => \E k \in DOMAIN ops[p] : ops[p][k].file = f
  BY <1>1 DEF Contents, Staged
<1>3. ASSUME NEW k \in DOMAIN ops[p]
      PROVE  /\ ops[p][k].locked
             /\ ops[p][k].file = f =>
                   index[f] = IF ops[p][k].kind = "delete" THEN None ELSE number[p]
  <2>1. ops[p][k].locked
    BY DEF Base, Handles, HandleOf
  <2>2. HeldOf(p, k)
    BY DEF Contents, Held
  <2> QED
    BY <2>1, <2>2 DEF HeldOf, DeleteHolds, WriteHolds
<1> QED
  BY <1>2, <1>3

\* git commit.
LEMMA HeadContents ==
    ASSUME Base, Base', Files, Contents, NEW p \in Process, Others(p), Committed',
           UNCHANGED <<tree, content, index, git, ops, mode, number>>,
           pc[p] = "commit", pc'[p] = "done", head' = index
    PROVE  Contents'
<1>1. \A g \in File : (Pending(g) <=> Pending(g)') /\ (InUse(g) <=> InUse(g)')
  BY DEF Pending, InUse, Opened
<1>2. \A g \in File : Stored(g)' = Stored(g)
  BY DEF Stored
<1>3. ASSUME NEW q \in Process, NEW k \in DOMAIN ops[q], ops[q][k].locked, q # p
      PROVE  head'[ops[q][k].file] = head[ops[q][k].file]
  <2>1. ops[q][k].file \in File
    BY Lists DEF Base, Operation
  <2> PICK f \in File : f = ops[q][k].file
    BY <2>1
  <2>2. ASSUME index[f] # head[f] PROVE FALSE
    <3>1. PICK l \in DOMAIN ops[p] : ops[p][l].file = f
      BY <2>2, CommitOwn
    <3>2. ops[p][l].locked
      BY CommitOwn
    <3> QED
      BY <1>3, <3>1, <3>2, LockedApart
  <2> QED
    BY <2>2
<1>4. Absent'
  BY DEF Contents, Absent
<1>5. Staged'
  BY DEF Staged
<1>6. Held'
  <2>1. Spares(p)
    BY <1>1, <1>3 DEF Spares
  <2>2. ASSUME NEW k \in DOMAIN ops'[p] PROVE HeldOf(p, k)'
    <3>1. SUFFICES ASSUME ops[p][k].locked PROVE HeldOf(p, k)'
      BY DEF HeldOf
    <3>2. HeldOf(p, k) /\ ops[p][k].file \in File
      BY Lists DEF Base, Operation, Contents, Held
    <3>3. CASE ops[p][k].kind = "delete"
      BY <3>1, <3>2, <3>3 DEF HeldOf, DeleteHolds
    <3>4. CASE ops[p][k].kind # "delete"
      BY <3>1, <3>2, <3>4 DEF HeldOf, WriteHolds, Executed
    <3> QED
      BY <3>3, <3>4
  <2> QED
    BY <2>1, <2>2, HeldOthers DEF Contents, Held
<1>7. Settled'
  <2> SUFFICES ASSUME NEW f \in File, ~InUse(f), ~Pending(f) PROVE Stored(f) = index[f]
    BY <1>1, <1>2 DEF Settled
  <2>1. Stored(f) = head[f]
    BY DEF Contents, Settled
  <2>2. index[f] = head[f]
    BY CommitOwn DEF InUse
  <2> QED
    BY <2>1, <2>2
<1>8. EmptyFile'
  <2> SUFFICES ASSUME NEW q \in Process, NEW k \in DOMAIN ops[q], Opened(q, k),
                      content[ops[q][k].inode] = Empty, index[ops[q][k].file] # None
               PROVE  EmptyOf(q, k)'
    BY DEF EmptyFile, EmptyOf, Opened
  <2>1. ops[q][k].file \in File
    BY NameOfOpen
  <2> PICK f \in File : f = ops[q][k].file
    BY <2>1
  <2>2. CASE index[f] # head[f]
    <3>1. PICK l \in DOMAIN ops[p] : ops[p][l].file = f
      BY <2>2, CommitOwn
    <3>2. ops[p][l].locked /\ ops[p][l].kind # "delete" /\ HeldOf(p, l) /\ Opened(p, l)
      BY <3>1, CommitOwn DEF Contents, Held, Base, Handles, HandleOf
    <3>3. content[ops[p][l].inode] = number[p]
      BY <3>2 DEF HeldOf, WriteHolds, Executed
    <3>4. ops[p][l].inode = ops[q][k].inode
      BY <3>1, <3>2 DEF Files, OneFile
    <3>5. number[p] # Empty
      BY TransactionAssumption DEF Base, TypeOK, Empty
    <3> QED
      BY <3>3, <3>4, <3>5
  <2>3. CASE index[f] = head[f]
    <3>1. PICK r \in Process : \E l \in DOMAIN ops[r] :
              /\ pc[r] = "undo" /\ ops[r][l].locked /\ ops[r][l].kind = "update"
              /\ ops[r][l].file = ops[q][k].file
      BY <2>3 DEF Contents, EmptyFile, EmptyOf
    <3>2. r # p
      BY <3>1
    <3> QED
      BY <3>1, <3>2 DEF EmptyOf, Others
  <2> QED
    BY <2>2, <2>3
<1> QED
  BY <1>4, <1>5, <1>6, <1>7, <1>8 DEF Contents

\* The operation p is at is closed; its file, if p has locked it, may have been put back.
LEMMA CloseContents ==
    ASSUME Base, Base', Files, Contents, NEW p \in Process, at[p] \in DOMAIN ops[p],
           Others(p), SameBut(p), ops'[p][at[p]].inode = NoFile, ~ops'[p][at[p]].locked,
           UNCHANGED <<head, git, pc, mode, number, began, aborted>>, pc[p] \in {"undo", "done"},
           NEW f \in File, Op(p).file = f,
           \A g \in File : g # f => /\ tree'[g] = tree[g] /\ index'[g] = index[g]
                                    /\ Stored(g)' = Stored(g),
           \A q \in Process : \A k \in DOMAIN ops'[q] :
               Opened(q, k)' => content'[ops'[q][k].inode] = content[ops'[q][k].inode],
           ~Op(p).locked => UNCHANGED <<tree, content, index>>,
           Op(p).locked => index'[f] = head[f],
           Op(p).locked /\ ~Pending(f) => Stored(f)' = head[f],
           tree'[f] = NoFile => index'[f] = None /\ head[f] = None,
           pc[p] = "undo" /\ Op(p).kind = "update" /\ Op(p).locked =>
               \A q \in Process : \A k \in DOMAIN ops'[q] :
                   Opened(q, k)' /\ ops'[q][k].file = f =>
                       content'[ops'[q][k].inode] # Empty \/ head[f] = None
    PROVE  Contents'
<1> PICK m \in DOMAIN ops[p] : m = at[p]
  OBVIOUS
<1>1. /\ ops[p][m].file = f /\ ops[p][m].kind = Op(p).kind /\ ops[p][m].inode = Op(p).inode
      /\ ops[p][m].locked <=> Op(p).locked
  BY DEF Op
<1>2. ASSUME NEW q \in Process, NEW k \in DOMAIN ops'[q], Opened(q, k)'
      PROVE  k \in DOMAIN ops[q] /\ ~(q = p /\ k = m) /\ ops'[q][k] = ops[q][k] /\ Opened(q, k)
  BY <1>2 DEF SameBut, Opened
<1>3. ASSUME NEW q \in Process, NEW k \in DOMAIN ops'[q], ops'[q][k].locked
      PROVE  k \in DOMAIN ops[q] /\ ~(q = p /\ k = m) /\ ops'[q][k] = ops[q][k]
  BY <1>3 DEF SameBut
<1>4. ASSUME NEW q \in Process, NEW k \in DOMAIN ops[q], ops[q][k].locked, ~(q = p /\ k = m)
      PROVE  /\ k \in DOMAIN ops'[q] /\ ops'[q][k] = ops[q][k] /\ Opened(q, k)'
             /\ ops[q][k].file \in File
             /\ Op(p).locked => ops[q][k].file # f
  <2>1. Opened(q, k)
    BY <1>4 DEF Base, Handles, HandleOf
  <2>2. k \in DOMAIN ops'[q] /\ ops'[q][k] = ops[q][k]
    BY <1>4 DEF SameBut
  <2>3. Op(p).locked => ops[q][k].file # f
    BY <1>1, <1>4, LockedApart
  <2> QED
    BY <2>1, <2>2, <2>3, NameOfOpen DEF Opened
<1>5. \A g \in File : Pending(g) => Pending(g)'
  <2>1. Op(p).kind = "insert" /\ Opened(p, at[p]) => Op(p).locked
    <3>1. CASE pc[p] = "undo"
      BY <1>1, <3>1 DEF Files, UndoneInsert
    <3>2. CASE pc[p] = "done"
      BY <3>2, AtOperation DEF HandleOf
    <3> QED
      BY <3>1, <3>2
  <2> QED
    BY <2>1, PendingKept
<1>6. \A g \in File : InUse(g) => InUse(g)' \/ (g = f /\ Op(p).locked)
  <2> SUFFICES ASSUME NEW g \in File, InUse(g), ~(g = f /\ Op(p).locked) PROVE InUse(g)'
    OBVIOUS
  <2>1. PICK q \in Process : \E k \in DOMAIN ops[q] : ops[q][k].locked /\ ops[q][k].file = g
    BY DEF InUse
  <2>2. PICK k \in DOMAIN ops[q] : ops[q][k].locked /\ ops[q][k].file = g
    BY <2>1
  <2> QED
    BY <1>1, <1>4, <2>2 DEF InUse
<1>7. \A g \in File : g # f \/ ~Op(p).locked =>
          tree'[g] = tree[g] /\ index'[g] = index[g] /\ Stored(g)' = Stored(g)
  BY DEF Stored
<1>8. Absent'
  BY DEF Contents, Absent
<1>9. Staged'
  <2> SUFFICES ASSUME NEW g \in File, index'[g] # head[g]
               PROVE  \E q \in Process : \E k \in DOMAIN ops'[q] :
                          /\ git = q /\ pc[q] \in {"rm", "commit", "undo"}
                          /\ ops'[q][k].locked /\ ops'[q][k].file = g
    BY DEF Staged
  <2>1. g # f \/ ~Op(p).locked
    OBVIOUS
  <2>2. PICK q \in Process : \E k \in DOMAIN ops[q] :
            /\ git = q /\ pc[q] \in {"rm", "commit", "undo"}
            /\ ops[q][k].locked /\ ops[q][k].file = g
    BY <1>7, <2>1 DEF Contents, Staged
  <2>3. PICK k \in DOMAIN ops[q] : ops[q][k].locked /\ ops[q][k].file = g
    BY <2>2
  <2>4. ~(q = p /\ k = m)
    BY <1>1, <2>1, <2>3
  <2> QED
    BY <1>4, <2>2, <2>3, <2>4
<1>10. Held'
  <2>1. ASSUME NEW q \in Process, NEW k \in DOMAIN ops[q], ops[q][k].locked, ~(q = p /\ k = m)
        PROVE  LET g == ops[q][k].file
                   i == ops[q][k].inode
               IN  /\ g \in File /\ tree'[g] = tree[g] /\ content'[i] = content[i]
                   /\ index'[g] = index[g] /\ Stored(g)' = Stored(g)
    <3>1. ops[q][k].file \in File /\ (ops[q][k].file # f \/ ~Op(p).locked)
      BY <1>4, <2>1
    <3> PICK g \in File : g = ops[q][k].file
      BY <3>1
    <3>2. content'[ops[q][k].inode] = content[ops[q][k].inode]
      BY <1>4, <2>1
    <3>3. tree'[g] = tree[g] /\ index'[g] = index[g] /\ Stored(g)' = Stored(g)
      BY <1>7, <3>1
    <3>4. ops'[q][k].file = ops[q][k].file
      BY <1>4, <2>1
    <3> QED
      BY <3>1, <3>2, <3>3, <3>4
  <2>2. Spares(p)
    <3> SUFFICES ASSUME NEW q \in Process \ {p}, NEW k \in DOMAIN ops[q], ops[q][k].locked
                 PROVE  /\ tree'[ops[q][k].file] = tree[ops[q][k].file]
                        /\ content'[ops[q][k].inode] = content[ops[q][k].inode]
                        /\ index'[ops[q][k].file] = index[ops[q][k].file]
                        /\ head'[ops[q][k].file] = head[ops[q][k].file]
      BY <1>5 DEF Spares
    <3> QED
      BY <2>1
  <2>3. ASSUME NEW k \in DOMAIN ops'[p] PROVE HeldOf(p, k)'
    <3>1. SUFFICES ASSUME ops'[p][k].locked PROVE HeldOf(p, k)'
      BY DEF HeldOf
    <3>2. k \in DOMAIN ops[p] /\ k # m /\ ops'[p][k] = ops[p][k] /\ ops[p][k].locked
      BY <1>3, <3>1
    <3>3. ops[p][k].file \in File
      BY <2>1, <3>2
    <3> PICK g \in File : g = ops[p][k].file
      BY <3>3
    <3>4. HeldOf(p, k)
      BY <3>2 DEF Contents, Held
    <3>5. tree'[g] = tree[g] /\ index'[g] = index[g] /\ Stored(g)' = Stored(g)
      <4>1. g # f \/ ~Op(p).locked
        BY <1>4, <3>2
      <4> QED
        BY <1>7, <4>1
    <3>6. content'[ops[p][k].inode] = content[ops[p][k].inode]
      BY <2>1, <3>2
    <3>7. CASE ops[p][k].kind = "delete"
      BY <1>5, <3>2, <3>4, <3>5, <3>7 DEF HeldOf, DeleteHolds
    <3>8. CASE ops[p][k].kind # "delete"
      <4>1. Executed(p, k)' => Executed(p, k)
        BY DEF Executed
      <4> QED
        BY <3>2, <3>4, <3>5, <3>6, <3>8, <4>1 DEF HeldOf, WriteHolds
    <3> QED
      BY <3>7, <3>8
  <2> QED
    BY <2>2, <2>3, HeldOthers DEF Contents, Held
<1>11. Settled'
  <2> SUFFICES ASSUME NEW g \in File, ~InUse(g)', ~Pending(g)' PROVE Stored(g)' = head[g]
    BY DEF Settled
  <2>1. ~Pending(g)
    BY <1>5
  <2>2. CASE g = f /\ Op(p).locked
    BY <2>1, <2>2
  <2>3. CASE ~(g = f /\ Op(p).locked)
    <3>1. ~InUse(g)
      BY <1>6, <2>3
    <3> QED
      BY <1>7, <2>1, <2>3, <3>1 DEF Contents, Settled
  <2> QED
    BY <2>2, <2>3
<1>12. EmptyFile'
  <2> SUFFICES ASSUME NEW q \in Process, NEW k \in DOMAIN ops'[q], Opened(q, k)',
                      content'[ops'[q][k].inode] = Empty, head[ops'[q][k].file] # None
               PROVE  EmptyOf(q, k)'
    BY DEF EmptyFile, EmptyOf
  <2>1. /\ k \in DOMAIN ops[q] /\ ops'[q][k] = ops[q][k] /\ Opened(q, k)
        /\ content[ops[q][k].inode] = Empty
    BY <1>2
  <2>2. PICK r \in Process : \E l \in DOMAIN ops[r] :
            /\ pc[r] = "undo" /\ ops[r][l].locked /\ ops[r][l].kind = "update"
            /\ ops[r][l].file = ops[q][k].file
    BY <2>1 DEF Contents, EmptyFile, EmptyOf
  <2>3. PICK l \in DOMAIN ops[r] :
            /\ pc[r] = "undo" /\ ops[r][l].locked /\ ops[r][l].kind = "update"
            /\ ops[r][l].file = ops[q][k].file
    BY <2>2
  <2>4. ~(r = p /\ l = m)
    BY <1>1, <2>1, <2>3
  <2>5. l \in DOMAIN ops'[r] /\ ops'[r][l] = ops[r][l]
    BY <1>4, <2>3, <2>4
  <2> QED
    BY <2>1, <2>3, <2>5 DEF EmptyOf
<1>13. Committed'
  BY DEF Contents, Committed
<1> QED
  BY <1>8, <1>9, <1>10, <1>11, <1>12, <1>13 DEF Contents

-----------------------------------------------------------------------------
(* The steps of a process, while nothing is spoiled. *)

Good == Base /\ spoiled = {} /\ Files /\ Contents

\* A step that leaves HEAD alone gives no transaction that goes on a number HEAD holds.
LEMMA HeadKept ==
    ASSUME Good, Base', NEW p \in Process, Others(p), head' = head,
           began' \in Nat, began' >= began,
           \/ aborted' = aborted
           \/ aborted' = aborted \cup {number[p]} /\ pc[p] \notin {"done", "idle"},
           pc'[p] \notin {"done", "idle"} =>
               \/ number'[p] = number[p] /\ pc[p] \notin {"done", "idle"}
               \/ number'[p] = began + 1
    PROVE  Committed'
<1>1. began \in Nat /\ MaxTransactions \in Nat /\ \A q \in Process : number'[q] \in 0..MaxTransactions
  BY TransactionAssumption DEF Good, Base, Numbers, TypeOK
<1> SUFFICES ASSUME NEW f \in File
             PROVE  /\ head[f] = None \/ head[f] \in 0..began'
                    /\ head[f] \notin aborted'
                    /\ \A q \in Process : pc'[q] \notin {"done", "idle"} => head[f] # number'[q]
  BY DEF Committed
<1>2. /\ head[f] = None \/ head[f] \in 0..began
      /\ head[f] \notin aborted
      /\ \A q \in Process : pc[q] \notin {"done", "idle"} => head[f] # number[q]
  BY DEF Good, Contents, Committed
<1>3. head[f] = None \/ head[f] \in 0..began'
  BY <1>1, <1>2
<1>4. head[f] \notin aborted'
  BY <1>2
<1>5. ASSUME NEW q \in Process, pc'[q] \notin {"done", "idle"} PROVE head[f] # number'[q]
  <2>1. CASE q # p
    BY <1>2, <1>5, <2>1 DEF Others
  <2>2. CASE q = p /\ number'[p] = number[p] /\ pc[p] \notin {"done", "idle"}
    BY <1>2, <2>2
  <2>3. CASE q = p /\ number'[p] = began + 1
    BY <1>1, <1>2, <2>3 DEF None
  <2> QED
    BY <1>5, <2>1, <2>2, <2>3
<1> QED
  BY <1>3, <1>4, <1>5

LEMMA ThrowGood ==
    ASSUME Good, Base', NEW p \in Process, Others(p), Throw(p), pc[p] \notin {"idle", "done"},
           UNCHANGED <<tree, content, index, head, git, ops, mode, number, began>>,
           \A k \in DOMAIN ops[p] :
               ops[p][k].kind = "insert" /\ Opened(p, k) => ops[p][k].locked
    PROVE  Files' /\ Contents'
<1>1. pc'[p] = "undo" /\ aborted' = aborted \cup {number[p]}
  BY DEF Throw, Goto, Good, Base, TypeOK
<1>2. UndoneInsert'
  <2> SUFFICES ASSUME NEW q \in Process, NEW k \in DOMAIN ops[q], pc'[q] = "undo",
                      ops[q][k].kind = "insert", Opened(q, k)
               PROVE  ops[q][k].locked
    BY DEF UndoneInsert, Opened
  <2> QED
    BY DEF Good, Files, UndoneInsert, Others
<1>3. Files'
  BY <1>2, FilesShrink DEF Good, Opened
<1>4. Committed'
  <2>1. began' \in Nat /\ began' >= began
    BY DEF Good, Base, Numbers
  <2> QED
    BY <1>1, <2>1, HeadKept
<1>5. \A k \in DOMAIN ops[p] : ~Executed(p, k)'
  BY <1>1 DEF Executed
<1>6. Contents'
  BY <1>1, <1>4, <1>5, QuietContents DEF Good
<1> QED
  BY <1>3, <1>6

LEMMA BeginGood ==
    ASSUME Good, Base', NEW p \in Process, Begin(p)
    PROVE  Files' /\ Contents'
<1>1. /\ pc[p] = "idle" /\ ops[p] = <<>> /\ began' = began + 1 /\ number'[p] = began + 1
      /\ pc'[p] = "open" /\ at'[p] = 1
      /\ UNCHANGED <<tree, content, index, head, git, aborted>>
  BY DEF Good, Base, TypeOK, Control, ControlOf, Begin, Goto, Position, gitVars
<1>2. Others(p)
  BY OthersStay DEF Good
<1>3. \A k \in DOMAIN ops'[p] : ~Opened(p, k)' /\ ~ops'[p][k].locked
  <2> TAKE k \in DOMAIN ops'[p]
  <2>1. HandleOf(p, k)'
    BY DEF Base, Handles
  <2>2. k \in 1..Len(ops'[p]) /\ Len(ops'[p]) \in Nat
    BY DEF Base, TypeOK
  <2> QED
    BY <1>1, <2>1, <2>2 DEF HandleOf
<1>4. UndoneInsert'
  <2> SUFFICES ASSUME NEW q \in Process, NEW k \in DOMAIN ops'[q], pc'[q] = "undo",
                      ops'[q][k].kind = "insert", Opened(q, k)'
               PROVE  ops'[q][k].locked
    BY DEF UndoneInsert
  <2> QED
    BY <1>1, <1>2 DEF Good, Files, UndoneInsert, Others, Opened
<1>5. Files'
  <2>1. ASSUME NEW q \in Process, NEW k \in DOMAIN ops'[q], Opened(q, k)'
        PROVE  k \in DOMAIN ops[q] /\ Opened(q, k) /\ ops'[q][k] = ops[q][k]
    BY <1>2, <1>3, <2>1 DEF Others, Opened
  <2> QED
    BY <1>1, <1>4, <2>1, FilesShrink DEF Good
<1>6. Committed'
  <2>1. began' \in Nat /\ began' >= began
    BY <1>1 DEF Good, Base, Numbers
  <2> QED
    BY <1>1, <1>2, <2>1, HeadKept
<1>7. DOMAIN ops[p] = {}
  BY <1>1
<1>8. Contents'
  BY <1>1, <1>2, <1>3, <1>6, <1>7, QuietContents DEF Good
<1> QED
  BY <1>5, <1>8

LEMMA ReturnGood ==
    ASSUME Good, Base', NEW p \in Process, Return(p)
    PROVE  Files' /\ Contents'
<1>1. /\ pc[p] \in {"undo", "done"} /\ at[p] = 0 /\ pc'[p] = "idle" /\ ops'[p] = <<>>
      /\ git' = IF git = p THEN NoOne ELSE git
      /\ UNCHANGED <<tree, content, index, head, number, began, aborted>>
  BY DEF Good, Base, TypeOK, Return, Goto
<1>2. Others(p) /\ DOMAIN ops'[p] = {}
  BY <1>1, OthersStay DEF Good, Step
<1>3. \A k \in DOMAIN ops[p] : ~Opened(p, k) /\ ~ops[p][k].locked
  <2> TAKE k \in DOMAIN ops[p]
  <2>1. HandleOf(p, k) /\ k > 0
    BY Lists DEF Good, Base, Handles
  <2>2. ~(k <= at[p]) /\ k > at[p]
    BY <1>1, <2>1, Lists DEF Good, Base
  <2> QED
    BY <1>1, <2>1, <2>2 DEF HandleOf
<1>4. UndoneInsert'
  BY <1>1, <1>2 DEF Good, Files, UndoneInsert, Others, Opened
<1>5. Files'
  <2>1. ASSUME NEW q \in Process, NEW k \in DOMAIN ops'[q], Opened(q, k)'
        PROVE  k \in DOMAIN ops[q] /\ Opened(q, k) /\ ops'[q][k] = ops[q][k]
    BY <1>2, <2>1 DEF Others, Opened
  <2> QED
    BY <1>1, <1>4, <2>1, FilesShrink DEF Good
<1>6. Committed'
  <2>1. began' \in Nat /\ began' >= began
    BY <1>1 DEF Good, Base, Numbers
  <2> QED
    BY <1>1, <1>2, <2>1, HeadKept
<1>7. Contents'
  BY <1>1, <1>2, <1>3, <1>6, QuietContents DEF Good
<1> QED
  BY <1>5, <1>7

LEMMA OpenFileGood ==
    ASSUME Good, Base', spoiled' = {}, NEW p \in Process, OpenFile(p)
    PROVE  Files' /\ Contents'
<1>1. /\ pc[p] = "open" /\ at[p] \in DOMAIN ops[p] /\ Op(p).file \in File
      /\ UNCHANGED <<index, head, git, mode, number, began, faults>>
  BY AtOperation DEF Good, Base, OpenFile, Control, ControlOf, gitVars
<1> PICK f \in File : f = Op(p).file
  BY <1>1
<1>2. /\ Others(p) /\ ~Opened(p, at[p])
      /\ \A k \in DOMAIN ops[p] : Opened(p, k) => ops[p][k].locked
  <2>1. Others(p)
    BY OthersStay DEF Good, Step
  <2>2. \A k \in DOMAIN ops[p] : HandleOf(p, k)
    BY DEF Good, Base, Handles
  <2>3. ~Opened(p, at[p])
    <3>1. ~(at[p] < at[p])
      BY <1>1, Lists DEF Good, Base
    <3> QED
      BY <1>1, <2>2, <3>1 DEF HandleOf
  <2>4. \A k \in DOMAIN ops[p] : Opened(p, k) => ops[p][k].locked
    BY <1>1, <2>2 DEF HandleOf
  <2> QED
    BY <2>1, <2>3, <2>4
<1>3. began' \in Nat /\ began' >= began
  BY <1>1 DEF Good, Base, Numbers
<1>4. CASE /\ Op(p).kind = "insert" /\ tree[f] = NoFile /\ Room
           /\ tree' = [tree EXCEPT ![f] = NewInode]
           /\ content' = [content EXCEPT ![NewInode] = Empty]
           /\ SetOp(p, [Op(p) EXCEPT !.inode = NewInode])
           /\ spoiled' = spoiled \cup Replaced(p, f)
           /\ Goto(p, "lock") /\ UNCHANGED <<at, aborted>>
  <2> PICK i \in Inode : i = NewInode /\ Fresh(i)
    BY <1>4, NewInodeIsFresh
  <2>1. /\ SameBut(p)
        /\ ops'[p][at[p]].inode = i /\ ops'[p][at[p]].locked = Op(p).locked
    BY <1>1, <1>4, OpenEffect DEF Good
  <2>2. pc'[p] = "lock" /\ ~Op(p).locked /\ Replaced(p, f) = {}
    BY <1>1, <1>2, <1>4, AtOperation DEF Goto, Good, Base, TypeOK, HandleOf
  <2>3. Committed'
    BY <1>1, <1>2, <1>3, <1>4, HeadKept
  <2>4. Contents'
    BY <1>1, <1>2, <1>4, <2>1, <2>2, <2>3, CreateContents DEF Good
  <2>5. Files'
    <3>1. tree'[f] = i /\ \A g \in File : g # f => tree'[g] = tree[g] /\ tree[g] # i
      BY <1>4, Types DEF Good, Fresh
    <3>2. \A q \in Process : \A k \in DOMAIN ops[q] :
              Opened(q, k) => ops[q][k].file # f /\ ops[q][k].inode # i
      <4> SUFFICES ASSUME NEW q \in Process, NEW k \in DOMAIN ops[q], Opened(q, k)
                   PROVE  ops[q][k].file # f /\ ops[q][k].inode # i
        OBVIOUS
      <4>1. q # p \/ k # at[p]
        BY <1>2
      <4> QED
        BY <2>2, <4>1 DEF Fresh, Open, Replaced, Opened
    <3> QED
      BY <1>1, <1>2, <2>1, <2>2, <3>1, <3>2, FilesOpened DEF Good
  <2> QED
    BY <2>4, <2>5
<1>5. CASE /\ Op(p).kind # "insert" /\ tree[f] # NoFile
           /\ SetOp(p, [Op(p) EXCEPT !.inode = tree[f]]) /\ Goto(p, "lock")
           /\ UNCHANGED <<tree, content, at, aborted, spoiled>>
  <2> PICK i \in Inode : i = tree[f]
    BY <1>5, Types DEF Good
  <2>1. /\ SameBut(p)
        /\ ops'[p][at[p]].inode = i /\ ops'[p][at[p]].locked = Op(p).locked
    BY <1>1, <1>5, OpenEffect DEF Good
  <2>2. pc'[p] = "lock" /\ ~Op(p).locked
    BY <1>1, <1>2, <1>5, AtOperation DEF Goto, Good, Base, TypeOK, HandleOf
  <2>3. Committed'
    BY <1>1, <1>2, <1>3, <1>5, HeadKept
  <2>4. Files'
    <3>1. \A g \in File : g # f => tree'[g] = tree[g] /\ tree[g] # i
      BY <1>5 DEF Good, Files, OneName
    <3>2. \A q \in Process : \A k \in DOMAIN ops[q] :
              Opened(q, k) => (ops[q][k].file = f <=> ops[q][k].inode = i)
      BY <1>5, NameOfOpen DEF Good
    <3> QED
      BY <1>1, <1>2, <1>5, <2>1, <2>2, <3>1, <3>2, FilesOpened DEF Good
  <2>5. ASSUME content[i] = Empty, head[f] # None
        PROVE  \E q \in Process : \E l \in DOMAIN ops[q] :
                   /\ pc[q] = "undo" /\ ops[q][l].locked /\ ops[q][l].kind = "update"
                   /\ ops[q][l].file = f
    <3>1. Stored(f) # head[f]
      <4>1. head[f] \in 0..began /\ began <= MaxTransactions /\ began \in Nat
        BY <2>5, TransactionAssumption DEF Good, Contents, Committed, Base, Numbers
      <4> QED
        BY <1>5, <2>5, <4>1, TransactionAssumption DEF Stored, Empty
    <3>2. InUse(f) \/ Pending(f)
      BY <3>1 DEF Good, Contents, Settled
    <3>3. PICK q \in Process : \E k \in DOMAIN ops[q] : ops[q][k].file = f /\ Opened(q, k)
      BY <3>2 DEF InUse, Pending, Good, Base, Handles, HandleOf
    <3>4. PICK k \in DOMAIN ops[q] : ops[q][k].file = f /\ Opened(q, k)
      BY <3>3
    <3>5. ops[q][k].inode = i
      BY <1>5, <3>4, NameOfOpen DEF Good
    <3> QED
      BY <2>5, <3>4, <3>5 DEF Good, Contents, EmptyFile, EmptyOf
  <2>6. ASSUME NEW k \in DOMAIN ops'[p], k = at[p] PROVE EmptyOf(p, k)'
    <3> SUFFICES ASSUME content[i] = Empty, head[f] # None PROVE EmptyOf(p, k)'
      BY <1>1, <1>5, <2>1, <2>6 DEF EmptyOf, SameBut, Op
    <3>1. PICK q \in Process : \E l \in DOMAIN ops[q] :
              /\ pc[q] = "undo" /\ ops[q][l].locked /\ ops[q][l].kind = "update"
              /\ ops[q][l].file = f
      BY <2>5
    <3>2. q # p
      BY <1>1, <3>1
    <3>3. ops'[p][k].file = f
      BY <2>1, <2>6 DEF SameBut, Op
    <3> QED
      BY <1>2, <3>1, <3>2, <3>3 DEF EmptyOf, Others
  <2>7. \A k \in DOMAIN ops[p] : /\ Opened(p, k) => k \in DOMAIN ops'[p] /\ ops'[p][k] = ops[p][k]
                                 /\ Executed(p, k)' => Executed(p, k)
    BY <1>1, <1>2, <1>5, <2>1, <2>2 DEF SameBut, Executed
  <2>8. \A k \in DOMAIN ops'[p] : Opened(p, k)' =>
               \/ k \in DOMAIN ops[p] /\ ops'[p][k] = ops[p][k]
               \/ ~ops'[p][k].locked /\ EmptyOf(p, k)'
    BY <2>1, <2>2, <2>6 DEF SameBut
  <2>9. Contents'
    BY <1>1, <1>2, <1>5, <2>2, <2>3, <2>7, <2>8, QuietContents DEF Good
  <2> QED
    BY <2>4, <2>9
<1>6. CASE Throw(p) /\ UNCHANGED <<tree, content, ops, spoiled>>
  BY <1>1, <1>2, <1>6, ThrowGood
<1> QED
  BY <1>4, <1>5, <1>6 DEF OpenFile

LEMMA LockFileGood ==
    ASSUME Good, Base', spoiled' = {}, NEW p \in Process, LockFile(p)
    PROVE  Files' /\ Contents'
<1>1. /\ pc[p] = "lock" /\ at[p] \in DOMAIN ops[p] /\ Opened(p, at[p]) /\ ~Op(p).locked
      /\ UNCHANGED <<tree, content, index, head, git, mode, number, began, faults>>
  BY AtOperation DEF Good, Base, LockFile, Control, ControlOf, gitVars, HandleOf
<1>2. Others(p)
  BY OthersStay DEF Good, Step
<1>3. began' \in Nat /\ began' >= began
  BY <1>1 DEF Good, Base, Numbers
<1>4. CASE /\ ~Locked(Op(p).inode)
           /\ Op(p).kind = "insert" => content[Op(p).inode] = Empty
           /\ SetOp(p, [Op(p) EXCEPT !.locked = TRUE])
           /\ IF mode[p] = "sync" THEN Goto(p, "execute") /\ UNCHANGED at
              ELSE Continue(p, "open", "execute")
           /\ UNCHANGED <<aborted, spoiled>>
  <2>1. SameBut(p) /\ ops'[p][at[p]].inode = Op(p).inode /\ ops'[p][at[p]].locked
    BY <1>1, <1>4, LockEffect DEF Good
  <2>2. /\ pc'[p] \in {"open", "execute"}
        /\ \A k \in DOMAIN ops[p] : Executed(p, k)' => Executed(p, k) /\ k # at[p]
    <3>1. DOMAIN ops[p] = 1..Len(ops[p]) /\ Len(ops[p]) \in Nat
      BY Lists DEF Good, Base
    <3>2. CASE mode[p] = "sync"
      <4>1. pc'[p] = "execute" /\ at'[p] = at[p] /\ mode'[p] = "sync"
        BY <1>1, <1>4, <3>2 DEF Goto, Good, Base, TypeOK
      <4> QED
        BY <1>1, <3>1, <3>2, <4>1 DEF Executed
    <3>3. CASE mode[p] # "sync"
      <4>1. Continue(p, "open", "execute")
        BY <1>4, <3>3
      <4>2. /\ pc'[p] = IF at[p] = Len(ops[p]) THEN "execute" ELSE "open"
            /\ at'[p] = IF at[p] = Len(ops[p]) THEN 1 ELSE at[p] + 1
        BY <1>1, <4>1, ContinueEffect DEF Good
      <4> QED
        BY <1>1, <3>1, <3>3, <4>2 DEF Executed
    <3> QED
      BY <3>2, <3>3
  <2>3. Committed'
    BY <1>1, <1>2, <1>3, <1>4, HeadKept
  <2>4. Files'
    BY <1>1, <1>2, <1>4, <2>1, <2>2, FilesLocked DEF Good
  <2>5. Contents'
    BY <1>1, <1>2, <1>4, <2>1, <2>2, <2>3, LockContents DEF Good
  <2> QED
    BY <2>4, <2>5
<1>5. CASE /\ Throw(p) /\ UNCHANGED ops
           /\ spoiled' = spoiled \cup (IF Op(p).kind = "insert" THEN {"left"} ELSE {})
  <2>1. \A k \in DOMAIN ops[p] : ops[p][k].kind = "insert" /\ Opened(p, k) => ops[p][k].locked
    <3> SUFFICES ASSUME NEW k \in DOMAIN ops[p], ops[p][k].kind = "insert", Opened(p, k)
                 PROVE  ops[p][k].locked
      OBVIOUS
    <3>1. k # at[p]
      BY <1>5 DEF Op
    <3>2. HandleOf(p, k)
      BY DEF Good, Base, Handles
    <3>3. k < at[p] \/ k > at[p]
      BY <1>1, <3>1, Lists DEF Good, Base
    <3> QED
      BY <1>1, <3>2, <3>3 DEF HandleOf
  <2> QED
    BY <1>1, <1>2, <1>5, <2>1, ThrowGood
<1> QED
  BY <1>4, <1>5 DEF LockFile

LEMMA ExecuteGood ==
    ASSUME Good, Base', NEW p \in Process, Execute(p) \/ ExecuteFails(p)
    PROVE  Files' /\ Contents'
<1>1. /\ pc[p] = "execute" /\ at[p] \in DOMAIN ops[p]
      /\ UNCHANGED <<tree, index, head, git, ops, mode, number, began, spoiled>>
  BY DEF Good, Base, Execute, ExecuteFails, Control, ControlOf, gitVars
<1>2. Others(p)
  BY OthersStay DEF Good, Step
<1>3. began' \in Nat /\ began' >= began
  BY <1>1 DEF Good, Base, Numbers
<1>4. \A k \in DOMAIN ops[p] : HandleOf(p, k)
  BY DEF Good, Base, Handles
<1>5. DOMAIN ops[p] = 1..Len(ops[p]) /\ Len(ops[p]) \in Nat /\ mode[p] \in {"async", "sync"}
  BY Lists DEF Good, Base, TypeOK
<1>6. Op(p).locked
  <2>1. at[p] <= at[p]
    BY <1>1, <1>5
  <2> QED
    BY <1>1, <1>4, <2>1 DEF HandleOf, Op
<1>7. UndoneInsert'
  <2> SUFFICES ASSUME NEW q \in Process, NEW k \in DOMAIN ops[q], pc'[q] = "undo",
                      ops[q][k].kind = "insert", Opened(q, k)
               PROVE  ops[q][k].locked
    BY <1>1 DEF UndoneInsert, Opened
  <2>1. CASE q = p
    BY <1>1, <1>4, <2>1 DEF HandleOf
  <2>2. CASE q # p
    BY <1>2, <2>2 DEF Good, Files, UndoneInsert, Others
  <2> QED
    BY <2>1, <2>2
<1>8. Files'
  BY <1>1, <1>7, FilesShrink DEF Good, Opened
<1>9. number[p] \in Data /\ Empty \in Data /\ number[p] # Empty
  BY TransactionAssumption DEF Good, Base, TypeOK, Data, Empty
<1>10. CASE Execute(p)
  <2>1. Committed'
    <3>1. aborted' = aborted
      BY <1>10 DEF Execute
    <3> QED
      BY <1>1, <1>2, <1>3, <3>1, HeadKept
  <2>2. /\ pc'[p] = IF at[p] = Len(ops[p]) THEN "flock"
                    ELSE IF mode[p] = "sync" THEN "open" ELSE "execute"
        /\ at'[p] = IF at[p] = Len(ops[p]) THEN 1 ELSE at[p] + 1
    <3>1. Continue(p, IF mode[p] = "sync" THEN "open" ELSE "execute", "flock")
      BY <1>10 DEF Execute
    <3> PICK step : step = IF mode[p] = "sync" THEN "open" ELSE "execute"
      OBVIOUS
    <3> QED
      BY <1>1, <3>1, ContinueEffect DEF Good
  <2>3. \A k \in DOMAIN ops[p] : Executed(p, k)' => Executed(p, k) \/ k = at[p]
    <3> SUFFICES ASSUME NEW k \in DOMAIN ops[p], Executed(p, k)', k # at[p] PROVE k < at[p]
      BY <1>1 DEF Executed
    <3>1. CASE at[p] = Len(ops[p])
      BY <1>1, <1>5, <3>1
    <3>2. CASE at[p] # Len(ops[p])
      <4>1. k < at'[p] /\ at'[p] = at[p] + 1
        BY <2>2, <3>2 DEF Executed
      <4> QED
        BY <1>1, <1>5, <4>1
    <3> QED
      BY <3>1, <3>2
  <2>4. CASE Op(p).kind = "delete"
    <3>1. content' = content
      BY <1>10, <2>4 DEF Execute
    <3>2. \A k \in DOMAIN ops[p] : Executed(p, k)' /\ ops[p][k].kind # "delete" =>
              k # at[p] /\ Executed(p, k)
      BY <2>3, <2>4 DEF Op
    <3> QED
      BY <1>1, <1>2, <1>6, <1>8, <1>9, <2>1, <2>2, <3>1, <3>2, WriteContents DEF Good
  <2>5. CASE Op(p).kind # "delete"
    <3>1. content' = [content EXCEPT ![Op(p).inode] = number[p]]
      BY <1>10, <2>5 DEF Execute
    <3>2. \A k \in DOMAIN ops[p] : Executed(p, k)' /\ ops[p][k].kind # "delete" =>
              IF k = at[p] THEN content' = [content EXCEPT ![Op(p).inode] = number[p]]
              ELSE Executed(p, k)
      BY <2>3, <3>1
    <3> QED
      BY <1>1, <1>2, <1>6, <1>8, <1>9, <2>1, <2>2, <2>5, <3>1, <3>2, WriteContents DEF Good
  <2> QED
    BY <2>4, <2>5
<1>11. CASE ExecuteFails(p)
  <2>1. /\ Op(p).kind # "delete" /\ content' = [content EXCEPT ![Op(p).inode] = Empty]
        /\ pc'[p] = "undo" /\ aborted' = aborted \cup {number[p]}
    BY <1>11 DEF ExecuteFails, Throw, Goto, Good, Base, TypeOK
  <2>2. Committed'
    BY <1>1, <1>2, <1>3, <2>1, HeadKept
  <2>3. \A k \in DOMAIN ops[p] : ~Executed(p, k)'
    BY <2>1 DEF Executed
  <2>4. Contents'
    BY <1>1, <1>2, <1>6, <1>9, <2>1, <2>2, <2>3, WriteContents DEF Good
  <2> QED
    BY <1>8, <2>4
<1> QED
  BY <1>10, <1>11

\* What fails before anything is locked, and in a git command, is not an insert that waits
\* for its lock.
LEMMA FaultGood ==
    ASSUME Good, Base', NEW p \in Process, FunctionDies(p) \/ LockGitFails(p) \/ GitFails(p)
    PROVE  Files' /\ Contents'
<1>1. /\ pc[p] \in {"open", "flock", "add", "rm", "commit"} /\ Throw(p)
      /\ UNCHANGED <<tree, content, index, head, git, ops, mode, number, began>>
  BY DEF FunctionDies, LockGitFails, GitFails, gitVars
<1>2. Others(p)
  BY OthersStay DEF Good, Step
<1>3. \A k \in DOMAIN ops[p] : Opened(p, k) => ops[p][k].locked
  BY <1>1 DEF Good, Base, Handles, HandleOf
<1> QED
  BY <1>1, <1>2, <1>3, ThrowGood

LEMMA CommitGood ==
    ASSUME Good, Base', NEW p \in Process, LockGit(p) \/ Add(p) \/ Rm(p) \/ CommitGit(p)
    PROVE  Files' /\ Contents'
<1>1. /\ pc[p] \in {"flock", "add", "rm", "commit"}
      /\ UNCHANGED <<tree, content, ops, mode, number, began>>
  BY DEF LockGit, Add, Rm, CommitGit
<1>2. Others(p)
  BY OthersStay DEF Good, Step
<1>3. began' \in Nat /\ began' >= began
  BY <1>1 DEF Good, Base, Numbers
<1>4. \A k \in DOMAIN ops[p] : /\ ops[p][k].locked /\ Opened(p, k) /\ ops[p][k] \in Operation
                               /\ HeldOf(p, k)
  BY <1>1, Lists DEF Good, Base, Handles, HandleOf, Contents, Held
<1>5. CASE Throw(p) /\ UNCHANGED <<index, head, git>>
  BY <1>1, <1>2, <1>4, <1>5, ThrowGood
<1>6. ASSUME pc'[p] # "undo" PROVE Files'
  <2>1. UndoneInsert'
    <3> SUFFICES ASSUME NEW q \in Process, NEW k \in DOMAIN ops[q], pc'[q] = "undo",
                        ops[q][k].kind = "insert", Opened(q, k)
                 PROVE  ops[q][k].locked
      BY <1>1 DEF UndoneInsert, Opened
    <3> QED
      BY <1>2, <1>6 DEF Good, Files, UndoneInsert, Others
  <2> QED
    BY <1>1, <2>1, FilesShrink DEF Good, Opened
<1>7. CASE LockGit(p)
  <2>1. /\ pc[p] = "flock" /\ pc'[p] = "add" /\ git = NoOne
        /\ UNCHANGED <<index, head, at, aborted>>
    BY <1>7 DEF LockGit, Goto, Good, Base, TypeOK
  <2>2. Committed'
    BY <1>1, <1>2, <1>3, <2>1, HeadKept
  <2>3. \A k \in DOMAIN ops[p] : Executed(p, k)
    BY <2>1 DEF Executed
  <2>4. Contents'
    BY <1>1, <1>2, <2>1, <2>2, <2>3, ProcessAssumption, QuietContents DEF Good
  <2> QED
    BY <1>6, <2>1, <2>4
<1>8. CASE Add(p) /\ ~Throw(p)
  <2>1. /\ pc[p] = "add" /\ pc'[p] = "rm" /\ git = p
        /\ UNCHANGED <<head, git, at, aborted>>
        /\ \A k \in Writes(p) : tree[FileOf(p, k)] # NoFile
        /\ index' = [f \in File |->
              IF \E k \in Writes(p) : FileOf(p, k) = f THEN content[tree[f]] ELSE index[f]]
    BY <1>8 DEF Add, Goto, Good, Base, TypeOK, Control, ControlOf
  <2>2. Committed'
    BY <1>1, <1>2, <1>3, <2>1, HeadKept
  <2>3. ASSUME NEW k \in DOMAIN ops[p], ops[p][k].kind # "delete"
        PROVE  /\ tree[ops[p][k].file] = ops[p][k].inode
               /\ index'[ops[p][k].file] = number[p]
    <3>1. k \in Writes(p) /\ FileOf(p, k) = ops[p][k].file
      BY <2>3 DEF Writes, FileOf
    <3>2. ops[p][k].file \in File /\ tree[ops[p][k].file] = ops[p][k].inode
      BY <1>4, <2>1, <3>1, NameOfOpen DEF Good
    <3>3. content[ops[p][k].inode] = number[p]
      BY <1>4, <2>1, <2>3 DEF HeldOf, WriteHolds, Executed
    <3> QED
      BY <2>1, <3>1, <3>2, <3>3
  <2>4. \A f \in File : index'[f] # index[f] =>
            tree[f] # NoFile /\ \E k \in DOMAIN ops[p] : ops[p][k].locked /\ ops[p][k].file = f
    BY <1>4, <2>1 DEF Writes, FileOf
  <2>5. Contents'
    BY <1>1, <1>2, <2>1, <2>2, <2>3, <2>4, StageContents DEF Good
  <2> QED
    BY <1>6, <2>1, <2>5
<1>9. CASE Rm(p) /\ ~Throw(p)
  <2>1. /\ pc[p] = "rm" /\ pc'[p] = "commit" /\ git = p
        /\ UNCHANGED <<head, git, at, aborted>>
        /\ index' = [f \in File |->
              IF \E k \in Deletes(p) : FileOf(p, k) = f THEN None ELSE index[f]]
    BY <1>9 DEF Rm, Goto, Good, Base, TypeOK, Control, ControlOf
  <2>2. Committed'
    BY <1>1, <1>2, <1>3, <2>1, HeadKept
  <2>3. ASSUME NEW k \in DOMAIN ops[p], ops[p][k].kind # "delete"
        PROVE  /\ tree[ops[p][k].file] = ops[p][k].inode
               /\ index'[ops[p][k].file] = number[p]
    <3>1. /\ tree[ops[p][k].file] = ops[p][k].inode /\ index[ops[p][k].file] = number[p]
          /\ ops[p][k].file \in File
      BY <1>4, <2>1, <2>3 DEF HeldOf, WriteHolds, Operation
    <3>2. ~\E l \in Deletes(p) : FileOf(p, l) = ops[p][k].file
      BY <1>4, <2>3, LockedApart DEF Good, Deletes, Writes, FileOf
    <3> QED
      BY <2>1, <3>1, <3>2
  <2>4. ASSUME NEW k \in DOMAIN ops[p], ops[p][k].kind = "delete"
        PROVE  index'[ops[p][k].file] = None
    <3>1. k \in Deletes(p) /\ FileOf(p, k) = ops[p][k].file /\ ops[p][k].file \in File
      BY <1>4, <2>4 DEF Deletes, Writes, FileOf, Operation
    <3> QED
      BY <2>1, <3>1
  <2>5. \A f \in File : /\ index'[f] \in {index[f], None}
                        /\ index'[f] # index[f] =>
                              \E k \in DOMAIN ops[p] : ops[p][k].locked /\ ops[p][k].file = f
    BY <1>4, <2>1 DEF Deletes, FileOf
  <2>6. Contents'
    BY <1>1, <1>2, <2>1, <2>2, <2>3, <2>4, <2>5, StageContents DEF Good
  <2> QED
    BY <1>6, <2>1, <2>6
<1>10. CASE CommitGit(p) /\ ~Throw(p)
  <2>1. /\ pc[p] = "commit" /\ pc'[p] = "done" /\ head' = index
        /\ UNCHANGED <<index, git, aborted>>
    BY <1>10 DEF CommitGit, Goto, Good, Base, TypeOK
  <2>2. Committed'
    <3> SUFFICES ASSUME NEW f \in File
                 PROVE  /\ index[f] = None \/ index[f] \in 0..began
                        /\ index[f] \notin aborted
                        /\ \A q \in Process : pc'[q] \notin {"done", "idle"} => index[f] # number[q]
      BY <1>1, <2>1 DEF Committed
    <3>1. /\ head[f] = None \/ head[f] \in 0..began
          /\ head[f] \notin aborted
          /\ \A q \in Process : pc[q] \notin {"done", "idle"} => head[f] # number[q]
      BY DEF Good, Contents, Committed
    <3>2. /\ number[p] \in 1..began /\ number[p] \notin aborted
          /\ \A q \in Process \ {p} : number[q] # number[p]
          /\ None \notin aborted
          /\ \A q \in Process : number[q] # None
      BY <2>1, TransactionAssumption DEF Good, Base, Numbers, TypeOK, None
    <3>3. index[f] \in {head[f], number[p], None}
      BY <2>1, CommitOwn DEF Good
    <3>4. \A q \in Process : pc'[q] \notin {"done", "idle"} => q # p /\ pc[q] = pc'[q]
      BY <1>2, <2>1 DEF Others
    <3>5. index[f] = None \/ index[f] \in 0..began
      BY <3>1, <3>2, <3>3
    <3>6. index[f] \notin aborted
      BY <3>1, <3>2, <3>3
    <3>7. \A q \in Process : pc'[q] \notin {"done", "idle"} => index[f] # number[q]
      BY <3>1, <3>2, <3>3, <3>4
    <3> QED
      BY <3>5, <3>6, <3>7
  <2>3. Contents'
    BY <1>1, <1>2, <2>1, <2>2, HeadContents DEF Good
  <2> QED
    BY <1>6, <2>1, <2>3
<1>11. ASSUME Throw(p), ~LockGit(p) PROVE UNCHANGED <<index, head, git>>
  <2>1. pc'[p] = "undo"
    BY <1>11 DEF Throw, Goto, Good, Base, TypeOK
  <2>2. ~Goto(p, "rm") /\ ~Goto(p, "commit") /\ ~Goto(p, "done")
    BY <2>1 DEF Goto, Good, Base, TypeOK
  <2> QED
    BY <1>11, <2>2 DEF Add, Rm, CommitGit
<1> QED
  BY <1>5, <1>7, <1>8, <1>9, <1>10, <1>11

\* The undo of an operation puts its file back; the release of a deletion removes it.
LEMMA CloseGood ==
    ASSUME Good, Base', spoiled' = {}, NEW p \in Process,
           Undo(p) \/ UndoFails(p) \/ Release(p)
    PROVE  Files' /\ Contents'
<1>1. /\ pc[p] \in {"undo", "done"} /\ at[p] > 0 /\ Drop(p)
      /\ UNCHANGED <<head, git, pc, mode, number, began, aborted>>
  BY DEF Undo, UndoFails, Release, gitVars
<1>2. /\ at[p] \in DOMAIN ops[p] /\ Op(p) = ops[p][at[p]] /\ Op(p).file \in File
      /\ Op(p).kind \in {"insert", "update", "delete"}
      /\ Op(p).locked => Opened(p, at[p]) /\ HeldOf(p, at[p])
  BY <1>1, PositionIsValid, AtOperation DEF Good, HandleOf, Contents, Held, Operation, Kind
<1>3. SameBut(p) /\ ops'[p][at[p]].inode = NoFile /\ ~ops'[p][at[p]].locked
  BY <1>1, <1>2, CloseEffect DEF Good
<1>4. Others(p)
  BY OthersStay DEF Good, Step
<1> PICK f \in File : f = Op(p).file
  BY <1>2
<1>5. ASSUME NEW q \in Process, NEW k \in DOMAIN ops'[q], Opened(q, k)'
      PROVE  /\ k \in DOMAIN ops[q] /\ ops'[q][k] = ops[q][k] /\ Opened(q, k)
             /\ q # p \/ k # at[p]
  BY <1>3, <1>5 DEF SameBut, Opened
<1>6. UndoneInsert'
  BY <1>1, <1>5 DEF Good, Files, UndoneInsert
<1>7. ASSUME \A g \in File : tree'[g] \in {tree[g], NoFile} PROVE Files'
  BY <1>5, <1>6, <1>7, FilesShrink DEF Good
<1>8. \A g \in File : tree[g] # NoFile => content[tree[g]] # None /\ Stored(g) # None
  BY Types, TransactionAssumption DEF Good, Stored, Data, Empty, None
<1>9. \A g \in File : head[g] # Empty
  <2> TAKE g \in File
  <2>1. head[g] = None \/ head[g] \in 0..began
    BY DEF Good, Contents, Committed
  <2>2. began \in 0..MaxTransactions /\ MaxTransactions \in Nat
    BY TransactionAssumption DEF Good, Base, Numbers
  <2> QED
    BY <2>1, <2>2 DEF None, Empty
<1>10. \A g \in File : tree[g] = NoFile => index[g] = None /\ head[g] = None
  BY DEF Good, Contents, Absent
<1>11. ASSUME NEW q \in Process, NEW k \in DOMAIN ops[q], Opened(q, k), ops[q][k].file = f,
              Stored(f) = head[f]
       PROVE  content[ops[q][k].inode] # Empty \/ head[f] = None
  <2>1. tree[f] \in {ops[q][k].inode, NoFile}
    BY <1>11, NameOfOpen DEF Good
  <2> QED
    BY <1>9, <1>10, <1>11, <2>1 DEF Stored, Opened
<1>12. ASSUME Op(p).locked
       PROVE  /\ Op(p).kind = "insert" /\ pc[p] = "undo" => head[f] = None
              /\ Op(p).kind = "delete" /\ pc[p] = "undo" => Stored(f) = head[f] \/ Pending(f)
              /\ Op(p).kind = "delete" /\ pc[p] = "done" => head[f] = None
              /\ Op(p).kind # "delete" /\ pc[p] = "done" =>
                     Stored(f) = head[f] /\ tree[f] # NoFile
  <2>1. CASE Op(p).kind = "delete"
    BY <1>2, <1>12, <2>1 DEF HeldOf, DeleteHolds
  <2>2. CASE Op(p).kind # "delete"
    BY <1>2, <1>12, <2>2 DEF HeldOf, WriteHolds, Executed, Stored, Opened
  <2> QED
    BY <2>1, <2>2
<1>13. CASE UNCHANGED <<tree, content, index>> /\ ~Op(p).locked
  <2>1. \A g \in File : Stored(g)' = Stored(g)
    BY <1>13 DEF Stored
  <2>2. \A q \in Process : \A k \in DOMAIN ops'[q] :
            Opened(q, k)' => content'[ops'[q][k].inode] = content[ops'[q][k].inode]
    BY <1>13
  <2>3. Files'
    BY <1>7, <1>13
  <2>4. tree'[f] = NoFile => index'[f] = None /\ head[f] = None
    BY <1>10, <1>13
  <2>5. Contents'
    BY <1>1, <1>2, <1>3, <1>4, <1>13, <2>1, <2>2, <2>4, CloseContents DEF Good
  <2> QED
    BY <2>3, <2>5
\* The name is removed, and the index holds what HEAD does.
<1>14. CASE /\ Op(p).locked /\ Unlink(f) /\ UNCHANGED content
            /\ index' = [index EXCEPT ![f] = None] /\ head[f] = None
            /\ Op(p).kind # "update"
  <2>1. /\ \A g \in File : tree'[g] = IF g = f THEN NoFile ELSE tree[g]
        /\ \A g \in File : index'[g] = IF g = f THEN None ELSE index[g]
    BY <1>14, Types DEF Unlink, Good
  <2>2. /\ \A g \in File : g # f => Stored(g)' = Stored(g)
        /\ Stored(f)' = None
    BY <1>14, <2>1 DEF Stored
  <2>3. Files'
    BY <1>7, <2>1
  <2>4. Contents'
    BY <1>1, <1>2, <1>3, <1>4, <1>14, <2>1, <2>2, CloseContents DEF Good
  <2> QED
    BY <2>3, <2>4
\* The index is reset, if it is not so already; the work tree is as HEAD.
<1>15. CASE /\ Op(p).locked /\ UNCHANGED <<tree, content>>
            /\ index' = [index EXCEPT ![f] = head[f]]
            /\ Stored(f) = head[f] \/ (Pending(f) /\ Op(p).kind # "update")
  <2>1. \A g \in File : index'[g] = IF g = f THEN head[f] ELSE index[g]
    BY <1>15, Types DEF Good
  <2>2. \A g \in File : Stored(g)' = Stored(g)
    BY <1>15 DEF Stored
  <2>3. Files'
    BY <1>7, <1>15
  <2>4. Op(p).kind = "update" =>
            \A q \in Process : \A k \in DOMAIN ops'[q] : Opened(q, k)' /\ ops'[q][k].file = f =>
                content'[ops'[q][k].inode] # Empty \/ head[f] = None
    BY <1>5, <1>11, <1>15
  <2>5. tree'[f] = NoFile => index'[f] = None /\ head[f] = None
    BY <1>10, <1>15, <2>1
  <2>6. \A q \in Process : \A k \in DOMAIN ops'[q] :
            Opened(q, k)' => content'[ops'[q][k].inode] = content[ops'[q][k].inode]
    BY <1>15
  <2>7. \A g \in File : g # f => tree'[g] = tree[g] /\ index'[g] = index[g]
    BY <1>15, <2>1
  <2>8. Op(p).locked /\ ~Pending(f) => Stored(f)' = head[f]
    BY <1>15, <2>2
  <2>9. Contents'
    BY <1>1, <1>2, <1>3, <1>4, <1>15, <2>1, <2>2, <2>4, <2>5, <2>6, <2>7, <2>8, CloseContents
    DEF Good
  <2> QED
    BY <2>3, <2>9
\* The name gets a file as in HEAD.
<1>16. CASE /\ Op(p).locked /\ Room /\ tree' = [tree EXCEPT ![f] = NewInode]
            /\ content' = [content EXCEPT ![NewInode] = head[f]]
            /\ index' = [index EXCEPT ![f] = head[f]]
            /\ Replaced(p, f) = {}
  <2> PICK i \in Inode : i = NewInode /\ Fresh(i)
    BY <1>16, NewInodeIsFresh
  <2>1. /\ \A g \in File : tree'[g] = IF g = f THEN i ELSE tree[g]
        /\ \A g \in File : index'[g] = IF g = f THEN head[f] ELSE index[g]
        /\ \A j \in Inode : content'[j] = IF j = i THEN head[f] ELSE content[j]
        /\ \A g \in File : tree[g] # i
        /\ i # NoFile
    BY <1>16, Types DEF Good, Fresh, Inode, NoFile
  <2>2. \A g \in File : Stored(g)' = IF g = f THEN head[f] ELSE Stored(g)
    BY <2>1, Types DEF Good, Stored
  <2>3. ASSUME NEW q \in Process, NEW k \in DOMAIN ops'[q], Opened(q, k)'
        PROVE  /\ ops'[q][k].file # f
               /\ content'[ops'[q][k].inode] = content[ops'[q][k].inode]
    <3>1. ops'[q][k].file # f /\ ops'[q][k].inode # i
      BY <1>5, <1>16, <2>3 DEF Fresh, Open, Replaced, Opened
    <3> QED
      BY <1>5, <2>1, <2>3, <3>1, NameOfOpen DEF Good
  <2>4. Files'
    <3>1. tree' = [tree EXCEPT ![f] = i]
      BY <1>16
    <3> QED
      BY <1>1, <1>2, <1>3, <1>4, <1>16, <3>1, FilesReplaced DEF Good
  <2>5. Contents'
    BY <1>1, <1>2, <1>3, <1>4, <1>16, <2>1, <2>2, <2>3, CloseContents DEF Good
  <2> QED
    BY <2>4, <2>5
<1>17. CASE Undo(p)
  <2>1. pc[p] = "undo"
    BY <1>17 DEF Undo
  <2>2. CASE ~Op(p).locked
    BY <1>13, <1>17, <2>2 DEF Undo
  <2>3. CASE Op(p).locked /\ Op(p).kind = "insert" /\ rollback_insert(p)
    BY <1>12, <1>14, <2>1, <2>3 DEF rollback_insert
  <2>4. CASE Op(p).locked /\ Op(p).kind = "update" /\ rollback_update(p)
    <3>1. CASE /\ head[f] = None /\ UNCHANGED <<tree, content, index>>
               /\ spoiled' = spoiled \cup (IF Stored(f) # None THEN {"left"} ELSE {})
      <4>1. Stored(f) = None
        BY <3>1
      <4>2. tree[f] = NoFile /\ index[f] = None
        BY <1>8, <1>10, <4>1
      <4>3. index' = [index EXCEPT ![f] = head[f]]
        BY <3>1, <4>2, Types DEF Good
      <4> QED
        BY <1>15, <2>4, <3>1, <4>1, <4>3
    <3>2. CASE /\ Stored(f) # head[f] /\ Room
               /\ Unstage(f)
               /\ tree' = [tree EXCEPT ![f] = NewInode]
               /\ content' = [content EXCEPT ![NewInode] = head[f]]
               /\ spoiled' = spoiled \cup Replaced(p, f)
      BY <1>16, <2>4, <3>2 DEF Unstage
    <3>3. CASE /\ Stored(f) = head[f]
               /\ Unstage(f)
               /\ UNCHANGED <<tree, content, spoiled>>
      BY <1>15, <2>4, <3>3 DEF Unstage
    <3> QED
      BY <2>4, <3>1, <3>2, <3>3 DEF rollback_update
  <2>5. CASE Op(p).locked /\ Op(p).kind = "delete" /\ rollback_delete(p)
    BY <1>12, <1>15, <2>1, <2>5 DEF rollback_delete, Unstage
  <2> QED
    BY <1>2, <1>17, <2>2, <2>3, <2>4, <2>5 DEF Undo, rollback
<1>18. CASE UndoFails(p)
  <2>1. /\ pc[p] = "undo" /\ Op(p).locked /\ UNCHANGED <<content, index>>
        /\ IF Op(p).kind = "insert" THEN Unlink(Op(p).file) ELSE UNCHANGED tree
    BY <1>18 DEF UndoFails, gitVars
  <2>2. index[f] = head[f] /\ (Op(p).kind = "update" => Stored(f) = head[f])
    BY <1>18 DEF UndoFails
  <2>3. index' = [index EXCEPT ![f] = head[f]]
    BY <2>1, <2>2, Types DEF Good
  <2>4. CASE Op(p).kind = "insert"
    BY <1>12, <1>14, <2>1, <2>2, <2>3, <2>4
  <2>5. CASE Op(p).kind # "insert"
    BY <1>2, <1>12, <1>15, <2>1, <2>2, <2>3, <2>5
  <2> QED
    BY <2>4, <2>5
<1>19. CASE Release(p)
  <2>1. /\ pc[p] = "done" /\ UNCHANGED <<content, index>>
        /\ IF Op(p).kind = "delete" THEN Unlink(Op(p).file) ELSE UNCHANGED tree
    BY <1>19 DEF Release, gitVars
  <2>2. Op(p).locked
    <3>1. at[p] <= at[p]
      BY <1>2, Lists DEF Good, Base
    <3> QED
      BY <1>2, <2>1, <3>1, AtOperation DEF HandleOf, Good
  <2>3. index[f] = head[f]
    <3>1. git = p
      BY <2>1 DEF Good, Base, Control, ControlOf
    <3> QED
      BY <2>1, <3>1 DEF Good, Contents, Staged
  <2>4. index' = [index EXCEPT ![f] = head[f]]
    BY <2>1, <2>3, Types DEF Good
  <2>5. CASE Op(p).kind = "delete"
    BY <1>12, <1>14, <2>1, <2>2, <2>4, <2>5
  <2>6. CASE Op(p).kind # "delete"
    BY <1>12, <1>15, <2>1, <2>2, <2>4, <2>6
  <2> QED
    BY <2>5, <2>6
<1> QED
  BY <1>17, <1>18, <1>19

-----------------------------------------------------------------------------
(* The invariant, and what follows from it. *)

LEMMA InitGood == Init => Files /\ Contents
<1> SUFFICES ASSUME Init PROVE Files /\ Contents
  OBVIOUS
<1>1. PICK there \in SUBSET File :
          tree = [f \in File |-> IF f \in there THEN InodeOf[f] ELSE NoFile]
  BY DEF Init
<1>2. /\ ops = [p \in Process |-> <<>>] /\ aborted = {} /\ began = 0 /\ head = index
      /\ content = [i \in Inode |-> Old] /\ number = [p \in Process |-> 0]
      /\ pc = [p \in Process |-> "idle"]
      /\ index = [f \in File |-> IF tree[f] = NoFile THEN None ELSE Old]
  BY DEF Init
<1>3. \A p \in Process : ~\E k \in DOMAIN ops[p] : TRUE
  BY <1>2
<1>4. Files
  <2>1. OneName
    BY <1>1, InodesOfFiles DEF OneName
  <2> QED
    BY <1>3, <2>1 DEF Files, OneFile, Named, OneLock, UndoneInsert
<1>5. Absent /\ Staged /\ Held /\ EmptyFile
  BY <1>2, <1>3 DEF Absent, Staged, Held, EmptyFile
<1>6. Settled
  <2>1. \A f \in File : tree[f] # NoFile => content[tree[f]] = Old
    BY <1>1, <1>2, InodesOfFiles
  <2> QED
    BY <1>2, <2>1 DEF Settled, Stored
<1>7. Committed
  BY <1>2 DEF Committed, Old
<1> QED
  BY <1>4, <1>5, <1>6, <1>7 DEF Contents

LEMMA SpoiledStays ==
    ASSUME NEW p \in Process, Begin(p) \/ Step(p), spoiled' = {}
    PROVE  spoiled = {}
<1>1. Undo(p) => spoiled \subseteq spoiled'
  BY DEF Undo, rollback, rollback_insert, rollback_update, rollback_delete
<1>2. OpenFile(p) \/ LockFile(p) \/ UndoFails(p) => spoiled \subseteq spoiled'
  BY DEF OpenFile, LockFile, UndoFails
<1> QED
  BY <1>1, <1>2 DEF Step, Begin, Execute, ExecuteFails, FunctionDies, LockGit,
                    LockGitFails, Add, Rm, CommitGit, GitFails, Release, Return

Inv == Base /\ (spoiled = {} => Files /\ Contents)

LEMMA NextInv == Inv /\ [Next]_vars => Inv'
<1> SUFFICES ASSUME Inv, [Next]_vars PROVE Inv'
  OBVIOUS
<1>1. Base'
  BY NextBase DEF Inv
<1>2. SUFFICES ASSUME spoiled' = {} PROVE Files' /\ Contents'
  BY <1>1 DEF Inv
<1>3. CASE UNCHANGED vars
  BY <1>2, <1>3 DEF vars, gitVars, Inv, Files, OneFile, Named, OneName, OneLock, UndoneInsert, Opened,
     Contents, Absent, Staged, Held, HeldOf, DeleteHolds, WriteHolds, Executed, Pending, InUse,
     Settled, Stored, EmptyFile, EmptyOf, Committed
<1>4. ASSUME NEW p \in Process, Begin(p) \/ Step(p) PROVE Files' /\ Contents'
  <2>1. Good
    BY <1>2, <1>4, SpoiledStays DEF Inv, Good
  <2> QED
    BY <1>1, <1>2, <1>4, <2>1, BeginGood, OpenFileGood, LockFileGood, ExecuteGood, FaultGood,
       CommitGood, CloseGood, ReturnGood
    DEF Step
<1> QED
  BY <1>3, <1>4 DEF Next

LEMMA Invariant == Spec => []Inv
<1>1. Init => Inv
  BY InitBase, InitGood DEF Inv
<1> QED
  BY <1>1, NextInv, PTL DEF Spec

\* Until something is spoiled: while nobody uses a file, git's last commit, its index and
\* the work tree agree about it.
THEOREM FilesAgree == Spec => []Agree
<1>1. Inv => Agree
  <2> SUFFICES ASSUME Inv, spoiled = {}, NEW f \in File,
                      \A p \in Process : \A k \in DOMAIN ops[p] : FileOf(p, k) # f
               PROVE  index[f] = head[f] /\ head[f] = Stored(f)
    BY DEF Agree
  <2>1. ~InUse(f) /\ ~Pending(f)
    BY DEF InUse, Pending, FileOf
  <2> QED
    BY <2>1 DEF Inv, Contents, Staged, Settled, FileOf
<1> QED
  BY <1>1, Invariant, PTL

\* Until something is spoiled, no commit holds anything that a failed transaction has written.
THEOREM FailedNotCommitted == Spec => []AbortedGone
<1>1. Inv => AbortedGone
  BY DEF Inv, AbortedGone, Contents, Committed
<1> QED
  BY <1>1, Invariant, PTL

\* Until something is spoiled, a commit takes the operations of its own transaction to
\* HEAD, and nothing else.
THEOREM OwnCommitted == Spec => CommitsOwn
<1> DEFINE Own == spoiled = {} /\ head' # head =>
        \E p \in Process :
            /\ pc[p] = "commit" /\ pc'[p] = "done"
            /\ \A f \in File :
                  \/ /\ \E k \in Writes(p) : FileOf(p, k) = f
                     /\ head'[f] = number[p]
                  \/ /\ \E k \in Deletes(p) : FileOf(p, k) = f
                     /\ head'[f] = None
                  \/ /\ \A k \in DOMAIN ops[p] : FileOf(p, k) # f
                     /\ head'[f] = head[f]
<1>1. Inv /\ [Next]_vars => [Own]_vars
  <2> SUFFICES ASSUME Inv, Next, spoiled = {}, head' # head PROVE Own
    BY DEF vars, gitVars
  <2>1. PICK p \in Process : Begin(p) \/ Step(p)
    BY DEF Next
  <2>2. CommitGit(p) /\ head' = index
    BY <2>1 DEF Begin, Step, OpenFile, LockFile, Execute, ExecuteFails, FunctionDies, LockGit,
       LockGitFails, Add, Rm, CommitGit, GitFails, Undo, UndoFails, Release, Return, gitVars
  <2>3. pc[p] = "commit" /\ pc'[p] = "done"
    BY <2>2 DEF CommitGit, Goto, Inv, Base, TypeOK
  <2>4. ASSUME NEW f \in File
        PROVE  \/ /\ \E k \in Writes(p) : FileOf(p, k) = f
                  /\ head'[f] = number[p]
               \/ /\ \E k \in Deletes(p) : FileOf(p, k) = f
                  /\ head'[f] = None
               \/ /\ \A k \in DOMAIN ops[p] : FileOf(p, k) # f
                  /\ head'[f] = head[f]
    <3>1. CASE \E k \in DOMAIN ops[p] : ops[p][k].file = f
      <4>1. PICK k \in DOMAIN ops[p] : ops[p][k].file = f
        BY <3>1
      <4>2. index[f] = IF ops[p][k].kind = "delete" THEN None ELSE number[p]
        BY <2>3, <4>1, CommitOwn DEF Inv
      <4> QED
        BY <2>2, <4>1, <4>2 DEF Writes, Deletes, FileOf
    <3>2. CASE \A k \in DOMAIN ops[p] : ops[p][k].file # f
      <4>1. index[f] = head[f]
        BY <2>3, <3>2, CommitOwn DEF Inv
      <4> QED
        BY <2>2, <3>2, <4>1 DEF FileOf
    <3> QED
      BY <3>1, <3>2
  <2> QED
    BY <2>3, <2>4
<1> QED
  BY <1>1, Invariant, PTL DEF Spec, CommitsOwn
=============================================================================
