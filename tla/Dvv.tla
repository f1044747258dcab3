-------------------------------- MODULE Dvv --------------------------------
(***************************************************************************)
(* One row of a table under the triggers of mysql-dvv/dvv-triggers.sql, on *)
(* a full mesh of MySQL masters with asynchronous statement replication.   *)
(*                                                                         *)
(* A statement is executed on the server a client speaks to and logged;    *)
(* every other server executes the SAME statement later, with the clock    *)
(* literal the client wrote into it, and the trigger decides there anew    *)
(* what it does to the row.  The value a write stores is named by the      *)
(* write: <<o, i>> is the i-th transaction that originated at server o.    *)
(***************************************************************************)
EXTENDS VersionVectors, Integers, Sequences

CONSTANTS
    Client,        \* sessions of the data access layer
    Roaming,       \* may a clock read from one server be written to another?
    Deletes,       \* the deletions clients issue: "soft" (an UPDATE), "hard", and
                   \* "siblings" (a DELETE of all sibling rows)
    MaxWrites      \* bound: statements that clients commit on the row

ASSUME ClientAssumption == Roaming \in BOOLEAN /\ Deletes \subseteq {"soft", "hard", "siblings"}
ASSUME BoundAssumption == MaxWrites \in Nat

VARIABLES
    row,        \* SomeTable's row on each server, NoRow if there is none
    sibling,    \* SomeTable__sibling's rows on each server
    log,        \* the transactions that originated at each server
    executed,   \* gtid_executed: how many of each origin's a server has run
    session,    \* what each client has read and not yet written back
    purge       \* the DELETE of all sibling rows and the servers it has not reached

vars == <<row, sibling, log, executed, session, purge>>
-----------------------------------------------------------------------------
(* Values *)

Write == Server \X (Nat \ {0})

Clock == [hasSibling : BOOLEAN, vv : Vector, dot : Vector, dirty : BOOLEAN]

\* A column the INSERT leaves out, and the clock of statements without one.
NullClock == [hasSibling |-> FALSE, vv |-> Empty, dot |-> Empty, dirty |-> FALSE]

Row == [write : Write, deleted : BOOLEAN, clock : Clock]
NoRow == [write |-> <<>>]

(* A logged transaction.  "seen" is gtid_executed of the origin when it ran,
   "read" is history: the writes its client knew of when it wrote. *)
Transaction == [kind : {"insert", "update", "delete"}, deleted : BOOLEAN,
                clock : Clock, seen : Vector, read : SUBSET Write]

NoSession == [step |-> "none"]
Session == {NoSession} \cup
           [step : {"row", "merged"}, at : Server, clock : Clock, read : SUBSET Write]

(* "seen" is gtid_executed of the origin when the statement ran, Empty before;
   "lost" is history: the live siblings that it removed elsewhere. *)
Purge == [seen : Vector, left : SUBSET Server, lost : SUBSET Write]

TypeOK ==
    /\ row \in [Server -> Row \cup {NoRow}]
    /\ sibling \in [Server -> SUBSET Row]
    /\ log \in [Server -> Seq(Transaction)]
    /\ executed \in [Server -> Vector]
    /\ session \in [Client -> Session]
    /\ purge \in Purge

Transact(w) == log[w[1]][w[2]]
-----------------------------------------------------------------------------
(* The triggers, as functions of OLD, NEW and the origin of the statement *)

\* SomeTable__initLogicalClock
initLogicalClock(source) == [NullClock EXCEPT !.vv = Dot(source, 1)]

\* The schema checks: "format" and the JSON types are left out, what a client
\* can forget (the whole clock, hence "dirty") is not.
Valid(new) == new.dirty /\ Members(new.vv) # {}

\* Fault: only the flag is looked at, a stale clock passes.
MustReconcile_flagOnly(old, new) == new.hasSibling

\* On the master: the writer must have read all that the row contains.
MustReconcile(old, new) == new.hasSibling \/ ~vv_descend(new.vv, old.vv)

\* On a slave: was the statement written in ignorance of the row it meets?
Concurrent(old, new) == ~vv_descend(new.vv, old.vv)

\* Fault: the vector of a conflicting statement replaces the row's.
FinalClock_unmerged(old, new, hasSibling, source) ==
    [hasSibling |-> hasSibling, vv |-> vv_increment(new.vv, source),
     dot |-> Dot(source, new.vv[source] + 1), dirty |-> FALSE]

\* Fault: a superfluous dot is set to null, not removed.
FinalClock_nullDot(old, new, hasSibling, source) ==
    [hasSibling |-> hasSibling, vv |-> vv_increment(new.vv, source),
     dot |-> <<>>, dirty |-> FALSE]

\* The clock finally stored, "dirty" removed.
FinalClock(old, new, hasSibling, source) ==
    LET vv == IF hasSibling THEN vv_increment(vv_merge(old.vv, new.vv), source)
                            ELSE vv_increment(new.vv, source)
    IN  [hasSibling |-> hasSibling,
         vv         |-> vv,
         dot        |-> IF Cardinality(Members(vv)) > 1 THEN Dot(source, vv[source])
                                                        ELSE Empty,
         dirty      |-> FALSE]

\* UPDATE SomeTable__sibling SET deleted = TRUE for some of the rows.
MarkDeleted(rows, some) == (rows \ some) \cup {[r EXCEPT !.deleted = TRUE] : r \in some}

\* The sibling rows whose dot vv contains.
Covered(rows, vv) == {r \in rows : vv_descend(vv, vv_dot(r.clock))}

\* Fault: whole vectors, not dots, decide what a statement supersedes.
SiblingsOnSlave_wholeVector(rows, oldRow, new) ==
    IF Concurrent(oldRow.clock, new)
    THEN MarkDeleted(rows, {r \in rows : vv_descend(new.vv, r.clock.vv)}) \cup {oldRow}
    ELSE MarkDeleted(rows, rows)

\* Fault: a statement that covers the row leaves its siblings as they are.
SiblingsOnSlave_unmarked(rows, oldRow, new) ==
    IF ~Concurrent(oldRow.clock, new) THEN rows
    ELSE MarkDeleted(rows, Covered(rows, new.vv))
         \cup (IF vv_descend(new.vv, vv_dot(oldRow.clock)) THEN {} ELSE {oldRow})

\* The sibling table after SomeTable__reconcile ran on a slave.
SiblingsOnSlave(rows, oldRow, new) ==
    IF Concurrent(oldRow.clock, new)
    THEN LET kept == IF oldRow.clock.hasSibling
                     THEN MarkDeleted(rows, Covered(rows, new.vv)) ELSE rows
         IN  IF vv_descend(new.vv, vv_dot(oldRow.clock)) THEN kept
                                                         ELSE kept \cup {oldRow}
    ELSE IF oldRow.clock.hasSibling THEN MarkDeleted(rows, rows) ELSE rows
-----------------------------------------------------------------------------
Init ==
    /\ row = [s \in Server |-> NoRow]
    /\ sibling = [s \in Server |-> {}]
    /\ log = [s \in Server |-> <<>>]
    /\ executed = [s \in Server |-> Empty]
    /\ session = [c \in Client |-> NoSession]
    /\ purge = [seen |-> Empty, left |-> {}, lost |-> {}]

AllWrites == UNION {{o} \X DOMAIN log[o] : o \in Server}

\* The statement a client has run on s is logged there with the next GTID.
Commit(s, kind, deleted, clock, read) ==
    /\ Cardinality(AllWrites) < MaxWrites
    /\ log' = [log EXCEPT ![s] = Append(@, [kind |-> kind, deleted |-> deleted,
                                            clock |-> clock, seen |-> executed[s],
                                            read |-> read])]
    /\ executed' = [executed EXCEPT ![s] = vv_increment(@, s)]
    /\ UNCHANGED purge

NextWrite(s) == <<s, Len(log[s]) + 1>>

(* INSERT without a clock.  The auto_increment_offset of each server keeps two
   servers from inserting the same id, so a row is inserted once. *)
Insert(s) ==
    /\ \A o \in Server : log[o] = <<>>
    /\ Commit(s, "insert", FALSE, NullClock, {})
    /\ row' = [row EXCEPT ![s] = [write |-> NextWrite(s), deleted |-> FALSE,
                                  clock |-> initLogicalClock(s)]]
    /\ UNCHANGED <<sibling, session>>

\* A client that reads write w knows what the writer of w knew.
Known(w) == {w} \cup Transact(w).read

\* SELECT ... FROM SomeTable WHERE id = .. AND deleted IS FALSE
Read(c, s) ==
    /\ session[c] = NoSession
    /\ row[s] # NoRow
    /\ ~row[s].deleted
    /\ session' = [session EXCEPT ![c] = [step |-> "row", at |-> s,
                                          clock |-> row[s].clock,
                                          read |-> Known(row[s].write)]]
    /\ UNCHANGED <<row, sibling, log, executed, purge>>

LiveSiblings(s) == {r \in sibling[s] : ~r.deleted}

(* RECONCILE: SELECT ... FROM SomeTable__sibling WHERE .. AND deleted IS FALSE,
   a later statement than Read; "hasSibling" of the clock from step 1 is set
   to false for the UPDATE to come. *)
ReadSiblings(c) ==
    /\ session[c].step = "row"
    /\ session[c].clock.hasSibling
    /\ session' = [session EXCEPT
                       ![c].step = "merged",
                       ![c].clock.hasSibling = FALSE,
                       ![c].read = @ \cup UNION {Known(r.write) :
                                                 r \in LiveSiblings(session[c].at)}]
    /\ UNCHANGED <<row, sibling, log, executed, purge>>

\* The session ends: nothing is written back.
Abandon(c) ==
    /\ session[c] # NoSession
    /\ session' = [session EXCEPT ![c] = NoSession]
    /\ UNCHANGED <<row, sibling, log, executed, purge>>

\* The clock of the UPDATE clause: the one read, marked dirty; if the client
\* left the column out, NEW.logicalClock is the row's own.
UpdateClock(c, s, forgotten) ==
    IF forgotten THEN row[s].clock ELSE [session[c].clock EXCEPT !.dirty = TRUE]

(* UPDATE on the server a client speaks to: SomeTable__reconcile "on master".
   "deleted" is the soft deletion. *)
Update(c, s) ==
    /\ session[c] # NoSession
    /\ Roaming \/ session[c].at = s
    /\ row[s] # NoRow
    /\ \E deleted, forgotten \in BOOLEAN :
         /\ deleted => "soft" \in Deletes
         /\ LET old == row[s].clock
                new == UpdateClock(c, s, forgotten)
            IN  /\ Valid(new)
                /\ ~MustReconcile(old, new)
                /\ Commit(s, "update", deleted, new, session[c].read)
                /\ row' = [row EXCEPT
                             ![s] = [write |-> NextWrite(s), deleted |-> deleted,
                                     clock |-> FinalClock(old, new, FALSE, s)]]
                /\ sibling' = [sibling EXCEPT
                                 ![s] = IF old.hasSibling
                                        THEN MarkDeleted(@, @) ELSE @]
    /\ session' = [session EXCEPT ![c] = NoSession]

(* DELETE on the master: only of a row that is soft-deleted. *)
HardDelete(s) ==
    /\ "hard" \in Deletes
    /\ row[s] # NoRow
    /\ row[s].deleted
    /\ Commit(s, "delete", TRUE, NullClock, {})
    /\ row' = [row EXCEPT ![s] = NoRow]
    /\ UNCHANGED <<sibling, session>>

(* DELETE FROM SomeTable__sibling WHERE deleted IS TRUE.  Each server runs it
   at a moment of its own, so its GTID need not be followed. *)
PurgeSiblings(s) ==
    /\ \E r \in sibling[s] : r.deleted
    /\ sibling' = [sibling EXCEPT ![s] = LiveSiblings(s)]
    /\ UNCHANGED <<row, log, executed, session, purge>>

(* DELETE FROM SomeTable__sibling, without a condition: the trigger lets it pass
   if every row it meets on its origin is marked.  Bound: one such statement,
   on a server that has executed something. *)
PurgeAll(s) ==
    /\ "siblings" \in Deletes
    /\ purge.seen = Empty /\ executed[s] # Empty
    /\ LiveSiblings(s) = {}
    /\ sibling' = [sibling EXCEPT ![s] = {}]
    /\ purge' = [purge EXCEPT !.seen = executed[s], !.left = Server \ {s}]
    /\ UNCHANGED <<row, log, executed, session>>

(* The same statement on a slave, after what its origin had executed: the trigger
   looks at no row there.  (Later statements of the origin may overtake it here,
   which the binary log would not let them: a few more interleavings.) *)
ReplicatePurge(s) ==
    /\ s \in purge.left
    /\ vv_descend(executed[s], purge.seen)
    /\ sibling' = [sibling EXCEPT ![s] = {}]
    /\ purge' = [purge EXCEPT !.left = @ \ {s},
                              !.lost = @ \cup {r.write : r \in LiveSiblings(s)}]
    /\ UNCHANGED <<row, log, executed, session>>
-----------------------------------------------------------------------------
(* Replication.  A channel delivers the binary log of a server in its order,
   which begins with what that server had executed itself (log-slave-updates,
   MASTER_AUTO_POSITION), and a GTID is executed once: a transaction arrives
   after those of its origin and those its origin had seen. *)
Ready(s, o) ==
    /\ executed[s][o] < Len(log[o])
    /\ vv_descend(executed[s], log[o][executed[s][o] + 1].seen)

ApplyInsert(s, o, w) ==
    /\ row' = [row EXCEPT ![s] = [write |-> w, deleted |-> FALSE,
                                  clock |-> initLogicalClock(o)]]
    /\ UNCHANGED sibling

\* Fault: the conflict is signalled on the slave too, and its SQL thread stops.
ApplyUpdate_refused(s, o, w, t) ==
    /\ row[s] # NoRow /\ ~MustReconcile(row[s].clock, t.clock)
    /\ row' = [row EXCEPT ![s] = [write |-> w, deleted |-> t.deleted,
                                  clock |-> FinalClock(row[s].clock, t.clock, FALSE, o)]]
    /\ UNCHANGED sibling

\* SomeTable__reconcile "on slave"; the UPDATE matches no row if it was deleted.
ApplyUpdate(s, o, w, t) ==
    IF row[s] = NoRow THEN UNCHANGED <<row, sibling>>
    ELSE LET old == row[s].clock
         IN  /\ Valid(t.clock)
             /\ row' = [row EXCEPT ![s] =
                          [write |-> w, deleted |-> t.deleted,
                           clock |-> FinalClock(old, t.clock, Concurrent(old, t.clock), o)]]
             /\ sibling' = [sibling EXCEPT ![s] = SiblingsOnSlave(@, row[s], t.clock)]

\* SomeTable__protect_deletion lets every replicated DELETE pass.
ApplyDelete(s) ==
    /\ row' = [row EXCEPT ![s] = NoRow]
    /\ UNCHANGED sibling

Replicate(s, o) ==
    /\ s # o
    /\ Ready(s, o)
    /\ LET w == <<o, executed[s][o] + 1>>
           t == Transact(w)
       IN  \/ t.kind = "insert" /\ ApplyInsert(s, o, w)
           \/ t.kind = "update" /\ ApplyUpdate(s, o, w, t)
           \/ t.kind = "delete" /\ ApplyDelete(s)
    /\ executed' = [executed EXCEPT ![s] = vv_increment(@, o)]
    /\ UNCHANGED <<log, session, purge>>

Next ==
    \/ \E s \in Server : Insert(s) \/ HardDelete(s)
    \/ \E s \in Server : PurgeSiblings(s) \/ PurgeAll(s) \/ ReplicatePurge(s)
    \/ \E c \in Client, s \in Server : Read(c, s) \/ Update(c, s)
    \/ \E c \in Client : ReadSiblings(c) \/ Abandon(c)
    \/ \E s, o \in Server : Replicate(s, o)

Spec == Init /\ [][Next]_vars

\* Every slave's SQL thread keeps running; clients promise nothing.
FairSpec == Spec /\ \A s, o \in Server : WF_vars(Replicate(s, o))
-----------------------------------------------------------------------------
(* Properties *)

\* The writes a server has executed.
Executed(s) == {w \in AllWrites : w[2] <= executed[s][w[1]]}

\* What the tables of s hold: the row and the siblings that are not deleted.
Found(s) == ({row[s]} \ {NoRow}) \cup LiveSiblings(s)
Values(s) == {r.write : r \in {x \in Found(s) : ~x.deleted}}

(* What a client that follows README.md:63-67 and 102-103 is offered by s: no
   siblings unless the row it selects, which is not deleted, announces them. *)
Offered(s) ==
    IF row[s] = NoRow \/ row[s].deleted THEN {}
    ELSE {row[s].write}
         \cup (IF row[s].clock.hasSibling THEN {r.write : r \in LiveSiblings(s)} ELSE {})

\* The writes that a later writer, among those s executed, knew of.
ReadLater(s) == UNION {Transact(x).read : x \in Executed(s)}

(* While clients write where they read, the counters a row carries are exactly
   gtid_executed: the trigger that re-runs a statement on a slave arrives at
   the counter its origin stored, so no two writes share a dot. *)
CountersAreGtids ==
    ~Roaming => \A s \in Server : row[s] # NoRow => row[s].clock.vv = executed[s]

(* "avoid silent data loss" (README.md:6) as a reader may take it: a write that
   a server executed, that is no deletion and that no later writer knew of, is
   offered there to whoever reads. *)
NoSilentLoss ==
    \A s \in Server : \A w \in Executed(s) :
        Transact(w).deleted \/ w \in Offered(s) \/ w \in ReadLater(s)

(* What is true of it: only deletions hide such a write.  Its row was deleted
   for good, or it lies as a sibling behind a row that is softly deleted, or a
   DELETE of all sibling rows removed it from some server. *)
OnlyDeletionsLose ==
    \A s \in Server : \A w \in Executed(s) :
        \/ Transact(w).deleted \/ w \in Offered(s) \/ w \in ReadLater(s)
        \/ \E x \in Executed(s) : Transact(x).kind = "delete"
        \/ row[s] # NoRow /\ row[s].deleted /\ w \in Values(s)
        \/ w \in purge.lost

(* No conflict is invented: of two values found side by side on a server,
   neither was written in knowledge of the other. *)
NoFalseConflict ==
    \A s \in Server : row[s] # NoRow =>
        \A a, b \in Found(s) : a.write \notin Transact(b.write).read

(* The clock of a row says that there are siblings whenever there is one that is
   live.  Whoever reads that clock learns of them; the readers of README.md:63
   never read the clock of a row that is deleted. *)
SiblingsAnnounced ==
    \A s \in Server :
        row[s] # NoRow /\ LiveSiblings(s) # {} => row[s].clock.hasSibling

(* Two servers that have executed the same transactions, in whatever order, hold
   the same values, in the row or as siblings, under the same version vector,
   but for what a DELETE of all sibling rows removed.  Which value is in the row
   depends on the order, so one of them may be a tombstone that hides the rest
   from readers where the other is not; if both are live, readers are offered
   the same. *)
Convergence ==
    \A s, o \in Server :
        executed[s] = executed[o] /\ row[s] # NoRow /\ row[o] # NoRow =>
            /\ Values(s) \ purge.lost = Values(o) \ purge.lost
            /\ row[s].clock.vv = row[o].clock.vv
            /\ row[s].deleted = row[o].deleted =>
                   Offered(s) \ purge.lost = Offered(o) \ purge.lost

(* The version vector of a row never loses a counter: the conflict test of a
   stale UPDATE relies on it. *)
CountersGrow ==
    [][\A s \in Server : row[s] # NoRow /\ row'[s] # NoRow =>
           vv_descend(row'[s].clock.vv, row[s].clock.vv)]_vars

(* Replication never stops at a statement the trigger refuses: what was
   committed anywhere is executed everywhere. *)
EverythingReplicated ==
    \A o \in Server : \A i \in 1 .. MaxWrites :
        Len(log[o]) >= i ~> \A s \in Server : executed[s][o] >= i
=============================================================================
