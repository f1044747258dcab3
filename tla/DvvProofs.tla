----------------------------- MODULE DvvProofs -----------------------------
(***************************************************************************)
(* Theorems about Dvv, for every set of servers and clients, any number of *)
(* writes and either behaviour of the clients.                             *)
(***************************************************************************)
EXTENDS Dvv, TLAPS

-----------------------------------------------------------------------------
(* Version vectors *)

LEMMA EmptyType == Empty \in Vector
  BY DEF Empty, Vector

\* vv_increment adds one to one counter (dvv-functions.sql:79-89).
LEMMA IncrementFact ==
  ASSUME NEW v \in Vector, NEW o \in Server
  PROVE  /\ vv_increment(v, o) \in Vector
         /\ \A p \in Server : vv_increment(v, o)[p] = IF p = o THEN v[p] + 1 ELSE v[p]
         /\ vv_descend(vv_increment(v, o), v)
  BY DEF vv_increment, vv_descend, Vector

LEMMA DotFact ==
  ASSUME NEW o \in Server, NEW n \in Nat
  PROVE  Dot(o, n) \in Vector
  BY DEF Dot, Empty, Vector

\* vv_merge is an upper bound of both vectors (dvv-functions.sql:50-77).
LEMMA MergeFact ==
  ASSUME NEW v1 \in Vector, NEW v2 \in Vector
  PROVE  /\ vv_merge(v1, v2) \in Vector
         /\ vv_descend(vv_merge(v1, v2), v1)
         /\ vv_descend(vv_merge(v1, v2), v2)
  BY DEF vv_merge, vv_descend, Vector

\* vv_descend is a partial order (dvv-functions.sql:20-48).
LEMMA DescendAntisymmetric ==
  ASSUME NEW v1 \in Vector, NEW v2 \in Vector,
         vv_descend(v1, v2), vv_descend(v2, v1)
  PROVE  v1 = v2
  <1>1. \A o \in Server : v1[o] = v2[o]
    BY DEF vv_descend, Vector
  <1> QED BY <1>1 DEF Vector

LEMMA DescendTransitive ==
  ASSUME NEW v1 \in Vector, NEW v2 \in Vector, NEW v3 \in Vector,
         vv_descend(v1, v2), vv_descend(v2, v3)
  PROVE  vv_descend(v1, v3)
  BY DEF vv_descend, Vector

LEMMA MergeOfCovered ==
  ASSUME NEW v1 \in Vector, NEW v2 \in Vector, vv_descend(v1, v2)
  PROVE  vv_merge(v1, v2) = v1
  BY DEF vv_merge, vv_descend, Vector

\* The clock the trigger stores is a clock whose vector covers the old one.
LEMMA FinalClockFact ==
  ASSUME NEW old \in Clock, NEW new \in Clock, NEW h \in BOOLEAN, NEW o \in Server
  PROVE  /\ FinalClock(old, new, h, o) \in Clock
         /\ FinalClock(old, new, h, o).vv =
              IF h THEN vv_increment(vv_merge(old.vv, new.vv), o)
                   ELSE vv_increment(new.vv, o)
         /\ h \/ vv_descend(new.vv, old.vv) =>
              vv_descend(FinalClock(old, new, h, o).vv, old.vv)
  <1> DEFINE m == vv_merge(old.vv, new.vv)
             vv == IF h THEN vv_increment(m, o) ELSE vv_increment(new.vv, o)
  <1>1. old.vv \in Vector /\ new.vv \in Vector /\ m \in Vector
    BY MergeFact DEF Clock
  <1>2. vv \in Vector
    BY <1>1, IncrementFact
  <1>3. Dot(o, vv[o]) \in Vector
    BY <1>2, DotFact DEF Vector
  <1>4. FinalClock(old, new, h, o) \in Clock /\ FinalClock(old, new, h, o).vv = vv
    BY <1>2, <1>3, EmptyType DEF FinalClock, Clock
  <1>5. ASSUME h \/ vv_descend(new.vv, old.vv)
        PROVE  vv_descend(vv, old.vv)
    <2>1. CASE h
      <3>1. vv_descend(m, old.vv) /\ vv_descend(vv_increment(m, o), m)
        BY <1>1, MergeFact, IncrementFact
      <3>2. vv_descend(vv_increment(m, o), old.vv)
        BY <1>1, <3>1, IncrementFact, DescendTransitive
      <3> QED BY <2>1, <3>2
    <2>2. CASE ~h
      <3>1. vv_descend(new.vv, old.vv) /\ vv_descend(vv_increment(new.vv, o), new.vv)
        BY <2>2, <1>1, <1>5, IncrementFact
      <3>2. vv_descend(vv_increment(new.vv, o), old.vv)
        BY <1>1, <3>1, IncrementFact, DescendTransitive
      <3> QED BY <2>2, <3>2
    <2> QED BY <2>1, <2>2
  <1> QED BY <1>4, <1>5
-----------------------------------------------------------------------------
(* Types, and what every row and sibling names: a write that was logged. *)

Logged ==
  /\ \A s, o \in Server : executed[s][o] <= Len(log[o])
  /\ \A s \in Server : executed[s][s] = Len(log[s])
  /\ \A s \in Server : row[s] # NoRow => row[s].write[2] \in DOMAIN log[row[s].write[1]]
  /\ \A s \in Server : \A r \in sibling[s] : r.write[2] \in DOMAIN log[r.write[1]]

LEMMA RowIsNotNoRow == ASSUME NEW r \in Row PROVE r # NoRow
  <1>1. r.write \in Write /\ NoRow.write = <<>>
    BY DEF Row, NoRow
  <1>2. <<>> \notin Write
    BY DEF Write
  <1> QED BY <1>1, <1>2

LEMMA MarkDeletedType ==
  ASSUME NEW rows \in SUBSET Row, NEW some \in SUBSET rows
  PROVE  /\ MarkDeleted(rows, some) \in SUBSET Row
         /\ \A r \in MarkDeleted(rows, some) : \E q \in rows : r.write = q.write
  BY DEF MarkDeleted, Row

LEMMA SiblingsOnSlaveType ==
  ASSUME NEW rows \in SUBSET Row, NEW old \in Row, NEW new \in Clock
  PROVE  /\ SiblingsOnSlave(rows, old, new) \in SUBSET Row
         /\ \A r \in SiblingsOnSlave(rows, old, new) :
               \E q \in rows \cup {old} : r.write = q.write
  <1>1. Covered(rows, new.vv) \in SUBSET rows
    BY DEF Covered
  <1> QED BY <1>1, MarkDeletedType DEF SiblingsOnSlave

\* What Commit does to the log and to gtid_executed.
LEMMA CommitFact ==
  ASSUME TypeOK, Logged, NEW s \in Server, NEW kind, NEW deleted, NEW clock, NEW read,
         Commit(s, kind, deleted, clock, read),
         [kind |-> kind, deleted |-> deleted, clock |-> clock, seen |-> executed[s],
          read |-> read] \in Transaction
  PROVE  /\ log' \in [Server -> Seq(Transaction)]
         /\ executed' \in [Server -> Vector]
         /\ \A p \in Server : DOMAIN log[p] \subseteq DOMAIN log'[p]
         /\ \A p \in Server : \A i \in DOMAIN log[p] : log'[p][i] = log[p][i]
         /\ \A p \in Server : p # s => log'[p] = log[p]
         /\ Len(log'[s]) = Len(log[s]) + 1
         /\ DOMAIN log'[s] = DOMAIN log[s] \cup {Len(log[s]) + 1}
         /\ log'[s][Len(log[s]) + 1] =
              [kind |-> kind, deleted |-> deleted, clock |-> clock,
               seen |-> executed[s], read |-> read]
         /\ NextWrite(s) \in Write
         /\ NextWrite(s)[1] = s /\ NextWrite(s)[2] = Len(log[s]) + 1
         /\ NextWrite(s)[2] \in DOMAIN log'[NextWrite(s)[1]]
         /\ \A q, o \in Server : executed'[q][o] =
              IF q = s /\ o = s THEN executed[s][s] + 1 ELSE executed[q][o]
         /\ \A q, o \in Server : executed'[q][o] <= Len(log'[o])
         /\ \A q \in Server : executed'[q][q] = Len(log'[q])
         /\ purge' = purge
  <1> DEFINE t == [kind |-> kind, deleted |-> deleted, clock |-> clock,
                   seen |-> executed[s], read |-> read]
  <1>1. /\ log \in [Server -> Seq(Transaction)] /\ executed \in [Server -> Vector]
        /\ log' = [log EXCEPT ![s] = Append(@, t)]
        /\ executed' = [executed EXCEPT ![s] = vv_increment(@, s)]
        /\ t \in Transaction
    BY DEF TypeOK, Commit
  <1>2. executed[s] \in Vector
    BY <1>1
  <1>3. executed' \in [Server -> Vector]
    BY <1>1, <1>2, IncrementFact
  <1>4. \A q, o \in Server : executed'[q][o] =
              IF q = s /\ o = s THEN executed[s][s] + 1 ELSE executed[q][o]
    BY <1>1, <1>2, IncrementFact
  <1>5. /\ log' \in [Server -> Seq(Transaction)]
        /\ log'[s] = Append(log[s], t)
        /\ \A p \in Server : p # s => log'[p] = log[p]
    BY <1>1
  <1>6. /\ Len(log'[s]) = Len(log[s]) + 1
        /\ DOMAIN log[s] \subseteq DOMAIN log'[s]
        /\ DOMAIN log'[s] = DOMAIN log[s] \cup {Len(log[s]) + 1}
        /\ \A i \in DOMAIN log[s] : log'[s][i] = log[s][i]
        /\ log'[s][Len(log[s]) + 1] = t
        /\ Len(log[s]) \in Nat
    BY <1>1, <1>5
  <1>7. /\ NextWrite(s) \in Write
        /\ NextWrite(s)[1] = s /\ NextWrite(s)[2] = Len(log[s]) + 1
    BY <1>6 DEF NextWrite, Write
  <1>8. /\ \A q, o \in Server : executed'[q][o] <= Len(log'[o])
        /\ \A q \in Server : executed'[q][q] = Len(log'[q])
    <2>1. \A q, o \in Server : executed[q][o] \in Nat /\ Len(log[o]) \in Nat
      BY <1>1 DEF Vector
    <2>2. \A q, o \in Server : executed[q][o] <= Len(log[o])
      BY DEF Logged
    <2>3. executed[s][s] = Len(log[s])
      BY DEF Logged
    <2>4. ASSUME NEW q \in Server, NEW o \in Server
          PROVE  executed'[q][o] <= Len(log'[o])
      <3>1. CASE o = s
        BY <3>1, <2>1, <2>2, <2>3, <1>4, <1>6
      <3>2. CASE o # s
        BY <3>2, <2>2, <1>4, <1>5
      <3> QED BY <3>1, <3>2
    <2>5. ASSUME NEW q \in Server
          PROVE  executed'[q][q] = Len(log'[q])
      <3>1. CASE q = s
        BY <3>1, <2>3, <1>4, <1>6
      <3>2. CASE q # s
        <4>1. executed[q][q] = Len(log[q])
          BY DEF Logged
        <4> QED BY <3>2, <4>1, <1>4, <1>5
      <3> QED BY <3>1, <3>2
    <2> QED BY <2>4, <2>5
  <1> QED BY <1>3, <1>4, <1>5, <1>6, <1>7, <1>8 DEF Commit

\* A transaction that is ready for s is one that its origin logged.
LEMMA ReadyFact ==
  ASSUME TypeOK, Logged, NEW s \in Server, NEW o \in Server, Ready(s, o)
  PROVE  LET w == <<o, executed[s][o] + 1>>
         IN  /\ w \in Write /\ w[1] = o /\ w[2] = executed[s][o] + 1
             /\ w[2] \in DOMAIN log[o]
             /\ Transact(w) = log[o][w[2]]
             /\ Transact(w) \in Transaction
             /\ vv_descend(executed[s], Transact(w).seen)
             /\ \A p \in Server : vv_increment(executed[s], o)[p] =
                    IF p = o THEN executed[s][o] + 1 ELSE executed[s][p]
             /\ vv_increment(executed[s], o) \in Vector
  <1>1. executed[s] \in Vector /\ executed[s][o] \in Nat /\ log[o] \in Seq(Transaction)
    BY DEF TypeOK, Vector
  <1>2. executed[s][o] + 1 \in 1 .. Len(log[o])
    BY <1>1 DEF Ready
  <1> QED BY <1>1, <1>2, IncrementFact DEF Ready, Transact, Write

-----------------------------------------------------------------------------
(* Type correctness, one lemma per action *)

IndType == TypeOK /\ Logged

LEMMA InitType == Init => IndType
  BY EmptyType DEF Init, IndType, TypeOK, Logged, Session, Empty, Purge

(* What every action that touches one server's rows has to show. *)
LEMMA RowsType ==
  ASSUME IndType, NEW s \in Server, NEW new, NEW rows,
         row' = [row EXCEPT ![s] = new],
         sibling' = [sibling EXCEPT ![s] = rows],
         log' \in [Server -> Seq(Transaction)],
         executed' \in [Server -> Vector],
         session' \in [Client -> Session], purge' = purge,
         \A p \in Server : DOMAIN log[p] \subseteq DOMAIN log'[p],
         \A q, o \in Server : executed'[q][o] <= Len(log'[o]),
         \A q \in Server : executed'[q][q] = Len(log'[q]),
         new = NoRow \/ (new \in Row /\ new.write[2] \in DOMAIN log'[new.write[1]]),
         rows \in SUBSET Row,
         \A r \in rows : \E q \in sibling[s] \cup ({row[s]} \ {NoRow}) : r.write = q.write
  PROVE  IndType'
  <1> USE DEF IndType
  <1>1. row \in [Server -> Row \cup {NoRow}] /\ sibling \in [Server -> SUBSET Row]
    BY DEF TypeOK
  <1>2. row' \in [Server -> Row \cup {NoRow}] /\ sibling' \in [Server -> SUBSET Row]
    BY <1>1
  <1>3. TypeOK'
    BY <1>2 DEF TypeOK
  <1>4. \A r \in Row : r.write[1] \in Server
    BY DEF Row, Write
  <1>5. \A q \in Server : row'[q] # NoRow => row'[q].write[2] \in DOMAIN log'[row'[q].write[1]]
    <2> SUFFICES ASSUME NEW q \in Server, row'[q] # NoRow
                 PROVE  row'[q].write[2] \in DOMAIN log'[row'[q].write[1]]
      OBVIOUS
    <2>1. CASE q = s
      BY <2>1, <1>1
    <2>2. CASE q # s
      <3>1. row'[q] = row[q] /\ row[q] \in Row
        BY <2>2, <1>1
      <3>2. row[q].write[2] \in DOMAIN log[row[q].write[1]]
        BY <3>1 DEF Logged
      <3> QED BY <3>1, <3>2, <1>4
    <2> QED BY <2>1, <2>2
  <1>6. \A q \in Server : \A r \in sibling'[q] : r.write[2] \in DOMAIN log'[r.write[1]]
    <2> SUFFICES ASSUME NEW q \in Server, NEW r \in sibling'[q]
                 PROVE  r.write[2] \in DOMAIN log'[r.write[1]]
      OBVIOUS
    <2>1. CASE q = s
      <3>1. r \in rows
        BY <2>1, <1>1
      <3>2. PICK x \in sibling[s] \cup ({row[s]} \ {NoRow}) : r.write = x.write
        BY <3>1
      <3>3. x \in Row /\ x.write[2] \in DOMAIN log[x.write[1]]
        BY <1>1 DEF Logged
      <3> QED BY <3>2, <3>3, <1>4
    <2>2. CASE q # s
      <3>1. r \in sibling[q] /\ r \in Row
        BY <2>2, <1>1
      <3>2. r.write[2] \in DOMAIN log[r.write[1]]
        BY <3>1 DEF Logged
      <3> QED BY <3>1, <3>2, <1>4
    <2> QED BY <2>1, <2>2
  <1>7. Logged'
    BY <1>5, <1>6 DEF Logged
  <1> QED BY <1>3, <1>7

LEMMA InsertType ==
  ASSUME IndType, NEW s \in Server, Insert(s)
  PROVE  IndType'
  <1> USE DEF IndType
  <1> DEFINE new == [write |-> NextWrite(s), deleted |-> FALSE, clock |-> initLogicalClock(s)]
  <1>1. NullClock \in Clock /\ initLogicalClock(s) \in Clock
    BY EmptyType, DotFact DEF NullClock, Clock, initLogicalClock
  <1>2. executed[s] \in Vector
    BY DEF TypeOK
  <1>3. [kind |-> "insert", deleted |-> FALSE, clock |-> NullClock,
         seen |-> executed[s], read |-> {}] \in Transaction
    BY <1>1, <1>2 DEF Transaction
  <1>4. Commit(s, "insert", FALSE, NullClock, {})
    BY DEF Insert
  <1>5. row' = [row EXCEPT ![s] = new] /\ UNCHANGED <<sibling, session>>
    BY DEF Insert
  <1>6. sibling' = [sibling EXCEPT ![s] = sibling[s]] /\ sibling[s] \in SUBSET Row
    BY <1>5 DEF TypeOK
  <1>7. new \in Row /\ new.write[2] \in DOMAIN log'[new.write[1]]
    BY <1>1, <1>3, <1>4, CommitFact DEF Row
  <1>8. session' \in [Client -> Session]
    BY <1>5 DEF TypeOK
  <1> QED BY <1>3, <1>4, <1>5, <1>6, <1>7, <1>8, CommitFact, RowsType

LEMMA HardDeleteType ==
  ASSUME IndType, NEW s \in Server, HardDelete(s)
  PROVE  IndType'
  <1> USE DEF IndType
  <1>1. NullClock \in Clock
    BY EmptyType DEF NullClock, Clock
  <1>2. executed[s] \in Vector
    BY DEF TypeOK
  <1>3. [kind |-> "delete", deleted |-> TRUE, clock |-> NullClock,
         seen |-> executed[s], read |-> {}] \in Transaction
    BY <1>1, <1>2 DEF Transaction
  <1>4. Commit(s, "delete", TRUE, NullClock, {})
    BY DEF HardDelete
  <1>5. row' = [row EXCEPT ![s] = NoRow] /\ UNCHANGED <<sibling, session>>
    BY DEF HardDelete
  <1>6. sibling' = [sibling EXCEPT ![s] = sibling[s]] /\ sibling[s] \in SUBSET Row
    BY <1>5 DEF TypeOK
  <1>7. session' \in [Client -> Session]
    BY <1>5 DEF TypeOK
  <1> QED BY <1>3, <1>4, <1>5, <1>6, <1>7, CommitFact, RowsType

LEMMA SessionWithClient ==
  ASSUME IndType, NEW c \in Client, session[c] # NoSession
  PROVE  /\ session[c].step \in {"row", "merged"} /\ session[c].at \in Server
         /\ session[c].clock \in Clock /\ session[c].read \in SUBSET Write
         /\ [session[c].clock EXCEPT !.dirty = TRUE] \in Clock
         /\ [session[c].clock EXCEPT !.dirty = TRUE].vv = session[c].clock.vv
  BY DEF IndType, TypeOK, Session, Clock

LEMMA UpdateType ==
  ASSUME IndType, NEW c \in Client, NEW s \in Server, Update(c, s)
  PROVE  IndType'
  <1> USE DEF IndType
  <1> DEFINE old == row[s].clock
  <1>1. PICK deleted \in BOOLEAN, forgotten \in BOOLEAN :
          LET new == UpdateClock(c, s, forgotten)
          IN  /\ Commit(s, "update", deleted, new, session[c].read)
              /\ row' = [row EXCEPT ![s] = [write |-> NextWrite(s), deleted |-> deleted,
                                            clock |-> FinalClock(old, new, FALSE, s)]]
              /\ sibling' = [sibling EXCEPT
                               ![s] = IF old.hasSibling
                                      THEN MarkDeleted(@, @) ELSE @]
    BY DEF Update
  <1> DEFINE new == UpdateClock(c, s, forgotten)
             newRow == [write |-> NextWrite(s), deleted |-> deleted,
                        clock |-> FinalClock(old, new, FALSE, s)]
             rows == IF old.hasSibling THEN MarkDeleted(sibling[s], sibling[s])
                                       ELSE sibling[s]
  <1>2. session[c] # NoSession /\ row[s] # NoRow
    BY DEF Update
  <1>3. row[s] \in Row /\ old \in Clock /\ sibling[s] \in SUBSET Row /\ executed[s] \in Vector
    BY <1>2 DEF TypeOK, Row
  <1>4. new \in Clock /\ session[c].read \in SUBSET Write
    BY <1>2, <1>3, SessionWithClient DEF UpdateClock
  <1>5. [kind |-> "update", deleted |-> deleted, clock |-> new,
         seen |-> executed[s], read |-> session[c].read] \in Transaction
    BY <1>3, <1>4 DEF Transaction
  <1>6. Commit(s, "update", deleted, new, session[c].read) /\ row' = [row EXCEPT ![s] = newRow]
    BY <1>1
  <1>7. sibling' = [sibling EXCEPT ![s] = rows]
    BY <1>1, <1>3
  <1>8. FinalClock(old, new, FALSE, s) \in Clock
    BY <1>3, <1>4, FinalClockFact
  <1>9. NextWrite(s) \in Write /\ NextWrite(s)[2] \in DOMAIN log'[NextWrite(s)[1]]
    BY <1>5, <1>6, CommitFact
  <1>10. newRow \in Row /\ newRow.write[2] \in DOMAIN log'[newRow.write[1]]
    BY <1>8, <1>9 DEF Row
  <1>11. rows \in SUBSET Row /\ \A r \in rows : \E q \in sibling[s] : r.write = q.write
    BY <1>3, MarkDeletedType
  <1>12. session' \in [Client -> Session]
    BY DEF Update, TypeOK, Session
  <1>13. /\ log' \in [Server -> Seq(Transaction)] /\ executed' \in [Server -> Vector]
         /\ \A p \in Server : DOMAIN log[p] \subseteq DOMAIN log'[p]
         /\ \A q, o \in Server : executed'[q][o] <= Len(log'[o])
         /\ \A q \in Server : executed'[q][q] = Len(log'[q])
         /\ purge' = purge
    BY <1>5, <1>6, CommitFact
  <1>14. \A r \in rows : \E q \in sibling[s] \cup ({row[s]} \ {NoRow}) : r.write = q.write
    BY <1>11
  <1> HIDE DEF new, newRow, rows, old, IndType
  <1> QED BY <1>6, <1>7, <1>10, <1>11, <1>12, <1>13, <1>14, RowsType

LEMMA ReplicateType ==
  ASSUME IndType, NEW s \in Server, NEW o \in Server, Replicate(s, o)
  PROVE  IndType'
  <1> USE DEF IndType
  <1> DEFINE w == <<o, executed[s][o] + 1>>
             t == Transact(w)
  <1>1. /\ executed' = [executed EXCEPT ![s] = vv_increment(@, o)]
        /\ UNCHANGED <<log, session, purge>>
        /\ s # o
        /\ Ready(s, o)
    BY DEF Replicate
  <1>2. /\ w \in Write /\ w[1] = o /\ w[2] = executed[s][o] + 1
        /\ w[2] \in DOMAIN log[o] /\ t \in Transaction
        /\ \A p \in Server : vv_increment(executed[s], o)[p] =
               IF p = o THEN executed[s][o] + 1 ELSE executed[s][p]
        /\ vv_increment(executed[s], o) \in Vector
    BY <1>1, ReadyFact
  <1>3. /\ log' \in [Server -> Seq(Transaction)] /\ session' \in [Client -> Session]
        /\ \A p \in Server : DOMAIN log[p] \subseteq DOMAIN log'[p]
    BY <1>1 DEF TypeOK
  <1>4. executed' \in [Server -> Vector]
    BY <1>1, <1>2 DEF TypeOK
  <1>5. /\ \A q, p \in Server : executed'[q][p] <= Len(log'[p])
        /\ \A q \in Server : executed'[q][q] = Len(log'[q])
    <2>1. executed[s][o] + 1 <= Len(log[o])
      BY <1>2 DEF TypeOK
    <2> QED BY <2>1, <1>1, <1>2 DEF Logged, TypeOK
  <1>6. sibling[s] \in SUBSET Row /\ (row[s] # NoRow => row[s] \in Row /\ row[s].clock \in Clock)
    BY DEF TypeOK, Row
  <1>7. \E new, rows :
          /\ row' = [row EXCEPT ![s] = new]
          /\ sibling' = [sibling EXCEPT ![s] = rows]
          /\ new = NoRow \/ (new \in Row /\ new.write = w)
          /\ rows \in SUBSET Row
          /\ \A r \in rows : \E q \in sibling[s] \cup ({row[s]} \ {NoRow}) : r.write = q.write
    <2>1. sibling = [sibling EXCEPT ![s] = sibling[s]] /\ row = [row EXCEPT ![s] = row[s]]
      BY DEF TypeOK
    <2>2. CASE ApplyInsert(s, o, w)
      <3> DEFINE new == [write |-> w, deleted |-> FALSE, clock |-> initLogicalClock(o)]
      <3>1. initLogicalClock(o) \in Clock
        BY EmptyType, DotFact DEF NullClock, Clock, initLogicalClock
      <3>2. new \in Row /\ new.write = w
        BY <3>1, <1>2 DEF Row
      <3>3. row' = [row EXCEPT ![s] = new] /\ sibling' = [sibling EXCEPT ![s] = sibling[s]]
        BY <2>1, <2>2 DEF ApplyInsert
      <3> HIDE DEF new
      <3> QED BY <1>6, <3>2, <3>3
    <2>3. CASE ApplyUpdate(s, o, w, t) /\ row[s] = NoRow
      BY <2>1, <2>3, <1>6 DEF ApplyUpdate
    <2>4. CASE ApplyUpdate(s, o, w, t) /\ row[s] # NoRow
      <3> DEFINE h == Concurrent(row[s].clock, t.clock)
                 new == [write |-> w, deleted |-> t.deleted,
                         clock |-> FinalClock(row[s].clock, t.clock, h, o)]
                 rows == SiblingsOnSlave(sibling[s], row[s], t.clock)
      <3>1. t.clock \in Clock /\ t.deleted \in BOOLEAN /\ h \in BOOLEAN
        BY <1>2 DEF Transaction, Concurrent
      <3>2. FinalClock(row[s].clock, t.clock, h, o) \in Clock
        BY <3>1, <1>6, <2>4, FinalClockFact
      <3>3. new \in Row /\ new.write = w
        BY <3>1, <3>2, <1>2 DEF Row
      <3>4. rows \in SUBSET Row /\ \A r \in rows : \E q \in sibling[s] \cup {row[s]} : r.write = q.write
        BY <3>1, <1>6, <2>4, SiblingsOnSlaveType
      <3>5. row' = [row EXCEPT ![s] = new] /\ sibling' = [sibling EXCEPT ![s] = rows]
        BY <2>4 DEF ApplyUpdate, TypeOK
      <3>6. \A r \in rows : \E q \in sibling[s] \cup ({row[s]} \ {NoRow}) : r.write = q.write
        BY <2>4, <3>4
      <3> HIDE DEF new, rows, w, t, h
      <3>7. rows \in SUBSET Row /\ new \in Row /\ new.write = w
        BY <3>3, <3>4
      <3> QED BY <3>5, <3>6, <3>7
    <2>5. CASE ApplyDelete(s)
      BY <2>1, <2>5, <1>6 DEF ApplyDelete
    <2> QED BY <2>2, <2>3, <2>4, <2>5 DEF Replicate
  <1>8. PICK new, rows :
          /\ row' = [row EXCEPT ![s] = new]
          /\ sibling' = [sibling EXCEPT ![s] = rows]
          /\ new = NoRow \/ (new \in Row /\ new.write = w)
          /\ rows \in SUBSET Row
          /\ \A r \in rows : \E q \in sibling[s] \cup ({row[s]} \ {NoRow}) : r.write = q.write
    BY <1>7
  <1>9. new = NoRow \/ (new \in Row /\ new.write[2] \in DOMAIN log'[new.write[1]])
    BY <1>1, <1>2, <1>8
  <1> HIDE DEF w, t, IndType
  <1>10. purge' = purge
    BY <1>1
  <1>11. /\ row' = [row EXCEPT ![s] = new] /\ sibling' = [sibling EXCEPT ![s] = rows]
         /\ rows \in SUBSET Row
         /\ \A r \in rows : \E q \in sibling[s] \cup ({row[s]} \ {NoRow}) : r.write = q.write
    BY <1>8
  <1> QED
    BY <1>3, <1>4, <1>5, <1>9, <1>10, <1>11, RowsType

LEMMA ReadType ==
  ASSUME IndType, NEW c \in Client, NEW s \in Server, Read(c, s)
  PROVE  IndType'
  <1> USE DEF IndType
  <1>1. row[s] \in Row /\ row[s].clock \in Clock /\ row[s].write \in Write
    BY DEF Read, TypeOK, Row
  <1>2. Transact(row[s].write) \in Transaction
    BY <1>1 DEF Logged, TypeOK, Read, Transact, Write
  <1>3. Known(row[s].write) \in SUBSET Write
    BY <1>1, <1>2 DEF Known, Transaction
  <1>4. session' \in [Client -> Session]
    BY <1>1, <1>3 DEF Read, TypeOK, Session
  <1> QED BY <1>4 DEF Read, TypeOK, Logged

LEMMA ReadSiblingsType ==
  ASSUME IndType, NEW c \in Client, ReadSiblings(c)
  PROVE  IndType'
  <1> USE DEF IndType
  <1> DEFINE live == LiveSiblings(session[c].at)
             news == [session[c] EXCEPT !.step = "merged", !.clock.hasSibling = FALSE,
                        !.read = @ \cup UNION {Known(r.write) : r \in live}]
  <1>1. session[c] # NoSession
    BY DEF ReadSiblings, NoSession
  <1>2. /\ session[c] \in [step : {"row", "merged"}, at : Server, clock : Clock, read : SUBSET Write]
        /\ live \in SUBSET Row
    BY <1>1 DEF TypeOK, Session, LiveSiblings
  <1>3. \A r \in live : Known(r.write) \in SUBSET Write
    <2> SUFFICES ASSUME NEW r \in live
                 PROVE  Known(r.write) \in SUBSET Write
      OBVIOUS
    <2>1. r \in sibling[session[c].at] /\ session[c].at \in Server
      BY <1>2 DEF LiveSiblings
    <2>2. r.write \in Write /\ r.write[2] \in DOMAIN log[r.write[1]]
      BY <1>2, <2>1 DEF Row, Logged
    <2>3. Transact(r.write) \in Transaction
      BY <2>2 DEF TypeOK, Transact, Write
    <2> QED BY <2>2, <2>3 DEF Known, Transaction
  <1>4. UNION {Known(r.write) : r \in live} \in SUBSET Write
    BY <1>3
  <1>5. news \in [step : {"row", "merged"}, at : Server, clock : Clock, read : SUBSET Write]
    BY <1>2, <1>4 DEF Clock
  <1>6. session' = [session EXCEPT ![c] = news]
    BY DEF ReadSiblings, TypeOK
  <1>7. session' \in [Client -> Session]
    BY <1>5, <1>6 DEF TypeOK, Session
  <1> QED BY <1>7 DEF ReadSiblings, TypeOK, Logged

LEMMA PurgeSiblingsType ==
  ASSUME IndType, NEW s \in Server, PurgeSiblings(s)
  PROVE  IndType'
  BY DEF IndType, PurgeSiblings, LiveSiblings, TypeOK, Logged

LEMMA PurgeAllType ==
  ASSUME IndType, NEW s \in Server, PurgeAll(s) \/ ReplicatePurge(s)
  PROVE  IndType'
  <1>1. sibling' = [sibling EXCEPT ![s] = {}] /\ UNCHANGED <<row, log, executed, session>>
    BY DEF PurgeAll, ReplicatePurge
  <1>2. {r.write : r \in LiveSiblings(s)} \in SUBSET Write
    BY DEF IndType, TypeOK, LiveSiblings, Row
  <1>3. purge' \in Purge
    BY <1>2 DEF PurgeAll, ReplicatePurge, IndType, TypeOK, Purge
  <1> QED
    BY <1>1, <1>3 DEF IndType, TypeOK, Logged

LEMMA NextType == IndType /\ [Next]_vars => IndType'
  <1> SUFFICES ASSUME IndType, [Next]_vars
               PROVE  IndType'
    OBVIOUS
  <1>1. CASE \E c \in Client : Abandon(c)
    BY <1>1 DEF IndType, Abandon, TypeOK, Logged, Session
  <1>2. CASE UNCHANGED vars
    BY <1>2 DEF vars, IndType, TypeOK, Logged
  <1> QED
    BY <1>1, <1>2, InsertType, HardDeleteType, PurgeSiblingsType, PurgeAllType, ReadType, UpdateType,
       ReadSiblingsType, ReplicateType DEF Next

(* Every reachable state is well-typed, each server has executed only what was
   logged, and each row or sibling row holds the value of a logged write. *)
THEOREM TypeCorrect == Spec => [](TypeOK /\ Logged)
  <1>1. Spec => []IndType
    BY InitType, NextType, PTL DEF Spec
  <1> QED BY <1>1, PTL DEF IndType

-----------------------------------------------------------------------------
(* The row is inserted once: every other transaction has seen the INSERT, and
   a server that has executed anything has executed it. *)

Inserter(b) == log[b] # <<>> /\ log[b][1].kind = "insert"

OneInsert ==
  /\ \A o \in Server : \A i \in DOMAIN log[o] :
        log[o][i].kind = "insert" =>
          /\ i = 1
          /\ log[o][i].seen = Empty
          /\ \A p \in Server : \A j \in DOMAIN log[p] :
                p # o \/ j # i => log[p][j].seen[o] >= 1
  /\ \A s \in Server : row[s] # NoRow => executed[s] # Empty
  /\ \A s, b \in Server : Inserter(b) /\ executed[s] # Empty => executed[s][b] >= 1

LEMMA NonEmptyVector ==
  ASSUME NEW v \in Vector
  PROVE  v # Empty <=> \E o \in Server : v[o] >= 1
  BY DEF Vector, Empty

\* Before the INSERT nothing is executed anywhere.
LEMMA NothingExecuted ==
  ASSUME IndType, OneInsert, \A o \in Server : log[o] = <<>>
  PROVE  \A s \in Server : executed[s] = Empty /\ row[s] = NoRow
  <1> SUFFICES ASSUME NEW s \in Server
               PROVE  executed[s] = Empty /\ row[s] = NoRow
    OBVIOUS
  <1>1. \A o \in Server : executed[s][o] \in Nat /\ executed[s][o] <= 0
    BY DEF IndType, TypeOK, Logged, Vector
  <1>2. executed[s] \in Vector
    BY DEF IndType, TypeOK
  <1>3. executed[s] = Empty
    BY <1>1, <1>2, NonEmptyVector
  <1> QED BY <1>3 DEF OneInsert

LEMMA InsertOnce ==
  ASSUME IndType, OneInsert, NEW s \in Server, Insert(s)
  PROVE  OneInsert'
  <1>1. \A o \in Server : log[o] = <<>> /\ executed[o] = Empty /\ row[o] = NoRow
    BY NothingExecuted DEF Insert
  <1> DEFINE t == [kind |-> "insert", deleted |-> FALSE, clock |-> NullClock,
                   seen |-> executed[s], read |-> {}]
  <1>2. /\ log' = [log EXCEPT ![s] = Append(@, t)]
        /\ executed' = [executed EXCEPT ![s] = vv_increment(@, s)]
        /\ \E new : row' = [row EXCEPT ![s] = new]
    BY DEF Insert, Commit
  <1>3. log \in [Server -> Seq(Transaction)] /\ executed \in [Server -> Vector]
        /\ row \in [Server -> Row \cup {NoRow}]
    BY DEF IndType, TypeOK
  <1>4. log'[s] = <<t>> /\ \A o \in Server : o # s => log'[o] = <<>>
    <2> HIDE DEF t
    <2>1. log'[s] = Append(<<>>, t) /\ \A o \in Server : o # s => log'[o] = log[o]
      BY <1>1, <1>2, <1>3
    <2> QED BY <1>1, <2>1
  <1>5. executed'[s][s] = 1 /\ \A o \in Server : o # s => executed'[o] = Empty
    <2>1. executed'[s] = vv_increment(Empty, s) /\ \A o \in Server : o # s => executed'[o] = Empty
      BY <1>1, <1>2, <1>3
    <2>2. vv_increment(Empty, s)[s] = 1
      BY DEF vv_increment, Empty
    <2> QED BY <2>1, <2>2
  <1>6. \A o \in Server : o # s => row'[o] = NoRow
    BY <1>1, <1>2, <1>3
  <1>7. executed'[s] # Empty
    BY <1>5 DEF Empty
  <1>8. \A o \in Server : \A i \in DOMAIN log'[o] : o = s /\ i = 1
    BY <1>4
  <1>9. log'[s][1].seen = Empty
    BY <1>1, <1>4
  <1>10. \A b \in Server : Inserter(b)' => b = s
    BY <1>4 DEF Inserter
  <1>11. \A r, b \in Server : Inserter(b)' /\ executed'[r] # Empty => executed'[r][b] >= 1
    BY <1>5, <1>10
  <1>12. \A r \in Server : row'[r] # NoRow => executed'[r] # Empty
    BY <1>6, <1>7
  <1> QED BY <1>8, <1>9, <1>11, <1>12 DEF OneInsert

\* An UPDATE or DELETE is committed where the row is, so it has seen the INSERT.
LEMMA CommitOnce ==
  ASSUME IndType, OneInsert, NEW s \in Server, NEW kind, NEW deleted, NEW clock, NEW read,
         Commit(s, kind, deleted, clock, read), kind # "insert", row[s] # NoRow,
         [kind |-> kind, deleted |-> deleted, clock |-> clock, seen |-> executed[s],
          read |-> read] \in Transaction,
         NEW new, row' = [row EXCEPT ![s] = new]
  PROVE  OneInsert'
  <1> DEFINE n == Len(log[s]) + 1
  <1>1. /\ executed' \in [Server -> Vector] /\ log' \in [Server -> Seq(Transaction)]
        /\ \A p \in Server : DOMAIN log[p] \subseteq DOMAIN log'[p]
        /\ \A p \in Server : \A i \in DOMAIN log[p] : log'[p][i] = log[p][i]
        /\ \A p \in Server : p # s => log'[p] = log[p]
        /\ DOMAIN log'[s] = DOMAIN log[s] \cup {n}
        /\ log'[s][n].kind = kind /\ log'[s][n].seen = executed[s]
        /\ \A q, o \in Server : executed'[q][o] =
              IF q = s /\ o = s THEN executed[s][s] + 1 ELSE executed[q][o]
    BY CommitFact DEF IndType
  <1>2. /\ executed \in [Server -> Vector] /\ log \in [Server -> Seq(Transaction)]
        /\ row \in [Server -> Row \cup {NoRow}]
        /\ \A q, o \in Server : executed[q][o] \in Nat
    BY DEF IndType, TypeOK, Vector
  <1>3. executed[s] # Empty
    BY DEF OneInsert
  <1>4. ASSUME NEW o \in Server, NEW i \in DOMAIN log'[o], log'[o][i].kind = "insert"
        PROVE  /\ i \in DOMAIN log[o] /\ log[o][i].kind = "insert" /\ i = 1
               /\ log'[o][i].seen = Empty /\ executed[s][o] >= 1
    <2>1. i \in DOMAIN log[o] /\ log'[o][i] = log[o][i]
      BY <1>1, <1>4
    <2>2. i = 1 /\ log[o][i].seen = Empty
      BY <1>4, <2>1 DEF OneInsert
    <2>3. Inserter(o)
      BY <1>4, <2>1, <2>2 DEF Inserter
    <2> QED BY <1>3, <1>4, <2>1, <2>2, <2>3 DEF OneInsert
  <1>5. ASSUME NEW o \in Server, NEW i \in DOMAIN log'[o], log'[o][i].kind = "insert",
               NEW p \in Server, NEW j \in DOMAIN log'[p], p # o \/ j # i
        PROVE  log'[p][j].seen[o] >= 1
    <2>1. CASE j \in DOMAIN log[p]
      <3>1. log'[p][j] = log[p][j]
        BY <1>1, <2>1
      <3>2. i \in DOMAIN log[o] /\ log[o][i].kind = "insert"
        BY <1>4, <1>5
      <3> QED BY <1>5, <2>1, <3>1, <3>2 DEF OneInsert
    <2>2. CASE j \notin DOMAIN log[p]
      <3>1. p = s /\ j = n
        BY <1>1, <2>2
      <3> QED BY <1>1, <1>4, <1>5, <3>1
    <2> QED BY <2>1, <2>2
  <1>6. ASSUME NEW r \in Server, NEW b \in Server, Inserter(b)', executed'[r] # Empty
        PROVE  executed'[r][b] >= 1
    <2>1. 1 \in DOMAIN log'[b] /\ log'[b][1].kind = "insert"
      BY <1>1, <1>6 DEF Inserter
    <2>2. 1 \in DOMAIN log[b] /\ log[b][1].kind = "insert"
      BY <1>4, <2>1
    <2>3. Inserter(b)
      BY <1>2, <2>2 DEF Inserter
    <2>4. executed[r] # Empty
      <3>1. CASE r = s
        BY <1>3, <3>1
      <3>2. CASE r # s
        <4>1. \A o \in Server : executed'[r][o] = executed[r][o]
          BY <1>1, <3>2
        <4>2. executed'[r] \in Vector /\ executed[r] \in Vector
          BY <1>1, <1>2
        <4>3. PICK o \in Server : executed'[r][o] >= 1
          BY <1>6, <4>2, NonEmptyVector
        <4> QED BY <4>1, <4>2, <4>3, NonEmptyVector
      <3> QED BY <3>1, <3>2
    <2>5. executed[r][b] >= 1
      BY <2>3, <2>4 DEF OneInsert
    <2>6. executed'[r][b] = executed[r][b] \/ executed'[r][b] = executed[r][b] + 1
      BY <1>1
    <2>7. executed[r][b] \in Nat
      BY <1>2
    <2> QED BY <2>5, <2>6, <2>7
  <1>7. ASSUME NEW r \in Server, row'[r] # NoRow
        PROVE  executed'[r] # Empty
    <2>1. executed[r] # Empty
      BY <1>2, <1>3, <1>7 DEF OneInsert
    <2>2. PICK o \in Server : executed[r][o] >= 1
      BY <1>2, <2>1, NonEmptyVector
    <2>3. executed'[r][o] = executed[r][o] \/ executed'[r][o] = executed[r][o] + 1
      BY <1>1
    <2>4. executed[r][o] \in Nat
      BY <1>2
    <2>5. executed'[r][o] >= 1
      BY <2>2, <2>3, <2>4
    <2> QED BY <1>1, <2>5, NonEmptyVector
  <1> QED BY <1>4, <1>5, <1>6, <1>7 DEF OneInsert

LEMMA ReplicateOnce ==
  ASSUME IndType, OneInsert, NEW s \in Server, NEW o \in Server, Replicate(s, o)
  PROVE  /\ OneInsert'
         /\ Transact(<<o, executed[s][o] + 1>>).kind = "insert" =>
               executed[s] = Empty /\ row[s] = NoRow
  <1> DEFINE w == <<o, executed[s][o] + 1>>
             t == Transact(w)
  <1>1. /\ executed' = [executed EXCEPT ![s] = vv_increment(@, o)]
        /\ UNCHANGED <<log, session>> /\ s # o /\ Ready(s, o)
    BY DEF Replicate
  <1>2. /\ w[2] \in DOMAIN log[o] /\ t = log[o][w[2]] /\ w[2] = executed[s][o] + 1
        /\ vv_descend(executed[s], t.seen)
        /\ t \in Transaction
        /\ \A p \in Server : vv_increment(executed[s], o)[p] =
               IF p = o THEN executed[s][o] + 1 ELSE executed[s][p]
        /\ vv_increment(executed[s], o) \in Vector
    BY <1>1, ReadyFact DEF IndType
  <1>3. /\ executed \in [Server -> Vector] /\ log \in [Server -> Seq(Transaction)]
        /\ row \in [Server -> Row \cup {NoRow}]
        /\ \A q, p \in Server : executed[q][p] \in Nat
    BY DEF IndType, TypeOK, Vector
  <1>4. t.kind = "insert" => executed[s] = Empty /\ row[s] = NoRow
    <2> SUFFICES ASSUME t.kind = "insert"
                 PROVE  executed[s] = Empty
      BY DEF OneInsert
    <2>1. w[2] = 1
      BY <1>2 DEF OneInsert
    <2>2. Inserter(o)
      BY <1>2, <1>3, <2>1 DEF Inserter
    <2>3. executed[s][o] = 0
      BY <1>2, <1>3, <2>1
    <2> QED BY <2>2, <2>3 DEF OneInsert
  <1>5. /\ executed' \in [Server -> Vector]
        /\ executed'[s] # Empty
        /\ \A q \in Server : q # s => executed'[q] = executed[q]
        /\ \A p \in Server : executed'[s][p] = IF p = o THEN executed[s][o] + 1 ELSE executed[s][p]
    <2>1. executed' \in [Server -> Vector] /\ executed'[s] = vv_increment(executed[s], o)
      BY <1>1, <1>2, <1>3
    <2>2. executed'[s][o] >= 1
      BY <1>2, <1>3, <2>1
    <2> QED BY <1>1, <1>2, <1>3, <2>1, <2>2, NonEmptyVector
  <1>6. ASSUME NEW r \in Server, NEW b \in Server, Inserter(b)', executed'[r] # Empty
        PROVE  executed'[r][b] >= 1
    <2>1. Inserter(b) /\ 1 \in DOMAIN log[b]
      BY <1>1, <1>3, <1>6 DEF Inserter
    <2>2. CASE r # s \/ executed[s] # Empty
      <3>1. executed[r] # Empty
        BY <1>5, <1>6, <2>2
      <3>2. executed[r][b] >= 1
        BY <2>1, <3>1 DEF OneInsert
      <3>3. executed'[r][b] = executed[r][b] \/ executed'[r][b] = executed[r][b] + 1
        BY <1>5
      <3>4. executed[r][b] \in Nat
        BY <1>3
      <3> QED BY <3>2, <3>3, <3>4
    <2>3. CASE r = s /\ executed[s] = Empty
      <3>1. executed[s][o] = 0 /\ w[2] = 1
        BY <1>2, <2>3 DEF Empty
      <3>2. CASE b = o
        <4>1. executed'[s][o] = executed[s][o] + 1
          BY <1>5
        <4> QED BY <2>3, <3>1, <3>2, <4>1
      <3>3. CASE b # o
        <4>1. t.seen[b] >= 1
          BY <1>2, <2>1, <3>3 DEF OneInsert, Inserter
        <4>2. executed[s][b] >= t.seen[b] /\ t.seen[b] \in Nat
          BY <1>2 DEF vv_descend, Transaction, Vector
        <4>3. executed[s][b] = 0
          BY <2>3 DEF Empty
        <4> QED BY <4>1, <4>2, <4>3
      <3> QED BY <3>2, <3>3
    <2> QED BY <2>2, <2>3
  <1>7. ASSUME NEW r \in Server, row'[r] # NoRow
        PROVE  executed'[r] # Empty
    <2>1. CASE r = s
      BY <1>5, <2>1
    <2>2. CASE r # s
      <3>1. \E new : row' = [row EXCEPT ![s] = new]
        <4>1. row = [row EXCEPT ![s] = row[s]]
          BY <1>3
        <4> QED BY <4>1 DEF Replicate, ApplyInsert, ApplyUpdate, ApplyDelete
      <3>2. row'[r] = row[r]
        BY <1>3, <2>2, <3>1
      <3> QED BY <1>5, <1>7, <2>2, <3>2 DEF OneInsert
    <2> QED BY <2>1, <2>2
  <1>8. \A p \in Server : \A i \in DOMAIN log'[p] :
        log'[p][i].kind = "insert" =>
          /\ i = 1
          /\ log'[p][i].seen = Empty
          /\ \A q \in Server : \A j \in DOMAIN log'[q] :
                q # p \/ j # i => log'[q][j].seen[p] >= 1
    BY <1>1 DEF OneInsert
  <1>9. OneInsert'
    BY <1>6, <1>7, <1>8 DEF OneInsert
  <1> QED BY <1>4, <1>9

LEMMA NextOnce == IndType /\ OneInsert /\ [Next]_vars => OneInsert'
  <1> SUFFICES ASSUME IndType, OneInsert, [Next]_vars
               PROVE  OneInsert'
    OBVIOUS
  <1>1. ASSUME NEW s \in Server, HardDelete(s)
        PROVE  OneInsert'
    <2>1. NullClock \in Clock /\ executed[s] \in Vector
      BY EmptyType DEF NullClock, Clock, IndType, TypeOK
    <2>2. [kind |-> "delete", deleted |-> TRUE, clock |-> NullClock,
           seen |-> executed[s], read |-> {}] \in Transaction
      BY <2>1 DEF Transaction
    <2> QED BY <1>1, <2>2, CommitOnce DEF HardDelete
  <1>2. ASSUME NEW c \in Client, NEW s \in Server, Update(c, s)
        PROVE  OneInsert'
    <2>1. PICK deleted \in BOOLEAN, forgotten \in BOOLEAN :
            /\ Commit(s, "update", deleted, UpdateClock(c, s, forgotten), session[c].read)
            /\ \E new : row' = [row EXCEPT ![s] = new]
      BY <1>2 DEF Update
    <2>2. /\ session[c] # NoSession /\ row[s] # NoRow /\ row[s].clock \in Clock
          /\ executed[s] \in Vector
      BY <1>2 DEF Update, IndType, TypeOK, Row
    <2>3. UpdateClock(c, s, forgotten) \in Clock /\ session[c].read \in SUBSET Write
      BY <2>2, SessionWithClient DEF UpdateClock
    <2>4. [kind |-> "update", deleted |-> deleted, clock |-> UpdateClock(c, s, forgotten),
           seen |-> executed[s], read |-> session[c].read] \in Transaction
      BY <2>2, <2>3 DEF Transaction
    <2> QED BY <2>1, <2>2, <2>4, CommitOnce
  <1>3. ASSUME UNCHANGED <<row, log, executed>>
        PROVE  OneInsert'
    BY <1>3 DEF OneInsert, Inserter
  <1> QED
    BY <1>1, <1>2, <1>3, InsertOnce, ReplicateOnce
    DEF Next, PurgeSiblings, PurgeAll, ReplicatePurge, Read, ReadSiblings, Abandon, vars

\* The insert is unique, and nothing is executed before it.
THEOREM InsertedOnce == Spec => []OneInsert
  <1>1. Init => OneInsert
    BY DEF Init, OneInsert, Inserter
  <1>2. Spec => []IndType
    BY InitType, NextType, PTL DEF Spec
  <1> QED BY <1>1, <1>2, NextOnce, PTL DEF Spec
-----------------------------------------------------------------------------
(* The version vector of a row never loses a counter *)

\* Where a row is overwritten, its vector covers the vector it replaces.
LEMMA UpdateGrows ==
  ASSUME IndType, NEW c \in Client, NEW s \in Server, Update(c, s)
  PROVE  \E new : /\ row' = [row EXCEPT ![s] = new]
                  /\ vv_descend(new.clock.vv, row[s].clock.vv)
  <1>1. PICK deleted \in BOOLEAN, forgotten \in BOOLEAN :
          LET old == row[s].clock
              new == UpdateClock(c, s, forgotten)
          IN  /\ ~MustReconcile(old, new)
              /\ row' = [row EXCEPT ![s] = [write |-> NextWrite(s), deleted |-> deleted,
                                            clock |-> FinalClock(old, new, FALSE, s)]]
    BY DEF Update
  <1> DEFINE clock == FinalClock(row[s].clock, UpdateClock(c, s, forgotten), FALSE, s)
             new == [write |-> NextWrite(s), deleted |-> deleted, clock |-> clock]
  <1>2. session[c] # NoSession /\ row[s].clock \in Clock
    BY DEF Update, IndType, TypeOK, Row
  <1>3. UpdateClock(c, s, forgotten) \in Clock
    BY <1>2, SessionWithClient DEF UpdateClock
  <1>4. vv_descend(UpdateClock(c, s, forgotten).vv, row[s].clock.vv)
    BY <1>1 DEF MustReconcile
  <1>5. vv_descend(clock.vv, row[s].clock.vv)
    BY <1>2, <1>3, <1>4, FinalClockFact
  <1>6. row' = [row EXCEPT ![s] = new] /\ new.clock = clock
    BY <1>1
  <1> HIDE DEF new, clock
  <1> QED BY <1>5, <1>6

LEMMA ReplicateGrows ==
  ASSUME IndType, OneInsert, NEW s \in Server, NEW o \in Server, Replicate(s, o),
         row[s] # NoRow
  PROVE  \E new : /\ row' = [row EXCEPT ![s] = new]
                  /\ new = NoRow \/ vv_descend(new.clock.vv, row[s].clock.vv)
  <1> DEFINE w == <<o, executed[s][o] + 1>>
             t == Transact(w)
             h == Concurrent(row[s].clock, t.clock)
             clock == FinalClock(row[s].clock, t.clock, h, o)
             new == [write |-> w, deleted |-> t.deleted, clock |-> clock]
  <1>1. t \in Transaction /\ t.clock \in Clock /\ h \in BOOLEAN
    BY ReadyFact DEF Replicate, IndType, Transaction, Concurrent
  <1>2. row[s].clock \in Clock
    BY DEF IndType, TypeOK, Row
  <1>3. t.kind # "insert"
    BY ReplicateOnce
  <1>4. CASE ApplyDelete(s)
    BY <1>4 DEF ApplyDelete
  <1>5. CASE ApplyUpdate(s, o, w, t)
    <2>1. row' = [row EXCEPT ![s] = new] /\ new.clock = clock
      BY <1>5 DEF ApplyUpdate
    <2>2. h \/ vv_descend(t.clock.vv, row[s].clock.vv)
      BY DEF Concurrent
    <2>3. vv_descend(clock.vv, row[s].clock.vv)
      <3> HIDE DEF h
      <3> QED BY <1>1, <1>2, <2>2, FinalClockFact
    <2> HIDE DEF new, clock
    <2> QED BY <2>1, <2>3
  <1> QED BY <1>3, <1>4, <1>5 DEF Replicate

(* The version vector of a row never loses a counter, whoever writes it: a
   client's own UPDATE is refused unless it covers the row (triggers:134), and
   a replicated one that does not cover it is merged with it (triggers:164). *)
THEOREM CountersNeverShrink == Spec => CountersGrow
  <1> DEFINE Grow == \A s \in Server : row[s] # NoRow /\ row'[s] # NoRow =>
                        vv_descend(row'[s].clock.vv, row[s].clock.vv)
  <1>1. IndType /\ OneInsert /\ [Next]_vars => [Grow]_vars
    <2> SUFFICES ASSUME IndType, OneInsert, Next, NEW r \in Server,
                        row[r] # NoRow, row'[r] # NoRow
                 PROVE  vv_descend(row'[r].clock.vv, row[r].clock.vv)
      OBVIOUS
    <2>1. row[r].clock.vv \in Vector /\ row \in [Server -> Row \cup {NoRow}]
      BY DEF IndType, TypeOK, Row, Clock
    <2>2. CASE row'[r] = row[r]
      BY <2>1, <2>2 DEF vv_descend, Vector
    <2>3. ASSUME NEW s \in Server, Insert(s)
          PROVE  FALSE
      BY <2>3, NothingExecuted DEF Insert
    <2>4. ASSUME NEW s \in Server, HardDelete(s)
          PROVE  row'[r] = row[r]
      BY <2>1, <2>4 DEF HardDelete
    <2>5. ASSUME NEW c \in Client, NEW s \in Server, Update(c, s)
          PROVE  row'[r] = row[r] \/ vv_descend(row'[r].clock.vv, row[r].clock.vv)
      <3>1. PICK new : /\ row' = [row EXCEPT ![s] = new]
                       /\ vv_descend(new.clock.vv, row[s].clock.vv)
        BY <2>5, UpdateGrows
      <3> QED BY <2>1, <3>1
    <2>6. ASSUME NEW s \in Server, NEW o \in Server, Replicate(s, o)
          PROVE  row'[r] = row[r] \/ vv_descend(row'[r].clock.vv, row[r].clock.vv)
      <3>1. CASE s = r
        <4>1. PICK new : /\ row' = [row EXCEPT ![s] = new]
                         /\ new = NoRow \/ vv_descend(new.clock.vv, row[s].clock.vv)
          BY <2>6, <3>1, ReplicateGrows
        <4> QED BY <2>1, <3>1, <4>1
      <3>2. CASE s # r
        BY <2>1, <2>6, <3>2 DEF Replicate, ApplyInsert, ApplyUpdate, ApplyDelete
      <3> QED BY <3>1, <3>2
    <2> QED BY <2>2, <2>3, <2>4, <2>5, <2>6
            DEF Next, PurgeSiblings, PurgeAll, ReplicatePurge, Read, ReadSiblings, Abandon
  <1>2. Spec => []IndType
    BY InitType, NextType, PTL DEF Spec
  <1> QED BY <1>1, <1>2, InsertedOnce, PTL DEF Spec, CountersGrow

-----------------------------------------------------------------------------
(* The counters of a row are its server's gtid_executed *)

(* The strengthening: a clock literal in the log is what its origin had
   executed, and a clock a client holds is no newer than its server. *)
GtidInv ==
  ~Roaming =>
    /\ \A s \in Server : row[s] # NoRow => row[s].clock.vv = executed[s]
    /\ \A o \in Server : \A i \in DOMAIN log[o] :
          log[o][i].kind = "update" => log[o][i].clock.vv = log[o][i].seen
    /\ \A c \in Client : session[c] # NoSession =>
          vv_descend(executed[session[c].at], session[c].clock.vv)

\* gtid_executed only grows, so an older clock stays older.
LEMMA ExecutedGrows ==
  ASSUME IndType, [Next]_vars
  PROVE  \A s \in Server : vv_descend(executed'[s], executed[s])
  <1> SUFFICES ASSUME NEW s \in Server
               PROVE  vv_descend(executed'[s], executed[s])
    OBVIOUS
  <1>1. executed \in [Server -> Vector]
    BY DEF IndType, TypeOK
  <1>2. vv_descend(executed[s], executed[s])
    BY <1>1 DEF vv_descend, Vector
  <1>3. executed' = executed \/ \E q, o \in Server :
          executed' = [executed EXCEPT ![q] = vv_increment(@, o)]
    BY DEF Next, vars, Insert, HardDelete, PurgeSiblings, PurgeAll, ReplicatePurge,
           Read, Update, ReadSiblings, Abandon,
           Replicate, Commit
  <1>4. ASSUME NEW q \in Server, NEW o \in Server,
               executed' = [executed EXCEPT ![q] = vv_increment(@, o)]
        PROVE  vv_descend(executed'[s], executed[s])
    <2>1. CASE q = s
      BY <1>1, <1>4, <2>1, IncrementFact
    <2>2. CASE q # s
      BY <1>1, <1>2, <1>4, <2>2
    <2> QED BY <2>1, <2>2
  <1> QED BY <1>2, <1>3, <1>4

\* A session that a step leaves alone keeps a clock its server covers.
LEMMA SessionsCovered ==
  ASSUME IndType, GtidInv, ~Roaming, [Next]_vars, NEW c \in Client,
         session'[c] = session[c], session[c] # NoSession
  PROVE  vv_descend(executed'[session'[c].at], session'[c].clock.vv)
  <1>1. /\ session[c].at \in Server /\ session[c].clock.vv \in Vector
        /\ executed[session[c].at] \in Vector
    BY SessionWithClient DEF IndType, TypeOK, Clock
  <1>2. executed'[session[c].at] \in Vector
    BY <1>1, NextType DEF IndType, TypeOK
  <1>3. vv_descend(executed[session[c].at], session[c].clock.vv)
    BY DEF GtidInv
  <1> QED BY <1>1, <1>2, <1>3, ExecutedGrows, DescendTransitive

\* A commit on s of a transaction whose clock is gtid_executed of s.
LEMMA CommitGtid ==
  ASSUME IndType, GtidInv, ~Roaming, [Next]_vars,
         NEW s \in Server, NEW kind, NEW deleted, NEW clock, NEW read, NEW new,
         Commit(s, kind, deleted, clock, read),
         [kind |-> kind, deleted |-> deleted, clock |-> clock, seen |-> executed[s],
          read |-> read] \in Transaction,
         kind = "update" => clock.vv = executed[s],
         row' = [row EXCEPT ![s] = new],
         new = NoRow \/ new.clock.vv = vv_increment(executed[s], s),
         \A c \in Client : session'[c] = NoSession \/ session'[c] = session[c]
  PROVE  GtidInv'
  <1>1. /\ \A p \in Server : \A i \in DOMAIN log[p] : log'[p][i] = log[p][i]
        /\ \A p \in Server : p # s => log'[p] = log[p]
        /\ DOMAIN log'[s] = DOMAIN log[s] \cup {Len(log[s]) + 1}
        /\ log'[s][Len(log[s]) + 1].kind = kind
        /\ log'[s][Len(log[s]) + 1].clock = clock
        /\ log'[s][Len(log[s]) + 1].seen = executed[s]
    BY CommitFact DEF IndType
  <1>2. /\ executed \in [Server -> Vector] /\ row \in [Server -> Row \cup {NoRow}]
        /\ executed' = [executed EXCEPT ![s] = vv_increment(@, s)]
    BY DEF IndType, TypeOK, Commit
  <1>3. ASSUME NEW r \in Server, row'[r] # NoRow
        PROVE  row'[r].clock.vv = executed'[r]
    <2>1. CASE r = s
      BY <1>2, <1>3, <2>1
    <2>2. CASE r # s
      BY <1>2, <1>3, <2>2 DEF GtidInv
    <2> QED BY <2>1, <2>2
  <1>4. ASSUME NEW o \in Server, NEW i \in DOMAIN log'[o], log'[o][i].kind = "update"
        PROVE  log'[o][i].clock.vv = log'[o][i].seen
    <2>1. CASE i \in DOMAIN log[o]
      BY <1>1, <1>4, <2>1 DEF GtidInv
    <2>2. CASE i \notin DOMAIN log[o]
      <3>1. o = s /\ i = Len(log[s]) + 1
        BY <1>1, <2>2
      <3> QED BY <1>1, <1>4, <3>1
    <2> QED BY <2>1, <2>2
  <1>5. ASSUME NEW c \in Client, session'[c] # NoSession
        PROVE  vv_descend(executed'[session'[c].at], session'[c].clock.vv)
    BY <1>5, SessionsCovered
  <1> QED BY <1>3, <1>4, <1>5 DEF GtidInv

\* While clients write where they read, an accepted clock is gtid_executed itself.
LEMMA UpdateGtid ==
  ASSUME IndType, GtidInv, ~Roaming, NEW c \in Client, NEW s \in Server, Update(c, s)
  PROVE  GtidInv'
  <1>1. PICK deleted \in BOOLEAN, forgotten \in BOOLEAN :
          LET old == row[s].clock
              new == UpdateClock(c, s, forgotten)
          IN  /\ ~MustReconcile(old, new)
              /\ Commit(s, "update", deleted, new, session[c].read)
              /\ row' = [row EXCEPT ![s] = [write |-> NextWrite(s), deleted |-> deleted,
                                            clock |-> FinalClock(old, new, FALSE, s)]]
    BY DEF Update
  <1> DEFINE old == row[s].clock
             new == UpdateClock(c, s, forgotten)
             clock == FinalClock(old, new, FALSE, s)
             newRow == [write |-> NextWrite(s), deleted |-> deleted, clock |-> clock]
  <1>2. /\ session[c] # NoSession /\ row[s] # NoRow /\ old \in Clock
        /\ executed[s] \in Vector /\ session[c].at = s
    BY DEF Update, IndType, TypeOK, Row
  <1>3. new \in Clock /\ session[c].read \in SUBSET Write
    BY <1>2, SessionWithClient DEF UpdateClock
  <1>4. [kind |-> "update", deleted |-> deleted, clock |-> new,
         seen |-> executed[s], read |-> session[c].read] \in Transaction
    BY <1>2, <1>3 DEF Transaction
  <1>5. old.vv = executed[s]
    BY <1>2 DEF GtidInv
  <1>6. new.vv = executed[s]
    <2>1. vv_descend(new.vv, old.vv)
      BY <1>1 DEF MustReconcile
    <2>2. CASE forgotten
      BY <1>5, <2>2 DEF UpdateClock
    <2>3. CASE ~forgotten
      <3>1. new.vv = session[c].clock.vv
        BY <1>2, <2>3, SessionWithClient DEF UpdateClock
      <3>2. vv_descend(executed[s], new.vv)
        BY <1>2, <3>1 DEF GtidInv
      <3> QED BY <1>2, <1>3, <1>5, <2>1, <3>2, DescendAntisymmetric DEF Clock
    <2> QED BY <2>2, <2>3
  <1>7. clock.vv = vv_increment(executed[s], s)
    <2>1. new \in Clock /\ old \in Clock /\ new.vv = executed[s]
      BY <1>2, <1>3, <1>6
    <2> HIDE DEF new, old
    <2>2. clock.vv = vv_increment(new.vv, s)
      BY <2>1, FinalClockFact
    <2> QED BY <2>1, <2>2
  <1>8. /\ Commit(s, "update", deleted, new, session[c].read)
        /\ row' = [row EXCEPT ![s] = newRow]
        /\ newRow.clock = clock
    BY <1>1
  <1>9. \A d \in Client : session'[d] = NoSession \/ session'[d] = session[d]
    BY DEF Update, IndType, TypeOK
  <1>10. [Next]_vars
    BY DEF Next
  <1> HIDE DEF new, newRow, clock, old
  <1> QED BY <1>4, <1>6, <1>7, <1>8, <1>9, <1>10, CommitGtid

(* On a slave: either the literal covers the row, and then both are the same
   vector, or the merge adds nothing to the row's; one increment at the origin
   follows in both cases. *)
LEMMA ReplicateGtid ==
  ASSUME IndType, OneInsert, GtidInv, ~Roaming,
         NEW s \in Server, NEW o \in Server, Replicate(s, o)
  PROVE  GtidInv'
  <1> DEFINE w == <<o, executed[s][o] + 1>>
             t == Transact(w)
             h == Concurrent(row[s].clock, t.clock)
  <1>1. /\ executed' = [executed EXCEPT ![s] = vv_increment(@, o)]
        /\ UNCHANGED <<log, session>> /\ Ready(s, o)
    BY DEF Replicate
  <1>2. /\ w[2] \in DOMAIN log[o] /\ t = log[o][w[2]] /\ t \in Transaction
        /\ vv_descend(executed[s], t.seen)
    BY <1>1, ReadyFact DEF IndType
  <1>3. /\ executed \in [Server -> Vector] /\ row \in [Server -> Row \cup {NoRow}]
    BY DEF IndType, TypeOK
  <1>4. \E new : /\ row' = [row EXCEPT ![s] = new]
                 /\ new = NoRow \/ new.clock.vv = vv_increment(executed[s], o)
    <2>1. CASE t.kind = "insert"
      <3>1. executed[s] = Empty
        BY <2>1, ReplicateOnce
      <3>2. initLogicalClock(o).vv = vv_increment(executed[s], o)
        BY <3>1 DEF initLogicalClock, NullClock, Dot, vv_increment, Empty
      <3> DEFINE new == [write |-> w, deleted |-> FALSE, clock |-> initLogicalClock(o)]
      <3>3. row' = [row EXCEPT ![s] = new] /\ new.clock = initLogicalClock(o)
        BY <2>1 DEF Replicate, ApplyInsert
      <3> HIDE DEF new
      <3> QED BY <3>2, <3>3
    <2>2. CASE t.kind = "update" /\ row[s] = NoRow
      <3>1. row' = [row EXCEPT ![s] = NoRow]
        BY <1>3, <2>2 DEF Replicate, ApplyUpdate
      <3> QED BY <3>1
    <2>3. CASE t.kind = "update" /\ row[s] # NoRow
      <3> DEFINE clock == FinalClock(row[s].clock, t.clock, h, o)
                 new == [write |-> w, deleted |-> t.deleted, clock |-> clock]
      <3>1. /\ row[s].clock \in Clock /\ row[s].clock.vv = executed[s]
            /\ t.clock \in Clock /\ h \in BOOLEAN
        BY <1>2, <1>3, <2>3 DEF Row, Transaction, Concurrent, GtidInv
      <3>2. t.clock.vv = t.seen /\ t.clock.vv \in Vector /\ executed[s] \in Vector
        BY <1>2, <1>3, <2>3, <3>1 DEF GtidInv, Clock
      <3>3. clock.vv = IF h THEN vv_increment(vv_merge(executed[s], t.clock.vv), o)
                            ELSE vv_increment(t.clock.vv, o)
        <4> HIDE DEF h, t
        <4>1. clock.vv = IF h THEN vv_increment(vv_merge(row[s].clock.vv, t.clock.vv), o)
                              ELSE vv_increment(t.clock.vv, o)
          BY <3>1, FinalClockFact
        <4> QED BY <3>1, <4>1
      <3>4. vv_merge(executed[s], t.clock.vv) = executed[s]
        BY <1>2, <3>2, MergeOfCovered
      <3>5. ~h => t.clock.vv = executed[s]
        BY <1>2, <3>1, <3>2, DescendAntisymmetric DEF Concurrent
      <3>6. clock.vv = vv_increment(executed[s], o)
        BY <3>3, <3>4, <3>5
      <3>7. row' = [row EXCEPT ![s] = new] /\ new.clock = clock
        BY <2>3 DEF Replicate, ApplyUpdate
      <3> HIDE DEF clock, new
      <3> QED BY <3>6, <3>7
    <2>4. CASE t.kind = "delete"
      BY <2>4 DEF Replicate, ApplyDelete
    <2> QED BY <1>2, <2>1, <2>2, <2>3, <2>4 DEF Transaction
  <1>5. PICK new : /\ row' = [row EXCEPT ![s] = new]
                   /\ new = NoRow \/ new.clock.vv = vv_increment(executed[s], o)
    BY <1>4
  <1>6. \A r \in Server : row'[r] # NoRow => row'[r].clock.vv = executed'[r]
    BY <1>1, <1>3, <1>5 DEF GtidInv
  <1>7. \A c \in Client : session'[c] # NoSession =>
          vv_descend(executed'[session'[c].at], session'[c].clock.vv)
    <2>1. [Next]_vars
      BY DEF Next
    <2> QED BY <1>1, <2>1, SessionsCovered
  <1> QED BY <1>1, <1>6, <1>7 DEF GtidInv

LEMMA NextGtid == IndType /\ OneInsert /\ GtidInv /\ [Next]_vars => GtidInv'
  <1> SUFFICES ASSUME IndType, OneInsert, GtidInv, [Next]_vars, ~Roaming
               PROVE  GtidInv'
    BY DEF GtidInv
  <1>1. ASSUME NEW s \in Server, Insert(s)
        PROVE  GtidInv'
    <2> DEFINE new == [write |-> NextWrite(s), deleted |-> FALSE, clock |-> initLogicalClock(s)]
    <2>1. NullClock \in Clock /\ executed[s] \in Vector
      BY EmptyType DEF NullClock, Clock, IndType, TypeOK
    <2>2. [kind |-> "insert", deleted |-> FALSE, clock |-> NullClock,
           seen |-> executed[s], read |-> {}] \in Transaction
      BY <2>1 DEF Transaction
    <2>3. executed[s] = Empty
      BY <1>1, NothingExecuted DEF Insert
    <2>4. new.clock.vv = vv_increment(executed[s], s)
      BY <2>3 DEF initLogicalClock, NullClock, Dot, vv_increment, Empty
    <2>5. row' = [row EXCEPT ![s] = new] /\ session' = session
      BY <1>1 DEF Insert
    <2> HIDE DEF new
    <2> QED BY <1>1, <2>2, <2>4, <2>5, CommitGtid DEF Insert
  <1>2. ASSUME NEW s \in Server, HardDelete(s)
        PROVE  GtidInv'
    <2>1. NullClock \in Clock /\ executed[s] \in Vector
      BY EmptyType DEF NullClock, Clock, IndType, TypeOK
    <2>2. [kind |-> "delete", deleted |-> TRUE, clock |-> NullClock,
           seen |-> executed[s], read |-> {}] \in Transaction
      BY <2>1 DEF Transaction
    <2> QED BY <1>2, <2>2, CommitGtid DEF HardDelete
  <1>3. ASSUME UNCHANGED <<row, log, executed>>,
               \A c \in Client : session'[c] # NoSession =>
                 vv_descend(executed[session'[c].at], session'[c].clock.vv)
        PROVE  GtidInv'
    BY <1>3 DEF GtidInv
  <1>4. ASSUME UNCHANGED <<row, log, executed, session>>
        PROVE  GtidInv'
    BY <1>4 DEF GtidInv
  <1>5. ASSUME NEW c \in Client, NEW s \in Server, Read(c, s)
        PROVE  GtidInv'
    <2>1. row[s].clock.vv = executed[s] /\ executed[s] \in Vector
      BY <1>5 DEF Read, GtidInv, IndType, TypeOK
    <2>2. vv_descend(executed[s], row[s].clock.vv)
      BY <2>1 DEF vv_descend, Vector
    <2>3. \A d \in Client : session'[d] # NoSession =>
             vv_descend(executed[session'[d].at], session'[d].clock.vv)
      BY <1>5, <2>2 DEF Read, GtidInv, IndType, TypeOK
    <2> QED BY <1>3, <1>5, <2>3 DEF Read
  <1>6. ASSUME NEW c \in Client, ReadSiblings(c)
        PROVE  GtidInv'
    <2>1. session[c] # NoSession
      BY <1>6 DEF ReadSiblings, NoSession
    <2>2. /\ session'[c].at = session[c].at /\ session'[c].clock.vv = session[c].clock.vv
          /\ \A d \in Client : d # c => session'[d] = session[d]
      BY <1>6, <2>1 DEF ReadSiblings, IndType, TypeOK, Session, Clock
    <2>3. \A d \in Client : session'[d] # NoSession =>
             vv_descend(executed[session'[d].at], session'[d].clock.vv)
      BY <2>1, <2>2 DEF GtidInv
    <2> QED BY <1>3, <1>6, <2>3 DEF ReadSiblings
  <1>7. ASSUME NEW c \in Client, Abandon(c)
        PROVE  GtidInv'
    <2>1. \A d \in Client : session'[d] # NoSession =>
             vv_descend(executed[session'[d].at], session'[d].clock.vv)
      BY <1>7 DEF Abandon, GtidInv, IndType, TypeOK
    <2> QED BY <1>3, <1>7, <2>1 DEF Abandon
  <1>8. ASSUME NEW s \in Server, PurgeSiblings(s) \/ PurgeAll(s) \/ ReplicatePurge(s)
        PROVE  GtidInv'
    BY <1>4, <1>8 DEF PurgeSiblings, PurgeAll, ReplicatePurge
  <1> QED
    BY <1>1, <1>2, <1>4, <1>5, <1>6, <1>7, <1>8, UpdateGtid, ReplicateGtid DEF Next, vars

(* While clients write where they read, the trigger computes on every server
   the counter its origin stored: the vector of a row is gtid_executed, so two
   different writes never carry the same dot. *)
THEOREM CountersAreGtidsAlways == Spec => []CountersAreGtids
  <1>1. Init => GtidInv
    BY DEF Init, GtidInv
  <1>2. Spec => []IndType
    BY InitType, NextType, PTL DEF Spec
  <1>3. GtidInv => CountersAreGtids
    BY DEF GtidInv, CountersAreGtids
  <1> QED BY <1>1, <1>2, <1>3, InsertedOnce, NextGtid, PTL DEF Spec

=============================================================================
