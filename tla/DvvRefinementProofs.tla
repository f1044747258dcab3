------------------------ MODULE DvvRefinementProofs ------------------------
(***************************************************************************)
(* What the rows and siblings of a server hold, for clients that write     *)
(* where they read: theorems about Dvv and its refinement of the           *)
(* multi-value register, for any servers, clients and number of writes.    *)
(***************************************************************************)
EXTENDS DvvRefinement, DvvProofs, FiniteSetTheorems

\* The writes that a vector of counters counts.
Below(v) == {w \in Write : w[2] <= v[w[1]]}

\* The write that s executes next of those that originated at o.
NextOf(s, o) == <<o, executed[s][o] + 1>>

(* A server has executed what the transactions it has executed had seen, and a
   transaction had seen those of its origin that came before. *)
InOrder ==
    \A o \in Server : \A i \in DOMAIN log[o] :
        /\ log[o][i].seen[o] = i - 1
        /\ log[o][i].kind = "insert" => ~log[o][i].deleted

Causal ==
    /\ InOrder
    /\ \A s \in Server : \A w \in Below(executed[s]) : vv_descend(executed[s], Transact(w).seen)

\* A row or sibling of s carries the dot of the write it stores, which is not superseded.
Named(r, s) ==
    /\ r.write \in Below(executed[s])
    /\ vv_dot(r.clock) = Dot(r.write[1], r.write[2])
    /\ r.deleted = Transact(r.write).deleted
    /\ ~r.clock.dirty
    /\ \A x \in Below(executed[s]) : r.write \notin Below(Transact(x).seen)

\* What is neither superseded nor deleted, nor lost to a purge, is found.
Exhaustive(s) ==
    \A w \in Below(executed[s]) :
        \/ Transact(w).deleted
        \/ w \in purge.lost
        \/ \E r \in Found(s) : r.write = w
        \/ \E x \in Below(executed[s]) : w \in Below(Transact(x).seen)

ShownAt(s) ==
    /\ executed[s] = Empty => sibling[s] = {}
    /\ row[s] # NoRow =>
         /\ \A r \in Found(s) : Named(r, s)
         /\ Exhaustive(s)
         /\ LiveSiblings(s) # {} => row[s].clock.hasSibling
         /\ \A x \in Below(executed[s]) : Transact(x).kind # "delete"

Shown == \A s \in Server : ShownAt(s)
-----------------------------------------------------------------------------
(* Writes and vectors *)

LEMMA BelowIncrement ==
  ASSUME NEW v \in Vector, NEW o \in Server
  PROVE  /\ <<o, v[o] + 1>> \in Write /\ <<o, v[o] + 1>> \notin Below(v)
         /\ Below(vv_increment(v, o)) = Below(v) \cup {<<o, v[o] + 1>>}
  <1>1. v[o] \in Nat /\ \A p \in Server : v[p] \in Nat
    BY DEF Vector
  <1>2. <<o, v[o] + 1>> \in Write /\ <<o, v[o] + 1>> \notin Below(v)
    BY <1>1 DEF Write, Below
  <1>3. ASSUME NEW w \in Write
        PROVE  w[2] <= vv_increment(v, o)[w[1]] <=> w[2] <= v[w[1]] \/ w = <<o, v[o] + 1>>
    <2>1. w[1] \in Server /\ w[2] \in Nat /\ w = <<w[1], w[2]>> /\ v[w[1]] \in Nat
      BY <1>1 DEF Write
    <2>2. CASE w[1] = o
      BY <1>1, <2>1, <2>2, IncrementFact
    <2>3. CASE w[1] # o
      BY <2>1, <2>3, IncrementFact
    <2> QED
      BY <2>2, <2>3
  <1>4. \A w : w \in Below(vv_increment(v, o)) <=> w \in Below(v) \cup {<<o, v[o] + 1>>}
    BY <1>2, <1>3 DEF Below
  <1> QED
    BY <1>2, <1>4

LEMMA BelowMonotone ==
  ASSUME NEW v \in Vector, NEW u \in Vector, vv_descend(v, u)
  PROVE  Below(u) \subseteq Below(v)
  BY DEF Below, Write, Vector, vv_descend

LEMMA CoveredIsBelow ==
  ASSUME NEW v \in Vector, NEW w \in Write
  PROVE  vv_descend(v, Dot(w[1], w[2])) <=> w \in Below(v)
  <1>1. /\ w[1] \in Server /\ w[2] \in Nat
        /\ \A p \in Server : v[p] \in Nat
        /\ \A p \in Server : Dot(w[1], w[2])[p] = IF p = w[1] THEN w[2] ELSE 0
    BY DEF Write, Vector, Dot, Empty
  <1> QED
    BY <1>1 DEF vv_descend, Below

\* The dot is left out where the vector has one member only.
LEMMA DotOfWrite ==
  ASSUME NEW v \in Vector, NEW o \in Server, v[o] >= 1, NEW clock, clock.vv = v,
         clock.dot = IF Cardinality(Members(v)) > 1 THEN Dot(o, v[o]) ELSE Empty
  PROVE  vv_dot(clock) = Dot(o, v[o])
  <1>1. v[o] \in Nat /\ \A p \in Server : v[p] \in Nat
    BY DEF Vector
  <1>2. Dot(o, v[o]) \in Vector /\ Empty \in Vector
        /\ \A p \in Server : Dot(o, v[o])[p] = (IF p = o THEN v[o] ELSE 0) /\ Empty[p] = 0
    BY <1>1, DotFact, EmptyType DEF Dot, Empty
  <1>3. CASE Cardinality(Members(v)) > 1
    BY <1>2, <1>3 DEF vv_dot
  <1>4. CASE ~(Cardinality(Members(v)) > 1)
    <2>1. \A p \in Server : p # o => v[p] = 0
      <3> SUFFICES ASSUME NEW p \in Server, p # o, v[p] # 0
                   PROVE  Cardinality(Members(v)) > 1
        BY <1>4
      <3>1. IsFiniteSet(Members(v)) /\ {o, p} \subseteq Members(v)
        BY <1>1, ServerAssumption, FS_Subset DEF Members
      <3>2. Cardinality({o, p}) = 2
        <4>1. IsFiniteSet({o}) /\ Cardinality({o}) = 1 /\ p \notin {o} /\ {o, p} = {o} \cup {p}
          BY FS_Singleton
        <4> QED
          BY <4>1, FS_AddElement
      <3>3. Cardinality({o, p}) <= Cardinality(Members(v)) /\ Cardinality(Members(v)) \in Nat
        BY <3>1, FS_Subset, FS_CardinalityType
      <3> QED
        BY <3>2, <3>3
    <2>2. v = Dot(o, v[o])
      <3>1. \A p \in Server : v[p] = Dot(o, v[o])[p]
        BY <1>2, <2>1
      <3> QED
        BY <1>2, <3>1 DEF Vector
    <2> QED
      BY <1>4, <2>2 DEF vv_dot
  <1> QED
    BY <1>3, <1>4

\* What a server has executed is in the logs.
LEMMA BelowLogged ==
  ASSUME IndType, NEW s \in Server, NEW w \in Below(executed[s])
  PROVE  /\ w \in Write /\ w[1] \in Server /\ w[2] \in DOMAIN log[w[1]]
         /\ Transact(w) \in Transaction /\ Transact(w).seen \in Vector
  <1>1. w \in Write /\ w[1] \in Server /\ w[2] \in Nat \ {0} /\ w[2] <= executed[s][w[1]]
    BY DEF Below, Write
  <1>2. executed[s][w[1]] \in Nat /\ executed[s][w[1]] <= Len(log[w[1]])
        /\ log[w[1]] \in Seq(Transaction)
    BY <1>1 DEF IndType, TypeOK, Logged, Vector
  <1>3. w[2] \in 1 .. Len(log[w[1]])
    BY <1>1, <1>2
  <1>4. Transact(w) \in Transaction
    BY <1>2, <1>3 DEF Transact
  <1> QED
    BY <1>1, <1>2, <1>3, <1>4 DEF Transaction

-----------------------------------------------------------------------------
(* A step in which s executes the next transaction that originated at o *)

Incoming(s, o) == log'[o][executed[s][o] + 1]

Execution(s, o) ==
    /\ executed' = [executed EXCEPT ![s] = vv_increment(@, o)]
    /\ \A q \in Server : \A x \in Below(executed[q]) : Transact(x)' = Transact(x)
    /\ Incoming(s, o) \in Transaction
    /\ vv_descend(executed[s], Incoming(s, o).seen)
    /\ InOrder'
    /\ purge' = purge

LEMMA CommitExecutes ==
  ASSUME IndType, InOrder, NEW s \in Server, NEW kind, NEW deleted, NEW clock, NEW read,
         Commit(s, kind, deleted, clock, read),
         kind = "insert" => ~deleted,
         [kind |-> kind, deleted |-> deleted, clock |-> clock, seen |-> executed[s],
          read |-> read] \in Transaction
  PROVE  /\ Execution(s, s)
         /\ NextWrite(s) = NextOf(s, s)
         /\ Incoming(s, s) = [kind |-> kind, deleted |-> deleted, clock |-> clock,
                              seen |-> executed[s], read |-> read]
  <1> DEFINE t == [kind |-> kind, deleted |-> deleted, clock |-> clock, seen |-> executed[s],
                   read |-> read]
  <1>1. /\ \A p \in Server : \A i \in DOMAIN log[p] : log'[p][i] = log[p][i]
        /\ \A p \in Server : p # s => log'[p] = log[p]
        /\ DOMAIN log'[s] = DOMAIN log[s] \cup {Len(log[s]) + 1}
        /\ log'[s][Len(log[s]) + 1] = t
        /\ purge' = purge
    BY CommitFact DEF IndType
  <1>2. executed[s][s] = Len(log[s]) /\ executed[s] \in Vector /\ executed[s][s] \in Nat
    BY DEF IndType, TypeOK, Logged, Vector
  <1>3. \A q \in Server : \A x \in Below(executed[q]) : Transact(x)' = Transact(x)
    BY <1>1, BelowLogged DEF Transact
  <1>4. Incoming(s, s) = t /\ NextWrite(s) = NextOf(s, s)
    BY <1>1, <1>2 DEF Incoming, NextWrite, NextOf
  <1>5. vv_descend(executed[s], executed[s])
    BY <1>2 DEF vv_descend, Vector
  <1>6. InOrder'
    <2> SUFFICES ASSUME NEW o \in Server, NEW i \in DOMAIN log'[o]
                 PROVE  /\ log'[o][i].seen[o] = i - 1
                        /\ log'[o][i].kind = "insert" => ~log'[o][i].deleted
      BY DEF InOrder
    <2>1. CASE i \in DOMAIN log[o]
      BY <1>1, <2>1 DEF InOrder
    <2>2. CASE i \notin DOMAIN log[o]
      <3>1. o = s /\ i = Len(log[s]) + 1
        BY <1>1, <2>2
      <3> QED
        BY <1>1, <1>2, <3>1
    <2> QED
      BY <2>1, <2>2
  <1> QED
    BY <1>1, <1>3, <1>4, <1>5, <1>6 DEF Execution, Commit

LEMMA ReplicateExecutes ==
  ASSUME IndType, InOrder, NEW s \in Server, NEW o \in Server, Replicate(s, o)
  PROVE  /\ Execution(s, o)
         /\ Incoming(s, o) = Transact(NextOf(s, o))
         /\ executed[s][o] + 1 \in DOMAIN log[o]
  <1>1. /\ executed' = [executed EXCEPT ![s] = vv_increment(@, o)]
        /\ log' = log /\ Ready(s, o) /\ purge' = purge
    BY DEF Replicate
  <1>2. /\ executed[s][o] + 1 \in DOMAIN log[o]
        /\ log[o][executed[s][o] + 1] \in Transaction
        /\ vv_descend(executed[s], log[o][executed[s][o] + 1].seen)
        /\ Transact(NextOf(s, o)) = log[o][executed[s][o] + 1]
    BY <1>1, ReadyFact DEF IndType, NextOf
  <1>3. \A x : Transact(x)' = log[x[1]][x[2]]
    BY <1>1 DEF Transact
  <1> QED
    BY <1>1, <1>2, <1>3 DEF Execution, Incoming, InOrder, Transact

\* What an execution adds to the writes a server has executed.
LEMMA ExecutionFact ==
  ASSUME IndType, NEW s \in Server, NEW o \in Server, Execution(s, o)
  PROVE  /\ NextOf(s, o) \in Write /\ NextOf(s, o) \notin Below(executed[s])
         /\ NextOf(s, o)[1] = o /\ NextOf(s, o)[2] = executed[s][o] + 1
         /\ Below(executed'[s]) = Below(executed[s]) \cup {NextOf(s, o)}
         /\ \A q \in Server : q # s => executed'[q] = executed[q]
         /\ executed'[s] = vv_increment(executed[s], o)
         /\ executed'[s] \in Vector /\ executed[s] \in Vector
         /\ vv_descend(executed'[s], executed[s])
         /\ executed'[s][o] = executed[s][o] + 1 /\ executed[s][o] \in Nat
         /\ Incoming(s, o).seen \in Vector
         /\ Below(Incoming(s, o).seen) \subseteq Below(executed[s])
  <1>1. executed \in [Server -> Vector]
    BY DEF IndType, TypeOK
  <1>2. executed'[s] = vv_increment(executed[s], o) /\ executed[s] \in Vector
    BY <1>1 DEF Execution
  <1>3. NextOf(s, o) = <<o, executed[s][o] + 1>>
    BY DEF NextOf
  <1>4. Incoming(s, o).seen \in Vector
    BY DEF Execution, Transaction
  <1>5. executed[s][o] \in Nat
    BY <1>2 DEF Vector
  <1> QED
    BY <1>1, <1>2, <1>3, <1>4, <1>5, BelowIncrement, BelowMonotone, IncrementFact DEF Execution

LEMMA ExecutionCausal ==
  ASSUME IndType, Causal, NEW s \in Server, NEW o \in Server, Execution(s, o)
  PROVE  Causal'
  <1> SUFFICES ASSUME NEW q \in Server, NEW w \in Below(executed'[q])
               PROVE  vv_descend(executed'[q], Transact(w)'.seen)
    BY DEF Causal, Execution, Below
  <1>1. CASE w \in Below(executed[q])
    <2>1. Transact(w)' = Transact(w) /\ Transact(w).seen \in Vector
          /\ vv_descend(executed[q], Transact(w).seen)
      BY <1>1, BelowLogged DEF Causal, Execution
    <2>2. executed[q] \in Vector /\ executed'[q] \in Vector /\ vv_descend(executed'[q], executed[q])
      <3>1. CASE q = s
        BY <3>1, ExecutionFact
      <3>2. CASE q # s
        <4>1. executed'[q] = executed[q] /\ executed[q] \in Vector
          BY <3>2, ExecutionFact DEF IndType, TypeOK
        <4> QED
          BY <4>1 DEF vv_descend, Vector
      <3> QED
        BY <3>1, <3>2
    <2> QED
      BY <2>1, <2>2, DescendTransitive
  <1>2. CASE w \notin Below(executed[q])
    <2>1. q = s /\ w = NextOf(s, o) /\ w[1] = o /\ w[2] = executed[s][o] + 1
      BY <1>2, ExecutionFact
    <2>2. Transact(w)' = Incoming(s, o)
      BY <2>1 DEF Transact, Incoming
    <2> QED
      BY <2>1, <2>2, ExecutionFact, DescendTransitive DEF Execution
  <1> QED
    BY <1>1, <1>2

-----------------------------------------------------------------------------
(* What a server shows after an execution *)

LEMMA EmptyBelow == Below(Empty) = {}
  BY DEF Below, Empty, Write

LEMMA NoRowWrite == NoRow.write \notin Write
  BY DEF NoRow, Write

\* What s found and the vector u does not cover.
Remaining(s, u) == {r \in Found(s) : ~r.deleted /\ r.write \notin Below(u)}

\* A writer that had seen all that its server executed leaves nothing to remain.
LEMMA NothingRemains ==
  ASSUME NEW s \in Server, ShownAt(s), row[s] # NoRow \/ executed[s] = Empty
  PROVE  Remaining(s, executed[s]) = {}
  <1>1. CASE row[s] # NoRow
    BY <1>1 DEF ShownAt, Named, Remaining
  <1>2. CASE row[s] = NoRow
    BY <1>2 DEF ShownAt, Remaining, Found, LiveSiblings
  <1> QED
    BY <1>1, <1>2

LEMMA ExecutionShown ==
  ASSUME IndType, Causal, NEW s \in Server, NEW o \in Server, Execution(s, o), ShownAt(s),
         row[s] # NoRow \/ executed[s] = Empty,
         Incoming(s, o).kind # "delete",
         row'[s].write = NextOf(s, o),
         row'[s].deleted = Incoming(s, o).deleted,
         ~row'[s].clock.dirty,
         vv_dot(row'[s].clock) = Dot(o, executed[s][o] + 1),
         LiveSiblings(s)' = Remaining(s, Incoming(s, o).seen),
         LiveSiblings(s)' # {} => row'[s].clock.hasSibling
  PROVE  ShownAt(s)'
  <1> DEFINE t == Incoming(s, o)
  <1>0. PICK n : n = NextOf(s, o)
    OBVIOUS
  <1>1. /\ n \notin Below(executed[s]) /\ n[1] = o /\ n[2] = executed[s][o] + 1
        /\ Below(executed'[s]) = Below(executed[s]) \cup {n}
        /\ Below(executed[s])' = Below(executed'[s])
        /\ Below(t.seen) \subseteq Below(executed[s])
    BY <1>0, ExecutionFact DEF Below
  <1>2. Transact(n)' = t
    BY <1>1 DEF Transact, Incoming
  <1>3. \A x \in Below(executed[s]) :
          /\ Transact(x)' = Transact(x)
          /\ Below(Transact(x).seen) \subseteq Below(executed[s])
          /\ Below(Transact(x).seen)' = Below(Transact(x).seen)
    BY BelowLogged, BelowMonotone DEF Causal, Execution, IndType, TypeOK, Below
  <1>4. Below(Transact(n).seen)' = Below(t.seen)
    BY <1>2 DEF Below
  <1>5. /\ row[s] # NoRow => \A r \in Found(s) : Named(r, s)
        /\ row[s] # NoRow => \A x \in Below(executed[s]) : Transact(x).kind # "delete"
        /\ row[s] # NoRow => Exhaustive(s)
        /\ row[s] = NoRow => Found(s) = {} /\ Below(executed[s]) = {}
    BY EmptyBelow DEF ShownAt, Found, LiveSiblings
  <1>6. row'[s] # NoRow /\ Found(s)' = {row'[s]} \cup Remaining(s, t.seen)
    BY <1>0, ExecutionFact, NoRowWrite DEF Found
  <1>7. Named(row[s], s)'
    <2>1. \A x \in Below(executed'[s]) : n \notin Below(Transact(x).seen)'
      BY <1>1, <1>3, <1>4
    <2> QED
      BY <1>0, <1>1, <1>2, <2>1 DEF Named
  <1>8. ASSUME NEW r \in Remaining(s, t.seen)
        PROVE  Named(r, s)'
    <2>1. Named(r, s) /\ r.write \notin Below(t.seen)
      BY <1>5 DEF Remaining
    <2>2. r.write \in Below(executed[s]) /\ Transact(r.write)' = Transact(r.write)
      BY <1>3, <2>1 DEF Named
    <2>3. \A x \in Below(executed'[s]) : r.write \notin Below(Transact(x).seen)'
      BY <1>1, <1>3, <1>4, <2>1 DEF Named
    <2> QED
      BY <1>1, <2>1, <2>2, <2>3 DEF Named
  <1>9. \A r \in Found(s)' : Named(r, s)'
    BY <1>6, <1>7, <1>8
  <1>10. Exhaustive(s)'
    <2> SUFFICES ASSUME NEW w \in Below(executed'[s])
                 PROVE  \/ Transact(w)'.deleted
                        \/ w \in purge'.lost
                        \/ \E r \in Found(s)' : r.write = w
                        \/ \E x \in Below(executed'[s]) : w \in Below(Transact(x).seen)'
      BY <1>1 DEF Exhaustive
    <2>1. CASE w = n
      BY <1>0, <1>6, <2>1
    <2>2. CASE w \in Below(executed[s])
      <3>1. row[s] # NoRow /\ Exhaustive(s)
        BY <1>5, <2>2
      <3>2. CASE \E r \in Found(s) : r.write = w /\ ~Transact(w).deleted
        <4>1. PICK r \in Found(s) : r.write = w /\ ~Transact(w).deleted
          BY <3>2
        <4>2. ~r.deleted
          BY <1>5, <3>1, <4>1 DEF Named
        <4>3. CASE w \in Below(t.seen)
          BY <1>1, <1>4, <4>3
        <4>4. CASE w \notin Below(t.seen)
          BY <1>6, <4>1, <4>2, <4>4 DEF Remaining
        <4> QED
          BY <4>3, <4>4
      <3>3. CASE Transact(w).deleted \/ w \in purge.lost
        BY <1>3, <2>2, <3>3 DEF Execution
      <3>4. CASE \E x \in Below(executed[s]) : w \in Below(Transact(x).seen)
        BY <1>1, <1>3, <3>4
      <3> QED
        BY <2>2, <3>1, <3>2, <3>3, <3>4 DEF Exhaustive
    <2> QED
      BY <1>1, <2>1, <2>2
  <1>11. executed'[s] # Empty
    BY <1>0, <1>1, EmptyBelow
  <1>12. \A x \in Below(executed'[s]) : Transact(x)'.kind # "delete"
    BY <1>1, <1>2, <1>3, <1>5
  <1> QED
    BY <1>1, <1>9, <1>10, <1>11, <1>12 DEF ShownAt

\* Nothing is said of a server whose row was deleted.
LEMMA ExecutionDeletes ==
  ASSUME IndType, NEW s \in Server, NEW o \in Server, Execution(s, o), row'[s] = NoRow
  PROVE  ShownAt(s)'
  <1>1. executed'[s] # Empty
    BY ExecutionFact, EmptyBelow
  <1> QED
    BY <1>1 DEF ShownAt

\* A step that takes from the siblings of s only what becomes lost.
OnlyLost(s) ==
    /\ purge.lost \subseteq purge'.lost
    /\ LiveSiblings(s)' \subseteq LiveSiblings(s)
    /\ \A r \in LiveSiblings(s) : r \in LiveSiblings(s)' \/ r.write \in purge'.lost
    /\ sibling[s] = {} => sibling'[s] = {}

\* A server keeps what it holds if its row and what it executed stay.
LEMMA KeptShown ==
  ASSUME NEW s \in Server, ShownAt(s), row'[s] = row[s], executed'[s] = executed[s],
         OnlyLost(s), \A x \in Below(executed[s]) : Transact(x)' = Transact(x)
  PROVE  ShownAt(s)'
  <1>1. /\ Found(s)' \subseteq Found(s)
        /\ \A r \in Found(s) : r \in Found(s)' \/ r.write \in purge'.lost
    BY DEF Found, OnlyLost
  <1>2. Below(executed[s])' = Below(executed[s])
    BY DEF Below
  <1>3. \A x \in Below(executed[s]) :
          /\ Transact(x)' = Transact(x)
          /\ Below(Transact(x).seen)' = Below(Transact(x).seen)
    BY DEF Below
  <1>4. ASSUME NEW r \in Found(s), Named(r, s)
        PROVE  Named(r, s)'
    BY <1>2, <1>3, <1>4 DEF Named
  <1>5. Exhaustive(s) => Exhaustive(s)'
    BY <1>1, <1>2, <1>3 DEF Exhaustive, OnlyLost
  <1> QED
    BY <1>1, <1>2, <1>3, <1>4, <1>5 DEF ShownAt, OnlyLost

\* The DELETEs of sibling rows take only marked ones, or else what becomes lost.
LEMMA PurgeFact ==
  ASSUME IndType, NEW s \in Server, PurgeSiblings(s) \/ PurgeAll(s) \/ ReplicatePurge(s)
  PROVE  UNCHANGED <<row, log, executed, session>> /\ \A q \in Server : OnlyLost(q)
  <1>1. UNCHANGED <<row, log, executed, session>>
    BY DEF PurgeSiblings, PurgeAll, ReplicatePurge
  <1>2. purge \in Purge /\ sibling \in [Server -> SUBSET Row]
    BY DEF IndType, TypeOK
  <1>3. ASSUME NEW q \in Server, q # s
        PROVE  OnlyLost(q)
    <2>1. sibling'[q] = sibling[q]
      BY <1>2, <1>3 DEF PurgeSiblings, PurgeAll, ReplicatePurge
    <2>2. purge.lost \subseteq purge'.lost
      BY <1>2 DEF PurgeSiblings, PurgeAll, ReplicatePurge, Purge
    <2> QED
      BY <2>1, <2>2 DEF OnlyLost, LiveSiblings
  <1>4. CASE PurgeSiblings(s)
    <2>1. sibling'[s] = LiveSiblings(s) /\ purge' = purge
      BY <1>2, <1>4 DEF PurgeSiblings
    <2> QED
      BY <1>1, <1>3, <2>1 DEF OnlyLost, LiveSiblings
  <1>5. CASE PurgeAll(s)
    <2>1. sibling'[s] = {} /\ LiveSiblings(s) = {} /\ purge'.lost = purge.lost
      BY <1>2, <1>5 DEF PurgeAll, Purge
    <2> QED
      BY <1>1, <1>3, <2>1 DEF OnlyLost, LiveSiblings
  <1>6. CASE ReplicatePurge(s)
    <2>1. sibling'[s] = {} /\ purge'.lost = purge.lost \cup {r.write : r \in LiveSiblings(s)}
      BY <1>2, <1>6 DEF ReplicatePurge, Purge
    <2> QED
      BY <1>1, <1>3, <2>1 DEF OnlyLost, LiveSiblings
  <1> QED
    BY <1>4, <1>5, <1>6

-----------------------------------------------------------------------------
(* Every action keeps what is held, while clients write where they read *)

\* A step of s leaves what another server shows.
LEMMA OthersShown ==
  ASSUME IndType, Shown, NEW s \in Server, NEW o \in Server, Execution(s, o),
         \A q \in Server : q # s => row'[q] = row[q] /\ sibling'[q] = sibling[q],
         ShownAt(s)'
  PROVE  Shown'
  <1> SUFFICES ASSUME NEW q \in Server, q # s
               PROVE  ShownAt(q)'
    BY DEF Shown
  <1>1. ShownAt(q) /\ executed'[q] = executed[q]
    BY ExecutionFact DEF Shown
  <1>2. \A x \in Below(executed[q]) : Transact(x)' = Transact(x)
    BY DEF Execution
  <1>3. OnlyLost(q)
    BY DEF OnlyLost, LiveSiblings, Execution
  <1> QED
    BY <1>1, <1>2, <1>3, KeptShown

LEMMA InsertShown ==
  ASSUME IndType, OneInsert, Causal, Shown, NEW s \in Server, Insert(s)
  PROVE  Causal' /\ Shown'
  <1> DEFINE new == [write |-> NextWrite(s), deleted |-> FALSE, clock |-> initLogicalClock(s)]
             t == [kind |-> "insert", deleted |-> FALSE, clock |-> NullClock,
                   seen |-> executed[s], read |-> {}]
  <1>1. executed[s] = Empty /\ row[s] = NoRow
    BY NothingExecuted DEF Insert
  <1>2. NullClock \in Clock /\ executed[s] \in Vector
    BY EmptyType DEF NullClock, Clock, IndType, TypeOK
  <1>3. t \in Transaction
    BY <1>2 DEF Transaction
  <1>4. Execution(s, s) /\ NextWrite(s) = NextOf(s, s) /\ Incoming(s, s) = t
    BY <1>3, CommitExecutes DEF Insert, Causal
  <1>5. row' = [row EXCEPT ![s] = new] /\ sibling' = sibling
    BY DEF Insert
  <1>6. row'[s] = new /\ \A q \in Server : q # s => row'[q] = row[q]
    BY <1>5 DEF IndType, TypeOK
  <1>7. sibling[s] = {} /\ ShownAt(s)
    BY <1>1 DEF Shown, ShownAt
  <1>8. LiveSiblings(s)' = {} /\ Remaining(s, Incoming(s, s).seen) = {}
    BY <1>1, <1>5, <1>7 DEF LiveSiblings, Remaining, Found
  <1>9. vv_dot(new.clock) = Dot(s, executed[s][s] + 1) /\ ~new.clock.dirty
    BY <1>1 DEF vv_dot, initLogicalClock, NullClock, Empty
  <1>10. /\ new.write = NextOf(s, s) /\ new.deleted = Incoming(s, s).deleted
         /\ Incoming(s, s).kind # "delete"
    BY <1>4
  <1> HIDE DEF new, t
  <1>11. ShownAt(s)'
    BY <1>1, <1>4, <1>6, <1>7, <1>8, <1>9, <1>10, ExecutionShown
  <1> QED
    BY <1>4, <1>5, <1>6, <1>11, OthersShown, ExecutionCausal

\* An accepted UPDATE has seen all that the row and its siblings contain.
LEMMA UpdateShown ==
  ASSUME IndType, GtidInv', ~Roaming, Causal, Shown, NEW c \in Client, NEW s \in Server, Update(c, s)
  PROVE  Causal' /\ Shown'
  <1>1. PICK deleted \in BOOLEAN, forgotten \in BOOLEAN :
          LET old == row[s].clock
              new == UpdateClock(c, s, forgotten)
          IN  /\ Commit(s, "update", deleted, new, session[c].read)
              /\ row' = [row EXCEPT ![s] = [write |-> NextWrite(s), deleted |-> deleted,
                                            clock |-> FinalClock(old, new, FALSE, s)]]
              /\ sibling' = [sibling EXCEPT
                               ![s] = IF old.hasSibling THEN MarkDeleted(@, @) ELSE @]
    BY DEF Update
  <1> DEFINE old == row[s].clock
             new == UpdateClock(c, s, forgotten)
             clock == FinalClock(old, new, FALSE, s)
             newRow == [write |-> NextWrite(s), deleted |-> deleted, clock |-> clock]
             t == [kind |-> "update", deleted |-> deleted, clock |-> new,
                   seen |-> executed[s], read |-> session[c].read]
  <1>2. /\ session[c] # NoSession /\ row[s] # NoRow /\ old \in Clock
        /\ executed[s] \in Vector /\ session[c].at = s
    BY DEF Update, IndType, TypeOK, Row
  <1>3. new \in Clock /\ session[c].read \in SUBSET Write
    BY <1>2, SessionWithClient DEF UpdateClock
  <1>4. t \in Transaction
    BY <1>2, <1>3 DEF Transaction
  <1>5. Execution(s, s) /\ NextWrite(s) = NextOf(s, s) /\ Incoming(s, s) = t
    BY <1>1, <1>4, CommitExecutes DEF Causal
  <1>6. /\ row'[s] = newRow
        /\ \A q \in Server : q # s => row'[q] = row[q] /\ sibling'[q] = sibling[q]
        /\ sibling'[s] = IF old.hasSibling THEN MarkDeleted(sibling[s], sibling[s]) ELSE sibling[s]
    BY <1>1 DEF IndType, TypeOK
  <1>7. ShownAt(s) /\ (~old.hasSibling => LiveSiblings(s) = {})
    BY <1>2 DEF Shown, ShownAt
  <1>8. LiveSiblings(s)' = {}
    BY <1>6, <1>7 DEF LiveSiblings, MarkDeleted, IndType, TypeOK, Row
  <1>9. Remaining(s, Incoming(s, s).seen) = {}
    BY <1>2, <1>5, <1>7, NothingRemains
  <1>10. /\ newRow.write = NextOf(s, s) /\ newRow.deleted = Incoming(s, s).deleted
         /\ Incoming(s, s).kind # "delete"
    BY <1>5
  <1>11. newRow # NoRow
    <2> HIDE DEF newRow
    <2> QED
      BY <1>5, <1>10, ExecutionFact, NoRowWrite
  <1>12. ~newRow.clock.dirty /\ vv_dot(newRow.clock) = Dot(s, executed[s][s] + 1)
    <2>1. newRow.clock.vv = executed'[s]
      BY <1>6, <1>11 DEF GtidInv
    <2>2. /\ newRow.clock.dot = IF Cardinality(Members(executed'[s])) > 1
                                THEN Dot(s, executed'[s][s]) ELSE Empty
          /\ ~newRow.clock.dirty
      BY <2>1 DEF FinalClock
    <2>3. executed'[s] \in Vector /\ executed'[s][s] = executed[s][s] + 1 /\ executed[s][s] \in Nat
      BY <1>5, ExecutionFact
    <2> HIDE DEF newRow
    <2> QED
      BY <2>1, <2>2, <2>3, DotOfWrite
  <1> HIDE DEF newRow, t
  <1>13. ShownAt(s)'
    BY <1>2, <1>5, <1>6, <1>7, <1>8, <1>9, <1>10, <1>12, ExecutionShown
  <1> QED
    BY <1>5, <1>6, <1>13, OthersShown, ExecutionCausal

LEMMA HardDeleteShown ==
  ASSUME IndType, Causal, Shown, NEW s \in Server, HardDelete(s)
  PROVE  Causal' /\ Shown'
  <1>1. NullClock \in Clock /\ executed[s] \in Vector
    BY EmptyType DEF NullClock, Clock, IndType, TypeOK
  <1>2. [kind |-> "delete", deleted |-> TRUE, clock |-> NullClock,
         seen |-> executed[s], read |-> {}] \in Transaction
    BY <1>1 DEF Transaction
  <1>3. Execution(s, s)
    BY <1>2, CommitExecutes DEF HardDelete, Causal
  <1>4. /\ row'[s] = NoRow
        /\ \A q \in Server : q # s => row'[q] = row[q] /\ sibling'[q] = sibling[q]
    BY DEF HardDelete, IndType, TypeOK
  <1> QED
    BY <1>3, <1>4, ExecutionDeletes, OthersShown, ExecutionCausal

\* The siblings a slave keeps are those the statement's writer had not seen.
LEMMA SiblingsKept ==
  ASSUME IndType, GtidInv, ~Roaming, NEW s \in Server, row[s] # NoRow, ShownAt(s),
         NEW t \in Transaction, t.clock.vv = t.seen, vv_descend(executed[s], t.seen)
  PROVE  {r \in SiblingsOnSlave(sibling[s], row[s], t.clock) : ~r.deleted} = Remaining(s, t.seen)
  <1> DEFINE old == row[s].clock
             marked == MarkDeleted(sibling[s], Covered(sibling[s], t.clock.vv))
  <1>1. /\ row[s] \in Row /\ old.vv = executed[s] /\ executed[s] \in Vector
        /\ t.seen \in Vector /\ sibling[s] \in SUBSET Row
    BY DEF IndType, TypeOK, GtidInv, Transaction
  <1>2. Found(s) = {row[s]} \cup LiveSiblings(s)
    BY DEF Found
  <1>3. \A r \in Found(s) : vv_descend(t.clock.vv, vv_dot(r.clock)) <=> r.write \in Below(t.seen)
    BY <1>1, CoveredIsBelow DEF ShownAt, Named, Below
  <1>4. ~old.hasSibling => LiveSiblings(s) = {}
    BY DEF ShownAt
  <1>5. CASE Concurrent(old, t.clock)
    <2>1. {r \in marked : ~r.deleted} = {r \in LiveSiblings(s) : r.write \notin Below(t.seen)}
      <3>1. {r \in marked : ~r.deleted} = {r \in LiveSiblings(s) : r \notin Covered(sibling[s], t.clock.vv)}
        BY <1>1 DEF MarkDeleted, Covered, LiveSiblings, Row
      <3>2. \A r \in LiveSiblings(s) : r \in Covered(sibling[s], t.clock.vv) <=> r.write \in Below(t.seen)
        BY <1>2, <1>3 DEF Covered, LiveSiblings
      <3> QED
        BY <3>1, <3>2
    <2> DEFINE kept == IF old.hasSibling THEN marked ELSE sibling[s]
    <2>2. {r \in kept : ~r.deleted} = {r \in LiveSiblings(s) : r.write \notin Below(t.seen)}
      BY <1>4, <2>1 DEF LiveSiblings
    <2>3. SiblingsOnSlave(sibling[s], row[s], t.clock) =
            IF row[s].write \in Below(t.seen) THEN kept ELSE kept \cup {row[s]}
      BY <1>2, <1>3, <1>5 DEF SiblingsOnSlave
    <2> HIDE DEF kept
    <2> QED
      BY <1>2, <2>2, <2>3 DEF Remaining, LiveSiblings
  <1>6. CASE ~Concurrent(old, t.clock)
    <2>1. t.seen = executed[s]
      BY <1>1, <1>6, DescendAntisymmetric DEF Concurrent
    <2>2. Remaining(s, t.seen) = {}
      BY <2>1, NothingRemains
    <2>3. {r \in SiblingsOnSlave(sibling[s], row[s], t.clock) : ~r.deleted} = {}
      <3>1. CASE old.hasSibling
        BY <1>1, <1>6, <3>1 DEF SiblingsOnSlave, MarkDeleted, Row
      <3>2. CASE ~old.hasSibling
        BY <1>4, <1>6, <3>2 DEF SiblingsOnSlave, LiveSiblings
      <3> QED
        BY <3>1, <3>2
    <2> QED
      BY <2>2, <2>3
  <1> QED
    BY <1>5, <1>6

\* Replication touches the tables of one server.
LEMMA ReplicateLocal ==
  ASSUME IndType, NEW s \in Server, NEW o \in Server, Replicate(s, o)
  PROVE  \A q \in Server : q # s => row'[q] = row[q] /\ sibling'[q] = sibling[q]
  <1> DEFINE t == Transact(<<o, executed[s][o] + 1>>)
  <1>1. \E new, rows : row' = [row EXCEPT ![s] = new] /\ sibling' = [sibling EXCEPT ![s] = rows]
    <2>1. row = [row EXCEPT ![s] = row[s]] /\ sibling = [sibling EXCEPT ![s] = sibling[s]]
      BY DEF IndType, TypeOK
    <2>2. CASE t.kind = "insert"
      BY <2>1, <2>2 DEF Replicate, ApplyInsert
    <2>3. CASE t.kind = "update"
      BY <2>1, <2>3 DEF Replicate, ApplyUpdate
    <2>4. CASE t.kind = "delete"
      BY <2>1, <2>4 DEF Replicate, ApplyDelete
    <2> QED
      BY <2>2, <2>3, <2>4 DEF Replicate
  <1> QED
    BY <1>1 DEF IndType, TypeOK

LEMMA ReplicateShown ==
  ASSUME IndType, OneInsert, GtidInv, GtidInv', ~Roaming, Causal, Shown,
         NEW s \in Server, NEW o \in Server, Replicate(s, o)
  PROVE  Causal' /\ Shown'
  <1> DEFINE w == <<o, executed[s][o] + 1>>
             t == Transact(w)
             h == Concurrent(row[s].clock, t.clock)
  <1>1. /\ Execution(s, o) /\ Incoming(s, o) = t /\ executed[s][o] + 1 \in DOMAIN log[o]
        /\ NextOf(s, o) = w
    BY ReplicateExecutes DEF Causal, NextOf
  <1>2. t \in Transaction /\ t = log[o][executed[s][o] + 1] /\ vv_descend(executed[s], t.seen)
    BY <1>1 DEF Execution, Transact
  <1>3. ShownAt(s) /\ log' = log
    BY DEF Shown, Replicate
  <1>4. \A q \in Server : q # s => row'[q] = row[q] /\ sibling'[q] = sibling[q]
    BY ReplicateLocal
  <1>5. ShownAt(s)'
    <2>1. CASE t.kind = "insert"
      <3> DEFINE new == [write |-> w, deleted |-> FALSE, clock |-> initLogicalClock(o)]
      <3>1. executed[s] = Empty
        BY <2>1, ReplicateOnce
      <3>2. row[s] = NoRow /\ sibling[s] = {}
        BY <1>3, <3>1 DEF OneInsert, ShownAt
      <3>3. row'[s] = new /\ sibling'[s] = {}
        BY <2>1, <3>2 DEF Replicate, ApplyInsert, IndType, TypeOK
      <3>4. LiveSiblings(s)' = {} /\ Remaining(s, Incoming(s, o).seen) = {}
        BY <3>2, <3>3 DEF LiveSiblings, Remaining, Found
      <3>5. vv_dot(new.clock) = Dot(o, executed[s][o] + 1) /\ ~new.clock.dirty
        BY <3>1 DEF vv_dot, initLogicalClock, NullClock, Empty
      <3>6. new.write = NextOf(s, o) /\ new.deleted = Incoming(s, o).deleted
        <4>1. ~t.deleted /\ t.deleted \in BOOLEAN
          BY <1>1, <1>2, <2>1 DEF Causal, InOrder, Transaction
        <4> QED
          BY <1>1, <4>1
      <3> HIDE DEF new
      <3> QED
        BY <1>1, <1>3, <2>1, <3>1, <3>3, <3>4, <3>5, <3>6, ExecutionShown
    <2>2. CASE t.kind = "update" /\ row[s] = NoRow
      <3>1. row'[s] = NoRow
        BY <2>2 DEF Replicate, ApplyUpdate
      <3> QED
        BY <1>1, <3>1, ExecutionDeletes
    <2>3. CASE t.kind = "update" /\ row[s] # NoRow
      <3> DEFINE clock == FinalClock(row[s].clock, t.clock, h, o)
                 new == [write |-> w, deleted |-> t.deleted, clock |-> clock]
      <3>1. /\ row'[s] = new /\ sibling'[s] = SiblingsOnSlave(sibling[s], row[s], t.clock)
        BY <2>3 DEF Replicate, ApplyUpdate, IndType, TypeOK
      <3>2. t.clock.vv = t.seen
        BY <1>1, <1>2, <2>3 DEF GtidInv
      <3>3. new.write = NextOf(s, o) /\ new.deleted = Incoming(s, o).deleted
        BY <1>1
      <3>4. new # NoRow
        <4> HIDE DEF new
        <4> QED
          BY <1>1, <3>3, ExecutionFact, NoRowWrite
      <3>5. new.clock.vv = executed'[s]
        BY <3>1, <3>4 DEF GtidInv
      <3>6. ~new.clock.dirty /\ vv_dot(new.clock) = Dot(o, executed[s][o] + 1)
        <4>1. /\ new.clock.dot = IF Cardinality(Members(executed'[s])) > 1
                                 THEN Dot(o, executed'[s][o]) ELSE Empty
              /\ ~new.clock.dirty
          BY <3>5 DEF FinalClock
        <4>2. executed'[s] \in Vector /\ executed'[s][o] = executed[s][o] + 1 /\ executed[s][o] \in Nat
          BY <1>1, ExecutionFact
        <4> HIDE DEF new
        <4> QED
          BY <3>5, <4>1, <4>2, DotOfWrite
      <3>7. LiveSiblings(s)' = Remaining(s, Incoming(s, o).seen)
        BY <1>1, <1>2, <1>3, <2>3, <3>1, <3>2, SiblingsKept DEF LiveSiblings
      <3>8. LiveSiblings(s)' # {} => new.clock.hasSibling
        <4>1. new.clock.hasSibling = h
          BY DEF FinalClock
        <4>2. row[s].clock.vv = executed[s] /\ executed[s] \in Vector /\ t.seen \in Vector
          BY <1>2, <2>3 DEF GtidInv, IndType, TypeOK, Transaction
        <4>3. ~h => t.seen = executed[s]
          BY <1>2, <3>2, <4>2, DescendAntisymmetric DEF Concurrent
        <4>4. ~h => LiveSiblings(s)' = {}
          BY <1>1, <1>3, <2>3, <3>7, <4>3, NothingRemains
        <4> QED
          BY <4>1, <4>4
      <3> HIDE DEF new
      <3> QED
        BY <1>1, <1>3, <2>3, <3>1, <3>3, <3>6, <3>7, <3>8, ExecutionShown
    <2>4. CASE t.kind = "delete"
      <3>1. row'[s] = NoRow
        BY <2>4 DEF Replicate, ApplyDelete, IndType, TypeOK
      <3> QED
        BY <1>1, <3>1, ExecutionDeletes
    <2> QED
      BY <1>2, <2>1, <2>2, <2>3, <2>4 DEF Transaction
  <1> QED
    BY <1>1, <1>4, <1>5, OthersShown, ExecutionCausal

\* The steps that execute nothing: the clients' reads and the purge.
LEMMA QuietShown ==
  ASSUME Causal, Shown, UNCHANGED <<row, log, executed>>, \A s \in Server : OnlyLost(s)
  PROVE  Causal' /\ Shown'
  <1>1. \A x : Transact(x)' = Transact(x)
    BY DEF Transact
  <1>2. Causal'
    BY <1>1 DEF Causal, InOrder, Below
  <1>3. Shown'
    BY <1>1, KeptShown DEF Shown
  <1> QED
    BY <1>2, <1>3

Evidence == IndType /\ OneInsert /\ GtidInv /\ Causal /\ Shown

LEMMA NextEvidence ==
  ASSUME ~Roaming, Evidence, [Next]_vars
  PROVE  Evidence'
  <1> USE DEF Evidence
  <1>1. IndType' /\ OneInsert' /\ GtidInv'
    BY NextType, NextOnce, NextGtid
  <1>2. ASSUME UNCHANGED <<row, sibling, log, executed, purge>>
        PROVE  Causal' /\ Shown'
    BY <1>2, QuietShown DEF LiveSiblings, OnlyLost
  <1>3. ASSUME NEW s \in Server, PurgeSiblings(s) \/ PurgeAll(s) \/ ReplicatePurge(s)
        PROVE  Causal' /\ Shown'
    BY <1>3, PurgeFact, QuietShown
  <1>4. ASSUME NEW c \in Client, NEW s \in Server, Read(c, s)
        PROVE  Causal' /\ Shown'
    BY <1>2, <1>4 DEF Read
  <1>5. ASSUME NEW c \in Client, ReadSiblings(c) \/ Abandon(c)
        PROVE  Causal' /\ Shown'
    BY <1>2, <1>5 DEF ReadSiblings, Abandon
  <1>6. ASSUME UNCHANGED vars
        PROVE  Causal' /\ Shown'
    BY <1>2, <1>6 DEF vars
  <1> QED
    BY <1>1, <1>3, <1>4, <1>5, <1>6, InsertShown, UpdateShown, HardDeleteShown, ReplicateShown
       DEF Next

LEMMA InitEvidence == Init => Evidence
  <1> SUFFICES ASSUME Init
               PROVE  Evidence
    OBVIOUS
  <1>1. IndType /\ OneInsert /\ GtidInv
    BY InitType DEF Init, OneInsert, Inserter, GtidInv
  <1>2. \A s \in Server : Below(executed[s]) = {}
    BY EmptyBelow DEF Init
  <1> QED
    BY <1>1, <1>2 DEF Evidence, Init, Causal, InOrder, Shown, ShownAt
-----------------------------------------------------------------------------
(* What the rows of a server show, in terms of the writes it executed *)

LEMMA ExecutedIsBelow ==
  ASSUME IndType, NEW s \in Server
  PROVE  Executed(s) = Below(executed[s])
  <1>1. \A w \in Below(executed[s]) : w \in Executed(s)
    <2> SUFFICES ASSUME NEW w \in Below(executed[s])
                 PROVE  w \in Executed(s)
      OBVIOUS
    <2>1. w \in Write /\ w[1] \in Server /\ w[2] \in DOMAIN log[w[1]] /\ w[2] <= executed[s][w[1]]
      BY BelowLogged DEF Below
    <2>2. w = <<w[1], w[2]>>
      BY <2>1 DEF Write
    <2> QED
      BY <2>1, <2>2 DEF Executed, AllWrites
  <1>2. \A w \in Executed(s) : w \in Below(executed[s])
    BY DEF Executed, AllWrites, Below, Write, IndType, TypeOK
  <1> QED
    BY <1>1, <1>2

\* The current values: neither deleted nor superseded, among the writes executed.
Current(s) ==
    {w \in Below(executed[s]) :
        ~Transact(w).deleted /\ \A x \in Below(executed[s]) : w \notin Below(Transact(x).seen)}

LEMMA ValuesAreCurrent ==
  ASSUME Shown, NEW s \in Server, row[s] # NoRow
  PROVE  Values(s) \subseteq Current(s) /\ Current(s) \ purge.lost \subseteq Values(s)
  <1>1. Exhaustive(s) /\ \A r \in Found(s) : Named(r, s)
    BY DEF Shown, ShownAt
  <1>2. \A w \in Values(s) : w \in Current(s)
    BY <1>1 DEF Values, Current, Named
  <1>3. \A w \in Current(s) \ purge.lost : w \in Values(s)
    <2> SUFFICES ASSUME NEW w \in Current(s) \ purge.lost
                 PROVE  w \in Values(s)
      OBVIOUS
    <2>1. PICK r \in Found(s) : r.write = w
      BY <1>1 DEF Exhaustive, Current
    <2>2. ~r.deleted
      BY <1>1, <2>1 DEF Named, Current
    <2> QED
      BY <2>1, <2>2 DEF Values
  <1> QED
    BY <1>2, <1>3

\* A reader of a live row is offered all that the tables hold.
LEMMA LiveRowOffersAll ==
  ASSUME Shown, NEW s \in Server, row[s] # NoRow, ~row[s].deleted
  PROVE  Offered(s) = Values(s)
  <1>1. LiveSiblings(s) # {} => row[s].clock.hasSibling
    BY DEF Shown, ShownAt
  <1>2. Values(s) = {row[s].write} \cup {r.write : r \in LiveSiblings(s)}
    BY DEF Values, Found, LiveSiblings
  <1> QED
    BY <1>1, <1>2 DEF Offered

LEMMA EvidenceConverges == ~Roaming /\ Evidence => Convergence
  <1> SUFFICES ASSUME ~Roaming, Evidence, NEW s \in Server, NEW o \in Server,
                      executed[s] = executed[o], row[s] # NoRow, row[o] # NoRow
               PROVE  /\ Values(s) \ purge.lost = Values(o) \ purge.lost
                      /\ row[s].clock.vv = row[o].clock.vv
                      /\ row[s].deleted = row[o].deleted =>
                            Offered(s) \ purge.lost = Offered(o) \ purge.lost
    BY DEF Convergence
  <1>1. row[s].clock.vv = executed[s] /\ row[o].clock.vv = executed[o]
    BY DEF Evidence, GtidInv
  <1>2. Current(s) = Current(o)
    BY DEF Current
  <1>3. Values(s) \ purge.lost = Values(o) \ purge.lost
    BY <1>2, ValuesAreCurrent DEF Evidence
  <1>4. ASSUME row[s].deleted = row[o].deleted
        PROVE  Offered(s) \ purge.lost = Offered(o) \ purge.lost
    <2>1. CASE row[s].deleted
      BY <1>4, <2>1 DEF Offered
    <2>2. CASE ~row[s].deleted
      BY <1>3, <1>4, <2>2, LiveRowOffersAll DEF Evidence
    <2> QED
      BY <2>1, <2>2
  <1> QED
    BY <1>1, <1>3, <1>4

LEMMA EvidenceAnnounces == Evidence => SiblingsAnnounced
  BY DEF Evidence, Shown, ShownAt, SiblingsAnnounced

(* The clock of a row tells that there are siblings: hasSibling is set whenever
   SomeTable__sibling holds one that is not deleted. *)
THEOREM SiblingsAlwaysAnnounced ==
  ASSUME ~Roaming
  PROVE  Spec => []SiblingsAnnounced
  <1>1. Evidence /\ [Next]_vars => Evidence'
    BY NextEvidence
  <1> QED
    BY <1>1, InitEvidence, EvidenceAnnounces, PTL DEF Spec

(* Servers that have executed the same transactions, in any order, hold the
   same values under the same version vector, but for what a DELETE of all sibling
   rows removed; where their rows are alike in being deleted or not, their
   readers are offered the same. *)
THEOREM ServersConverge ==
  ASSUME ~Roaming
  PROVE  Spec => []Convergence
  <1>1. Evidence /\ [Next]_vars => Evidence'
    BY NextEvidence
  <1>2. Evidence => Convergence
    BY EvidenceConverges
  <1> QED
    BY <1>1, <1>2, InitEvidence, PTL DEF Spec

-----------------------------------------------------------------------------
(* What a writer knew of, and what it had read *)

(* A client had read only what its server had executed; and what an UPDATE's
   server had executed was deleted, lost to a purge, read by its client, or read
   by an earlier writer. *)
KnowsWrite(w) ==
    LET t == Transact(w)
    IN  /\ t.read \subseteq Below(t.seen)
        /\ t.kind = "update" =>
             \A v \in Below(t.seen) :
                \/ Transact(v).deleted
                \/ v \in purge.lost
                \/ v \in t.read
                \/ \E x \in Below(t.seen) : v \in Transact(x).read

KnownWrites == \A s \in Server : \A w \in Below(executed[s]) : KnowsWrite(w)

\* The clock c holds is still its server's: the row did not change since c read it.
Fresh(c) ==
    /\ session[c] # NoSession
    /\ row[session[c].at] # NoRow
    /\ session[c].clock.vv = executed[session[c].at]

\* Such a client has read the row and, once it has merged, every live sibling.
Informed(c) ==
    LET at == session[c].at
    IN  /\ session[c].read \subseteq Below(executed[at])
        /\ row[at].write \in session[c].read
        /\ session[c].step = "row" => session[c].clock.hasSibling = row[at].clock.hasSibling
        /\ session[c].step = "merged" => \A r \in LiveSiblings(at) : r.write \in session[c].read

Knowledge == KnownWrites /\ \A c \in Client : Fresh(c) => Informed(c)

\* A writer supersedes only what it, or a writer before it, had read.
LEMMA NothingLost ==
  ASSUME Evidence, KnownWrites, NEW s \in Server, row[s] # NoRow, NEW w \in Below(executed[s])
  PROVE  \/ Transact(w).deleted
         \/ w \in purge.lost
         \/ \E r \in Found(s) : r.write = w
         \/ \E x \in Below(executed[s]) : w \in Transact(x).read
  <1>1. CASE \E x \in Below(executed[s]) : w \in Below(Transact(x).seen)
    <2>1. PICK x \in Below(executed[s]) : w \in Below(Transact(x).seen)
      BY <1>1
    <2>2. x[1] \in Server /\ x[2] \in DOMAIN log[x[1]] /\ Transact(x) = log[x[1]][x[2]]
          /\ Transact(x) \in Transaction /\ Transact(x).seen \in Vector
      BY BelowLogged DEF Evidence, Transact
    <2>3. Transact(x).kind # "insert"
      BY <2>1, <2>2, EmptyBelow DEF Evidence, OneInsert
    <2>4. Transact(x).kind # "delete"
      BY DEF Evidence, Shown, ShownAt
    <2>5. Transact(x).kind = "update"
      BY <2>2, <2>3, <2>4 DEF Transaction
    <2>6. Below(Transact(x).seen) \subseteq Below(executed[s])
      BY <2>2, BelowMonotone DEF Evidence, Causal, IndType, TypeOK
    <2>7. KnowsWrite(x)
      BY DEF KnownWrites
    <2> QED
      BY <2>1, <2>5, <2>6, <2>7 DEF KnowsWrite
  <1>2. Exhaustive(s)
    BY DEF Evidence, Shown, ShownAt
  <1> QED
    BY <1>1, <1>2 DEF Exhaustive

(* On a server that has executed anything, the row is missing only if a DELETE
   was executed; an UPDATE had seen at least the INSERT. *)
Begun ==
    /\ \A s \in Server : row[s] = NoRow /\ executed[s] # Empty =>
          \E x \in Below(executed[s]) : Transact(x).kind = "delete"
    /\ \A o \in Server : \A i \in DOMAIN log[o] :
          log[o][i].kind = "update" => log[o][i].seen # Empty

LEMMA KnowledgeSuffices ==
  ASSUME Evidence, Knowledge, Begun
  PROVE  OnlyDeletionsLose /\ NoFalseConflict
  <1>1. OnlyDeletionsLose
    <2> SUFFICES ASSUME NEW s \in Server, NEW w \in Executed(s), ~Transact(w).deleted,
                        w \notin ReadLater(s), w \notin purge.lost,
                        \A x \in Executed(s) : Transact(x).kind # "delete"
                 PROVE  \/ w \in Offered(s)
                        \/ row[s] # NoRow /\ row[s].deleted /\ w \in Values(s)
      BY DEF OnlyDeletionsLose
    <2>1. Executed(s) = Below(executed[s])
      BY ExecutedIsBelow DEF Evidence
    <2>2. executed[s] # Empty
      BY <2>1, EmptyBelow
    <2>3. row[s] # NoRow
      BY <2>1, <2>2 DEF Begun
    <2>4. \A x \in Below(executed[s]) : w \notin Transact(x).read
      BY <2>1 DEF ReadLater
    <2>5. PICK r \in Found(s) : r.write = w
      BY <2>1, <2>3, <2>4, NothingLost DEF Knowledge
    <2>6. ~r.deleted
      BY <2>3, <2>5 DEF Evidence, Shown, ShownAt, Named
    <2>7. w \in Values(s)
      BY <2>5, <2>6 DEF Values
    <2> QED
      BY <2>3, <2>7, LiveRowOffersAll DEF Evidence
  <1>2. NoFalseConflict
    <2> SUFFICES ASSUME NEW s \in Server, row[s] # NoRow, NEW a \in Found(s), NEW b \in Found(s)
                 PROVE  a.write \notin Transact(b.write).read
      BY DEF NoFalseConflict
    <2>1. Named(a, s) /\ Named(b, s)
      BY DEF Evidence, Shown, ShownAt
    <2>2. KnowsWrite(b.write)
      BY <2>1 DEF Knowledge, KnownWrites, Named
    <2> QED
      BY <2>1, <2>2 DEF KnowsWrite, Named
  <1> QED
    BY <1>1, <1>2

\* What is known of a write stays known.
LEMMA KnownStays ==
  ASSUME Evidence, KnownWrites, purge.lost \subseteq purge'.lost, NEW s \in Server, NEW w \in Below(executed[s]),
         \A x \in Below(executed[s]) : Transact(x)' = Transact(x)
  PROVE  KnowsWrite(w)'
  <1>1. Transact(w)' = Transact(w) /\ KnowsWrite(w)
    BY DEF KnownWrites
  <1>2. Below(Transact(w).seen) \subseteq Below(executed[s])
    BY BelowLogged, BelowMonotone DEF Evidence, Causal, IndType, TypeOK
  <1>3. Below(Transact(w).seen)' = Below(Transact(w).seen)
    BY <1>1 DEF Below
  <1> QED
    BY <1>1, <1>2, <1>3 DEF KnowsWrite

\* An execution adds one write to those of one server.
LEMMA ExecutionKnown ==
  ASSUME Evidence, KnownWrites, NEW s \in Server, NEW o \in Server, Execution(s, o),
         \A n : n = NextOf(s, o) => KnowsWrite(n)'
  PROVE  KnownWrites'
  <1> SUFFICES ASSUME NEW q \in Server, NEW w \in Below(executed'[q])
               PROVE  KnowsWrite(w)'
    BY DEF KnownWrites, Below
  <1>1. CASE w \in Below(executed[q])
    BY <1>1, KnownStays DEF Execution
  <1>2. CASE w \notin Below(executed[q])
    BY <1>2, ExecutionFact DEF Evidence
  <1> QED
    BY <1>1, <1>2

\* A client that an execution passes by is no longer fresh, or its server is another.
LEMMA ExecutionInforms ==
  ASSUME Evidence, ~Roaming, NEW s \in Server, NEW o \in Server, Execution(s, o),
         \A q \in Server : q # s => row'[q] = row[q] /\ sibling'[q] = sibling[q],
         NEW c \in Client, session'[c] = session[c] \/ session'[c] = NoSession,
         Fresh(c) => Informed(c)
  PROVE  Fresh(c)' => Informed(c)'
  <1> SUFFICES ASSUME Fresh(c)'
               PROVE  Informed(c)'
    OBVIOUS
  <1>1. session'[c] = session[c] /\ session[c] # NoSession
    BY DEF Fresh
  <1> DEFINE at == session[c].at
  <1>2. at \in Server /\ session[c].clock.vv \in Vector /\ vv_descend(executed[at], session[c].clock.vv)
    BY <1>1, SessionWithClient DEF Evidence, GtidInv, Clock
  <1>3. session[c].clock.vv = executed'[at]
    BY <1>1 DEF Fresh
  <1>4. at # s
    <2> SUFFICES ASSUME at = s
                 PROVE  FALSE
      OBVIOUS
    <2>1. executed[s][o] >= executed[s][o] + 1 /\ executed[s][o] \in Nat
      BY <1>2, <1>3, ExecutionFact DEF vv_descend, Evidence
    <2> QED
      BY <2>1
  <1>5. row'[at] = row[at] /\ sibling'[at] = sibling[at] /\ executed'[at] = executed[at]
    BY <1>2, <1>4, ExecutionFact DEF Evidence
  <1>6. Informed(c)
    BY <1>1, <1>5 DEF Fresh
  <1>7. LiveSiblings(session[c].at)' = LiveSiblings(session[c].at)
    BY <1>1, <1>5 DEF LiveSiblings
  <1>8. Below(executed[session[c].at])' = Below(executed[session[c].at])
    BY <1>1, <1>5 DEF Below
  <1> QED
    BY <1>1, <1>5, <1>6, <1>7, <1>8 DEF Informed

\* Each server has executed its own log to the end.
LEMMA LoggedIsExecuted ==
  ASSUME IndType, NEW o \in Server, NEW i \in DOMAIN log[o]
  PROVE  <<o, i>> \in Below(executed[o])
  <1>1. executed[o][o] = Len(log[o]) /\ log[o] \in Seq(Transaction)
    BY DEF IndType, TypeOK, Logged
  <1> QED
    BY <1>1 DEF Below, Write

LEMMA InsertKnows ==
  ASSUME Evidence, ~Roaming, Knowledge, NEW s \in Server, Insert(s)
  PROVE  Knowledge'
  <1> DEFINE t == [kind |-> "insert", deleted |-> FALSE, clock |-> NullClock,
                   seen |-> executed[s], read |-> {}]
  <1>1. t \in Transaction
    BY EmptyType DEF NullClock, Clock, Evidence, IndType, TypeOK, Transaction
  <1>2. Execution(s, s) /\ Incoming(s, s) = t
    BY <1>1, CommitExecutes DEF Insert, Causal, Evidence
  <1>3. ASSUME NEW n, n = NextOf(s, s)
        PROVE  KnowsWrite(n)'
    <2>1. Transact(n)' = Incoming(s, s)
      BY <1>3 DEF Transact, Incoming, NextOf
    <2> QED
      BY <1>2, <2>1 DEF KnowsWrite
  <1>4. session' = session /\ \A q \in Server : q # s => row'[q] = row[q] /\ sibling'[q] = sibling[q]
    BY DEF Insert, Evidence, IndType, TypeOK
  <1> HIDE DEF t
  <1> QED
    BY <1>2, <1>3, <1>4, ExecutionKnown, ExecutionInforms DEF Knowledge

LEMMA HardDeleteKnows ==
  ASSUME Evidence, ~Roaming, Knowledge, NEW s \in Server, HardDelete(s)
  PROVE  Knowledge'
  <1> DEFINE t == [kind |-> "delete", deleted |-> TRUE, clock |-> NullClock,
                   seen |-> executed[s], read |-> {}]
  <1>1. t \in Transaction
    BY EmptyType DEF NullClock, Clock, Evidence, IndType, TypeOK, Transaction
  <1>2. Execution(s, s) /\ Incoming(s, s) = t
    BY <1>1, CommitExecutes DEF HardDelete, Causal, Evidence
  <1>3. ASSUME NEW n, n = NextOf(s, s)
        PROVE  KnowsWrite(n)'
    <2>1. Transact(n)' = Incoming(s, s)
      BY <1>3 DEF Transact, Incoming, NextOf
    <2> QED
      BY <1>2, <2>1 DEF KnowsWrite
  <1>4. session' = session /\ \A q \in Server : q # s => row'[q] = row[q] /\ sibling'[q] = sibling[q]
    BY DEF HardDelete, Evidence, IndType, TypeOK
  <1> HIDE DEF t
  <1> QED
    BY <1>2, <1>3, <1>4, ExecutionKnown, ExecutionInforms DEF Knowledge

LEMMA ReplicateKnows ==
  ASSUME Evidence, ~Roaming, Knowledge, NEW s \in Server, NEW o \in Server, Replicate(s, o)
  PROVE  Knowledge'
  <1>1. /\ Execution(s, o) /\ executed[s][o] + 1 \in DOMAIN log[o]
        /\ session' = session
    BY ReplicateExecutes DEF Causal, Evidence, Replicate
  <1>2. ASSUME NEW n, n = NextOf(s, o)
        PROVE  KnowsWrite(n)'
    <2>1. n \in Below(executed[o])
      BY <1>1, <1>2, LoggedIsExecuted DEF NextOf, Evidence
    <2> QED
      BY <1>1, <2>1, KnownStays DEF Execution, Knowledge
  <1>3. \A q \in Server : q # s => row'[q] = row[q] /\ sibling'[q] = sibling[q]
    BY ReplicateLocal DEF Evidence
  <1> QED
    BY <1>1, <1>2, <1>3, ExecutionKnown, ExecutionInforms DEF Knowledge

\* The client of an accepted UPDATE is fresh and has merged what it found.
LEMMA UpdateKnows ==
  ASSUME Evidence, ~Roaming, Knowledge, NEW c \in Client, NEW s \in Server, Update(c, s)
  PROVE  Knowledge'
  <1>1. PICK deleted \in BOOLEAN, forgotten \in BOOLEAN :
          LET old == row[s].clock
              new == UpdateClock(c, s, forgotten)
          IN  /\ Valid(new)
              /\ ~MustReconcile(old, new)
              /\ Commit(s, "update", deleted, new, session[c].read)
    BY DEF Update
  <1> DEFINE old == row[s].clock
             new == UpdateClock(c, s, forgotten)
             read == session[c].read
             t == [kind |-> "update", deleted |-> deleted, clock |-> new,
                   seen |-> executed[s], read |-> read]
  <1>2. /\ session[c] # NoSession /\ row[s] # NoRow /\ old \in Clock
        /\ executed[s] \in Vector /\ session[c].at = s
    BY DEF Update, Evidence, IndType, TypeOK, Row
  <1>3. /\ new \in Clock /\ read \in SUBSET Write /\ session[c].step \in {"row", "merged"}
        /\ session[c].clock \in Clock
    BY <1>2, SessionWithClient DEF UpdateClock, Evidence
  <1>4. t \in Transaction
    BY <1>2, <1>3 DEF Transaction
  <1>5. Execution(s, s) /\ Incoming(s, s) = t
    BY <1>1, <1>4, CommitExecutes DEF Causal, Evidence
  <1>6. ShownAt(s) /\ old.vv = executed[s]
    BY <1>2 DEF Evidence, Shown, GtidInv
  <1>7. ~forgotten
    <2>1. row[s] \in Found(s)
      BY <1>2 DEF Found
    <2> QED
      BY <1>1, <1>2, <1>6, <2>1 DEF ShownAt, Named, Valid, UpdateClock
  <1>8. new.vv = session[c].clock.vv /\ new.hasSibling = session[c].clock.hasSibling
    BY <1>3, <1>7 DEF UpdateClock, Clock
  <1>9. session[c].clock.vv = executed[s]
    <2>1. vv_descend(session[c].clock.vv, executed[s])
      BY <1>1, <1>6, <1>8 DEF MustReconcile
    <2>2. vv_descend(executed[s], session[c].clock.vv)
      BY <1>2 DEF Evidence, GtidInv
    <2> QED
      BY <1>2, <1>3, <2>1, <2>2, DescendAntisymmetric DEF Clock
  <1>10. Informed(c)
    BY <1>2, <1>9 DEF Knowledge, Fresh
  <1>11. \A r \in Found(s) : r.write \in read
    <2>1. LiveSiblings(s) # {} => session[c].step = "merged"
      BY <1>1, <1>2, <1>3, <1>6, <1>8, <1>10 DEF ShownAt, Informed, MustReconcile
    <2> QED
      BY <1>2, <1>10, <2>1 DEF Found, Informed
  <1>12. ASSUME NEW n, n = NextOf(s, s)
         PROVE  KnowsWrite(n)'
    <2>1. Transact(n)' = t
      BY <1>5, <1>12 DEF Transact, Incoming, NextOf
    <2>2. Below(Transact(n).seen)' = Below(executed[s])
      BY <2>1 DEF Below
    <2>3. read \subseteq Below(executed[s])
      BY <1>2, <1>10 DEF Informed
    <2>4. ASSUME NEW v \in Below(executed[s])
          PROVE  \/ Transact(v)'.deleted
                 \/ v \in purge'.lost
                 \/ v \in read
                 \/ \E x \in Below(executed[s]) : v \in Transact(x)'.read
      BY <1>2, <1>5, <1>11, NothingLost DEF Knowledge, Execution
    <2>5. Transact(n)'.read = read
      BY <2>1
    <2> HIDE DEF t, read
    <2> QED
      BY <2>2, <2>3, <2>4, <2>5 DEF KnowsWrite
  <1>13. /\ \A d \in Client : session'[d] = session[d] \/ session'[d] = NoSession
         /\ \A q \in Server : q # s => row'[q] = row[q] /\ sibling'[q] = sibling[q]
    BY DEF Update, Evidence, IndType, TypeOK
  <1> HIDE DEF t
  <1> QED
    BY <1>5, <1>12, <1>13, ExecutionKnown, ExecutionInforms DEF Knowledge

\* A step that executes nothing leaves what is known of the writes.
LEMMA QuietKnown ==
  ASSUME Evidence, KnownWrites, UNCHANGED <<log, executed>>, purge.lost \subseteq purge'.lost
  PROVE  KnownWrites'
  <1>1. \A x : Transact(x)' = Transact(x)
    BY DEF Transact
  <1> QED
    BY <1>1, KnownStays DEF KnownWrites, Below

LEMMA QuietInforms ==
  ASSUME UNCHANGED <<row, executed>>, NEW c \in Client, session'[c] = session[c],
         \A s \in Server : LiveSiblings(s)' \subseteq LiveSiblings(s), session[c] # NoSession,
         session[c].at \in Server, Fresh(c) => Informed(c)
  PROVE  Fresh(c)' => Informed(c)'
  <1>1. LiveSiblings(session[c].at)' \subseteq LiveSiblings(session[c].at)
    BY DEF LiveSiblings
  <1>2. Below(executed[session[c].at])' = Below(executed[session[c].at])
    BY DEF Below
  <1> QED
    BY <1>1, <1>2 DEF Fresh, Informed

\* What a writer knew was executed where the write was.
LEMMA KnownExecuted ==
  ASSUME Evidence, KnownWrites, NEW s \in Server, NEW w \in Below(executed[s])
  PROVE  w \in Known(w) /\ Known(w) \subseteq Below(executed[s])
  <1>1. Transact(w).read \subseteq Below(Transact(w).seen)
    BY DEF KnownWrites, KnowsWrite
  <1>2. Below(Transact(w).seen) \subseteq Below(executed[s])
    BY BelowLogged, BelowMonotone DEF Evidence, Causal, IndType, TypeOK
  <1> QED
    BY <1>1, <1>2 DEF Known

LEMMA ReadInforms ==
  ASSUME Evidence, Knowledge, NEW c \in Client, NEW s \in Server, Read(c, s)
  PROVE  Fresh(c)' => Informed(c)'
  <1>1. /\ row[s] # NoRow /\ UNCHANGED <<row, sibling, log, executed>>
        /\ session'[c] = [step |-> "row", at |-> s, clock |-> row[s].clock,
                          read |-> Known(row[s].write)]
    BY DEF Read, Evidence, IndType, TypeOK
  <1>2. row[s].write \in Below(executed[s])
    BY <1>1 DEF Evidence, Shown, ShownAt, Found, Named
  <1>3. row[s].write \in Known(row[s].write) /\ Known(row[s].write) \subseteq Below(executed[s])
    BY <1>2, KnownExecuted DEF Knowledge
  <1>4. Below(executed[session[c].at])' = Below(executed[s])
    BY <1>1 DEF Below
  <1> QED
    BY <1>1, <1>3, <1>4 DEF Informed

LEMMA ReadSiblingsInforms ==
  ASSUME Evidence, Knowledge, NEW c \in Client, ReadSiblings(c)
  PROVE  Fresh(c)' => Informed(c)'
  <1> DEFINE at == session[c].at
             live == LiveSiblings(at)
             more == UNION {Known(r.write) : r \in live}
  <1>1. /\ session[c] # NoSession /\ at \in Server /\ session[c].clock \in Clock
        /\ UNCHANGED <<row, sibling, log, executed>>
    <2>1. session[c] # NoSession /\ UNCHANGED <<row, sibling, log, executed>>
      BY DEF ReadSiblings, NoSession
    <2> QED
      BY <2>1, SessionWithClient DEF Evidence
  <1>2. /\ session'[c].step = "merged" /\ session'[c].at = at
        /\ session'[c].clock.vv = session[c].clock.vv
        /\ session'[c].read = session[c].read \cup more
    BY <1>1 DEF ReadSiblings, LiveSiblings, Evidence, IndType, TypeOK, Session, Clock
  <1> SUFFICES ASSUME Fresh(c)'
               PROVE  Informed(c)'
    OBVIOUS
  <1>3. Fresh(c) /\ row[at] # NoRow
    BY <1>1, <1>2 DEF Fresh
  <1>4. Informed(c)
    BY <1>3 DEF Knowledge
  <1>5. \A r \in live : r.write \in Below(executed[at])
    BY <1>1, <1>3 DEF Evidence, Shown, ShownAt, Found, Named
  <1>6. \A r \in live : r.write \in Known(r.write) /\ Known(r.write) \subseteq Below(executed[at])
    BY <1>1, <1>5, KnownExecuted DEF Knowledge
  <1>7. more \subseteq Below(executed[at]) /\ \A r \in live : r.write \in more
    BY <1>6
  <1>8. Below(executed[session[c].at])' = Below(executed[at])
    BY <1>1, <1>2 DEF Below
  <1>9. LiveSiblings(session[c].at)' = live
    BY <1>1, <1>2 DEF LiveSiblings
  <1> HIDE DEF more, live
  <1> QED
    BY <1>1, <1>2, <1>4, <1>7, <1>8, <1>9 DEF Informed

LEMMA NextKnows ==
  ASSUME ~Roaming, Evidence, Knowledge, [Next]_vars
  PROVE  Knowledge'
  <1>1. ASSUME UNCHANGED <<row, log, executed>>, purge.lost \subseteq purge'.lost,
               \A s \in Server : LiveSiblings(s)' \subseteq LiveSiblings(s),
               \A c \in Client : session'[c] = session[c] \/ (Fresh(c)' => Informed(c)')
        PROVE  Knowledge'
    <2>1. ASSUME NEW c \in Client, session'[c] = session[c]
          PROVE  Fresh(c)' => Informed(c)'
      <3>1. CASE session[c] = NoSession
        BY <2>1, <3>1 DEF Fresh
      <3>2. CASE session[c] # NoSession
        BY <1>1, <2>1, <3>2, SessionWithClient, QuietInforms DEF Knowledge, Evidence
      <3> QED
        BY <3>1, <3>2
    <2> QED
      BY <1>1, <2>1, QuietKnown DEF Knowledge
  <1>2. ASSUME NEW c \in Client, NEW s \in Server, Read(c, s)
        PROVE  Knowledge'
    <2>1. \A d \in Client : d # c => session'[d] = session[d]
      BY <1>2 DEF Read, Evidence, IndType, TypeOK
    <2> QED
      BY <1>1, <1>2, <2>1, ReadInforms DEF Read, LiveSiblings
  <1>3. ASSUME NEW c \in Client, ReadSiblings(c)
        PROVE  Knowledge'
    <2>1. \A d \in Client : d # c => session'[d] = session[d]
      BY <1>3 DEF ReadSiblings, Evidence, IndType, TypeOK
    <2> QED
      BY <1>1, <1>3, <2>1, ReadSiblingsInforms DEF ReadSiblings, LiveSiblings
  <1>4. ASSUME NEW c \in Client, Abandon(c)
        PROVE  Knowledge'
    <2>1. session'[c] = NoSession /\ \A d \in Client : d # c => session'[d] = session[d]
      BY <1>4 DEF Abandon, Evidence, IndType, TypeOK
    <2>2. ~Fresh(c)'
      BY <2>1 DEF Fresh
    <2> QED
      BY <1>1, <1>4, <2>1, <2>2 DEF Abandon, LiveSiblings
  <1>5. ASSUME NEW s \in Server, PurgeSiblings(s) \/ PurgeAll(s) \/ ReplicatePurge(s)
        PROVE  Knowledge'
    <2>1. UNCHANGED <<row, log, executed, session>> /\ \A q \in Server : OnlyLost(q)
      BY <1>5, PurgeFact DEF Evidence
    <2> QED
      BY <1>1, <2>1 DEF OnlyLost
  <1>6. ASSUME UNCHANGED vars
        PROVE  Knowledge'
    BY <1>1, <1>6 DEF vars, LiveSiblings
  <1> QED
    BY <1>2, <1>3, <1>4, <1>5, <1>6, InsertKnows, HardDeleteKnows, UpdateKnows, ReplicateKnows
       DEF Next

LEMMA InitKnows == Init => Knowledge
  BY EmptyBelow DEF Init, Knowledge, KnownWrites, Fresh

\* A commit on s leaves s its row, or is the deletion of it.
LEMMA CommitBegun ==
  ASSUME IndType, Causal, Begun, NEW s \in Server, NEW t \in Transaction,
         Commit(s, t.kind, t.deleted, t.clock, t.read), t.seen = executed[s],
         t.kind = "insert" => ~t.deleted, t.kind = "update" => executed[s] # Empty,
         \A q \in Server : q # s => row'[q] = row[q],
         t.kind = "delete" \/ row'[s] # NoRow
  PROVE  Begun'
  <1>1. t = [kind |-> t.kind, deleted |-> t.deleted, clock |-> t.clock,
             seen |-> executed[s], read |-> t.read]
    BY DEF Transaction
  <1>2. Execution(s, s) /\ Incoming(s, s) = t
    BY <1>1, CommitExecutes DEF Causal
  <1>3. /\ \A p \in Server : \A i \in DOMAIN log[p] : log'[p][i] = log[p][i]
        /\ \A p \in Server : p # s => log'[p] = log[p]
        /\ DOMAIN log'[s] = DOMAIN log[s] \cup {Len(log[s]) + 1}
        /\ log'[s][Len(log[s]) + 1] = t
    BY <1>1, CommitFact DEF IndType
  <1>4. ASSUME NEW o \in Server, NEW i \in DOMAIN log'[o], log'[o][i].kind = "update"
        PROVE  log'[o][i].seen # Empty
    <2>1. CASE i \in DOMAIN log[o]
      BY <1>3, <1>4, <2>1 DEF Begun
    <2>2. CASE i \notin DOMAIN log[o]
      <3>1. o = s /\ i = Len(log[s]) + 1
        BY <1>3, <2>2
      <3> QED
        BY <1>3, <1>4, <3>1
    <2> QED
      BY <2>1, <2>2
  <1>5. ASSUME NEW q \in Server, row'[q] = NoRow, executed'[q] # Empty
        PROVE  \E x \in Below(executed'[q]) : Transact(x)'.kind = "delete"
    <2>1. CASE q = s
      <3>1. PICK n : n = NextOf(s, s)
        OBVIOUS
      <3>2. n \in Below(executed'[s]) /\ Transact(n)' = Incoming(s, s)
        BY <1>2, <3>1, ExecutionFact DEF Transact, Incoming
      <3> QED
        BY <1>2, <1>5, <2>1, <3>2
    <2>2. CASE q # s
      <3>1. executed'[q] = executed[q] /\ row'[q] = row[q]
        BY <1>2, <2>2, ExecutionFact
      <3> QED
        BY <1>2, <1>5, <3>1 DEF Begun, Execution
    <2> QED
      BY <2>1, <2>2
  <1> QED
    BY <1>4, <1>5 DEF Begun, Below

LEMMA ReplicateBegun ==
  ASSUME IndType, Causal, Begun, NEW s \in Server, NEW o \in Server, Replicate(s, o)
  PROVE  Begun'
  <1> DEFINE w == <<o, executed[s][o] + 1>>
             t == Transact(w)
  <1>1. /\ Execution(s, o) /\ Incoming(s, o) = t /\ NextOf(s, o) = w
        /\ executed[s][o] + 1 \in DOMAIN log[o] /\ log' = log
        /\ t = log[o][executed[s][o] + 1]
    BY ReplicateExecutes DEF Causal, NextOf, Replicate, Transact
  <1>2. t \in Transaction /\ vv_descend(executed[s], t.seen)
    BY <1>1 DEF Execution
  <1>0. PICK n : n = w
    OBVIOUS
  <1>3. Below(executed'[s]) = Below(executed[s]) \cup {n} /\ Transact(n)' = t
    BY <1>0, <1>1, ExecutionFact DEF Transact
  <1>4. \A q \in Server : q # s => row'[q] = row[q] /\ executed'[q] = executed[q]
    BY <1>1, ReplicateLocal, ExecutionFact
  <1>5. ASSUME row'[s] = NoRow
        PROVE  \E x \in Below(executed'[s]) : Transact(x)'.kind = "delete"
    <2>1. CASE t.kind = "insert"
      <3> DEFINE new == [write |-> w, deleted |-> FALSE, clock |-> initLogicalClock(o)]
      <3>1. row'[s] = new
        BY <2>1 DEF Replicate, ApplyInsert, IndType, TypeOK
      <3>2. new.write \in Write
        BY <1>1, ExecutionFact
      <3> HIDE DEF new
      <3> QED
        BY <1>5, <3>1, <3>2, NoRowWrite
    <2>2. CASE t.kind = "update" /\ row[s] = NoRow
      <3>1. executed[s] # Empty
        <4> SUFFICES ASSUME executed[s] = Empty
                     PROVE  FALSE
          OBVIOUS
        <4>1. vv_descend(t.seen, Empty) /\ t.seen \in Vector /\ Empty \in Vector
          BY <1>2, EmptyType DEF Transaction, Vector, vv_descend, Empty
        <4>2. t.seen = Empty
          BY <1>2, <4>1, DescendAntisymmetric
        <4> QED
          BY <1>1, <2>2, <4>2 DEF Begun
      <3>2. PICK x \in Below(executed[s]) : Transact(x).kind = "delete"
        BY <2>2, <3>1 DEF Begun
      <3> QED
        BY <1>1, <1>3, <3>2 DEF Execution
    <2>3. CASE t.kind = "update" /\ row[s] # NoRow
      <3> DEFINE new == [write |-> w, deleted |-> t.deleted,
                         clock |-> FinalClock(row[s].clock, t.clock,
                                              Concurrent(row[s].clock, t.clock), o)]
      <3>1. row'[s] = new
        BY <2>3 DEF Replicate, ApplyUpdate, IndType, TypeOK
      <3>2. new.write \in Write
        BY <1>1, ExecutionFact
      <3> HIDE DEF new
      <3> QED
        BY <1>5, <3>1, <3>2, NoRowWrite
    <2>4. CASE t.kind = "delete"
      <3>1. n \in Below(executed'[s]) /\ Transact(n)'.kind = "delete"
        BY <1>3, <2>4
      <3> QED
        BY <3>1
    <2> QED
      BY <1>2, <2>1, <2>2, <2>3, <2>4 DEF Transaction
  <1>6. ASSUME NEW q \in Server, q # s, row'[q] = NoRow, executed'[q] # Empty
        PROVE  \E x \in Below(executed'[q]) : Transact(x)'.kind = "delete"
    BY <1>1, <1>4, <1>6 DEF Begun, Execution
  <1> HIDE DEF t, w
  <1> QED
    BY <1>1, <1>5, <1>6 DEF Begun, Below

LEMMA NextBegun ==
  ASSUME IndType, OneInsert, Causal, Begun, [Next]_vars
  PROVE  Begun'
  <1>1. NullClock \in Clock /\ \A s \in Server : executed[s] \in Vector
    BY EmptyType DEF NullClock, Clock, IndType, TypeOK
  <1>2. ASSUME NEW s \in Server, Insert(s)
        PROVE  Begun'
    <2>1. PICK t : t = [kind |-> "insert", deleted |-> FALSE, clock |-> NullClock,
                        seen |-> executed[s], read |-> {}]
      OBVIOUS
    <2>2. t \in Transaction
      BY <1>1, <2>1 DEF Transaction
    <2>3. row'[s] # NoRow
      <3> DEFINE new == [write |-> NextWrite(s), deleted |-> FALSE, clock |-> initLogicalClock(s)]
      <3>1. row'[s] = new
        BY <1>2 DEF Insert, IndType, TypeOK
      <3>2. new.write \in Write
        BY <1>2, <2>1, <2>2, CommitFact DEF Insert, IndType
      <3> HIDE DEF new
      <3> QED
        BY <3>1, <3>2, NoRowWrite
    <2>4. Commit(s, t.kind, t.deleted, t.clock, t.read) /\ \A q \in Server : q # s => row'[q] = row[q]
      BY <1>2, <2>1 DEF Insert, IndType, TypeOK
    <2> QED
      BY <2>1, <2>2, <2>3, <2>4, CommitBegun
  <1>3. ASSUME NEW c \in Client, NEW s \in Server, Update(c, s)
        PROVE  Begun'
    <2>1. PICK deleted \in BOOLEAN, forgotten \in BOOLEAN :
            /\ Commit(s, "update", deleted, UpdateClock(c, s, forgotten), session[c].read)
            /\ row' = [row EXCEPT ![s] = [write |-> NextWrite(s), deleted |-> deleted,
                                          clock |-> FinalClock(row[s].clock,
                                                               UpdateClock(c, s, forgotten), FALSE, s)]]
      BY <1>3 DEF Update
    <2>2. session[c] # NoSession /\ row[s] # NoRow /\ row[s].clock \in Clock
      BY <1>3 DEF Update, IndType, TypeOK, Row
    <2>3. PICK new : new = UpdateClock(c, s, forgotten)
      OBVIOUS
    <2>4. new \in Clock /\ session[c].read \in SUBSET Write
      BY <2>2, <2>3, SessionWithClient DEF UpdateClock
    <2>5. PICK t : t = [kind |-> "update", deleted |-> deleted, clock |-> new,
                        seen |-> executed[s], read |-> session[c].read]
      OBVIOUS
    <2>6. t \in Transaction
      BY <1>1, <2>4, <2>5 DEF Transaction
    <2>7. Commit(s, t.kind, t.deleted, t.clock, t.read)
      BY <2>1, <2>3, <2>5
    <2>8. row'[s] # NoRow
      <3> DEFINE after == [write |-> NextWrite(s), deleted |-> deleted,
                           clock |-> FinalClock(row[s].clock, UpdateClock(c, s, forgotten), FALSE, s)]
      <3>1. row'[s] = after
        BY <2>1 DEF IndType, TypeOK
      <3>2. after.write \in Write
        BY <2>5, <2>6, <2>7, CommitFact DEF IndType
      <3> HIDE DEF after
      <3> QED
        BY <3>1, <3>2, NoRowWrite
    <2>9. executed[s] # Empty /\ \A q \in Server : q # s => row'[q] = row[q]
      BY <2>1, <2>2 DEF OneInsert, IndType, TypeOK
    <2> QED
      BY <2>5, <2>6, <2>7, <2>8, <2>9, CommitBegun
  <1>4. ASSUME NEW s \in Server, HardDelete(s)
        PROVE  Begun'
    <2>1. PICK t : t = [kind |-> "delete", deleted |-> TRUE, clock |-> NullClock,
                        seen |-> executed[s], read |-> {}]
      OBVIOUS
    <2>2. t \in Transaction
      BY <1>1, <2>1 DEF Transaction
    <2>3. Commit(s, t.kind, t.deleted, t.clock, t.read) /\ \A q \in Server : q # s => row'[q] = row[q]
      BY <1>4, <2>1 DEF HardDelete, IndType, TypeOK
    <2> QED
      BY <2>1, <2>2, <2>3, CommitBegun
  <1>5. ASSUME UNCHANGED <<row, log, executed>>
        PROVE  Begun'
    BY <1>5 DEF Begun, Below, Transact
  <1> QED
    BY <1>2, <1>3, <1>4, <1>5, ReplicateBegun
       DEF Next, vars, PurgeSiblings, PurgeAll, ReplicatePurge, Read, ReadSiblings, Abandon

LEMMA InitBegun == Init => Begun
  BY DEF Init, Begun

(* While clients write where they read, only deletions hide a write: what a
   server executed, that is no deletion and that no later writer knew of, is
   offered to its readers; or its row was deleted for good, or it lies behind a
   row that is softly deleted, or a DELETE of all sibling rows removed it. *)
THEOREM OnlyDeletionsEverLose ==
  ASSUME ~Roaming
  PROVE  Spec => []OnlyDeletionsLose
  <1>1. Evidence /\ Knowledge /\ Begun /\ [Next]_vars => Evidence' /\ Knowledge' /\ Begun'
    BY NextEvidence, NextKnows, NextBegun DEF Evidence
  <1>2. Evidence /\ Knowledge /\ Begun => OnlyDeletionsLose
    BY KnowledgeSuffices
  <1> QED
    BY <1>1, <1>2, InitEvidence, InitKnows, InitBegun, PTL DEF Spec

(* Nor is a conflict invented: values found side by side were written in
   ignorance of each other. *)
THEOREM NoFalseConflictEver ==
  ASSUME ~Roaming
  PROVE  Spec => []NoFalseConflict
  <1>1. Evidence /\ Knowledge /\ Begun /\ [Next]_vars => Evidence' /\ Knowledge' /\ Begun'
    BY NextEvidence, NextKnows, NextBegun DEF Evidence
  <1>2. Evidence /\ Knowledge /\ Begun => NoFalseConflict
    BY KnowledgeSuffices
  <1> QED
    BY <1>1, <1>2, InitEvidence, InitKnows, InitBegun, PTL DEF Spec
-----------------------------------------------------------------------------
(* The refinement: rows and siblings hold the multi-value register *)

\* Without hard deletions the row stays once it is inserted; the log is bounded.
Kept ==
    /\ \A o \in Server : Len(log[o]) <= MaxWrites
    /\ \A o \in Server : \A i \in DOMAIN log[o] :
          /\ log[o][i].kind # "delete"
          /\ log[o][i].kind = "update" => log[o][i].seen # Empty
    /\ \A s \in Server : row[s] = NoRow => executed[s] = Empty
    /\ purge.left = {} /\ purge.lost = {}

LEMMA CommitsLeft ==
  ASSUME IndType, Kept, NEW s \in Server, Cardinality(AllWrites) < MaxWrites
  PROVE  Len(log[s]) < MaxWrites
  <1>1. \A o \in Server : log[o] \in Seq(Transaction)
    BY DEF IndType, TypeOK
  <1>2. AllWrites \subseteq Server \X (1 .. MaxWrites)
    BY <1>1, BoundAssumption DEF AllWrites, Kept
  <1>3. IsFiniteSet(Server \X (1 .. MaxWrites))
    <2>1. IsFiniteSet(1 .. MaxWrites) /\ IsFiniteSet(Server)
      BY ServerAssumption, BoundAssumption, FS_Interval
    <2> DEFINE D == 1 .. MaxWrites
    <2> HIDE DEF D
    <2>2. IsFiniteSet(D) => IsFiniteSet(Server \X D)
      BY <2>1, FS_Product
    <2> QED
      BY <2>1, <2>2 DEF D
  <1>4. IsFiniteSet(AllWrites) /\ Cardinality(AllWrites) \in Nat
    BY <1>2, <1>3, FS_Subset, FS_CardinalityType
  <1>5. {s} \X DOMAIN log[s] \subseteq AllWrites
    BY DEF AllWrites
  <1>6. Cardinality({s} \X DOMAIN log[s]) = Len(log[s]) /\ Len(log[s]) \in Nat
    <2>1. DOMAIN log[s] = 1 .. Len(log[s]) /\ Len(log[s]) \in Nat
      BY <1>1
    <2> DEFINE D == DOMAIN log[s]
               O == {s}
    <2>2. IsFiniteSet(D) /\ Cardinality(D) = Len(log[s])
      BY <2>1, FS_Interval
    <2>3. IsFiniteSet(O) /\ Cardinality(O) = 1
      BY FS_Singleton
    <2> HIDE DEF D, O
    <2>4. Cardinality(O \X D) = Cardinality(O) * Cardinality(D)
      BY <2>2, <2>3, FS_Product
    <2>5. Cardinality(O \X D) = Len(log[s])
      BY <2>1, <2>2, <2>3, <2>4
    <2> QED
      BY <2>1, <2>5 DEF O, D
  <1>7. Len(log[s]) <= Cardinality(AllWrites)
    BY <1>4, <1>5, <1>6, FS_Subset
  <1> QED
    BY <1>4, <1>6, <1>7, BoundAssumption

LEMMA CommitKeeps ==
  ASSUME IndType, Kept, NEW s \in Server, NEW kind, NEW deleted, NEW clock, NEW read, NEW new \in Row,
         Commit(s, kind, deleted, clock, read), kind \in {"insert", "update"},
         kind = "update" => executed[s] # Empty,
         [kind |-> kind, deleted |-> deleted, clock |-> clock, seen |-> executed[s],
          read |-> read] \in Transaction,
         row' = [row EXCEPT ![s] = new]
  PROVE  Kept'
  <1>1. /\ \A p \in Server : \A i \in DOMAIN log[p] : log'[p][i] = log[p][i]
        /\ \A p \in Server : p # s => log'[p] = log[p]
        /\ Len(log'[s]) = Len(log[s]) + 1
        /\ DOMAIN log'[s] = DOMAIN log[s] \cup {Len(log[s]) + 1}
        /\ log'[s][Len(log[s]) + 1].kind = kind
        /\ log'[s][Len(log[s]) + 1].seen = executed[s]
        /\ \A q, o \in Server : q # s => executed'[q][o] = executed[q][o]
        /\ executed' \in [Server -> Vector] /\ purge' = purge
    BY CommitFact DEF IndType
  <1>2. \A o \in Server : Len(log'[o]) <= MaxWrites
    <2>1. Len(log[s]) < MaxWrites /\ Len(log[s]) \in Nat
      BY CommitsLeft DEF Commit, IndType, TypeOK
    <2> QED
      BY <1>1, <2>1, BoundAssumption DEF Kept
  <1>3. ASSUME NEW o \in Server, NEW i \in DOMAIN log'[o]
        PROVE  log'[o][i].kind # "delete" /\ (log'[o][i].kind = "update" => log'[o][i].seen # Empty)
    <2>1. CASE i \in DOMAIN log[o]
      BY <1>1, <2>1 DEF Kept
    <2>2. CASE i \notin DOMAIN log[o]
      <3>1. o = s /\ i = Len(log[s]) + 1
        BY <1>1, <2>2
      <3> QED
        BY <1>1, <3>1
    <2> QED
      BY <2>1, <2>2
  <1>4. ASSUME NEW q \in Server, row'[q] = NoRow
        PROVE  executed'[q] = Empty
    <2>1. q # s /\ row[q] = NoRow
      BY <1>4, RowIsNotNoRow DEF IndType, TypeOK
    <2> QED
      BY <2>1 DEF Kept, Commit, IndType, TypeOK
  <1> QED
    BY <1>1, <1>2, <1>3, <1>4 DEF Kept

LEMMA NextKept ==
  ASSUME Deletes \subseteq {"soft"}, IndType, OneInsert, Kept, [Next]_vars
  PROVE  Kept'
  <1>1. ASSUME NEW s \in Server, Insert(s)
        PROVE  Kept'
    <2> DEFINE new == [write |-> NextWrite(s), deleted |-> FALSE, clock |-> initLogicalClock(s)]
    <2>1. NullClock \in Clock /\ executed[s] \in Vector /\ initLogicalClock(s) \in Clock
      BY EmptyType, DotFact DEF NullClock, Clock, IndType, TypeOK, initLogicalClock
    <2>2. [kind |-> "insert", deleted |-> FALSE, clock |-> NullClock,
           seen |-> executed[s], read |-> {}] \in Transaction
      BY <2>1 DEF Transaction
    <2>3. Commit(s, "insert", FALSE, NullClock, {}) /\ row' = [row EXCEPT ![s] = new]
      BY <1>1 DEF Insert
    <2>4. new \in Row
      BY <2>1, <2>2, <2>3, CommitFact DEF Row, IndType
    <2> HIDE DEF new
    <2> QED
      BY <2>2, <2>3, <2>4, CommitKeeps
  <1>2. ASSUME NEW c \in Client, NEW s \in Server, Update(c, s)
        PROVE  Kept'
    <2>1. PICK deleted \in BOOLEAN, forgotten \in BOOLEAN :
            LET old == row[s].clock
                new == UpdateClock(c, s, forgotten)
            IN  /\ Commit(s, "update", deleted, new, session[c].read)
                /\ row' = [row EXCEPT ![s] = [write |-> NextWrite(s), deleted |-> deleted,
                                              clock |-> FinalClock(old, new, FALSE, s)]]
      BY <1>2 DEF Update
    <2> DEFINE old == row[s].clock
               new == UpdateClock(c, s, forgotten)
               newRow == [write |-> NextWrite(s), deleted |-> deleted,
                          clock |-> FinalClock(old, new, FALSE, s)]
    <2>2. /\ session[c] # NoSession /\ row[s] # NoRow /\ old \in Clock /\ executed[s] \in Vector
      BY <1>2 DEF Update, IndType, TypeOK, Row
    <2>3. new \in Clock /\ session[c].read \in SUBSET Write
      BY <2>2, SessionWithClient DEF UpdateClock
    <2>4. [kind |-> "update", deleted |-> deleted, clock |-> new,
           seen |-> executed[s], read |-> session[c].read] \in Transaction
      BY <2>2, <2>3 DEF Transaction
    <2>5. newRow \in Row
      <3>1. FinalClock(old, new, FALSE, s) \in Clock
        BY <2>2, <2>3, FinalClockFact
      <3> QED
        BY <2>1, <2>4, <3>1, CommitFact DEF Row, IndType
    <2>6. executed[s] # Empty
      BY <2>2 DEF OneInsert
    <2>7. Commit(s, "update", deleted, new, session[c].read) /\ row' = [row EXCEPT ![s] = newRow]
      BY <2>1
    <2> HIDE DEF new, newRow
    <2> QED
      BY <2>4, <2>5, <2>6, <2>7, CommitKeeps
  <1>3. ASSUME NEW s \in Server, HardDelete(s)
        PROVE  FALSE
    BY <1>3 DEF HardDelete
  <1>4. ASSUME NEW s \in Server, NEW o \in Server, Replicate(s, o)
        PROVE  Kept'
    <2> DEFINE t == Transact(<<o, executed[s][o] + 1>>)
    <2>1. /\ log' = log /\ executed' = [executed EXCEPT ![s] = vv_increment(@, o)] /\ Ready(s, o)
          /\ purge' = purge
      BY <1>4 DEF Replicate
    <2>2. /\ t = log[o][executed[s][o] + 1] /\ executed[s][o] + 1 \in DOMAIN log[o]
          /\ t \in Transaction /\ vv_descend(executed[s], t.seen)
      BY <2>1, ReadyFact DEF IndType
    <2>3. row'[s] # NoRow
      <3>1. CASE t.kind = "insert"
        <4> DEFINE new == [write |-> <<o, executed[s][o] + 1>>, deleted |-> FALSE,
                           clock |-> initLogicalClock(o)]
        <4>1. row'[s] = new
          BY <1>4, <3>1 DEF Replicate, ApplyInsert, IndType, TypeOK
        <4>2. new.write \in Write
          BY <2>1, ReadyFact DEF IndType
        <4> HIDE DEF new
        <4> QED
          BY <4>1, <4>2, NoRowWrite
      <3>2. CASE t.kind = "update"
        <4>1. executed[s] # Empty
          <5> SUFFICES ASSUME executed[s] = Empty
                       PROVE  FALSE
            OBVIOUS
          <5>1. vv_descend(t.seen, Empty) /\ t.seen \in Vector /\ Empty \in Vector
            BY <2>2, EmptyType DEF Transaction, Vector, vv_descend, Empty
          <5>2. t.seen = Empty
            BY <2>2, <5>1, DescendAntisymmetric
          <5> QED
            BY <2>2, <3>2, <5>2 DEF Kept
        <4>2. row[s] # NoRow
          BY <4>1 DEF Kept
        <4> DEFINE new == [write |-> <<o, executed[s][o] + 1>>, deleted |-> t.deleted,
                           clock |-> FinalClock(row[s].clock, t.clock,
                                                Concurrent(row[s].clock, t.clock), o)]
        <4>3. row'[s] = new
          BY <1>4, <3>2, <4>2 DEF Replicate, ApplyUpdate, IndType, TypeOK
        <4>4. new.write \in Write
          BY <2>1, ReadyFact DEF IndType
        <4> HIDE DEF new
        <4> QED
          BY <4>3, <4>4, NoRowWrite
      <3> QED
        BY <2>2, <3>1, <3>2 DEF Transaction, Kept
    <2>4. \A q \in Server : row'[q] = NoRow => executed'[q] = Empty
      BY <1>4, <2>1, <2>3, ReplicateLocal DEF Kept, IndType, TypeOK
    <2> QED
      BY <2>1, <2>4 DEF Kept
  <1>5. ASSUME UNCHANGED <<row, log, executed, purge>>
        PROVE  Kept'
    BY <1>5 DEF Kept
  <1>6. ASSUME NEW s \in Server, PurgeAll(s) \/ ReplicatePurge(s)
        PROVE  FALSE
    BY <1>6 DEF PurgeAll, ReplicatePurge, Kept
  <1> QED
    BY <1>1, <1>2, <1>3, <1>4, <1>5, <1>6
       DEF Next, vars, PurgeSiblings, Read, ReadSiblings, Abandon

\* The writes a logged transaction had seen are writes its own origin had executed.
LEMMA SeenIsBelow ==
  ASSUME Evidence, NEW w \in AllWrites
  PROVE  /\ SeenBy(w) = Below(Transact(w).seen)
         /\ w \in Below(executed[w[1]]) /\ w[1] \in Server
         /\ SeenBy(w) \subseteq Below(executed[w[1]])
  <1>1. w[1] \in Server /\ w[2] \in DOMAIN log[w[1]] /\ w = <<w[1], w[2]>>
    BY DEF AllWrites
  <1>2. w \in Below(executed[w[1]])
    BY <1>1, LoggedIsExecuted DEF Evidence
  <1>3. Below(Transact(w).seen) \subseteq Below(executed[w[1]])
    BY <1>1, <1>2, BelowLogged, BelowMonotone DEF Evidence, Causal, IndType, TypeOK
  <1>4. \A x \in Below(executed[w[1]]) : x \in AllWrites
    BY <1>1, ExecutedIsBelow DEF Evidence, Executed
  <1>5. \A x \in AllWrites : x \in Write
    BY LoggedIsExecuted DEF AllWrites, Below, Evidence
  <1>6. SeenBy(w) = {x \in AllWrites : x \in Below(Transact(w).seen)}
    BY <1>5 DEF SeenBy, Below
  <1> QED
    BY <1>1, <1>2, <1>3, <1>4, <1>6

\* The tables hold the current writes on every server, as the row is never deleted.
LEMMA ValuesAlwaysCurrent ==
  ASSUME Evidence, Kept, NEW s \in Server
  PROVE  Values(s) = Current(s)
  <1>1. CASE row[s] # NoRow
    BY <1>1, ValuesAreCurrent DEF Evidence, Kept
  <1>2. CASE row[s] = NoRow
    <2>1. executed[s] = Empty /\ sibling[s] = {}
      BY <1>2 DEF Kept, Evidence, Shown, ShownAt
    <2>2. Values(s) = {}
      BY <1>2, <2>1 DEF Values, Found, LiveSiblings
    <2>3. Current(s) = {}
      BY <2>1, EmptyBelow DEF Current
    <2> QED
      BY <2>2, <2>3
  <1> QED
    BY <1>1, <1>2

\* The register's variables, read off the rows, the siblings and the logs.
known == [s \in Server |-> Executed(s)]
past == [w \in AllWrites |-> SeenBy(w)]
removed == {w \in AllWrites : Transact(w).deleted}
held == [s \in Server |-> Values(s)]

\* Every server holds the values that nothing it knows of supersedes.
LEMMA ShownIsMaximal ==
  ASSUME Evidence, Kept, NEW s \in Server
  PROVE  Values(s) = Register!Maximal(known[s], past, removed)
  <1>1. known[s] = Below(executed[s]) /\ known[s] \subseteq AllWrites
    BY ExecutedIsBelow DEF known, Executed, Evidence
  <1>2. \A x \in known[s] : past[x] = Below(Transact(x).seen)
    BY <1>1, SeenIsBelow DEF past
  <1>3. \A x \in known[s] : x \in removed <=> Transact(x).deleted
    BY <1>1 DEF removed
  <1>4. Current(s) = Register!Maximal(known[s], past, removed)
    BY <1>1, <1>2, <1>3 DEF Current, Register!Maximal
  <1> QED
    BY <1>4, ValuesAlwaysCurrent

\* The variables of the register are what the servers executed and hold.
Mapped ==
    \A s \in Server : /\ known[s] = Below(executed[s])
                      /\ Values(s) = Register!Maximal(known[s], past, removed)

LEMMA EvidenceMaps == Evidence /\ Kept => Mapped
  BY ExecutedIsBelow, ShownIsMaximal DEF Mapped, known, Evidence

LEMMA EvidenceMapsNext == Evidence' /\ Kept' => Mapped'
  BY EvidenceMaps, PTL

\* An execution is a step in which one server learns of one write.
LEMMA ExecutionLearns ==
  ASSUME Evidence, Kept, Evidence', Kept', NEW s \in Server, NEW o \in Server, Execution(s, o),
         \A q \in Server : q # s => row'[q] = row[q] /\ sibling'[q] = sibling[q]
  PROVE  /\ known' = [known EXCEPT ![s] = @ \cup {NextOf(s, o)}]
         /\ held' = [held EXCEPT ![s] = Register!Maximal(known'[s], past', removed')]
  <1>1. \A q \in Server : known[q] = Below(executed[q]) /\ known'[q] = Below(executed'[q])
    BY EvidenceMaps, EvidenceMapsNext DEF Mapped, Below
  <1>2. known' = [known EXCEPT ![s] = @ \cup {NextOf(s, o)}]
    <2>1. /\ known'[s] = known[s] \cup {NextOf(s, o)}
          /\ \A q \in Server : q # s => known'[q] = known[q]
      BY <1>1, ExecutionFact DEF Evidence
    <2>2. /\ known = [q \in Server |-> known[q]] /\ known' = [q \in Server |-> known'[q]]
      BY DEF known
    <2> QED
      BY <2>1, <2>2
  <1>3. Values(s)' = Register!Maximal(known'[s], past', removed')
    BY EvidenceMapsNext DEF Mapped, Register!Maximal
  <1>4. \A q \in Server : q # s => Values(q)' = Values(q)
    BY DEF Values, Found, LiveSiblings
  <1>5. /\ held = [q \in Server |-> Values(q)] /\ held' = [q \in Server |-> Values(q)']
    BY DEF held
  <1> QED
    BY <1>2, <1>3, <1>4, <1>5

LEMMA SeenNext == Evidence' => \A w \in AllWrites' : SeenBy(w)' = Below(Transact(w).seen)'
  <1>1. Evidence => \A w \in AllWrites : SeenBy(w) = Below(Transact(w).seen)
    BY SeenIsBelow
  <1> DEFINE Same == \A w \in AllWrites : SeenBy(w) = Below(Transact(w).seen)
  <1>2. Evidence => Same
    BY <1>1
  <1> HIDE DEF Same
  <1>3. Evidence' => Same'
    BY <1>2, PTL
  <1> QED
    BY <1>3 DEF Same

\* A commit is a Write of the register by the server that logs it.
LEMMA CommitWrites ==
  ASSUME Evidence, Kept, Evidence', Kept', NEW s \in Server, NEW kind, NEW deleted, NEW clock, NEW read,
         Commit(s, kind, deleted, clock, read), kind = "insert" => ~deleted,
         [kind |-> kind, deleted |-> deleted, clock |-> clock, seen |-> executed[s],
          read |-> read] \in Transaction,
         executed[s] = Empty => \A o \in Server : log[o] = <<>>,
         \A q \in Server : q # s => row'[q] = row[q] /\ sibling'[q] = sibling[q]
  PROVE  Register!Next
  <1> DEFINE t == [kind |-> kind, deleted |-> deleted, clock |-> clock, seen |-> executed[s],
                   read |-> read]
  <1>0. PICK w : w = NextOf(s, s)
    OBVIOUS
  <1>1. /\ Execution(s, s) /\ NextWrite(s) = w /\ Incoming(s, s) = t
    BY <1>0, CommitExecutes DEF Evidence, Causal
  <1>2. /\ \A p \in Server : \A i \in DOMAIN log[p] : log'[p][i] = log[p][i]
        /\ \A p \in Server : p # s => log'[p] = log[p]
        /\ DOMAIN log'[s] = DOMAIN log[s] \cup {Len(log[s]) + 1}
        /\ w = <<s, Len(log[s]) + 1>>
        /\ Len(log[s]) \in Nat /\ Len(log[s]) + 1 \notin DOMAIN log[s]
    BY <1>1, CommitFact DEF Evidence, IndType, TypeOK, NextWrite
  <1>3. AllWrites' = AllWrites \cup {w} /\ w \notin AllWrites
    <2>1. \A x \in AllWrites' : x \in AllWrites \cup {w}
      BY <1>2 DEF AllWrites
    <2>2. \A x \in AllWrites : x \in AllWrites'
      BY <1>2 DEF AllWrites
    <2>3. w \in AllWrites' /\ w \notin AllWrites
      BY <1>2 DEF AllWrites
    <2> QED
      BY <2>1, <2>2, <2>3
  <1>4. Transact(w)' = t /\ \A x \in AllWrites : Transact(x)' = Transact(x)
    <2>1. Transact(w)' = t
      BY <1>0, <1>1 DEF Transact, Incoming, NextOf
    <2> QED
      BY <1>2, <2>1 DEF Transact, AllWrites
  <1>5. w \in Server \X (1 .. MaxWrites)
    <2>1. Len(log[s]) < MaxWrites
      BY CommitsLeft DEF Commit, Evidence
    <2> QED
      BY <1>2, <2>1, BoundAssumption
  <1>6. known[s] = {} => DOMAIN past = {}
    <2>1. CASE executed[s] = Empty
      BY <2>1 DEF past, AllWrites
    <2>2. CASE executed[s] # Empty
      <3>1. PICK o \in Server : executed[s][o] >= 1
        BY <2>2, NonEmptyVector DEF Evidence, IndType, TypeOK
      <3>2. <<o, 1>> \in Below(executed[s])
        BY <3>1 DEF Below, Write
      <3> QED
        BY <3>2, EvidenceMaps DEF Mapped
    <2> QED
      BY <2>1, <2>2
  <1>7. past' = [x \in DOMAIN past \cup {w} |-> IF x = w THEN known[s] ELSE past[x]]
    <2>1. \A x \in AllWrites' : SeenBy(x)' = Below(Transact(x).seen)'
      BY SeenNext
    <2>2. SeenBy(w)' = known[s]
      <3>1. known[s] = Below(executed[s])
        BY EvidenceMaps DEF Mapped
      <3>2. SeenBy(w)' = Below(Transact(w).seen)'
        BY <1>3, <2>1
      <3>3. Below(Transact(w).seen)' = Below(executed[s])
        BY <1>4 DEF Below
      <3> QED
        BY <3>1, <3>2, <3>3
    <2>3. \A x \in AllWrites : SeenBy(x)' = SeenBy(x)
      BY <1>3, <1>4, <2>1, SeenIsBelow DEF Below
    <2>4. past' = [x \in AllWrites' |-> SeenBy(x)']
      BY DEF past
    <2>5. DOMAIN past = AllWrites /\ \A x \in AllWrites : past[x] = SeenBy(x)
      BY DEF past
    <2> QED
      BY <1>3, <2>2, <2>3, <2>4, <2>5
  <1>8. removed' = removed \/ removed' = removed \cup {w}
    BY <1>3, <1>4 DEF removed
  <1>9. /\ known' = [known EXCEPT ![s] = @ \cup {w}]
        /\ held' = [held EXCEPT ![s] = Register!Maximal(known'[s], past', removed')]
    BY <1>0, <1>1, ExecutionLearns
  <1>10. w \notin DOMAIN past
    BY <1>3 DEF past
  <1>11. Register!Write(s, w)
    BY <1>6, <1>7, <1>8, <1>9, <1>10 DEF Register!Write, Register!Learn, known, past, removed, held
  <1> QED
    BY <1>5, <1>11 DEF Register!Next

\* A replicated statement is a Deliver, whatever the trigger does to the row.
LEMMA ReplicateDelivers ==
  ASSUME Evidence, Kept, Evidence', Kept', NEW s \in Server, NEW o \in Server, Replicate(s, o)
  PROVE  Register!Next
  <1>0. PICK w : w = NextOf(s, o)
    OBVIOUS
  <1>1. /\ Execution(s, o) /\ Incoming(s, o) = Transact(w) /\ executed[s][o] + 1 \in DOMAIN log[o]
        /\ w = <<o, executed[s][o] + 1>> /\ log' = log
    BY <1>0, ReplicateExecutes DEF Evidence, Causal, NextOf, Replicate
  <1>2. w \in AllWrites /\ w \in Server \X (1 .. MaxWrites)
    <2>1. executed[s][o] + 1 \in 1 .. Len(log[o]) /\ Len(log[o]) \in Nat /\ Len(log[o]) <= MaxWrites
      BY <1>1 DEF Evidence, IndType, TypeOK, Kept
    <2> QED
      BY <1>1, <2>1, BoundAssumption DEF AllWrites
  <1>3. w \in DOMAIN past \ known[s]
    <2>1. w \notin Below(executed[s])
      <3>1. IndType /\ Execution(s, o)
        BY <1>1 DEF Evidence
      <3>2. NextOf(s, o) \notin Below(executed[s])
        BY <3>1, ExecutionFact
      <3> QED
        BY <1>0, <3>2
    <2>2. known[s] = Below(executed[s]) /\ DOMAIN past = AllWrites
      BY EvidenceMaps DEF Mapped, past
    <2> QED
      BY <1>2, <2>1, <2>2
  <1>4. past[w] \subseteq known[s]
    <2>1. Below(Transact(w).seen) \subseteq Below(executed[s])
      BY <1>1, ExecutionFact DEF Evidence
    <2>2. known[s] = Below(executed[s])
      BY EvidenceMaps DEF Mapped
    <2>3. past[w] = Below(Transact(w).seen)
      BY <1>2, SeenIsBelow DEF past
    <2> QED
      BY <2>1, <2>2, <2>3
  <1>5. past' = past /\ removed' = removed
    BY <1>1 DEF past, removed, AllWrites, SeenBy, Transact
  <1>6. /\ known' = [known EXCEPT ![s] = @ \cup {w}]
        /\ held' = [held EXCEPT ![s] = Register!Maximal(known'[s], past', removed')]
    BY <1>0, <1>1, ReplicateLocal, ExecutionLearns DEF Evidence
  <1>7. Register!Deliver(s, w)
    BY <1>3, <1>4, <1>5, <1>6 DEF Register!Deliver, Register!Learn, known, past, removed, held
  <1> QED
    BY <1>2, <1>7 DEF Register!Next

\* Reading and purging leave the register as it is.
LEMMA QuietStutters ==
  ASSUME UNCHANGED <<row, log, executed>>, \A s \in Server : LiveSiblings(s)' = LiveSiblings(s)
  PROVE  UNCHANGED Register!vars
  <1>1. AllWrites' = AllWrites /\ \A x : Transact(x)' = Transact(x)
    BY DEF AllWrites, Transact
  <1>2. known' = known /\ past' = past /\ removed' = removed
    BY <1>1 DEF known, past, removed, Executed, SeenBy
  <1>3. \A s \in Server : Values(s)' = Values(s)
    BY DEF Values, Found
  <1>4. held' = held
    BY <1>3 DEF held
  <1> QED
    BY <1>2, <1>4 DEF Register!vars, known, past, removed, held

LEMMA InitMaps == Init => Register!Init
  <1> SUFFICES ASSUME Init
               PROVE  Register!Init
    OBVIOUS
  <1>1. AllWrites = {}
    BY DEF Init, AllWrites
  <1>2. \A s \in Server : Executed(s) = {} /\ Values(s) = {}
    BY <1>1 DEF Init, Executed, Values, Found, LiveSiblings
  <1> QED
    BY <1>1, <1>2 DEF Register!Init

LEMMA NextMaps ==
  ASSUME ~Roaming, Deletes \subseteq {"soft"}, Evidence, Kept, Evidence', Kept', [Next]_vars
  PROVE  [Register!Next]_Register!vars
  <1>1. ASSUME NEW s \in Server, Insert(s)
        PROVE  Register!Next
    <2>1. [kind |-> "insert", deleted |-> FALSE, clock |-> NullClock,
           seen |-> executed[s], read |-> {}] \in Transaction
      BY EmptyType DEF NullClock, Clock, Evidence, IndType, TypeOK, Transaction
    <2>2. Commit(s, "insert", FALSE, NullClock, {}) /\ \A o \in Server : log[o] = <<>>
      BY <1>1 DEF Insert
    <2>3. \A q \in Server : q # s => row'[q] = row[q] /\ sibling'[q] = sibling[q]
      BY <1>1 DEF Insert, Evidence, IndType, TypeOK
    <2> QED
      BY <2>1, <2>2, <2>3, CommitWrites
  <1>2. ASSUME NEW c \in Client, NEW s \in Server, Update(c, s)
        PROVE  Register!Next
    <2>1. PICK deleted \in BOOLEAN, forgotten \in BOOLEAN :
            Commit(s, "update", deleted, UpdateClock(c, s, forgotten), session[c].read)
      BY <1>2 DEF Update
    <2> DEFINE new == UpdateClock(c, s, forgotten)
    <2>2. /\ session[c] # NoSession /\ row[s] # NoRow /\ row[s].clock \in Clock
          /\ executed[s] \in Vector
      BY <1>2 DEF Update, Evidence, IndType, TypeOK, Row
    <2>3. new \in Clock /\ session[c].read \in SUBSET Write
      BY <2>2, SessionWithClient DEF UpdateClock, Evidence
    <2>4. [kind |-> "update", deleted |-> deleted, clock |-> new,
           seen |-> executed[s], read |-> session[c].read] \in Transaction
      BY <2>2, <2>3 DEF Transaction
    <2>5. executed[s] # Empty
      BY <2>2 DEF Evidence, OneInsert
    <2>6. \A q \in Server : q # s => row'[q] = row[q] /\ sibling'[q] = sibling[q]
      BY <1>2 DEF Update, Evidence, IndType, TypeOK
    <2> HIDE DEF new
    <2> QED
      BY <2>1, <2>4, <2>5, <2>6, CommitWrites DEF new
  <1>3. ASSUME NEW s \in Server, HardDelete(s)
        PROVE  FALSE
    BY <1>3 DEF HardDelete
  <1>4. ASSUME NEW s \in Server, PurgeSiblings(s)
        PROVE  UNCHANGED Register!vars
    <2>1. \A q \in Server : LiveSiblings(q)' = LiveSiblings(q)
      BY <1>4 DEF PurgeSiblings, LiveSiblings, Evidence, IndType, TypeOK
    <2> QED
      BY <1>4, <2>1, QuietStutters DEF PurgeSiblings
  <1>5. ASSUME UNCHANGED <<row, sibling, log, executed>>
        PROVE  UNCHANGED Register!vars
    BY <1>5, QuietStutters DEF LiveSiblings
  <1>6. ASSUME NEW s \in Server, PurgeAll(s) \/ ReplicatePurge(s)
        PROVE  FALSE
    BY <1>6 DEF PurgeAll, ReplicatePurge, Kept
  <1> QED
    BY <1>1, <1>2, <1>3, <1>4, <1>5, <1>6, ReplicateDelivers DEF Next, vars, Read, ReadSiblings, Abandon

(* The triggers implement the multi-value register: with clients that write
   where they read and delete softly, every server holds exactly the values
   that no write it has executed supersedes, for any number of servers. *)
THEOREM RefinesRegister ==
  ASSUME ~Roaming, Deletes \subseteq {"soft"}
  PROVE  Spec => ImplementsRegister
  <1>1. Init => Kept
    BY BoundAssumption DEF Init, Kept
  <1>2. Evidence /\ Kept /\ [Next]_vars => Evidence' /\ Kept'
    BY NextEvidence, NextKept DEF Evidence
  <1>3. Evidence /\ Kept /\ Evidence' /\ Kept' /\ [Next]_vars => [Register!Next]_Register!vars
    BY NextMaps
  <1> QED
    BY <1>1, <1>2, <1>3, InitEvidence, InitMaps, PTL DEF Spec, ImplementsRegister, Register!Spec

-----------------------------------------------------------------------------
(* Replication never stops, whatever the clients do *)

\* MySQL would end the SQL thread at a duplicate key or at a signal of the trigger.
Accepts(s, t) ==
    /\ t.kind = "insert" => row[s] = NoRow
    /\ t.kind = "update" /\ row[s] # NoRow => Valid(t.clock)

(* A statement that a server executed and logged is refused by no other server for its key
   or for its clock, whatever has become of the row there. *)
NothingRefused ==
    \A s, o \in Server : s # o /\ Ready(s, o) => Accepts(s, Transact(NextOf(s, o)))

(* A server that lacks a transaction can execute one: the channels do not wait for each
   other's transactions in a circle. *)
NeverStuck ==
    \A s \in Server : (\E o \in Server : executed[s][o] < Len(log[o]))
                         => \E p \in Server \ {s} : Ready(s, p)

\* What a transaction had seen was logged, together with all that this had seen.
Preceded ==
    \A w \in AllWrites : \A x \in Below(Transact(w).seen) :
        x \in AllWrites /\ vv_descend(Transact(w).seen, Transact(x).seen)

\* An UPDATE is logged with the clock that the trigger has checked on the master.
Checked == \A w \in AllWrites : Transact(w).kind = "update" => Valid(Transact(w).clock)

Replicable == IndType /\ OneInsert /\ Causal /\ Preceded /\ Checked

LEMMA AllWritesFact ==
  ASSUME IndType
  PROVE  /\ \A w : w \in AllWrites <=> w \in Write /\ w[2] \in DOMAIN log[w[1]]
         /\ \A w \in AllWrites : /\ w[1] \in Server /\ w[2] \in Nat /\ w = <<w[1], w[2]>>
                                 /\ w[2] \in DOMAIN log[w[1]]
                                 /\ Transact(w) \in Transaction /\ Transact(w).seen \in Vector
         /\ \A s \in Server : Below(executed[s]) \subseteq AllWrites
         /\ IsFiniteSet(AllWrites)
  <1>1. \A o \in Server : log[o] \in Seq(Transaction) /\ DOMAIN log[o] = 1 .. Len(log[o])
                          /\ Len(log[o]) \in Nat /\ DOMAIN log[o] \subseteq Nat \ {0}
    BY DEF IndType, TypeOK
  <1>2. \A w : w \in AllWrites <=> w \in Write /\ w[2] \in DOMAIN log[w[1]]
    <2>1. \A w : w \in AllWrites <=> \E o \in Server : w \in {o} \X DOMAIN log[o]
      BY DEF AllWrites
    <2> QED
      BY <1>1, <2>1 DEF Write
  <1>3. \A w \in AllWrites : /\ w[1] \in Server /\ w[2] \in Nat /\ w = <<w[1], w[2]>>
                             /\ w[2] \in DOMAIN log[w[1]]
    BY <1>2 DEF Write
  <1>4. \A w \in AllWrites : Transact(w) \in Transaction /\ Transact(w).seen \in Vector
    <2> TAKE w \in AllWrites
    <2>1. log[w[1]] \in Seq(Transaction) /\ w[2] \in DOMAIN log[w[1]]
      BY <1>1, <1>3
    <2>2. Transact(w) \in Transaction
      BY <2>1 DEF Transact
    <2> QED
      BY <2>2 DEF Transaction
  <1>5. \A s \in Server : Below(executed[s]) \subseteq AllWrites
    BY <1>2, BelowLogged
  <1>6. IsFiniteSet(AllWrites)
    <2> DEFINE W == {{o} \X DOMAIN log[o] : o \in Server}
               f == [o \in Server |-> {o} \X DOMAIN log[o]]
    <2>1. f \in Surjection(Server, W)
      BY DEF Surjection
    <2>2. IsFiniteSet(W)
      BY <2>1, ServerAssumption, FS_Surjection
    <2>3. ASSUME NEW o \in Server PROVE IsFiniteSet({o} \X DOMAIN log[o])
      <3> DEFINE D == DOMAIN log[o]
                 O == {o}
      <3>1. IsFiniteSet(D)
        <4>1. D = 1 .. Len(log[o]) /\ Len(log[o]) \in Int /\ 1 \in Int
          BY <1>1
        <4> QED
          BY <4>1, FS_Interval
      <3>2. IsFiniteSet(O)
        BY FS_Singleton
      <3> HIDE DEF D, O
      <3>3. IsFiniteSet(O \X D)
        BY <3>1, <3>2, FS_Product
      <3> QED
        BY <3>3 DEF O, D
    <2>4. \A T \in W : IsFiniteSet(T)
      BY <2>3
    <2> HIDE DEF W
    <2>5. IsFiniteSet(UNION W)
      BY <2>2, <2>4, FS_UNION
    <2> QED
      BY <2>5 DEF W, AllWrites
  <1> QED
    BY <1>2, <1>3, <1>4, <1>5, <1>6

\* A step commits one typed transaction, executes a logged one, or leaves the logs alone.
LEMMA StepKinds ==
  ASSUME IndType, [Next]_vars
  PROVE  \/ UNCHANGED <<log, executed>>
         \/ \E s, o \in Server : Replicate(s, o)
         \/ \E s \in Server, t \in Transaction :
               /\ Commit(s, t.kind, t.deleted, t.clock, t.read)
               /\ t.seen = executed[s]
               /\ t.kind = "insert" => ~t.deleted
               /\ t.kind = "update" => Valid(t.clock)
  <1> DEFINE Committed == \E s \in Server, t \in Transaction :
                              /\ Commit(s, t.kind, t.deleted, t.clock, t.read)
                              /\ t.seen = executed[s]
                              /\ t.kind = "insert" => ~t.deleted
                              /\ t.kind = "update" => Valid(t.clock)
  <1>1. NullClock \in Clock /\ \A s \in Server : executed[s] \in Vector
    BY EmptyType DEF NullClock, Clock, IndType, TypeOK
  <1>2. ASSUME NEW s \in Server, Insert(s) PROVE Committed
    <2>1. PICK t : t = [kind |-> "insert", deleted |-> FALSE, clock |-> NullClock,
                        seen |-> executed[s], read |-> {}]
      OBVIOUS
    <2>2. t \in Transaction
      BY <1>1, <2>1 DEF Transaction
    <2> QED
      BY <1>2, <2>1, <2>2 DEF Insert
  <1>3. ASSUME NEW s \in Server, HardDelete(s) PROVE Committed
    <2>1. PICK t : t = [kind |-> "delete", deleted |-> TRUE, clock |-> NullClock,
                        seen |-> executed[s], read |-> {}]
      OBVIOUS
    <2>2. t \in Transaction
      BY <1>1, <2>1 DEF Transaction
    <2> QED
      BY <1>3, <2>1, <2>2 DEF HardDelete
  <1>4. ASSUME NEW c \in Client, NEW s \in Server, Update(c, s) PROVE Committed
    <2>1. PICK deleted \in BOOLEAN, forgotten \in BOOLEAN :
             LET new == UpdateClock(c, s, forgotten)
             IN  Valid(new) /\ Commit(s, "update", deleted, new, session[c].read)
      BY <1>4 DEF Update
    <2>2. PICK new : new = UpdateClock(c, s, forgotten)
      OBVIOUS
    <2>3. session[c] # NoSession /\ row[s] # NoRow /\ row[s].clock \in Clock
      BY <1>4 DEF Update, IndType, TypeOK, Row
    <2>4. new \in Clock /\ session[c].read \in SUBSET Write
      BY <2>2, <2>3, SessionWithClient DEF UpdateClock
    <2>5. PICK t : t = [kind |-> "update", deleted |-> deleted, clock |-> new,
                        seen |-> executed[s], read |-> session[c].read]
      OBVIOUS
    <2>6. t \in Transaction
      BY <1>1, <2>4, <2>5 DEF Transaction
    <2> QED
      BY <2>1, <2>2, <2>5, <2>6
  <1> QED
    BY <1>2, <1>3, <1>4 DEF Next, vars, PurgeSiblings, PurgeAll, ReplicatePurge, Read, ReadSiblings, Abandon

\* A commit adds a transaction that has seen what its server has executed.
LEMMA CommitReplicable ==
  ASSUME Replicable, IndType', NEW s \in Server, NEW t \in Transaction,
         Commit(s, t.kind, t.deleted, t.clock, t.read), t.seen = executed[s],
         t.kind = "insert" => ~t.deleted, t.kind = "update" => Valid(t.clock)
  PROVE  Causal' /\ Preceded' /\ Checked'
  <1> USE DEF Replicable
  <1>1. t = [kind |-> t.kind, deleted |-> t.deleted, clock |-> t.clock,
             seen |-> executed[s], read |-> t.read]
    BY DEF Transaction
  <1>2. /\ \A p \in Server : \A i \in DOMAIN log[p] : log'[p][i] = log[p][i]
        /\ \A p \in Server : DOMAIN log[p] \subseteq DOMAIN log'[p]
        /\ \A p \in Server : p # s => log'[p] = log[p]
        /\ DOMAIN log'[s] = DOMAIN log[s] \cup {Len(log[s]) + 1}
        /\ log'[s][Len(log[s]) + 1] = t
    BY <1>1, CommitFact DEF IndType
  <1>3. Causal'
    <2>1. Execution(s, s)
      BY <1>1, CommitExecutes DEF Causal
    <2> QED
      BY <2>1, ExecutionCausal
  <1>4. ASSUME NEW w \in AllWrites PROVE w \in AllWrites' /\ Transact(w)' = Transact(w)
    BY <1>2, AllWritesFact DEF Transact, AllWrites
  <1>5. ASSUME NEW w \in AllWrites', w \notin AllWrites
        PROVE  Transact(w)' = t
    <2>1. w[1] \in Server /\ w[2] \in DOMAIN log'[w[1]] /\ w \in Write
      <3>1. PICK p \in Server : w \in {p} \X DOMAIN log'[p]
        BY <1>5 DEF AllWrites
      <3>2. DOMAIN log'[p] \subseteq Nat \ {0}
        <4>1. log'[p] \in Seq(Transaction)
          BY <1>1, CommitFact DEF IndType
        <4> QED
          BY <4>1
      <3>3. w[1] = p /\ w[2] \in DOMAIN log'[p]
        BY <3>1
      <3>4. w \in Write
        BY <3>1, <3>2 DEF Write
      <3> QED
        BY <3>3, <3>4
    <2>2. w[2] \notin DOMAIN log[w[1]]
      BY <1>5, <2>1, AllWritesFact
    <2>3. w[1] = s /\ w[2] = Len(log[s]) + 1
      BY <1>2, <2>1, <2>2
    <2> QED
      BY <1>2, <2>3 DEF Transact
  <1>6. Checked'
    BY <1>4, <1>5 DEF Checked
  <1>7. Preceded'
    <2> SUFFICES ASSUME NEW w \in AllWrites', NEW x \in Below(Transact(w)'.seen)
                 PROVE  x \in AllWrites' /\ vv_descend(Transact(w)'.seen, Transact(x)'.seen)
      BY DEF Preceded, Below
    <2>1. CASE w \in AllWrites
      BY <1>4, <2>1 DEF Preceded
    <2>2. CASE w \notin AllWrites
      <3>1. x \in Below(executed[s])
        BY <1>5, <2>2
      <3>2. x \in AllWrites /\ vv_descend(executed[s], Transact(x).seen)
        BY <3>1, AllWritesFact DEF Causal
      <3> QED
        BY <1>4, <1>5, <2>2, <3>2
    <2> QED
      BY <2>1, <2>2
  <1> QED
    BY <1>3, <1>6, <1>7

LEMMA ReplicableStep ==
  ASSUME Replicable, [Next]_vars
  PROVE  Replicable'
  <1>1. IndType /\ IndType' /\ OneInsert'
    BY NextType, NextOnce DEF Replicable
  <1>2. ASSUME UNCHANGED log PROVE Preceded' /\ Checked'
    BY <1>2 DEF Replicable, Preceded, Checked, AllWrites, Below, Transact
  <1>3. CASE UNCHANGED <<log, executed>>
    BY <1>1, <1>2, <1>3 DEF Replicable, Causal, InOrder, Below, Transact
  <1>4. ASSUME NEW s \in Server, NEW o \in Server, Replicate(s, o) PROVE Replicable'
    <2>1. Causal'
      BY <1>1, <1>4, ReplicateExecutes, ExecutionCausal DEF Replicable, Causal
    <2> QED
      BY <1>1, <1>2, <1>4, <2>1 DEF Replicable, Replicate
  <1>5. ASSUME NEW s \in Server, NEW t \in Transaction,
               Commit(s, t.kind, t.deleted, t.clock, t.read), t.seen = executed[s],
               t.kind = "insert" => ~t.deleted, t.kind = "update" => Valid(t.clock)
        PROVE  Replicable'
    BY <1>1, <1>5, CommitReplicable DEF Replicable
  <1> QED
    BY <1>1, <1>3, <1>4, <1>5, StepKinds

\* Of what a server lacks, something had seen only what the server has.
LEMMA FirstMissing ==
  ASSUME Replicable, NEW s \in Server, NEW o \in Server, executed[s][o] < Len(log[o])
  PROVE  \E p \in Server \ {s} : Ready(s, p)
  <1> DEFINE Missing == AllWrites \ Below(executed[s])
             Past(w) == Below(Transact(w).seen)
             Pasts == {Past(w) : w \in Missing}
  <1>1. /\ executed[s] \in Vector /\ \A q \in Server : executed[s][q] \in Nat
        /\ \A q \in Server : DOMAIN log[q] = 1 .. Len(log[q]) /\ Len(log[q]) \in Nat
        /\ executed[s][s] = Len(log[s])
    BY DEF Replicable, IndType, TypeOK, Logged, Vector
  <1>2. /\ \A w : w \in AllWrites <=> w \in Write /\ w[2] \in DOMAIN log[w[1]]
        /\ \A w \in AllWrites : /\ w[1] \in Server /\ w[2] \in Nat /\ w = <<w[1], w[2]>>
                                /\ w[2] \in DOMAIN log[w[1]] /\ w \in Write
                                /\ Transact(w).seen \in Vector
        /\ IsFiniteSet(AllWrites)
    BY AllWritesFact DEF Replicable
  <1>3. ASSUME NEW q \in Server, NEW j \in DOMAIN log[q], j > executed[s][q]
        PROVE  <<q, j>> \in Missing
    BY <1>1, <1>2, <1>3 DEF Write, Below
  <1>4. Pasts # {} /\ Pasts \subseteq SUBSET AllWrites
    <2>1. <<o, Len(log[o])>> \in Missing
      BY <1>1, <1>3
    <2>2. \A w \in Missing : Past(w) \subseteq AllWrites
      BY DEF Replicable, Preceded
    <2> QED
      BY <2>1, <2>2
  <1>5. PICK least \in Pasts : \A y \in Pasts : ~(y \subseteq least /\ y # least)
    <2> DEFINE R == StrictSubsetOrdering(AllWrites)
               S == FiniteSubsetsOf(AllWrites)
    <2>1. IsWellFoundedOn(R, S)
      BY FS_StrictSubsetOrderingWellFounded
    <2>2. S = SUBSET AllWrites
      BY <1>2, FS_FiniteSubsetsOfFinite
    <2> HIDE DEF Pasts, R, S
    <2>3. PICK x \in Pasts : \A y \in Pasts : ~ (<<y, x>> \in R)
      BY <1>4, <2>1, <2>2, WFMin
    <2>4. ASSUME NEW y \in Pasts PROVE ~(y \subseteq x /\ y # x)
      <3>1. ~(<<y, x>> \in R)
        BY <2>3
      <3>2. y \subseteq x /\ y # x => <<y, x>> \in R
        BY <1>4 DEF R, StrictSubsetOrdering
      <3> QED
        BY <3>1, <3>2
    <2> QED
      BY <2>4
  <1>6. PICK w \in Missing : least = Past(w)
    OBVIOUS
  <1>7. ASSUME NEW x \in Missing, x \in least PROVE FALSE
    <2>1. x \in AllWrites /\ vv_descend(Transact(w).seen, Transact(x).seen)
      BY <1>6, <1>7 DEF Replicable, Preceded
    <2>2. Past(x) \subseteq least
      BY <1>2, <1>6, <2>1, BelowMonotone
    <2>3. x \notin Past(x)
      <3>1. Transact(x).seen[x[1]] = x[2] - 1
        BY <1>2, <2>1 DEF Replicable, Causal, InOrder, Transact
      <3>2. ~(x[2] <= Transact(x).seen[x[1]])
        BY <1>2, <2>1, <3>1
      <3> QED
        BY <3>2 DEF Below
    <2> QED
      BY <1>5, <1>7, <2>2, <2>3
  <1> DEFINE p == w[1]
             j == w[2]
  <1>8. /\ p \in Server /\ j \in Nat /\ j \in DOMAIN log[p] /\ w = <<p, j>> /\ j > executed[s][p]
        /\ Transact(w).seen \in Vector /\ Transact(w) = log[p][j] /\ log[p][j].seen[p] = j - 1
    BY <1>1, <1>2, <1>6 DEF Below, Transact, Replicable, Causal, InOrder
  <1>9. j = executed[s][p] + 1
    <2> SUFFICES ASSUME j # executed[s][p] + 1 PROVE FALSE
      OBVIOUS
    <2>1. j - 1 \in DOMAIN log[p] /\ j - 1 > executed[s][p]
      BY <1>1, <1>8
    <2>2. <<p, j - 1>> \in Missing
      BY <1>3, <1>8, <2>1
    <2>3. <<p, j - 1>> \in least
      BY <1>2, <1>6, <1>8, <2>2 DEF Below
    <2> QED
      BY <1>7, <2>2, <2>3
  <1>10. vv_descend(executed[s], log[p][j].seen)
    <2> SUFFICES ASSUME NEW q \in Server, ~(executed[s][q] >= log[p][j].seen[q]) PROVE FALSE
      BY DEF vv_descend
    <2> DEFINE i == log[p][j].seen[q]
    <2>1. i \in Nat /\ i > executed[s][q] /\ i > 0
      BY <1>1, <1>8 DEF Vector
    <2>2. <<q, i>> \in least
      BY <1>6, <1>8, <2>1 DEF Below, Write
    <2>3. <<q, i>> \in Missing
      BY <1>4, <2>1, <2>2 DEF Below
    <2> QED
      BY <1>7, <2>2, <2>3
  <1>11. p # s
    BY <1>1, <1>8
  <1> QED
    BY <1>1, <1>8, <1>9, <1>10, <1>11 DEF Ready

LEMMA ReplicableInvariant == Spec => []Replicable
  <1>1. Init => Replicable
    <2> SUFFICES ASSUME Init PROVE Replicable
      OBVIOUS
    <2>1. IndType /\ OneInsert
      BY InitType DEF Init, OneInsert, Inserter
    <2>2. \A o \in Server : log[o] = <<>> /\ Below(executed[o]) = {}
      BY EmptyBelow DEF Init
    <2>3. AllWrites = {}
      BY <2>2 DEF AllWrites
    <2> QED
      BY <2>1, <2>2, <2>3 DEF Replicable, Causal, InOrder, Preceded, Checked
  <1> QED
    BY <1>1, ReplicableStep, PTL DEF Spec

(* What EverythingReplicated says, but for fairness, of any clients: roaming clocks, clocks
   left out, deletions.  A statement that the trigger let pass on the master is never
   refused by a slave (dvv-triggers.sql: SomeTable__reconcile signals a conflict on the
   master only), and there is always a channel that can go on. *)
THEOREM ReplicationGoesOn == Spec => [](NothingRefused /\ NeverStuck)
  <1>1. Replicable => NothingRefused
    <2> SUFFICES ASSUME Replicable, NEW s \in Server, NEW o \in Server, s # o, Ready(s, o)
                 PROVE  Accepts(s, Transact(NextOf(s, o)))
      BY DEF NothingRefused
    <2> DEFINE w == NextOf(s, o)
    <2>1. /\ w \in Write /\ w[1] = o /\ w[2] = executed[s][o] + 1 /\ w[2] \in DOMAIN log[o]
          /\ Transact(w) = log[o][w[2]]
      BY ReadyFact DEF Replicable, IndType, NextOf
    <2>2. w \in AllWrites
      BY <2>1, AllWritesFact DEF Replicable
    <2>3. Transact(w).kind = "update" => Valid(Transact(w).clock)
      BY <2>2 DEF Replicable, Checked
    <2>4. Transact(w).kind = "insert" => row[s] = NoRow
      <3> SUFFICES ASSUME Transact(w).kind = "insert" PROVE executed[s] = Empty
        BY DEF Replicable, OneInsert
      <3>1. w[2] = 1
        BY <2>1 DEF Replicable, OneInsert
      <3>2. executed[s][o] = 0 /\ Inserter(o)
        BY <2>1, <3>1 DEF Inserter, Replicable, IndType, TypeOK, Vector
      <3> QED
        BY <3>2 DEF Replicable, OneInsert
    <2> QED
      BY <2>3, <2>4 DEF Accepts
  <1>2. Replicable => NeverStuck
    BY FirstMissing DEF NeverStuck
  <1> QED
    BY <1>1, <1>2, ReplicableInvariant, PTL
=============================================================================
