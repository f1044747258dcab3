---------------------------- MODULE PlumberProofs ----------------------------
(***************************************************************************)
(* Theorems about Plumber, for any number of requesters, cookies and calls.*)
(***************************************************************************)
EXTENDS Plumber, FiniteSetTheorems, SequenceTheorems, TLAPS

Posted == {"done_exec_app", "fail_exec_app"}

\* Is an event of that name queued for the requester?
Has(q, name, r) == \E i \in DOMAIN q : q[i].name = name /\ q[i].sid = r

\* After the exit of its app nothing else is queued for a requester.
ExitLast(q) ==
    \A i, j \in DOMAIN q :
        i < j /\ q[i].name = "fail_exec_app" /\ q[j].name \in Posted => q[i].sid # q[j].sid

\* "done_exec_app" is queued for the requester ahead of any "fail_exec_app".
DoneFirst(q, r) ==
    \E i \in DOMAIN q :
        /\ q[i].name = "done_exec_app" /\ q[i].sid = r
        /\ \A j \in 1 .. i - 1 : ~(q[j].name = "fail_exec_app" /\ q[j].sid = r)

\* What is posted carries the cookie of the requester's own app.
OwnCookie(q) ==
    \A i \in DOMAIN q : q[i].name \in Posted => q[i].cookie = cookie[q[i].sid]

\* The exit that is queued is that of the app whose cookie it names, and queued once.
Signals(q) ==
    /\ \A i \in DOMAIN q : q[i].name = "sig_CHLD" =>
         app[q[i].pid] = "signalled" /\ cookie[q[i].pid] = q[i].cookie
    /\ \A i, j \in DOMAIN q :
         q[i].name = "sig_CHLD" /\ q[j].name = "sig_CHLD" /\ q[i].pid = q[j].pid => i = j

Types ==
    /\ session \in [Request -> {"absent", "open", "gone"}]
    /\ states \in [Request -> SUBSET Posted]
    /\ replies \in [Request -> Seq({"ok", "bad"})]
    /\ app \in [Request -> {"none", "running", "exited", "signalled"}]
    /\ watched \in [Request -> BOOLEAN]
    /\ cookie \in [Request -> Cookie \cup {NoCookie}]
    /\ call \in [Request -> {NoCall, "establish", "establish2"}]
    /\ calls \in [Request -> 0 .. MaxCalls]
    /\ acked \in [Request -> BOOLEAN]
    /\ DOMAIN appinfo \subseteq Cookie /\ appinfo \in [DOMAIN appinfo -> Info]
    /\ queue \in Seq(Event)
    /\ listening \in BOOLEAN
    /\ \A r \in Request : app[r] # "none" => cookie[r] \in Cookie
    /\ \A r \in Request : call[r] # NoCall => app[r] # "none"
-----------------------------------------------------------------------------
(* The queue *)

LEMMA TailFact ==
  ASSUME NEW q \in Seq(Event), q # <<>>
  PROVE  /\ Tail(q) \in Seq(Event) /\ Head(q) \in Event /\ Head(q) = q[1] /\ 1 \in DOMAIN q
         /\ \A i \in DOMAIN Tail(q) : i + 1 \in DOMAIN q /\ Tail(q)[i] = q[i + 1]
         /\ \A i \in DOMAIN q : i # 1 => i - 1 \in DOMAIN Tail(q) /\ q[i] = Tail(q)[i - 1]
  OBVIOUS

LEMMA AppendTwo ==
  ASSUME NEW a, NEW b
  PROVE  Append(<<a>>, b) = <<a, b>>
  <1>1. /\ Append(<<a>>, b) \in Seq({a, b}) /\ Len(Append(<<a>>, b)) = 2
        /\ Append(<<a>>, b)[1] = a /\ Append(<<a>>, b)[2] = b
    OBVIOUS
  <1>2. /\ <<a, b>> \in Seq({a, b}) /\ Len(<<a, b>>) = 2
        /\ <<a, b>>[1] = a /\ <<a, b>>[2] = b
    OBVIOUS
  <1>3. 1..2 = {1, 2}
    OBVIOUS
  <1> QED
    BY <1>1, <1>2, <1>3, SeqEqual

LEMMA HasTail ==
  ASSUME NEW q \in Seq(Event), q # <<>>, NEW name, NEW r, Has(Tail(q), name, r)
  PROVE  Has(q, name, r)
  BY TailFact DEF Has

LEMMA HasAppend ==
  ASSUME NEW q \in Seq(Event), NEW e \in Event, NEW name, NEW r
  PROVE  /\ Append(q, e) \in Seq(Event)
         /\ Has(Append(q, e), name, r) <=> Has(q, name, r) \/ (e.name = name /\ e.sid = r)
  <1>1. /\ Append(q, e) \in Seq(Event)
        /\ Len(q) + 1 \in DOMAIN Append(q, e) /\ Append(q, e)[Len(q) + 1] = e
        /\ \A i \in DOMAIN q : i \in DOMAIN Append(q, e) /\ Append(q, e)[i] = q[i]
        /\ \A i \in DOMAIN Append(q, e) : i # Len(q) + 1 => i \in DOMAIN q
    OBVIOUS
  <1> QED
    BY <1>1 DEF Has

LEMMA ExitLastTail ==
  ASSUME NEW q \in Seq(Event), q # <<>>, ExitLast(q)
  PROVE  /\ ExitLast(Tail(q))
         /\ Head(q).name = "fail_exec_app" => ~Has(Tail(q), "done_exec_app", Head(q).sid)
                                              /\ ~Has(Tail(q), "fail_exec_app", Head(q).sid)
  <1>1. ExitLast(Tail(q))
    BY TailFact DEF ExitLast
  <1>2. \A i \in DOMAIN Tail(q) : i + 1 \in DOMAIN q /\ 1 < i + 1 /\ Tail(q)[i] = q[i + 1]
    BY TailFact
  <1> QED
    BY <1>1, <1>2, TailFact DEF ExitLast, Has, Posted

LEMMA ExitLastAppend ==
  ASSUME NEW q \in Seq(Event), NEW e \in Event, ExitLast(q),
         e.name \in Posted => ~Has(q, "fail_exec_app", e.sid)
  PROVE  ExitLast(Append(q, e))
  <1>1. /\ Append(q, e)[Len(q) + 1] = e /\ Len(q) \in Nat
        /\ \A i \in DOMAIN Append(q, e) :
              /\ i = Len(q) + 1 \/ (i \in DOMAIN q /\ Append(q, e)[i] = q[i])
              /\ i <= Len(q) + 1 /\ i \in Nat
    OBVIOUS
  <1> QED
    BY <1>1 DEF ExitLast, Has

LEMMA DoneFirstTail ==
  ASSUME NEW q \in Seq(Event), q # <<>>, NEW r, DoneFirst(q, r),
         ~(Head(q).name = "done_exec_app" /\ Head(q).sid = r)
  PROVE  /\ DoneFirst(Tail(q), r)
         /\ ~(Head(q).name = "fail_exec_app" /\ Head(q).sid = r)
  <1>1. PICK i \in DOMAIN q : /\ q[i].name = "done_exec_app" /\ q[i].sid = r
                              /\ \A j \in 1 .. i - 1 :
                                    ~(q[j].name = "fail_exec_app" /\ q[j].sid = r)
    BY DEF DoneFirst
  <1>2. i # 1 /\ i \in Nat /\ i > 0
    BY <1>1, TailFact
  <1>3. i - 1 \in DOMAIN Tail(q) /\ Tail(q)[i - 1] = q[i]
    BY <1>2, TailFact
  <1>4. \A j \in 1 .. (i - 1) - 1 : j + 1 \in 1 .. i - 1 /\ Tail(q)[j] = q[j + 1]
    BY <1>2, <1>3, TailFact
  <1>5. 1 \in 1 .. i - 1
    BY <1>2
  <1> QED
    BY <1>1, <1>3, <1>4, <1>5, TailFact DEF DoneFirst

LEMMA DoneFirstAppend ==
  ASSUME NEW q \in Seq(Event), NEW e \in Event, NEW r,
         \/ DoneFirst(q, r)
         \/ e.name = "done_exec_app" /\ e.sid = r /\ ~Has(q, "fail_exec_app", r)
  PROVE  DoneFirst(Append(q, e), r)
  <1>1. /\ Len(q) + 1 \in DOMAIN Append(q, e) /\ Append(q, e)[Len(q) + 1] = e
        /\ \A i \in DOMAIN q : /\ i \in DOMAIN Append(q, e) /\ Append(q, e)[i] = q[i]
                               /\ \A j \in 1 .. i - 1 : Append(q, e)[j] = q[j]
        /\ \A j \in 1 .. (Len(q) + 1) - 1 : j \in DOMAIN q /\ Append(q, e)[j] = q[j]
    OBVIOUS
  <1>2. CASE DoneFirst(q, r)
    <2>1. PICK i \in DOMAIN q : /\ q[i].name = "done_exec_app" /\ q[i].sid = r
                                /\ \A j \in 1 .. i - 1 :
                                      ~(q[j].name = "fail_exec_app" /\ q[j].sid = r)
      BY <1>2 DEF DoneFirst
    <2> QED
      BY <1>1, <2>1 DEF DoneFirst
  <1>3. CASE e.name = "done_exec_app" /\ e.sid = r /\ ~Has(q, "fail_exec_app", r)
    BY <1>1, <1>3 DEF DoneFirst, Has
  <1> QED
    BY <1>2, <1>3

LEMMA OwnCookieTail ==
  ASSUME NEW q \in Seq(Event), q # <<>>, OwnCookie(q)
  PROVE  OwnCookie(Tail(q)) /\ (Head(q).name \in Posted => Head(q).cookie = cookie[Head(q).sid])
  BY TailFact DEF OwnCookie

LEMMA OwnCookieAppend ==
  ASSUME NEW q \in Seq(Event), NEW e \in Event, OwnCookie(q),
         e.name \in Posted => e.cookie = cookie[e.sid]
  PROVE  OwnCookie(Append(q, e))
  <1>1. \A i \in DOMAIN Append(q, e) :
           \/ i = Len(q) + 1 /\ Append(q, e)[i] = e
           \/ i \in DOMAIN q /\ Append(q, e)[i] = q[i]
    OBVIOUS
  <1> QED
    BY <1>1 DEF OwnCookie

LEMMA SignalsTail ==
  ASSUME NEW q \in Seq(Event), q # <<>>, Signals(q)
  PROVE  /\ Signals(Tail(q))
         /\ Head(q).name = "sig_CHLD" =>
               /\ app[Head(q).pid] = "signalled" /\ cookie[Head(q).pid] = Head(q).cookie
               /\ ~HasSignal(Tail(q), Head(q).pid)
         /\ \A r : HasSignal(Tail(q), r) => HasSignal(q, r)
         /\ \A r : HasSignal(q, r) /\ ~(Head(q).name = "sig_CHLD" /\ Head(q).pid = r)
                     => HasSignal(Tail(q), r)
  <1>1. /\ Head(q) = q[1] /\ 1 \in DOMAIN q
        /\ \A i \in DOMAIN Tail(q) : /\ i \in Nat /\ i + 1 # 1
                                     /\ i + 1 \in DOMAIN q /\ Tail(q)[i] = q[i + 1]
        /\ \A i \in DOMAIN q : i # 1 => i - 1 \in DOMAIN Tail(q) /\ q[i] = Tail(q)[i - 1]
    BY TailFact
  <1>2. Signals(Tail(q))
    <2>1. \A i, j \in DOMAIN Tail(q) : i + 1 = j + 1 => i = j
      BY <1>1
    <2> QED
      BY <1>1, <2>1 DEF Signals
  <1>3. Head(q).name = "sig_CHLD" => /\ app[Head(q).pid] = "signalled"
                                     /\ cookie[Head(q).pid] = Head(q).cookie
                                     /\ ~HasSignal(Tail(q), Head(q).pid)
    BY <1>1 DEF Signals, HasSignal
  <1>4. \A r : HasSignal(Tail(q), r) => HasSignal(q, r)
    BY <1>1 DEF HasSignal
  <1>5. ASSUME NEW r, HasSignal(q, r), ~(Head(q).name = "sig_CHLD" /\ Head(q).pid = r)
        PROVE  HasSignal(Tail(q), r)
    BY <1>1, <1>5 DEF HasSignal
  <1> QED
    BY <1>2, <1>3, <1>4, <1>5

LEMMA SignalsAppend ==
  ASSUME NEW q \in Seq(Event), NEW e \in Event, Signals(q), e.name # "sig_CHLD"
  PROVE  /\ Signals(Append(q, e))
         /\ \A r : HasSignal(Append(q, e), r) <=> HasSignal(q, r)
  <1>1. /\ \A i \in DOMAIN Append(q, e) :
              \/ i = Len(q) + 1 /\ Append(q, e)[i] = e
              \/ i \in DOMAIN q /\ Append(q, e)[i] = q[i]
        /\ \A i \in DOMAIN q : i \in DOMAIN Append(q, e) /\ Append(q, e)[i] = q[i]
    OBVIOUS
  <1> QED
    BY <1>1 DEF Signals, HasSignal

LEMMA ConcatShutdowns ==
  ASSUME NEW q \in Seq(Event), NEW t \in Seq(Event),
         \A i \in DOMAIN t : t[i].name = "shutdown"
  PROVE  /\ q \o t \in Seq(Event)
         /\ \A name \in Posted : \A r : Has(q \o t, name, r) => Has(q, name, r)
         /\ ExitLast(q) => ExitLast(q \o t)
         /\ OwnCookie(q) => OwnCookie(q \o t)
         /\ Signals(q) => Signals(q \o t)
         /\ \A r : HasSignal(q \o t, r) <=> HasSignal(q, r)
         /\ \A r : DoneFirst(q, r) => DoneFirst(q \o t, r)
  <1> DEFINE c == q \o t
  <1>1. /\ c \in Seq(Event)
        /\ \A i \in DOMAIN q : /\ i \in DOMAIN c /\ c[i] = q[i]
                               /\ \A j \in 1 .. i - 1 : c[j] = q[j]
        /\ \A i \in DOMAIN c : \/ i \in DOMAIN q
                               \/ i - Len(q) \in DOMAIN t /\ c[i] = t[i - Len(q)]
    OBVIOUS
  <1> HIDE DEF c
  <1>2. \A i \in DOMAIN c : c[i].name \in Posted \cup {"sig_CHLD"} => i \in DOMAIN q /\ c[i] = q[i]
    BY <1>1 DEF Posted
  <1>3. \A name \in Posted : \A r : Has(c, name, r) => Has(q, name, r)
    BY <1>2 DEF Has
  <1>4. ExitLast(q) => ExitLast(c)
    <2> SUFFICES ASSUME ExitLast(q), NEW i \in DOMAIN c, NEW j \in DOMAIN c, i < j,
                        c[i].name = "fail_exec_app", c[j].name \in Posted
                 PROVE  c[i].sid # c[j].sid
      BY DEF ExitLast
    <2>1. i \in DOMAIN q /\ c[i] = q[i] /\ j \in DOMAIN q /\ c[j] = q[j]
      BY <1>2 DEF Posted
    <2> QED
      BY <2>1 DEF ExitLast
  <1>5. OwnCookie(q) => OwnCookie(c)
    BY <1>2 DEF OwnCookie
  <1>6. Signals(q) => Signals(c)
    BY <1>2 DEF Signals
  <1>7. \A r : DoneFirst(q, r) => DoneFirst(c, r)
    BY <1>1 DEF DoneFirst
  <1>8. \A r : HasSignal(c, r) <=> HasSignal(q, r)
    BY <1>1, <1>2 DEF HasSignal
  <1> QED
    BY <1>1, <1>3, <1>4, <1>5, <1>6, <1>7, <1>8 DEF c

\* The events the handlers make.
LEMMA EventFact ==
  /\ \A r \in Request, k \in Cookie, name \in Posted :
        [name |-> name, sid |-> r, cookie |-> k] \in Event
  /\ \A r \in Request, k \in Cookie :
        [name |-> "sig_CHLD", sid |-> Master, pid |-> r, cookie |-> k] \in Event
  /\ \A r \in Request : Shutdown(r) \in Event
  /\ Shutdown(Master) \in Event
  /\ \A e \in Event :
        /\ e.name \in Posted => e.sid \in Request /\ e.cookie \in Cookie
        /\ e.name = "sig_CHLD" => e.sid = Master /\ e.pid \in Request /\ e.cookie \in Cookie
        /\ e.name = "shutdown" => e.sid \in Request \cup {Master}
        /\ e.name \in Posted \cup {"sig_CHLD", "shutdown"}
  BY DEF Event, Posted, Shutdown, Master

\* A signal queues shutdowns for the open sessions and for Master.
LEMMA TerminateFact ==
  ASSUME Types, Terminate
  PROVE  \E t \in Seq(Event) : /\ queue' = queue \o t
                               /\ \A i \in DOMAIN t : t[i].name = "shutdown"
  <1> DEFINE Open == {r \in Request : session[r] = "open"}
  <1>1. PICK order \in SetToSeqs(Open) :
           queue' = queue \o [i \in DOMAIN order |-> Shutdown(order[i])] \o <<Shutdown(Master)>>
    BY DEF Terminate
  <1> DEFINE u == [i \in DOMAIN order |-> Shutdown(order[i])]
  <1>2. Cardinality(Open) \in Nat
    BY RequestAssumption, FS_Subset, FS_CardinalityType
  <1>3. order \in [1..Cardinality(Open) -> Open]
    BY <1>1 DEF SetToSeqs
  <1>4. u \in [1..Cardinality(Open) -> Event] /\ \A i \in DOMAIN u : u[i].name = "shutdown"
    BY <1>3, EventFact DEF Shutdown
  <1> HIDE DEF u, Open
  <1>5. u \in Seq(Event)
    BY <1>2, <1>4
  <1>6. <<Shutdown(Master)>> \in Seq(Event) /\ Shutdown(Master).name = "shutdown"
    BY EventFact DEF Shutdown
  <1>7. u \o <<Shutdown(Master)>> \in Seq(Event)
        /\ \A i \in DOMAIN (u \o <<Shutdown(Master)>>) :
              (u \o <<Shutdown(Master)>>)[i].name = "shutdown"
    <2> PICK v \in Event : v = Shutdown(Master)
      BY EventFact
    <2>1. u \o <<v>> \in Seq(Event)
          /\ \A i \in DOMAIN (u \o <<v>>) :
                (i \in DOMAIN u /\ (u \o <<v>>)[i] = u[i]) \/ (u \o <<v>>)[i] = v
      BY <1>5
    <2> QED
      BY <1>4, <1>6, <2>1
  <1>8. queue' = queue \o (u \o <<Shutdown(Master)>>)
    BY <1>1, <1>5, <1>6 DEF u, Types
  <1> QED
    BY <1>7, <1>8
-----------------------------------------------------------------------------
(* Types *)

LEMMA TargetFact ==
  ASSUME Types, NEW k
  PROVE  /\ Target(k) \subseteq Request
         /\ \A t \in Target(k) : k \in DOMAIN appinfo /\ appinfo[k].sid = t /\ k \in Cookie
         /\ Target(k) # {} => appinfo[k].sid \in Target(k)
  BY DEF Target, Types

LEMMA DropSidType ==
  ASSUME Types, NEW k, DropSid(k)
  PROVE  /\ DOMAIN appinfo' = DOMAIN appinfo /\ appinfo' \in [DOMAIN appinfo' -> Info]
         /\ \A x \in DOMAIN appinfo :
               /\ appinfo'[x].pid = appinfo[x].pid
               /\ x # k => appinfo'[x] = appinfo[x]
               /\ x = k => appinfo'[x].sid = NoSid
  BY DEF DropSid, Types, Info

LEMMA WithoutType ==
  ASSUME Types, NEW k
  PROVE  /\ DOMAIN Without(k) = DOMAIN appinfo \ {k}
         /\ Without(k) \in [DOMAIN appinfo \ {k} -> Info]
         /\ \A x \in DOMAIN appinfo \ {k} : Without(k)[x] = appinfo[x]
  BY DEF Without, Types

LEMMA InitTypes == Init => Types
  <1> SUFFICES ASSUME Init PROVE Types
    OBVIOUS
  <1>1. <<>> \in Seq({"ok", "bad"}) /\ <<>> \in Seq(Event)
    OBVIOUS
  <1>2. DOMAIN appinfo = {} /\ appinfo \in [DOMAIN appinfo -> Info]
    BY DEF Init
  <1>3. calls \in [Request -> 0 .. MaxCalls]
    BY CallsAssumption DEF Init
  <1> QED
    BY <1>1, <1>2, <1>3 DEF Init, Types, NoCall

\* What a dispatched event changes.
LEMMA DispatchTypes ==
  ASSUME Types, Dispatch
  PROVE  /\ queue # <<>> /\ queue' \in Seq(Event)
         /\ session' \in [Request -> {"absent", "open", "gone"}]
         /\ states' \in [Request -> SUBSET Posted]
         /\ replies' \in [Request -> Seq({"ok", "bad"})]
         /\ DOMAIN appinfo' \subseteq Cookie /\ appinfo' \in [DOMAIN appinfo' -> Info]
         /\ listening' \in BOOLEAN
  <1> DEFINE e == Head(queue)
  <1>1. queue \in Seq(Event) /\ queue # <<>>
    BY DEF Types, Dispatch
  <1>2. Tail(queue) \in Seq(Event) /\ e \in Event
    BY <1>1, TailFact
  <1> HIDE DEF e
  <1>3. CASE sig_CHLD(e.cookie) /\ e.name = "sig_CHLD"
    <2> DEFINE k == e.cookie
    <2>1. queue' \in Seq(Event)
      <3>1. CASE Target(k) = {}
        BY <1>2, <1>3, <3>1 DEF sig_CHLD
      <3>2. CASE Target(k) # {}
        <4>1. [name |-> "fail_exec_app", sid |-> appinfo[k].sid, cookie |-> k] \in Event
          BY <3>2, TargetFact, EventFact DEF Posted
        <4> QED
          BY <1>2, <1>3, <3>2, <4>1, HasAppend DEF sig_CHLD
      <3> QED
        BY <3>1, <3>2
    <2> QED
      BY <1>1, <1>3, <2>1, WithoutType DEF sig_CHLD, Types
  <1>4. CASE shutdown_server
    BY <1>1, <1>2, <1>4 DEF shutdown_server, Types
  <1>5. CASE Deliver(e) /\ e.sid # Master
    <2>1. e.sid \in Request
      BY <1>2, <1>5, EventFact
    <2>2. CASE Discard
      BY <1>1, <1>2, <2>2 DEF Discard, Types
    <2>3. CASE shutdown_client(e.sid)
      BY <1>1, <1>2, <2>3 DEF shutdown_client, Stop, Types
    <2>4. CASE on_done_exec_app(e.sid, e.cookie)
      <3>1. Append(replies[e.sid], "ok") \in Seq({"ok", "bad"})
        BY <2>1 DEF Types
      <3>2. states' \in [Request -> SUBSET Posted] /\ replies' \in [Request -> Seq({"ok", "bad"})]
        BY <2>1, <2>4, <3>1 DEF on_done_exec_app, Unregister, put, Types
      <3> QED
        BY <1>1, <1>2, <2>4, <3>2, DropSidType DEF on_done_exec_app, Types
    <2>5. CASE on_fail_exec_app(e.sid, e.cookie)
      <3>1. Append(replies[e.sid], "bad") \in Seq({"ok", "bad"})
        BY <2>1 DEF Types
      <3>2. states' \in [Request -> SUBSET Posted] /\ replies' \in [Request -> Seq({"ok", "bad"})]
        BY <2>1, <2>5, <3>1 DEF on_fail_exec_app, Unregister, put, Types
      <3> QED
        BY <1>1, <1>2, <2>5, <3>2, DropSidType DEF on_fail_exec_app, Types
    <2> QED
      BY <1>5, <2>2, <2>3, <2>4, <2>5 DEF Deliver
  <1> QED
    BY <1>1, <1>3, <1>4, <1>5 DEF Dispatch, e

LEMMA TypesStep ==
  ASSUME Types, [Next]_vars
  PROVE  Types'
  <1> USE DEF Types
  <1>1. CASE UNCHANGED vars
    BY <1>1 DEF vars, appVars
  <1>2. ASSUME NEW r \in Request, Connect(r) \/ Disconnect(r) PROVE Types'
    BY <1>2 DEF Connect, Disconnect, Stop, appVars
  <1>3. ASSUME NEW r \in Request, ExecRefused(r) PROVE Types'
    <2>1. Append(replies[r], "bad") \in Seq({"ok", "bad"})
      OBVIOUS
    <2> QED
      BY <1>3, <2>1 DEF ExecRefused, put, appVars
  <1>4. ASSUME NEW r \in Request, Exec(r) PROVE Types'
    <2>1. PICK k \in Cookie :
             /\ cookie' = [cookie EXCEPT ![r] = k]
             /\ appinfo' = [x \in DOMAIN appinfo \cup {k} |->
                               IF x = k THEN [pid |-> r, sid |-> r] ELSE appinfo[x]]
      BY <1>4 DEF Exec
    <2>2. [pid |-> r, sid |-> r] \in Info
      BY DEF Info
    <2>3. DOMAIN appinfo' \subseteq Cookie /\ appinfo' \in [DOMAIN appinfo' -> Info]
      BY <2>1, <2>2
    <2>4. /\ cookie' \in [Request -> Cookie \cup {NoCookie}]
          /\ app' \in [Request -> {"none", "running", "exited", "signalled"}]
          /\ \A s \in Request : app'[s] # "none" => cookie'[s] \in Cookie
          /\ \A s \in Request : call'[s] # NoCall => app'[s] # "none"
      BY <1>4, <2>1 DEF Exec
    <2>5. watched' \in [Request -> BOOLEAN] /\ states' \in [Request -> SUBSET Posted]
      BY <1>4 DEF Exec, Posted
    <2> QED
      BY <1>4, <2>3, <2>4, <2>5 DEF Exec
  <1>5. ASSUME NEW r \in Request, Send(r) PROVE Types'
    <2>1. calls' \in [Request -> 0 .. MaxCalls]
      BY <1>5, CallsAssumption DEF Send
    <2>2. /\ call' \in [Request -> {NoCall, "establish", "establish2"}]
          /\ \A s \in Request : call'[s] # NoCall => app[s] # "none"
      BY <1>5 DEF Send
    <2> QED
      BY <1>5, <2>1, <2>2 DEF Send
  <1>6. ASSUME NEW r \in Request, Exit(r) PROVE Types'
    BY <1>6 DEF Exit
  <1>7. ASSUME NEW r \in Request, Reap(r) PROVE Types'
    <2>1. queue' \in Seq(Event)
      BY <1>7, EventFact, HasAppend DEF Reap
    <2> QED
      BY <1>7, <2>1 DEF Reap
  <1>8. ASSUME NEW r \in Request, Establish(r) PROVE Types'
    BY <1>8 DEF Establish
  <1>9. ASSUME NEW r \in Request, Establish2(r) PROVE Types'
    <2>1. queue' \in Seq(Event) /\ acked' \in [Request -> BOOLEAN]
      <3>1. CASE Target(cookie[r]) = {}
        BY <1>9, <3>1 DEF Establish2
      <3>2. CASE Target(cookie[r]) # {}
        <4>1. PICK t \in Target(cookie[r]) :
                 queue' = Append(queue, [name |-> "done_exec_app", sid |-> t,
                                         cookie |-> cookie[r]])
          BY <1>9, <3>2 DEF Establish2
        <4>2. [name |-> "done_exec_app", sid |-> t, cookie |-> cookie[r]] \in Event
          BY TargetFact, EventFact DEF Posted
        <4> QED
          BY <1>9, <3>2, <4>1, <4>2, HasAppend DEF Establish2
      <3> QED
        BY <3>1, <3>2
    <2> QED
      BY <1>9, <2>1 DEF Establish2
  <1>10. CASE Dispatch
    BY <1>10, DispatchTypes DEF Dispatch, appVars
  <1>11. CASE Terminate
    <2>1. queue' \in Seq(Event)
      BY <1>11, TerminateFact, ConcatShutdowns
    <2> QED
      BY <1>11, <2>1 DEF Terminate, appVars
  <1> QED
    BY <1>1, <1>2, <1>3, <1>4, <1>5, <1>6, <1>7, <1>8, <1>9, <1>10, <1>11 DEF Next

LEMMA TypesInvariant == Spec => []Types
  <1>1. Types /\ [Next]_vars => Types'
    BY TypesStep
  <1> QED
    BY <1>1, InitTypes, PTL DEF Spec

\* Types of what plumber keeps of requesters and apps.
THEOREM TypeCorrect == Spec => []TypeOK
  <1>1. Types => TypeOK
    BY DEF Types, TypeOK, Posted
  <1> QED
    BY <1>1, TypesInvariant, PTL
-----------------------------------------------------------------------------
(* What a requester is told *)

Recorded(r) == \E k \in DOMAIN appinfo : appinfo[k].sid = r

\* The answers a requester has got, and those it can still get.
Shape(r) ==
    \/ states[r] = Posted /\ replies[r] = <<>>
    \/ states[r] = {"fail_exec_app"} /\ replies[r] = <<"ok">>
    \/ states[r] = {"done_exec_app"} /\ replies[r] = <<"bad">>
    \/ states[r] = {} /\ replies[r] = <<"ok", "bad">>

Unborn(r) ==
    /\ states[r] = {} /\ replies[r] \in {<<>>, <<"bad">>}
    /\ ~Recorded(r) /\ ~acked[r]
    /\ \A name \in Posted : ~Has(queue, name, r)

\* While a requester is recorded, it has been told nothing and will not be told of an exit;
\* once it is told of the exit, nothing else follows.
Told ==
    /\ \A r \in Request : IF app[r] = "none" THEN Unborn(r) ELSE Shape(r)
    /\ \A k \in DOMAIN appinfo : appinfo[k].sid # NoSid => cookie[appinfo[k].sid] = k
    /\ \A r \in Request : Recorded(r) => replies[r] = <<>> /\ ~Has(queue, "fail_exec_app", r)
    /\ \A r \in Request : replies[r] = <<"bad">> => ~Has(queue, "done_exec_app", r)
    /\ OwnCookie(queue) /\ ExitLast(queue)

ToldInv == Types /\ Told

LEMMA InitTold == Init => Told
  <1> SUFFICES ASSUME Init PROVE Told
    OBVIOUS
  <1>1. \A name, r : ~Has(queue, name, r)
    BY DEF Init, Has
  <1>2. OwnCookie(queue) /\ ExitLast(queue)
    BY DEF Init, OwnCookie, ExitLast
  <1> QED
    BY <1>1, <1>2 DEF Init, Told, Unborn, Recorded

LEMMA OwnCookiePrime ==
  ASSUME NEW q, OwnCookie(q), UNCHANGED cookie
  PROVE  OwnCookie(q)'
  BY DEF OwnCookie

\* A step that tells nobody anything and posts nothing.
LEMMA QuietTold ==
  ASSUME Told, Types', UNCHANGED <<states, replies, cookie>>,
         \A r \in Request : app'[r] = "none" <=> app[r] = "none",
         \A r \in Request : app[r] = "none" => acked'[r] = acked[r],
         DOMAIN appinfo' \subseteq DOMAIN appinfo,
         \A k \in DOMAIN appinfo' : appinfo'[k].sid \in {appinfo[k].sid, NoSid},
         \A name \in Posted : \A r \in Request : Has(queue', name, r) => Has(queue, name, r),
         OwnCookie(queue'), ExitLast(queue')
  PROVE  Told'
  <1>1. \A r \in Request : Recorded(r)' => Recorded(r)
    BY NamesAssumption DEF Recorded
  <1>2. \A name \in Posted : \A r \in Request : Has(queue, name, r)' => Has(queue, name, r)
    BY DEF Has
  <1>3. \A r \in Request : IF app'[r] = "none" THEN Unborn(r)' ELSE Shape(r)'
    BY <1>1, <1>2 DEF Told, Unborn, Shape
  <1>4. \A k \in DOMAIN appinfo' :
           appinfo'[k].sid # NoSid => cookie'[appinfo'[k].sid] = k
    BY DEF Told
  <1>5. OwnCookie(queue)' /\ ExitLast(queue)'
    BY DEF OwnCookie, ExitLast
  <1>6. "fail_exec_app" \in Posted /\ "done_exec_app" \in Posted
    BY DEF Posted
  <1> QED
    BY <1>1, <1>2, <1>3, <1>4, <1>5, <1>6 DEF Told

\* An event is posted to a recorded requester; if it is the exit, the record goes.
LEMMA PostTold ==
  ASSUME Told, Types, Types', UNCHANGED <<states, replies, cookie, app>>,
         NEW q \in Seq(Event), OwnCookie(q), ExitLast(q),
         \A name \in Posted : \A r \in Request : Has(q, name, r) => Has(queue, name, r),
         NEW k \in DOMAIN appinfo, NEW name \in Posted, NEW t \in Request, appinfo[k].sid = t,
         queue' = Append(q, [name |-> name, sid |-> t, cookie |-> k]),
         \/ name = "done_exec_app" /\ UNCHANGED appinfo
         \/ appinfo' = Without(k),
         \A r \in Request : app[r] = "none" => acked'[r] = acked[r]
  PROVE  Told'
  <1> PICK e \in Event : e = [name |-> name, sid |-> t, cookie |-> k]
    BY EventFact DEF Types
  <1>1. e.name = name /\ e.sid = t /\ e.cookie = k /\ queue' = Append(q, e)
    OBVIOUS
  <1>2. Recorded(t) /\ cookie[t] = k /\ replies[t] = <<>> /\ app[t] # "none"
        /\ ~Has(queue, "fail_exec_app", t)
    BY NamesAssumption DEF Told, Recorded, Unborn
  <1>3. ~Has(q, "fail_exec_app", t)
    BY <1>2 DEF Posted
  <1>4. OwnCookie(queue') /\ ExitLast(queue')
    BY <1>1, <1>2, <1>3, OwnCookieAppend, ExitLastAppend
  <1>5. \A n \in Posted : \A r \in Request :
           Has(queue', n, r) => Has(queue, n, r) \/ (n = name /\ r = t)
    BY <1>1, HasAppend
  <1>6. DOMAIN appinfo' \subseteq DOMAIN appinfo
        /\ \A x \in DOMAIN appinfo' : appinfo'[x] = appinfo[x]
    BY DEF Without
  <1>7. \A r \in Request : Recorded(r)' => Recorded(r) /\ (name = "fail_exec_app" => r # t)
    <2> SUFFICES ASSUME NEW r \in Request, Recorded(r)'
                 PROVE  Recorded(r) /\ (name = "fail_exec_app" => r # t)
      OBVIOUS
    <2>1. PICK x \in DOMAIN appinfo' : appinfo'[x].sid = r
      BY DEF Recorded
    <2>2. x \in DOMAIN appinfo /\ appinfo[x].sid = r
      BY <1>6, <2>1
    <2>3. name = "fail_exec_app" => x # k
      BY <2>1, WithoutType
    <2>4. cookie[r] = x
      BY <2>2, NamesAssumption DEF Told
    <2> QED
      BY <1>2, <2>2, <2>3, <2>4 DEF Recorded
  <1>8. \A n \in Posted : \A r \in Request :
           Has(queue, n, r)' => Has(queue, n, r) \/ (n = name /\ r = t)
    BY <1>5 DEF Has
  <1>9. \A r \in Request : IF app'[r] = "none" THEN Unborn(r)' ELSE Shape(r)'
    BY <1>2, <1>7, <1>8 DEF Told, Unborn, Shape
  <1>10. \A x \in DOMAIN appinfo' :
            appinfo'[x].sid # NoSid => cookie'[appinfo'[x].sid] = x
    BY <1>6 DEF Told
  <1>11. \A r \in Request : Recorded(r)' => replies'[r] = <<>> /\ ~Has(queue, "fail_exec_app", r)'
    BY <1>7, <1>8 DEF Told, Posted
  <1>12. \A r \in Request : replies'[r] = <<"bad">> => ~Has(queue, "done_exec_app", r)'
    BY <1>2, <1>8 DEF Told, Posted
  <1>13. OwnCookie(queue)' /\ ExitLast(queue)'
    BY <1>4 DEF OwnCookie, ExitLast
  <1> QED
    BY <1>9, <1>10, <1>11, <1>12, <1>13 DEF Told

LEMMA ExecTold ==
  ASSUME Told, Types, Types', NEW r \in Request, ExecRefused(r) \/ Exec(r)
  PROVE  Told'
  <1>1. Unborn(r) /\ replies[r] = <<>>
    BY DEF Told, ExecRefused, Exec, Unasked
  <1>2. CASE ExecRefused(r)
    <2>1. /\ replies'[r] = <<"bad">> /\ \A s \in Request \ {r} : replies'[s] = replies[s]
          /\ UNCHANGED <<states, app, cookie, acked, appinfo, queue>>
      BY <1>1, <1>2 DEF ExecRefused, put, Types, appVars
    <2>2. \A s \in Request : s # r => (app[s] # "none" => Shape(s)')
      BY <2>1 DEF Told, Shape
    <2>3. ~Recorded(r)' /\ \A name \in Posted : ~Has(queue, name, r)'
      BY <1>1, <2>1 DEF Unborn, Recorded, Has
    <2>4. app[r] = "none"
      BY <1>2 DEF ExecRefused, Unasked
    <2>5. \A s \in Request : app[s] = "none" => Unborn(s)'
      BY <1>1, <2>1, <2>3 DEF Told, Unborn, Recorded, Has
    <2>6. OwnCookie(queue)' /\ ExitLast(queue)'
      BY <2>1 DEF Told, OwnCookie, ExitLast
    <2>7. \A s \in Request : Recorded(s)' => replies'[s] = <<>> /\ ~Has(queue, "fail_exec_app", s)'
      BY <2>1, <2>3 DEF Told, Recorded, Has
    <2>8. \A s \in Request : replies'[s] = <<"bad">> => ~Has(queue, "done_exec_app", s)'
      BY <2>1, <2>3 DEF Told, Has, Posted
    <2> QED
      BY <2>1, <2>2, <2>4, <2>5, <2>6, <2>7, <2>8 DEF Told
  <1>3. CASE Exec(r)
    <2>1. PICK k \in Cookie :
             /\ cookie' = [cookie EXCEPT ![r] = k]
             /\ appinfo' = [x \in DOMAIN appinfo \cup {k} |->
                               IF x = k THEN [pid |-> r, sid |-> r] ELSE appinfo[x]]
      BY <1>3 DEF Exec
    <2>2. /\ cookie'[r] = k /\ \A s \in Request \ {r} : cookie'[s] = cookie[s]
          /\ app[r] = "none" /\ app'[r] # "none" /\ \A s \in Request \ {r} : app'[s] = app[s]
          /\ states'[r] = Posted /\ \A s \in Request \ {r} : states'[s] = states[s]
          /\ UNCHANGED <<replies, acked, queue>>
      BY <1>3, <2>1 DEF Exec, Unasked, Types, Posted
    <2>3. /\ DOMAIN appinfo' = DOMAIN appinfo \cup {k} /\ appinfo'[k].sid = r
          /\ \A x \in DOMAIN appinfo \ {k} : appinfo'[x] = appinfo[x]
      BY <2>1
    <2>4. \A s \in Request \ {r} : Recorded(s)' => Recorded(s)
      BY <2>3 DEF Recorded
    <2>5. \A name : \A s : Has(queue, name, s)' <=> Has(queue, name, s)
      BY <2>2 DEF Has
    <2>6. \A s \in Request : IF app'[s] = "none" THEN Unborn(s)' ELSE Shape(s)'
      BY <1>1, <2>2, <2>4, <2>5 DEF Told, Unborn, Shape
    <2>7. \A x \in DOMAIN appinfo' :
             appinfo'[x].sid # NoSid => cookie'[appinfo'[x].sid] = x
      <3> TAKE x \in DOMAIN appinfo'
      <3>1. CASE x = k
        BY <2>2, <2>3, <3>1
      <3>2. CASE x # k
        <4>1. x \in DOMAIN appinfo /\ appinfo'[x] = appinfo[x] /\ appinfo[x].sid # r
          BY <1>1, <2>3, <3>2 DEF Unborn, Recorded
        <4>2. appinfo[x].sid \in Request \cup {NoSid}
          BY <4>1 DEF Types, Info
        <4> QED
          BY <2>2, <4>1, <4>2 DEF Told
      <3> QED
        BY <3>1, <3>2
    <2>8. OwnCookie(queue)'
      <3> SUFFICES ASSUME NEW i \in DOMAIN queue, queue[i].name \in Posted
                   PROVE  queue[i].cookie = cookie'[queue[i].sid]
        BY <2>2 DEF OwnCookie
      <3>1. queue[i].sid # r
        BY <1>1 DEF Unborn, Has
      <3>2. queue[i].sid \in Request
        BY EventFact DEF Types
      <3> QED
        BY <2>2, <3>1, <3>2 DEF Told, OwnCookie
    <2>9. \A s \in Request : Recorded(s)' => replies'[s] = <<>> /\ ~Has(queue, "fail_exec_app", s)'
      BY <1>1, <2>2, <2>4, <2>5 DEF Told, Unborn, Posted
    <2>10. ExitLast(queue)'
      BY <2>2 DEF Told, ExitLast
    <2> QED
      BY <2>2, <2>5, <2>6, <2>7, <2>8, <2>9, <2>10 DEF Told
  <1> QED
    BY <1>2, <1>3

\* The handler of an event that has been posted.
Answer(e) ==
    /\ queue # <<>> /\ e = Head(queue) /\ e.name \in Posted /\ e.name \in states[e.sid]
    /\ UNCHANGED <<app, cookie, acked, session>>
    /\ \/ e.name = "done_exec_app" /\ on_done_exec_app(e.sid, e.cookie)
       \/ e.name = "fail_exec_app" /\ on_fail_exec_app(e.sid, e.cookie)

\* An app's report is the first answer; its exit may be the second one.
LEMMA AnswerReplies ==
  ASSUME Told, Types, NEW e, Answer(e)
  PROVE  /\ queue \in Seq(Event) /\ e \in Event /\ e.sid \in Request /\ queue' = Tail(queue)
         /\ e.cookie = cookie[e.sid] /\ Has(queue, e.name, e.sid) /\ app[e.sid] # "none"
         /\ \A s \in Request \ {e.sid} : states'[s] = states[s] /\ replies'[s] = replies[s]
         /\ Shape(e.sid)' /\ replies'[e.sid] # <<>>
         /\ e.name = "done_exec_app" => replies'[e.sid] = <<"ok">>
         /\ e.name = "fail_exec_app" /\ replies[e.sid] # <<>> => replies'[e.sid] = <<"ok", "bad">>
  <1> DEFINE r == e.sid
  <1>1. queue \in Seq(Event) /\ e \in Event /\ r \in Request /\ queue' = Tail(queue)
    BY TailFact, EventFact DEF Answer, Types, on_done_exec_app, on_fail_exec_app
  <1>2. e.cookie = cookie[r] /\ Has(queue, e.name, r) /\ app[r] # "none" /\ Shape(r)
    BY <1>1, TailFact, OwnCookieTail DEF Answer, Told, Unborn, Has
  <1>3. \A s \in Request \ {r} : states'[s] = states[s] /\ replies'[s] = replies[s]
    BY <1>1 DEF Answer, on_done_exec_app, on_fail_exec_app, Unregister, put, Types
  <1>4. CASE e.name = "done_exec_app"
    <2>1. states'[r] = states[r] \ {"done_exec_app"} /\ replies'[r] = Append(replies[r], "ok")
      BY <1>1, <1>4 DEF Answer, on_done_exec_app, Unregister, put, Types
    <2>2. replies[r] # <<"bad">>
      BY <1>1, <1>2, <1>4 DEF Told
    <2>3. states[r] = Posted /\ replies[r] = <<>>
      BY <1>2, <1>4, <2>2 DEF Answer, Shape
    <2>4. Shape(r)' /\ replies'[r] = <<"ok">>
      BY <2>1, <2>3 DEF Shape, Posted
    <2> QED
      BY <1>1, <1>2, <1>3, <1>4, <2>4
  <1>5. CASE e.name = "fail_exec_app"
    <2>1. states'[r] = states[r] \ {"fail_exec_app"} /\ replies'[r] = Append(replies[r], "bad")
      BY <1>1, <1>5 DEF Answer, on_fail_exec_app, Unregister, put, Types
    <2>2. \/ states[r] = Posted /\ replies[r] = <<>>
          \/ states[r] = {"fail_exec_app"} /\ replies[r] = <<"ok">>
      BY <1>2, <1>5 DEF Answer, Shape
    <2>3. Append(<<>>, "bad") = <<"bad">>
      OBVIOUS
    <2>4. Append(<<"ok">>, "bad") = <<"ok", "bad">>
      BY AppendTwo
    <2>5. \/ replies[r] = <<>> /\ states'[r] = {"done_exec_app"} /\ replies'[r] = <<"bad">>
          \/ states'[r] = {} /\ replies'[r] = <<"ok", "bad">>
      BY <2>1, <2>2, <2>3, <2>4 DEF Posted
    <2>6. Shape(r)' /\ replies'[r] # <<>> /\ (replies[r] # <<>> => replies'[r] = <<"ok", "bad">>)
      BY <2>5 DEF Shape
    <2> QED
      BY <1>1, <1>2, <1>3, <1>5, <2>6
  <1> QED
    BY <1>4, <1>5 DEF Answer

LEMMA AnswerTold ==
  ASSUME Told, Types, Types', NEW e, Answer(e)
  PROVE  Told'
  <1> DEFINE r == e.sid
             k == e.cookie
  <1>1. queue \in Seq(Event) /\ e \in Event /\ r \in Request /\ queue' = Tail(queue)
    BY AnswerReplies
  <1>2. k = cookie[r] /\ Has(queue, e.name, r) /\ app[r] # "none"
        /\ queue # <<>> /\ e = Head(queue) /\ e.name \in Posted
        /\ UNCHANGED <<app, cookie, acked>>
    BY AnswerReplies DEF Answer
  <1>3. \A name \in Posted : \A s : Has(queue, name, s)' => Has(queue, name, s)
    BY <1>1, HasTail DEF Has
  <1>4. DropSid(k)
    BY DEF Answer, on_done_exec_app, on_fail_exec_app
  <1>5. /\ DOMAIN appinfo' = DOMAIN appinfo
        /\ \A x \in DOMAIN appinfo : IF x = k THEN appinfo'[x].sid = NoSid
                                     ELSE appinfo'[x] = appinfo[x]
    BY <1>4, DropSidType
  <1>6. \A s \in Request : Recorded(s)' => Recorded(s) /\ s # r
    <2> SUFFICES ASSUME NEW s \in Request, NEW x \in DOMAIN appinfo, appinfo'[x].sid = s
                 PROVE  Recorded(s) /\ s # r
      BY <1>5 DEF Recorded
    <2>1. x # k /\ appinfo[x].sid = s
      BY <1>5, NamesAssumption
    <2>2. cookie[s] = x
      BY <2>1, NamesAssumption DEF Told
    <2> QED
      BY <1>2, <2>1, <2>2 DEF Recorded
  <1>7. \A x \in DOMAIN appinfo' :
           appinfo'[x].sid # NoSid => cookie'[appinfo'[x].sid] = x
    BY <1>2, <1>5 DEF Told
  <1>8. OwnCookie(queue)' /\ ExitLast(queue)'
    <2>1. OwnCookie(Tail(queue)) /\ ExitLast(Tail(queue))
      BY <1>1, <1>2, OwnCookieTail, ExitLastTail DEF Told
    <2> QED
      BY <1>1, <1>2, <2>1 DEF OwnCookie, ExitLast
  <1>9. \A s \in Request \ {r} : states'[s] = states[s] /\ replies'[s] = replies[s]
    BY AnswerReplies
  <1>10. Shape(r)' /\ replies'[r] # <<>>
    BY AnswerReplies
  <1>11. \A s \in Request : IF app'[s] = "none" THEN Unborn(s)' ELSE Shape(s)'
    BY <1>2, <1>3, <1>6, <1>9, <1>10 DEF Told, Unborn, Shape
  <1>12. \A s \in Request : Recorded(s)' => replies'[s] = <<>> /\ ~Has(queue, "fail_exec_app", s)'
    BY <1>3, <1>6, <1>9 DEF Told, Posted
  <1>13. \A s \in Request : replies'[s] = <<"bad">> => ~Has(queue, "done_exec_app", s)'
    <2>1. CASE e.name = "done_exec_app"
      BY <1>3, <1>9, <2>1, AnswerReplies DEF Told, Posted
    <2>2. CASE e.name = "fail_exec_app"
      <3>1. ~Has(queue, "done_exec_app", r)'
        BY <1>1, <1>2, <2>2, ExitLastTail DEF Told, Has
      <3> QED
        BY <1>3, <1>9, <3>1 DEF Told, Posted
    <2> QED
      BY <1>2, <2>1, <2>2 DEF Posted
  <1> QED
    BY <1>7, <1>8, <1>11, <1>12, <1>13 DEF Told

LEMMA TailQuiet ==
  ASSUME Types, Told, queue # <<>>
  PROVE  /\ \A name \in Posted : \A r \in Request : Has(Tail(queue), name, r) => Has(queue, name, r)
         /\ OwnCookie(Tail(queue)) /\ ExitLast(Tail(queue))
  BY HasTail, OwnCookieTail, ExitLastTail DEF Types, Told

LEMMA DispatchTold ==
  ASSUME Told, Types, Types', Dispatch
  PROVE  Told'
  <1> PICK e : e = Head(queue)
    OBVIOUS
  <1>1. queue # <<>> /\ UNCHANGED <<app, watched, cookie, call, calls, acked>>
    BY DEF Dispatch, appVars
  <1>2. queue \in Seq(Event) /\ e \in Event /\ Tail(queue) \in Seq(Event)
    BY <1>1, TailFact DEF Types
  <1>3. CASE e.name = "sig_CHLD" /\ sig_CHLD(e.cookie)
    <2> DEFINE k == e.cookie
    <2>1. UNCHANGED <<session, states, replies, listening>> /\ appinfo' = Without(k)
      BY <1>3 DEF sig_CHLD
    <2>2. CASE Target(k) = {}
      <3>1. queue' = Tail(queue)
        BY <1>3, <2>2 DEF sig_CHLD
      <3>2. /\ DOMAIN appinfo' \subseteq DOMAIN appinfo
            /\ \A x \in DOMAIN appinfo' : appinfo'[x].sid \in {appinfo[x].sid, NoSid}
        BY <2>1 DEF Without
      <3> QED
        BY <1>1, <2>1, <3>1, <3>2, TailQuiet, QuietTold
    <2>3. CASE Target(k) # {}
      <3>1. PICK t \in Request : k \in DOMAIN appinfo /\ appinfo[k].sid = t
        BY <2>3, TargetFact
      <3>2. queue' = Append(Tail(queue), [name |-> "fail_exec_app", sid |-> t, cookie |-> k])
        BY <1>3, <2>3, <3>1 DEF sig_CHLD
      <3>3. "fail_exec_app" \in Posted
        BY DEF Posted
      <3> HIDE DEF k
      <3> QED
        BY <1>1, <1>2, <2>1, <3>1, <3>2, <3>3, TailQuiet, PostTold
    <2> QED
      BY <2>2, <2>3
  <1>4. CASE shutdown_server
    BY <1>1, <1>4, TailQuiet, QuietTold DEF shutdown_server
  <1>5. CASE e.sid # Master /\ Deliver(e)
    <2>1. CASE Discard
      BY <1>1, <2>1, TailQuiet, QuietTold DEF Discard
    <2>2. CASE shutdown_client(e.sid)
      BY <1>1, <2>2, TailQuiet, QuietTold DEF shutdown_client
    <2>3. CASE Answer(e)
      BY <2>3, AnswerTold
    <2> QED
      BY <1>1, <1>5, <2>1, <2>2, <2>3
         DEF Deliver, Answer, Posted, on_done_exec_app, on_fail_exec_app
  <1> QED
    BY <1>3, <1>4, <1>5 DEF Dispatch

LEMMA ToldStep ==
  ASSUME ToldInv, [Next]_vars
  PROVE  ToldInv'
  <1>1. Types' /\ Types /\ Told
    BY TypesStep DEF ToldInv
  <1>2. OwnCookie(queue) /\ ExitLast(queue)
    BY <1>1 DEF Told
  <1>3. ASSUME UNCHANGED vars PROVE Told'
    BY <1>1, <1>2, <1>3, QuietTold DEF vars, appVars
  <1>4. ASSUME NEW r \in Request, Connect(r) \/ Disconnect(r) \/ Send(r) \/ Establish(r)
        PROVE  Told'
    BY <1>1, <1>2, <1>4, QuietTold DEF Connect, Disconnect, Send, Establish, appVars
  <1>5. ASSUME NEW r \in Request, Exit(r) PROVE Told'
    <2>1. \A s \in Request : app'[s] = "none" <=> app[s] = "none"
      BY <1>1, <1>5 DEF Exit, Types
    <2> QED
      BY <1>1, <1>2, <1>5, <2>1, QuietTold DEF Exit
  <1>6. ASSUME NEW r \in Request, Reap(r) PROVE Told'
    <2>1. \A s \in Request : app'[s] = "none" <=> app[s] = "none"
      BY <1>1, <1>6 DEF Reap, Types
    <2>2. PICK e \in Event : e.name = "sig_CHLD" /\ queue' = Append(queue, e)
      <3>1. cookie[r] \in Cookie
        BY <1>1, <1>6 DEF Reap, Types
      <3> QED
        BY <1>6, <3>1, EventFact DEF Reap
    <2>3. \A name \in Posted : \A s \in Request : Has(queue', name, s) => Has(queue, name, s)
      BY <1>1, <2>2, HasAppend DEF Types, Posted
    <2>4. OwnCookie(queue') /\ ExitLast(queue')
      BY <1>1, <1>2, <2>2, OwnCookieAppend, ExitLastAppend DEF Types, Posted
    <2> QED
      BY <1>1, <1>6, <2>1, <2>3, <2>4, QuietTold DEF Reap
  <1>7. ASSUME NEW r \in Request, Establish2(r) PROVE Told'
    <2>1. call[r] = "establish2" /\ app[r] # "none"
          /\ UNCHANGED <<session, states, replies, app, watched, cookie, calls, appinfo, listening>>
      BY <1>1, <1>7 DEF Establish2, Types, NoCall
    <2>2. CASE Target(cookie[r]) = {}
      BY <1>1, <1>2, <1>7, <2>1, <2>2, QuietTold DEF Establish2
    <2>3. CASE Target(cookie[r]) # {}
      <3>1. PICK t \in Target(cookie[r]) :
               queue' = Append(queue, [name |-> "done_exec_app", sid |-> t, cookie |-> cookie[r]])
        BY <1>7, <2>3 DEF Establish2
      <3>2. t \in Request /\ cookie[r] \in DOMAIN appinfo /\ appinfo[cookie[r]].sid = t
        BY <1>1, TargetFact
      <3>3. \A s \in Request : app[s] = "none" => acked'[s] = acked[s]
        BY <1>1, <1>7, <2>1, <2>3 DEF Establish2, Types
      <3>4. queue \in Seq(Event) /\ "done_exec_app" \in Posted
        BY <1>1 DEF Types, Posted
      <3> QED
        BY <1>1, <1>2, <2>1, <3>1, <3>2, <3>3, <3>4, PostTold
    <2> QED
      BY <2>2, <2>3
  <1>8. ASSUME NEW r \in Request, ExecRefused(r) \/ Exec(r) PROVE Told'
    BY <1>1, <1>8, ExecTold
  <1>9. ASSUME Dispatch PROVE Told'
    BY <1>1, <1>9, DispatchTold
  <1>10. ASSUME Terminate PROVE Told'
    <2>1. PICK t \in Seq(Event) : /\ queue' = queue \o t
                                  /\ \A i \in DOMAIN t : t[i].name = "shutdown"
      BY <1>1, <1>10, TerminateFact
    <2>2. /\ \A name \in Posted : \A s \in Request : Has(queue', name, s) => Has(queue, name, s)
          /\ OwnCookie(queue') /\ ExitLast(queue')
      BY <1>1, <1>2, <2>1, ConcatShutdowns DEF Types
    <2> QED
      BY <1>1, <1>10, <2>2, QuietTold DEF Terminate, appVars
  <1> QED
    BY <1>1, <1>3, <1>4, <1>5, <1>6, <1>7, <1>8, <1>9, <1>10 DEF Next, ToldInv

LEMMA ToldInvariant == Spec => []ToldInv
  <1>1. Init => ToldInv
    BY InitTypes, InitTold DEF ToldInv
  <1>2. ToldInv /\ [Next]_vars => ToldInv'
    BY ToldStep
  <1> QED
    BY <1>1, <1>2, PTL DEF Spec

\* A requester is told at most that its app has started and then that it has exited,
\* cookies drawn twice included.
THEOREM NothingRepeatedAlways == Spec => []NothingRepeated
  <1>1. ToldInv => NothingRepeated
    <2> SUFFICES ASSUME ToldInv, NEW r \in Request
                 PROVE  Len(replies[r]) <= 2 /\ (Len(replies[r]) = 2 => replies[r] = <<"ok", "bad">>)
      BY DEF NothingRepeated
    <2>1. replies[r] \in {<<>>, <<"ok">>, <<"bad">>, <<"ok", "bad">>}
      BY DEF ToldInv, Told, Unborn, Shape
    <2>2. CASE replies[r] = <<"ok", "bad">>
      BY <2>2
    <2>3. CASE replies[r] # <<"ok", "bad">>
      <3>1. Len(<<>>) # 2 /\ Len(<<"ok">>) # 2 /\ Len(<<"bad">>) # 2
            /\ Len(<<>>) <= 2 /\ Len(<<"ok">>) <= 2 /\ Len(<<"bad">>) <= 2
        OBVIOUS
      <3> QED
        BY <2>1, <2>3, <3>1
    <2> QED
      BY <2>2, <2>3
  <1> QED
    BY <1>1, ToldInvariant, PTL
-----------------------------------------------------------------------------
(* Cookies that are never drawn twice *)

Fresh ==
    /\ \A r, s \in Request : app[r] # "none" /\ app[s] # "none" /\ cookie[r] = cookie[s] => r = s
    /\ \A r \in Request : app[r] # "none" => session[r] # "absent"
    /\ Signals(queue)
    /\ Accounted

LEMMA InitFresh == Init => Fresh
  <1> SUFFICES ASSUME Init PROVE Fresh
    OBVIOUS
  <1>1. Signals(queue) /\ \A r : ~HasSignal(queue, r)
    BY DEF Init, Signals, HasSignal
  <1> QED
    BY <1>1 DEF Init, Fresh, Accounted, Unhandled

\* A step that starts no app and neither handles nor forgets the exit of one.
LEMMA QuietFresh ==
  ASSUME Fresh, Types, Types', UNCHANGED cookie,
         \A r \in Request : app'[r] = "none" <=> app[r] = "none",
         \A r \in Request : session'[r] = "absent" => session[r] = "absent",
         DOMAIN appinfo' = DOMAIN appinfo,
         \A k \in DOMAIN appinfo : appinfo'[k].pid = appinfo[k].pid,
         \A r \in Request : Unhandled(r)' <=> Unhandled(r),
         Signals(queue)'
  PROVE  Fresh'
  <1>1. \A k \in DOMAIN appinfo : appinfo[k].pid \in Request
    BY DEF Types, Info
  <1>2. Accounted'
    BY <1>1 DEF Fresh, Accounted
  <1> QED
    BY <1>2 DEF Fresh

LEMMA SignalsPrime ==
  ASSUME NEW q, Signals(q), queue' = q, UNCHANGED <<app, cookie>>
  PROVE  /\ Signals(queue)'
         /\ \A r \in Request : HasSignal(q, r) <=> HasSignal(queue, r)'
         /\ (\A r \in Request : HasSignal(q, r) <=> HasSignal(queue, r))
               => \A r \in Request : Unhandled(r)' <=> Unhandled(r)
  BY DEF Signals, HasSignal, Unhandled

LEMMA ExecFresh ==
  ASSUME Fresh, Types, Types', FreshCookies, NEW r \in Request, Exec(r)
  PROVE  Fresh'
  <1>1. PICK k \in Cookie :
           /\ Drawn(k)
           /\ cookie' = [cookie EXCEPT ![r] = k]
           /\ appinfo' = [x \in DOMAIN appinfo \cup {k} |->
                             IF x = k THEN [pid |-> r, sid |-> r] ELSE appinfo[x]]
    BY DEF Exec
  <1>2. /\ cookie'[r] = k /\ \A s \in Request \ {r} : cookie'[s] = cookie[s]
        /\ app[r] = "none" /\ app'[r] = "running" /\ \A s \in Request \ {r} : app'[s] = app[s]
        /\ session[r] = "open" /\ UNCHANGED <<session, queue>>
    BY <1>1 DEF Exec, Unasked, Types
  <1>3. \A s \in Request : cookie[s] # k
    BY <1>1 DEF Drawn
  <1>4. /\ DOMAIN appinfo' = DOMAIN appinfo \cup {k} /\ appinfo'[k].pid = r
        /\ \A x \in DOMAIN appinfo \ {k} : appinfo'[x] = appinfo[x]
    BY <1>1
  <1>5. \A x \in DOMAIN appinfo : appinfo[x].pid \in Request \ {r} /\ x # k
    <2>1. ~Unhandled(r)
      BY <1>2, EventFact DEF Unhandled, HasSignal, Fresh, Signals, Types
    <2> QED
      BY <1>2, <1>3, <2>1 DEF Types, Info, Fresh, Accounted
  <1>6. Accounted'
    <2>1. /\ Unhandled(r)'
          /\ \A s \in Request \ {r} : Unhandled(s)' <=> Unhandled(s)
      BY <1>2 DEF Unhandled, HasSignal
    <2> QED
      BY <1>2, <1>3, <1>4, <1>5, <2>1 DEF Fresh, Accounted
  <1>7. Signals(queue)'
    <2> SUFFICES ASSUME NEW i \in DOMAIN queue, queue[i].name = "sig_CHLD"
                 PROVE  app'[queue[i].pid] = "signalled" /\ cookie'[queue[i].pid] = queue[i].cookie
      BY <1>2 DEF Fresh, Signals
    <2>1. queue[i].pid \in Request
      BY EventFact DEF Types
    <2> QED
      BY <1>2, <2>1 DEF Fresh, Signals
  <1> QED
    BY <1>2, <1>3, <1>6, <1>7 DEF Fresh

LEMMA DispatchFresh ==
  ASSUME Fresh, Types, Types', Dispatch
  PROVE  Fresh'
  <1> PICK e : e = Head(queue)
    OBVIOUS
  <1>1. /\ queue # <<>> /\ UNCHANGED <<app, cookie>>
        /\ queue \in Seq(Event) /\ e \in Event /\ Tail(queue) \in Seq(Event)
    BY TailFact DEF Dispatch, appVars, Types
  <1>2. /\ Signals(Tail(queue))
        /\ e.name = "sig_CHLD" => /\ app[e.pid] = "signalled" /\ cookie[e.pid] = e.cookie
                                  /\ ~HasSignal(Tail(queue), e.pid)
        /\ \A r : HasSignal(Tail(queue), r) => HasSignal(queue, r)
        /\ \A r : HasSignal(queue, r) /\ ~(e.name = "sig_CHLD" /\ e.pid = r)
                    => HasSignal(Tail(queue), r)
    BY <1>1, SignalsTail DEF Fresh
  <1>3. CASE e.name = "sig_CHLD" /\ sig_CHLD(e.cookie)
    <2> DEFINE k == e.cookie
    <2>1. UNCHANGED session /\ appinfo' = Without(k)
      BY <1>3 DEF sig_CHLD
    <2>2. /\ Signals(queue)'
          /\ \A r \in Request : HasSignal(queue, r)' <=> HasSignal(Tail(queue), r)
      <3>1. CASE Target(k) = {}
        BY <1>1, <1>2, <1>3, <3>1, SignalsPrime DEF sig_CHLD
      <3>2. CASE Target(k) # {}
        <4>1. PICK f : f = [name |-> "fail_exec_app", sid |-> appinfo[k].sid, cookie |-> k]
          OBVIOUS
        <4>2. f \in Event /\ f.name # "sig_CHLD"
          BY <3>2, <4>1, TargetFact, EventFact DEF Posted
        <4>3. queue' = Append(Tail(queue), f)
          BY <1>3, <3>2, <4>1 DEF sig_CHLD
        <4> QED
          BY <1>1, <1>2, <4>2, <4>3, SignalsAppend, SignalsPrime
      <3> QED
        BY <3>1, <3>2
    <2>3. e.pid \in Request /\ app[e.pid] = "signalled" /\ cookie[e.pid] = k
      BY <1>1, <1>2, <1>3, EventFact
    <2>4. /\ ~Unhandled(e.pid)'
          /\ \A r \in Request \ {e.pid} : Unhandled(r)' <=> Unhandled(r)
          /\ Unhandled(e.pid)
      <3>1. HasSignal(queue, e.pid)
        BY <1>1, <1>3, TailFact DEF HasSignal
      <3> QED
        BY <1>1, <1>2, <1>3, <2>2, <2>3, <3>1 DEF Unhandled
    <2>5. Accounted'
      <3>1. /\ DOMAIN appinfo' = DOMAIN appinfo \ {k}
            /\ \A x \in DOMAIN appinfo \ {k} : appinfo'[x] = appinfo[x]
        BY <2>1, WithoutType
      <3>2. \A r \in Request \ {e.pid} : app[r] # "none" => cookie[r] # k
        BY <2>3 DEF Fresh
      <3>3. \A r \in Request : Unhandled(r) => app[r] # "none"
        BY EventFact DEF Unhandled, HasSignal, Fresh, Signals, Types
      <3>4. \A r \in Request : Unhandled(r)' =>
               cookie[r] \in DOMAIN appinfo' /\ appinfo'[cookie[r]].pid = r
        BY <2>4, <3>1, <3>2, <3>3 DEF Fresh, Accounted
      <3>5. \A x \in DOMAIN appinfo' : \A q \in Request :
               q = appinfo'[x].pid => cookie[q] = x /\ Unhandled(q)'
        <4> SUFFICES ASSUME NEW x \in DOMAIN appinfo \ {k}, NEW q \in Request, q = appinfo[x].pid
                     PROVE  cookie[q] = x /\ Unhandled(q)'
          BY <3>1
        <4>1. cookie[q] = x /\ Unhandled(q)
          BY DEF Fresh, Accounted
        <4> QED
          BY <2>3, <2>4, <4>1
      <3>6. \A x \in DOMAIN appinfo' : appinfo'[x].pid \in Request
        BY DEF Types, Info
      <3> QED
        BY <1>1, <3>4, <3>5, <3>6 DEF Accounted, Unhandled, HasSignal
    <2> QED
      BY <1>1, <2>1, <2>2, <2>5 DEF Fresh
  <1>4. CASE e = Shutdown(Master) /\ shutdown_server
    <2>1. e.name # "sig_CHLD"
      BY <1>4 DEF Shutdown
    <2>2. /\ Signals(queue)' /\ \A r \in Request : Unhandled(r)' <=> Unhandled(r)
          /\ UNCHANGED <<session, appinfo>>
      BY <1>1, <1>2, <1>4, <2>1, SignalsPrime DEF shutdown_server
    <2> QED
      BY <1>1, <2>2, QuietFresh
  <1>5. CASE e.sid # Master /\ Deliver(e)
    <2>1. queue' = Tail(queue)
      BY <1>5 DEF Deliver, Discard, shutdown_client, on_done_exec_app, on_fail_exec_app
    <2>2. Signals(queue)' /\ \A r \in Request : Unhandled(r)' <=> Unhandled(r)
      <3>1. e.name # "sig_CHLD"
        BY <1>1, <1>5, EventFact
      <3> QED
        BY <1>1, <1>2, <2>1, <3>1, SignalsPrime
    <2>3. \A r \in Request : session'[r] = "absent" => session[r] = "absent"
      BY <1>5 DEF Deliver, Discard, shutdown_client, Stop, on_done_exec_app, on_fail_exec_app, Types
    <2>4. /\ DOMAIN appinfo' = DOMAIN appinfo
          /\ \A x \in DOMAIN appinfo' : appinfo'[x].pid = appinfo[x].pid
      BY <1>5, DropSidType
         DEF Deliver, Discard, shutdown_client, on_done_exec_app, on_fail_exec_app
    <2> QED
      BY <1>1, <2>2, <2>3, <2>4, QuietFresh
  <1> QED
    BY <1>3, <1>4, <1>5 DEF Dispatch

LEMMA FreshStep ==
  ASSUME Fresh, Types, FreshCookies, [Next]_vars
  PROVE  Fresh'
  <1>1. Types' /\ queue \in Seq(Event) /\ Signals(queue)
    BY TypesStep DEF Types, Fresh
  <1>2. ASSUME UNCHANGED <<app, queue, cookie>>
        PROVE  Signals(queue)' /\ \A r \in Request : Unhandled(r)' <=> Unhandled(r)
    BY <1>1, <1>2, SignalsPrime
  <1>3. ASSUME UNCHANGED vars PROVE Fresh'
    BY <1>1, <1>2, <1>3, SignalsPrime, QuietFresh DEF vars, appVars
  <1>4. ASSUME NEW r \in Request,
               Connect(r) \/ Disconnect(r) \/ ExecRefused(r) \/ Send(r) \/ Establish(r)
        PROVE  Fresh'
    <2>1. UNCHANGED <<app, cookie, appinfo, queue>>
      BY <1>4 DEF Connect, Disconnect, ExecRefused, Send, Establish, appVars
    <2>2. \A s \in Request : session'[s] = "absent" => session[s] = "absent"
      BY <1>4 DEF Connect, Disconnect, Stop, ExecRefused, Send, Establish, Types
    <2> QED
      BY <1>1, <1>2, <2>1, <2>2, SignalsPrime, QuietFresh
  <1>5. ASSUME NEW r \in Request, Exit(r) PROVE Fresh'
    <2>1. UNCHANGED <<session, cookie, appinfo, queue>>
      BY <1>5 DEF Exit
    <2>2. /\ \A s \in Request : app'[s] = "none" <=> app[s] = "none"
          /\ \A s \in Request : app'[s] = "running" => app[s] = "running"
          /\ \A s \in Request : app[s] = "signalled" => app'[s] = "signalled"
      BY <1>5 DEF Exit, Types
    <2>3. Signals(queue)'
      BY <1>1, <2>1, <2>2, EventFact DEF Signals
    <2>4. \A s \in Request : Unhandled(s)' <=> Unhandled(s)
      BY <1>5, <2>1 DEF Exit, Types, Unhandled, HasSignal
    <2> QED
      BY <1>1, <2>1, <2>2, <2>3, <2>4, QuietFresh
  <1>6. ASSUME NEW r \in Request, Reap(r) PROVE Fresh'
    <2>1. UNCHANGED <<session, cookie, appinfo>>
      BY <1>6 DEF Reap
    <2>2. /\ \A s \in Request : app'[s] = "none" <=> app[s] = "none"
          /\ \A s \in Request : app'[s] = "running" => app[s] = "running"
          /\ \A s \in Request : app[s] = "signalled" => app'[s] = "signalled"
          /\ app'[r] = "signalled"
      BY <1>6 DEF Reap, Types
    <2>3. Signals(queue)'
      <3>1. PICK e : e = [name |-> "sig_CHLD", sid |-> Master, pid |-> r, cookie |-> cookie[r]]
        OBVIOUS
      <3>2. queue' = Append(queue, e) /\ e.pid = r /\ e.cookie = cookie[r]
        BY <1>6, <3>1 DEF Reap
      <3>3. \A i \in DOMAIN queue' : \/ queue'[i] = e
                                     \/ i \in DOMAIN queue /\ queue'[i] = queue[i]
        BY <1>1, <3>2
      <3>4. \A i \in DOMAIN queue : queue[i].name = "sig_CHLD" =>
               queue[i].pid \in Request /\ queue[i].pid # r
        BY <1>1, <1>6, EventFact DEF Reap, Signals
      <3>5. \A i \in DOMAIN queue' : i \in DOMAIN queue \/ i = Len(queue) + 1
        BY <1>1, <3>2
      <3>6. \A i \in DOMAIN queue : i # Len(queue) + 1 /\ queue'[i] = queue[i]
        BY <1>1, <3>2
      <3>7. \A i, j \in DOMAIN queue' :
               queue'[i].name = "sig_CHLD" /\ queue'[j].name = "sig_CHLD"
               /\ queue'[i].pid = queue'[j].pid => i = j
        <4>1. queue'[Len(queue) + 1] = e
          BY <1>1, <3>2
        <4> QED
          BY <1>1, <3>2, <3>4, <3>5, <3>6, <4>1 DEF Signals
      <3> QED
        BY <1>1, <2>1, <2>2, <3>2, <3>3, <3>4, <3>7 DEF Signals
    <2>4. \A s \in Request : Unhandled(s)' <=> Unhandled(s)
      <3>1. PICK e \in Event : /\ queue' = Append(queue, e)
                               /\ e.name = "sig_CHLD" /\ e.pid = r
        BY <1>6, EventFact DEF Reap, Types
      <3>2. /\ Len(queue) + 1 \in DOMAIN queue' /\ queue'[Len(queue) + 1] = e
            /\ \A i \in DOMAIN queue : i \in DOMAIN queue' /\ queue'[i] = queue[i]
            /\ \A i \in DOMAIN queue' : i \in DOMAIN queue \/ i = Len(queue) + 1
        BY <1>1, <3>1
      <3>3. HasSignal(queue, r)' /\ \A s \in Request \ {r} : HasSignal(queue, s)' <=> HasSignal(queue, s)
        BY <3>1, <3>2 DEF HasSignal
      <3> QED
        BY <1>6, <3>3 DEF Reap, Types, Unhandled
    <2> QED
      BY <1>1, <2>1, <2>2, <2>3, <2>4, QuietFresh
  <1>7. ASSUME NEW r \in Request, Establish2(r) PROVE Fresh'
    <2>1. UNCHANGED <<session, app, cookie, appinfo>>
      BY <1>7 DEF Establish2
    <2>2. Signals(queue)' /\ \A s \in Request : Unhandled(s)' <=> Unhandled(s)
      <3>1. CASE Target(cookie[r]) = {}
        BY <1>1, <1>7, <2>1, <3>1, SignalsPrime DEF Establish2
      <3>2. CASE Target(cookie[r]) # {}
        <4>1. PICK t \in Target(cookie[r]) :
                 queue' = Append(queue, [name |-> "done_exec_app", sid |-> t,
                                         cookie |-> cookie[r]])
          BY <1>7, <3>2 DEF Establish2
        <4>2. PICK f \in Event : queue' = Append(queue, f) /\ f.name # "sig_CHLD"
          BY <4>1, TargetFact, EventFact DEF Posted
        <4> QED
          BY <1>1, <2>1, <4>2, SignalsAppend, SignalsPrime
      <3> QED
        BY <3>1, <3>2
    <2> QED
      BY <1>1, <1>2, <2>1, <2>2, QuietFresh
  <1>8. ASSUME NEW r \in Request, Exec(r) PROVE Fresh'
    BY <1>1, <1>8, ExecFresh
  <1>9. ASSUME Dispatch PROVE Fresh'
    BY <1>1, <1>9, DispatchFresh
  <1>10. ASSUME Terminate PROVE Fresh'
    <2>1. UNCHANGED <<session, app, cookie, appinfo>>
      BY <1>10 DEF Terminate, appVars
    <2>2. Signals(queue)' /\ \A s \in Request : Unhandled(s)' <=> Unhandled(s)
      BY <1>1, <1>10, <2>1, TerminateFact, ConcatShutdowns, SignalsPrime
    <2> QED
      BY <1>1, <1>2, <2>1, <2>2, QuietFresh
  <1> QED
    BY <1>3, <1>4, <1>5, <1>6, <1>7, <1>8, <1>9, <1>10 DEF Next

\* As long as no cookie is drawn twice, an app is recorded under its own cookie from its
\* start until its exit is handled (plumber:138-166, 366-371), and no other record is kept.
THEOREM AccountedAlways == ASSUME FreshCookies PROVE Spec => []Accounted
  <1>1. Init => Types /\ Fresh
    BY InitTypes, InitFresh
  <1>2. Types /\ Fresh /\ [Next]_vars => Types' /\ Fresh'
    BY TypesStep, FreshStep
  <1>3. Fresh => Accounted
    BY DEF Fresh
  <1> QED
    BY <1>1, <1>2, <1>3, PTL DEF Spec
-----------------------------------------------------------------------------
(* What an app was told *)

AnsweredOk(r) == replies[r] # <<>> /\ Head(replies[r]) = "ok"

Acknowledged ==
    \A r \in Request : acked[r] /\ session[r] = "open" =>
        AnsweredOk(r) \/ (replies[r] = <<>> /\ DoneFirst(queue, r))

AckInv == ToldInv /\ Fresh /\ Acknowledged

LEMMA OkHead ==
  ASSUME NEW r, replies[r] \in {<<"ok">>, <<"ok", "bad">>}
  PROVE  AnsweredOk(r)
  <1>1. <<"ok">> # <<>> /\ Head(<<"ok">>) = "ok" /\ <<"ok", "bad">> # <<>>
        /\ Head(<<"ok", "bad">>) = "ok"
    OBVIOUS
  <1> QED
    BY <1>1 DEF AnsweredOk

\* An app that got ["ok", "done"] was started, and its requester has heard nothing, of the
\* report, or of the report and the exit.
LEMMA AckedShape ==
  ASSUME AckInv, NEW r \in Request, acked[r], session[r] = "open"
  PROVE  /\ app[r] # "none"
         /\ \/ states[r] = Posted /\ replies[r] = <<>> /\ DoneFirst(queue, r)
            \/ replies[r] # <<>> /\ AnsweredOk(r)
  <1>1. app[r] # "none" /\ Shape(r)
    BY DEF AckInv, ToldInv, Told, Unborn
  <1>2. <<"ok">> # <<>> /\ <<"bad">> # <<>> /\ <<"ok", "bad">> # <<>>
    OBVIOUS
  <1> QED
    BY <1>1, <1>2 DEF AckInv, Acknowledged, Shape, AnsweredOk

\* A step that answers nobody and takes no report off the queue.
LEMMA QuietAcked ==
  ASSUME Acknowledged, UNCHANGED <<replies, acked>>,
         \A r \in Request : session'[r] = "open" /\ acked[r] => session[r] = "open",
         \A r \in Request : session'[r] = "open" /\ acked[r] /\ DoneFirst(queue, r)
                               => DoneFirst(queue', r)
  PROVE  Acknowledged'
  <1>1. \A r \in Request : DoneFirst(queue', r) => DoneFirst(queue, r)'
    BY DEF DoneFirst
  <1> QED
    BY <1>1 DEF Acknowledged, AnsweredOk

LEMMA DispatchAcked ==
  ASSUME AckInv, Dispatch
  PROVE  Acknowledged'
  <1> PICK e : e = Head(queue)
    OBVIOUS
  <1>1. /\ Types /\ Told /\ Acknowledged
        /\ queue # <<>> /\ UNCHANGED <<app, cookie, acked>>
        /\ queue \in Seq(Event) /\ e \in Event /\ Tail(queue) \in Seq(Event)
    BY TailFact DEF Dispatch, appVars, Types, AckInv, ToldInv
  <1>2. \A r \in Request : DoneFirst(queue, r) /\ ~(e.name = "done_exec_app" /\ e.sid = r)
           => DoneFirst(Tail(queue), r) /\ ~(e.name = "fail_exec_app" /\ e.sid = r)
    BY <1>1, DoneFirstTail
  <1>3. CASE e.name = "sig_CHLD" /\ sig_CHLD(e.cookie)
    <2> DEFINE k == e.cookie
    <2>1. UNCHANGED <<session, replies>>
      BY <1>3 DEF sig_CHLD
    <2>2. \A r \in Request : DoneFirst(queue, r) => DoneFirst(queue', r)
      <3>1. CASE Target(k) = {}
        BY <1>2, <1>3, <3>1 DEF sig_CHLD
      <3>2. CASE Target(k) # {}
        <4>1. PICK f : f = [name |-> "fail_exec_app", sid |-> appinfo[k].sid, cookie |-> k]
          OBVIOUS
        <4>2. f \in Event /\ queue' = Append(Tail(queue), f)
          BY <1>1, <1>3, <3>2, <4>1, TargetFact, EventFact DEF sig_CHLD, Posted
        <4> QED
          BY <1>1, <1>2, <1>3, <4>2, DoneFirstAppend
      <3> QED
        BY <3>1, <3>2
    <2> QED
      BY <1>1, <2>1, <2>2, QuietAcked
  <1>4. CASE e = Shutdown(Master) /\ shutdown_server
    <2>1. e.name = "shutdown"
      BY <1>4 DEF Shutdown
    <2> QED
      BY <1>1, <1>2, <1>4, <2>1, QuietAcked DEF shutdown_server
  <1>5. CASE e.sid # Master /\ Deliver(e)
    <2>1. CASE /\ Discard
               /\ session[e.sid] # "open" \/ e.name \notin states[e.sid] \cup {"shutdown"}
      <3>1. \A r \in Request : session[r] = "open" /\ acked[r] /\ DoneFirst(queue, r)
                                  => DoneFirst(Tail(queue), r) \/ replies[r] # <<>>
        BY <1>2, <2>1, AckedShape DEF Posted
      <3>2. \A r \in Request : DoneFirst(Tail(queue), r) => DoneFirst(queue, r)'
        BY <2>1 DEF Discard, DoneFirst
      <3> QED
        BY <1>1, <2>1, <3>1, <3>2 DEF Discard, Acknowledged, AnsweredOk
    <2>2. CASE e.name = "shutdown" /\ shutdown_client(e.sid)
      BY <1>1, <1>2, <2>2, QuietAcked DEF shutdown_client, Stop, Types
    <2>3. CASE Answer(e)
      <3>1. /\ queue' = Tail(queue) /\ UNCHANGED session /\ e.sid \in Request
            /\ \A s \in Request \ {e.sid} : replies'[s] = replies[s]
            /\ e.name \in Posted
        BY <1>1, <2>3, AnswerReplies DEF Answer
      <3>2. \A r \in Request : DoneFirst(Tail(queue), r) => DoneFirst(queue, r)'
        BY <3>1 DEF DoneFirst
      <3>3. ASSUME NEW r \in Request, acked[r], session[r] = "open"
            PROVE  AnsweredOk(r)' \/ (replies'[r] = <<>> /\ DoneFirst(queue, r)')
        <4>1. CASE r # e.sid
          BY <1>1, <1>2, <3>1, <3>2, <3>3, <4>1 DEF Acknowledged, AnsweredOk
        <4>2. CASE r = e.sid
          <5>1. e.name = "fail_exec_app" => replies[r] # <<>>
            BY <1>1, <1>2, <3>3, <4>2, AckedShape
          <5>2. replies'[r] \in {<<"ok">>, <<"ok", "bad">>}
            BY <1>1, <2>3, <3>1, <4>2, <5>1, AnswerReplies DEF Posted
          <5>3. AnsweredOk(r)'
            BY <5>2, OkHead DEF AnsweredOk
          <5> QED
            BY <5>3
        <4> QED
          BY <4>1, <4>2
      <3> QED
        BY <1>1, <3>1, <3>3 DEF Acknowledged
    <2> QED
      BY <1>1, <1>5, <2>1, <2>2, <2>3
         DEF Deliver, Answer, Posted, on_done_exec_app, on_fail_exec_app
  <1> QED
    BY <1>1, <1>3, <1>4, <1>5 DEF Dispatch

LEMMA AckedStep ==
  ASSUME AckInv, [Next]_vars
  PROVE  Acknowledged'
  <1>1. Types /\ Told /\ Fresh /\ Acknowledged /\ queue \in Seq(Event)
    BY DEF AckInv, ToldInv, Types
  <1>2. \A r \in Request : acked[r] => app[r] # "none" /\ session[r] # "absent"
    BY <1>1 DEF Told, Unborn, Fresh
  <1>3. ASSUME UNCHANGED vars PROVE Acknowledged'
    BY <1>1, <1>3, QuietAcked DEF vars, appVars
  <1>4. ASSUME NEW r \in Request, \/ Connect(r) \/ Disconnect(r) \/ Exec(r) \/ Send(r)
                                  \/ Exit(r) \/ Establish(r)
        PROVE  Acknowledged'
    <2>1. UNCHANGED <<replies, acked, queue>>
      BY <1>4 DEF Connect, Disconnect, Exec, Send, Exit, Establish, appVars
    <2>2. \A s \in Request : session'[s] = "open" /\ acked[s] => session[s] = "open"
      BY <1>1, <1>2, <1>4 DEF Connect, Disconnect, Stop, Exec, Send, Exit, Establish, appVars, Types
    <2> QED
      BY <1>1, <2>1, <2>2, QuietAcked
  <1>5. ASSUME NEW r \in Request, ExecRefused(r) PROVE Acknowledged'
    <2>1. ~acked[r] /\ UNCHANGED <<session, acked, queue>>
          /\ \A s \in Request \ {r} : replies'[s] = replies[s]
      BY <1>1, <1>2, <1>5 DEF ExecRefused, Unasked, put, Types
    <2> QED
      BY <1>1, <2>1 DEF Acknowledged, AnsweredOk, DoneFirst
  <1>6. ASSUME NEW r \in Request, Reap(r) PROVE Acknowledged'
    <2>1. UNCHANGED <<session, replies, acked>>
      BY <1>6 DEF Reap
    <2>2. PICK e \in Event : queue' = Append(queue, e)
      <3>1. cookie[r] \in Cookie
        BY <1>1, <1>6 DEF Reap, Types
      <3> QED
        BY <1>6, <3>1, EventFact DEF Reap
    <2> QED
      BY <1>1, <2>1, <2>2, DoneFirstAppend, QuietAcked
  <1>7. ASSUME NEW r \in Request, Establish2(r) PROVE Acknowledged'
    <2>1. /\ UNCHANGED <<session, states, replies, app, watched, cookie, calls, appinfo, listening>>
          /\ app[r] # "none"
      BY <1>1, <1>7 DEF Establish2, Types, NoCall
    <2>2. CASE Target(cookie[r]) = {}
      BY <1>1, <1>7, <2>1, <2>2, QuietAcked DEF Establish2
    <2>3. CASE Target(cookie[r]) # {}
      <3>1. PICK t \in Target(cookie[r]) :
               queue' = Append(queue, [name |-> "done_exec_app", sid |-> t, cookie |-> cookie[r]])
        BY <1>7, <2>3 DEF Establish2
      <3>2. t \in Request /\ cookie[r] \in DOMAIN appinfo /\ appinfo[cookie[r]].sid = t
            /\ cookie[r] \in Cookie
        BY <1>1, TargetFact
      <3>3. Recorded(t) /\ cookie[t] = cookie[r] /\ app[t] # "none"
        BY <1>1, <3>2, NamesAssumption DEF Told, Recorded, Unborn
      <3>4. t = r /\ replies[r] = <<>> /\ ~Has(queue, "fail_exec_app", r)
        BY <1>1, <2>1, <3>2, <3>3 DEF Told, Fresh
      <3>5. PICK f \in Event : f.name = "done_exec_app" /\ f.sid = t /\ queue' = Append(queue, f)
        BY <3>1, <3>2, EventFact DEF Posted
      <3>6. DoneFirst(queue', r)
        BY <1>1, <3>4, <3>5, DoneFirstAppend
      <3>7. \A s \in Request : DoneFirst(queue, s) => DoneFirst(queue', s)
        BY <1>1, <3>5, DoneFirstAppend
      <3>8. \A s \in Request \ {r} : acked'[s] = acked[s]
        BY <1>1, <1>7, <2>3 DEF Establish2, Types
      <3>9. \A s \in Request : DoneFirst(queue', s) => DoneFirst(queue, s)'
        BY DEF DoneFirst
      <3> QED
        BY <1>1, <2>1, <3>4, <3>6, <3>7, <3>8, <3>9 DEF Acknowledged, AnsweredOk
    <2> QED
      BY <2>2, <2>3
  <1>8. ASSUME Dispatch PROVE Acknowledged'
    BY <1>8, DispatchAcked
  <1>9. ASSUME Terminate PROVE Acknowledged'
    <2>1. UNCHANGED <<session, replies, acked>>
      BY <1>9 DEF Terminate
    <2> QED
      BY <1>1, <1>9, <2>1, TerminateFact, ConcatShutdowns, QuietAcked
  <1> QED
    BY <1>3, <1>4, <1>5, <1>6, <1>7, <1>8, <1>9 DEF Next

\* As long as no cookie is drawn twice, an app that got ["ok", "done"] can rely on it: "ok" is
\* the first thing its requester hears, its exit and a signal to plumber notwithstanding.
THEOREM AcknowledgedFirstAlways == ASSUME FreshCookies PROVE Spec => []AcknowledgedFirst
  <1>1. Init => AckInv
    BY InitTypes, InitTold, InitFresh DEF AckInv, ToldInv, Init, Acknowledged
  <1>2. AckInv /\ [Next]_vars => AckInv'
    BY ToldStep, FreshStep, AckedStep DEF AckInv, ToldInv
  <1>3. AckInv => AcknowledgedFirst
    BY DEF AckInv, Acknowledged, AcknowledgedFirst, AnsweredOk, DoneFirst
  <1> QED
    BY <1>1, <1>2, <1>3, PTL DEF Spec

-----------------------------------------------------------------------------
(* What a requester hears of the exit *)

Unanswered(r) == session[r] = "open" /\ replies[r] = <<>>

\* The exit of the app is queued for Master, or "fail_exec_app" for its requester.
ExitQueued(r) == HasSignal(queue, r) \/ Has(queue, "fail_exec_app", r)

(* Once the exit of an app is signalled, it is on its way to the requester that waits:
   in a signal that Master has yet to handle, or in the event it has posted. *)
ExitOnItsWay == \A r \in Request : app[r] = "signalled" /\ Unanswered(r) => ExitQueued(r)

\* The app's entry names its requester, and if it has exited the signal is to come.
Known(r) ==
    /\ cookie[r] \in DOMAIN appinfo /\ appinfo[cookie[r]].sid = r
    /\ app[r] = "signalled" => HasSignal(queue, r)

Expected == \A r \in Request : app[r] # "none" /\ Unanswered(r) =>
                Known(r) \/ (app[r] = "signalled" /\ Has(queue, "fail_exec_app", r))

ExpectedInv == ToldInv /\ Fresh /\ Expected

LEMMA HasSignalAppend ==
  ASSUME NEW q \in Seq(Event), NEW e \in Event
  PROVE  /\ \A r : HasSignal(q, r) => HasSignal(Append(q, e), r)
         /\ \A r, name : Has(q, name, r) => Has(Append(q, e), name, r)
         /\ e.name = "sig_CHLD" => HasSignal(Append(q, e), e.pid)
         /\ \A name : e.name = name => Has(Append(q, e), name, e.sid)
  <1>1. /\ Len(q) + 1 \in DOMAIN Append(q, e) /\ Append(q, e)[Len(q) + 1] = e
        /\ \A i \in DOMAIN q : i \in DOMAIN Append(q, e) /\ Append(q, e)[i] = q[i]
    OBVIOUS
  <1> QED
    BY <1>1 DEF HasSignal, Has

LEMMA StillQueued ==
  ASSUME NEW q \in Seq(Event), q # <<>>
  PROVE  /\ \A r : HasSignal(q, r) /\ ~(Head(q).name = "sig_CHLD" /\ Head(q).pid = r)
                      => HasSignal(Tail(q), r)
         /\ \A r, name : Has(q, name, r) /\ ~(Head(q).name = name /\ Head(q).sid = r)
                            => Has(Tail(q), name, r)
  <1>1. /\ Head(q) = q[1]
        /\ \A i \in DOMAIN q : i # 1 => i - 1 \in DOMAIN Tail(q) /\ q[i] = Tail(q)[i - 1]
    BY TailFact
  <1>2. ASSUME NEW r, HasSignal(q, r), ~(Head(q).name = "sig_CHLD" /\ Head(q).pid = r)
        PROVE  HasSignal(Tail(q), r)
    BY <1>1, <1>2 DEF HasSignal
  <1>3. ASSUME NEW r, NEW name, Has(q, name, r), ~(Head(q).name = name /\ Head(q).sid = r)
        PROVE  Has(Tail(q), name, r)
    BY <1>1, <1>3 DEF Has
  <1> QED
    BY <1>2, <1>3

LEMMA ConcatQueued ==
  ASSUME NEW q \in Seq(Event), NEW t \in Seq(Event)
  PROVE  /\ \A r : HasSignal(q, r) => HasSignal(q \o t, r)
         /\ \A r, name : Has(q, name, r) => Has(q \o t, name, r)
  <1>1. \A i \in DOMAIN q : i \in DOMAIN (q \o t) /\ (q \o t)[i] = q[i]
    OBVIOUS
  <1> QED
    BY <1>1 DEF HasSignal, Has

\* A step that makes nobody wait and takes nothing that is waited for.
LEMMA QuietExpected ==
  ASSUME Expected, Types, UNCHANGED cookie,
         \A r \in Request : app'[r] # "none" /\ Unanswered(r)' => app[r] # "none" /\ Unanswered(r),
         \A r \in Request : app'[r] = "signalled" => app[r] = "signalled",
         \A r \in Request : app[r] = "signalled" => app'[r] = "signalled",
         \A r \in Request : Unanswered(r)' /\ cookie[r] \in DOMAIN appinfo
                               /\ appinfo[cookie[r]].sid = r =>
            cookie[r] \in DOMAIN appinfo' /\ appinfo'[cookie[r]].sid = r,
         \A r \in Request : Unanswered(r)' /\ HasSignal(queue, r) => HasSignal(queue', r),
         \A r \in Request : Unanswered(r)' /\ Has(queue, "fail_exec_app", r)
                               => Has(queue', "fail_exec_app", r)
  PROVE  Expected'
  <1>1. \A r : (HasSignal(queue', r) => HasSignal(queue, r)')
               /\ (Has(queue', "fail_exec_app", r) => Has(queue, "fail_exec_app", r)')
    BY DEF HasSignal, Has
  <1>2. ASSUME NEW r \in Request, app'[r] # "none", Unanswered(r)'
        PROVE  Known(r)' \/ (app'[r] = "signalled" /\ Has(queue, "fail_exec_app", r)')
    <2>1. Known(r) \/ (app[r] = "signalled" /\ Has(queue, "fail_exec_app", r))
      BY <1>2 DEF Expected
    <2> QED
      BY <1>1, <1>2, <2>1 DEF Known
  <1> QED
    BY <1>2 DEF Expected

\* A new entry is under a cookie of its own.
LEMMA ExecExpected ==
  ASSUME ExpectedInv, Types', FreshCookies, NEW r \in Request, Exec(r)
  PROVE  Expected'
  <1>1. PICK k \in Cookie :
           /\ Drawn(k)
           /\ cookie' = [cookie EXCEPT ![r] = k]
           /\ appinfo' = [x \in DOMAIN appinfo \cup {k} |->
                             IF x = k THEN [pid |-> r, sid |-> r] ELSE appinfo[x]]
    BY DEF Exec
  <1>2. Types /\ Expected
    BY DEF ExpectedInv, ToldInv
  <1>3. /\ cookie'[r] = k /\ \A s \in Request \ {r} : cookie'[s] = cookie[s] /\ cookie[s] # k
        /\ app'[r] = "running" /\ \A s \in Request \ {r} : app'[s] = app[s]
        /\ UNCHANGED <<session, replies, queue>>
    BY <1>1, <1>2 DEF Exec, Drawn, Types
  <1>4. /\ DOMAIN appinfo' = DOMAIN appinfo \cup {k} /\ appinfo'[k].sid = r
        /\ \A x \in DOMAIN appinfo \ {k} : appinfo'[x] = appinfo[x]
    BY <1>1
  <1>5. Known(r)'
    BY <1>3, <1>4 DEF Known
  <1>6. ASSUME NEW s \in Request \ {r}, app'[s] # "none", Unanswered(s)'
        PROVE  Known(s)' \/ (app'[s] = "signalled" /\ Has(queue, "fail_exec_app", s)')
    <2>1. Known(s) \/ (app[s] = "signalled" /\ Has(queue, "fail_exec_app", s))
      BY <1>2, <1>3, <1>6 DEF Expected, Unanswered
    <2>2. Known(s) => Known(s)'
      BY <1>3, <1>4 DEF Known, HasSignal
    <2> QED
      BY <1>3, <2>1, <2>2 DEF Has
  <1> QED
    BY <1>5, <1>6 DEF Expected

\* Master hears of an exit: the entry goes, and its requester is posted the news.
LEMMA SignalExpected ==
  ASSUME ExpectedInv, NEW e, queue # <<>>, e = Head(queue), e.name = "sig_CHLD",
         sig_CHLD(e.cookie), UNCHANGED <<app, cookie>>
  PROVE  Expected'
  <1> DEFINE k == e.cookie
             p == e.pid
  <1>1. /\ Types /\ Fresh /\ Expected /\ queue \in Seq(Event)
        /\ e \in Event /\ Tail(queue) \in Seq(Event) /\ p \in Request
    BY TailFact, EventFact DEF ExpectedInv, ToldInv, Types
  <1>2. app[p] = "signalled" /\ cookie[p] = k
    BY <1>1, SignalsTail DEF Fresh
  <1>3. UNCHANGED <<session, replies>> /\ appinfo' = Without(k)
    BY DEF sig_CHLD
  <1>4. PICK f : f = [name |-> "fail_exec_app", sid |-> appinfo[k].sid, cookie |-> k]
    OBVIOUS
  <1>5. queue' = IF Target(k) = {} THEN Tail(queue) ELSE Append(Tail(queue), f)
    BY <1>4 DEF sig_CHLD
  <1>6. Target(k) # {} => f \in Event
    BY <1>1, <1>4, TargetFact, EventFact DEF Posted
  <1>7. \A s : HasSignal(Tail(queue), s) => HasSignal(queue', s)
    BY <1>1, <1>5, <1>6, HasSignalAppend
  <1>8. \A s : Has(Tail(queue), "fail_exec_app", s) => Has(queue', "fail_exec_app", s)
    BY <1>1, <1>5, <1>6, HasSignalAppend
  <1>9. \A s : Has(queue, "fail_exec_app", s) => Has(queue', "fail_exec_app", s)
    BY <1>1, <1>8, StillQueued
  <1>10. \A s : (HasSignal(queue', s) => HasSignal(queue, s)')
                /\ (Has(queue', "fail_exec_app", s) => Has(queue, "fail_exec_app", s)')
    BY DEF HasSignal, Has
  <1>11. ASSUME NEW s \in Request, app'[s] # "none", Unanswered(s)'
         PROVE  Known(s)' \/ (app'[s] = "signalled" /\ Has(queue, "fail_exec_app", s)')
    <2>1. /\ app[s] # "none" /\ Unanswered(s) /\ session[s] = "open"
          /\ Known(s) \/ (app[s] = "signalled" /\ Has(queue, "fail_exec_app", s))
      BY <1>1, <1>3, <1>11 DEF Expected, Unanswered
    <2>2. CASE app[s] = "signalled" /\ Has(queue, "fail_exec_app", s)
      BY <1>9, <1>10, <2>2
    <2>3. CASE Known(s) /\ s = p
      <3>1. Target(k) # {} /\ appinfo[k].sid = s
        BY <1>2, <2>1, <2>3 DEF Known, Target
      <3>2. f.name = "fail_exec_app" /\ f.sid = s
        BY <1>4, <3>1
      <3>3. Has(queue', "fail_exec_app", s)
        BY <1>1, <1>5, <1>6, <3>1, <3>2, HasSignalAppend
      <3> QED
        BY <1>2, <1>10, <2>3, <3>3
    <2>4. CASE Known(s) /\ s # p
      <3>1. cookie[s] # k
        BY <1>1, <1>2, <2>1, <2>4 DEF Fresh
      <3>2. cookie[s] \in DOMAIN appinfo' /\ appinfo'[cookie[s]] = appinfo[cookie[s]]
        BY <1>1, <1>3, <2>4, <3>1, WithoutType DEF Known
      <3>3. HasSignal(queue, s) => HasSignal(queue, s)'
        BY <1>1, <1>7, <1>10, <2>4, StillQueued
      <3> QED
        BY <2>4, <3>2, <3>3 DEF Known
    <2> QED
      BY <2>1, <2>2, <2>3, <2>4
  <1> QED
    BY <1>11 DEF Expected

LEMMA DispatchExpected ==
  ASSUME ExpectedInv, Dispatch
  PROVE  Expected'
  <1> PICK e : e = Head(queue)
    OBVIOUS
  <1>1. /\ Types /\ Told /\ Fresh /\ Expected
        /\ queue # <<>> /\ UNCHANGED <<app, cookie, acked>>
        /\ queue \in Seq(Event) /\ e \in Event /\ Tail(queue) \in Seq(Event)
    BY TailFact DEF Dispatch, appVars, Types, ExpectedInv, ToldInv
  <1>2. e.name # "sig_CHLD" => \A r : HasSignal(queue, r) => HasSignal(Tail(queue), r)
    BY <1>1, StillQueued
  <1>3. \A r : Has(queue, "fail_exec_app", r) /\ ~(e.name = "fail_exec_app" /\ e.sid = r)
                  => Has(Tail(queue), "fail_exec_app", r)
    BY <1>1, StillQueued
  <1>4. CASE e.name = "sig_CHLD" /\ sig_CHLD(e.cookie)
    BY <1>1, <1>4, SignalExpected
  <1>5. CASE e = Shutdown(Master) /\ shutdown_server
    <2>1. e.name = "shutdown"
      BY <1>5 DEF Shutdown
    <2> QED
      BY <1>1, <1>2, <1>3, <1>5, <2>1, QuietExpected DEF shutdown_server, Unanswered
  <1>6. CASE e.sid # Master /\ Deliver(e)
    <2>1. e.name # "sig_CHLD"
      BY <1>1, <1>6, EventFact
    <2>2. CASE /\ Discard
               /\ session[e.sid] # "open" \/ e.name \notin states[e.sid] \cup {"shutdown"}
      <3>1. ASSUME NEW r \in Request, app[r] # "none", Unanswered(r)
            PROVE  ~(e.name = "fail_exec_app" /\ e.sid = r)
        <4>1. states[r] = Posted
          <5>1. <<"ok">> # <<>> /\ <<"bad">> # <<>> /\ <<"ok", "bad">> # <<>>
            OBVIOUS
          <5> QED
            BY <1>1, <3>1, <5>1 DEF Told, Shape, Unanswered
        <4> QED
          BY <2>2, <3>1, <4>1 DEF Posted, Unanswered
      <3>2. /\ queue' = Tail(queue) /\ UNCHANGED <<session, replies, appinfo>>
        BY <2>2 DEF Discard
      <3>3. \A r \in Request : Unanswered(r)' <=> Unanswered(r)
        BY <3>2 DEF Unanswered
      <3>4. \A r \in Request : Unanswered(r)' /\ Has(queue, "fail_exec_app", r)
                                  => Has(queue', "fail_exec_app", r)
        <4> SUFFICES ASSUME NEW r \in Request, Unanswered(r), Has(queue, "fail_exec_app", r)
                     PROVE  Has(Tail(queue), "fail_exec_app", r)
          BY <3>2, <3>3
        <4>1. app[r] # "none"
          BY <1>1 DEF Told, Unborn, Posted
        <4> QED
          BY <1>3, <3>1, <4>1
      <3> QED
        BY <1>1, <1>2, <2>1, <3>2, <3>3, <3>4, QuietExpected
    <2>3. CASE e.name = "shutdown" /\ shutdown_client(e.sid)
      <3>1. \A r \in Request : Unanswered(r)' => Unanswered(r)
        BY <1>1, <2>3 DEF shutdown_client, Stop, Types, Unanswered
      <3>2. queue' = Tail(queue) /\ UNCHANGED appinfo
        BY <2>3 DEF shutdown_client
      <3> QED
        BY <1>1, <1>2, <1>3, <2>1, <2>3, <3>1, <3>2, QuietExpected
    <2>4. CASE Answer(e)
      <3> DEFINE s == e.sid
      <3>1. /\ s \in Request /\ queue' = Tail(queue) /\ UNCHANGED session
            /\ e.cookie = cookie[s] /\ app[s] # "none" /\ ~Unanswered(s)'
            /\ \A r \in Request \ {s} : replies'[r] = replies[r]
        BY <2>4, <1>1, AnswerReplies DEF Answer, Unanswered
      <3>2. \A r \in Request : Unanswered(r)' => Unanswered(r) /\ r # s
        BY <3>1 DEF Unanswered
      <3>3. DropSid(e.cookie)
        BY <2>4 DEF Answer, on_done_exec_app, on_fail_exec_app
      <3>4. \A r \in Request : Unanswered(r)' /\ app[r] # "none" => cookie[r] # e.cookie
        BY <1>1, <3>1, <3>2 DEF Fresh
      <3>5. \A r \in Request : appinfo[cookie[r]].sid = r /\ cookie[r] \in DOMAIN appinfo
                                  => app[r] # "none"
        BY <1>1 DEF Told, Unborn, Recorded
      <3>6. \A r \in Request : Unanswered(r)' /\ cookie[r] \in DOMAIN appinfo
                                  /\ appinfo[cookie[r]].sid = r =>
               cookie[r] \in DOMAIN appinfo' /\ appinfo'[cookie[r]].sid = r
        BY <1>1, <3>3, <3>4, <3>5, DropSidType
      <3>7. \A r \in Request : Unanswered(r)' => ~(e.name = "fail_exec_app" /\ e.sid = r)
        BY <3>2
      <3> HIDE DEF s
      <3> QED
        BY <1>1, <1>2, <1>3, <2>1, <3>1, <3>2, <3>6, <3>7, QuietExpected
    <2> QED
      BY <1>1, <1>6, <2>2, <2>3, <2>4
         DEF Deliver, Answer, Posted, on_done_exec_app, on_fail_exec_app
  <1> QED
    BY <1>1, <1>4, <1>5, <1>6 DEF Dispatch

LEMMA ExpectedStep ==
  ASSUME ExpectedInv, FreshCookies, [Next]_vars
  PROVE  Expected'
  <1>1. /\ Types /\ Told /\ Fresh /\ Expected /\ Types' /\ queue \in Seq(Event)
    BY TypesStep DEF ExpectedInv, ToldInv, Types
  <1>2. ASSUME UNCHANGED vars PROVE Expected'
    BY <1>1, <1>2, QuietExpected DEF vars, appVars, Unanswered
  <1>3. ASSUME NEW r \in Request,
               Connect(r) \/ Disconnect(r) \/ ExecRefused(r) \/ Send(r) \/ Establish(r) \/ Exit(r)
        PROVE  Expected'
    <2>1. UNCHANGED <<cookie, appinfo, queue>>
      BY <1>3 DEF Connect, Disconnect, ExecRefused, Send, Establish, Exit, appVars
    <2>2. /\ \A s \in Request : app'[s] = "none" <=> app[s] = "none"
          /\ \A s \in Request : app'[s] = "signalled" <=> app[s] = "signalled"
      BY <1>1, <1>3 DEF Connect, Disconnect, ExecRefused, Send, Establish, Exit, appVars, Types
    <2>3. \A s \in Request : session'[s] = "open" /\ app[s] # "none" => session[s] = "open"
      BY <1>1, <1>3
         DEF Connect, Disconnect, Stop, ExecRefused, Send, Establish, Exit, Types, Fresh
    <2>4. \A s \in Request : app[s] # "none" => replies'[s] = replies[s]
      BY <1>1, <1>3
         DEF Connect, Disconnect, ExecRefused, Unasked, put, Send, Establish, Exit, Types
    <2> QED
      BY <1>1, <2>1, <2>2, <2>3, <2>4, QuietExpected DEF Unanswered
  <1>4. ASSUME NEW r \in Request, Reap(r) PROVE Expected'
    <2>1. PICK e : e = [name |-> "sig_CHLD", sid |-> Master, pid |-> r, cookie |-> cookie[r]]
      OBVIOUS
    <2>2. /\ e \in Event /\ e.name = "sig_CHLD" /\ e.pid = r /\ queue' = Append(queue, e)
          /\ UNCHANGED <<session, replies, cookie, appinfo>>
          /\ app[r] = "exited" /\ app'[r] = "signalled"
          /\ \A s \in Request \ {r} : app'[s] = app[s]
      BY <1>1, <1>4, <2>1, EventFact DEF Reap, Types
    <2>3. /\ HasSignal(queue', r)
          /\ \A s : HasSignal(queue, s) => HasSignal(queue', s)
          /\ \A s : Has(queue, "fail_exec_app", s) => Has(queue', "fail_exec_app", s)
      BY <1>1, <2>2, HasSignalAppend
    <2>4. \A s : (HasSignal(queue', s) => HasSignal(queue, s)')
                 /\ (Has(queue', "fail_exec_app", s) => Has(queue, "fail_exec_app", s)')
      BY DEF HasSignal, Has
    <2> QED
      BY <1>1, <2>2, <2>3, <2>4 DEF Expected, Known, Unanswered
  <1>5. ASSUME NEW r \in Request, Establish2(r) PROVE Expected'
    <2>1. UNCHANGED <<session, replies, app, cookie, appinfo>>
      BY <1>5 DEF Establish2
    <2>2. CASE Target(cookie[r]) = {}
      BY <1>1, <1>5, <2>1, <2>2, QuietExpected DEF Establish2, Unanswered
    <2>3. CASE Target(cookie[r]) # {}
      <3>1. PICK t \in Target(cookie[r]) :
               queue' = Append(queue, [name |-> "done_exec_app", sid |-> t, cookie |-> cookie[r]])
        BY <1>5, <2>3 DEF Establish2
      <3>2. PICK f \in Event : queue' = Append(queue, f)
        BY <1>1, <3>1, TargetFact, EventFact DEF Posted
      <3>3. /\ \A s : HasSignal(queue, s) => HasSignal(queue', s)
            /\ \A s : Has(queue, "fail_exec_app", s) => Has(queue', "fail_exec_app", s)
        BY <1>1, <3>2, HasSignalAppend
      <3> QED
        BY <1>1, <2>1, <3>3, QuietExpected DEF Unanswered
    <2> QED
      BY <2>2, <2>3
  <1>6. ASSUME NEW r \in Request, Exec(r) PROVE Expected'
    BY <1>1, <1>6, ExecExpected
  <1>7. ASSUME Dispatch PROVE Expected'
    BY <1>7, DispatchExpected
  <1>8. ASSUME Terminate PROVE Expected'
    <2>1. UNCHANGED <<session, replies, app, cookie, appinfo>>
      BY <1>8 DEF Terminate, appVars
    <2>2. /\ \A s : HasSignal(queue, s) => HasSignal(queue', s)
          /\ \A s : Has(queue, "fail_exec_app", s) => Has(queue', "fail_exec_app", s)
      BY <1>1, <1>8, TerminateFact, ConcatQueued
    <2> QED
      BY <1>1, <2>1, <2>2, QuietExpected DEF Unanswered
  <1> QED
    BY <1>2, <1>3, <1>4, <1>5, <1>6, <1>7, <1>8 DEF Next

\* As long as no cookie is drawn twice, an exit that was signalled is never lost on its way to
\* a requester that waits (sig_CHLD, plumber:138): what ExitReported says, but for fairness.
THEOREM ExitNeverLost == ASSUME FreshCookies PROVE Spec => []ExitOnItsWay
  <1>1. Init => ExpectedInv
    BY InitTypes, InitTold, InitFresh DEF ExpectedInv, ToldInv, Init, Expected
  <1>2. ExpectedInv /\ [Next]_vars => ExpectedInv'
    BY ToldStep, FreshStep, ExpectedStep DEF ExpectedInv, ToldInv
  <1>3. ExpectedInv => ExitOnItsWay
    BY DEF ExpectedInv, Expected, Known, ExitOnItsWay, ExitQueued
  <1> QED
    BY <1>1, <1>2, <1>3, PTL DEF Spec
=============================================================================
