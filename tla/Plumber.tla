------------------------------ MODULE Plumber ------------------------------
(***************************************************************************)
(* Perl/QES/bin/plumber: a POE server that starts an app for a requester   *)
(* and answers the requester once the app has reported back.               *)
(*                                                                         *)
(* A request is named r: the connection (POE session) it came in on and    *)
(* the app forked for it share the name.  plumber is one process, so each  *)
(* handler is one action; what interleaves is when connections are read,   *)
(* when children exit and in which order queued events are dispatched.     *)
(***************************************************************************)
EXTENDS Naturals, FiniteSets, Sequences, SequencesExt

CONSTANTS
    Request,        \* connections that send ["exec", ...]
    Cookie,         \* the values "app-time-pid-rand" can take
    FreshCookies,   \* is a value never drawn twice?
    MaxCalls        \* bound: calls one app makes

ASSUME RequestAssumption == IsFiniteSet(Request)
ASSUME CookieAssumption == FreshCookies \in BOOLEAN
ASSUME CallsAssumption == MaxCalls \in Nat

VARIABLES
    session,    \* the requester's POE session: absent, open or gone
    states,     \* the states ("fail_exec_app", ..) registered in that session
    replies,    \* the responses put on that connection
    app,        \* the child process
    watched,    \* has Master a SIGCHLD handler for it?
    cookie,     \* PLUMBER_COOKIE of the child process
    call,       \* the request of the app that is on the wire
    calls,      \* how many calls the app has made
    acked,      \* history: did the app get ["ok", "done"]?
    appinfo,    \* %g_cookie_to_appinfo
    queue,      \* POE's event queue
    listening   \* does the Master session still exist?

vars == <<session, states, replies, app, watched, cookie, call, calls, acked, appinfo,
          queue, listening>>

appVars == <<app, watched, cookie, call, calls>>
-----------------------------------------------------------------------------
NoCookie == "no cookie"
NoCall == "none"
NoSid == "no sid"

Info == [pid : Request, sid : Request \cup {NoSid}]

ASSUME NamesAssumption ==
    NoCookie \notin Cookie /\ NoSid \notin Request /\ "Master" \notin Request

\* An event: its name, the session it is posted to and the arguments.
Master == "Master"
Shutdown(s) == [name |-> "shutdown", sid |-> s]
Event == [name : {"fail_exec_app", "done_exec_app"}, sid : Request, cookie : Cookie]
         \cup [name : {"sig_CHLD"}, sid : {Master}, pid : Request, cookie : Cookie]
         \cup [name : {"shutdown"}, sid : Request \cup {Master}]

TypeOK ==
    /\ session \in [Request -> {"absent", "open", "gone"}]
    /\ states \in [Request -> SUBSET {"fail_exec_app", "done_exec_app"}]
    /\ replies \in [Request -> Seq({"ok", "bad"})]
    /\ app \in [Request -> {"none", "running", "exited", "signalled"}]
    /\ watched \in [Request -> BOOLEAN]
    /\ cookie \in [Request -> Cookie \cup {NoCookie}]
    /\ call \in [Request -> {NoCall, "establish", "establish2"}]
    /\ calls \in [Request -> 0 .. MaxCalls]
    /\ acked \in [Request -> BOOLEAN]
    /\ \E C \in SUBSET Cookie : appinfo \in [C -> Info]
    /\ queue \in Seq(Event)
    /\ listening \in BOOLEAN

Init ==
    /\ session = [r \in Request |-> "absent"]
    /\ states = [r \in Request |-> {}]
    /\ replies = [r \in Request |-> <<>>]
    /\ app = [r \in Request |-> "none"]
    /\ watched = [r \in Request |-> FALSE]
    /\ cookie = [r \in Request |-> NoCookie]
    /\ call = [r \in Request |-> NoCall]
    /\ calls = [r \in Request |-> 0]
    /\ acked = [r \in Request |-> FALSE]
    /\ appinfo = [k \in {} |-> NoSid]
    /\ queue = <<>>
    /\ listening = TRUE
-----------------------------------------------------------------------------
(* Requesters *)

Connect(r) ==
    /\ listening
    /\ session[r] = "absent"
    /\ session' = [session EXCEPT ![r] = "open"]
    /\ UNCHANGED <<states, replies, appVars, acked, appinfo, queue, listening>>

\* What is queued for a session that has stopped is never dispatched (see Deliver).
Stop(r) == session' = [session EXCEPT ![r] = "gone"]

\* The requester has its answer, its timeout expired or it crashed.
Disconnect(r) ==
    /\ session[r] = "open"
    /\ Stop(r)
    /\ UNCHANGED <<states, replies, appVars, acked, appinfo, queue, listening>>

put(r, answer) == replies' = [replies EXCEPT ![r] = Append(@, answer)]

(* plumber accepts any number of requests on a connection; the requesters are
   assumed to send one exec on each. *)
Unasked(r) == session[r] = "open" /\ app[r] = "none" /\ replies[r] = <<>>

\* action_exec: no such app, or fork fails.
ExecRefused(r) ==
    /\ Unasked(r)
    /\ put(r, "bad")
    /\ UNCHANGED <<session, states, appVars, acked, appinfo, queue, listening>>

\* A cookie is the second, the pid of plumber and one of 9999 random numbers.
Drawn(k) == FreshCookies => \A r \in Request : cookie[r] # k

(* action_exec: the child is forked, recorded, and watched by Master, which the
   alias of a closed server no longer reaches. *)
Exec(r) ==
    /\ Unasked(r)
    /\ \E k \in Cookie :
         /\ Drawn(k)
         /\ cookie' = [cookie EXCEPT ![r] = k]
         /\ appinfo' = [x \in DOMAIN appinfo \cup {k} |->
                           IF x = k THEN [pid |-> r, sid |-> r] ELSE appinfo[x]]
    /\ app' = [app EXCEPT ![r] = "running"]
    /\ watched' = [watched EXCEPT ![r] = listening]
    /\ states' = [states EXCEPT ![r] = {"fail_exec_app", "done_exec_app"}]
    /\ UNCHANGED <<session, replies, call, calls, acked, queue, listening>>
-----------------------------------------------------------------------------
(* Apps: Event::Plumber of the child sends one request at a time. *)

Send(r) ==
    /\ app[r] = "running"
    /\ call[r] = NoCall
    /\ calls[r] < MaxCalls
    /\ listening
    /\ \E action \in {"establish", "establish2"} : call' = [call EXCEPT ![r] = action]
    /\ calls' = [calls EXCEPT ![r] = @ + 1]
    /\ UNCHANGED <<session, states, replies, app, watched, cookie, acked, appinfo, queue, listening>>

\* The app exits or is killed; a request it has sent stays on the wire.
Exit(r) ==
    /\ app[r] = "running"
    /\ app' = [app EXCEPT ![r] = "exited"]
    /\ UNCHANGED <<session, states, replies, watched, cookie, call, calls, acked, appinfo,
                   queue, listening>>

\* POE reaps the child and queues the event that sig_child asked for.
Reap(r) ==
    /\ app[r] = "exited"
    /\ watched[r]
    /\ app' = [app EXCEPT ![r] = "signalled"]
    /\ queue' = Append(queue, [name |-> "sig_CHLD", sid |-> Master, pid |-> r,
                               cookie |-> cookie[r]])
    /\ UNCHANGED <<session, states, replies, watched, cookie, call, calls, acked, appinfo, listening>>

\* ID_id_to_session of the recorded sid: the requester, if it is still there.
Target(k) == {r \in Request : /\ k \in DOMAIN appinfo
                              /\ appinfo[k].sid = r
                              /\ session[r] = "open"}

\* action_establish: the app fetches its arguments, plumber changes nothing.
Establish(r) ==
    /\ call[r] = "establish"
    /\ call' = [call EXCEPT ![r] = NoCall]
    /\ UNCHANGED <<session, states, replies, app, watched, cookie, calls, acked, appinfo,
                   queue, listening>>

\* action_establish2: the requester is told, unless it is gone or was told.
Establish2(r) ==
    /\ call[r] = "establish2"
    /\ call' = [call EXCEPT ![r] = NoCall]
    /\ LET targets == Target(cookie[r])
       IN  IF targets = {} THEN UNCHANGED <<queue, acked>>
           ELSE /\ \E t \in targets :
                     queue' = Append(queue, [name |-> "done_exec_app", sid |-> t,
                                             cookie |-> cookie[r]])
                /\ acked' = [acked EXCEPT ![r] = TRUE]
    /\ UNCHANGED <<session, states, replies, app, watched, cookie, calls, appinfo, listening>>
-----------------------------------------------------------------------------
(* Events *)

\* Fault: the record of an app that has been answered for is kept .
Without_kept(k) ==
    [x \in {y \in DOMAIN appinfo : y # k \/ appinfo[y].sid = NoSid} |-> appinfo[x]]

Without(k) == [x \in DOMAIN appinfo \ {k} |-> appinfo[x]]

\* Fault: the app is forgotten, nobody is told.
sig_CHLD_silent(k) ==
    /\ queue' = Tail(queue)
    /\ appinfo' = Without(k)
    /\ UNCHANGED <<session, states, replies, listening>>

\* Fault: the requester is told ahead of the events that are queued.
sig_CHLD_hasty(k) ==
    /\ queue' = [i \in 1 .. Cardinality(Target(k)) |->
                    [name |-> "fail_exec_app", sid |-> appinfo[k].sid, cookie |-> k]]
                \o Tail(queue)
    /\ appinfo' = Without(k)
    /\ UNCHANGED <<session, states, replies, listening>>

(* In Master: a requester that has not been answered is told of the exit; the
   app is forgotten. *)
sig_CHLD(k) ==
    /\ queue' = IF Target(k) = {} THEN Tail(queue)
                ELSE Append(Tail(queue), [name |-> "fail_exec_app", sid |-> appinfo[k].sid,
                                          cookie |-> k])
    /\ appinfo' = Without(k)
    /\ UNCHANGED <<session, states, replies, listening>>

\* Fault: without the test for the entry, Perl's delete creates it.
DropSid_autovivifies(k) ==
    appinfo' = [x \in DOMAIN appinfo \cup {k} |->
                   IF x # k THEN appinfo[x]
                   ELSE [pid |-> IF k \in DOMAIN appinfo THEN appinfo[k].pid ELSE "undef",
                         sid |-> NoSid]]

\* The app has been answered for; the entry stays for its exit.
DropSid(k) ==
    appinfo' = IF k \in DOMAIN appinfo THEN [appinfo EXCEPT ![k].sid = NoSid] ELSE appinfo

\* Fault: the state stays registered.
Unregister_kept(r, state) == UNCHANGED states

Unregister(r, state) == states' = [states EXCEPT ![r] = @ \ {state}]

on_done_exec_app(r, k) ==
    /\ Unregister(r, "done_exec_app")
    /\ put(r, "ok")
    /\ DropSid(k)
    /\ queue' = Tail(queue)
    /\ UNCHANGED <<session, listening>>

on_fail_exec_app(r, k) ==
    /\ Unregister(r, "fail_exec_app")
    /\ put(r, "bad")
    /\ DropSid(k)
    /\ queue' = Tail(queue)
    /\ UNCHANGED <<session, listening>>

\* POE discards an event whose session is gone or whose state is not registered.
Discard ==
    /\ queue' = Tail(queue)
    /\ UNCHANGED <<session, states, replies, appinfo, listening>>

\* In a requester's session: the connection is closed.
shutdown_client(r) ==
    /\ Stop(r)
    /\ queue' = Tail(queue)
    /\ UNCHANGED <<states, replies, appinfo, listening>>

\* In Master: the port is closed, the SIGCHLD handlers remain.
shutdown_server ==
    /\ listening' = FALSE
    /\ queue' = Tail(queue)
    /\ UNCHANGED <<session, states, replies, appinfo>>

\* An event for a requester's session
Deliver(e) ==
    \/ /\ session[e.sid] # "open" \/ e.name \notin states[e.sid] \cup {"shutdown"}
       /\ Discard
    \/ /\ session[e.sid] = "open"
       /\ \/ e.name = "shutdown" /\ shutdown_client(e.sid)
          \/ /\ e.name = "done_exec_app" /\ e.name \in states[e.sid]
             /\ on_done_exec_app(e.sid, e.cookie)
          \/ /\ e.name = "fail_exec_app" /\ e.name \in states[e.sid]
             /\ on_fail_exec_app(e.sid, e.cookie)

Dispatch ==
    /\ queue # <<>>
    /\ LET e == Head(queue)
       IN  \/ e.name = "sig_CHLD" /\ sig_CHLD(e.cookie)
           \/ e = Shutdown(Master) /\ shutdown_server
           \/ e.sid # Master /\ Deliver(e)
    /\ UNCHANGED <<appVars, acked>>

(* sig_HUP_INT_TERM runs in every session, Master's last: each yields a shutdown
   to itself, in any order.  One signal is modelled. *)
Terminate ==
    /\ listening
    /\ Shutdown(Master) \notin Range(queue)
    /\ \E order \in SetToSeqs({r \in Request : session[r] = "open"}) :
          queue' = queue \o [i \in DOMAIN order |-> Shutdown(order[i])] \o <<Shutdown(Master)>>
    /\ UNCHANGED <<session, states, replies, appVars, acked, appinfo, listening>>

Next ==
    \/ \E r \in Request :
         \/ Connect(r) \/ Disconnect(r) \/ ExecRefused(r) \/ Exec(r)
         \/ Send(r) \/ Exit(r) \/ Reap(r) \/ Establish(r) \/ Establish2(r)
    \/ Dispatch
    \/ Terminate

Spec == Init /\ [][Next]_vars

(* plumber's event loop runs, the operating system reports exits and what was
   sent is read; neither requesters nor apps have to do anything. *)
Fairness ==
    /\ WF_vars(Dispatch)
    /\ \A r \in Request :
         WF_vars(Reap(r)) /\ WF_vars(Establish(r)) /\ WF_vars(Establish2(r))

FairSpec == Spec /\ Fairness
-----------------------------------------------------------------------------
(* Properties *)

\* Is the exit of that app queued for Master?
HasSignal(q, r) == \E i \in DOMAIN q : q[i].name = "sig_CHLD" /\ q[i].pid = r

\* The app runs, or Master has not handled its exit (and never will if it does not watch it).
Unhandled(r) == app[r] \in {"running", "exited"} \/ HasSignal(queue, r)

(* An app is recorded under its own cookie from its start until its exit is
   handled, whatever has become of its requester, and no other record is kept:
   what "establish" finds is its own (plumber:138-166, 366-371, 457-467). *)
Accounted ==
    /\ \A r \in Request : Unhandled(r) =>
         cookie[r] \in DOMAIN appinfo /\ appinfo[cookie[r]].pid = r
    /\ \A k \in DOMAIN appinfo : LET r == appinfo[k].pid
                               IN  cookie[r] = k /\ Unhandled(r)

(* No requester is told the same twice, though an app may report twice and its
   exit may follow at any moment. *)
NothingRepeated ==
    \A r \in Request : Len(replies[r]) <= 2
                       /\ (Len(replies[r]) = 2 => replies[r] = <<"ok", "bad">>)

(* What the app was told is kept: if it got ["ok", "done"], its requester gets
   "ok" first, unless it has left, whatever happens to the app meanwhile. *)
AcknowledgedFirst ==
    \A r \in Request : acked[r] /\ session[r] = "open" =>
        \/ replies[r] # <<>> /\ Head(replies[r]) = "ok"
        \/ /\ replies[r] = <<>>
           /\ \E i \in DOMAIN queue :
                /\ queue[i].name = "done_exec_app" /\ queue[i].sid = r
                /\ \A j \in 1 .. i - 1 :
                     ~(queue[j].name = "fail_exec_app" /\ queue[j].sid = r)

(* An app that exits before it has reported does not leave its requester
   waiting, as long as plumber watches it. *)
ExitReported ==
    \A r \in Request :
        app[r] = "exited" /\ watched[r] ~> replies[r] # <<>> \/ session[r] = "gone"
=============================================================================
