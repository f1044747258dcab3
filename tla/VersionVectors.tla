--------------------------- MODULE VersionVectors ---------------------------
(***************************************************************************)
(* The version-vector functions of mysql-dvv/dvv-functions.sql.            *)
(*                                                                         *)
(* The SQL keeps a vector as a JSON object {"<server uuid>": <counter>}.   *)
(* Here it is a total function from Server to Nat, 0 standing for a member *)
(* that is absent: every counter the SQL stores is at least 1 (vv_increment*)
(* and initLogicalClock are the only writers), so nothing is confused.     *)
(***************************************************************************)
EXTENDS Naturals, FiniteSets

CONSTANT Server                   \* the @@server_uuid of each MySQL server

ASSUME ServerAssumption == IsFiniteSet(Server) /\ Server # {}

Vector == [Server -> Nat]

\* The JSON object {}: a vector without members.
Empty == [o \in Server |-> 0]

\* Every member of v2 is a member of v1 with at least its counter.
vv_descend(v1, v2) == \A o \in Server : v1[o] >= v2[o]

\* The union of the members, the greater counter where both have one.
vv_merge(v1, v2) == [o \in Server |-> IF v1[o] > v2[o] THEN v1[o] ELSE v2[o]]

vv_increment(v, server) == [v EXCEPT ![server] = @ + 1]

\* JSON_LENGTH: the number of members.
Members(v) == {o \in Server : v[o] > 0}

\* JSON_OBJECT(server, counter)
Dot(server, counter) == [Empty EXCEPT ![server] = counter]

\* "implicitly $.dot is equal to $.versionVector": Empty is a missing dot.
vv_dot(clock) == IF clock.dot = Empty THEN clock.vv ELSE clock.dot
=============================================================================
