------------------------- MODULE MultiValueRegister -------------------------
(***************************************************************************)
(* What mysql-dvv promises for one row, without clocks, siblings or SQL:   *)
(* a replicated register that holds, on each server, exactly the values    *)
(* that nothing the server has learned of supersedes.  A write supersedes  *)
(* all that its server knew; writes made in ignorance of each other are    *)
(* held together until one is written that knew them all.                  *)
(***************************************************************************)
CONSTANTS Server, Writes

VARIABLES
    known,      \* the writes each server has learned of
    past,       \* for each write made: the writes it supersedes
    removed,    \* the writes that are deletions: they supersede, and hold nothing
    held        \* the values that each server holds

vars == <<known, past, removed, held>>

Init ==
    /\ known = [s \in Server |-> {}]
    /\ past = [w \in {} |-> {}]
    /\ removed = {}
    /\ held = [s \in Server |-> {}]

\* Among the writes W, those that no other of W supersedes and that are no deletion.
Maximal(W, before, gone) == {w \in W : w \notin gone /\ \A x \in W : w \notin before[x]}

Learn(s, w) ==
    /\ known' = [known EXCEPT ![s] = @ \cup {w}]
    /\ held' = [held EXCEPT ![s] = Maximal(known'[s], past', removed')]

\* Only the first write may know nothing: it creates what the others overwrite.
Write(s, w) ==
    /\ w \notin DOMAIN past
    /\ known[s] = {} => DOMAIN past = {}
    /\ past' = [x \in DOMAIN past \cup {w} |-> IF x = w THEN known[s] ELSE past[x]]
    /\ removed' = removed \/ removed' = removed \cup {w}
    /\ Learn(s, w)

\* A write reaches another server after those it supersedes.
Deliver(s, w) ==
    /\ w \in DOMAIN past \ known[s]
    /\ past[w] \subseteq known[s]
    /\ UNCHANGED <<past, removed>>
    /\ Learn(s, w)

Next == \E s \in Server, w \in Writes : Write(s, w) \/ Deliver(s, w)

Spec == Init /\ [][Next]_vars
=============================================================================
