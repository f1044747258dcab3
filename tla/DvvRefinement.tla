--------------------------- MODULE DvvRefinement ---------------------------
(***************************************************************************)
(* The triggers implement the multi-value register, while clients write    *)
(* where they read and only delete softly.  The abstract history comes     *)
(* from the GTIDs; what is held comes from the rows the triggers leave.    *)
(***************************************************************************)
EXTENDS Dvv

SeenBy(w) == {x \in AllWrites : x[2] <= Transact(w).seen[x[1]]}

Register == INSTANCE MultiValueRegister WITH
    Writes  <- Server \X (1 .. MaxWrites),
    known   <- [s \in Server |-> Executed(s)],
    past    <- [w \in AllWrites |-> SeenBy(w)],
    removed <- {w \in AllWrites : Transact(w).deleted},
    held    <- [s \in Server |-> Values(s)]

(* The counters, dots and sibling rows kept by SomeTable__reconcile select, on
   every server and in every order of replication, exactly the values that no
   executed write supersedes: the tables lose none and none lingers.  (A reader
   of a row that is softly deleted is not offered its siblings.) *)
ImplementsRegister == Register!Spec
=============================================================================
