------------------------------ MODULE MCMyTrac ------------------------------
(***************************************************************************)
(* Transactions on two files, which two processes begin in any order and   *)
(* mixture.  The processes are alike: the first one begins.  Both modes do *)
(* the same to a single operation.  Nothing is begun, and but for its end  *)
(* nothing claimed, after something is spoiled.                            *)
(***************************************************************************)
EXTENDS MyTrac, TLC

CONSTANTS p1, p2, f1, f2

Processes == {p1, p2}
Files == {f1, f2}
On(kind, f) == [kind |-> kind, file |-> f]
Transactions ==
    {<<On("insert", f1)>>, <<On("update", f2)>>,
     <<On("update", f1), On("update", f2)>>, <<On("update", f2), On("update", f1)>>,
     <<On("insert", f1), On("delete", f2)>>, <<On("delete", f1), On("insert", f2)>>}

Reduced ==
    /\ Next
    /\ began = 0 => pc'[p2] = "idle"
    /\ began' # began => spoiled = {}
    /\ \A p \in Process : Len(ops'[p]) = 1 => mode'[p] = "async"

ReducedSpec == Init /\ [][Reduced]_vars /\ \A p \in Process : WF_vars(Step(p))
=============================================================================
