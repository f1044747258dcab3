------------------------------ MODULE MCMarkIt ------------------------------
(***************************************************************************)
(* Two windows on one page.  The first is clicked up to three times, with  *)
(* all that can happen to what it loads.  Marks are set and saved where    *)
(* one click was enough, and the second window shows the dialog, if at     *)
(* all, after one click too: using a dialog and loading one meet only in   *)
(* the request that the new dialog sends.  Nothing is claimed of what comes *)
(* after a save that did not wait for the stored marks.                    *)
(***************************************************************************)
EXTENDS MarkIt, TLC

CONSTANTS w1, w2, m1, m2

Windows == {w1, w2}
Clicks == w1 :> 3 @@ w2 :> 1

OneClick(w) ==
    clicks[w] = 1 /\ dialogs[w] = 1 /\ library[w] = "ui" /\ scripts[w] = {} /\ failed[w] = {}

OpenThenUse ==
    \/ clicks[w2] = 0 /\ Load(w1)
    \/ OneClick(w1) /\ Load(w2) /\ scripts'[w2] = {}
    \/ OneClick(w1) /\ UNCHANGED loaderVars /\ "blind" \notin careless
       /\ (Serve \/ \E w \in Window : Use(w))

OpenInit == Init /\ library[w2] = "ui" /\ ToSet(stored.marks) \subseteq {m1}

OpenThenUseSpec == OpenInit /\ [][OpenThenUse]_vars /\ LoaderFairness
=============================================================================
