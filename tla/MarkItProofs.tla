---------------------------- MODULE MarkItProofs ----------------------------
(***************************************************************************)
(* Theorems about MarkIt, for any number of windows, clicks, marks and     *)
(* saves: how a dialog gets into a page, and what becomes of its marks.    *)
(***************************************************************************)
EXTENDS MarkIt, FiniteSetTheorems, TLAPS

(* The loader *)

State(w) == [at : {"none", "xhr", "script", "jquery", "ui"}, script : 0..MaxClicks[w]]

\* What LoaderTypeOK says, and that load and scripts are functions on windows.
LoaderTypes ==
    /\ clicks \in [Window -> Nat]
    /\ load = [w \in Window |-> load[w]]
    /\ \A w \in Window : load[w] \in [Click(w) -> State(w)]
    /\ scripts = [w \in Window |-> scripts[w]]
    /\ \A w \in Window : clicks[w] <= MaxClicks[w] /\ scripts[w] \subseteq Click(w)
    /\ library \in [Window -> {"none", "bare", "ui"}]
    /\ dialogs \in [Window -> Nat]
    /\ shown \in [Window -> BOOLEAN]
    /\ failed \in [Window -> SUBSET {"script", "library"}]

\* A script element in a document without a dialog waits for a file.
Waiting ==
    \A w \in Window :
        dialogs[w] = 0 /\ "library" \notin failed[w] =>
            \A k \in scripts[w] : load[w][k].at \in {"script", "jquery", "ui"}

LoaderInv == LoaderTypes /\ OneDialog /\ Waiting
-----------------------------------------------------------------------------
LEMMA IdleIsState == \A w \in Window : MaxClicks[w] \in Nat /\ Idle \in State(w)
  <1> TAKE w \in Window
  <1>1. MaxClicks[w] \in Nat
    BY ClicksAssumption
  <1>2. 0 \in 0..MaxClicks[w]
    BY <1>1
  <1> QED
    BY <1>1, <1>2 DEF Idle, State

LEMMA LoaderInitInv == LoaderInit => LoaderInv
  <1> SUFFICES ASSUME LoaderInit PROVE LoaderInv
    OBVIOUS
  <1>1. LoaderTypes
    <2>1. /\ clicks \in [Window -> Nat]
          /\ load = [w \in Window |-> load[w]]
          /\ scripts = [w \in Window |-> scripts[w]]
          /\ library \in [Window -> {"none", "bare", "ui"}]
          /\ dialogs \in [Window -> Nat]
          /\ shown \in [Window -> BOOLEAN]
          /\ failed \in [Window -> SUBSET {"script", "library"}]
      BY DEF LoaderInit
    <2>2. \A w \in Window : load[w] \in [Click(w) -> State(w)]
      BY IdleIsState DEF LoaderInit
    <2>3. \A w \in Window : clicks[w] <= MaxClicks[w] /\ scripts[w] \subseteq Click(w)
      <3> TAKE w \in Window
      <3>1. MaxClicks[w] \in Nat /\ clicks[w] = 0 /\ scripts[w] = {}
        BY IdleIsState DEF LoaderInit
      <3> QED
        BY <3>1
    <2> QED
      BY <2>1, <2>2, <2>3 DEF LoaderTypes
  <1> QED
    BY <1>1 DEF LoaderInit, LoaderInv, OneDialog, Waiting

\* One click's state changes, that of the others does not.
LEMMA LoadUpdate ==
  ASSUME LoaderTypes, NEW w \in Window, NEW k \in Click(w), NEW s \in State(w),
         load' = [load EXCEPT ![w][k] = s]
  PROVE  /\ load' = [v \in Window |-> load'[v]]
         /\ \A v \in Window : load'[v] \in [Click(v) -> State(v)]
         /\ load'[w][k] = s
         /\ \A j \in Click(w) \ {k} : load'[w][j] = load[w][j]
         /\ \A v \in Window \ {w} : load'[v] = load[v]
  <1>1. load' = [v \in Window |-> IF v = w THEN [load[w] EXCEPT ![k] = s] ELSE load[v]]
    BY DEF LoaderTypes
  <1>2. load[w] \in [Click(w) -> State(w)]
    BY DEF LoaderTypes
  <1>3. load'[w] = [load[w] EXCEPT ![k] = s]
    BY <1>1
  <1>4. load'[w] \in [Click(w) -> State(w)]
    BY <1>2, <1>3
  <1>5. \A v \in Window \ {w} : load'[v] = load[v]
    BY <1>1
  <1>6. \A v \in Window : load'[v] \in [Click(v) -> State(v)]
    BY <1>4, <1>5 DEF LoaderTypes
  <1>7. load'[w][k] = s /\ \A j \in Click(w) \ {k} : load'[w][j] = load[w][j]
    BY <1>2, <1>3
  <1> QED
    BY <1>1, <1>5, <1>6, <1>7

LEMMA FetchUpdate ==
  ASSUME LoaderTypes, NEW w \in Window, NEW k \in Click(w),
         NEW file \in {"none", "xhr", "script", "jquery", "ui"}, Fetch(w, k, file)
  PROVE  \E s \in State(w) : s.at = file /\ load' = [load EXCEPT ![w][k] = s]
  <1>1. load[w][k] \in State(w)
    BY DEF LoaderTypes
  <1>2. [load[w][k] EXCEPT !.at = file] \in State(w)
    BY <1>1 DEF State
  <1>3. [load[w][k] EXCEPT !.at = file].at = file
    BY <1>1 DEF State
  <1> QED
    BY <1>2, <1>3 DEF Fetch

\* Apart from load, a step leaves what belongs to other windows as it is.
Elsewhere(w) ==
    /\ clicks' \in [Window -> Nat] /\ \A v \in Window : clicks'[v] <= MaxClicks[v]
    /\ scripts' = [v \in Window |-> scripts'[v]] /\ scripts'[w] \subseteq Click(w)
    /\ library' \in [Window -> {"none", "bare", "ui"}]
    /\ dialogs' \in [Window -> Nat] /\ dialogs'[w] <= 1
    /\ shown' \in [Window -> BOOLEAN]
    /\ failed' \in [Window -> SUBSET {"script", "library"}]
    /\ \A v \in Window \ {w} :
          scripts'[v] = scripts[v] /\ dialogs'[v] = dialogs[v] /\ failed'[v] = failed[v]

LEMMA StepInv ==
  ASSUME LoaderInv, NEW w \in Window, NEW k \in Click(w), NEW s \in State(w),
         load' = [load EXCEPT ![w][k] = s], Elsewhere(w),
         dialogs'[w] = 0 /\ "library" \notin failed'[w] =>
             \A j \in scripts'[w] : load'[w][j].at \in {"script", "jquery", "ui"}
  PROVE  LoaderInv'
  <1>1. LoaderTypes /\ OneDialog /\ Waiting
    BY DEF LoaderInv
  <1>2. /\ load' = [v \in Window |-> load'[v]]
        /\ \A v \in Window : load'[v] \in [Click(v) -> State(v)]
        /\ \A v \in Window \ {w} : load'[v] = load[v]
    BY <1>1, LoadUpdate
  <1>3. LoaderTypes'
    <2>1. \A v \in Window : scripts'[v] \subseteq Click(v)
      BY <1>1 DEF LoaderTypes, Elsewhere
    <2> QED
      BY <1>2, <2>1 DEF Elsewhere, LoaderTypes, Click, State
  <1>4. OneDialog'
    BY <1>1 DEF OneDialog, Elsewhere
  <1>5. Waiting'
    BY <1>1, <1>2 DEF Waiting, Elsewhere
  <1> QED
    BY <1>3, <1>4, <1>5 DEF LoaderInv

\* The same where load does not change.
LEMMA ToggleInv ==
  ASSUME LoaderInv, UNCHANGED <<load, scripts, library, dialogs, failed>>,
         clicks' \in [Window -> Nat], \A v \in Window : clicks'[v] <= MaxClicks[v],
         shown' \in [Window -> BOOLEAN]
  PROVE  LoaderInv'
  BY DEF LoaderInv, LoaderTypes, OneDialog, Waiting, Click, State
-----------------------------------------------------------------------------
LEMMA ClickInv ==
  ASSUME LoaderInv, NEW w \in Window, ClickBookmark(w)
  PROVE  LoaderInv'
  <1>1. LoaderTypes /\ OneDialog
    BY DEF LoaderInv
  <1>2. clicks[w] \in Nat /\ MaxClicks[w] \in Nat /\ clicks[w] < MaxClicks[w]
    BY <1>1, ClicksAssumption DEF LoaderTypes, ClickBookmark
  <1>3. clicks' \in [Window -> Nat] /\ \A v \in Window : clicks'[v] <= MaxClicks[v]
    BY <1>1, <1>2 DEF LoaderTypes, ClickBookmark
  <1>4. clicks[w] + 1 \in Click(w)
    BY <1>2 DEF Click
  <1>5. CASE Toggle(w) \/ AlreadyLoading(w)
    <2>1. shown' \in [Window -> BOOLEAN]
      BY <1>1, <1>5 DEF Toggle, AlreadyLoading, LoaderTypes
    <2> QED
      BY <1>3, <1>5, <2>1, ToggleInv DEF ClickBookmark, Toggle, AlreadyLoading
  <1>6. CASE StartLoading(w)
    <2> DEFINE k == clicks[w] + 1
    <2>1. PICK file \in {"xhr", "script"} :
              /\ Fetch(w, k, file)
              /\ file = "xhr" => UNCHANGED scripts
              /\ file = "script" => scripts' = [scripts EXCEPT ![w] = @ \cup {k}]
      BY <1>6 DEF StartLoading, LoadByScriptTag
    <2>2. PICK s \in State(w) : s.at = file /\ load' = [load EXCEPT ![w][k] = s]
      <3>1. file \in {"none", "xhr", "script", "jquery", "ui"} /\ k \in Click(w)
        BY <1>4
      <3> HIDE DEF k
      <3> QED
        BY <1>1, <2>1, <3>1, FetchUpdate
    <2>3. scripts' = [v \in Window |-> scripts'[v]] /\ scripts'[w] \subseteq {k}
          /\ (file = "xhr" => scripts'[w] = {})
          /\ \A v \in Window \ {w} : scripts'[v] = scripts[v]
      BY <1>1, <1>6, <2>1 DEF StartLoading, LoaderTypes
    <2> HIDE DEF k
    <2>4. k \in Click(w)
      BY <1>4 DEF k
    <2>5. \A j \in scripts'[w] : load'[w][j].at \in {"script", "jquery", "ui"}
      BY <1>1, <2>1, <2>2, <2>3, <2>4, LoadUpdate
    <2>6. Elsewhere(w)
      BY <1>1, <1>3, <1>6, <2>3, <2>4
         DEF ClickBookmark, StartLoading, Elsewhere, LoaderTypes, OneDialog
    <2> QED
      BY <2>2, <2>4, <2>5, <2>6, StepInv
  <1> QED
    BY <1>5, <1>6 DEF ClickBookmark

\* What a window may do to its own scripts and its dialog.
LEMMA ElsewhereInv ==
  ASSUME LoaderInv, NEW w \in Window, UNCHANGED clicks,
         library' \in [Window -> {"none", "bare", "ui"}], shown' \in [Window -> BOOLEAN],
         UNCHANGED scripts \/ \E e \in SUBSET Click(w) : scripts' = [scripts EXCEPT ![w] = e],
         UNCHANGED dialogs \/ dialogs' = [dialogs EXCEPT ![w] = 1],
         \/ UNCHANGED failed
         \/ \E b \in SUBSET {"script", "library"} : failed' = [failed EXCEPT ![w] = b]
  PROVE  Elsewhere(w)
  <1>1. LoaderTypes /\ OneDialog
    BY DEF LoaderInv
  <1>2. /\ scripts' = [v \in Window |-> scripts'[v]] /\ scripts'[w] \subseteq Click(w)
        /\ \A v \in Window \ {w} : scripts'[v] = scripts[v]
    BY <1>1 DEF LoaderTypes
  <1>3. /\ dialogs' \in [Window -> Nat] /\ dialogs'[w] <= 1
        /\ \A v \in Window \ {w} : dialogs'[v] = dialogs[v]
    BY <1>1 DEF LoaderTypes, OneDialog
  <1>4. /\ failed' \in [Window -> SUBSET {"script", "library"}]
        /\ \A v \in Window \ {w} : failed'[v] = failed[v]
    BY <1>1 DEF LoaderTypes
  <1> QED
    BY <1>1, <1>2, <1>3, <1>4 DEF LoaderTypes, Elsewhere

LEMMA MainInv ==
  ASSUME LoaderInv, NEW w \in Window, NEW script, main(w, script),
         UNCHANGED <<clicks, failed>>, library' \in [Window -> {"none", "bare", "ui"}]
  PROVE  Elsewhere(w) /\ dialogs'[w] # 0
  <1>1. LoaderTypes
    BY DEF LoaderInv
  <1>2. CASE dialogs[w] = 0
    <2>1. /\ dialogs' = [dialogs EXCEPT ![w] = 1]
          /\ scripts' = [scripts EXCEPT ![w] = scripts[w] \ {script}]
          /\ shown' = [shown EXCEPT ![w] = TRUE]
      BY <1>1, <1>2 DEF main, LoaderTypes
    <2>2. \E e \in SUBSET Click(w) : scripts' = [scripts EXCEPT ![w] = e]
      <3>1. scripts[w] \ {script} \in SUBSET Click(w)
        BY <1>1 DEF LoaderTypes
      <3> QED
        BY <2>1, <3>1
    <2>3. dialogs'[w] = 1 /\ shown' \in [Window -> BOOLEAN]
      BY <1>1, <2>1 DEF LoaderTypes
    <2>4. UNCHANGED dialogs \/ dialogs' = [dialogs EXCEPT ![w] = 1]
      BY <2>1
    <2>5. Elsewhere(w)
      BY <2>2, <2>3, <2>4, ElsewhereInv
    <2> QED
      BY <2>3, <2>5
  <1>3. CASE dialogs[w] # 0
    <2>1. UNCHANGED <<dialogs, scripts>> /\ shown' \in [Window -> BOOLEAN]
      BY <1>1, <1>3 DEF main, LoaderTypes
    <2> QED
      BY <1>3, <2>1, ElsewhereInv
  <1> QED
    BY <1>2, <1>3

LEMMA EvaluateInv ==
  ASSUME LoaderInv, NEW w \in Window, NEW k \in Click(w), Evaluate(w, k),
         UNCHANGED <<clicks, library, failed>>
  PROVE  LoaderInv'
  <1>1. LoaderTypes /\ Waiting /\ Idle \in State(w)
    BY IdleIsState DEF LoaderInv
  <1>2. PICK script \in IF scripts[w] = {} THEN {0} ELSE scripts[w] :
           \/ /\ dialogs[w] > 0 /\ Over(w, k) /\ UNCHANGED <<scripts, dialogs, shown>>
           \/ /\ dialogs[w] = 0
              /\ load' = [load EXCEPT ![w][k] =
                             [at |-> IF library[w] = "none" THEN "jquery" ELSE "ui",
                              script |-> script]]
              /\ UNCHANGED <<scripts, dialogs, shown>>
           \/ dialogs[w] = 0 /\ Over(w, k) /\ main(w, script)
    BY DEF Evaluate
  <1>3. script \in 0..MaxClicks[w]
    BY <1>1, <1>2, IdleIsState DEF LoaderTypes, Click
  <1>4. CASE dialogs[w] > 0 /\ Over(w, k) /\ UNCHANGED <<scripts, dialogs, shown>>
    <2>1. load' = [load EXCEPT ![w][k] = Idle] /\ dialogs[w] # 0
      BY <1>1, <1>4 DEF Over, LoaderTypes
    <2> QED
      BY <1>1, <1>4, <2>1, ElsewhereInv, StepInv DEF LoaderTypes
  <1>5. CASE /\ dialogs[w] = 0
             /\ load' = [load EXCEPT ![w][k] =
                            [at |-> IF library[w] = "none" THEN "jquery" ELSE "ui",
                             script |-> script]]
             /\ UNCHANGED <<scripts, dialogs, shown>>
    <2>1. PICK s \in State(w) : s.at \in {"jquery", "ui"} /\ load' = [load EXCEPT ![w][k] = s]
      <3>1. [at |-> IF library[w] = "none" THEN "jquery" ELSE "ui", script |-> script]
               \in State(w)
        BY <1>3 DEF State
      <3> QED
        BY <1>5, <3>1
    <2>2. "library" \notin failed[w] =>
             \A j \in scripts[w] : load'[w][j].at \in {"script", "jquery", "ui"}
      BY <1>1, <1>5, <2>1, LoadUpdate DEF Waiting, LoaderTypes
    <2> QED
      BY <1>1, <1>5, <2>1, <2>2, ElsewhereInv, StepInv DEF LoaderTypes
  <1>6. CASE dialogs[w] = 0 /\ Over(w, k) /\ main(w, script)
    <2>1. load' = [load EXCEPT ![w][k] = Idle]
      BY <1>6 DEF Over
    <2> QED
      BY <1>1, <1>6, <2>1, MainInv, StepInv DEF LoaderTypes
  <1> QED
    BY <1>2, <1>4, <1>5, <1>6

LEMMA UiInv ==
  ASSUME LoaderInv, NEW w \in Window, NEW k \in Click(w), UiLoaded(w, k)
  PROVE  LoaderInv'
  <1>1. Idle \in State(w) /\ load' = [load EXCEPT ![w][k] = Idle]
    BY IdleIsState DEF UiLoaded, Over
  <1>2. library' \in [Window -> {"none", "bare", "ui"}]
    BY DEF LoaderInv, LoaderTypes, UiLoaded, Keep
  <1>3. main(w, load[w][k].script) /\ UNCHANGED <<clicks, failed>>
    BY DEF UiLoaded
  <1>4. Elsewhere(w) /\ dialogs'[w] # 0
    BY <1>2, <1>3, MainInv
  <1> QED
    BY <1>1, <1>4, StepInv

LEMMA ArriveInv ==
  ASSUME LoaderInv, NEW w \in Window, NEW k \in Click(w), Arrive(w, k)
  PROVE  LoaderInv'
  <1>1. LoaderTypes /\ Waiting /\ Idle \in State(w)
    BY IdleIsState DEF LoaderInv
  <1>2. CASE XhrLoaded(w, k) \/ ScriptLoaded(w, k)
    BY <1>2, EvaluateInv DEF XhrLoaded, ScriptLoaded
  <1>3. CASE XhrFailed(w, k)
    <2>1. Fetch(w, k, "script") /\ scripts' = [scripts EXCEPT ![w] = scripts[w] \cup {k}]
          /\ UNCHANGED <<clicks, library, dialogs, shown, failed>>
      BY <1>3 DEF XhrFailed, LoadByScriptTag
    <2>2. PICK s \in State(w) : s.at = "script" /\ load' = [load EXCEPT ![w][k] = s]
      BY <1>1, <2>1, FetchUpdate
    <2>3. dialogs[w] = 0 /\ "library" \notin failed[w] =>
             \A j \in scripts[w] \cup {k} : load'[w][j].at \in {"script", "jquery", "ui"}
      BY <1>1, <2>2, LoadUpdate DEF Waiting, LoaderTypes
    <2>4. scripts[w] \cup {k} \in SUBSET Click(w)
      BY <1>1 DEF LoaderTypes
    <2> QED
      BY <1>1, <2>1, <2>2, <2>3, <2>4, ElsewhereInv, StepInv DEF LoaderTypes
  <1>4. CASE ScriptFailed(w, k)
    <2>1. load' = [load EXCEPT ![w][k] = Idle]
          /\ scripts' = [scripts EXCEPT ![w] = scripts[w] \ {k}]
          /\ failed' = [failed EXCEPT ![w] = failed[w] \cup {"script"}]
          /\ UNCHANGED <<clicks, library, dialogs, shown>>
      BY <1>4 DEF ScriptFailed, Over
    <2>2. dialogs[w] = 0 /\ "library" \notin failed[w] \cup {"script"} =>
             \A j \in scripts[w] \ {k} : load'[w][j].at \in {"script", "jquery", "ui"}
      BY <1>1, <2>1, LoadUpdate DEF Waiting, LoaderTypes
    <2>3. /\ scripts[w] \ {k} \in SUBSET Click(w)
          /\ failed[w] \cup {"script"} \in SUBSET {"script", "library"}
      BY <1>1 DEF LoaderTypes
    <2> QED
      BY <1>1, <2>1, <2>2, <2>3, ElsewhereInv, StepInv DEF LoaderTypes
  <1>5. CASE JQueryLoaded(w, k)
    <2>1. Fetch(w, k, "ui") /\ Keep(w, "bare")
          /\ UNCHANGED <<clicks, scripts, dialogs, shown, failed>>
      BY <1>5 DEF JQueryLoaded
    <2>2. PICK s \in State(w) : s.at = "ui" /\ load' = [load EXCEPT ![w][k] = s]
      BY <1>1, <2>1, FetchUpdate
    <2>3. library' \in [Window -> {"none", "bare", "ui"}]
      BY <1>1, <2>1 DEF Keep, LoaderTypes
    <2>4. dialogs[w] = 0 /\ "library" \notin failed[w] =>
             \A j \in scripts[w] : load'[w][j].at \in {"script", "jquery", "ui"}
      BY <1>1, <2>2, LoadUpdate DEF Waiting, LoaderTypes
    <2> QED
      BY <1>1, <2>1, <2>2, <2>3, <2>4, ElsewhereInv, StepInv DEF LoaderTypes
  <1>6. CASE UiLoaded(w, k)
    BY <1>6, UiInv
  <1>7. CASE LibraryFailed(w, k)
    <2>1. load' = [load EXCEPT ![w][k] = Idle]
          /\ failed' = [failed EXCEPT ![w] = failed[w] \cup {"library"}]
          /\ UNCHANGED <<clicks, scripts, library, dialogs, shown>>
      BY <1>7 DEF LibraryFailed, Over
    <2>2. failed[w] \cup {"library"} \in SUBSET {"script", "library"}
      BY <1>1 DEF LoaderTypes
    <2> QED
      BY <1>1, <2>1, <2>2, ElsewhereInv, StepInv DEF LoaderTypes
  <1> QED
    BY <1>2, <1>3, <1>4, <1>5, <1>6, <1>7 DEF Arrive
-----------------------------------------------------------------------------
LEMMA LoaderStepInv ==
  ASSUME LoaderInv, [Next]_vars
  PROVE  LoaderInv'
  <1>1. CASE UNCHANGED loaderVars
    BY <1>1 DEF loaderVars, LoaderInv, LoaderTypes, OneDialog, Waiting, Click, State
  <1>2. ASSUME NEW w \in Window, LoaderStep(w) PROVE LoaderInv'
    BY <1>2, ClickInv, ArriveInv DEF LoaderStep
  <1> QED
    BY <1>1, <1>2 DEF Next, Load, vars

LEMMA LoaderInvariant == Spec => []LoaderInv
  <1>1. Init => LoaderInv
    BY LoaderInitInv DEF Init
  <1>2. LoaderInv /\ [Next]_vars => LoaderInv'
    BY LoaderStepInv
  <1> QED
    BY <1>1, <1>2, PTL DEF Spec

\* Whatever clicks, scripts and libraries cross, a page gets one dialog.
THEOREM OneDialogAlways == Spec => []OneDialog
  <1>1. LoaderInv => OneDialog
    BY DEF LoaderInv
  <1> QED
    BY <1>1, LoaderInvariant, PTL

\* The loader says that it is loading only while it is, until a library fails.
THEOREM LoadingTruthful == Spec => []LoadingIsLoading
  <1>1. LoaderInv => LoadingIsLoading
    BY DEF LoaderInv, LoaderTypes, Waiting, LoadingIsLoading
  <1> QED
    BY <1>1, LoaderInvariant, PTL

(* Safety half of Appears: while nothing has failed, a window that was clicked has a
   dialog or a file on its way to one.  What cannot happen is that all crossing loads
   end and leave the page without a dialog. *)
StillLoading ==
    \A w \in Window : clicks[w] > 0 /\ dialogs[w] = 0 /\ failed[w] = {} =>
        \E k \in Click(w) : load[w][k].at # "none"

\* The window w gets a dialog, a failure or a file on its way; the others are as they were.
LEMMA OnItsWay ==
  ASSUME StillLoading, NEW w \in Window, NEW k \in Click(w),
         \/ dialogs'[w] # 0
         \/ failed'[w] # {}
         \/ load'[w][k].at # "none",
         \A v \in Window \ {w} : /\ clicks'[v] = clicks[v] /\ dialogs'[v] = dialogs[v]
                                 /\ failed'[v] = failed[v] /\ load'[v] = load[v]
  PROVE  StillLoading'
  BY DEF StillLoading, Click

LEMMA ClickStillLoading ==
  ASSUME LoaderInv, StillLoading, NEW w \in Window, ClickBookmark(w)
  PROVE  StillLoading'
  <1>1. LoaderTypes /\ Waiting
    BY DEF LoaderInv
  <1>2. clicks[w] \in Nat /\ MaxClicks[w] \in Nat /\ clicks[w] < MaxClicks[w]
    BY <1>1, ClicksAssumption DEF LoaderTypes, ClickBookmark
  <1>3. clicks[w] + 1 \in Click(w)
    BY <1>2 DEF Click
  <1>4. /\ \A v \in Window \ {w} : clicks'[v] = clicks[v]
        /\ UNCHANGED <<dialogs, failed>>
    BY <1>1 DEF ClickBookmark, LoaderTypes
  <1>5. CASE Toggle(w)
    <2>1. dialogs'[w] # 0 /\ UNCHANGED load
      BY <1>1, <1>4, <1>5 DEF Toggle, LoaderTypes
    <2> QED
      BY <1>3, <1>4, <2>1, OnItsWay
  <1>6. CASE AlreadyLoading(w)
    <2>1. scripts[w] # {} /\ scripts[w] \subseteq Click(w) /\ dialogs[w] = 0 /\ UNCHANGED load
      BY <1>1, <1>6 DEF AlreadyLoading, LoaderTypes
    <2>2. PICK j \in Click(w) : failed[w] # {} \/ load[w][j].at # "none"
      BY <1>1, <2>1 DEF Waiting
    <2> QED
      BY <1>4, <2>1, <2>2, OnItsWay
  <1>7. CASE StartLoading(w)
    <2> DEFINE k == clicks[w] + 1
    <2>1. PICK file \in {"xhr", "script"} : Fetch(w, k, file)
      BY <1>7 DEF StartLoading, LoadByScriptTag
    <2>2. k \in Click(w) /\ file \in {"none", "xhr", "script", "jquery", "ui"}
      BY <1>3
    <2> HIDE DEF k
    <2>3. PICK s \in State(w) : s.at = file /\ load' = [load EXCEPT ![w][k] = s]
      BY <1>1, <2>1, <2>2, FetchUpdate
    <2>4. load'[w][k].at # "none" /\ \A v \in Window \ {w} : load'[v] = load[v]
      BY <1>1, <2>2, <2>3, LoadUpdate
    <2> QED
      BY <1>4, <2>2, <2>4, OnItsWay
  <1> QED
    BY <1>5, <1>6, <1>7 DEF ClickBookmark

\* What arrives is evaluated to a dialog or to the next file, unless it fails.
LEMMA ArriveStillLoading ==
  ASSUME LoaderInv, StillLoading, NEW w \in Window, NEW k \in Click(w), Arrive(w, k)
  PROVE  StillLoading'
  <1>1. LoaderTypes /\ OneDialog /\ Idle \in State(w)
    BY IdleIsState DEF LoaderInv
  <1>2. ASSUME NEW script, main(w, script)
        PROVE  dialogs'[w] # 0 /\ \A v \in Window \ {w} : dialogs'[v] = dialogs[v]
    BY <1>1, <1>2 DEF main, LoaderTypes
  <1>3. PICK s \in State(w) : /\ load' = [load EXCEPT ![w][k] = s]
                              /\ dialogs'[w] # 0 \/ failed'[w] # {} \/ s.at # "none"
                              /\ \A v \in Window \ {w} : dialogs'[v] = dialogs[v]
                              /\ \A v \in Window \ {w} : failed'[v] = failed[v]
    <2>1. CASE XhrLoaded(w, k) \/ ScriptLoaded(w, k)
      <3>1. Evaluate(w, k) /\ UNCHANGED failed
        BY <2>1 DEF XhrLoaded, ScriptLoaded
      <3>2. PICK script \in IF scripts[w] = {} THEN {0} ELSE scripts[w] :
               \/ dialogs[w] > 0 /\ Over(w, k) /\ UNCHANGED dialogs
               \/ /\ load' = [load EXCEPT ![w][k] =
                                 [at |-> IF library[w] = "none" THEN "jquery" ELSE "ui",
                                  script |-> script]]
                  /\ UNCHANGED dialogs
               \/ Over(w, k) /\ main(w, script)
        BY <3>1 DEF Evaluate
      <3>3. script \in 0..MaxClicks[w]
        BY <1>1, <3>2, IdleIsState DEF LoaderTypes, Click
      <3>4. CASE dialogs[w] > 0 /\ Over(w, k) /\ UNCHANGED dialogs
        <4>1. load' = [load EXCEPT ![w][k] = Idle] /\ dialogs'[w] # 0
          BY <1>1, <3>4 DEF Over, LoaderTypes
        <4> QED
          BY <1>1, <3>1, <3>4, <4>1
      <3>5. CASE Over(w, k) /\ main(w, script)
        BY <1>1, <1>2, <3>1, <3>5 DEF Over
      <3>6. CASE /\ load' = [load EXCEPT ![w][k] =
                                [at |-> IF library[w] = "none" THEN "jquery" ELSE "ui",
                                 script |-> script]]
                 /\ UNCHANGED dialogs
        <4>1. [at |-> IF library[w] = "none" THEN "jquery" ELSE "ui", script |-> script]
                 \in State(w)
          BY <3>3 DEF State
        <4> QED
          BY <3>1, <3>6, <4>1
      <3> QED
        BY <3>2, <3>4, <3>5, <3>6
    <2>2. CASE XhrFailed(w, k)
      BY <1>1, <2>2, FetchUpdate DEF XhrFailed, LoadByScriptTag
    <2>3. CASE JQueryLoaded(w, k)
      BY <1>1, <2>3, FetchUpdate DEF JQueryLoaded
    <2>4. CASE UiLoaded(w, k)
      BY <1>1, <1>2, <2>4 DEF UiLoaded, Over
    <2>5. CASE ScriptFailed(w, k) \/ LibraryFailed(w, k)
      <3>1. PICK kind \in {"script", "library"} :
               failed' = [failed EXCEPT ![w] = failed[w] \cup {kind}]
        BY <2>5 DEF ScriptFailed, LibraryFailed
      <3>2. failed'[w] # {} /\ \A v \in Window \ {w} : failed'[v] = failed[v]
        BY <1>1, <3>1 DEF LoaderTypes
      <3> QED
        BY <1>1, <2>5, <3>2 DEF ScriptFailed, LibraryFailed, Over
    <2> QED
      BY <2>1, <2>2, <2>3, <2>4, <2>5 DEF Arrive
  <1>4. load'[w][k] = s /\ \A v \in Window \ {w} : load'[v] = load[v]
    BY <1>1, <1>3, LoadUpdate
  <1>5. UNCHANGED clicks
    BY DEF Arrive, XhrLoaded, XhrFailed, ScriptLoaded, ScriptFailed, JQueryLoaded, UiLoaded,
           LibraryFailed
  <1> QED
    BY <1>3, <1>4, <1>5, OnItsWay

\* Whichever clicks and files cross, a click is not forgotten: the window has its dialog or
\* something is still on its way, until a file fails to load.
THEOREM StillLoadingAlways == Spec => []StillLoading
  <1>1. Init => LoaderInv /\ StillLoading
    <2>1. LoaderInit => StillLoading
      BY DEF LoaderInit, StillLoading
    <2> QED
      BY <2>1, LoaderInitInv DEF Init
  <1>2. LoaderInv /\ StillLoading /\ [Next]_vars => LoaderInv' /\ StillLoading'
    <2> SUFFICES ASSUME LoaderInv, StillLoading, [Next]_vars PROVE StillLoading'
      BY LoaderStepInv
    <2>1. CASE UNCHANGED loaderVars
      BY <2>1 DEF loaderVars, StillLoading, Click
    <2>2. ASSUME NEW w \in Window, LoaderStep(w) PROVE StillLoading'
      BY <2>2, ClickStillLoading, ArriveStillLoading DEF LoaderStep
    <2> QED
      BY <2>1, <2>2 DEF Next, Load, vars
  <1> QED
    BY <1>1, <1>2, PTL DEF Spec
-----------------------------------------------------------------------------
(* The marks *)

Hints == {"hint", "none", "own"}
SavedRow == [marks : Seq(Mark), blank : SUBSET Mark, tags : Hints, exists : {TRUE}]
Row == SavedRow \cup {NoRow}
Reply == [row : Row, version : 0..saves, served : BOOLEAN]

MarksTypes ==
    /\ saves \in 0..MaxSaves /\ edits \in 0..MaxEdits /\ version \in 0..saves
    /\ table \in [Window -> Seq(Mark)]
    /\ tags \in [Window -> Hints]
    /\ hinted \in [Window -> BOOLEAN]
    /\ views \subseteq [win : Window, dialog : Nat, reply : Reply]
    /\ posts \subseteq [win : Window, no : 1..saves, row : SavedRow]
    /\ stored \in Row
    /\ base \in [Window -> (0..saves) \cup {Unseen}]
    /\ deleted \subseteq Mark
    /\ armed \in [Window -> SUBSET Mark] /\ blank \in [Window -> SUBSET Mark]
    /\ emptied \subseteq Mark
    /\ careless \subseteq {"blind", "stale", "crossed"}

\* A window asks once.  Who never saves blindly has got the answer before.
Asked ==
    /\ \A w \in Window : tags[w] = "own" => ~hinted[w]
    /\ \A q \in views : dialogs[q.win] = 1
    /\ \A q, r \in views : q.win = r.win => q = r
    /\ \A w \in Window : base[w] # Unseen => dialogs[w] = 1
    /\ \A p \in posts : dialogs[p.win] = 1
    /\ "blind" \notin careless => \A q \in views : base[q.win] = Unseen
    /\ "blind" \notin careless => \A p \in posts : base[p.win] # Unseen

\* A window shows all that a row says, apart from what the user has deleted and
\* what cannot be read.
Shows(w, row) ==
    /\ ToSet(row.marks) \ (deleted \cup Unreadable) \subseteq ToSet(table[w])
    /\ row.tags = "own" => tags[w] = "own"

\* What a save is to keep of the stored row.
Carries(row) ==
    /\ ToSet(stored.marks) \ (deleted \cup Unreadable) \subseteq ToSet(row.marks)
    /\ stored.tags = "own" => row.tags = "own"

\* While the user takes care, what is shown or about to be stored includes what
\* is stored, and an unanswered save has a number that nobody has seen.
Kept ==
    careless = {} =>
        /\ \A w \in Window : base[w] = version => Shows(w, stored)
        /\ \A p \in posts :
              /\ posts = {p} /\ Carries(p.row) /\ Shows(p.win, p.row)
              /\ p.no # version
              /\ \A w \in Window : base[w] # p.no
              /\ \A q \in views : q.reply.served => q.reply.version # p.no
        /\ \A q \in views : q.reply.served /\ q.reply.version = version => q.reply.row = stored

MarksInv == LoaderInv /\ MarksTypes /\ Asked /\ Kept
-----------------------------------------------------------------------------
(* Sequences *)

LEMMA AppendSet ==
  ASSUME NEW S, NEW s \in Seq(S), NEW m \in S
  PROVE  Append(s, m) \in Seq(S) /\ ToSet(s) \subseteq ToSet(Append(s, m))
  BY DEF ToSet

LEMMA ConcatSet ==
  ASSUME NEW S, NEW s \in Seq(S), NEW t \in Seq(S)
  PROVE  /\ s \o t \in Seq(S)
         /\ ToSet(s) \subseteq ToSet(s \o t) /\ ToSet(t) \subseteq ToSet(s \o t)
  <1>1. s \o t \in Seq(S) /\ Len(s \o t) = Len(s) + Len(t)
    OBVIOUS
  <1>2. \A i \in DOMAIN s : i \in DOMAIN (s \o t) /\ (s \o t)[i] = s[i]
    OBVIOUS
  <1>3. \A i \in DOMAIN t : Len(s) + i \in DOMAIN (s \o t) /\ (s \o t)[Len(s) + i] = t[i]
    OBVIOUS
  <1> QED
    BY <1>1, <1>2, <1>3 DEF ToSet

LEMMA RemoveSet ==
  ASSUME NEW S, NEW s \in Seq(S), NEW i \in DOMAIN s
  PROVE  /\ RemoveAt(s, i) \in Seq(S) /\ s[i] \in S
         /\ ToSet(s) \ {s[i]} \subseteq ToSet(RemoveAt(s, i))
  <1> DEFINE before == SubSeq(s, 1, i - 1)
             after == SubSeq(s, i + 1, Len(s))
  <1>1. i \in 1..Len(s) /\ Len(s) \in Nat
    OBVIOUS
  <1>2. before \in Seq(S) /\ Len(before) = i - 1 /\ \A j \in 1..(i - 1) : before[j] = s[j]
    BY <1>1
  <1>3. /\ after \in Seq(S) /\ Len(after) = Len(s) - i
        /\ \A j \in (i + 1)..Len(s) : j - i \in 1..(Len(s) - i) /\ after[j - i] = s[j]
    BY <1>1
  <1> HIDE DEF before, after
  <1>4. \A j \in DOMAIN s \ {i} : s[j] \in ToSet(before) \cup ToSet(after)
    <2> TAKE j \in DOMAIN s \ {i}
    <2>1. CASE j \in 1..(i - 1)
      <3>1. j \in DOMAIN before /\ before[j] = s[j]
        BY <1>1, <1>2, <2>1
      <3> QED
        BY <3>1 DEF ToSet
    <2>2. CASE j \in (i + 1)..Len(s)
      <3>1. j - i \in DOMAIN after /\ after[j - i] = s[j]
        BY <1>1, <1>3, <2>2
      <3> QED
        BY <3>1 DEF ToSet
    <2> QED
      BY <1>1, <2>1, <2>2
  <1>5. ToSet(s) \ {s[i]} \subseteq ToSet(before) \cup ToSet(after)
    BY <1>4 DEF ToSet
  <1>6. RemoveAt(s, i) = before \o after
    BY DEF RemoveAt, before, after
  <1> QED
    BY <1>1, <1>2, <1>3, <1>5, <1>6, ConcatSet

LEMMA DragSet ==
  ASSUME NEW S, NEW s \in Seq(S), NEW i \in DOMAIN s
  PROVE  /\ <<s[i]>> \o RemoveAt(s, i) \in Seq(S)
         /\ ToSet(s) \subseteq ToSet(<<s[i]>> \o RemoveAt(s, i))
  <1>1. <<s[i]>> \in Seq(S) /\ ToSet(<<s[i]>>) = {s[i]}
    BY DEF ToSet
  <1> QED
    BY <1>1, RemoveSet, ConcatSet
LEMMA SetOfMarks ==
  ASSUME NEW s \in Seq(Mark)
  PROVE  ToSet(s) \subseteq Mark
  BY DEF ToSet

\* What restore_marks appends: the readable marks, each as often as before.
LEMMA MatchedRows ==
  ASSUME NEW s \in Seq(Mark), NEW rows \in Matched(s)
  PROVE  /\ rows \in Seq(Mark)
         /\ ToSet(rows) = ToSet(s) \ Unreadable
         /\ IsInjective(s) => IsInjective(rows)
  <1> PICK at : at = {i \in DOMAIN s : s[i] \notin Unreadable}
    OBVIOUS
  <1> PICK n : n = Cardinality(at)
    OBVIOUS
  <1>1. PICK f \in [1..n -> at] :
           /\ \A i, j \in DOMAIN f : i < j => f[i] < f[j]
           /\ at \subseteq ToSet(f)
           /\ rows = [j \in DOMAIN f |-> s[f[j]]]
    BY DEF Matched
  <1>2. n \in Nat
    <2>1. DOMAIN s = 1..Len(s) /\ Len(s) \in Nat
      OBVIOUS
    <2>2. IsFiniteSet(DOMAIN s) /\ at \in SUBSET DOMAIN s
      BY <2>1, FS_Interval
    <2> QED
      BY <2>2, FS_Subset, FS_CardinalityType
  <1>3. \A j \in 1..n : f[j] \in DOMAIN s /\ s[f[j]] \in Mark /\ s[f[j]] \notin Unreadable
    OBVIOUS
  <1>4. DOMAIN rows = 1..n /\ \A j \in 1..n : rows[j] = s[f[j]]
    BY <1>1
  <1>5. rows \in Seq(Mark)
    BY <1>1, <1>2, <1>3, <1>4
  <1>6. \A i, j \in 1..n : f[i] = f[j] => i = j
    <2> SUFFICES ASSUME NEW i \in 1..n, NEW j \in 1..n, f[i] = f[j] PROVE i = j
      OBVIOUS
    <2>1. f[i] \in Int /\ f[j] \in Int /\ ~(f[i] < f[j]) /\ ~(f[j] < f[i])
      BY <1>3
    <2>2. ~(i < j) /\ ~(j < i)
      BY <1>1, <2>1
    <2> QED
      BY <1>2, <2>2
  <1>7. ToSet(rows) = ToSet(s) \ Unreadable
    <2>1. ToSet(rows) \subseteq ToSet(s) \ Unreadable
      BY <1>3, <1>4 DEF ToSet
    <2>2. ASSUME NEW i \in DOMAIN s, s[i] \notin Unreadable PROVE s[i] \in ToSet(rows)
      <3>1. i \in ToSet(f)
        BY <1>1, <2>2
      <3>2. PICK j \in 1..n : f[j] = i
        BY <1>1, <3>1 DEF ToSet
      <3> QED
        BY <1>4, <3>2 DEF ToSet
    <2> QED
      BY <2>1, <2>2 DEF ToSet
  <1>8. IsInjective(s) => IsInjective(rows)
    BY <1>3, <1>4, <1>6 DEF IsInjective
  <1> QED
    BY <1>5, <1>7, <1>8
-----------------------------------------------------------------------------
LEMMA MarksInitInv == Init => MarksInv
  <1> SUFFICES ASSUME Init PROVE MarksInv
    OBVIOUS
  <1>1. LoaderInv
    BY LoaderInitInv DEF Init
  <1>2. <<>> \in Seq(Mark) /\ \A m \in Mark : <<m>> \in Seq(Mark)
    OBVIOUS
  <1>3. stored \in Row
    <2>1. \A m \in Mark : RowOf(<<m>>, {}, "own") \in SavedRow
      BY <1>2 DEF SavedRow, Hints, RowOf
    <2> QED
      BY <2>1 DEF Init, Row
  <1>4. MarksTypes
    <2>1. saves \in 0..MaxSaves /\ edits \in 0..MaxEdits /\ version \in 0..saves
      BY BoundsAssumption DEF Init
    <2>2. /\ table \in [Window -> Seq(Mark)] /\ tags \in [Window -> Hints]
          /\ hinted \in [Window -> BOOLEAN]
          /\ base \in [Window -> (0..saves) \cup {Unseen}]
      BY <1>2 DEF Init, Hints
    <2> QED
      BY <1>3, <2>1, <2>2 DEF Init, MarksTypes
  <1>5. \A w \in Window : base[w] = Unseen /\ Unseen # version
    <2>1. Unseen # 0
      BY BoundsAssumption DEF Unseen
    <2> QED
      BY <2>1 DEF Init
  <1>6. Asked /\ Kept
    BY <1>5 DEF Init, Asked, Kept
  <1> QED
    BY <1>1, <1>4, <1>6 DEF MarksInv

LEMMA LoaderSame ==
  ASSUME LoaderInv, UNCHANGED loaderVars
  PROVE  LoaderInv' /\ dialogs' = dialogs
  BY DEF loaderVars, LoaderInv, LoaderTypes, OneDialog, Waiting, Click, State

\* What a window shows goes on being shown while its table loses deleted marks only.
LEMMA ShowsStill ==
  ASSUME NEW w \in Window, NEW row, Shows(w, row), deleted \subseteq deleted',
         ToSet(table[w]) \ deleted' \subseteq ToSet(table'[w]),
         tags[w] = "own" => tags'[w] = "own"
  PROVE  /\ ToSet(row.marks) \ (deleted' \cup Unreadable) \subseteq ToSet(table'[w])
         /\ row.tags = "own" => tags'[w] = "own"
  BY DEF Shows

\* The user edits a table or an input.
LEMMA EditInv ==
  ASSUME MarksInv, UNCHANGED loaderVars,
         UNCHANGED <<views, posts, stored, saves, version, base, careless>>,
         table' \in [Window -> Seq(Mark)], tags' \in [Window -> Hints],
         hinted' \in [Window -> BOOLEAN], edits' \in 0..MaxEdits,
         deleted' \subseteq Mark, deleted \subseteq deleted', emptied' \subseteq Mark,
         armed' \in [Window -> SUBSET Mark], blank' \in [Window -> SUBSET Mark],
         \A w \in Window : ToSet(table[w]) \ deleted' \subseteq ToSet(table'[w]),
         \A w \in Window : tags[w] = "own" => tags'[w] = "own",
         \A w \in Window : tags'[w] = "own" => ~hinted'[w]
  PROVE  MarksInv'
  <1>1. LoaderInv' /\ dialogs' = dialogs
    BY LoaderSame DEF MarksInv
  <1>2. MarksTypes'
    BY DEF MarksInv, MarksTypes, Row, SavedRow, Reply, Unseen, Hints
  <1>3. Asked'
    BY <1>1 DEF MarksInv, Asked, Unseen
  <1>4. \A w \in Window : \A row : Shows(w, row) =>
           /\ ToSet(row.marks) \ (deleted' \cup Unreadable) \subseteq ToSet(table'[w])
           /\ row.tags = "own" => tags'[w] = "own"
    BY ShowsStill
  <1>5. Kept'
    <2> SUFFICES ASSUME careless = {} PROVE Kept'
      BY DEF Kept
    <2>1. /\ \A w \in Window : base[w] = version => Shows(w, stored)
          /\ \A p \in posts : p.win \in Window /\ Shows(p.win, p.row) /\ Carries(p.row)
      BY DEF MarksInv, Kept, MarksTypes
    <2>2. \A w \in Window : base'[w] = version' => Shows(w, stored)'
      BY <1>4, <2>1 DEF Shows
    <2>3. \A p \in posts' : Shows(p.win, p.row)' /\ Carries(p.row)'
      BY <1>4, <2>1 DEF Shows, Carries
    <2> QED
      BY <2>2, <2>3 DEF MarksInv, Kept
  <1> QED
    BY <1>1, <1>2, <1>3, <1>5 DEF MarksInv

LEMMA UseInv ==
  ASSUME MarksInv, UNCHANGED loaderVars, NEW w \in Window,
         on_mark(w) \/ DeleteRow(w) \/ DragRow(w) \/ FocusRow(w) \/ TypeRow(w)
         \/ FocusTags(w) \/ TypeTags(w)
  PROVE  MarksInv'
  <1>1. MarksTypes /\ Asked
    BY DEF MarksInv
  <1>2. table[w] \in Seq(Mark) /\ edits \in 0..MaxEdits
    BY <1>1 DEF MarksTypes
  <1>3. CASE on_mark(w)
    <2>1. PICK m \in Mark : table' = [table EXCEPT ![w] = Append(table[w], m)]
      BY <1>3 DEF on_mark
    <2>2. /\ Append(table[w], m) \in Seq(Mark)
          /\ ToSet(table[w]) \subseteq ToSet(Append(table[w], m))
      BY <1>2, AppendSet
    <2>3. /\ table' \in [Window -> Seq(Mark)]
          /\ \A v \in Window : ToSet(table[v]) \subseteq ToSet(table'[v])
      BY <1>1, <2>1, <2>2 DEF MarksTypes
    <2>4. armed' \in [Window -> SUBSET Mark]
      <3>1. ToSet(Append(table[w], m)) \subseteq Mark
        BY <2>2, SetOfMarks
      <3>2. table'[w] = Append(table[w], m)
        BY <1>1, <2>1 DEF MarksTypes
      <3> QED
        BY <1>1, <1>3, <3>1, <3>2 DEF on_mark, MarksTypes
    <2> QED
      BY <1>1, <1>3, <2>3, <2>4, EditInv DEF on_mark, MarksTypes, Asked
  <1>4. CASE DeleteRow(w)
    <2>1. PICK i \in DOMAIN table[w] :
             /\ table' = [table EXCEPT ![w] = RemoveAt(table[w], i)]
             /\ deleted' = deleted \cup {table[w][i]}
      BY <1>4 DEF DeleteRow
    <2>2. /\ RemoveAt(table[w], i) \in Seq(Mark) /\ table[w][i] \in Mark
          /\ ToSet(table[w]) \ {table[w][i]} \subseteq ToSet(RemoveAt(table[w], i))
      BY <1>2, RemoveSet
    <2>3. /\ table' \in [Window -> Seq(Mark)]
          /\ \A v \in Window : ToSet(table[v]) \ deleted' \subseteq ToSet(table'[v])
      BY <1>1, <2>1, <2>2 DEF MarksTypes
    <2>4. edits' \in 0..MaxEdits
      BY <1>2, <1>4, BoundsAssumption DEF DeleteRow
    <2>5. deleted' \subseteq Mark /\ deleted \subseteq deleted'
      BY <1>1, <2>1, <2>2 DEF MarksTypes
    <2>6. armed' \in [Window -> SUBSET Mark] /\ blank' \in [Window -> SUBSET Mark]
      BY <1>1, <1>4 DEF DeleteRow, MarksTypes
    <2> QED
      BY <1>1, <1>4, <2>3, <2>4, <2>5, <2>6, EditInv DEF DeleteRow, MarksTypes, Asked
  <1>5. CASE DragRow(w)
    <2>1. PICK i \in DOMAIN table[w] :
             table' = [table EXCEPT ![w] = <<table[w][i]>> \o RemoveAt(table[w], i)]
      BY <1>5 DEF DragRow
    <2>2. /\ <<table[w][i]>> \o RemoveAt(table[w], i) \in Seq(Mark)
          /\ ToSet(table[w]) \subseteq ToSet(<<table[w][i]>> \o RemoveAt(table[w], i))
      BY <1>2, DragSet
    <2>3. /\ table' \in [Window -> Seq(Mark)]
          /\ \A v \in Window : ToSet(table[v]) \subseteq ToSet(table'[v])
      BY <1>1, <2>1, <2>2 DEF MarksTypes
    <2>4. edits' \in 0..MaxEdits
      BY <1>2, <1>5, BoundsAssumption DEF DragRow
    <2> QED
      BY <1>1, <1>5, <2>3, <2>4, EditInv DEF DragRow, MarksTypes, Asked, textVars
  <1>6. CASE FocusTags(w) \/ TypeTags(w)
    <2>1. /\ tags' \in [Window -> Hints] /\ hinted' \in [Window -> BOOLEAN]
          /\ \A v \in Window : tags[v] = "own" => tags'[v] = "own"
          /\ \A v \in Window : tags'[v] = "own" => ~hinted'[v]
      BY <1>1, <1>6 DEF FocusTags, TypeTags, MarksTypes, Asked, Hints
    <2> QED
      BY <1>1, <1>6, <2>1, EditInv DEF FocusTags, TypeTags, MarksTypes, textVars
  <1>7. CASE FocusRow(w) \/ TypeRow(w)
    <2>1. /\ armed' \in [Window -> SUBSET Mark] /\ blank' \in [Window -> SUBSET Mark]
          /\ emptied' \subseteq Mark
      <3>1. armed \in [Window -> SUBSET Mark] /\ blank \in [Window -> SUBSET Mark]
        BY <1>1 DEF MarksTypes
      <3>2. CASE FocusRow(w)
        <4>1. PICK m \in armed[w] :
                 /\ armed' = [armed EXCEPT ![w] = armed[w] \ {m}]
                 /\ blank' = [blank EXCEPT ![w] = blank[w] \cup {m}]
                 /\ emptied' = emptied \cup {m}
          BY <3>2 DEF FocusRow
        <4>2. m \in Mark /\ armed[w] \ {m} \subseteq Mark /\ blank[w] \cup {m} \subseteq Mark
          BY <3>1
        <4> QED
          BY <1>1, <3>1, <4>1, <4>2 DEF MarksTypes
      <3>3. CASE TypeRow(w)
        BY <1>1, <3>1, <3>3 DEF TypeRow, MarksTypes
      <3> QED
        BY <1>7, <3>2, <3>3
    <2>2. edits' \in 0..MaxEdits
      BY <1>2, <1>7, BoundsAssumption DEF FocusRow, TypeRow
    <2> QED
      BY <1>1, <1>7, <2>1, <2>2, EditInv DEF FocusRow, TypeRow, MarksTypes, Asked
  <1> QED
    BY <1>3, <1>4, <1>5, <1>6, <1>7

\* The new request holds what the dialog shows, and that includes what is stored.
LEMMA SaveInv ==
  ASSUME MarksInv, UNCHANGED loaderVars, NEW w \in Window, on_save(w)
  PROVE  MarksInv'
  <1> PICK row : row = RowOf(table[w], blank[w], tags[w])
    OBVIOUS
  <1> PICK p : p = [win |-> w, no |-> saves + 1, row |-> row]
    OBVIOUS
  <1>1. LoaderInv' /\ dialogs' = dialogs
    BY LoaderSame DEF MarksInv
  <1>2. MarksTypes /\ Asked /\ Kept
    BY DEF MarksInv
  <1>3. saves \in 0..MaxSaves /\ saves < MaxSaves /\ saves' = saves + 1 /\ MaxSaves \in Nat
    BY <1>2, BoundsAssumption DEF on_save, MarksTypes
  <1>4. posts' = posts \cup {p} /\ p.win = w /\ p.no = saves + 1 /\ p.row = row
    BY DEF on_save
  <1>5. row \in SavedRow /\ row.marks = table[w] /\ row.tags = tags[w]
    BY <1>2 DEF RowOf, SavedRow, MarksTypes
  <1>6. p \in [win : Window, no : 1..saves', row : SavedRow]
    BY <1>3, <1>5
  <1>7. MarksTypes'
    <2>1. saves' \in 0..MaxSaves /\ 0..saves \subseteq 0..saves' /\ 1..saves \subseteq 1..saves'
      BY <1>3
    <2>2. posts' \subseteq [win : Window, no : 1..saves', row : SavedRow]
      BY <1>2, <1>4, <1>6, <2>1 DEF MarksTypes
    <2>3. Reply \subseteq Reply'
      BY <2>1 DEF Reply, Row, SavedRow, Hints
    <2>4. views' \subseteq [win : Window, dialog : Nat, reply : Reply']
      BY <1>2, <2>3 DEF MarksTypes, on_save
    <2>5. base' \in [Window -> (0..saves') \cup {Unseen}]
      BY <1>2, <2>1 DEF MarksTypes, on_save
    <2>6. careless' \subseteq {"blind", "stale", "crossed"}
      BY <1>2 DEF MarksTypes, on_save
    <2> QED
      BY <1>2, <2>1, <2>2, <2>4, <2>5, <2>6
         DEF MarksTypes, on_save, Row, SavedRow, Hints, Unseen, textVars
  <1>8. /\ careless' = {} => careless = {} /\ posts = {} /\ base[w] = version
        /\ "blind" \notin careless' => "blind" \notin careless /\ base[w] # Unseen
    BY <1>2 DEF on_save, MarksTypes
  <1>9. Asked'
    <2>1. "blind" \notin careless' => \A r \in posts' : base'[r.win] # Unseen
      BY <1>2, <1>4, <1>8 DEF Asked, on_save
    <2>2. dialogs[w] = 1
      BY DEF on_save, Usable, MarksInv, LoaderInv, LoaderTypes, OneDialog
    <2>3. \A r \in posts' : dialogs[r.win] = 1
      BY <1>2, <1>4, <2>2 DEF Asked
    <2> QED
      BY <1>1, <1>2, <1>8, <2>1, <2>3 DEF Asked, on_save, Unseen
  <1>10. Kept'
    <2> SUFFICES ASSUME careless' = {} PROVE Kept'
      BY DEF Kept
    <2>1. careless = {} /\ posts' = {p} /\ base[w] = version
      BY <1>4, <1>8
    <2>2. Carries(row) /\ Shows(w, row)
      BY <1>2, <1>5, <2>1 DEF Kept, Shows, Carries
    <2>3. Carries(row)' /\ Shows(w, row)'
      BY <2>2, <1>5 DEF Carries, Shows, on_save
    <2>4. /\ p.no # version
          /\ \A v \in Window : base[v] # p.no
          /\ \A q \in views : q.reply.version # p.no
      BY <1>2, <1>3 DEF MarksTypes, Reply, Unseen
    <2>5. /\ \A v \in Window : base'[v] = version' => Shows(v, stored)'
          /\ \A q \in views' :
                q.reply.served /\ q.reply.version = version' => q.reply.row = stored'
      BY <1>2, <2>1 DEF Kept, Shows, on_save
    <2>6. /\ p.no # version'
          /\ \A v \in Window : base'[v] # p.no
          /\ \A q \in views' : q.reply.served => q.reply.version # p.no
      BY <1>4, <2>4 DEF on_save
    <2> QED
      BY <1>4, <2>1, <2>3, <2>5, <2>6 DEF Kept
  <1> QED
    BY <1>1, <1>7, <1>9, <1>10 DEF MarksInv

\* What is stored now, the window shows that has saved it, and no other has seen.
LEMMA AddInv ==
  ASSUME MarksInv, UNCHANGED loaderVars, NEW p \in posts, Add(p)
  PROVE  MarksInv' /\ (careless = {} => Carries(p.row) /\ stored' = p.row)
  <1>1. LoaderInv' /\ dialogs' = dialogs
    BY LoaderSame DEF MarksInv
  <1>2. MarksTypes /\ Asked /\ Kept
    BY DEF MarksInv
  <1>3. /\ p.win \in Window /\ p.no \in 1..saves /\ p.row \in SavedRow
        /\ saves \in 0..MaxSaves /\ MaxSaves \in Nat
    BY <1>2, BoundsAssumption DEF MarksTypes
  <1>4. /\ base'[p.win] = p.no
        /\ \A w \in Window \ {p.win} : base'[w] = base[w]
        /\ base' \in [Window -> (0..saves) \cup {Unseen}]
        /\ p.no # Unseen
    BY <1>2, <1>3 DEF Add, MarksTypes, Unseen
  <1>5. MarksTypes'
    <2>1. stored' \in Row /\ version' \in 0..saves
      BY <1>3 DEF Add, Row
    <2> QED
      BY <1>2, <1>4, <2>1 DEF textVars, MarksTypes, Add, Row, SavedRow, Reply, Hints, Unseen
  <1>6. Asked'
    <2>1. \A w \in Window : base'[w] # Unseen => dialogs[w] = 1
      BY <1>2, <1>4 DEF Asked
    <2>2. "blind" \notin careless => \A q \in views : base'[q.win] = Unseen
      BY <1>2, <1>4 DEF Asked, MarksTypes
    <2>3. "blind" \notin careless => \A r \in posts : base'[r.win] # Unseen
      BY <1>2, <1>4 DEF Asked, MarksTypes
    <2> QED
      BY <1>1, <1>2, <2>1, <2>2, <2>3 DEF Asked, Add, Unseen
  <1>7. Kept'
    <2> SUFFICES ASSUME careless = {} PROVE Kept'
      BY DEF Kept, Add
    <2>1. /\ posts = {p} /\ Carries(p.row) /\ Shows(p.win, p.row)
          /\ \A w \in Window : base[w] # p.no
          /\ \A q \in views : q.reply.served => q.reply.version # p.no
      BY <1>2 DEF Kept
    <2>2. /\ posts' = {} /\ version' = p.no /\ stored' = p.row
          /\ UNCHANGED <<views, table, tags, deleted>>
      BY <2>1 DEF Add
    <2>3. \A w \in Window : base'[w] = version' => w = p.win
      BY <1>4, <2>1, <2>2
    <2> QED
      BY <2>1, <2>2, <2>3 DEF Kept, Shows
  <1>8. careless = {} => Carries(p.row) /\ stored' = p.row
    BY <1>2 DEF Kept, Add
  <1> QED
    BY <1>1, <1>5, <1>6, <1>7, <1>8 DEF MarksInv

\* A request is lost, or fails.
LEMMA LostInv ==
  ASSUME MarksInv, UNCHANGED loaderVars,
         UNCHANGED <<table, textVars, tags, hinted, stored, saves, edits, version, base>>,
         UNCHANGED <<deleted, careless>>,
         posts' \subseteq posts, views' \subseteq views
  PROVE  MarksInv'
  <1>1. LoaderInv' /\ dialogs' = dialogs
    BY LoaderSame DEF MarksInv
  <1>2. MarksTypes'
    BY DEF MarksInv, MarksTypes, Row, SavedRow, Reply, Unseen, Hints, textVars
  <1>3. Asked'
    BY <1>1 DEF MarksInv, Asked, Unseen
  <1>4. Kept'
    <2> SUFFICES ASSUME careless = {} PROVE Kept'
      BY DEF Kept
    <2>1. \A p \in posts' : posts' = {p} /\ Carries(p.row)' /\ Shows(p.win, p.row)'
      BY DEF MarksInv, Kept, Carries, Shows
    <2> QED
      BY <2>1 DEF MarksInv, Kept, Shows
  <1> QED
    BY <1>1, <1>2, <1>3, <1>4 DEF MarksInv

\* The answer holds the row that is stored now, under its number.
LEMMA ViewInv ==
  ASSUME MarksInv, UNCHANGED loaderVars, NEW q \in views, View(q)
  PROVE  MarksInv'
  <1> DEFINE a == [q EXCEPT !.reply = Served(stored, version)]
  <1>1. LoaderInv' /\ dialogs' = dialogs
    BY LoaderSame DEF MarksInv
  <1>2. MarksTypes /\ Asked /\ Kept
    BY DEF MarksInv
  <1>3. q \in [win : Window, dialog : Nat, reply : Reply] /\ Served(stored, version) \in Reply
    BY <1>2 DEF MarksTypes, Reply, Served
  <1>4. /\ a \in [win : Window, dialog : Nat, reply : Reply]
        /\ a.win = q.win /\ a.reply.row = stored /\ a.reply.version = version
    BY <1>3 DEF Served
  <1> HIDE DEF a
  <1>5. views' = (views \ {q}) \cup {a}
    BY DEF View, a
  <1>6. MarksTypes'
    BY <1>2, <1>4, <1>5 DEF View, MarksTypes, Row, SavedRow, Reply, Unseen, Hints, textVars
  <1>7. Asked'
    BY <1>1, <1>2, <1>4, <1>5 DEF View, Asked, Unseen
  <1>8. Kept'
    BY <1>2, <1>4, <1>5 DEF View, Kept, Carries, Shows
  <1> QED
    BY <1>1, <1>6, <1>7, <1>8 DEF MarksInv

\* restore_marks adds to the table, and replaces the tags of a window that has
\* not been saved with care yet.
LEMMA RestoreInv ==
  ASSUME MarksInv, UNCHANGED loaderVars, NEW q \in views, restore_marks(q)
  PROVE  MarksInv'
  <1> DEFINE w == q.win
             row == q.reply.row
  <1>1. LoaderInv' /\ dialogs' = dialogs
    BY LoaderSame DEF MarksInv
  <1>2. MarksTypes /\ Asked /\ Kept
    BY DEF MarksInv
  <1>3. /\ w \in Window /\ row \in Row /\ q.reply.version \in 0..saves /\ q.reply.served
        /\ row.marks \in Seq(Mark) /\ (row.exists => row.tags \in Hints)
        /\ (~row.exists => row = NoRow)
    <2>1. q \in [win : Window, dialog : Nat, reply : Reply]
      BY <1>2 DEF MarksTypes
    <2>2. <<>> \in Seq(Mark)
      OBVIOUS
    <2>3. row \in Row /\ q.reply.version \in 0..saves /\ w \in Window
      BY <2>1 DEF Reply
    <2>4. CASE row = NoRow
      BY <2>2, <2>3, <2>4 DEF NoRow, restore_marks, Answered
    <2>5. CASE row \in SavedRow
      BY <2>3, <2>5 DEF SavedRow, restore_marks, Answered
    <2> QED
      BY <2>3, <2>4, <2>5 DEF Row
  <1>4. /\ base' \in [Window -> (0..saves) \cup {Unseen}]
        /\ base'[w] = IF base[w] = Unseen THEN q.reply.version ELSE base[w]
        /\ \A v \in Window \ {w} : base'[v] = base[v]
    BY <1>2, <1>3 DEF restore_marks, Answered, MarksTypes
  <1>5. /\ table' \in [Window -> Seq(Mark)]
        /\ \A v \in Window : ToSet(table[v]) \subseteq ToSet(table'[v])
        /\ ToSet(row.marks) \ Unreadable \subseteq ToSet(table'[w])
    <2>1. table[w] \in Seq(Mark)
      BY <1>2, <1>3 DEF MarksTypes
    <2>2. CASE row.exists
      <3>1. PICK rows \in Matched(row.marks) : table' = [table EXCEPT ![w] = table[w] \o rows]
        BY <2>2 DEF restore_marks, ShowMarks
      <3>2. rows \in Seq(Mark) /\ ToSet(rows) = ToSet(row.marks) \ Unreadable
        BY <1>3, MatchedRows
      <3>3. /\ table[w] \o rows \in Seq(Mark)
            /\ ToSet(table[w]) \subseteq ToSet(table[w] \o rows)
            /\ ToSet(rows) \subseteq ToSet(table[w] \o rows)
        BY <2>1, <3>2, ConcatSet
      <3> QED
        BY <1>2, <1>3, <3>1, <3>2, <3>3 DEF MarksTypes
    <2>3. CASE ~row.exists
      <3>1. ToSet(row.marks) = {}
        BY <1>3, <2>3 DEF NoRow, ToSet
      <3> QED
        BY <1>2, <2>3, <3>1 DEF restore_marks, MarksTypes
    <2> QED
      BY <2>2, <2>3
  <1>6. /\ tags' \in [Window -> Hints] /\ hinted' \in [Window -> BOOLEAN]
        /\ \A v \in Window \ {w} : tags'[v] = tags[v] /\ hinted'[v] = hinted[v]
        /\ row.tags = "own" => tags'[w] = "own"
        /\ tags'[w] = "own" => ~hinted'[w]
    <2>1. CASE row.exists
      BY <1>2, <1>3, <2>1 DEF restore_marks, ShowTags, Unbind, MarksTypes
    <2>2. CASE ~row.exists
      BY <1>2, <1>3, <2>2 DEF restore_marks, MarksTypes, Asked, NoRow
    <2> QED
      BY <2>1, <2>2
  <1>7. /\ views' = views \ {q}
        /\ UNCHANGED <<posts, stored, saves, edits, version, deleted, careless>>
        /\ UNCHANGED <<armed, emptied>> /\ blank' \in [Window -> SUBSET Mark]
    <2>1. row.blank \subseteq Mark
      <3>1. row \in SavedRow => row.blank \subseteq Mark
        BY DEF SavedRow
      <3>2. NoRow.blank = {}
        BY DEF NoRow
      <3> QED
        BY <1>3, <3>1, <3>2 DEF Row
    <2>2. blank' = [blank EXCEPT ![w] = blank[w] \cup (row.blank \ Unreadable)]
          \/ UNCHANGED blank
      BY DEF restore_marks, ShowMarks
    <2>3. blank[w] \cup (row.blank \ Unreadable) \subseteq Mark
      BY <1>2, <1>3, <2>1 DEF MarksTypes
    <2>4. blank' \in [Window -> SUBSET Mark]
      BY <1>2, <2>2, <2>3 DEF MarksTypes
    <2> QED
      BY <2>4 DEF restore_marks, Answered
  <1> HIDE DEF w, row
  <1>8. w = q.win /\ row = q.reply.row
    BY DEF w, row
  <1>9. MarksTypes'
    BY <1>2, <1>4, <1>5, <1>6, <1>7 DEF MarksTypes, Row, SavedRow, Reply, Unseen, Hints
  <1>10. Asked'
    <2>1. \A r \in views' : r.win # w
      BY <1>2, <1>7, <1>8 DEF Asked
    <2>2. \A v \in Window : base'[v] # Unseen => dialogs[v] = 1
      BY <1>2, <1>4, <1>8 DEF Asked
    <2>3. q.reply.version # Unseen
      BY <1>2, <1>3, BoundsAssumption DEF MarksTypes, Unseen
    <2>4. "blind" \notin careless => \A p \in posts : base'[p.win] # Unseen
      BY <1>2, <1>4, <2>3 DEF Asked, MarksTypes
    <2>5. "blind" \notin careless => \A r \in views' : base'[r.win] = Unseen
      BY <1>2, <1>4, <1>7, <2>1 DEF Asked, MarksTypes
    <2>6. \A v \in Window : tags'[v] = "own" => ~hinted'[v]
      BY <1>2, <1>6 DEF Asked
    <2> QED
      BY <1>1, <1>2, <1>7, <2>2, <2>4, <2>5, <2>6 DEF Asked, Unseen
  <1>11. Kept'
    <2> SUFFICES ASSUME careless = {} PROVE Kept'
      BY <1>7 DEF Kept
    <2>1. base[w] = Unseen /\ base'[w] = q.reply.version
      BY <1>2, <1>4, <1>8 DEF Asked
    <2>2. \A p \in posts : p.win \in Window \ {w}
      BY <1>2, <2>1 DEF Asked, MarksTypes
    <2>3. \A v \in Window \ {w} : \A r : Shows(v, r) => Shows(v, r)'
      BY <1>5, <1>6, <1>7 DEF Shows
    <2>4. base'[w] = version => Shows(w, stored)'
      BY <1>2, <1>3, <1>5, <1>6, <1>7, <1>8, <2>1 DEF Kept, Shows
    <2>5. \A v \in Window : base'[v] = version' => Shows(v, stored)'
      BY <1>2, <1>4, <1>7, <2>3, <2>4 DEF Kept, Shows
    <2>6. \A p \in posts' :
             /\ posts' = {p} /\ Carries(p.row)' /\ Shows(p.win, p.row)'
             /\ p.no # version' /\ \A v \in Window : base'[v] # p.no
      BY <1>2, <1>3, <1>4, <1>7, <1>8, <2>1, <2>2, <2>3 DEF Kept, Carries, Shows
    <2> QED
      BY <1>2, <1>7, <2>5, <2>6 DEF Kept
  <1> QED
    BY <1>1, <1>9, <1>10, <1>11 DEF MarksInv

\* A step of the loader adds at most one dialog, to a window that had none.
LEMMA DialogsGrow ==
  ASSUME LoaderInv, LoaderInv', NEW w \in Window, LoaderStep(w)
  PROVE  dialogs' = dialogs \/ (dialogs[w] = 0 /\ dialogs' = [dialogs EXCEPT ![w] = 1])
  <1>1. dialogs' = dialogs \/ dialogs' = [dialogs EXCEPT ![w] = dialogs[w] + 1]
    <2>1. ASSUME NEW script, main(w, script)
          PROVE  dialogs' = dialogs \/ dialogs' = [dialogs EXCEPT ![w] = dialogs[w] + 1]
      BY <2>1 DEF main
    <2>2. ASSUME NEW k, Evaluate(w, k)
          PROVE  dialogs' = dialogs \/ \E script : main(w, script)
      BY <2>2 DEF Evaluate
    <2>3. ClickBookmark(w) => dialogs' = dialogs
      BY DEF ClickBookmark
    <2>4. ASSUME NEW k, Arrive(w, k)
          PROVE  dialogs' = dialogs \/ \E script : main(w, script)
      BY <2>2, <2>4 DEF Arrive, XhrLoaded, XhrFailed, ScriptLoaded, ScriptFailed, JQueryLoaded,
                        UiLoaded, LibraryFailed
    <2> QED
      BY <2>1, <2>3, <2>4 DEF LoaderStep
  <1>2. dialogs[w] \in Nat /\ dialogs'[w] <= 1 /\ dialogs \in [Window -> Nat]
    <2>1. LoaderTypes /\ OneDialog'
      BY DEF LoaderInv
    <2> QED
      BY <2>1 DEF LoaderTypes, OneDialog
  <1>3. CASE dialogs' = [dialogs EXCEPT ![w] = dialogs[w] + 1]
    <2>1. dialogs'[w] = dialogs[w] + 1
      BY <1>2, <1>3
    <2>2. dialogs[w] = 0
      BY <1>2, <2>1
    <2>3. dialogs[w] + 1 = 1
      BY <2>2
    <2> QED
      BY <1>3, <2>2, <2>3
  <1> QED
    BY <1>1, <1>3

LEMMA LoadInv ==
  ASSUME MarksInv, LoaderInv', NEW w \in Window, Load(w)
  PROVE  MarksInv'
  <1>1. MarksTypes /\ Asked /\ Kept /\ LoaderInv
    BY DEF MarksInv
  <1>2. dialogs \in [Window -> Nat]
    BY <1>1 DEF LoaderInv, LoaderTypes
  <1>3. UNCHANGED <<table, armed, blank, emptied, tags, hinted, posts, stored, saves, edits,
                    version, base, deleted, careless>>
    BY DEF Load, textVars
  <1>4. CASE dialogs' = dialogs
    <2>1. views' = views
      BY <1>2, <1>4 DEF Load
    <2>2. MarksTypes'
      BY <1>1, <1>3, <2>1 DEF MarksTypes, Row, SavedRow, Reply, Unseen, Hints
    <2>3. Asked'
      BY <1>1, <1>3, <1>4, <2>1 DEF Asked, Unseen
    <2>4. Kept'
      BY <1>1, <1>3, <2>1 DEF Kept, Shows, Carries
    <2> QED
      BY <2>2, <2>3, <2>4 DEF MarksInv
  <1>5. CASE dialogs[w] = 0 /\ dialogs' = [dialogs EXCEPT ![w] = 1]
    <2>1. dialogs'[w] = 1 /\ \A v \in Window \ {w} : dialogs'[v] = dialogs[v]
      BY <1>2, <1>5
    <2>2. PICK a : a = [win |-> w, dialog |-> 1, reply |-> Unserved]
      OBVIOUS
    <2>3. views' = views \cup {a} /\ a.win = w /\ ~a.reply.served
      BY <1>5, <2>1, <2>2 DEF Load, Unserved
    <2>4. a \in [win : Window, dialog : Nat, reply : Reply]
      <3>1. 0 \in 0..saves /\ NoRow \in Row
        BY <1>1, BoundsAssumption DEF MarksTypes, Row
      <3> QED
        BY <2>2, <3>1 DEF Reply, Unserved
    <2>5. MarksTypes'
      BY <1>1, <1>3, <2>3, <2>4 DEF MarksTypes, Row, SavedRow, Reply, Unseen, Hints
    <2>6. Asked'
      BY <1>1, <1>3, <1>5, <2>1, <2>3 DEF Asked, MarksTypes, Unseen
    <2>7. Kept'
      BY <1>1, <1>3, <2>3 DEF Kept, Shows, Carries
    <2> QED
      BY <2>5, <2>6, <2>7 DEF MarksInv
  <1> QED
    BY <1>1, <1>4, <1>5, DialogsGrow DEF Load
-----------------------------------------------------------------------------
LEMMA MarksStepInv ==
  ASSUME MarksInv, [Next]_vars
  PROVE  MarksInv'
  <1>1. LoaderInv'
    BY LoaderStepInv DEF MarksInv
  <1>2. CASE UNCHANGED vars
    BY <1>2, LostInv DEF vars, marksVars
  <1>3. ASSUME NEW w \in Window, Load(w) PROVE MarksInv'
    BY <1>1, <1>3, LoadInv
  <1>4. ASSUME UNCHANGED loaderVars, NEW w \in Window, Use(w) PROVE MarksInv'
    BY <1>4, UseInv, SaveInv DEF Use
  <1>5. ASSUME UNCHANGED loaderVars, NEW p \in posts, Add(p) \/ AddFails(p) PROVE MarksInv'
    <2>1. CASE Add(p)
      BY <1>5, <2>1, AddInv
    <2>2. CASE AddFails(p)
      BY <1>5, <2>2, LostInv DEF AddFails
    <2> QED
      BY <1>5, <2>1, <2>2
  <1>6. ASSUME UNCHANGED loaderVars, NEW q \in views,
               View(q) \/ ViewFails(q) \/ restore_marks(q)
        PROVE  MarksInv'
    <2>1. CASE View(q)
      BY <1>6, <2>1, ViewInv
    <2>2. CASE ViewFails(q)
      BY <1>6, <2>2, LostInv DEF ViewFails
    <2>3. CASE restore_marks(q)
      BY <1>6, <2>3, RestoreInv
    <2> QED
      BY <1>6, <2>1, <2>2, <2>3
  <1> QED
    BY <1>2, <1>3, <1>4, <1>5, <1>6 DEF Next, Serve

LEMMA MarksInvariant == Spec => []MarksInv
  <1>1. Init => MarksInv
    BY MarksInitInv
  <1>2. MarksInv /\ [Next]_vars => MarksInv'
    BY MarksStepInv
  <1> QED
    BY <1>1, <1>2, PTL DEF Spec

\* Types of the dialogs, the tables, the requests and the stored row.
THEOREM TypeCorrect == Spec => []TypeOK
  <1>1. MarksInv => TypeOK
    <2> SUFFICES ASSUME MarksInv PROVE TypeOK
      OBVIOUS
    <2>1. LoaderTypeOK
      BY DEF MarksInv, LoaderInv, LoaderTypes, LoaderTypeOK, State
    <2>2. MarksTypes /\ MaxSaves \in Nat
      BY BoundsAssumption DEF MarksInv
    <2>3. saves \in 0..MaxSaves /\ edits \in 0..MaxEdits /\ version \in 0..MaxSaves
      BY <2>2 DEF MarksTypes
    <2>4. \A q \in views : q.win \in Window /\ q.reply.version \in 0..MaxSaves
      BY <2>2 DEF MarksTypes, Reply
    <2>5. \A p \in posts : p.win \in Window /\ p.no \in 1..MaxSaves
      BY <2>2 DEF MarksTypes
    <2>6. stored.marks \in Seq(Mark) /\ (stored.exists => stored.tags \in Hints)
      <3>1. <<>> \in Seq(Mark)
        OBVIOUS
      <3>2. CASE stored = NoRow
        BY <3>1, <3>2 DEF NoRow
      <3>3. CASE stored \in SavedRow
        BY <3>3 DEF SavedRow
      <3> QED
        BY <2>2, <3>2, <3>3 DEF MarksTypes, Row
    <2>7. base \in [Window -> 0..Unseen]
      BY <2>2 DEF MarksTypes, Unseen
    <2> QED
      BY <2>1, <2>2, <2>3, <2>4, <2>5, <2>6, <2>7 DEF MarksTypes, TypeOK, Hints
  <1> QED
    BY <1>1, MarksInvariant, PTL

\* Only Mark::add changes the row that is stored.
LEMMA StoredChanges ==
  ASSUME MarksInv, [Next]_vars, careless = {}
  PROVE  UNCHANGED stored \/ Carries(stored')
  <1>1. ASSUME UNCHANGED loaderVars, NEW p \in posts, Add(p) PROVE Carries(stored')
    BY <1>1, AddInv
  <1>2. CASE UNCHANGED vars
    BY <1>2 DEF vars, marksVars
  <1>3. ASSUME NEW w \in Window, Load(w) \/ Use(w) PROVE UNCHANGED stored
    BY <1>3 DEF Load, Use, on_mark, DeleteRow, DragRow, FocusRow, TypeRow, FocusTags, TypeTags,
                on_save
  <1>4. ASSUME NEW p \in posts, AddFails(p) PROVE UNCHANGED stored
    BY <1>4 DEF AddFails
  <1>5. ASSUME NEW q \in views, View(q) \/ ViewFails(q) \/ restore_marks(q)
        PROVE  UNCHANGED stored
    BY <1>5 DEF View, ViewFails, restore_marks, Answered
  <1> QED
    BY <1>1, <1>2, <1>3, <1>4, <1>5 DEF Next, Serve

-----------------------------------------------------------------------------
(* The texts *)

\* No text is empty but those of inputs that the user has entered.
TextInv ==
    /\ \A w \in Window : blank[w] \subseteq emptied
    /\ stored.blank \subseteq emptied
    /\ \A p \in posts : p.row.blank \subseteq emptied
    /\ \A q \in views : q.reply.row.blank \subseteq emptied

\* Only Mark::add changes the row that is stored, to a posted one.
LEMMA StoredTexts ==
  ASSUME TextInv, [Next]_vars
  PROVE  stored'.blank \subseteq stored.blank \cup emptied
  BY DEF TextInv, Next, Serve, Use, Load, on_mark, DeleteRow, DragRow, FocusRow, TypeRow,
         FocusTags, TypeTags, on_save, Add, AddFails, View, ViewFails, restore_marks, Answered,
         vars, marksVars

LEMMA TextStep ==
  ASSUME MarksTypes, TextInv, [Next]_vars
  PROVE  TextInv'
  <1>1. CASE UNCHANGED vars
    BY <1>1 DEF vars, marksVars, textVars, TextInv
  <1>2. ASSUME NEW w \in Window, Load(w) PROVE TextInv'
    <2>1. Unserved.row.blank = {}
      BY DEF Unserved, NoRow
    <2>2. \A q \in views' : q \in views \/ q.reply = Unserved
      BY <1>2 DEF Load
    <2> QED
      BY <1>2, <2>1, <2>2 DEF Load, textVars, TextInv
  <1>3. ASSUME NEW w \in Window, on_mark(w) \/ DragRow(w) \/ FocusTags(w) \/ TypeTags(w)
        PROVE  TextInv'
    BY <1>3 DEF on_mark, DragRow, FocusTags, TypeTags, textVars, TextInv
  <1>4. ASSUME NEW w \in Window, DeleteRow(w) \/ FocusRow(w) \/ TypeRow(w) PROVE TextInv'
    <2>1. UNCHANGED <<stored, posts, views>> /\ emptied \subseteq emptied'
      BY <1>4 DEF DeleteRow, FocusRow, TypeRow
    <2>2. PICK t : blank' = [blank EXCEPT ![w] = t] /\ t \subseteq emptied'
      <3>1. CASE DeleteRow(w)
        <4>1. /\ blank' = [blank EXCEPT ![w] = blank[w] \cap ToSet(table'[w])]
              /\ emptied' = emptied
          BY <3>1 DEF DeleteRow
        <4>2. blank[w] \cap ToSet(table'[w]) \subseteq emptied'
          BY <4>1 DEF TextInv
        <4> QED
          BY <4>1, <4>2
      <3>2. CASE FocusRow(w)
        <4>1. PICK m \in armed[w] :
                 blank' = [blank EXCEPT ![w] = blank[w] \cup {m}] /\ emptied' = emptied \cup {m}
          BY <3>2 DEF FocusRow
        <4>2. blank[w] \cup {m} \subseteq emptied'
          BY <4>1 DEF TextInv
        <4> QED
          BY <4>1, <4>2
      <3>3. CASE TypeRow(w)
        BY <3>3 DEF TypeRow, TextInv
      <3> QED
        BY <1>4, <3>1, <3>2, <3>3
    <2>3. \A v \in Window : blank'[v] \subseteq emptied'
      BY <2>1, <2>2 DEF TextInv, MarksTypes
    <2> QED
      BY <2>1, <2>3 DEF TextInv
  <1>5. ASSUME NEW w \in Window, on_save(w) PROVE TextInv'
    <2>1. PICK p : posts' = posts \cup {p} /\ p.row.blank = blank[w]
      <3>1. PICK p : p = [win |-> w, no |-> saves + 1, row |-> RowOf(table[w], blank[w], tags[w])]
        OBVIOUS
      <3>2. p.row.blank = blank[w]
        BY <3>1 DEF RowOf
      <3> QED
        BY <1>5, <3>1, <3>2 DEF on_save
    <2> QED
      BY <1>5, <2>1 DEF on_save, textVars, TextInv
  <1>6. ASSUME NEW p \in posts, Add(p) \/ AddFails(p) PROVE TextInv'
    BY <1>6 DEF Add, AddFails, textVars, TextInv
  <1>7. ASSUME NEW q \in views, View(q) PROVE TextInv'
    <2>1. PICK a : views' = (views \ {q}) \cup {a} /\ a.reply.row = stored
      <3>1. [q EXCEPT !.reply = Served(stored, version)].reply.row = stored
        BY DEF MarksTypes, Served
      <3> QED
        BY <1>7, <3>1 DEF View
    <2> QED
      BY <1>7, <2>1 DEF View, textVars, TextInv
  <1>8. ASSUME NEW q \in views, ViewFails(q) PROVE TextInv'
    BY <1>8 DEF ViewFails, textVars, TextInv
  <1>9. ASSUME NEW q \in views, restore_marks(q) PROVE TextInv'
    <2>1. \A v \in Window : blank'[v] \subseteq blank[v] \cup q.reply.row.blank
      BY <1>9 DEF restore_marks, ShowMarks, MarksTypes
    <2> QED
      BY <1>9, <2>1 DEF restore_marks, Answered, TextInv
  <1> QED
    BY <1>1, <1>2, <1>3, <1>4, <1>5, <1>6, <1>7, <1>8, <1>9 DEF Next, Serve, Use

LEMMA TextInvariant == Spec => []TextInv
  <1>1. Init => TextInv
    BY DEF Init, TextInv, NoRow, RowOf
  <1>2. MarksInv /\ TextInv /\ [Next]_vars => TextInv'
    BY TextStep DEF MarksInv
  <1> QED
    BY <1>1, <1>2, MarksInvariant, PTL DEF Spec

\* A stored mark that restore_marks can read stays until the user deletes it, and its text
\* until he enters its input, as long as he saves with care: windows and requests may cross
\* otherwise as they like.
THEOREM NothingForgottenAlways == Spec => NothingForgotten
  <1> DEFINE Lasting == ToSet(stored.marks) \ (deleted \cup Unreadable)
             Keeps == /\ Lasting \subseteq ToSet(stored'.marks)
                      /\ Lasting \cap stored'.blank \subseteq stored.blank \cup emptied
  <1>1. MarksInv /\ [Next]_vars => (careless = {} => Lasting \subseteq ToSet(stored'.marks))
    BY StoredChanges DEF Carries
  <1>2. TextInv /\ [Next]_vars => stored'.blank \subseteq stored.blank \cup emptied
    BY StoredTexts
  <1>3. MarksInv /\ TextInv /\ [Next]_vars => [careless = {} => Keeps]_vars
    BY <1>1, <1>2
  <1> QED
    BY <1>3, MarksInvariant, TextInvariant, PTL DEF Spec, NothingForgotten

\* The hint in the input of the tags never replaces tags that are stored.
THEOREM TagsKeptAlways == Spec => TagsKept
  <1>1. MarksInv /\ [Next]_vars =>
           (careless = {} /\ stored.tags = "own" => stored'.tags = "own")
    BY StoredChanges DEF Carries
  <1>2. MarksInv /\ [Next]_vars =>
           [careless = {} /\ stored.tags = "own" => stored'.tags = "own"]_vars
    BY <1>1
  <1> QED
    BY <1>2, MarksInvariant, PTL DEF Spec, TagsKept

-----------------------------------------------------------------------------
(* No mark twice.  The hard part is what a window shows before its marks are
   restored: the user's own marks, which no other window, request or row may
   hold by the time the answer is appended to them. *)

Apart(w, marks) == ToSet(table[w]) \cap ToSet(marks) = {}

\* The marks of a window whose stored marks are not restored yet are nowhere else.
OwnMarks ==
    \A w \in Window : base[w] = Unseen =>
        /\ Apart(w, stored.marks)
        /\ \A v \in Window \ {w} : Apart(w, table[v])
        /\ \A p \in posts : Apart(w, p.row.marks)
        /\ \A q \in views : Apart(w, q.reply.row.marks)

Single ==
    /\ \A w \in Window : IsInjective(table[w])
    /\ IsInjective(stored.marks)
    /\ \A p \in posts : IsInjective(p.row.marks)
    /\ \A q \in views : IsInjective(q.reply.row.marks)

Restored == OwnMarks /\ Single

OnceInv == MarksInv /\ ("blind" \notin careless => Restored)

LEMMA EmptyOnce == ToSet(<<>>) = {} /\ IsInjective(<<>>) /\ <<>> \in Seq(Mark)
  BY DEF ToSet, IsInjective

LEMMA AppendOnce ==
  ASSUME NEW S, NEW s \in Seq(S), NEW m \in S, IsInjective(s), m \notin ToSet(s)
  PROVE  IsInjective(Append(s, m)) /\ ToSet(Append(s, m)) = ToSet(s) \cup {m}
  <1>1. /\ DOMAIN Append(s, m) = DOMAIN s \cup {Len(s) + 1}
        /\ Append(s, m)[Len(s) + 1] = m
        /\ \A i \in DOMAIN s : Append(s, m)[i] = s[i]
    OBVIOUS
  <1>2. \A i \in DOMAIN s : s[i] # m
    BY DEF ToSet
  <1> QED
    BY <1>1, <1>2 DEF ToSet, IsInjective

LEMMA ConcatOnce ==
  ASSUME NEW S, NEW s \in Seq(S), NEW t \in Seq(S), IsInjective(s), IsInjective(t),
         ToSet(s) \cap ToSet(t) = {}
  PROVE  IsInjective(s \o t) /\ ToSet(s \o t) = ToSet(s) \cup ToSet(t)
  <1>1. \A i \in DOMAIN (s \o t) :
            \/ i \in DOMAIN s /\ (s \o t)[i] = s[i]
            \/ i \notin DOMAIN s /\ i - Len(s) \in DOMAIN t /\ (s \o t)[i] = t[i - Len(s)]
    OBVIOUS
  <1>2. \A i \in DOMAIN s, j \in DOMAIN t : s[i] # t[j]
    BY DEF ToSet
  <1>3. IsInjective(s \o t)
    <2> SUFFICES ASSUME NEW i \in DOMAIN (s \o t), NEW j \in DOMAIN (s \o t),
                        (s \o t)[i] = (s \o t)[j]
                 PROVE  i = j
      BY DEF IsInjective
    <2>1. CASE i \in DOMAIN s /\ j \in DOMAIN s
      BY <1>1, <2>1 DEF IsInjective
    <2>2. CASE i \notin DOMAIN s /\ j \notin DOMAIN s
      <3>1. i - Len(s) = j - Len(s)
        BY <1>1, <2>2 DEF IsInjective
      <3>2. i \in Int /\ j \in Int /\ Len(s) \in Int
        OBVIOUS
      <3> QED
        BY <3>1, <3>2
    <2> QED
      BY <1>1, <1>2, <2>1, <2>2
  <1>4. ToSet(s \o t) \subseteq ToSet(s) \cup ToSet(t)
    BY <1>1 DEF ToSet
  <1> QED
    BY <1>3, <1>4, ConcatSet

LEMMA RemoveOnce ==
  ASSUME NEW S, NEW s \in Seq(S), NEW i \in DOMAIN s, IsInjective(s)
  PROVE  IsInjective(RemoveAt(s, i)) /\ ToSet(RemoveAt(s, i)) = ToSet(s) \ {s[i]}
  <1> DEFINE before == SubSeq(s, 1, i - 1)
             after == SubSeq(s, i + 1, Len(s))
  <1>1. i \in 1..Len(s) /\ Len(s) \in Nat
    OBVIOUS
  <1>2. /\ before \in Seq(S) /\ DOMAIN before = 1..(i - 1)
        /\ \A j \in DOMAIN before : j \in DOMAIN s /\ j # i /\ before[j] = s[j]
    BY <1>1
  <1>3. /\ after \in Seq(S) /\ DOMAIN after = 1..(Len(s) - i)
        /\ \A j \in DOMAIN after :
              j + i \in DOMAIN s /\ j + i # i /\ after[j] = s[j + i]
    BY <1>1
  <1> HIDE DEF before, after
  <1>4. IsInjective(before)
    BY <1>2 DEF IsInjective
  <1>5. IsInjective(after)
    <2> SUFFICES ASSUME NEW j \in DOMAIN after, NEW k \in DOMAIN after, after[j] = after[k]
                 PROVE  j = k
      BY DEF IsInjective
    <2>1. j + i = k + i
      BY <1>3 DEF IsInjective
    <2> QED
      BY <1>1, <1>3, <2>1
  <1>6. \A j \in DOMAIN before, k \in DOMAIN after : before[j] # after[k]
    <2> SUFFICES ASSUME NEW j \in DOMAIN before, NEW k \in DOMAIN after, before[j] = after[k]
                 PROVE  FALSE
      OBVIOUS
    <2>1. j = k + i
      BY <1>2, <1>3 DEF IsInjective
    <2> QED
      BY <1>1, <1>2, <1>3, <2>1
  <1>7. ToSet(before) \cap ToSet(after) = {}
    BY <1>6 DEF ToSet
  <1>8. RemoveAt(s, i) = before \o after
    BY DEF RemoveAt, before, after
  <1>9. IsInjective(before \o after) /\ ToSet(before \o after) = ToSet(before) \cup ToSet(after)
    BY <1>2, <1>3, <1>4, <1>5, <1>7, ConcatOnce
  <1>10. ToSet(before) \cup ToSet(after) \subseteq ToSet(s) \ {s[i]}
    <2>1. \A j \in DOMAIN s : j # i => s[j] \in ToSet(s) \ {s[i]}
      BY DEF ToSet, IsInjective
    <2> QED
      BY <1>2, <1>3, <2>1 DEF ToSet
  <1> QED
    BY <1>8, <1>9, <1>10, RemoveSet

LEMMA DragOnce ==
  ASSUME NEW S, NEW s \in Seq(S), NEW i \in DOMAIN s, IsInjective(s)
  PROVE  /\ IsInjective(<<s[i]>> \o RemoveAt(s, i))
         /\ ToSet(<<s[i]>> \o RemoveAt(s, i)) = ToSet(s)
  <1>1. PICK top : top = <<s[i]>>
    OBVIOUS
  <1>2. PICK rest : rest = RemoveAt(s, i)
    OBVIOUS
  <1>3. top \in Seq(S) /\ ToSet(top) = {s[i]} /\ IsInjective(top)
    BY <1>1 DEF ToSet, IsInjective
  <1>4. rest \in Seq(S) /\ IsInjective(rest) /\ ToSet(rest) = ToSet(s) \ {s[i]}
    BY <1>2, RemoveSet, RemoveOnce
  <1>5. IsInjective(top \o rest) /\ ToSet(top \o rest) = ToSet(top) \cup ToSet(rest)
    BY <1>3, <1>4, ConcatOnce
  <1>6. s[i] \in ToSet(s)
    BY DEF ToSet
  <1> QED
    BY <1>1, <1>2, <1>3, <1>4, <1>5, <1>6

\* Rows hold sequences of marks.
LEMMA RowMarks ==
  ASSUME MarksTypes
  PROVE  /\ \A w \in Window : table[w] \in Seq(Mark)
         /\ stored.marks \in Seq(Mark)
         /\ \A p \in posts : p.win \in Window /\ p.row.marks \in Seq(Mark)
         /\ \A q \in views : q.win \in Window /\ q.reply.row.marks \in Seq(Mark)
  <1>1. \A row \in Row : row.marks \in Seq(Mark)
    <2>1. NoRow.marks \in Seq(Mark)
      BY EmptyOnce DEF NoRow
    <2> QED
      BY <2>1 DEF Row, SavedRow
  <1>2. SavedRow \subseteq Row
    BY DEF Row
  <1> QED
    BY <1>1, <1>2 DEF MarksTypes, Reply

LEMMA OnceInit == Init => Restored
  <1> SUFFICES ASSUME Init PROVE Restored
    OBVIOUS
  <1>1. \A w \in Window : table[w] = <<>> /\ base[w] = Unseen
    BY DEF Init
  <1>2. IsInjective(stored.marks)
    <2>1. \A m \in Mark : IsInjective(<<m>>)
      BY DEF IsInjective
    <2> QED
      BY <2>1, EmptyOnce DEF Init, NoRow, RowOf
  <1>3. views = {} /\ posts = {}
    BY DEF Init
  <1>5. OwnMarks
    BY <1>1, <1>3, EmptyOnce DEF OwnMarks, Apart
  <1>6. Single
    BY <1>1, <1>2, <1>3, EmptyOnce DEF Single
  <1> QED
    BY <1>5, <1>6 DEF Restored

\* The marks that a window gets from its user are new.
LEMMA EditOnce ==
  ASSUME MarksTypes, Restored, NEW w \in Window, NEW new, new \cap Used = {},
         UNCHANGED <<views, posts, stored, base>>,
         \A v \in Window \ {w} : table'[v] = table[v],
         IsInjective(table'[w]), ToSet(table'[w]) \subseteq ToSet(table[w]) \cup new
  PROVE  Restored'
  <1>1. OwnMarks /\ Single
    BY DEF Restored
  <1>3. /\ new \cap ToSet(stored.marks) = {}
        /\ \A v \in Window : new \cap ToSet(table[v]) = {}
        /\ \A p \in posts : new \cap ToSet(p.row.marks) = {}
        /\ \A q \in views : new \cap ToSet(q.reply.row.marks) = {}
    BY DEF Used
  <1>4. OwnMarks'
    <2> SUFFICES ASSUME NEW v \in Window, base[v] = Unseen
                 PROVE  /\ Apart(v, stored.marks)'
                        /\ \A u \in Window \ {v} : Apart(v, table[u])'
                        /\ \A p \in posts : Apart(v, p.row.marks)'
                        /\ \A q \in views : Apart(v, q.reply.row.marks)'
      BY DEF OwnMarks, Unseen
    <2>1. /\ Apart(v, stored.marks)
          /\ \A u \in Window \ {v} : Apart(v, table[u])
          /\ \A p \in posts : Apart(v, p.row.marks)
          /\ \A q \in views : Apart(v, q.reply.row.marks)
      BY <1>1 DEF OwnMarks
    <2>2. CASE v = w
      BY <1>3, <2>1, <2>2 DEF Apart
    <2>3. CASE v # w
      BY <1>3, <2>1, <2>3 DEF Apart
    <2> QED
      BY <2>2, <2>3
  <1>5. Single'
    BY <1>1 DEF Single
  <1> QED
    BY <1>4, <1>5 DEF Restored

LEMMA UseOnce ==
  ASSUME MarksTypes, Restored, NEW w \in Window,
         on_mark(w) \/ DeleteRow(w) \/ DragRow(w) \/ FocusRow(w) \/ TypeRow(w)
         \/ FocusTags(w) \/ TypeTags(w)
  PROVE  Restored'
  <1>1. UNCHANGED <<views, posts, stored, base>>
    BY DEF on_mark, DeleteRow, DragRow, FocusRow, TypeRow, FocusTags, TypeTags
  <1>2. table[w] \in Seq(Mark) /\ IsInjective(table[w]) /\ table = [v \in Window |-> table[v]]
    BY RowMarks DEF Restored, Single, MarksTypes
  <1>3. ASSUME NEW s, table' = [table EXCEPT ![w] = s]
        PROVE  table'[w] = s /\ \A v \in Window \ {w} : table'[v] = table[v]
    BY <1>2, <1>3
  <1>4. CASE on_mark(w)
    <2>1. PICK m \in Mark \ Used : table' = [table EXCEPT ![w] = Append(table[w], m)]
      BY <1>4 DEF on_mark
    <2>2. m \notin ToSet(table[w]) /\ {m} \cap Used = {}
      BY DEF Used
    <2>3. /\ IsInjective(Append(table[w], m))
          /\ ToSet(Append(table[w], m)) = ToSet(table[w]) \cup {m}
      BY <1>2, <2>2, AppendOnce
    <2>4. table'[w] = Append(table[w], m) /\ \A v \in Window \ {w} : table'[v] = table[v]
      BY <1>3, <2>1
    <2> QED
      BY <1>1, <2>2, <2>3, <2>4, EditOnce
  <1>5. CASE DeleteRow(w)
    <2>1. PICK i \in DOMAIN table[w] : table' = [table EXCEPT ![w] = RemoveAt(table[w], i)]
      BY <1>5 DEF DeleteRow
    <2>2. /\ IsInjective(RemoveAt(table[w], i))
          /\ ToSet(RemoveAt(table[w], i)) = ToSet(table[w]) \ {table[w][i]}
      BY <1>2, RemoveOnce
    <2>3. /\ table'[w] = RemoveAt(table[w], i)
          /\ \A v \in Window \ {w} : table'[v] = table[v]
      BY <1>3, <2>1
    <2>4. {} \cap Used = {} /\ ToSet(table'[w]) \subseteq ToSet(table[w]) \cup {}
      BY <2>2, <2>3
    <2> QED
      BY <1>1, <2>2, <2>3, <2>4, EditOnce
  <1>6. CASE DragRow(w)
    <2>1. PICK i \in DOMAIN table[w] :
             table' = [table EXCEPT ![w] = <<table[w][i]>> \o RemoveAt(table[w], i)]
      BY <1>6 DEF DragRow
    <2>2. /\ IsInjective(<<table[w][i]>> \o RemoveAt(table[w], i))
          /\ ToSet(<<table[w][i]>> \o RemoveAt(table[w], i)) = ToSet(table[w])
      BY <1>2, DragOnce
    <2>3. /\ table'[w] = <<table[w][i]>> \o RemoveAt(table[w], i)
          /\ \A v \in Window \ {w} : table'[v] = table[v]
      BY <1>3, <2>1
    <2>4. {} \cap Used = {} /\ ToSet(table'[w]) \subseteq ToSet(table[w]) \cup {}
      BY <2>2, <2>3
    <2> QED
      BY <1>1, <2>2, <2>3, <2>4, EditOnce
  <1>7. CASE FocusRow(w) \/ TypeRow(w) \/ FocusTags(w) \/ TypeTags(w)
    <2>1. UNCHANGED table
      BY <1>7 DEF FocusRow, TypeRow, FocusTags, TypeTags
    <2>3. {} \cap Used = {} /\ ToSet(table'[w]) \subseteq ToSet(table[w]) \cup {}
      BY <2>1
    <2> QED
      BY <1>1, <1>2, <2>1, <2>3, EditOnce
  <1> QED
    BY <1>4, <1>5, <1>6, <1>7

\* Requests get lost, a window is opened, nothing happens.
LEMMA LostOnce ==
  ASSUME Restored, UNCHANGED <<table, stored, base>>, posts' \subseteq posts,
         \A q \in views' : q \in views \/ q.reply = Unserved
  PROVE  Restored'
  <1>1. OwnMarks /\ Single
    BY DEF Restored
  <1>2. ToSet(Unserved.row.marks) = {} /\ IsInjective(Unserved.row.marks) /\ ~Unserved.served
    BY EmptyOnce DEF Unserved, NoRow
  <1>3. \A q \in views' : q \in views \/
           (ToSet(q.reply.row.marks) = {} /\ IsInjective(q.reply.row.marks) /\ ~q.reply.served)
    BY <1>2
  <1>6. OwnMarks'
    BY <1>1, <1>3 DEF OwnMarks, Apart, Unseen
  <1>7. Single'
    BY <1>1, <1>3 DEF Single
  <1> QED
    BY <1>6, <1>7 DEF Restored

\* The saved window has shown the stored row, so its marks are nobody's own.
LEMMA SaveOnce ==
  ASSUME Restored, NEW w \in Window, on_save(w), base[w] # Unseen
  PROVE  Restored'
  <1>1. OwnMarks /\ Single
    BY DEF Restored
  <1>2. PICK p : posts' = posts \cup {p} /\ p.row.marks = table[w]
    <2>1. PICK p : p = [win |-> w, no |-> saves + 1, row |-> RowOf(table[w], blank[w], tags[w])]
      OBVIOUS
    <2>2. p.row.marks = table[w]
      BY <2>1 DEF RowOf
    <2> QED
      BY <2>1, <2>2 DEF on_save
  <1>3. UNCHANGED <<table, views, stored, base>>
    BY DEF on_save
  <1>5. OwnMarks'
    <2>1. \A v \in Window : base[v] = Unseen => Apart(v, table[w])
      BY <1>1 DEF OwnMarks
    <2> QED
      BY <1>1, <1>2, <1>3, <2>1 DEF OwnMarks, Apart, Unseen
  <1>6. Single'
    BY <1>1, <1>2, <1>3 DEF Single
  <1> QED
    BY <1>5, <1>6 DEF Restored

LEMMA AddOnce ==
  ASSUME MarksTypes, Restored, NEW p \in posts, Add(p), base[p.win] # Unseen
  PROVE  Restored'
  <1>1. OwnMarks /\ Single
    BY DEF Restored
  <1>2. UNCHANGED <<table, views>> /\ stored' = p.row /\ posts' = posts \ {p}
    BY DEF Add
  <1>3. p.win \in Window /\ p.no # Unseen
    BY BoundsAssumption DEF MarksTypes, Unseen
  <1>4. \A w \in Window : base'[w] = Unseen => base[w] = Unseen
    BY <1>3 DEF Add, MarksTypes
  <1>6. OwnMarks'
    BY <1>1, <1>2, <1>4 DEF OwnMarks, Apart, Unseen
  <1>7. Single'
    BY <1>1, <1>2 DEF Single
  <1> QED
    BY <1>6, <1>7 DEF Restored

LEMMA ViewOnce ==
  ASSUME MarksTypes, Restored, NEW q \in views, View(q)
  PROVE  Restored'
  <1>1. OwnMarks /\ Single
    BY DEF Restored
  <1>2. PICK a : views' = (views \ {q}) \cup {a} /\ a.reply.row = stored
    <2>1. [q EXCEPT !.reply = Served(stored, version)].reply.row = stored
      BY DEF MarksTypes, Served
    <2> QED
      BY <2>1 DEF View
  <1>3. UNCHANGED <<table, posts, stored, base>>
    BY DEF View
  <1>5. OwnMarks'
    BY <1>1, <1>2, <1>3 DEF OwnMarks, Apart, Unseen
  <1>6. Single'
    BY <1>1, <1>2, <1>3 DEF Single
  <1> QED
    BY <1>5, <1>6 DEF Restored

\* The marks that arrive are appended to marks that are apart from them.
LEMMA RestoreOnce ==
  ASSUME MarksTypes, Restored, NEW q \in views, restore_marks(q), base[q.win] = Unseen
  PROVE  Restored'
  <1>1. OwnMarks /\ Single
    BY DEF Restored
  <1>2. PICK w : w = q.win
    OBVIOUS
  <1>3. PICK new : new = q.reply.row.marks
    OBVIOUS
  <1>4. /\ UNCHANGED <<posts, stored>> /\ views' = views \ {q}
        /\ w \in Window /\ new \in Seq(Mark)
    BY <1>2, <1>3, RowMarks DEF restore_marks, Answered
  <1>5. base'[w] # Unseen /\ \A v \in Window \ {w} : base'[v] = base[v]
    <2>1. q.reply.version # Unseen
      BY BoundsAssumption DEF MarksTypes, Reply, Unseen
    <2> QED
      BY <1>2, <1>4, <2>1 DEF restore_marks, Answered, MarksTypes
  <1>6. /\ IsInjective(table'[w]) /\ ToSet(table'[w]) \subseteq ToSet(table[w]) \cup ToSet(new)
        /\ \A v \in Window \ {w} : table'[v] = table[v]
    <2>1. CASE q.reply.row.exists
      <3>1. PICK rows \in Matched(new) : table' = [table EXCEPT ![w] = table[w] \o rows]
        BY <1>2, <1>3, <2>1 DEF restore_marks, ShowMarks
      <3>2. table[w] \in Seq(Mark) /\ IsInjective(table[w]) /\ IsInjective(new)
            /\ ToSet(table[w]) \cap ToSet(new) = {}
        BY <1>1, <1>2, <1>3, <1>4, RowMarks DEF OwnMarks, Apart, Single
      <3>3. rows \in Seq(Mark) /\ ToSet(rows) \subseteq ToSet(new) /\ IsInjective(rows)
        BY <1>4, <3>2, MatchedRows
      <3>4. /\ IsInjective(table[w] \o rows)
            /\ ToSet(table[w] \o rows) = ToSet(table[w]) \cup ToSet(rows)
        BY <3>2, <3>3, ConcatOnce
      <3> QED
        BY <1>4, <3>1, <3>3, <3>4 DEF MarksTypes
    <2>2. CASE ~q.reply.row.exists
      <3>1. table' = table
        BY <2>2 DEF restore_marks
      <3> QED
        BY <1>1, <1>4, <3>1 DEF Single
    <2> QED
      BY <2>1, <2>2
  <1>9. OwnMarks'
    <2> SUFFICES ASSUME NEW v \in Window \ {w}, base[v] = Unseen
                 PROVE  /\ Apart(v, stored.marks)'
                        /\ \A u \in Window \ {v} : Apart(v, table[u])'
                        /\ \A p \in posts' : Apart(v, p.row.marks)'
                        /\ \A r \in views' : Apart(v, r.reply.row.marks)'
      BY <1>5 DEF OwnMarks, Unseen
    <2>1. /\ Apart(v, stored.marks) /\ Apart(v, new)
          /\ \A u \in Window \ {v} : Apart(v, table[u])
          /\ \A p \in posts : Apart(v, p.row.marks)
          /\ \A r \in views : Apart(v, r.reply.row.marks)
      BY <1>1, <1>3 DEF OwnMarks
    <2> QED
      BY <1>4, <1>6, <2>1 DEF Apart
  <1>10. Single'
    BY <1>1, <1>4, <1>6 DEF Single
  <1> QED
    BY <1>9, <1>10 DEF Restored

LEMMA OnceStep ==
  ASSUME OnceInv, [Next]_vars
  PROVE  OnceInv'
  <1>1. MarksInv' /\ MarksTypes /\ Asked
    BY MarksStepInv DEF OnceInv, MarksInv
  <1> SUFFICES ASSUME "blind" \notin careless' PROVE Restored'
    BY <1>1 DEF OnceInv
  <1>2. "blind" \notin careless
    BY DEF Next, Load, Use, Serve, on_mark, DeleteRow, DragRow, FocusRow, TypeRow, FocusTags,
           TypeTags, on_save, Add, AddFails, View, ViewFails, restore_marks, Answered, vars,
           marksVars
  <1>3. Restored
    BY <1>2 DEF OnceInv
  <1>4. CASE UNCHANGED vars
    BY <1>3, <1>4, LostOnce DEF vars, marksVars
  <1>5. ASSUME NEW w \in Window, Load(w) PROVE Restored'
    BY <1>3, <1>5, LostOnce DEF Load
  <1>6. ASSUME NEW w \in Window, Use(w) PROVE Restored'
    <2>1. on_save(w) => base[w] # Unseen
      BY DEF on_save
    <2> QED
      BY <1>1, <1>3, <1>6, <2>1, UseOnce, SaveOnce DEF Use
  <1>7. ASSUME NEW p \in posts, Add(p) \/ AddFails(p) PROVE Restored'
    <2>1. base[p.win] # Unseen
      BY <1>1, <1>2 DEF Asked
    <2>2. CASE Add(p)
      BY <1>1, <1>3, <2>1, <2>2, AddOnce
    <2>3. CASE AddFails(p)
      BY <1>3, <2>3, LostOnce DEF AddFails
    <2> QED
      BY <1>7, <2>2, <2>3
  <1>8. ASSUME NEW q \in views, View(q) \/ ViewFails(q) \/ restore_marks(q) PROVE Restored'
    <2>1. base[q.win] = Unseen
      BY <1>1, <1>2 DEF Asked
    <2>2. CASE View(q)
      BY <1>1, <1>3, <2>2, ViewOnce
    <2>3. CASE ViewFails(q)
      BY <1>3, <2>3, LostOnce DEF ViewFails
    <2>4. CASE restore_marks(q)
      BY <1>1, <1>3, <2>1, <2>4, RestoreOnce
    <2> QED
      BY <1>8, <2>2, <2>3, <2>4
  <1> QED
    BY <1>4, <1>5, <1>6, <1>7, <1>8 DEF Next, Serve

\* Restoring appends to whatever rows are there, and still no mark is shown or stored
\* twice, for any number of windows and saves, unless a save did not wait for its marks.
THEOREM NoDuplicatesAlways == Spec => []NoDuplicates
  <1>1. Init => OnceInv
    BY MarksInitInv, OnceInit DEF OnceInv
  <1>2. OnceInv /\ [Next]_vars => OnceInv'
    BY OnceStep
  <1>3. OnceInv => NoDuplicates
    BY DEF OnceInv, Restored, Single, NoDuplicates
  <1> QED
    BY <1>1, <1>2, <1>3, PTL DEF Spec
=============================================================================
