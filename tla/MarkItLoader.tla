---------------------------- MODULE MarkItLoader ----------------------------
(***************************************************************************)
(* web/MarkIt: how a click on the bookmark gets a dialog into a page.      *)
(*                                                                         *)
(* markit.loader.js fetches markit.js with an XMLHttpRequest or, when that *)
(* fails, with a script element; markit.js fetches jQuery and jQuery UI    *)
(* where the page lacks them, and then creates the dialog.  Each click     *)
(* runs the loader again, whatever is still on its way.  Scripts run one   *)
(* at a time; between two of them anything may arrive.                     *)
(***************************************************************************)
EXTENDS Naturals

CONSTANTS
    Window,      \* browser windows, each with a document
    MaxClicks    \* bound on the clicks on the bookmark, for each window

ASSUME ClicksAssumption == MaxClicks \in [Window -> Nat]

VARIABLES
    clicks,      \* how often the bookmark was clicked in the window
    load,        \* load[w][k]: what the k-th click in w has on its way
    scripts,     \* clicks whose script element "markit-script" is in the document
    library,     \* window.jQuery: none, bare (without jQuery UI) or ui
    dialogs,     \* number of elements "markit-dialog" in the document
    shown,       \* whether the dialog is visible
    failed       \* kinds of files that have failed to load (history)

loaderVars == <<clicks, load, scripts, library, dialogs, shown, failed>>

Click(w) == 1..MaxClicks[w]

\* `at' is the file on its way; `script' is markit.js' variable markit_script:
\* the click whose element it is to remove, 0 for null.
Idle == [at |-> "none", script |-> 0]

LoaderInit ==
    /\ clicks = [w \in Window |-> 0]
    /\ load = [w \in Window |-> [k \in Click(w) |-> Idle]]
    /\ scripts = [w \in Window |-> {}]
    /\ library \in [Window -> {"none", "bare", "ui"}]
    /\ dialogs = [w \in Window |-> 0]
    /\ shown = [w \in Window |-> FALSE]
    /\ failed = [w \in Window |-> {}]

-----------------------------------------------------------------------------
Fetch(w, k, file) == load' = [load EXCEPT ![w][k].at = file]
Over(w, k) == load' = [load EXCEPT ![w][k] = Idle]
Keep(w, lib) == library' = [library EXCEPT ![w] = lib]

\* load_markit_js_by_script_tag
LoadByScriptTag(w, k) ==
    /\ Fetch(w, k, "script")
    /\ scripts' = [scripts EXCEPT ![w] = @ \cup {k}]

\* Fault: main() does not look for a dialog.
main_unchecked(w, script) ==
    /\ dialogs' = [dialogs EXCEPT ![w] = @ + 1]
    /\ shown' = [shown EXCEPT ![w] = TRUE]
    /\ scripts' = [scripts EXCEPT ![w] = @ \ {script}]

\* main(): the first one creates the dialog and removes the element markit.js
\* was loaded by, a later one finds the dialog and toggles it.
main(w, script) ==
    IF dialogs[w] = 0
    THEN /\ dialogs' = [dialogs EXCEPT ![w] = @ + 1]
         /\ shown' = [shown EXCEPT ![w] = TRUE]
         /\ scripts' = [scripts EXCEPT ![w] = @ \ {script}]
    ELSE /\ shown' = [shown EXCEPT ![w] = ~@]
         /\ UNCHANGED <<dialogs, scripts>>

\* The body of markit.js.  Of several elements with one id it takes any.
Evaluate(w, k) ==
    \E script \in IF scripts[w] = {} THEN {0} ELSE scripts[w] :
        \/ /\ dialogs[w] > 0
           /\ Over(w, k)
           /\ UNCHANGED <<scripts, dialogs, shown>>
        \/ /\ dialogs[w] = 0 /\ library[w] # "ui"
           /\ load' = [load EXCEPT ![w][k] =
                          [at |-> IF library[w] = "none" THEN "jquery" ELSE "ui",
                           script |-> script]]
           /\ UNCHANGED <<scripts, dialogs, shown>>
        \/ /\ dialogs[w] = 0 /\ library[w] = "ui"
           /\ Over(w, k)
           /\ main(w, script)

-----------------------------------------------------------------------------
(* The user clicks on the bookmark. *)

Toggle(w) ==
    /\ dialogs[w] > 0
    /\ shown' = [shown EXCEPT ![w] = ~@]
    /\ UNCHANGED <<load, scripts>>

\* alert("Loading MarkIt dialog!")
AlreadyLoading(w) ==
    /\ dialogs[w] = 0 /\ scripts[w] # {}
    /\ UNCHANGED <<load, scripts, shown>>

\* An XMLHttpRequest where the page's and the script's protocols allow one and
\* nothing throws.
StartLoading(w) ==
    /\ dialogs[w] = 0 /\ scripts[w] = {}
    /\ \/ Fetch(w, clicks[w] + 1, "xhr") /\ UNCHANGED scripts
       \/ LoadByScriptTag(w, clicks[w] + 1)
    /\ UNCHANGED <<shown>>

ClickBookmark(w) ==
    /\ clicks[w] < MaxClicks[w]
    /\ clicks' = [clicks EXCEPT ![w] = @ + 1]
    /\ Toggle(w) \/ AlreadyLoading(w) \/ StartLoading(w)
    /\ UNCHANGED <<library, dialogs, failed>>

-----------------------------------------------------------------------------
(* What was asked for arrives, or does not. *)

\* on_markit_js_loaded with the text of the script
XhrLoaded(w, k) ==
    /\ load[w][k].at = "xhr"
    /\ Evaluate(w, k)
    /\ UNCHANGED <<clicks, library, failed>>

\* Fault: an error of the request is not handled.
XhrFailed_ignored(w, k) ==
    /\ load[w][k].at = "xhr"
    /\ Over(w, k)
    /\ UNCHANGED <<clicks, scripts, library, dialogs, shown, failed>>

\* An error, a status other than 200 and 0, or the empty text of another domain.
XhrFailed(w, k) ==
    /\ load[w][k].at = "xhr"
    /\ LoadByScriptTag(w, k)
    /\ UNCHANGED <<clicks, library, dialogs, shown, failed>>

ScriptLoaded(w, k) ==
    /\ load[w][k].at = "script"
    /\ Evaluate(w, k)
    /\ UNCHANGED <<clicks, library, failed>>

\* Fault: the element stays in the document.
ScriptFailed_left(w, k) ==
    /\ load[w][k].at = "script"
    /\ Over(w, k)
    /\ failed' = [failed EXCEPT ![w] = @ \cup {"script"}]
    /\ UNCHANGED <<clicks, scripts, library, dialogs, shown>>

\* script.onerror
ScriptFailed(w, k) ==
    /\ load[w][k].at = "script"
    /\ Over(w, k)
    /\ scripts' = [scripts EXCEPT ![w] = @ \ {k}]
    /\ failed' = [failed EXCEPT ![w] = @ \cup {"script"}]
    /\ UNCHANGED <<clicks, library, dialogs, shown>>

\* A second jQuery takes the place of the first, without the first one's UI.
JQueryLoaded(w, k) ==
    /\ load[w][k].at = "jquery"
    /\ Keep(w, "bare")
    /\ Fetch(w, k, "ui")
    /\ UNCHANGED <<clicks, scripts, dialogs, shown, failed>>

UiLoaded(w, k) ==
    /\ load[w][k].at = "ui"
    /\ Keep(w, "ui")
    /\ Over(w, k)
    /\ main(w, load[w][k].script)
    /\ UNCHANGED <<clicks, failed>>

\* load_script: onerror removes the library's own element, and nothing else.
LibraryFailed(w, k) ==
    /\ load[w][k].at \in {"jquery", "ui"}
    /\ Over(w, k)
    /\ failed' = [failed EXCEPT ![w] = @ \cup {"library"}]
    /\ UNCHANGED <<clicks, scripts, library, dialogs, shown>>

Arrive(w, k) ==
    \/ XhrLoaded(w, k) \/ XhrFailed(w, k)
    \/ ScriptLoaded(w, k) \/ ScriptFailed(w, k)
    \/ JQueryLoaded(w, k) \/ UiLoaded(w, k) \/ LibraryFailed(w, k)

LoaderStep(w) == ClickBookmark(w) \/ \E k \in Click(w) : Arrive(w, k)

-----------------------------------------------------------------------------
LoaderTypeOK ==
    /\ clicks \in [Window -> Nat]
    /\ \A w \in Window :
          /\ clicks[w] <= MaxClicks[w]
          /\ load[w] \in [Click(w) -> [at : {"none", "xhr", "script", "jquery", "ui"},
                                       script : 0..MaxClicks[w]]]
          /\ scripts[w] \subseteq Click(w)
    /\ library \in [Window -> {"none", "bare", "ui"}]
    /\ dialogs \in [Window -> Nat]
    /\ shown \in [Window -> BOOLEAN]
    /\ failed \in [Window -> SUBSET {"script", "library"}]

\* However many clicks are loading, and by whichever way, a page gets one dialog
\* (the checks at markit.js:8 and markit.js:257).
OneDialog == \A w \in Window : dialogs[w] <= 1

\* The loader answers a click with "Loading MarkIt dialog!" and does nothing else only
\* while a file is indeed on its way; otherwise the user could click for ever.  A
\* library that fails to load leaves markit.js' element behind: then it is not so.
LoadingIsLoading ==
    \A w \in Window :
        dialogs[w] = 0 /\ scripts[w] # {} /\ "library" \notin failed[w] =>
            \E k \in Click(w) : load[w][k].at # "none"
=============================================================================
