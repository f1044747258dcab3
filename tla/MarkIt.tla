-------------------------------- MODULE MarkIt --------------------------------
(***************************************************************************)
(* web/MarkIt: the dialog of a page, and what it keeps on the server.      *)
(*                                                                         *)
(* The dialog, once MarkItLoader has created it, asks the server for the   *)
(* row stored for the user's key and the page's URL and appends its marks; *)
(* saving posts all marks of the dialog, which replace the stored ones.    *)
(* Windows show the same page; each request has its connection, so that    *)
(* the server may take requests in another order than they were sent.      *)
(***************************************************************************)
EXTENDS MarkItLoader, Sequences, SequencesExt

CONSTANTS
    Mark,        \* marks a user sets: a position of the page, with a text
    Unreadable,  \* marks at positions that are not two unsigned integers (zoom, right-to-left)
    MaxSaves,    \* clicks on the save button, in all windows
    MaxEdits     \* rows deleted, dragged, entered or typed into, in all windows

ASSUME BoundsAssumption == MaxSaves \in Nat /\ MaxEdits \in Nat
ASSUME UnreadableAssumption == Unreadable \subseteq Mark

VARIABLES
    table,       \* the rows of #markit-marks
    armed,       \* marks whose input has empty_input_once bound to its focus
    blank,       \* marks whose input is empty
    tags,        \* #markit-tags: the hint "tag1 tag2", nothing, or the user's own
    hinted,      \* is empty_input_once still bound to the input's focus?
    views,       \* requests for mark/view that are not answered yet
    posts,       \* requests for mark/add that the server has not taken yet
    stored,      \* the row of the table marks for this key and URL
    saves, edits,
    \* history
    version,     \* number of the save that is stored
    base,        \* the save a window has last shown or made
    deleted,     \* marks the user has deleted
    emptied,     \* marks whose input was emptied when the user entered it
    careless     \* circumstances under which the user has saved

textVars == <<armed, blank, emptied>>
marksVars == <<table, textVars, tags, hinted, views, posts, stored, saves, edits, version,
               base, deleted, careless>>
vars == <<loaderVars, marksVars>>

NoRow == [marks |-> <<>>, blank |-> {}, tags |-> "undefined", exists |-> FALSE]
RowOf(marks, without, t) == [marks |-> marks, blank |-> without, tags |-> t, exists |-> TRUE]
Unserved == [row |-> NoRow, version |-> 0, served |-> FALSE]
Served(row, v) == [row |-> row, version |-> v, served |-> TRUE]
Unseen == MaxSaves + 1      \* base of a window that has shown no row yet

Used == (UNION {ToSet(table[w]) : w \in Window})
        \cup (UNION {ToSet(p.row.marks) : p \in posts})
        \cup (UNION {ToSet(q.reply.row.marks) : q \in views})
        \cup ToSet(stored.marks) \cup deleted

Init ==
    /\ LoaderInit
    /\ table = [w \in Window |-> <<>>]
    /\ armed = [w \in Window |-> {}] /\ blank = [w \in Window |-> {}] /\ emptied = {}
    /\ tags = [w \in Window |-> "hint"]
    /\ hinted = [w \in Window |-> TRUE]
    /\ views = {} /\ posts = {}
    /\ stored \in {NoRow} \cup {RowOf(<<m>>, {}, "own") : m \in Mark}
    /\ saves = 0 /\ edits = 0 /\ version = 0
    /\ base = [w \in Window |-> Unseen]
    /\ deleted = {} /\ careless = {}

-----------------------------------------------------------------------------
(* The dialog appears: a step of the loader, with what initialize() asks for. *)

Load(w) ==
    /\ LoaderStep(w)
    /\ views' = IF dialogs'[w] > dialogs[w]
                THEN views \cup {[win |-> w, dialog |-> dialogs'[w], reply |-> Unserved]}
                ELSE views
    /\ UNCHANGED <<table, textVars, tags, hinted, posts, stored, saves, edits, version,
                   base, deleted, careless>>

(* What the user does in a dialog that is visible. *)

Usable(w) == dialogs[w] > 0 /\ shown[w]

\* A new row.  add_mark returns the table, so that the inputs of all its rows
\* are bound, those of restored marks too.
on_mark(w) ==
    /\ Usable(w)
    /\ \E m \in Mark \ Used : table' = [table EXCEPT ![w] = Append(@, m)]
    /\ armed' = [armed EXCEPT ![w] = ToSet(table'[w])]
    /\ UNCHANGED <<blank, emptied, tags, hinted, views, posts, stored, saves, edits,
                   version, base, deleted, careless>>

DeleteRow(w) ==
    /\ Usable(w) /\ edits < MaxEdits
    /\ \E i \in DOMAIN table[w] :
          /\ table' = [table EXCEPT ![w] = RemoveAt(@, i)]
          /\ deleted' = deleted \cup {table[w][i]}
    /\ armed' = [armed EXCEPT ![w] = @ \cap ToSet(table'[w])]
    /\ blank' = [blank EXCEPT ![w] = @ \cap ToSet(table'[w])]
    /\ edits' = edits + 1
    /\ UNCHANGED <<emptied, tags, hinted, views, posts, stored, saves, version, base,
                   careless>>

\* sortable(): a row is dragged to the top.
DragRow(w) ==
    /\ Usable(w) /\ edits < MaxEdits
    /\ \E i \in DOMAIN table[w] \ {1} :
          table' = [table EXCEPT ![w] = <<@[i]>> \o RemoveAt(@, i)]
    /\ edits' = edits + 1
    /\ UNCHANGED <<textVars, tags, hinted, views, posts, stored, saves, version, base,
                   deleted, careless>>

\* empty_input_once, in a row
FocusRow(w) ==
    /\ Usable(w) /\ edits < MaxEdits
    /\ \E m \in armed[w] :
          /\ armed' = [armed EXCEPT ![w] = @ \ {m}]
          /\ blank' = [blank EXCEPT ![w] = @ \cup {m}]
          /\ emptied' = emptied \cup {m}
    /\ edits' = edits + 1
    /\ UNCHANGED <<table, tags, hinted, views, posts, stored, saves, version, base, deleted,
                   careless>>

TypeRow(w) ==
    /\ Usable(w) /\ edits < MaxEdits
    /\ \E m \in blank[w] \ armed[w] : blank' = [blank EXCEPT ![w] = @ \ {m}]
    /\ edits' = edits + 1
    /\ UNCHANGED <<table, armed, emptied, tags, hinted, views, posts, stored, saves,
                   version, base, deleted, careless>>

\* empty_input_once, in the input of the tags
FocusTags(w) ==
    /\ Usable(w) /\ hinted[w]
    /\ hinted' = [hinted EXCEPT ![w] = FALSE]
    /\ tags' = [tags EXCEPT ![w] = "none"]
    /\ UNCHANGED <<table, textVars, views, posts, stored, saves, edits, version, base,
                   deleted, careless>>

TypeTags(w) ==
    /\ Usable(w) /\ ~hinted[w]
    /\ tags' = [tags EXCEPT ![w] = "own"]
    /\ UNCHANGED <<table, textVars, hinted, views, posts, stored, saves, edits, version,
                   base, deleted, careless>>

\* The button posts what the dialog shows, whatever has become of other requests.
on_save(w) ==
    /\ Usable(w) /\ saves < MaxSaves
    /\ saves' = saves + 1
    /\ posts' = posts \cup
          {[win |-> w, no |-> saves + 1, row |-> RowOf(table[w], blank[w], tags[w])]}
    /\ careless' = careless
          \cup (IF base[w] = Unseen THEN {"blind"} ELSE {})
          \cup (IF base[w] \notin {Unseen, version} THEN {"stale"} ELSE {})
          \cup (IF posts # {} THEN {"crossed"} ELSE {})
    /\ UNCHANGED <<table, textVars, tags, hinted, views, stored, edits, version, base,
                   deleted>>

-----------------------------------------------------------------------------
(* The server.  What a request does is one transaction. *)

\* Mark::add inserts the row or, when there is one, updates it.
Add(p) ==
    /\ posts' = posts \ {p}
    /\ stored' = p.row
    /\ version' = p.no
    /\ base' = [base EXCEPT ![p.win] = p.no]
    /\ UNCHANGED <<table, textVars, tags, hinted, views, saves, edits, deleted, careless>>

\* The statements fail and are rolled back, or the request is lost.
AddFails(p) ==
    /\ posts' = posts \ {p}
    /\ UNCHANGED <<table, textVars, tags, hinted, views, stored, saves, edits, version,
                   base, deleted, careless>>

\* Mark::view
View(q) ==
    /\ ~q.reply.served
    /\ views' = (views \ {q}) \cup {[q EXCEPT !.reply = Served(stored, version)]}
    /\ UNCHANGED <<table, textVars, tags, hinted, posts, stored, saves, edits, version,
                   base, deleted, careless>>

\* The request fails, or the server answers {} because its SELECT has failed.
ViewFails(q) ==
    /\ views' = views \ {q}
    /\ UNCHANGED <<table, textVars, tags, hinted, posts, stored, saves, edits, version,
                   base, deleted, careless>>

Answered(q) ==
    /\ q.reply.served
    /\ base' = [base EXCEPT ![q.win] = IF @ = Unseen THEN q.reply.version ELSE @]
    /\ UNCHANGED <<armed, emptied, posts, stored, saves, edits, version, deleted, careless>>
ShowTags(q) == tags' = [tags EXCEPT ![q.win] = q.reply.row.tags]

\* What restore_marks' pattern matches of the stored lines, in their order: a
\* set of one sequence.
Matched(marks) ==
    LET at == {i \in DOMAIN marks : marks[i] \notin Unreadable}
        Increasing(f) == \A i, j \in DOMAIN f : i < j => f[i] < f[j]
        picks == {f \in [1..Cardinality(at) -> at] : Increasing(f) /\ at \subseteq ToSet(f)}
    IN  {[j \in DOMAIN f |-> marks[f[j]]] : f \in picks}

ShowMarks(q) ==
    /\ \E rows \in Matched(q.reply.row.marks) : table' = [table EXCEPT ![q.win] = @ \o rows]
    /\ blank' = [blank EXCEPT ![q.win] = @ \cup (q.reply.row.blank \ Unreadable)]
Unbind(q) == hinted' = [hinted EXCEPT ![q.win] = FALSE]

\* Fault: the text of the marks does not match the pattern.
restore_marks_unmatched(q) ==
    /\ Answered(q)
    /\ views' = views \ {q}
    /\ IF q.reply.row.exists THEN Unbind(q) /\ ShowTags(q) ELSE UNCHANGED <<hinted, tags>>
    /\ UNCHANGED <<table, blank>>

\* Fault: the handler of an answer is not taken off when it has run.
restore_marks_again(q) ==
    /\ Answered(q)
    /\ IF q.reply.row.exists
       THEN Unbind(q) /\ ShowTags(q) /\ ShowMarks(q)
       ELSE UNCHANGED <<hinted, tags, table, blank>>
    /\ UNCHANGED views

\* Fault: the hint is still waiting for the focus when the tags are restored.
restore_marks_bound(q) ==
    /\ Answered(q)
    /\ views' = views \ {q}
    /\ IF q.reply.row.exists
       THEN ShowTags(q) /\ ShowMarks(q)
       ELSE UNCHANGED <<tags, table, blank>>
    /\ UNCHANGED hinted

\* Fault: an answer without a row is restored like any other.
restore_marks_unchecked(q) ==
    /\ Answered(q)
    /\ views' = views \ {q}
    /\ Unbind(q) /\ ShowTags(q) /\ ShowMarks(q)

\* restore_marks: the stored tags replace those in the input, the stored marks
\* that can be read are added to the table.
restore_marks(q) ==
    /\ Answered(q)
    /\ views' = views \ {q}
    /\ IF q.reply.row.exists
       THEN Unbind(q) /\ ShowTags(q) /\ ShowMarks(q)
       ELSE UNCHANGED <<hinted, tags, table, blank>>

Use(w) == \/ on_mark(w) \/ DeleteRow(w) \/ DragRow(w) \/ FocusRow(w) \/ TypeRow(w)
          \/ FocusTags(w) \/ TypeTags(w) \/ on_save(w)

Serve == \/ \E p \in posts : Add(p) \/ AddFails(p)
         \/ \E q \in views : View(q) \/ ViewFails(q) \/ restore_marks(q)

Next == \/ \E w \in Window : Load(w)
        \/ UNCHANGED loaderVars /\ (Serve \/ \E w \in Window : Use(w))

Spec == Init /\ [][Next]_vars

\* Browsers deliver what is on its way, or report that it will not come.
LoaderFairness ==
    \A w \in Window : \A k \in Click(w) : WF_vars(Arrive(w, k) /\ Load(w))

FairSpec == Spec /\ LoaderFairness
-----------------------------------------------------------------------------
TypeOK ==
    /\ LoaderTypeOK
    /\ table \in [Window -> Seq(Mark)]
    /\ armed \in [Window -> SUBSET Mark] /\ blank \in [Window -> SUBSET Mark]
    /\ tags \in [Window -> {"hint", "none", "own"}]
    /\ hinted \in [Window -> BOOLEAN]
    /\ \A q \in views : q.win \in Window /\ q.reply.version \in 0..MaxSaves
    /\ \A p \in posts : p.win \in Window /\ p.no \in 1..MaxSaves
    /\ stored.marks \in Seq(Mark)
    /\ stored.exists => stored.tags \in {"hint", "none", "own"}
    /\ saves \in 0..MaxSaves /\ edits \in 0..MaxEdits /\ version \in 0..MaxSaves
    /\ base \in [Window -> 0..Unseen]
    /\ deleted \subseteq Mark /\ emptied \subseteq Mark
    /\ careless \subseteq {"blind", "stale", "crossed"}

\* A stored mark whose position restore_marks can read (markit.js:190) stays until the
\* user deletes it, and its text until he enters an input that is bound to be emptied:
\* on_save (markit.js:153) posts the whole table over them.  He has to save only when the
\* stored row is restored, no other window has saved since, and no save is on its way.
NothingForgotten ==
    [][careless = {} =>
          LET lasting == ToSet(stored.marks) \ (deleted \cup Unreadable)
          IN  /\ lasting \subseteq ToSet(stored'.marks)
              /\ lasting \cap stored'.blank \subseteq stored.blank \cup emptied]_vars

\* What is restored is added to the rows that are there (markit.js:193), but no mark is
\* ever shown or stored twice, unless a window was saved before its marks were restored.
NoDuplicates ==
    "blind" \notin careless =>
        /\ \A w \in Window : IsInjective(table[w])
        /\ IsInjective(stored.marks)

\* The hint that disappears when the input is entered (markit.js:136), and restored tags that take
\* its place, never cost the user the tags he has saved.
TagsKept ==
    [][careless = {} /\ stored.tags = "own" => stored'.tags = "own"]_vars

\* A user who has clicked gets a dialog, whichever clicks and files cross, unless a file
\* fails to load (markit.loader.js:86, markit.js:300).
Appears ==
    \A w \in Window : clicks[w] > 0 ~> dialogs[w] > 0 \/ failed[w] # {}
=============================================================================
