# A verification of jff

jff is one author's collection of programs, notes and settings. Most of its
3394 files are vendored (ckeditor, jQuery, echo3), prose or configuration. What
has logic of its own, and state that several actors share, is modelled here in
TLA+, checked with TLC on small instances and proved about with TLAPS.
Paths are relative to `src/`. That logic is in Perl, SQL and shell; of some 305,000
lines of JavaScript all but about a thousand (MarkIt, timeline) are vendored
libraries, and no share of those is covered.

## 1. Inventory

### 1.1 What is modelled

**mysql-dvv** (`mysql-dvv/`). Dotted version vectors for MySQL masters that
replicate asynchronously, as stored functions and triggers.

* State: on each server, the row of a table with its `logicalClock` (vector, dot,
  sibling flag), its row set in `SomeTable__sibling`, the binary log and
  `gtid_executed`.
* Operations: INSERT, SELECT, UPDATE, RECONCILE, soft and hard DELETE, DELETE of the
  marked or of all siblings; each is executed a second time, by the same triggers, on
  every other server.
* Interaction: a client's statement carries the clock it has read; replication
  carries the client's statement, not its effect.
* Hard: a statement meets, on a slave, a row its writer never saw, and the slave
  has to arrive at the counter the origin has stored.
* Correct if: nothing but a deletion makes an acknowledged write disappear before a later
  writer has read it, no conflict is invented, siblings are announced, servers come to hold
  the same values, no slave refuses what a master has accepted.

**QES plumber** (`Perl/QES/bin/plumber`, `lib/Event/Plumber.pm`). An HTTP server
that forks an app for a requester and answers when the app has reported back.

* State: `%g_cookie_to_appinfo`, POE's sessions with their registered states,
  the event queue, SIGCHLD handlers.
* Operations: `exec`, `establish`, `establish2`, `sig_CHLD`, the posted
  `done_exec_app` and `fail_exec_app`, disconnection, termination.
* Hard: what is posted is dispatched later; app, requester, child exit and signal
  come in any order; the record names a session that may be gone.
* Correct if: each app is found under its own cookie, each requester gets one
  answer and the right one, and gets one if its app exits.

**Config::Zilla** (`Perl/ConfigZilla/lib/Config/Zilla/`). `czil` applies rules to
a machine. Its engine forks a process for each rule whose predecessors have been
applied; the process locks the rule, rolls back what an interrupted run left,
prepares, saves its state, executes.

* State: the engine's rule graph, exit codes and wheels; per rule a lock file and
  a state file; the machine itself.
* Hard: kills at any step, files that outlive their process, several czil at
  the same directories, executors that end in any order.
* Correct if: one process at a time applies a rule, the state file of a half-done
  execution stays and nothing is executed on top of it, rules are applied in order and
  told the truth about their predecessors, the limit of processes holds, the engine ends.

**pull-to-hdfs** (`utils/pull-to-hdfs.sh`). Collectors copy log files of many hosts
to HDFS (through HttpFS or HDFS Proxy), to an ssh or to a local directory, through
temporary names.

* State: the names and inodes of the destination, the lock of the host, the two
  ends of a pipeline, retries.
* Hard: every remote call may fail or be carried out although its answer is lost,
  a collector may be stopped at any step, several collectors and the Hadoop job that
  takes files away work on the same names.
* Correct if: a file under its final name is complete, a reported success can be
  relied on, one process reads from a host, the file gets there in the end.

**MarkIt** (`web/MarkIt/markit.loader.js`, `markit.js`, `server/lib/MarkIt/Mark.pm`).
A bookmark opens a dialog in whatever page is shown, to annotate it.

* State: in each window, the files on their way, the script elements, the jQuery of
  the page, the dialog with its table of marks, the inputs that are bound to be emptied
  when they are entered, and its tags; on the server, one row for a user's key and a URL.
* Operations: a click on the bookmark, the arrival or failure of each of four files,
  setting, dragging and deleting marks, entering their texts and the tags, `mark/add`,
  `mark/view`.
* Hard: each click runs the loader again while the last one's files are on their way,
  over XMLHttpRequest or script elements; saving replaces the stored row by what the
  dialog shows, which may be older.
* Correct if: a page gets one dialog and gets it, "Loading" is the truth, a user who
  waits for his requests loses no mark that can be read again, no text that he has not
  entered and no tag, and has no mark twice.

**MyTrac** (`Perl/MyTrac/lib/MyTrac/Database.pm`, `Database/*Op.pm`). A document
database whose files are a git work tree.

* State: names and inodes of the work tree, flocks, git's index and HEAD, the lock
  `.git/mytrac.lck`, the operations of each transaction.
* Operations: `transact()` (each operation executed as it comes, or all after all
  have been prepared), `insert`, `update`, `delete`; `git add`, `rm`, `commit`; the
  rollbacks and destructors of the operations.
* Hard: two locks of different extent; `git commit` takes whatever is in the index;
  rollbacks run git commands of their own; a file is opened before it is locked.
* Correct if: a commit holds one transaction, whole, and nothing of a failed one;
  work tree, index and HEAD agree about files at rest; every transaction ends.

### 1.2 What is not modelled

| Part | Why |
|---|---|
| QES jobs: `Event/Scheduler.pm`, `Event/Worker.pm` | planned, section 2 |
| ccond: conditions and restarts for C | planned, section 2 |
| gssapi-sieve-proxy | planned, section 2 |
| teeload, copy-files-from-hdfs, newsmth, CaptureLogger | one actor, or actors that share nothing; I/O |
| timeline | one user's edits of one table in one page |
| czil's command line and rule classes, Perl web samples, restql | option parsing, pages, stubs |
| encoding-wrapper, tex-auto, unso, callview, some seventy scripts | sequential single-purpose tools |
| Lisp and Erlang experiments, data mining | bindings, tutorials, notes |
| deploy, sysadmin, XDE | declarations that other systems interpret |
| notes, tex, patches, vendored code | no program, or not this repository's |

Within the modelled parts, these are left out: INSERTs that bring a clock
and the `fail_*` triggers of an upgrade (mysql-dvv); malformed requests, which are
answered on the spot, and a second `exec` on one connection (plumber); dry runs and
validate mode, which touch nothing, and the loss of what was written when the power
fails, for which `Engine.pm` has no fsync (Config::Zilla); the controller that starts a
worker per host, bandwidth limits and cookie jars (pull-to-hdfs); colours, layout and all
of a position but whether it can be read again, and the server's users, captchas and
pages, which the dialog does not use (MarkIt); serialisation, the directory a file lies
in, processes that are killed, and callers that catch an operation's exception and go on
(MyTrac).

## 2. Plan

In this order, each as a module with its MC module, then its proofs:

1. done: `VersionVectors`, `Dvv`, `MultiValueRegister`, `DvvRefinement`, `DvvProofs`,
   `DvvRefinementProofs`;
2. done: `Plumber`;
3. done: `RuleExecutor`, `RuleEngine` on top of it, `RuleExecutorProofs`, `RuleEngineProofs`;
4. done: `PullToHdfs`, `PullToHdfsProofs`;
5. done: `MarkItLoader`, `MarkIt`, `MarkItProofs`;
6. done: `MyTrac`, `MyTracProofs`;
7. done: `PlumberProofs`, and the engine's own properties in `RuleEngineProofs`;
8. `Job`: the scheduler's launches and the workers' handshakes over an abstract
   plumber, for every job graph over three nodes. Properties: when the admin gets
   "ok" every stream is connected to the recorded workers at both ends; a worker
   that has reported has its outputs connected; the topological sort against a
   reference definition. Two of the hazards wait for it.
9. `Ccond`: the stacks of handlers and restarts under nested binds, signals and
   `invoke_restart`, refining an abstract dynamic scope.
10. `SieveProxy`: the relay between two handles.

Abstract specifications: the multi-value register (done), the executor protocol
as what the engine implements (done).

All safety properties that the passing runs check are theorems (section 6).

## 3. Modules

`MCx` instantiates `x` for TLC: symmetry sets and, for RuleEngine, MarkIt and MyTrac, a
restriction of the next-state relation (section 4).
Definitions whose name has an underscore and a lower-case adjective
(`FinalClock_unmerged`), each under a comment that begins with "Fault:", are faulty
variants of the definition below them, to see that the properties notice.

### 3.1 mysql-dvv

| Module | Models |
|---|---|
| `VersionVectors` | `dvv-functions.sql`: `vv_descend`, `vv_merge`, `vv_increment`, `vv_dot` |
| `Dvv` | `dvv-triggers.sql`: the triggers on table and sibling table, clients, replication |
| `MultiValueRegister` | what a row promises, without clocks |
| `DvvRefinement` | Dvv as a MultiValueRegister |
| `DvvProofs` | theorems: types, the single INSERT, the counters |
| `DvvRefinementProofs` | theorems: what rows and siblings show, and the refinement |

One row is modelled; rows do not interact. A value is named by the write that
stored it, `<<o, i>>`: the i-th transaction of server `o`. `Update(c, s)` is the
UPDATE trigger on a master, `Replicate(s, o)` a slave's SQL thread that runs the
next statement of `o` through the same trigger. `SiblingsOnSlave` and `FinalClock`
are the trigger's branches for sibling rows and for the clock. GTIDs, channels and
the commit are MySQL's and taken from how `start-mysql-servers.sh` sets them up: an
origin's transactions arrive in order, and after those they follow (`Ready`).
`seen` and `read` in a logged transaction are history.

What a server holds (`Values`) and what it offers a reader (`Offered`) differ. The reader is
that of README.md:63 and 102 of mysql-dvv: he selects the row `deleted IS FALSE`, and
asks for siblings only if the row he finds announces them. So he comes to nothing that
lies behind a row which is softly deleted.

Deletions are not all judged where they are replicated: `SomeTable__protect_deletion` and the
trigger of the sibling table look at rows on the origin only. `ApplyDelete` is such a hard
DELETE on a slave. `PurgeAll` is `DELETE FROM SomeTable__sibling` without a condition, which
passes where all siblings are marked, `ReplicatePurge` the same statement on a slave, which
removes live ones as well; `purge.lost` notes them. One of these statements is modelled.
`PurgeSiblings`, with the condition `deleted IS TRUE`, removes marked ones everywhere.

### 3.2 Plumber

A request `r` names the connection, its POE session and the app forked for it.
plumber is single-threaded, so each handler is an action. `queue` is POE's event
queue; `Dispatch` takes its head and calls the handler, if the session still has
one: what was posted to a session that is gone is discarded there (`Deliver`). `Send` is
an app's HTTP call, `Exit` its end, `Reap` the signal that POE turns into an event.
`Terminate` queues the shutdown of all sessions, in any order but for Master's, which
is last. Requesters are assumed to send one `exec` on a connection (`Unasked`); plumber
itself accepts any number. `FreshCookies` says whether two launches may draw the same cookie
(`time`, pid and a random number up to 9999): the code does not exclude it.

### 3.3 Config::Zilla

`RuleExecutor` is the child process, step by step as in
`_run_executor_in_child_process`, for any number of processes however they were
forked. A kill (the engine's timer, a signal) may come before any step; files stay.
`lockFile[r]` holds the creator of the file, `machine[r]` is clean, dirty or applied. Only
the scalar `$mutex` deletes the lock; a stale one is deleted by an operator, which czil asks
for. `stateFile[r]` is absent, partial (the first of two writes), complete or damaged. A
damaged file was taken for complete by the process that wrote it: `syswrite` may take less
than it is given, `close` may fail, and neither is noticed (Engine.pm:487-491); or the state
was empty, and YAML::Tiny's `--- {}` has no line of its own to be found again
(Engine.pm:447). Every later process refuses it, with exit code 2. `kept[r]` is history:
whether the last execution of the rule went on with a state file.

`RuleEngine` EXTENDS it with any number of engines. The dependency relation is chosen
in the initial state: all of them are explored, cyclic ones included. `Start` is
`_on_start`, `ChildExit` is `_on_child_exit`; both end in `run_executors`, the loops of
`_run_executors`, and fork several processes in one step, as the handler does.

### 3.4 pull-to-hdfs

One file of one host, any number of collectors. The destination maps the temporary
and the final name to inodes, so that an upload goes on writing to the inode it has
created when somebody else deletes or renames the name. `Lost(change)` is a call that
fails, or is carried out without its answer arriving. `Begin` ... `Move` are the
steps of `pull_file_to_hdfs`, `StartPipe` ... `EndPipe` its pipeline, `Interrupt` a
collector that is stopped, `Merge` and `DeleteMerged` the Hadoop job of the header.

`backend`, chosen in the initial state, is the push method:

* "posix": an ssh or local directory. A file shows its length, `mv` replaces.
* "hdfsproxy": HDFS shows of an open file any prefix and does not rename onto an existing
  file. The functions test the status of `local` instead of that of `curl`, so a call
  without an answer passes for done (`Unnoticed`, noted in `swallowed`).
* "httpfs": HDFS too, but `httpfs_move_file` sends the new name without `$DEST_DIR`
  (pull-to-hdfs.sh:355): the file goes to some other place or the call is refused (`Astray`),
  and never gets its final name.

`told` is history: an exit code has said that the file is there. So is `crowded`: two
collectors have been at the file at the same time. `MaxFaults` bounds the faults; once
`crowded` there is no further one after `MaxTogether`.

### 3.5 MarkIt

`MarkItLoader` is one browser window up to the dialog. `load[w][k]` is what the `k`-th
click has on its way: `markit.js` by XMLHttpRequest, by script element, then jQuery,
then jQuery UI. Scripts run one at a time, so each arrival (`Arrive`) is an action that
goes to the end of the script, `main` included. Whether the page has a jQuery, with or
without UI, is chosen in the initial state. With several elements of one id,
`getElementById` may return any.

`MarkIt` EXTENDS it with the dialog's handlers and the server. `Load` is a step of the
loader, with the request that `initialize()` sends when it has created a dialog.
`on_save` posts the rows shown; `Add` and `View` are the server's transactions, in any
order, for each request has its connection; both may fail. `restore_marks` takes the
tags of the answer and appends those of its marks whose coordinates are two unsigned
integers (`Matched`, markit.js:190; `Unreadable` are the marks set at other positions, in a
zoomed page or one that runs from right to left). `armed[w]` are the rows whose inputs are
emptied when they are entered: `on_mark` binds the handler to the inputs of all rows,
those of restored marks included, because `add_mark` returns the table (markit.js:147).
`FocusRow` enters such an input, `TypeRow` fills one that is empty; `blank[w]` are the empty
ones, `emptied` is the history of what has been entered. `careless` is history: under which
circumstances (stored row not yet shown, another window's save not seen, another
request on its way) the user has ever saved; the properties are about users who have not.

Marks are model values: texts without the double quote, which `on_save` does not
escape. The server is modelled by the table of seven columns that `Mark.pm` reads and
writes. The shipped `markit.sql` creates one of twelve, without the column `marks`:
there `mark/add` always fails (`AddFails`), and so does `mark/view`.

### 3.6 MyTrac

The work tree maps names to inodes, a flock is on an inode. Contents are numbers of the
transactions that wrote them, the index and HEAD map names to contents. `OpenFile`,
`LockFile` are `prepare()`, `Execute` is `execute()`, then come `LockGit`, `Add`, `Rm`,
`CommitGit` under `.git/mytrac.lck`, and, last operation first, `Undo` (rollback and
destructor) after a failure or `Release` after success. In mode "sync" each operation is
prepared and executed before the next is prepared, in mode "async" all are prepared first.

A fault is a write error, a lock that cannot be had (`.git/mytrac.lck` included, which dies
in `LockGitFails`), a caller's function that dies, before an operation or after the last
one, or a git command that finds `index.lock` there, because a rollback of somebody else
runs git without `.git/mytrac.lck` (`Meddling`). `select()` itself dies before it reads
(Database.pm:261) and is such a caller. `spoiled` is history: "left" when an undo has left
something behind, "replaced" when a name was given to a new file while another operation, of
whatever transaction, had opened an old one. `Room` is a bound: where a new file is created
there is an inode that no name and no process refers to. Section 5 tells what follows;
`Agree`, `AbortedGone` and `CommitsOwn` are about the time before.

## 4. Runs

| Run | Instance | Shows |
|---|---|---|
| `dvv_two` | 2 masters, 2 clients, 4 statements, a DELETE of all siblings, every kind of deletion | clients that write where they read: `CountersAreGtids`, `OnlyDeletionsLose`, `NoFalseConflict`, `SiblingsAnnounced`, `Convergence`, `CountersGrow`; every statement is executed everywhere (`EverythingReplicated`) |
| `dvv_three` | 3 masters, 2 clients, 4 statements, soft deletions | `ImplementsRegister`: what the tables hold is what the register holds, when two statements reach a third server in either order |
| `dvv_roaming_loss` | 2 masters, clients that move, 5 statements, no deletion | violated: `NoSilentLoss` |
| `dvv_tombstone` | 2 masters, 3 statements, soft deletions | violated: `NoSilentLoss` |
| `plumber` | 2 requesters, 2 cookies, 2 calls per app | `Accounted`, `NothingRepeated`, `AcknowledgedFirst`, `ExitReported` |
| `rule_engine` | 2 engines, one process at a time each, 2 rules, 3 processes | `Exclusive`, `Undoable`, `RollbackFirst`, `DependenciesFirst`, `ToldTheTruth` |
| `rule_engine_concurrent` | 1 engine, 2 processes at a time, 3 rules, 6 processes | `AtMostConcurrent`, `EngineFinishes` |
| `rule_engine_default` | limit 5, 2 rules | violated: `DependenciesFirst` |
| `pull_interrupted` | 2 collectors, 2 blocks, 2 retries, 5 faults; 1 once both have been at the file | one after the other: `Complete`, `Kept`, `Recovers`; also together: `OneReader` |
| `pull_truncated` | 2 collectors, no fault | violated: `Whole` |
| `markit` | 2 windows, 3 clicks in one, 2 marks, one of them unreadable, 2 saves, 2 edits | `OneDialog`, `LoadingIsLoading`, `NoDuplicates`, `NothingForgotten`, `TagsKept`, `Appears` |
| `mytrac` | 2 processes, 3 transactions on 2 files, 1 fault | `Agree`, `AbortedGone`, `CommitsOwn`, `Ends` |

One passing run of each system also checks its type invariant.

### Bounds

* mysql-dvv: of four statements, the INSERT is followed by two that conflict and a third
  that reads one side, reconciles them or deletes the row, softly or, after a soft deletion,
  for good. On three servers four are enough for two writes to cross on the third and be
  reconciled. The run for roaming clients needs five, `dvv_tombstone` three. Every mutant is
  found with these.
* plumber: two requesters share cookies and queue; two calls let an app report
  twice, and `establish` changes nothing.
* Config::Zilla: three processes are one that is interrupted, one that rolls back
  and one of a rival. With a limit of 2 and three rules a process ends while another
  runs and a third waits; six processes leave room for rules started twice.
  `BriskSpec` restricts executors to exits 0 and 1 without a saved state: the engine
  treats all exits alike but for the status it passes on, which `rule_engine` covers
  in full.
* pull-to-hdfs: a file of two blocks can be partly written and partly shown; five faults
  are more than the two attempts of a run can absorb. When both collectors are at the file
  only `OneReader` is claimed, and one fault, a lock that outlives its collector or a
  broken pipeline, is what can go wrong with the lock.
* markit: three clicks are one that is answered "Loading", one that loads and one that
  finds the dialog, in any order of arrival. Dialogs are used where one click was enough
  to load them (`OpenThenUse`), since loading and using meet only in the request that a
  new dialog sends; nothing is run past a save made before the stored marks were shown.
  The theorems need none of this. Two saves and two windows let saves cross and go
  stale. An edit is a row deleted or moved, an armed input entered or an empty one
  filled: two let a restored text be emptied and typed anew, or a mark be moved and
  another one deleted. One mark in two can be read again, so that rows are restored in full, in
  part and not at all.
* mytrac: three transactions are one that fails, one that runs beside it and one that
  comes after both. Two files locked in both orders, every kind of operation. The two
  processes are alike, so the first begins; a single operation does the same in
  either mode; no transaction begins after something is spoiled, of which
  only `Ends` claims anything. One fault, of any of the kinds of section 3.6, is enough for
  a rollback at every step and in every interleaving; two of them are left to the theorems.

All runs are made with CHECK_DEADLOCK FALSE: clients may stop writing, apps may
exit, engines come to their end, bounds are reached.

### Fairness

* `Dvv!FairSpec`: each slave's SQL thread keeps running, as MySQL restarts it.
  Clients promise nothing.
* `Plumber!FairSpec`: the event loop dispatches, the system reports exits, sent calls
  are read. Requesters and apps need not do anything.
* `RuleEngine!Fairness`: executors take their steps (each is one call that returns,
  or the timer kills it) and the engine is told of exits. Operators need not delete
  stale locks.
* `PullToHdfs!FairSpec`: the cron job starts again, and what is started goes on unless
  it is interrupted, which the bound on faults makes finite. `Recovers` is stated for
  ssh and local destinations: on HDFS a file whose writer has died shows its length
  only after lease recovery, which is not this repository's.
* `MarkIt!LoaderFairness`: a browser delivers what it has requested or reports that it
  will not come. Users need not do anything, nor must saves arrive.
* `MyTrac!FairSpec`: a process that is in a transaction goes on; it waits only for
  `.git/mytrac.lck`, whose holder goes on too. Nobody has to begin one.

## 5. Where the code and its words disagree

* `dvv_roaming_loss`: README.md says that data is not lost silently when users
  "are routed to different data center very soon". A statement with a clock
  of another master is accepted ahead of what it supersedes; the trigger then takes
  the late arrival for a conflict and counts one write twice, and the next write of
  that origin re-uses a dot. All other guarantees are stated for clients that
  write where they read (`Roaming = FALSE`).
* `dvv_tombstone`: a soft deletion replicates onto a concurrent UPDATE. The UPDATE goes to
  the siblings and the row becomes a tombstone, so that the SELECT of README.md:102,
  `deleted IS FALSE`, finds nothing and no reader comes to the UPDATE, which nobody has read. On
  the server where they arrive the other way round the row is the UPDATE itself.
  `OnlyDeletionsLose` says what is true instead: such a write is hidden by a tombstone,
  removed with a row that was deleted for good, or lost to a DELETE of all siblings.
* `rule_engine_default`: with the default limit of five, `_run_executors` starts a rule
  again while it runs; the second process is refused the lock, its exit removes the
  rule from the graph, and successors start before the rule is applied. The lock keeps
  the processes themselves apart, whatever the limit (`EnginesExclude`).
* `pull_truncated`: no call fails. One collector is uploading; another one sees its
  temporary file twice with the same size, deletes what has that name by then, the upload
  that has just been completed, and begins one of its own. The first one renames that, empty
  as it is, to the final name and reports success; every later run ends with "different file
  sizes".

Noted while modelling, without a run of their own; the properties are stated around them:

* plumber:155 takes a recorded sid to mean that the requester has no answer yet. Between
  the post and the dispatch of `done_exec_app` it has been promised one, and an app that
  exits then gets it two responses, ok and bad (`NothingRepeated` allows this order only).
* plumber:353 may draw a cookie twice; the second launch overwrites the record of the
  first, and the warning at plumber:147 can be reached. `Accounted` and
  `AcknowledgedFirst` are for cookies that differ.
* mysql-dvv: a hard DELETE, or a DELETE of all siblings, is checked on its origin only. On a
  slave it removes an UPDATE or a live sibling that has arrived there meanwhile.
* Config::Zilla: a state file that was cut short unnoticed (Engine.pm:487-491), or that
  saved an empty state (Engine.pm:447), is refused by every later run with exit code 2,
  until somebody deletes it. Nothing is executed on top (`RollbackFirst`), nothing can be
  undone either.
* pull-to-hdfs: with HttpFS no file gets its final name (pull-to-hdfs.sh:355), and success
  may be reported nevertheless; with HDFS Proxy a call without an answer passes for done
  (:272, :283 and :294). `Kept` is stated around both, `Complete` around the second.
* MyTrac, a lost update: transaction A, in mode "sync", has written a file and fails;
  its rollback, `git checkout`, puts a new file under the name, which B had opened and
  was about to lock. B locks and writes the file that has no name any more, commits what
  else it has written, and `transact()` returns without an exception.
* MyTrac: a file created by an insert that somebody else locks first stays, empty, in
  the work tree: the rollback is skipped for want of the lock (InsertOp.pm:24).
* MyTrac: `git` in a rollback fails while another transaction's git command runs, and
  nobody looks at its status: the file keeps the data of the failed transaction.
* MyTrac: in mode "sync" an operation is listed before it is prepared (Database.pm:203): a
  caller that catches its exception and goes on has it committed without a lock. Not
  modelled.
* MarkIt: a mark that was set at a fractional or negative scroll position is stored, but not
  restored (markit.js:190); the next save, however careful, deletes it.
* MarkIt: setting a mark binds the handler that empties an input to the inputs of all rows
  (markit.js:147): the text of a restored mark disappears when its input is entered, and is
  saved without.
* MarkIt: when jQuery does not load, the element of `markit.js` stays, and each further
  click is answered with "Loading MarkIt dialog!" (markit.js:21).
* MarkIt: the dialog says "Success!" whatever the server has answered (markit.js:170).

## 6. Proofs

All proofs are checked to the last leaf. Constants are arbitrary (any sets of servers,
clients, processes, rules, collectors; any bounds), under the named assumptions of the
modules that declare them.

| Theorem | Says |
|---|---|
| `DvvProofs!TypeCorrect` | `Spec => [](TypeOK /\ Logged)`: every row holds the value of a logged write |
| `DvvProofs!InsertedOnce` | one INSERT, which every other statement has seen |
| `DvvProofs!CountersNeverShrink` | `Spec => CountersGrow`, roaming clients included |
| `DvvProofs!CountersAreGtidsAlways` | `Spec => []CountersAreGtids` |
| `DvvRefinementProofs!OnlyDeletionsEverLose`, `NoFalseConflictEver` | for `~Roaming`: `Spec => []OnlyDeletionsLose`, `Spec => []NoFalseConflict` |
| `DvvRefinementProofs!SiblingsAlwaysAnnounced`, `ServersConverge` | for `~Roaming`: `Spec => []SiblingsAnnounced`, `Spec => []Convergence` |
| `DvvRefinementProofs!RefinesRegister` | for `~Roaming` and soft deletions: `Spec => ImplementsRegister`, the register of `MultiValueRegister` |
| `DvvRefinementProofs!ReplicationGoesOn` | any clients: no slave refuses what a master has logged, and a server that lacks a transaction can execute one |
| `RuleExecutorProofs!TypeCorrect` | `Spec => []TypeOK` |
| `RuleExecutorProofs!MutualExclusion` | `Spec => []Exclusive` |
| `RuleExecutorProofs!AlwaysUndoable` | `Spec => []Undoable`: the state file of a half-done execution stays, whole or as damaged as it was |
| `RuleExecutorProofs!RollsBackFirst` | `Spec => RollbackFirst` |
| `RuleEngineProofs!EnginesForkExecutors` | `EngineSpec => Spec`: the engine implements the executor protocol |
| `RuleEngineProofs!EnginesExclude`, `EnginesUndo` | so the three properties hold for czil, with any limit |
| `RuleEngineProofs!EngineTypeCorrect` | `EngineSpec => []EngineTypeOK` |
| `RuleEngineProofs!AtMostConcurrentAlways` | `EngineSpec => []AtMostConcurrent` |
| `RuleEngineProofs!InOrderOneByOne`, `TruthTold` | for `Concurrent = 1`: `EngineSpec => []DependenciesFirst`, `EngineSpec => []ToldTheTruth` |
| `PlumberProofs!TypeCorrect` | `Spec => []TypeOK` |
| `PlumberProofs!NothingRepeatedAlways` | `Spec => []NothingRepeated`, cookies drawn twice included |
| `PlumberProofs!AccountedAlways`, `AcknowledgedFirstAlways` | for `FreshCookies`: `Spec => []Accounted`, `Spec => []AcknowledgedFirst` |
| `PlumberProofs!ExitNeverLost` | for `FreshCookies`: `Spec => []ExitOnItsWay`, no requester's exit notice is lost before it is sent |
| `PullToHdfsProofs!TypeCorrect` | `Spec => []TypeOK` |
| `PullToHdfsProofs!AtMostOneReader` | `Spec => []OneReader` |
| `PullToHdfsProofs!DeliveredWhole`, `ReportedIsThere` | `Spec => []Complete`, `Spec => []Kept`: for any number of collectors that come one after the other |
| `MarkItProofs!OneDialogAlways`, `LoadingTruthful` | `Spec => []OneDialog`, `Spec => []LoadingIsLoading` |
| `MarkItProofs!TypeCorrect` | `Spec => []TypeOK` |
| `MarkItProofs!NothingForgottenAlways`, `TagsKeptAlways` | `Spec => NothingForgotten`, `Spec => TagsKept` |
| `MarkItProofs!NoDuplicatesAlways` | `Spec => []NoDuplicates` |
| `MarkItProofs!StillLoadingAlways` | `Spec => []StillLoading`: a click has its dialog, a file on its way, or a file that failed |
| `MyTracProofs!TypeCorrect` | `Spec => []TypeOK` |
| `MyTracProofs!FilesAgree`, `FailedNotCommitted` | `Spec => []Agree`, `Spec => []AbortedGone`, both until something is spoiled (section 3.6) |
| `MyTracProofs!OwnCommitted` | `Spec => CommitsOwn`, with the same limit |

**Dvv.** `CountersAreGtids` is not inductive: that a slave arrives at the origin's
counter depends on the statement's clock. The invariant (`GtidInv`) adds that the clock of
every logged update equals what its origin had executed when the statement ran (`seen`),
so that the trigger's increment lands on the write's own number, and that a client's
clock is covered by what its server has executed. `InsertedOnce` is needed first:
two INSERTs would restart the counters. `CountersNeverShrink` uses only the
trigger's own checks, and so holds for roaming clients too.

What is shown rests on two further invariants. `Shown`: each row and sibling carries the dot
of the write it stores (also where the trigger leaves the dot out, `DotOfWrite`) and that
write is superseded by none the server has executed; what is neither superseded nor deleted,
nor lost to a DELETE of all siblings, is found; the flag announces the siblings. It is kept
because an execution leaves exactly the values its writer had not seen (`ExecutionShown`):
the trigger compares dots with the statement's vector, which is that writer's
`gtid_executed` by `GtidInv`. `Causal` says that what a statement had seen is executed
before it. From these follow `SiblingsAnnounced`, `Convergence` and the refinement, where an
INSERT or UPDATE is a Write of the register, a replicated statement a Deliver, everything
else a stutter; a hard deletion would make the register forget. `Knowledge` relates seeing
to reading: a client whose clock is still its server's has read the row and, once it has
merged, every live sibling, so that an accepted UPDATE supersedes only what its client, or a
writer before it, has read. So what is found is lost to a reader only behind a tombstone,
and what is not found was deleted or read: that is `OnlyDeletionsLose`. That reading is
seeing is `NoFalseConflict`.

`ReplicationGoesOn` is about all clients. An INSERT comes first everywhere (`InsertedOnce`),
and what the trigger checks of the statement's own clock (the `dirty` member, a version
vector that is not empty) it has checked on the master before the statement was logged
(`Checked`): so a slave finds neither a duplicate key nor a bad clock. Channels could still
wait for each other. `Preceded` says that whatever a transaction had seen was logged and had
itself seen less; the sets of what was seen are finite, so strict inclusion among them is
well-founded, and of the transactions a server lacks one with a minimal past has nothing
missing before it.

**RuleExecutor.** `IInv` joins to `Undoable` that the lock file of a process that holds one
names it (`Held`), and what a process knows of its rule at each step (`Known`): after
`forget` the machine is clean, in `prepare` the state file is absent, before `execute` it is
not partial, and from `write` on no half-done execution of before is left. That a file may
be damaged costs nothing: `Undoable` and `RollbackFirst` ask that it stays and is in the
way, which a damaged file does as well. `Held` makes the others' steps irrelevant, for they
are at other rules. `Held` survives stale locks since only those of dead processes are
deleted.

**RuleEngine.** A refinement with the identity as its mapping; the invariant `Graphs` is
that engines work on rules of their configuration, so that what they fork are executors of
rules. `Book` is what engines keep: a rule that has left the graph has a process that has
ended, been reaped and returned the recorded code (`Witness`); what is left of the graph is
the dependency relation among the rules left. A fork takes a rule without predecessors,
whose own predecessors have all left, and hands out the recorded codes. With one process at
a time the witness cannot be followed by a second process of its rule while another one
runs, hence `InOrderOneByOne`; with more it can, as `rule_engine_default` shows. `TruthTold`
sharpens the witness: with a limit of one an engine has at most one process for a rule,
ever, and the rule leaves the graph when that process's exit is handled (`Once`), so the
code handed out is that of the only process there was. The limit (`Limited`) counts: a fork
chooses at most as many rules as `MaxCount` allows, which needs finite sets of processes and
rules (`FiniteAssumption`).

**Plumber.** What a requester has been sent and what is still queued for it have to be
taken together. `Told` says of each requester which answers, registered states
and queued events can coexist: after a queued "fail_exec_app" nothing else is queued for
it (`ExitLast`), for the record is deleted when it is posted, and a state that has
answered is registered no more. That an event's cookie is its target's own
(`OwnCookie`) does not need distinct cookies. `Fresh` does: a cookie belongs to one
app, so the exit that a queued `sig_CHLD` reports is that of the app recorded under it.
`AcknowledgedFirst` follows from both: when `establish2` is acknowledged the record
names the requester, hence no exit has been handled and no "fail_exec_app" is queued.

`ExitNeverLost` reads the same account forward. `Expected` says of a requester with an
app and without an answer that its app's record names it, with the `sig_CHLD` still queued
once the app is signalled, or else that its "fail_exec_app" is queued: the record is
deleted in the very step that queues it. With a cookie drawn twice the record is another
app's, and the requester may wait for ever.

**PullToHdfs.** `ReaderHoldsLock`: a reader holds the lock, while a lock may outlive its
reader. It needs nothing else, and `OneReader` holds however many collectors there are.
`Complete` and `Kept` fail when two of them are at the file at once (`pull_truncated`).
`Alone` is about behaviours in which that has not happened and no failure has been taken for
success: one collector is at work (`OneAtWork`), and it knows at each step (`Knows`),
whoever was interrupted before it, that its upload writes to the file that has the temporary
name and that before the rename this file has all its bytes, be it its own or one that was
found.

**MarkIt.** `Waiting`: in a document without a dialog each script element belongs to
a click that has a file on its way, until a library fails. `StillLoading` follows it through
every step of `javascripts_loader`: an answer starts the next file of the same click,
finds the dialog or shows it, or is a failure. `Kept` (of `MarkItProofs`)
holds while the user takes care: a window that has seen the last save shows all that is
stored, the one save on its way carries all that is stored, and an answer with the
version that is stored holds the stored row.

The marks that `NothingForgotten` protects are those that can be read again; `Shows` and
`Carries` leave out the `Unreadable` ones, which an answer does not bring back. Its other
half is about texts. `TextInv` follows a text from the input through request, stored row and
answer to the input of another window: wherever it is empty, somebody has entered an input
that was bound to be emptied (`emptied`).

`NoDuplicates` is not inductive: the answer to `mark/view` is appended to what the user
has set meanwhile, so something has to keep the two apart. `OwnMarks` does: the marks of
a window whose stored marks are not restored yet are in no other table, no request, no
answer and not in the stored row. It is kept because such a window has never been saved
(`"blind"`), and because a mark is new when it is set: it is in no table, no request, no answer
and not in the stored row. That a window asks only once
(`Asked`, from `OneDialog`) is the reason why nothing is appended twice.

**MyTrac.** `Base` joins to the types what the step a process is at says of its operations
(`ControlOf`, `HandleOf`): which are opened, which are locked, that `.git/mytrac.lck` is
held from `Add` to `CommitGit`; and that each running transaction has a number of its own
(`Numbers`). It holds always. The rest, `Files` and `Contents`, holds until something is
spoiled, and this is what fails after the hazards of section 5.

`Files`: of operations that have opened files, those on one name have one inode (`OneFile`),
no name leads to an inode opened under another (`Named`, `OneName`), a lock has one holder
(`OneLock`). So a lock on an inode is a lock on its name, which `flock` alone does not give.
`Contents`: index and HEAD differ only in files that the holder of `.git/mytrac.lck` has
locked (`Staged`), hence `git commit`, which takes all of the index, takes its own files
only; a locked operation finds what its last step has left (`Held`): an executed write is in
its inode, after `Add` in the index, after `CommitGit` in HEAD; a file that nobody has
locked or just created is as in HEAD (`Settled`); HEAD holds no number of a failed
transaction, nor of one that has not committed yet (`Committed`). Two details were needed to
close the induction. An insert takes an empty file, once it has the lock, for its own
(InsertOp.pm:27); `EmptyFile` says that HEAD has no such file then, unless the undo of an
update, which put it there, still holds the lock. And an insert that is undone holds its
lock (`UndoneInsert`), or the file it leaves spoils the state. `Agree`, `AbortedGone` and
`CommitsOwn` follow from `Settled` and `Staged`, from `Committed`, and from `Held` and
`Staged` in the step of `CommitGit`.

## 7. What is only model-checked

* Liveness (`EverythingReplicated`, `ExitReported`, `EngineFinishes`, `Recovers`,
  `Appears`, `Ends`): it rests on fairness and ENABLED, which the prover does not handle. Of
  three of them the safety half is proved: that what must be done is never lost or
  blocked (`ReplicationGoesOn` for `EverythingReplicated`, `ExitNeverLost` for
  `ExitReported`, `StillLoadingAlways` for `Appears`); that it is done needs the fairness.
* What recursive definitions compute (`Acyclic`, the search for a topological order):
  induction over data is out of reach of the installed provers.

`DependenciesFirst` and `ToldTheTruth` for more than one process at a time, and `Complete` and
`Kept` for collectors that are at the file together, are not open: they are false (section 5).
