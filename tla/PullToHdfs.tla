----------------------------- MODULE PullToHdfs -----------------------------
(***************************************************************************)
(* utils/pull-to-hdfs.sh: collectors copy a log file of a host to HDFS.    *)
(*                                                                         *)
(* One file of one host is modelled, with all collectors that pull it.     *)
(* Each call over the network is one step; it may fail, or be carried out  *)
(* although its answer is lost.  The destination is a file system in       *)
(* which a name refers to an inode: an upload goes on writing to the inode *)
(* it has created, whatever happens to the name.                           *)
(***************************************************************************)
EXTENDS Naturals, FiniteSets

CONSTANTS
    Collector,  \* worker processes that pull from the host
    Size,       \* size of the source file
    Retries,    \* RETRIES_ON_WRITE
    MaxFaults,  \* bound: calls that fail, answers lost, interruptions
    MaxTogether \* the same, once two collectors have been at the file at once

ASSUME SizeAssumption == Size \in Nat \ {0}
ASSUME RetriesAssumption == Retries \in Nat \ {0}
ASSUME FaultsAssumption == MaxFaults \in Nat /\ MaxTogether \in 0 .. MaxFaults

VARIABLES
    backend,    \* the push method: "httpfs", "hdfsproxy" or "posix" (ssh, local)
    len,        \* per inode: bytes written
    open,       \* per inode: is it still being written, or was when its writer died?
    tmp,        \* what "$file_name.tmp" refers to
    final,      \* what "$file_name" refers to
    done,       \* does "$file_name.done" exist?
    lock,       \* who holds $LOCK_FILE on the source host
    pc,         \* per collector: its next step
    seen,       \* $dest_file_size
    cat,        \* the reading end of its pipeline
    upload,     \* the writing end
    writing,    \* the inode it writes to
    retries,    \* $write_retries
    faults,
    \* History, for the properties:
    told,       \* has an exit code said that the file is there (0, 1)?
    swallowed,  \* has a call that failed passed for done?
    crowded     \* have two collectors been at the file at once?

destination == <<len, open, tmp, final, done>>
pipeline == <<cat, upload, writing>>
worker == <<pc, seen, retries, told>>
trouble == <<faults, swallowed>>
vars == <<backend, destination, lock, pipeline, worker, trouble, crowded>>
-----------------------------------------------------------------------------
Inode == 1 .. Cardinality(Collector) + 2
None == 0

Calls == {"query done", "query final", "query tmp", "query again",
          "tidy", "delete", "move", "move found"}

TypeOK ==
    /\ backend \in {"httpfs", "hdfsproxy", "posix"}
    /\ len \in [Inode -> 0 .. Size]
    /\ open \in [Inode -> BOOLEAN]
    /\ tmp \in Inode \cup {None} /\ final \in Inode \cup {None}
    /\ done \in BOOLEAN
    /\ lock \in {{}} \cup {{c} : c \in Collector}
    /\ pc \in [Collector -> Calls \cup {"idle", "pipe"}]
    /\ seen \in [Collector -> 0 .. Size]
    /\ cat \in [Collector -> {"none", "start", "reading", "ok", "failed"}]
    /\ upload \in [Collector -> {"none", "start", "writing", "ok", "failed"}]
    /\ writing \in [Collector -> Inode \cup {None}]
    /\ retries \in [Collector -> 0 .. Retries]
    /\ faults \in 0 .. MaxFaults
    /\ told \in BOOLEAN /\ swallowed \in BOOLEAN /\ crowded \in BOOLEAN

Init ==
    /\ backend \in {"httpfs", "hdfsproxy", "posix"}
    /\ len = [i \in Inode |-> 0]
    /\ open = [i \in Inode |-> FALSE]
    /\ tmp = None /\ final = None
    /\ done = FALSE
    /\ lock = {}
    /\ pc = [c \in Collector |-> "idle"]
    /\ seen = [c \in Collector |-> 0]
    /\ cat = [c \in Collector |-> "none"]
    /\ upload = [c \in Collector |-> "none"]
    /\ writing = [c \in Collector |-> None]
    /\ retries = [c \in Collector |-> 0]
    /\ faults = 0
    /\ told = FALSE /\ swallowed = FALSE /\ crowded = FALSE
-----------------------------------------------------------------------------
Strike == faults < (IF crowded THEN MaxTogether ELSE MaxFaults) /\ faults' = faults + 1
Fault == Strike /\ UNCHANGED swallowed

(* hdfsproxy_*: the status that is tested is that of "local", so a call that
   gets no answer passes for done. *)
Unnoticed == backend = "hdfsproxy" /\ Strike /\ swallowed' = TRUE

Goto(c, step) == pc' = [pc EXCEPT ![c] = step] /\ UNCHANGED <<seen, retries, told>>

\* The next run of the cron job comes to the file.
Begin(c) ==
    /\ pc[c] = "idle"
    /\ pc' = [pc EXCEPT ![c] = "query done"]
    /\ retries' = [retries EXCEPT ![c] = 1]
    /\ UNCHANGED <<destination, lock, pipeline, seen, told, trouble>>

\* Fault: $write_retries is incremented after the comparison.
Again_once_more(c) == retries[c] <= Retries

Again(c) == retries[c] < Retries

\* The variables of a function end with it.
Leave(c) ==
    /\ pc' = [pc EXCEPT ![c] = "idle"]
    /\ retries' = [retries EXCEPT ![c] = 0]
    /\ seen' = [seen EXCEPT ![c] = 0]

\* pull_to_hdfs: 255 is retried, everything else ends the file for this run.
Return(c, exit_code) ==
    /\ told' = (told \/ exit_code \in {0, 1})
    /\ \/ /\ exit_code = 255 /\ Again(c)
          /\ pc' = [pc EXCEPT ![c] = "query done"]
          /\ retries' = [retries EXCEPT ![c] = @ + 1]
          /\ seen' = [seen EXCEPT ![c] = 0]
       \/ ~(exit_code = 255 /\ Again(c)) /\ Leave(c)

\* query_file_size: HDFS shows of a file that is open what has been completed.
Sizes(i) == IF open[i] /\ backend # "posix" THEN 0 .. len[i] ELSE {len[i]}

QueryDone(c) ==
    /\ pc[c] = "query done"
    /\ IF done THEN Return(c, 1) ELSE Goto(c, "query final")
    /\ UNCHANGED <<destination, lock, pipeline, trouble>>

QueryFinal(c) ==
    /\ pc[c] = "query final"
    /\ \/ final = None /\ Goto(c, "query tmp")
       \/ /\ final # None
          /\ \E size \in Sizes(final) : IF size = Size THEN Goto(c, "tidy") ELSE Return(c, 3)
    /\ UNCHANGED <<destination, lock, pipeline, trouble>>

\* Fault: any temporary file is taken for a complete one.
Uploaded_any(size) == TRUE

Uploaded(size) == size = Size

QueryTmp(c) ==
    /\ pc[c] = "query tmp"
    /\ \/ tmp = None /\ Goto(c, "pipe")
       \/ /\ tmp # None
          /\ \E size \in Sizes(tmp) :
               IF Uploaded(size) THEN Goto(c, "move found")
               ELSE /\ pc' = [pc EXCEPT ![c] = "query again"]
                    /\ seen' = [seen EXCEPT ![c] = size]
                    /\ UNCHANGED <<retries, told>>
    /\ UNCHANGED <<destination, lock, pipeline, trouble>>

\* 10 to 39 seconds later: does the temporary file grow?
QueryAgain(c) ==
    /\ pc[c] = "query again"
    /\ \/ tmp = None /\ Return(c, 2)
       \/ /\ tmp # None
          /\ \E size \in Sizes(tmp) :
               \/ /\ size = seen[c]
                  /\ pc' = [pc EXCEPT ![c] = "delete"]
                  /\ seen' = [seen EXCEPT ![c] = 0]
                  /\ UNCHANGED <<retries, told>>
               \/ size # seen[c] /\ Return(c, 2)
    /\ UNCHANGED <<destination, lock, pipeline, trouble>>

\* A call that changes the destination is seen to fail; it may have been carried out.
Lost(change) == Fault /\ (change \/ UNCHANGED <<tmp, final>>)

DeletesTmp == tmp # None /\ tmp' = None /\ UNCHANGED final

\* The file is there: what is left of a second upload is removed, if that works.
Tidy(c) ==
    /\ pc[c] = "tidy"
    /\ Return(c, 1)
    /\ \/ DeletesTmp /\ UNCHANGED trouble
       \/ tmp = None /\ UNCHANGED <<tmp, final, trouble>>
       \/ Lost(DeletesTmp)
    /\ UNCHANGED <<len, open, done, lock, pipeline>>

Delete(c) ==
    /\ pc[c] = "delete"
    /\ \/ DeletesTmp /\ Goto(c, "pipe") /\ UNCHANGED trouble
       \/ tmp = None /\ Return(c, 255) /\ UNCHANGED <<tmp, final, trouble>>
       \/ Lost(DeletesTmp) /\ Return(c, 255)
       \/ Unnoticed /\ Goto(c, "pipe") /\ UNCHANGED <<tmp, final>>
    /\ UNCHANGED <<len, open, done, lock, pipeline>>

\* mv replaces the destination, HDFS does not.
Movable == tmp # None /\ (backend = "hdfsproxy" => final = None)

(* httpfs_move_file leaves out $DEST_DIR: what is renamed goes to some other
   place, if HttpFS knows that place at all. *)
Astray == backend = "httpfs" /\ tmp # None /\ tmp' = None /\ UNCHANGED final

MovesTmp ==
    \/ backend # "httpfs" /\ Movable /\ final' = tmp /\ tmp' = None
    \/ Astray

\* The name of the temporary file is changed, be it one's own or one that was found.
Move(c) ==
    LET Moved == Return(c, IF pc[c] = "move" THEN 0 ELSE 1)
    IN  /\ pc[c] \in {"move", "move found"}
        /\ \/ MovesTmp /\ Moved /\ UNCHANGED trouble
           \/ /\ ~Movable \/ backend = "httpfs"
              /\ Return(c, 255) /\ UNCHANGED <<tmp, final, trouble>>
           \/ Lost(MovesTmp) /\ Return(c, 255)
           \/ Unnoticed /\ Moved /\ UNCHANGED <<tmp, final>>
        /\ UNCHANGED <<len, open, done, lock, pipeline>>

\* A query fails.
QueryFails(c) ==
    /\ pc[c] \in {"query done", "query final", "query tmp", "query again"}
    /\ Fault
    /\ Return(c, 255)
    /\ UNCHANGED <<destination, lock, pipeline>>
-----------------------------------------------------------------------------
(* ssh host flock -n LOCK_FILE cat file | upload_file file.tmp *)

StartPipe(c) ==
    /\ pc[c] = "pipe" /\ cat[c] = "none"
    /\ cat' = [cat EXCEPT ![c] = "start"]
    /\ upload' = [upload EXCEPT ![c] = "start"]
    /\ UNCHANGED <<destination, lock, writing, worker, trouble>>

\* Fault: without flock.
Flock_none(c) == cat' = [cat EXCEPT ![c] = "reading"] /\ lock' = {c}

Flock(c) ==
    IF lock = {} THEN lock' = {c} /\ cat' = [cat EXCEPT ![c] = "reading"]
    ELSE cat' = [cat EXCEPT ![c] = "failed"] /\ UNCHANGED lock

StartCat(c) ==
    /\ cat[c] = "start"
    /\ Flock(c)
    /\ UNCHANGED <<destination, upload, writing, worker, trouble>>

\* cat has written the file into the pipe.
EndCat(c) ==
    /\ cat[c] = "reading"
    /\ cat' = [cat EXCEPT ![c] = "ok"]
    /\ lock' = lock \ {c}
    /\ UNCHANGED <<destination, upload, writing, worker, trouble>>

CatFails(c) ==
    /\ cat' = [cat EXCEPT ![c] = "failed"]
    /\ lock' = lock \ {c}
    /\ UNCHANGED <<destination, upload, writing, worker>>

\* The other end of the pipe is closed.
SigPipe(c) ==
    /\ cat[c] \in {"start", "reading"} /\ upload[c] \in {"ok", "failed"}
    /\ CatFails(c)
    /\ UNCHANGED trouble

\* ssh fails, or another file of the host is being read.
BreakCat(c) == cat[c] \in {"start", "reading"} /\ Fault /\ CatFails(c)

\* The temporary file is created, exclusively.
Create(c) ==
    /\ upload[c] = "start"
    /\ IF tmp # None
       THEN upload' = [upload EXCEPT ![c] = "failed"] /\ UNCHANGED <<destination, writing>>
       ELSE \E i \in Inode :
              /\ i # final /\ \A d \in Collector : i # writing[d]
              /\ \A j \in Inode : j # final /\ (\A d \in Collector : j # writing[d]) => i <= j
              /\ tmp' = i
              /\ len' = [len EXCEPT ![i] = 0]
              /\ open' = [open EXCEPT ![i] = TRUE]
              /\ upload' = [upload EXCEPT ![c] = "writing"]
              /\ writing' = [writing EXCEPT ![c] = i]
              /\ UNCHANGED <<final, done>>
    /\ UNCHANGED <<lock, cat, worker, trouble>>

Write(c) ==
    /\ upload[c] = "writing" /\ cat[c] \in {"reading", "ok"}
    /\ len[writing[c]] < Size
    /\ len' = [len EXCEPT ![writing[c]] = @ + 1]
    /\ UNCHANGED <<open, tmp, final, done, lock, pipeline, worker, trouble>>

\* The input has ended: HDFS completes the file only under the name it was created.
EndUpload(c) ==
    /\ upload[c] = "writing"
    /\ \/ cat[c] = "failed"
       \/ cat[c] = "ok" /\ len[writing[c]] = Size
    /\ LET completed == backend # "posix" => tmp = writing[c]
       IN  /\ upload' = [upload EXCEPT ![c] = IF completed THEN "ok" ELSE "failed"]
           /\ open' = [open EXCEPT ![writing[c]] = ~completed]
    /\ UNCHANGED <<len, tmp, final, done, lock, cat, writing, worker, trouble>>

BreakUpload(c) ==
    /\ upload[c] \in {"start", "writing"}
    /\ \/ Fault /\ upload' = [upload EXCEPT ![c] = "failed"]
       \/ Unnoticed /\ upload' = [upload EXCEPT ![c] = "ok"]
    /\ UNCHANGED <<destination, lock, cat, writing, worker>>

NoPipe(c) ==
    /\ cat' = [cat EXCEPT ![c] = "none"]
    /\ upload' = [upload EXCEPT ![c] = "none"]
    /\ writing' = [writing EXCEPT ![c] = None]

\* Fault: the exit code of ssh is lost (no pipefail).
PipeStatus_last(c) == IF upload[c] = "failed" THEN 255 ELSE 0

PipeStatus(c) == IF upload[c] = "failed" THEN 255 ELSE IF cat[c] = "failed" THEN 254 ELSE 0

EndPipe(c) ==
    /\ cat[c] \in {"ok", "failed"} /\ upload[c] \in {"ok", "failed"}
    /\ IF PipeStatus(c) = 0 THEN Goto(c, "move") ELSE Return(c, PipeStatus(c))
    /\ NoPipe(c)
    /\ UNCHANGED <<destination, lock, trouble>>
-----------------------------------------------------------------------------
\* The worker and its pipeline are killed; flock may outlive them for a while.
Interrupt(c) ==
    /\ pc[c] # "idle"
    /\ Fault
    /\ Leave(c) /\ UNCHANGED told
    /\ NoPipe(c)
    /\ lock' \in {lock, lock \ {c}}
    /\ UNCHANGED destination

Drain(c) ==
    /\ cat[c] # "reading"
    /\ c \in lock /\ lock' = lock \ {c}
    /\ UNCHANGED <<destination, pipeline, worker, trouble>>

\* The Hadoop job has merged the file: it touches .done, then deletes the file.
Merge ==
    /\ final # None /\ ~done
    /\ done' = TRUE
    /\ UNCHANGED <<len, open, tmp, final, lock, pipeline, worker, trouble>>

DeleteMerged ==
    /\ done /\ final # None
    /\ final' = None
    /\ UNCHANGED <<len, open, tmp, done, lock, pipeline, worker, trouble>>

Step(c) ==
    \/ Begin(c)
    \/ QueryDone(c) \/ QueryFinal(c) \/ QueryTmp(c) \/ QueryAgain(c)
    \/ Tidy(c) \/ Delete(c) \/ Move(c)
    \/ StartPipe(c) \/ StartCat(c) \/ EndCat(c) \/ Create(c) \/ Write(c) \/ EndUpload(c)
    \/ SigPipe(c) \/ EndPipe(c) \/ Drain(c)

\* Two collectors at the file at once are seen by nobody.
Watch ==
    /\ crowded' = (crowded \/ \E c, d \in Collector : c # d /\ pc'[c] # "idle" /\ pc'[d] # "idle")
    /\ UNCHANGED backend

Next ==
    /\ \/ \E c \in Collector :
            Step(c) \/ QueryFails(c) \/ BreakCat(c) \/ BreakUpload(c) \/ Interrupt(c)
       \/ Merge \/ DeleteMerged
    /\ Watch

Spec == Init /\ [][Next]_vars

\* The cron job runs again and again, and what it starts goes on unless it is stopped.
FairSpec ==
    /\ Spec
    /\ \A c \in Collector :
        /\ WF_vars(Begin(c) /\ Watch) /\ WF_vars(Drain(c) /\ Watch)
        /\ WF_vars(pc[c] # "idle" /\ Step(c) /\ Watch)
-----------------------------------------------------------------------------
(* Properties *)

\* What is under the final name has all the bytes of its source.
Whole == final # None => len[final] = Size

(* exit code 0 is "upload successfully": a file under its final name has all
   its bytes, whatever was interrupted on the way and whichever collector goes
   on with it.  Said of collectors that come one after the other, and of
   hdfsproxy as long as no failure has been swallowed; HttpFS never gets a file
   there. *)
Complete == ~swallowed /\ ~crowded => Whole

(* Once an exit code (0 or 1) has said that the file is there, it can be relied
   on: the file is there for good, or has been merged.  Not with
   HttpFS, which is told another name; otherwise under the same conditions. *)
Kept ==
    backend # "httpfs" /\ ~swallowed /\ ~crowded =>
        (told => done \/ (final # None /\ Whole))

(* "On each host there is at most one ssh cat process to pull data", however
   many collectors are at it at once, and whatever lock was left behind. *)
OneReader == Cardinality({c \in Collector : cat[c] = "reading"}) <= 1

(* "can be interrupted at any time and recover later": collectors that come one
   after the other get the file there, to stay until it is merged.  Said of ssh
   and local destinations; on HDFS it takes lease recovery, an external. *)
Recovers == backend = "posix" => <>[](crowded \/ done \/ (final # None /\ Whole))
=============================================================================
