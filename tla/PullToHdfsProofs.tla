-------------------------- MODULE PullToHdfsProofs --------------------------
(***************************************************************************)
(* Theorems about PullToHdfs, for any number of collectors, any file size  *)
(* and any number of faults.                                               *)
(***************************************************************************)
EXTENDS PullToHdfs, FiniteSetTheorems, TLAPS

(* A collector reads the file only while it holds the lock of the host; the
   lock outlives a killed reader, never the other way round. *)
ReaderHoldsLock ==
    /\ lock \in {{}} \cup {{c} : c \in Collector}
    /\ cat \in [Collector -> {"none", "start", "reading", "ok", "failed"}]
    /\ \A c \in Collector : cat[c] = "reading" => lock = {c}

\* Two readers would hold the same lock.
LEMMA OneHolder == ReaderHoldsLock => OneReader
  <1> SUFFICES ASSUME ReaderHoldsLock PROVE OneReader
    OBVIOUS
  <1> DEFINE readers == {c \in Collector : cat[c] = "reading"}
  <1>1. CASE readers = {}
    BY <1>1, FS_EmptySet DEF OneReader
  <1>2. ASSUME NEW c \in readers PROVE OneReader
    <2>1. readers = {c}
      BY DEF ReaderHoldsLock
    <2>2. Cardinality(readers) = 1
      BY <2>1, FS_Singleton
    <2> QED
      BY <2>2 DEF OneReader
  <1> QED
    BY <1>1, <1>2

\* The actions that neither start nor end a reader.
LEMMA OthersKeepReaders ==
  ASSUME ReaderHoldsLock, UNCHANGED <<lock, cat>>
  PROVE  ReaderHoldsLock'
  BY DEF ReaderHoldsLock

\* A pipeline starts with nothing read.
LEMMA StartPipeReaders ==
  ASSUME ReaderHoldsLock, NEW c \in Collector, StartPipe(c)
  PROVE  ReaderHoldsLock'
  BY DEF StartPipe, ReaderHoldsLock

\* flock gives the lock to one reader, if nobody has it.
LEMMA StartCatReaders ==
  ASSUME ReaderHoldsLock, NEW c \in Collector, StartCat(c)
  PROVE  ReaderHoldsLock'
  BY DEF StartCat, Flock, ReaderHoldsLock

\* The reader ends, and its lock with it.
LEMMA EndCatReaders ==
  ASSUME ReaderHoldsLock, NEW c \in Collector, EndCat(c)
  PROVE  ReaderHoldsLock'
  BY DEF EndCat, ReaderHoldsLock

\* So it does when its output is closed,
LEMMA SigPipeReaders ==
  ASSUME ReaderHoldsLock, NEW c \in Collector, SigPipe(c)
  PROVE  ReaderHoldsLock'
  BY DEF SigPipe, CatFails, ReaderHoldsLock

\* or its connection lost.
LEMMA BreakCatReaders ==
  ASSUME ReaderHoldsLock, NEW c \in Collector, BreakCat(c)
  PROVE  ReaderHoldsLock'
  BY DEF BreakCat, CatFails, ReaderHoldsLock

\* Both ends are over by then.
LEMMA EndPipeReaders ==
  ASSUME ReaderHoldsLock, NEW c \in Collector, EndPipe(c)
  PROVE  ReaderHoldsLock'
  BY DEF EndPipe, NoPipe, ReaderHoldsLock

\* A reader that is killed may leave its lock behind.
LEMMA InterruptReaders ==
  ASSUME ReaderHoldsLock, NEW c \in Collector, Interrupt(c)
  PROVE  ReaderHoldsLock'
  BY DEF Interrupt, NoPipe, ReaderHoldsLock

\* It is given up later; nobody else has been reading.
LEMMA DrainReaders ==
  ASSUME ReaderHoldsLock, NEW c \in Collector, Drain(c)
  PROVE  ReaderHoldsLock'
  <1>1. lock = {c}
    BY DEF Drain, ReaderHoldsLock
  <1>2. lock' = {}
    BY <1>1 DEF Drain
  <1>3. \A d \in Collector : cat[d] # "reading"
    <2>1. ASSUME NEW d \in Collector, cat[d] = "reading" PROVE c = d
      BY <1>1, <2>1 DEF ReaderHoldsLock
    <2> QED
      BY <2>1 DEF Drain
  <1> QED
    BY <1>2, <1>3 DEF Drain, pipeline, ReaderHoldsLock

\* One step per action of Next.
LEMMA NextReaders == ReaderHoldsLock /\ [Next]_vars => ReaderHoldsLock'
  <1> SUFFICES ASSUME ReaderHoldsLock, [Next]_vars PROVE ReaderHoldsLock'
    OBVIOUS
  <1>1. CASE UNCHANGED vars
    BY <1>1, OthersKeepReaders DEF vars, pipeline
  <1>2. ASSUME NEW c \in Collector,
               \/ Begin(c) \/ QueryDone(c) \/ QueryFinal(c) \/ QueryTmp(c) \/ QueryAgain(c)
               \/ Tidy(c) \/ Delete(c) \/ Move(c) \/ QueryFails(c)
        PROVE  ReaderHoldsLock'
    BY <1>2, OthersKeepReaders
       DEF Begin, QueryDone, QueryFinal, QueryTmp, QueryAgain, Tidy, Delete, Move, QueryFails, pipeline
  <1>3. ASSUME NEW c \in Collector, Create(c) \/ Write(c) \/ EndUpload(c) \/ BreakUpload(c)
        PROVE  ReaderHoldsLock'
    BY <1>3, OthersKeepReaders DEF Create, Write, EndUpload, BreakUpload, pipeline
  <1>4. ASSUME NEW c \in Collector,
               \/ StartPipe(c) \/ StartCat(c) \/ EndCat(c) \/ SigPipe(c) \/ BreakCat(c)
               \/ EndPipe(c) \/ Interrupt(c) \/ Drain(c)
        PROVE  ReaderHoldsLock'
    BY <1>4, StartPipeReaders, StartCatReaders, EndCatReaders, SigPipeReaders, BreakCatReaders,
       EndPipeReaders, InterruptReaders, DrainReaders
  <1>5. CASE Merge \/ DeleteMerged
    BY <1>5, OthersKeepReaders DEF Merge, DeleteMerged, pipeline
  <1> QED
    BY <1>1, <1>2, <1>3, <1>4, <1>5 DEF Next, Step

(* "On each host there is at most one ssh cat process to pull data", for any
   number of collectors, interrupted at any time. *)
THEOREM AtMostOneReader == Spec => []OneReader
  <1>1. Init => ReaderHoldsLock
    BY DEF Init, ReaderHoldsLock
  <1> QED
    BY <1>1, NextReaders, OneHolder, PTL DEF Spec
-----------------------------------------------------------------------------
(* Types *)

Codes == {0, 1, 2, 3, 254, 255}

\* The types that the steps of a worker, of its pipeline and of the destination touch.
WorkerTypes ==
    /\ pc \in [Collector -> Calls \cup {"idle", "pipe"}]
    /\ seen \in [Collector -> 0 .. Size]
    /\ retries \in [Collector -> 0 .. Retries]
    /\ told \in BOOLEAN

PipelineTypes ==
    /\ cat \in [Collector -> {"none", "start", "reading", "ok", "failed"}]
    /\ upload \in [Collector -> {"none", "start", "writing", "ok", "failed"}]
    /\ writing \in [Collector -> Inode \cup {None}]

DestinationTypes ==
    /\ len \in [Inode -> 0 .. Size] /\ open \in [Inode -> BOOLEAN]
    /\ tmp \in Inode \cup {None} /\ final \in Inode \cup {None} /\ done \in BOOLEAN

TroubleTypes == faults \in 0 .. MaxFaults /\ swallowed \in BOOLEAN

LEMMA LeaveType ==
  ASSUME TypeOK, NEW c \in Collector, Leave(c)
  PROVE  /\ pc' \in [Collector -> Calls \cup {"idle", "pipe"}]
         /\ seen' \in [Collector -> 0 .. Size] /\ retries' \in [Collector -> 0 .. Retries]
         /\ pc'[c] = "idle" /\ \A d \in Collector \ {c} : pc'[d] = pc[d]
  <1>1. 0 \in 0 .. Size /\ 0 \in 0 .. Retries
    BY SizeAssumption, RetriesAssumption
  <1> QED
    BY <1>1 DEF Leave, TypeOK

LEMMA ReturnType ==
  ASSUME TypeOK, NEW c \in Collector, NEW exit_code \in Codes, Return(c, exit_code)
  PROVE  /\ WorkerTypes'
         /\ pc'[c] \in {"idle", "query done"} /\ told' = (told \/ exit_code \in {0, 1})
         /\ \A d \in Collector \ {c} : pc'[d] = pc[d]
  <1>1. told' = (told \/ exit_code \in {0, 1}) /\ told' \in BOOLEAN
    BY DEF Return
  <1>2. WorkerTypes
    BY DEF TypeOK, WorkerTypes
  <1>3. CASE /\ Again(c) /\ pc' = [pc EXCEPT ![c] = "query done"]
             /\ retries' = [retries EXCEPT ![c] = @ + 1]
             /\ seen' = [seen EXCEPT ![c] = 0]
    <2>1. Retries \in Nat /\ retries[c] \in 0 .. Retries /\ retries[c] < Retries
      BY <1>2, <1>3, RetriesAssumption DEF Again, WorkerTypes
    <2>2. retries[c] + 1 \in 0 .. Retries /\ 0 \in 0 .. Size
      BY <2>1, SizeAssumption
    <2>3. /\ pc' \in [Collector -> Calls \cup {"idle", "pipe"}]
          /\ pc'[c] = "query done" /\ \A d \in Collector \ {c} : pc'[d] = pc[d]
      BY <1>2, <1>3 DEF WorkerTypes, Calls
    <2>4. retries' \in [Collector -> 0 .. Retries] /\ seen' \in [Collector -> 0 .. Size]
      BY <1>2, <1>3, <2>2 DEF WorkerTypes
    <2> QED
      BY <1>1, <2>3, <2>4 DEF WorkerTypes
  <1>4. CASE Leave(c)
    BY <1>1, <1>4, LeaveType DEF WorkerTypes
  <1> QED
    BY <1>3, <1>4 DEF Return

LEMMA GotoType ==
  ASSUME TypeOK, NEW c \in Collector, NEW s \in Calls \cup {"idle", "pipe"}, Goto(c, s)
  PROVE  /\ WorkerTypes'
         /\ pc'[c] = s /\ \A d \in Collector \ {c} : pc'[d] = pc[d]
         /\ UNCHANGED told
  BY DEF Goto, TypeOK, WorkerTypes

\* What goes wrong is counted, and what has been swallowed is not forgotten.
LEMMA TroubleType ==
  ASSUME TypeOK, UNCHANGED trouble \/ Fault \/ Unnoticed
  PROVE  TroubleTypes' /\ (swallowed => swallowed')
  <1>1. faults \in 0 .. MaxFaults /\ swallowed \in BOOLEAN
    BY DEF TypeOK
  <1>2. CASE UNCHANGED trouble
    BY <1>1, <1>2 DEF trouble, TroubleTypes
  <1>3. CASE Fault \/ Unnoticed
    <2>1. faults < (IF crowded THEN MaxTogether ELSE MaxFaults) /\ faults' = faults + 1
      BY <1>3 DEF Fault, Unnoticed, Strike
    <2>2. faults' \in 0 .. MaxFaults
      BY <1>1, <2>1, FaultsAssumption
    <2> QED
      BY <1>1, <1>3, <2>2 DEF Fault, Unnoticed, TroubleTypes
  <1> QED
    BY <1>2, <1>3

LEMMA SizesType ==
  ASSUME TypeOK, NEW i \in Inode
  PROVE  Sizes(i) \subseteq 0 .. Size /\ (Size \in Sizes(i) => len[i] = Size)
  BY SizeAssumption DEF TypeOK, Sizes

LEMMA InitTypeOK == Init => TypeOK
  <1> SUFFICES ASSUME Init PROVE TypeOK
    OBVIOUS
  <1>1. /\ len \in [Inode -> 0 .. Size] /\ seen \in [Collector -> 0 .. Size]
        /\ retries \in [Collector -> 0 .. Retries] /\ faults \in 0 .. MaxFaults
    BY SizeAssumption, RetriesAssumption, FaultsAssumption DEF Init
  <1>2. /\ pc \in [Collector -> Calls \cup {"idle", "pipe"}]
        /\ writing \in [Collector -> Inode \cup {None}]
    BY DEF Init, Calls
  <1> QED
    BY <1>1, <1>2 DEF Init, TypeOK

LEMMA TypeParts ==
  TypeOK <=> /\ WorkerTypes /\ PipelineTypes /\ DestinationTypes /\ TroubleTypes
             /\ backend \in {"httpfs", "hdfsproxy", "posix"}
             /\ lock \in {{}} \cup {{c} : c \in Collector}
             /\ crowded \in BOOLEAN
  BY DEF TypeOK, WorkerTypes, PipelineTypes, DestinationTypes, TroubleTypes

\* A query changes what the worker knows.
LEMMA QueryTypes ==
  ASSUME TypeOK, NEW c \in Collector,
         QueryDone(c) \/ QueryFinal(c) \/ QueryTmp(c) \/ QueryAgain(c) \/ QueryFails(c)
  PROVE  /\ WorkerTypes' /\ TroubleTypes' /\ (swallowed => swallowed')
         /\ UNCHANGED <<destination, lock, pipeline>>
         /\ \A d \in Collector \ {c} : pc'[d] = pc[d]
         /\ told' => told \/ done
         /\ pc'[c] = "tidy" => final # None
         /\ pc'[c] = "move found" => tmp # None /\ len[tmp] = Size
         /\ pc'[c] # "move"
         /\ pc[c] \notin {"idle", "pipe"}
  <1>1. UNCHANGED <<destination, lock, pipeline>> /\ pc[c] \notin {"idle", "pipe"}
    BY DEF QueryDone, QueryFinal, QueryTmp, QueryAgain, QueryFails
  <1>2. TroubleTypes' /\ (swallowed => swallowed')
    BY TroubleType DEF QueryDone, QueryFinal, QueryTmp, QueryAgain, QueryFails
  <1>3. CASE Return(c, 1) /\ done
    <2>1. 1 \in Codes
      BY DEF Codes
    <2>2. /\ WorkerTypes' /\ pc'[c] \in {"idle", "query done"}
          /\ \A d \in Collector \ {c} : pc'[d] = pc[d]
      BY <1>3, <2>1, ReturnType
    <2> QED
      BY <1>1, <1>2, <1>3, <2>2
  <1>4. 2 \in Codes \ {0, 1} /\ 3 \in Codes \ {0, 1} /\ 255 \in Codes \ {0, 1}
    BY DEF Codes
  <1>5. ASSUME NEW exit_code \in Codes \ {0, 1}, Return(c, exit_code)
        PROVE  /\ WorkerTypes' /\ pc'[c] \in {"idle", "query done"} /\ (told' => told)
               /\ \A d \in Collector \ {c} : pc'[d] = pc[d]
    BY <1>5, ReturnType
  <1>6. ASSUME NEW s \in {"query final", "query tmp", "tidy", "pipe", "move found"}, Goto(c, s)
        PROVE  /\ WorkerTypes' /\ pc'[c] = s /\ UNCHANGED told
               /\ \A d \in Collector \ {c} : pc'[d] = pc[d]
    <2>1. s \in Calls \cup {"idle", "pipe"}
      BY DEF Calls
    <2> QED
      BY <1>6, <2>1, GotoType
  <1>7. CASE \E s \in {"query final", "query tmp", "pipe"} : Goto(c, s)
    BY <1>1, <1>2, <1>6, <1>7
  <1>8. CASE Goto(c, "tidy") /\ final # None
    BY <1>1, <1>2, <1>6, <1>8
  <1>9. CASE Goto(c, "move found") /\ tmp # None /\ len[tmp] = Size
    BY <1>1, <1>2, <1>6, <1>9
  <1>10. ASSUME NEW s \in {"query again", "delete"}, NEW size \in 0 .. Size,
                pc' = [pc EXCEPT ![c] = s], seen' = [seen EXCEPT ![c] = size],
                UNCHANGED <<retries, told>>
         PROVE  WorkerTypes' /\ pc'[c] = s /\ \A d \in Collector \ {c} : pc'[d] = pc[d]
    BY <1>10 DEF TypeOK, WorkerTypes, Calls
  <1>11. CASE \E s \in {"query again", "delete"}, size \in 0 .. Size :
                 /\ pc' = [pc EXCEPT ![c] = s]
                 /\ seen' = [seen EXCEPT ![c] = size]
                 /\ UNCHANGED <<retries, told>>
    <2>1. WorkerTypes' /\ pc'[c] \in {"query again", "delete"} /\ UNCHANGED told
          /\ \A d \in Collector \ {c} : pc'[d] = pc[d]
      BY <1>10, <1>11
    <2> QED
      BY <1>1, <1>2, <2>1
  <1>12. CASE QueryDone(c)
    BY <1>3, <1>7, <1>12 DEF QueryDone
  <1>13. CASE QueryFinal(c)
    BY <1>1, <1>2, <1>4, <1>5, <1>7, <1>8, <1>13 DEF QueryFinal
  <1>14. CASE QueryTmp(c)
    <2>1. CASE tmp = None
      BY <1>7, <1>14, <2>1 DEF QueryTmp
    <2>2. CASE tmp # None
      <3>1. tmp \in Inode
        BY <2>2 DEF TypeOK
      <3>2. PICK size \in Sizes(tmp) :
               IF Uploaded(size) THEN Goto(c, "move found")
               ELSE /\ pc' = [pc EXCEPT ![c] = "query again"]
                    /\ seen' = [seen EXCEPT ![c] = size]
                    /\ UNCHANGED <<retries, told>>
        BY <1>14, <2>2 DEF QueryTmp
      <3>3. CASE Goto(c, "move found") /\ Uploaded(size)
        BY <1>9, <2>2, <3>1, <3>3, SizesType DEF Uploaded
      <3>4. size \in 0 .. Size
        BY <3>1, SizesType
      <3> QED
        BY <1>11, <3>2, <3>3, <3>4
    <2> QED
      BY <2>1, <2>2
  <1>15. CASE QueryAgain(c)
    <2>1. 0 \in 0 .. Size
      BY SizeAssumption
    <2>2. CASE Return(c, 2)
      BY <1>1, <1>2, <1>4, <1>5, <2>2
    <2> QED
      BY <1>11, <1>15, <2>1, <2>2 DEF QueryAgain
  <1>16. CASE QueryFails(c)
    BY <1>1, <1>2, <1>4, <1>5, <1>16 DEF QueryFails
  <1> QED
    BY <1>12, <1>13, <1>14, <1>15, <1>16

\* Calls that change a name at the destination, and what the worker makes of them.
LEMMA CallTypes ==
  ASSUME TypeOK, NEW c \in Collector, Tidy(c) \/ Delete(c) \/ Move(c)
  PROVE  /\ WorkerTypes' /\ DestinationTypes' /\ TroubleTypes' /\ (swallowed => swallowed')
         /\ UNCHANGED <<len, open, done, lock, pipeline>>
         /\ pc[c] \notin {"idle", "pipe"} /\ pc'[c] \in {"idle", "query done", "pipe"}
         /\ \A d \in Collector \ {c} : pc'[d] = pc[d]
         /\ told' => \/ told /\ UNCHANGED final
                     \/ pc[c] = "tidy" /\ UNCHANGED final
                     \/ pc[c] \in {"move", "move found"} /\ final' = tmp
                     \/ backend = "httpfs" \/ swallowed'
         /\ \/ UNCHANGED <<tmp, final>>
            \/ tmp' = None /\ UNCHANGED final
            \/ tmp' = None /\ final' = tmp /\ pc[c] \in {"move", "move found"}
  <1>1. UNCHANGED <<len, open, done, lock, pipeline>> /\ pc[c] \notin {"idle", "pipe"}
    BY DEF Tidy, Delete, Move
  <1>2. TroubleTypes' /\ (swallowed => swallowed')
    <2>1. UNCHANGED trouble \/ Fault \/ Unnoticed
      BY DEF Tidy, Delete, Move, Lost
    <2> QED
      BY <2>1, TroubleType
  <1>3. \/ UNCHANGED <<tmp, final>>
        \/ tmp' = None /\ UNCHANGED final
        \/ tmp' = None /\ final' = tmp /\ pc[c] \in {"move", "move found"}
    BY DEF Tidy, Delete, Move, Lost, DeletesTmp, MovesTmp, Astray
  <1>4. DestinationTypes'
    BY <1>1, <1>3 DEF TypeOK, DestinationTypes
  <1>5. 0 \in Codes /\ 1 \in Codes /\ 255 \in Codes \ {0, 1}
    BY DEF Codes
  <1>6. ASSUME NEW exit_code \in Codes, Return(c, exit_code)
        PROVE  /\ WorkerTypes' /\ pc'[c] \in {"idle", "query done", "pipe"}
               /\ told' => told \/ exit_code \in {0, 1}
               /\ \A d \in Collector \ {c} : pc'[d] = pc[d]
    BY <1>6, ReturnType
  <1>7. CASE Tidy(c)
    <2>1. pc[c] = "tidy" /\ UNCHANGED final /\ Return(c, 1)
      BY <1>7 DEF Tidy, Lost, DeletesTmp
    <2> QED
      BY <1>1, <1>2, <1>3, <1>4, <1>5, <1>6, <2>1
  <1>8. CASE Delete(c)
    <2>1. UNCHANGED final
      BY <1>8 DEF Delete, Lost, DeletesTmp
    <2>2. CASE Goto(c, "pipe")
      <3>1. WorkerTypes' /\ pc'[c] = "pipe" /\ UNCHANGED told
            /\ \A d \in Collector \ {c} : pc'[d] = pc[d]
        BY <2>2, GotoType
      <3> QED
        BY <1>1, <1>2, <1>3, <1>4, <2>1, <3>1
    <2>3. CASE Return(c, 255)
      BY <1>1, <1>2, <1>3, <1>4, <1>5, <1>6, <2>1, <2>3
    <2> QED
      BY <1>8, <2>2, <2>3 DEF Delete
  <1>9. CASE Move(c)
    <2>1. pc[c] \in {"move", "move found"}
      BY <1>9 DEF Move
    <2>2. final' = tmp \/ UNCHANGED final
      BY <1>3
    <2>3. CASE Return(c, 255)
      <3>1. told' => told
        BY <1>5, <2>3, ReturnType
      <3> QED
        BY <1>1, <1>2, <1>3, <1>4, <1>5, <1>6, <2>1, <2>2, <2>3, <3>1
    <2>4. CASE Return(c, IF pc[c] = "move" THEN 0 ELSE 1) /\ (MovesTmp \/ Unnoticed)
      <3>1. final' = tmp \/ backend = "httpfs" \/ swallowed'
        BY <2>4 DEF MovesTmp, Astray, Unnoticed
      <3> QED
        BY <1>1, <1>2, <1>3, <1>4, <1>5, <1>6, <2>1, <2>4, <3>1
    <2> QED
      BY <1>9, <2>3, <2>4 DEF Move
  <1> QED
    BY <1>7, <1>8, <1>9

\* The two ends of a pipeline.
LEMMA PipeTypes ==
  ASSUME TypeOK, NEW c \in Collector,
         \/ StartPipe(c) \/ StartCat(c) \/ EndCat(c) \/ SigPipe(c) \/ BreakCat(c)
         \/ Create(c) \/ Write(c) \/ EndUpload(c) \/ BreakUpload(c)
  PROVE  /\ PipelineTypes' /\ DestinationTypes' /\ TroubleTypes' /\ (swallowed => swallowed')
         /\ UNCHANGED <<worker, final, done>>
         /\ lock' \in {{}} \cup {{d} : d \in Collector}
         /\ \A d \in Collector \ {c} : /\ cat'[d] = cat[d] /\ upload'[d] = upload[d]
                                       /\ writing'[d] = writing[d]
  <1> USE DEF PipelineTypes, DestinationTypes, pipeline, destination, worker
  <1>0. PipelineTypes /\ DestinationTypes
    BY DEF TypeOK
  <1>1. TroubleTypes' /\ (swallowed => swallowed') /\ UNCHANGED worker
    <2>1. UNCHANGED trouble \/ Fault \/ Unnoticed
      BY DEF StartPipe, StartCat, EndCat, SigPipe, BreakCat, Create, Write, EndUpload, BreakUpload
    <2>2. UNCHANGED worker
      BY DEF StartPipe, StartCat, EndCat, SigPipe, BreakCat, CatFails, Create, Write, EndUpload,
             BreakUpload
    <2> QED
      BY <2>1, <2>2, TroubleType
  <1>2. lock \ {c} \in {{}} \cup {{d} : d \in Collector} /\ lock \in {{}} \cup {{d} : d \in Collector}
    BY DEF TypeOK
  <1>3. CASE StartPipe(c)
    BY <1>0, <1>1, <1>2, <1>3 DEF StartPipe
  <1>4. CASE StartCat(c)
    <2>1. CASE lock = {}
      BY <1>0, <1>1, <1>4, <2>1 DEF StartCat, Flock
    <2>2. CASE lock # {}
      BY <1>0, <1>1, <1>2, <1>4, <2>2 DEF StartCat, Flock
    <2> QED
      BY <2>1, <2>2
  <1>5. CASE EndCat(c)
    BY <1>0, <1>1, <1>2, <1>5 DEF EndCat
  <1>6. CASE SigPipe(c) \/ BreakCat(c)
    BY <1>0, <1>1, <1>2, <1>6 DEF SigPipe, BreakCat, CatFails
  <1>7. CASE Create(c)
    <2>1. CASE tmp # None
      BY <1>0, <1>1, <1>2, <1>7, <2>1 DEF Create
    <2>2. CASE tmp = None
      <3>1. PICK i \in Inode : /\ tmp' = i
                               /\ len' = [len EXCEPT ![i] = 0]
                               /\ open' = [open EXCEPT ![i] = TRUE]
                               /\ upload' = [upload EXCEPT ![c] = "writing"]
                               /\ writing' = [writing EXCEPT ![c] = i]
                               /\ UNCHANGED <<final, done, lock, cat>>
        BY <1>7, <2>2 DEF Create
      <3>2. 0 \in 0 .. Size
        BY SizeAssumption
      <3> QED
        BY <1>0, <1>1, <1>2, <3>1, <3>2
    <2> QED
      BY <2>1, <2>2
  <1>8. CASE Write(c)
    <2>1. writing[c] \in Inode => len[writing[c]] + 1 \in 0 .. Size
      BY <1>0, <1>8, SizeAssumption DEF Write
    <2>2. len' \in [Inode -> 0 .. Size]
      BY <1>0, <1>8, <2>1 DEF Write
    <2> QED
      BY <1>0, <1>1, <1>2, <1>8, <2>2 DEF Write
  <1>9. CASE EndUpload(c)
    BY <1>0, <1>1, <1>2, <1>9 DEF EndUpload
  <1>10. CASE BreakUpload(c)
    BY <1>0, <1>1, <1>2, <1>10 DEF BreakUpload
  <1> QED
    BY <1>3, <1>4, <1>5, <1>6, <1>7, <1>8, <1>9, <1>10

\* A worker begins, ends its pipeline or is killed; a lock that was left is given up.
LEMMA WorkerStepTypes ==
  ASSUME TypeOK, NEW c \in Collector, Begin(c) \/ EndPipe(c) \/ Interrupt(c) \/ Drain(c)
  PROVE  /\ WorkerTypes' /\ PipelineTypes' /\ TroubleTypes' /\ (swallowed => swallowed')
         /\ UNCHANGED destination /\ (told' => told)
         /\ lock' \in {{}} \cup {{d} : d \in Collector}
         /\ \A d \in Collector \ {c} : /\ pc'[d] = pc[d] /\ cat'[d] = cat[d]
                                       /\ upload'[d] = upload[d] /\ writing'[d] = writing[d]
  <1>0. WorkerTypes /\ PipelineTypes
    BY DEF TypeOK, WorkerTypes, PipelineTypes
  <1>1. /\ TroubleTypes' /\ (swallowed => swallowed') /\ UNCHANGED destination
        /\ lock' \in {{}} \cup {{d} : d \in Collector}
    <2>1. lock \in {{}} \cup {{d} : d \in Collector}
      BY DEF TypeOK
    <2>2. lock \ {c} \in {{}} \cup {{d} : d \in Collector}
      <3>1. CASE lock = {}
        BY <3>1
      <3>2. CASE \E d \in Collector : lock = {d}
        <4>1. PICK d \in Collector : lock = {d}
          BY <3>2
        <4>2. lock \ {c} = {} \/ lock \ {c} = {d}
          BY <4>1
        <4> QED
          BY <4>2
      <3> QED
        BY <2>1, <3>1, <3>2
    <2>3. (UNCHANGED trouble \/ Fault) /\ UNCHANGED destination
      BY DEF Begin, EndPipe, Drain, Interrupt
    <2>4. UNCHANGED lock \/ lock' = lock \ {c}
      BY DEF Begin, EndPipe, Interrupt, Drain
    <2> QED
      BY <2>1, <2>2, <2>3, <2>4, TroubleType
  <1>2. ASSUME NoPipe(c)
        PROVE  /\ PipelineTypes'
               /\ \A d \in Collector \ {c} : /\ cat'[d] = cat[d] /\ upload'[d] = upload[d]
                                             /\ writing'[d] = writing[d]
    BY <1>0, <1>2 DEF NoPipe, PipelineTypes
  <1>3. CASE Begin(c)
    <2>1. 1 \in 0 .. Retries /\ "query done" \in Calls
      BY RetriesAssumption DEF Calls
    <2> QED
      BY <1>0, <1>1, <1>3, <2>1 DEF Begin, WorkerTypes, PipelineTypes, pipeline
  <1>4. CASE EndPipe(c)
    <2>1. CASE Goto(c, "move")
      <3>1. "move" \in Calls
        BY DEF Calls
      <3>2. WorkerTypes' /\ UNCHANGED told /\ \A d \in Collector \ {c} : pc'[d] = pc[d]
        BY <2>1, <3>1, GotoType
      <3> QED
        BY <1>1, <1>2, <1>4, <3>2 DEF EndPipe
    <2>2. CASE PipeStatus(c) # 0 /\ Return(c, PipeStatus(c))
      <3>1. PipeStatus(c) \in Codes \ {0, 1}
        BY <2>2 DEF PipeStatus, Codes
      <3>2. WorkerTypes' /\ (told' => told) /\ \A d \in Collector \ {c} : pc'[d] = pc[d]
        BY <2>2, <3>1, ReturnType
      <3> QED
        BY <1>1, <1>2, <1>4, <3>2 DEF EndPipe
    <2> QED
      BY <1>4, <2>1, <2>2 DEF EndPipe
  <1>5. CASE Interrupt(c)
    <2>1. WorkerTypes' /\ UNCHANGED told /\ \A d \in Collector \ {c} : pc'[d] = pc[d]
      BY <1>0, <1>5, LeaveType DEF Interrupt, WorkerTypes
    <2> QED
      BY <1>1, <1>2, <1>5, <2>1 DEF Interrupt
  <1>6. CASE Drain(c)
    BY <1>0, <1>1, <1>6 DEF Drain, worker, pipeline, WorkerTypes, PipelineTypes
  <1> QED
    BY <1>3, <1>4, <1>5, <1>6

LEMMA MergeTypes ==
  ASSUME TypeOK, Merge \/ DeleteMerged
  PROVE  DestinationTypes' /\ UNCHANGED <<lock, pipeline, worker, trouble>>
  BY DEF TypeOK, Merge, DeleteMerged, DestinationTypes

LEMMA TypeStep ==
  ASSUME TypeOK, [Next]_vars
  PROVE  TypeOK' /\ (swallowed => swallowed')
  <1>0. /\ WorkerTypes /\ PipelineTypes /\ DestinationTypes /\ TroubleTypes
        /\ backend \in {"httpfs", "hdfsproxy", "posix"}
        /\ lock \in {{}} \cup {{c} : c \in Collector} /\ crowded \in BOOLEAN
    BY TypeParts
  <1>1. UNCHANGED worker => WorkerTypes'
    BY <1>0 DEF worker, WorkerTypes
  <1>2. UNCHANGED pipeline => PipelineTypes'
    BY <1>0 DEF pipeline, PipelineTypes
  <1>3. UNCHANGED destination => DestinationTypes'
    BY <1>0 DEF destination, DestinationTypes
  <1>4. UNCHANGED backend /\ crowded' \in BOOLEAN
    BY <1>0 DEF Next, vars, Watch
  <1>5. UNCHANGED trouble => TroubleTypes' /\ (swallowed => swallowed')
    BY TroubleType
  <1>6. ASSUME WorkerTypes', PipelineTypes', DestinationTypes', TroubleTypes', swallowed => swallowed',
               lock' \in {{}} \cup {{c} : c \in Collector}
        PROVE  TypeOK' /\ (swallowed => swallowed')
    BY <1>0, <1>4, <1>6 DEF TypeOK, WorkerTypes, PipelineTypes, DestinationTypes, TroubleTypes
  <1>7. CASE UNCHANGED vars
    BY <1>0, <1>1, <1>2, <1>3, <1>5, <1>6, <1>7 DEF vars
  <1>8. ASSUME NEW c \in Collector, \/ QueryDone(c) \/ QueryFinal(c) \/ QueryTmp(c)
                                    \/ QueryAgain(c) \/ QueryFails(c)
        PROVE  TypeOK' /\ (swallowed => swallowed')
    BY <1>0, <1>2, <1>3, <1>6, <1>8, QueryTypes
  <1>9. ASSUME NEW c \in Collector, Tidy(c) \/ Delete(c) \/ Move(c)
        PROVE  TypeOK' /\ (swallowed => swallowed')
    BY <1>0, <1>2, <1>6, <1>9, CallTypes
  <1>10. ASSUME NEW c \in Collector,
               \/ StartPipe(c) \/ StartCat(c) \/ EndCat(c) \/ SigPipe(c) \/ BreakCat(c)
               \/ Create(c) \/ Write(c) \/ EndUpload(c) \/ BreakUpload(c)
        PROVE  TypeOK' /\ (swallowed => swallowed')
    BY <1>1, <1>6, <1>10, PipeTypes
  <1>11. ASSUME NEW c \in Collector, Begin(c) \/ EndPipe(c) \/ Interrupt(c) \/ Drain(c)
         PROVE  TypeOK' /\ (swallowed => swallowed')
    BY <1>3, <1>6, <1>11, WorkerStepTypes
  <1>12. CASE Merge \/ DeleteMerged
    BY <1>0, <1>1, <1>2, <1>5, <1>6, <1>12, MergeTypes
  <1> QED
    BY <1>7, <1>8, <1>9, <1>10, <1>11, <1>12 DEF Next, Step

(* Types, for any number of collectors. *)
THEOREM TypeCorrect == Spec => []TypeOK
  <1>1. TypeOK /\ [Next]_vars => TypeOK'
    BY TypeStep
  <1> QED
    BY <1>1, InitTypeOK, PTL DEF Spec
-----------------------------------------------------------------------------
(* Collectors that come one after the other *)

Quiet == ~swallowed /\ ~crowded

(* What a collector knows of the destination at each step, whatever it or
   another one has left there when it was interrupted. *)
Knows(c) ==
    /\ tmp # None => tmp # final
    /\ pc[c] # "pipe" => cat[c] = "none" /\ upload[c] = "none"
    /\ pc[c] \in {"move", "move found"} => tmp # None /\ len[tmp] = Size
    /\ pc[c] = "tidy" => done \/ final # None
    /\ upload[c] \in {"writing", "ok"} => tmp # None /\ writing[c] = tmp
    /\ upload[c] = "ok" => cat[c] = "failed" \/ (cat[c] = "ok" /\ len[tmp] = Size)

OneAtWork == \A c, d \in Collector : pc[c] # "idle" /\ pc[d] # "idle" => c = d

Alone == Quiet => OneAtWork /\ \A c \in Collector : Knows(c)

AloneInv == TypeOK /\ Complete /\ Kept /\ Alone

LEMMA InitAlone == Init => AloneInv
  <1> SUFFICES ASSUME Init PROVE AloneInv
    OBVIOUS
  <1>1. Kept /\ Complete
    BY DEF Init, Kept, Complete, Whole
  <1>2. Alone
    BY DEF Init, Alone, OneAtWork, Knows
  <1> QED
    BY <1>1, <1>2, InitTypeOK DEF AloneInv

\* What has been merged, and what has got its final name, stays so.
LEMMA KeptStays ==
  ASSUME AloneInv, Quiet, UNCHANGED <<backend, done, final>>,
         final # None => len'[final] = len[final],
         told' => told \/ done \/ final # None
  PROVE  Complete' /\ Kept'
  <1>1. Whole'
    BY DEF AloneInv, Complete, Whole, Quiet
  <1>2. backend # "httpfs" /\ told => done \/ final # None
    BY DEF AloneInv, Kept, Quiet
  <1> QED
    BY <1>1, <1>2 DEF Complete, Kept

LEMMA QueryAlone ==
  ASSUME AloneInv, Quiet, NEW c \in Collector, UNCHANGED backend,
         QueryDone(c) \/ QueryFinal(c) \/ QueryTmp(c) \/ QueryAgain(c) \/ QueryFails(c)
  PROVE  Complete' /\ Kept' /\ Knows(c)'
  <1>1. TypeOK /\ Knows(c)
    BY DEF AloneInv, Alone
  <1>2. /\ UNCHANGED <<len, open, tmp, final, done, cat, upload, writing>> /\ pc[c] # "pipe"
        /\ told' => told \/ done
        /\ pc'[c] = "tidy" => final # None
        /\ pc'[c] = "move found" => tmp # None /\ len[tmp] = Size
        /\ pc'[c] # "move"
    BY <1>1, QueryTypes DEF destination, pipeline
  <1>3. Complete' /\ Kept'
    BY <1>2, KeptStays
  <1>4. Knows(c)'
    BY <1>1, <1>2 DEF Knows
  <1> QED
    BY <1>3, <1>4

LEMMA CallAlone ==
  ASSUME AloneInv, Quiet, ~swallowed', NEW c \in Collector, UNCHANGED backend,
         Tidy(c) \/ Delete(c) \/ Move(c)
  PROVE  Complete' /\ Kept' /\ Knows(c)'
  <1>1. TypeOK /\ Knows(c)
    BY DEF AloneInv, Alone
  <1>2. /\ UNCHANGED <<len, open, done, cat, upload, writing>>
        /\ pc[c] # "pipe" /\ pc'[c] \in {"idle", "query done", "pipe"}
        /\ told' => \/ told /\ UNCHANGED final
                    \/ pc[c] = "tidy" /\ UNCHANGED final
                    \/ pc[c] \in {"move", "move found"} /\ final' = tmp
                    \/ backend = "httpfs"
        /\ \/ UNCHANGED <<tmp, final>>
           \/ tmp' = None /\ UNCHANGED final
           \/ tmp' = None /\ final' = tmp /\ pc[c] \in {"move", "move found"}
    BY <1>1, CallTypes DEF pipeline
  <1>3. cat[c] = "none" /\ upload[c] = "none"
    BY <1>1, <1>2 DEF Knows
  <1>4. Knows(c)'
    BY <1>1, <1>2, <1>3 DEF Knows
  <1>5. pc[c] \in {"move", "move found"} => tmp # None /\ len[tmp] = Size
    BY <1>1 DEF Knows
  <1>6. Whole'
    BY <1>2, <1>5 DEF AloneInv, Complete, Whole, Quiet
  <1>7. backend # "httpfs" /\ told' => done' \/ final' # None
    <2>1. backend # "httpfs" /\ told => done \/ final # None
      BY DEF AloneInv, Kept, Quiet
    <2>2. pc[c] = "tidy" => done \/ final # None
      BY <1>1 DEF Knows
    <2> QED
      BY <1>2, <1>5, <2>1, <2>2
  <1> QED
    BY <1>4, <1>6, <1>7 DEF Kept, Complete

LEMMA PipeAlone ==
  ASSUME AloneInv, Quiet, ~swallowed', NEW c \in Collector, UNCHANGED backend,
         \/ StartPipe(c) \/ StartCat(c) \/ EndCat(c) \/ SigPipe(c) \/ BreakCat(c)
         \/ Create(c) \/ Write(c) \/ EndUpload(c) \/ BreakUpload(c)
  PROVE  Complete' /\ Kept' /\ Knows(c)'
  <1>1. /\ TypeOK /\ Knows(c)
        /\ UNCHANGED <<pc, seen, retries, told, final, done>>
    BY PipeTypes DEF AloneInv, Alone, worker
  <1>2. PipelineTypes /\ DestinationTypes
    BY <1>1, TypeParts
  <1>3. pc[c] = "pipe"
    BY <1>1 DEF Knows, StartPipe, StartCat, EndCat, SigPipe, BreakCat, Create, Write,
                EndUpload, BreakUpload
  <1> DEFINE Ends == /\ upload'[c] \in {"writing", "ok"} => tmp' # None /\ writing'[c] = tmp'
                     /\ upload'[c] = "ok" => cat'[c] = "failed" \/ (cat'[c] = "ok" /\ len'[tmp'] = Size)
                     /\ tmp' # None => tmp' # final
                     /\ final # None => len'[final] = len[final]
  <1>4. /\ upload[c] \in {"writing", "ok"} => tmp # None /\ writing[c] = tmp
        /\ upload[c] = "ok" => cat[c] = "failed" \/ (cat[c] = "ok" /\ len[tmp] = Size)
        /\ tmp # None => tmp # final
    BY <1>1 DEF Knows
  <1>5. Ends
    <2>5. CASE StartPipe(c)
      <3>1. upload'[c] = "start" /\ UNCHANGED <<len, tmp>>
        BY <1>1, <1>2, <2>5 DEF StartPipe, PipelineTypes, destination
      <3> QED
        BY <1>4, <3>1
    <2>6. CASE StartCat(c) \/ EndCat(c) \/ SigPipe(c) \/ BreakCat(c)
      <3>1. UNCHANGED <<len, tmp, upload, writing>> /\ cat[c] \in {"start", "reading"}
        BY <2>6 DEF StartCat, EndCat, SigPipe, BreakCat, CatFails, destination
      <3> QED
        BY <1>4, <3>1
    <2>7. CASE Create(c)
      <3>1. CASE tmp # None
        <4>1. upload'[c] = "failed" /\ UNCHANGED <<len, tmp>>
          BY <1>1, <1>2, <2>7, <3>1 DEF Create, PipelineTypes, destination
        <4> QED
          BY <1>4, <4>1
      <3>2. CASE tmp = None
        <4>1. PICK i \in Inode : /\ i # final /\ tmp' = i
                                 /\ len' = [len EXCEPT ![i] = 0]
                                 /\ upload' = [upload EXCEPT ![c] = "writing"]
                                 /\ writing' = [writing EXCEPT ![c] = i]
          BY <2>7, <3>2 DEF Create
        <4>2. upload'[c] = "writing" /\ writing'[c] = i /\ tmp' = i /\ i # None
          BY <1>1, <1>2, <4>1 DEF PipelineTypes, Inode, None
        <4>3. final # None => len'[final] = len[final]
          BY <1>2, <4>1 DEF DestinationTypes
        <4> QED
          BY <4>1, <4>2, <4>3
      <3> QED
        BY <3>1, <3>2
    <2>8. CASE Write(c)
      <3>1. /\ writing[c] = tmp /\ upload[c] = "writing" /\ UNCHANGED <<tmp, upload, writing, cat>>
            /\ len' = [len EXCEPT ![tmp] = @ + 1]
        BY <1>4, <2>8 DEF Write, pipeline
      <3>2. final # None => len'[final] = len[final]
        BY <1>2, <1>4, <3>1 DEF DestinationTypes
      <3> QED
        BY <1>4, <3>1, <3>2
    <2>9. CASE EndUpload(c)
      <3>1. /\ upload[c] = "writing" /\ UNCHANGED <<len, tmp, cat, writing>>
            /\ cat[c] = "failed" \/ (cat[c] = "ok" /\ len[writing[c]] = Size)
        BY <2>9 DEF EndUpload
      <3> QED
        BY <1>4, <3>1
    <2>10. CASE BreakUpload(c)
      <3>1. upload' = [upload EXCEPT ![c] = "failed"] /\ UNCHANGED <<len, tmp>>
        BY <2>10 DEF BreakUpload, Unnoticed, destination
      <3>2. upload'[c] = "failed"
        BY <1>2, <3>1 DEF PipelineTypes
      <3> QED
        BY <1>4, <3>1, <3>2
    <2> QED
      BY <2>5, <2>6, <2>7, <2>8, <2>9, <2>10
  <1>6. Complete' /\ Kept'
    BY <1>1, <1>5, KeptStays
  <1>7. Knows(c)'
    BY <1>1, <1>3, <1>5 DEF Knows
  <1> QED
    BY <1>6, <1>7

LEMMA WorkerStepAlone ==
  ASSUME AloneInv, Quiet, NEW c \in Collector, UNCHANGED backend,
         Begin(c) \/ EndPipe(c) \/ Interrupt(c) \/ Drain(c)
  PROVE  Complete' /\ Kept' /\ Knows(c)'
  <1>1. /\ TypeOK /\ Knows(c) /\ UNCHANGED <<len, open, tmp, final, done>>
        /\ told' => told
    BY WorkerStepTypes DEF AloneInv, Alone, destination
  <1>2. WorkerTypes /\ PipelineTypes
    BY <1>1, TypeParts
  <1>3. Complete' /\ Kept'
    BY <1>1, KeptStays
  <1>4. ASSUME NoPipe(c) PROVE cat'[c] = "none" /\ upload'[c] = "none"
    BY <1>2, <1>4 DEF NoPipe, PipelineTypes
  <1>5. CASE Begin(c)
    <2>1. pc[c] = "idle" /\ pc'[c] = "query done" /\ UNCHANGED <<cat, upload, writing>>
      BY <1>2, <1>5 DEF Begin, WorkerTypes, pipeline
    <2> QED
      BY <1>1, <1>3, <2>1 DEF Knows
  <1>6. CASE EndPipe(c)
    <2>1. cat'[c] = "none" /\ upload'[c] = "none"
      BY <1>4, <1>6 DEF EndPipe
    <2>2. CASE Goto(c, "move") /\ PipeStatus(c) = 0
      <3>1. pc'[c] = "move"
        BY <1>2, <2>2 DEF Goto, WorkerTypes
      <3>2. upload[c] = "ok" /\ cat[c] = "ok"
        BY <1>6, <2>2 DEF EndPipe, PipeStatus
      <3>3. tmp # None /\ len[tmp] = Size
        BY <1>1, <3>2 DEF Knows
      <3> QED
        BY <1>1, <1>3, <2>1, <3>1, <3>3 DEF Knows
    <2>3. CASE PipeStatus(c) # 0 /\ Return(c, PipeStatus(c))
      <3>1. PipeStatus(c) \in Codes
        BY DEF PipeStatus, Codes
      <3>2. pc'[c] \in {"idle", "query done"}
        BY <1>1, <2>3, <3>1, ReturnType
      <3> QED
        BY <1>1, <1>3, <2>1, <3>2 DEF Knows
    <2> QED
      BY <1>6, <2>2, <2>3 DEF EndPipe
  <1>7. CASE Interrupt(c)
    <2>1. pc'[c] = "idle" /\ cat'[c] = "none" /\ upload'[c] = "none"
      BY <1>1, <1>4, <1>7, LeaveType DEF Interrupt
    <2> QED
      BY <1>1, <1>3, <2>1 DEF Knows
  <1>8. CASE Drain(c)
    <2>1. UNCHANGED <<pc, cat, upload, writing>>
      BY <1>8 DEF Drain, pipeline, worker
    <2> QED
      BY <1>1, <1>3, <2>1 DEF Knows
  <1> QED
    BY <1>5, <1>6, <1>7, <1>8

\* Only what has been merged is taken away.
LEMMA MergeAlone ==
  ASSUME AloneInv, Quiet, Merge \/ DeleteMerged
  PROVE  Complete' /\ Kept' /\ UNCHANGED pc /\ \A c \in Collector : Knows(c)'
  <1>1. UNCHANGED <<len, tmp, cat, upload, writing, pc, told>> /\ done'
        /\ final' \in {final, None}
    BY DEF Merge, DeleteMerged, pipeline, worker
  <1>2. Whole'
    BY <1>1 DEF AloneInv, Complete, Whole, Quiet
  <1>3. Complete' /\ Kept'
    BY <1>1, <1>2 DEF Complete, Kept
  <1>4. ASSUME NEW c \in Collector PROVE Knows(c)'
    <2>1. Knows(c)
      BY DEF AloneInv, Alone
    <2> QED
      BY <1>1, <2>1 DEF Knows
  <1> QED
    BY <1>1, <1>3, <1>4

\* While one is at work, the others are not, and have no pipeline.
LEMMA OthersKnow ==
  ASSUME AloneInv, Quiet, NEW c \in Collector, pc[c] # "idle" \/ pc'[c] # "idle", OneAtWork', Knows(c)',
         NEW d \in Collector \ {c}, pc'[d] = pc[d], cat'[d] = cat[d], upload'[d] = upload[d]
  PROVE  Knows(d)'
  <1>1. pc'[d] = "idle"
    BY DEF AloneInv, Alone, OneAtWork
  <1>2. cat[d] = "none" /\ upload[d] = "none"
    BY <1>1 DEF AloneInv, Alone, Knows
  <1> QED
    BY <1>1, <1>2 DEF Knows

\* One step of one collector, unless it leaves the quiet.
LEMMA AloneStepOf ==
  ASSUME AloneInv, Quiet, Quiet', NEW c \in Collector, UNCHANGED backend, OneAtWork',
         Step(c) \/ QueryFails(c) \/ BreakCat(c) \/ BreakUpload(c) \/ Interrupt(c)
  PROVE  Complete' /\ Kept' /\ \A d \in Collector : Knows(d)'
  <1>1. TypeOK /\ ~swallowed' /\ Knows(c)
    BY DEF AloneInv, Quiet, Alone
  <1>2. CASE QueryDone(c) \/ QueryFinal(c) \/ QueryTmp(c) \/ QueryAgain(c) \/ QueryFails(c)
    <2>1. /\ pc[c] # "idle" /\ UNCHANGED <<cat, upload>>
          /\ \A d \in Collector \ {c} : pc'[d] = pc[d]
      BY <1>1, <1>2, QueryTypes DEF pipeline
    <2> QED
      BY <1>2, <2>1, QueryAlone, OthersKnow
  <1>3. CASE Tidy(c) \/ Delete(c) \/ Move(c)
    <2>1. /\ pc[c] # "idle" /\ UNCHANGED <<cat, upload>>
          /\ \A d \in Collector \ {c} : pc'[d] = pc[d]
      BY <1>1, <1>3, CallTypes DEF pipeline
    <2> QED
      BY <1>1, <1>3, <2>1, CallAlone, OthersKnow
  <1>4. CASE \/ StartPipe(c) \/ StartCat(c) \/ EndCat(c) \/ SigPipe(c) \/ BreakCat(c)
             \/ Create(c) \/ Write(c) \/ EndUpload(c) \/ BreakUpload(c)
    <2>1. /\ UNCHANGED pc
          /\ \A d \in Collector \ {c} : cat'[d] = cat[d] /\ upload'[d] = upload[d]
      BY <1>1, <1>4, PipeTypes DEF worker
    <2>2. pc[c] = "pipe"
      BY <1>1, <1>4 DEF Knows, StartPipe, StartCat, EndCat, SigPipe, BreakCat, Create, Write,
                        EndUpload, BreakUpload
    <2> QED
      BY <1>1, <1>4, <2>1, <2>2, PipeAlone, OthersKnow
  <1>5. CASE Begin(c) \/ EndPipe(c) \/ Interrupt(c)
    <2>1. \A d \in Collector \ {c} : pc'[d] = pc[d] /\ cat'[d] = cat[d] /\ upload'[d] = upload[d]
      BY <1>1, <1>5, WorkerStepTypes
    <2>2. pc[c] # "idle" \/ pc'[c] # "idle"
      <3>1. CASE Begin(c)
        BY <1>1, <3>1 DEF Begin, TypeOK
      <3>2. CASE EndPipe(c)
        BY <1>1, <3>2 DEF EndPipe, Knows
      <3>3. CASE Interrupt(c)
        BY <3>3 DEF Interrupt
      <3> QED
        BY <1>5, <3>1, <3>2, <3>3
    <2> QED
      BY <1>5, <2>1, <2>2, WorkerStepAlone, OthersKnow
  <1>6. CASE Drain(c)
    <2>1. UNCHANGED <<len, tmp, final, done, pc, cat, upload, writing>>
      BY <1>6 DEF Drain, pipeline, worker, destination
    <2>2. ASSUME NEW d \in Collector PROVE Knows(d)'
      <3>1. Knows(d)
        BY DEF AloneInv, Alone
      <3> QED
        BY <2>1, <3>1 DEF Knows
    <2> QED
      BY <1>6, <2>2, WorkerStepAlone
  <1> QED
    BY <1>2, <1>3, <1>4, <1>5, <1>6 DEF Step

LEMMA AloneStep ==
  ASSUME AloneInv, [Next]_vars
  PROVE  AloneInv'
  <1>1. TypeOK' /\ (swallowed => swallowed')
    BY TypeStep DEF AloneInv
  <1>2. CASE UNCHANGED vars
    BY <1>1, <1>2 DEF vars, destination, pipeline, worker, trouble, AloneInv, Complete, Kept, Whole,
                      Alone, Quiet, OneAtWork, Knows
  <1>3. CASE Next /\ ~Quiet'
    BY <1>1, <1>3 DEF AloneInv, Complete, Kept, Alone, Quiet
  <1>4. CASE Next /\ Quiet'
    <2>1. Quiet /\ UNCHANGED backend /\ OneAtWork'
      BY <1>1, <1>4 DEF Next, Watch, Quiet, OneAtWork
    <2>2. CASE Merge \/ DeleteMerged
      BY <1>1, <2>1, <2>2, MergeAlone DEF AloneInv, Alone
    <2>3. ASSUME NEW c \in Collector,
                 Step(c) \/ QueryFails(c) \/ BreakCat(c) \/ BreakUpload(c) \/ Interrupt(c)
          PROVE  AloneInv'
      <3>1. Complete' /\ Kept' /\ \A d \in Collector : Knows(d)'
        BY <1>4, <2>1, <2>3, AloneStepOf
      <3> QED
        BY <1>1, <2>1, <3>1 DEF AloneInv, Alone
    <2> QED
      BY <1>4, <2>2, <2>3 DEF Next
  <1> QED
    BY <1>2, <1>3, <1>4

LEMMA AloneInvariant == Spec => []AloneInv
  <1>1. AloneInv /\ [Next]_vars => AloneInv'
    BY AloneStep
  <1> QED
    BY <1>1, InitAlone, PTL DEF Spec

(* For any number of collectors that come one after the other, each of them
   interrupted, failing and without answers as often as may be: what is under
   its final name is complete.  With hdfsproxy, as long as no failure passes
   for success. *)
THEOREM DeliveredWhole == Spec => []Complete
  <1>1. AloneInv => Complete
    BY DEF AloneInv
  <1> QED
    BY <1>1, AloneInvariant, PTL

(* The same collectors can rely on what they are told: once an exit code has
   said that the file is there, a complete one is, or it has been merged.
   Of HttpFS nothing is said; its rename goes to another name. *)
THEOREM ReportedIsThere == Spec => []Kept
  <1>1. AloneInv => Kept
    BY DEF AloneInv
  <1> QED
    BY <1>1, AloneInvariant, PTL
=============================================================================
