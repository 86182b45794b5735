------------------------------ MODULE VideoProofs ------------------------------
(***************************************************************************)
(* Theorems about VideoPipeline, for every number of chunks and workers,   *)
(* every MaxAttempts and every mix of events.                              *)
(***************************************************************************)
EXTENDS VideoPipeline, TLAPS

-----------------------------------------------------------------------------
(* The rows of the job table *)

LEMMA RowStep ==
  ASSUME NEW row \in Row
  PROVE  /\ NoRow \in Row
         /\ Enqueued(row) \in Row /\ Revived(row) \in Row /\ Completed(row) \in Row
         /\ \A w \in Workers : Leased(row, w) \in Row
         /\ \A n \in Nat, b \in BOOLEAN : Failed(row, n, b) \in Row
         /\ Reaped([row EXCEPT !.stale = TRUE]) \in Row
         /\ [row EXCEPT !.delayed = FALSE] \in Row
<1> USE DEF Row, JobStatus
<1>1. NoRow \in Row /\ Enqueued(row) \in Row /\ Revived(row) \in Row /\ Completed(row) \in Row
  BY DEF Enqueued, Revived, Completed, QueuedRow, NoRow
<1>2. \A w \in Workers : Leased(row, w) \in Row
  BY DEF Leased
<1>3. Retried(row) \in Row /\ Died(row) \in Row
  BY DEF Retried, Died
<1>4. \A n \in Nat, b \in BOOLEAN : Failed(row, n, b) \in Row
  BY <1>3 DEF Failed
<1>5. Reaped([row EXCEPT !.stale = TRUE]) \in Row
  BY DEF Reaped, Reapable
<1>6. [row EXCEPT !.delayed = FALSE] \in Row
  OBVIOUS
<1> QED BY <1>1, <1>2, <1>4, <1>5, <1>6

(* A job is a probe or works on a chunk, by extracting or by indexing it. *)
LEMMA JobParts ==
  /\ \A j \in Jobs : Type(j) \in {"probe", "extract", "index"}
  /\ \A j \in Jobs : Type(j) = "extract" => ChunkOf(j) \in Chunks /\ j = Extract(ChunkOf(j))
  /\ \A j \in Jobs : Type(j) = "index" => ChunkOf(j) \in Chunks /\ j = Index(ChunkOf(j))
  /\ \A c \in Chunks : /\ Extract(c) \in Jobs /\ Type(Extract(c)) = "extract"
                       /\ Index(c) \in Jobs /\ Type(Index(c)) = "index"
                       /\ ChunkOf(Extract(c)) = c /\ ChunkOf(Index(c)) = c
  BY DEF Jobs, Type, ChunkOf, Extract, Index, Probes

(* What Lease does to the queued job it takes. *)
LeaseOf(w, j) ==
  /\ j \in Jobs /\ jobs[j].status = "queued"
  /\ jobs' = [jobs EXCEPT ![j] = Leased(@, w)]
  /\ job' = [job EXCEPT ![w] = j]
  /\ seen' = [seen EXCEPT ![w] = jobs[j].attempts + 1]

LEMMA LeaseParts ==
  ASSUME NEW w, Lease(w)
  PROVE  \E j : LeaseOf(w, j)
  BY DEF Lease, LeaseOf, MostUrgent, Leasable, Served

(* What Reap does: the rows of S, which nobody works on, are taken back. *)
ReapOf(w, S) ==
  /\ S \subseteq Orphans
  /\ jobs' = [j \in Jobs |-> IF j \in S THEN Reaped([jobs[j] EXCEPT !.stale = TRUE])
                                        ELSE jobs[j]]
  /\ \E dead \in SUBSET S : /\ doomed' = [doomed EXCEPT ![w] = dead]
                            /\ \A j \in dead : Type(j) # "probe"
                            /\ Goto(w, AfterBurial(dead))

LEMMA ReapParts ==
  ASSUME NEW w, Reap(w)
  PROVE  \E S : ReapOf(w, S)
  BY DEF Reap, ReapOf

-----------------------------------------------------------------------------
(* Types.  A worker has a job while it is in a handler, and no other time; *)
(* the jobs it buries work on chunks, and so do those whose errors it      *)
(* records.                                                                *)
ChunkJobs == {j \in Jobs : Type(j) # "probe"}

HasJob ==
  \A w \in Workers :
    /\ pc[w] \in Busy => job[w] \in Jobs
    /\ pc[w] \notin Busy => job[w] = NoJob
    /\ doomed[w] \subseteq ChunkJobs
    /\ pc[w] \in {"record", "verdict", "finalize"} => job[w] \in ChunkJobs

Typed == TypeOK /\ HasJob

RowsTyped    == jobs \in [Jobs -> Row]
VideoTyped   == /\ video \in VideoStatus /\ chunk \in [Chunks -> ChunkStatus]
                /\ extracted \subseteq Chunks /\ temporal \subseteq Chunks
                /\ timelines \in Nat
WorkersTyped == /\ pc \in [Workers -> Places] /\ job \in [Workers -> Jobs \cup {NoJob}]
                /\ seen \in [Workers -> Nat]
                /\ saw \in [Workers -> VideoStatus \cup {"unread"}]
                /\ doomed \in [Workers -> SUBSET Jobs]
                /\ HasJob
EventsTyped  == frozen \subseteq Workers /\ used \in [Kinds -> Nat]

LEMMA TypedParts == Typed <=> RowsTyped /\ VideoTyped /\ WorkersTyped /\ EventsTyped
  BY DEF Typed, TypeOK, RowsTyped, VideoTyped, WorkersTyped, EventsTyped

LEMMA PartsTypedNext ==
  RowsTyped' /\ VideoTyped' /\ WorkersTyped' /\ EventsTyped' => Typed'
  BY DEF Typed, TypeOK, RowsTyped, VideoTyped, WorkersTyped, EventsTyped

LEMMA InitTyped == Init => Typed
  BY PipelineConstants
     DEF Init, Typed, TypeOK, HasJob, NoRow, Row, JobStatus, VideoStatus, ChunkStatus, Places,
         Busy, Kinds

LEMMA WorkerChunk ==
  ASSUME Typed, NEW w \in Workers, pc[w] \in Busy
  PROVE  /\ job[w] \in Jobs
         /\ Type(job[w]) \in {"extract", "index"} => ChunkOf(job[w]) \in Chunks
         /\ pc[w] \in {"record", "verdict", "finalize"} =>
              ChunkOf(job[w]) \in Chunks /\ Type(job[w]) \in {"extract", "index"}
  BY JobParts DEF Typed, HasJob, ChunkJobs

LEMMA StepRowsTyped ==
  ASSUME Typed, Next
  PROVE  RowsTyped'
<1> USE DEF RowsTyped
<1>0. RowsTyped /\ WorkersTyped /\ \A j \in Jobs : jobs[j] \in Row
  BY TypedParts
<1>1. ASSUME UNCHANGED jobs PROVE RowsTyped'
  BY <1>0, <1>1
<1>2. ASSUME NEW j, NEW row \in Row, jobs' = [jobs EXCEPT ![j] = row]
      PROVE  RowsTyped'
  BY <1>0, <1>2
<1>3. ASSUME CompleteUpload PROVE RowsTyped'
  <2>1. CASE <<"probe", 0>> \in Jobs
    BY <1>0, <1>3, <2>1, RowStep DEF CompleteUpload
  <2>2. CASE <<"probe", 0>> \notin Jobs
    BY <1>0, <1>3, <2>2 DEF CompleteUpload
  <2> QED BY <2>1, <2>2
<1>4. ASSUME RetryVideo PROVE RowsTyped'
  <2> DEFINE revived == [j \in Jobs |-> Revived(jobs[j])]
             fresh   == <<"probe", Retries'>>
  <2>1. revived \in [Jobs -> Row]
    BY <1>0, RowStep
  <2>2. jobs' = revived \/ jobs' = [revived EXCEPT ![fresh] = Enqueued(@)]
    BY <1>4 DEF RetryVideo
  <2> HIDE DEF revived, fresh
  <2>3. CASE fresh \in Jobs
    <3>1. Enqueued(revived[fresh]) \in Row
      BY <2>1, <2>3, RowStep
    <3> QED BY <2>1, <2>2, <2>3, <3>1
  <2>4. CASE fresh \notin Jobs
    BY <2>1, <2>2, <2>4
  <2> QED BY <2>3, <2>4
<1>5. ASSUME NEW j \in Jobs, BackoffElapsed(j) PROVE RowsTyped'
  <2>1. [jobs[j] EXCEPT !.delayed = FALSE] \in Row
    BY <1>0, RowStep
  <2>2. jobs' = [jobs EXCEPT ![j] = [jobs[j] EXCEPT !.delayed = FALSE]]
    BY <1>5 DEF BackoffElapsed
  <2> QED BY <1>2, <2>1, <2>2
<1>6. ASSUME NEW w \in Workers, Lease(w) PROVE RowsTyped'
  <2>1. PICK j : LeaseOf(w, j)
    BY <1>6, LeaseParts
  <2>2. j \in Jobs /\ Leased(jobs[j], w) \in Row /\ jobs' = [jobs EXCEPT ![j] = Leased(jobs[j], w)]
    BY <1>0, <2>1, RowStep DEF LeaseOf
  <2> QED BY <1>2, <2>2
<1>7. ASSUME NEW w \in Workers, Complete(w) \/ Fail(w) PROVE RowsTyped'
  <2>1. job[w] \in Jobs /\ seen[w] \in Nat /\ jobs[job[w]] \in Row
    BY <1>0, <1>7 DEF Complete, Fail, At, WorkersTyped, HasJob, Busy
  <2>2. Completed(jobs[job[w]]) \in Row /\ Failed(jobs[job[w]], seen[w], pc[w] = "error") \in Row
    BY <2>1, RowStep
  <2> QED BY <1>2, <1>7, <2>2 DEF Complete, Fail
<1>8. ASSUME NEW w \in Workers, ProbeEnqueue(w) PROVE RowsTyped'
  <2>1. \A j \in Jobs : Enqueued(jobs[j]) \in Row
    BY <1>0, RowStep
  <2> QED BY <1>0, <1>8, <2>1 DEF ProbeEnqueue
<1>9. ASSUME NEW w \in Workers, ExtractEnqueue(w) PROVE RowsTyped'
  <2>1. CASE Index(ChunkOf(job[w])) \in Jobs
    BY <1>0, <1>9, <2>1, RowStep DEF ExtractEnqueue
  <2>2. CASE Index(ChunkOf(job[w])) \notin Jobs
    BY <1>0, <1>9, <2>2 DEF ExtractEnqueue
  <2> QED BY <2>1, <2>2
<1>10. ASSUME NEW w \in Workers, Reap(w) PROVE RowsTyped'
  <2>1. PICK S : ReapOf(w, S)
    BY <1>10, ReapParts
  <2>2. \A j \in Jobs : Reaped([jobs[j] EXCEPT !.stale = TRUE]) \in Row
    BY <1>0, RowStep
  <2> QED BY <1>0, <2>1, <2>2 DEF ReapOf
<1>11. ASSUME NEW w \in Workers,
              \/ ProbeStart(w) \/ ProbeWork(w) \/ ExtractStart(w) \/ ExtractWork(w)
              \/ IndexChunk(w) \/ RecordError(w) \/ Raises(w) \/ Burial(w) \/ BurialFails(w)
              \/ Crash(w) \/ Stall(w) \/ Resume(w)
       PROVE  UNCHANGED jobs
  BY <1>11 DEF ProbeStart, ProbeWork, ExtractStart, ExtractWork, IndexChunk, IndexStart,
       IndexWork, IndexFinalize, RecordError, RecordChunkError, RecordVerdict, Raises,
       ProbeRaises, ChunkWorkRaises, TransactionFails, Burial, Bury, Buried, BurialFails,
       Crash, Stall, Resume, Move, SetChunk
<1> QED
  BY <1>1, <1>3, <1>4, <1>5, <1>6, <1>7, <1>8, <1>9, <1>10, <1>11
     DEF Next, Proceed, ProbeVideo, ExtractChunk

LEMMA FinalizeTyped ==
  ASSUME Typed, NEW status, FinalizeIfComplete(status)
  PROVE  video' \in VideoStatus /\ timelines' \in Nat
  BY DEF Typed, TypeOK, FinalizeIfComplete, Verdict, VideoStatus

LEMMA StepVideoTyped ==
  ASSUME Typed, Next
  PROVE  VideoTyped'
<1> USE DEF VideoTyped
<1>0. VideoTyped
  BY TypedParts
<1>1. ASSUME UNCHANGED videoVars PROVE VideoTyped'
  BY <1>0, <1>1 DEF videoVars
<1>2. ASSUME CompleteUpload \/ RetryVideo PROVE VideoTyped'
  BY <1>0, <1>2 DEF CompleteUpload, RetryVideo, VideoStatus, ChunkStatus
<1>3. ASSUME NEW w \in Workers, ProbeStart(w) \/ ProbeWork(w) PROVE VideoTyped'
  BY <1>0, <1>3 DEF ProbeStart, ProbeWork, VideoStatus, ChunkStatus
<1>4. ASSUME NEW c, NEW status \in ChunkStatus, SetChunk(c, status) PROVE VideoTyped'
  BY <1>0, <1>4 DEF SetChunk
<1>5. ASSUME NEW w \in Workers, ExtractStart(w) \/ IndexStart(w) \/ IndexWork(w) \/ RecordChunkError(w)
      PROVE  VideoTyped'
  <2>1. \/ UNCHANGED videoVars
        \/ \E c : \E status \in ChunkStatus : SetChunk(c, status)
    BY <1>5 DEF ExtractStart, IndexStart, IndexWork, RecordChunkError, Move, ChunkStatus
  <2> QED BY <1>1, <1>4, <2>1
<1>6. ASSUME NEW w \in Workers, ExtractWork(w) PROVE VideoTyped'
  <2>1. ChunkOf(job[w]) \in Chunks
    BY <1>6, WorkerChunk DEF ExtractWork, In, At, Busy
  <2> QED BY <1>0, <1>6, <2>1 DEF ExtractWork
<1>7. ASSUME NEW w \in Workers, IndexFinalize(w) PROVE VideoTyped'
  <2>1. ChunkOf(job[w]) \in Chunks
    BY <1>7, WorkerChunk DEF IndexFinalize, In, At, Busy
  <2> QED BY <1>0, <1>7, <2>1, FinalizeTyped DEF IndexFinalize, NewlyEncoded
<1>8. ASSUME NEW w \in Workers, RecordVerdict(w) \/ Buried(w) PROVE VideoTyped'
  BY <1>0, <1>8, FinalizeTyped DEF RecordVerdict, Buried
<1>9. ASSUME NEW w \in Workers, Bury(w) PROVE VideoTyped'
  <2>1. chunk' = chunk \/ \E c : chunk' = [chunk EXCEPT ![c] = "failed"]
    BY <1>9 DEF Bury
  <2>2. UNCHANGED <<video, extracted, temporal, timelines>>
    BY <1>9 DEF Bury
  <2> QED BY <1>0, <2>1, <2>2 DEF ChunkStatus
<1>10. ASSUME NEW w \in Workers,
              \/ Lease(w) \/ Complete(w) \/ Fail(w) \/ Reap(w) \/ ProbeEnqueue(w)
              \/ ExtractEnqueue(w) \/ Raises(w) \/ BurialFails(w) \/ Crash(w)
              \/ Stall(w) \/ Resume(w)
       PROVE  UNCHANGED videoVars
  BY <1>10 DEF Lease, Complete, Fail, Reap, ProbeEnqueue, ExtractEnqueue, Raises, ProbeRaises,
       ChunkWorkRaises, TransactionFails, BurialFails, Crash, Stall, Resume, Move
<1>11. ASSUME NEW j \in Jobs, BackoffElapsed(j) PROVE UNCHANGED videoVars
  BY <1>11 DEF BackoffElapsed
<1> QED
  BY <1>1, <1>2, <1>3, <1>5, <1>6, <1>7, <1>8, <1>9, <1>10, <1>11
     DEF Next, Proceed, ProbeVideo, ExtractChunk, IndexChunk, RecordError, Burial

LEMMA SpendTyped ==
  ASSUME used \in [Kinds -> Nat], NEW k \in Kinds, Spend(k)
  PROVE  used' \in [Kinds -> Nat]
  BY DEF Spend

LEMMA StepEventsTyped ==
  ASSUME Typed, Next
  PROVE  EventsTyped'
<1> USE DEF EventsTyped
<1>0. EventsTyped /\ Kinds = {"crash", "stall", "error", "probeError", "corrupt", "dbError",
                              "retry", "untimely", "upload"}
  BY TypedParts DEF Kinds
<1>1. ASSUME UNCHANGED <<frozen, used>> PROVE EventsTyped'
  BY <1>0, <1>1
<1>2. ASSUME NEW k \in Kinds, Spend(k), frozen' \subseteq Workers PROVE EventsTyped'
  BY <1>0, <1>2, SpendTyped
<1>3. ASSUME CompleteUpload \/ RetryVideo PROVE EventsTyped'
  BY <1>0, <1>2, <1>3 DEF CompleteUpload, RetryVideo
<1>4. ASSUME NEW w \in Workers, Raises(w) \/ BurialFails(w) \/ Crash(w) \/ Stall(w)
      PROVE  EventsTyped'
  BY <1>0, <1>2, <1>4 DEF Raises, ProbeRaises, ChunkWorkRaises, TransactionFails, BurialFails,
     Crash, Stall, Move
<1>5. ASSUME NEW w \in Workers, Proceed(w) PROVE UNCHANGED <<frozen, used>>
  BY <1>5 DEF Proceed, Lease, ProbeVideo, ProbeStart, ProbeWork, ProbeEnqueue, ExtractChunk,
     ExtractStart, ExtractWork, ExtractEnqueue, IndexChunk, IndexStart, IndexWork, IndexFinalize,
     RecordError, RecordChunkError, RecordVerdict, Complete, Fail, Reap, Burial, Bury, Buried,
     Move, SetChunk, NoSpend
<1>6. ASSUME NEW w \in Workers, Resume(w) PROVE EventsTyped'
  BY <1>0, <1>6 DEF Resume
<1>7. ASSUME NEW j \in Jobs, BackoffElapsed(j) PROVE UNCHANGED <<frozen, used>>
  BY <1>7 DEF BackoffElapsed
<1> QED BY <1>1, <1>3, <1>4, <1>5, <1>6, <1>7 DEF Next

(* The steps of a handler move one worker from a place in it to another; *)
(* errors are recorded on chunks only.                                    *)
HandlerStep(w) == \/ ProbeVideo(w) \/ ExtractChunk(w) \/ IndexChunk(w)
                  \/ RecordError(w) \/ Raises(w)

LEMMA HandlerMoves ==
  ASSUME Typed, NEW w \in Workers, HandlerStep(w)
  PROVE  /\ pc[w] \in Busy /\ UNCHANGED <<job, seen, doomed>>
         /\ \E place \in Busy :
              /\ Goto(w, place)
              /\ place \in {"record", "verdict", "finalize"} =>
                   \/ Type(job[w]) \in {"extract", "index"}
                   \/ pc[w] \in {"record", "verdict", "finalize"}
         /\ UNCHANGED saw \/ saw' = [saw EXCEPT ![w] = video]
<1>1. ASSUME ProbeVideo(w) \/ ExtractChunk(w)
      PROVE  /\ pc[w] \in Busy /\ UNCHANGED <<job, seen, doomed, saw>>
             /\ \E place \in Busy : /\ Goto(w, place)
                                    /\ place \notin {"record", "verdict", "finalize"}
  BY <1>1 DEF ProbeVideo, ProbeStart, ProbeWork, ProbeEnqueue, ExtractChunk, ExtractStart,
     ExtractWork, ExtractEnqueue, ExtractFrom, In, At, Busy, Move, SetChunk
<1>2. ASSUME IndexChunk(w)
      PROVE  /\ pc[w] \in Busy /\ UNCHANGED <<job, seen, doomed>>
             /\ \E place \in Busy : Goto(w, place)
             /\ Type(job[w]) = "index"
             /\ UNCHANGED saw \/ saw' = [saw EXCEPT ![w] = video]
  BY <1>2 DEF IndexChunk, IndexStart, IndexWork, IndexFinalize, In, At, Busy, Move, SetChunk
<1>3. ASSUME RecordError(w)
      PROVE  /\ pc[w] \in {"record", "verdict"} /\ UNCHANGED <<job, seen, doomed>>
             /\ \E place \in Busy : Goto(w, place)
             /\ UNCHANGED saw \/ saw' = [saw EXCEPT ![w] = video]
  BY <1>3 DEF RecordError, RecordChunkError, RecordVerdict, At, Busy, SetChunk
<1>4. ASSUME Raises(w)
      PROVE  /\ pc[w] \in Busy /\ UNCHANGED <<job, seen, doomed, saw>>
             /\ \E place \in Busy :
                  /\ Goto(w, place)
                  /\ place = "record" => \/ Type(job[w]) \in {"extract", "index"}
                                         \/ pc[w] = "finalize"
                  /\ place \notin {"verdict", "finalize"}
  <2>1. CASE ProbeRaises(w)
    BY <2>1 DEF ProbeRaises, In, At, Busy, Move
  <2>2. CASE ChunkWorkRaises(w)
    BY <2>2 DEF ChunkWorkRaises, In, At, Busy, Move
  <2>3. CASE TransactionFails(w)
    BY <2>3 DEF TransactionFails, At, Busy, Move
  <2> QED BY <1>4, <2>1, <2>2, <2>3 DEF Raises
<1> QED BY <1>1, <1>2, <1>3, <1>4 DEF HandlerStep, Busy

LEMMA ReleaseTyped ==
  ASSUME Typed, NEW w \in Workers, Release(w),
         doomed' = doomed \/ doomed' = [doomed EXCEPT ![w] = {}]
  PROVE  WorkersTyped'
<1>0. WorkersTyped
  BY TypedParts
<1>1. /\ pc' = [pc EXCEPT ![w] = "idle"] /\ job' = [job EXCEPT ![w] = NoJob]
      /\ seen' = [seen EXCEPT ![w] = 0] /\ saw' = [saw EXCEPT ![w] = "unread"]
  BY DEF Release, Goto
<1>2. doomed' \in [Workers -> SUBSET Jobs] /\ \A u \in Workers : doomed'[u] \subseteq ChunkJobs
  BY <1>0 DEF WorkersTyped, HasJob
<1>3. \A u \in Workers : u # w => pc'[u] = pc[u] /\ job'[u] = job[u]
  BY <1>0, <1>1 DEF WorkersTyped
<1>4. pc'[w] = "idle" /\ job'[w] = NoJob
  BY <1>0, <1>1 DEF WorkersTyped
<1>5. HasJob'
  BY <1>0, <1>2, <1>3, <1>4 DEF WorkersTyped, HasJob, Busy, ChunkJobs
<1> QED BY <1>0, <1>1, <1>2, <1>5 DEF WorkersTyped, Places

(* A worker outside a handler stays there; what it is to bury are chunks. *)
LEMMA AsideTyped ==
  ASSUME Typed, NEW w \in Workers, pc[w] \notin Busy,
         NEW place \in {"idle", "bury", "buried"}, Goto(w, place),
         NEW dead \in SUBSET ChunkJobs, doomed' = [doomed EXCEPT ![w] = dead],
         UNCHANGED <<job, seen, saw>>
  PROVE  WorkersTyped'
<1>0. WorkersTyped
  BY TypedParts
<1>1. pc' = [pc EXCEPT ![w] = place]
  BY DEF Goto
<1>2. /\ doomed' \in [Workers -> SUBSET Jobs]
      /\ \A u \in Workers : doomed'[u] \subseteq ChunkJobs
  BY <1>0 DEF WorkersTyped, HasJob, ChunkJobs
<1>3. HasJob'
  BY <1>0, <1>1, <1>2 DEF WorkersTyped, HasJob, Busy, ChunkJobs
<1> QED BY <1>0, <1>1, <1>2, <1>3 DEF WorkersTyped, Places

LEMMA StepWorkersTyped ==
  ASSUME Typed, Next
  PROVE  WorkersTyped'
<1>0. WorkersTyped /\ RowsTyped /\ video \in VideoStatus
  BY TypedParts DEF VideoTyped
<1>1. ASSUME UNCHANGED workerVars PROVE WorkersTyped'
  BY <1>0, <1>1 DEF workerVars, WorkersTyped, HasJob, ChunkJobs
<1>2. ASSUME NEW w \in Workers, HandlerStep(w) PROVE WorkersTyped'
  <2>1. PICK place \in Busy :
          /\ Goto(w, place)
          /\ place \in {"record", "verdict", "finalize"} =>
               \/ Type(job[w]) \in {"extract", "index"}
               \/ pc[w] \in {"record", "verdict", "finalize"}
    BY <1>2, HandlerMoves
  <2>2. pc[w] \in Busy /\ UNCHANGED <<job, seen, doomed>>
    BY <1>2, HandlerMoves
  <2>3. saw' \in [Workers -> VideoStatus \cup {"unread"}]
    BY <1>0, <1>2, HandlerMoves DEF WorkersTyped
  <2>4. pc' = [pc EXCEPT ![w] = place]
    BY <2>1 DEF Goto
  <2>5. job[w] \in Jobs /\ (place \in {"record", "verdict", "finalize"} => job[w] \in ChunkJobs)
    BY <1>0, <2>1, <2>2 DEF WorkersTyped, HasJob, ChunkJobs
  <2>6. HasJob'
    BY <1>0, <2>2, <2>4, <2>5 DEF WorkersTyped, HasJob, ChunkJobs
  <2> QED BY <1>0, <2>2, <2>3, <2>4, <2>6 DEF WorkersTyped, Places
<1>3. ASSUME NEW w \in Workers, Complete(w) \/ Fail(w) \/ Crash(w) PROVE WorkersTyped'
  BY <1>3, ReleaseTyped DEF Complete, Fail, Crash
<1>4. ASSUME NEW w \in Workers, Lease(w) PROVE WorkersTyped'
  <2>1. PICK j : LeaseOf(w, j)
    BY <1>4, LeaseParts
  <2>2. j \in Jobs /\ jobs[j].attempts \in Nat
    BY <1>0, <2>1 DEF LeaseOf, RowsTyped, Row
  <2>3. pc' = [pc EXCEPT ![w] = "start"] /\ UNCHANGED <<saw, doomed>>
    BY <1>4 DEF Lease, Goto
  <2>4. job' = [job EXCEPT ![w] = j] /\ seen' = [seen EXCEPT ![w] = jobs[j].attempts + 1]
    BY <2>1 DEF LeaseOf
  <2>5. HasJob'
    BY <1>0, <2>2, <2>3, <2>4 DEF WorkersTyped, HasJob, Busy, ChunkJobs
  <2> QED BY <1>0, <2>2, <2>3, <2>4, <2>5 DEF WorkersTyped, Places, Busy
<1>5. ASSUME NEW w \in Workers, Reap(w) PROVE WorkersTyped'
  <2>1. PICK S : ReapOf(w, S)
    BY <1>5, ReapParts
  <2>2. PICK dead \in SUBSET S : /\ doomed' = [doomed EXCEPT ![w] = dead]
                                 /\ \A j \in dead : Type(j) # "probe"
                                 /\ Goto(w, AfterBurial(dead))
    BY <2>1 DEF ReapOf
  <2>3. dead \subseteq ChunkJobs
    BY <2>1, <2>2 DEF ReapOf, Orphans, ChunkJobs
  <2>4. pc[w] \notin Busy /\ AfterBurial(dead) \in {"idle", "bury", "buried"}
    BY <1>5 DEF Reap, At, Busy, AfterBurial
  <2>5. UNCHANGED <<job, seen, saw>>
    BY <1>5 DEF Reap
  <2> QED BY <2>2, <2>3, <2>4, <2>5, AsideTyped
<1>6. ASSUME NEW w \in Workers, Burial(w) \/ BurialFails(w) PROVE WorkersTyped'
  <2>1. pc[w] \notin Busy /\ UNCHANGED <<job, seen, saw>> /\ doomed[w] \subseteq ChunkJobs
    BY <1>0, <1>6 DEF Burial, Bury, Buried, BurialFails, At, Busy, WorkersTyped, HasJob
  <2>2. \E place \in {"idle", "bury", "buried"} : Goto(w, place)
    BY <1>6 DEF Burial, Bury, Buried, BurialFails, AfterBurial
  <2>3. \E dead \in SUBSET ChunkJobs : doomed' = [doomed EXCEPT ![w] = dead]
    <3>1. \/ doomed' = doomed
          \/ \E j \in doomed[w] : doomed' = [doomed EXCEPT ![w] = doomed[w] \ {j}]
      BY <1>6 DEF Burial, Bury, Buried, BurialFails
    <3>2. doomed = [doomed EXCEPT ![w] = doomed[w]]
      BY <1>0 DEF WorkersTyped
    <3> QED BY <2>1, <3>1, <3>2
  <2> QED BY <2>1, <2>2, <2>3, AsideTyped
<1>7. ASSUME \/ CompleteUpload \/ RetryVideo \/ \E j \in Jobs : BackoffElapsed(j)
             \/ \E w \in Workers : Stall(w) \/ Resume(w)
      PROVE  UNCHANGED workerVars
  BY <1>7 DEF CompleteUpload, RetryVideo, BackoffElapsed, Stall, Resume
<1> QED BY <1>1, <1>2, <1>3, <1>4, <1>5, <1>6, <1>7 DEF Next, Proceed, HandlerStep

LEMMA StepTyped == Typed /\ Next => Typed'
  BY StepRowsTyped, StepVideoTyped, StepWorkersTyped, StepEventsTyped, PartsTypedNext

LEMMA TypedStutters == Typed /\ UNCHANGED vars => Typed'
  BY DEF Typed, TypeOK, HasJob, ChunkJobs, vars, videoVars, workerVars

LEMMA TypedHolds == Spec => []Typed
  BY InitTyped, StepTyped, TypedStutters, PTL DEF Spec

(* The variables of the pipeline keep their types, whatever happens. *)
THEOREM PipelineTypeCorrect == Spec => []TypeOK
<1>1. Typed => TypeOK
  BY DEF Typed
<1> QED BY <1>1, TypedHolds, PTL

-----------------------------------------------------------------------------
(* Who writes a row of the job table. *)
Delivered(j) ==
  \/ Type(j) \in {"probe", "extract"}
  \/ \E w \in Workers : ExtractEnqueue(w) /\ j = Index(ChunkOf(job[w]))

JobStep(j) ==
  \/ jobs'[j].status = jobs[j].status /\ jobs'[j].lockedBy = jobs[j].lockedBy
  \/ jobs[j].status = "none" /\ jobs'[j].status = "queued" /\ Delivered(j)
  \/ jobs[j].status = "dead" /\ jobs'[j].status = "queued"
  \/ \E w \in Workers : LeaseOf(w, j)
  \/ \E w \in Workers : (Complete(w) \/ Fail(w)) /\ job[w] = j /\ jobs'[j].status # "none"
  \/ j \in Orphans /\ jobs'[j].status # "none"

LEMMA RowEffects ==
  ASSUME NEW row \in Row
  PROVE  /\ Enqueued(row) = row \/ (row.status = "none" /\ Enqueued(row).status = "queued")
         /\ Revived(row) = row \/ (row.status = "dead" /\ Revived(row).status = "queued")
         /\ Completed(row).status # "none"
         /\ \A n, b : Failed(row, n, b).status # "none"
         /\ row.status = "running" => Reaped([row EXCEPT !.stale = TRUE]).status # "none"
         /\ [row EXCEPT !.delayed = FALSE].status = row.status
         /\ [row EXCEPT !.delayed = FALSE].lockedBy = row.lockedBy
<1> USE DEF Row
<1>1. Enqueued(row) = row \/ (row.status = "none" /\ Enqueued(row).status = "queued")
  BY DEF Enqueued, QueuedRow, NoRow
<1>2. Revived(row) = row \/ (row.status = "dead" /\ Revived(row).status = "queued")
  BY DEF Revived, QueuedRow, NoRow
<1>3. Completed(row).status # "none" /\ \A n, b : Failed(row, n, b).status # "none"
  BY DEF Completed, Failed, Retried, Died
<1>4. row.status = "running" => Reaped([row EXCEPT !.stale = TRUE]).status # "none"
  BY DEF Reaped, Reapable
<1>5. /\ [row EXCEPT !.delayed = FALSE].status = row.status
      /\ [row EXCEPT !.delayed = FALSE].lockedBy = row.lockedBy
  OBVIOUS
<1> QED BY <1>1, <1>2, <1>3, <1>4, <1>5

LEMMA JobSteps ==
  ASSUME Typed, Next, NEW j \in Jobs
  PROVE  JobStep(j)
<1>0. jobs \in [Jobs -> Row] /\ jobs[j] \in Row
  BY DEF Typed, TypeOK
<1>e. /\ Enqueued(jobs[j]) = jobs[j] \/ (jobs[j].status = "none" /\ Enqueued(jobs[j]).status = "queued")
      /\ Revived(jobs[j]) = jobs[j] \/ (jobs[j].status = "dead" /\ Revived(jobs[j]).status = "queued")
      /\ Completed(jobs[j]).status # "none"
      /\ \A n, b : Failed(jobs[j], n, b).status # "none"
      /\ jobs[j].status = "running" => Reaped([jobs[j] EXCEPT !.stale = TRUE]).status # "none"
      /\ [jobs[j] EXCEPT !.delayed = FALSE].status = jobs[j].status
      /\ [jobs[j] EXCEPT !.delayed = FALSE].lockedBy = jobs[j].lockedBy
  BY <1>0, RowEffects
<1>1. ASSUME jobs'[j] = jobs[j] PROVE JobStep(j)
  BY <1>1 DEF JobStep
<1>2. ASSUME CompleteUpload PROVE JobStep(j)
  <2>1. jobs'[j] = jobs[j] \/ (j = <<"probe", 0>> /\ jobs'[j] = Enqueued(jobs[j]))
    BY <1>0, <1>2 DEF CompleteUpload
  <2>2. j = <<"probe", 0>> => Delivered(j)
    BY DEF Delivered, Type
  <2> QED BY <1>0, <1>1, <2>1, <2>2, <1>e DEF JobStep
<1>3. ASSUME RetryVideo PROVE JobStep(j)
  <2> DEFINE revived == [i \in Jobs |-> Revived(jobs[i])]
             fresh   == <<"probe", Retries'>>
  <2>1. jobs' = revived \/ jobs' = [revived EXCEPT ![fresh] = Enqueued(@)]
    BY <1>3 DEF RetryVideo
  <2>2. revived[j] = Revived(jobs[j]) /\ revived \in [Jobs -> Row]
    BY <1>0, RowStep
  <2>3. j = fresh => Delivered(j)
    BY DEF Delivered, Type
  <2> HIDE DEF revived, fresh
  <2>4. jobs'[j] = revived[j] \/ (j = fresh /\ jobs'[j] = Enqueued(revived[j]))
    BY <2>1, <2>2
  <2>5. Enqueued(revived[j]) = revived[j]
        \/ (revived[j].status = "none" /\ Enqueued(revived[j]).status = "queued")
    BY <2>2, RowEffects
  <2>6. \/ revived[j] = jobs[j]
        \/ jobs[j].status = "dead" /\ revived[j].status = "queued"
    BY <1>e, <2>2
  <2> QED BY <2>3, <2>4, <2>5, <2>6 DEF JobStep
<1>4. ASSUME NEW i \in Jobs, BackoffElapsed(i) PROVE JobStep(j)
  <2>1. jobs' = [jobs EXCEPT ![i] = [jobs[i] EXCEPT !.delayed = FALSE]]
    BY <1>4 DEF BackoffElapsed
  <2>2. jobs'[j] = jobs[j] \/ jobs'[j] = [jobs[j] EXCEPT !.delayed = FALSE]
    BY <1>0, <2>1
  <2> QED BY <1>0, <2>2, <1>e DEF JobStep
<1>5. ASSUME NEW w \in Workers, Lease(w) PROVE JobStep(j)
  <2>1. PICK i : LeaseOf(w, i)
    BY <1>5, LeaseParts
  <2>2. i = j \/ jobs'[j] = jobs[j]
    BY <1>0, <2>1 DEF LeaseOf
  <2> QED BY <1>1, <2>1, <2>2 DEF JobStep
<1>6. ASSUME NEW w \in Workers, Complete(w) \/ Fail(w) PROVE JobStep(j)
  <2>1. \/ jobs'[j] = jobs[j]
        \/ job[w] = j /\ jobs'[j] = Completed(jobs[j])
        \/ job[w] = j /\ jobs'[j] = Failed(jobs[j], seen[w], pc[w] = "error")
    BY <1>0, <1>6 DEF Complete, Fail
  <2> QED BY <1>0, <1>6, <2>1, <1>e DEF JobStep
<1>7. ASSUME NEW w \in Workers, ProbeEnqueue(w) PROVE JobStep(j)
  <2>1. jobs'[j] = jobs[j] \/ (Type(j) = "extract" /\ jobs'[j] = Enqueued(jobs[j]))
    BY <1>0, <1>7 DEF ProbeEnqueue, ProbeFollowUp
  <2> QED BY <1>0, <1>1, <2>1, <1>e DEF JobStep, Delivered
<1>8. ASSUME NEW w \in Workers, ExtractEnqueue(w) PROVE JobStep(j)
  <2>1. \/ jobs'[j] = jobs[j]
        \/ j = Index(ChunkOf(job[w])) /\ jobs'[j] = Enqueued(jobs[j])
    BY <1>0, <1>8 DEF ExtractEnqueue
  <2> QED BY <1>0, <1>1, <1>8, <2>1, <1>e DEF JobStep, Delivered
<1>9. ASSUME NEW w \in Workers, Reap(w) PROVE JobStep(j)
  <2>1. PICK S : ReapOf(w, S)
    BY <1>9, ReapParts
  <2>2. \/ jobs'[j] = jobs[j]
        \/ j \in Orphans /\ jobs'[j] = Reaped([jobs[j] EXCEPT !.stale = TRUE])
    BY <2>1 DEF ReapOf
  <2>3. j \in Orphans => jobs[j].status = "running"
    BY DEF Orphans
  <2> QED BY <1>0, <1>1, <2>2, <2>3, <1>e DEF JobStep
<1>10. ASSUME NEW w \in Workers,
              \/ ProbeStart(w) \/ ProbeWork(w) \/ ExtractStart(w) \/ ExtractWork(w)
              \/ IndexChunk(w) \/ RecordError(w) \/ Raises(w) \/ Burial(w) \/ BurialFails(w)
              \/ Crash(w) \/ Stall(w) \/ Resume(w)
       PROVE  UNCHANGED jobs
  BY <1>10 DEF ProbeStart, ProbeWork, ExtractStart, ExtractWork, IndexChunk, IndexStart,
       IndexWork, IndexFinalize, RecordError, RecordChunkError, RecordVerdict, Raises,
       ProbeRaises, ChunkWorkRaises, TransactionFails, Burial, Bury, Buried, BurialFails,
       Crash, Stall, Resume, Move, SetChunk
<1> QED
  BY <1>1, <1>2, <1>3, <1>4, <1>5, <1>6, <1>7, <1>8, <1>9, <1>10
     DEF Next, Proceed, ProbeVideo, ExtractChunk

-----------------------------------------------------------------------------
(* What a worker does next. *)
LEMMA PlaceSteps ==
  ASSUME Typed, Next, NEW w \in Workers
  PROVE  \/ pc'[w] = pc[w] /\ job'[w] = job[w]
         \/ pc'[w] \notin Busy /\ job'[w] = NoJob
         \/ pc'[w] = "start" /\ Lease(w)
         \/ HandlerStep(w) /\ job'[w] = job[w]
<1> DEFINE Goal == \/ pc'[w] = pc[w] /\ job'[w] = job[w]
                   \/ pc'[w] \notin Busy /\ job'[w] = NoJob
                   \/ pc'[w] = "start" /\ Lease(w)
                   \/ HandlerStep(w) /\ job'[w] = job[w]
<1>0. /\ pc = [u \in Workers |-> pc[u]] /\ job = [u \in Workers |-> job[u]]
      /\ \A u \in Workers : pc[u] \notin Busy => job[u] = NoJob
  BY DEF Typed, TypeOK, HasJob
<1>1. ASSUME UNCHANGED <<pc, job>> PROVE Goal
  BY <1>1
<1>2. ASSUME NEW u \in Workers, Complete(u) \/ Fail(u) \/ Crash(u) PROVE Goal
  <2>1. pc' = [pc EXCEPT ![u] = "idle"] /\ job' = [job EXCEPT ![u] = NoJob]
    BY <1>2 DEF Complete, Fail, Crash, Release, Goto
  <2>2. u = w \/ (pc'[w] = pc[w] /\ job'[w] = job[w])
    BY <1>0, <2>1
  <2>3. u = w => pc'[w] = "idle" /\ job'[w] = NoJob
    BY <1>0, <2>1
  <2> QED BY <2>2, <2>3 DEF Busy
<1>3. ASSUME NEW u \in Workers, Lease(u) PROVE Goal
  <2>1. PICK j : LeaseOf(u, j)
    BY <1>3, LeaseParts
  <2>2. pc' = [pc EXCEPT ![u] = "start"] /\ job' = [job EXCEPT ![u] = j]
    BY <1>3, <2>1 DEF Lease, Goto, LeaseOf
  <2> QED BY <1>0, <1>3, <2>2
<1>4. ASSUME NEW u \in Workers, HandlerStep(u) PROVE Goal
  <2>1. UNCHANGED job /\ \E place : pc' = [pc EXCEPT ![u] = place]
    BY <1>4, HandlerMoves DEF Goto
  <2> QED BY <1>0, <1>4, <2>1
<1>5. ASSUME NEW u \in Workers, Reap(u) \/ Burial(u) \/ BurialFails(u) PROVE Goal
  <2>1. UNCHANGED job /\ pc[u] \notin Busy
    BY <1>5 DEF Reap, Burial, Bury, Buried, BurialFails, At, Busy
  <2>2. \E place \in Places \ Busy : pc' = [pc EXCEPT ![u] = place]
    <3>1. CASE Reap(u)
      <4>1. PICK S : ReapOf(u, S)
        BY <3>1, ReapParts
      <4> QED BY <4>1 DEF ReapOf, Goto, AfterBurial, Places, Busy
    <3>2. CASE Burial(u) \/ BurialFails(u)
      BY <3>2 DEF Burial, Bury, Buried, BurialFails, Goto, AfterBurial, Places, Busy
    <3> QED BY <1>5, <3>1, <3>2
  <2>3. CASE u = w
    <3>1. pc'[w] \notin Busy
      BY <1>0, <2>2, <2>3
    <3>2. job'[w] = NoJob
      BY <1>0, <2>1, <2>3
    <3> QED BY <3>1, <3>2
  <2>4. CASE u # w
    BY <1>0, <2>1, <2>2, <2>4
  <2> QED BY <2>3, <2>4
<1>6. ASSUME \/ CompleteUpload \/ RetryVideo \/ \E j \in Jobs : BackoffElapsed(j)
             \/ \E u \in Workers : Stall(u) \/ Resume(u)
      PROVE  UNCHANGED <<pc, job>>
  BY <1>6 DEF CompleteUpload, RetryVideo, BackoffElapsed, Stall, Resume, workerVars
<1> HIDE DEF Goal
<1>7. Goal
  BY <1>1, <1>2, <1>3, <1>4, <1>5, <1>6 DEF Next, Proceed, HandlerStep
<1> QED BY <1>7 DEF Goal

(* Chunks stay extracted. *)
LEMMA ExtractedStays ==
  ASSUME Next
  PROVE  /\ extracted \subseteq extracted'
         /\ \A c \in extracted' \ extracted :
              \E w \in Workers : ExtractWork(w) /\ ChunkOf(job[w]) = c
<1>1. ASSUME UNCHANGED extracted
      PROVE  /\ extracted \subseteq extracted'
             /\ \A c \in extracted' \ extracted :
                  \E w \in Workers : ExtractWork(w) /\ ChunkOf(job[w]) = c
  BY <1>1
<1>2. ASSUME NEW w \in Workers, ExtractWork(w)
      PROVE  /\ extracted \subseteq extracted'
             /\ \A c \in extracted' \ extracted :
                  \E u \in Workers : ExtractWork(u) /\ ChunkOf(job[u]) = c
  BY <1>2 DEF ExtractWork
<1>3. ASSUME NEW w \in Workers,
             \/ ProbeVideo(w) \/ ExtractStart(w) \/ ExtractEnqueue(w) \/ IndexChunk(w)
             \/ RecordError(w) \/ Raises(w) \/ Lease(w) \/ Complete(w) \/ Fail(w) \/ Reap(w)
             \/ Burial(w) \/ BurialFails(w) \/ Crash(w) \/ Stall(w) \/ Resume(w)
      PROVE  UNCHANGED extracted
  BY <1>3 DEF ProbeVideo, ProbeStart, ProbeWork, ProbeEnqueue, ExtractStart, ExtractEnqueue,
     IndexChunk, IndexStart, IndexWork, IndexFinalize, RecordError, RecordChunkError,
     RecordVerdict, Raises, ProbeRaises, ChunkWorkRaises, TransactionFails, Lease, Complete,
     Fail, Reap, Burial, Bury, Buried, BurialFails, Crash, Stall, Resume, Move, SetChunk,
     videoVars
<1>4. ASSUME CompleteUpload \/ RetryVideo \/ \E j \in Jobs : BackoffElapsed(j)
      PROVE  UNCHANGED extracted
  BY <1>4 DEF CompleteUpload, RetryVideo, BackoffElapsed, videoVars
<1> QED BY <1>1, <1>2, <1>3, <1>4 DEF Next, Proceed, ExtractChunk

-----------------------------------------------------------------------------
(* The order of the stages, whatever happens: the rows of the jobs workers *)
(* run are there, and whoever is to enqueue the next stage has extracted.  *)
RowsExist == \A w \in Workers : pc[w] \in Busy => jobs[job[w]].status # "none"

EnqueueAfterExtract ==
  \A w \in Workers : pc[w] = "enqueue" /\ Type(job[w]) = "extract" => ChunkOf(job[w]) \in extracted

DoneAfterExtract == \A c \in Chunks : chunk[c] = "done" => c \in extracted

OrderInv == /\ Typed /\ RowsExist /\ EnqueueAfterExtract
            /\ IndexedAfterExtract /\ DoneAfterExtract

LEMMA StepRowsExist ==
  ASSUME OrderInv, Next
  PROVE  RowsExist'
<1>0. Typed /\ RowsExist
  BY DEF OrderInv
<1>1. ASSUME NEW j \in Jobs, jobs[j].status # "none"
      PROVE  jobs'[j].status # "none"
  <2>1. ASSUME NEW w \in Workers, LeaseOf(w, j) PROVE jobs'[j].status = "running"
    BY <1>0, <2>1 DEF LeaseOf, Leased, Typed, TypeOK
  <2> QED BY <1>0, <1>1, <2>1, JobSteps DEF JobStep
<1>2. ASSUME NEW w \in Workers, pc'[w] \in Busy
      PROVE  jobs'[job'[w]].status # "none"
  <2>1. CASE job'[w] = job[w] /\ pc[w] \in Busy
    BY <1>0, <1>1, <2>1, WorkerChunk DEF RowsExist
  <2>2. CASE Lease(w)
    <3>1. PICK j : LeaseOf(w, j)
      BY <2>2, LeaseParts
    <3>2. job'[w] = j /\ jobs'[j].status = "running"
      BY <1>0, <3>1 DEF LeaseOf, Leased, Typed, TypeOK
    <3> QED BY <3>2
  <2> QED BY <1>0, <1>2, <2>1, <2>2, PlaceSteps, HandlerMoves
<1> QED BY <1>2 DEF RowsExist

LEMMA StepEnqueueAfterExtract ==
  ASSUME OrderInv, Next
  PROVE  EnqueueAfterExtract'
<1>0. Typed /\ EnqueueAfterExtract /\ pc = [u \in Workers |-> pc[u]]
  BY DEF OrderInv, Typed, TypeOK
<1> SUFFICES ASSUME NEW w \in Workers, pc'[w] = "enqueue", Type(job'[w]) = "extract"
             PROVE  ChunkOf(job'[w]) \in extracted'
  BY DEF EnqueueAfterExtract
<1>1. CASE pc'[w] = pc[w] /\ job'[w] = job[w]
  BY <1>0, <1>1, ExtractedStays DEF EnqueueAfterExtract
<1>2. CASE HandlerStep(w) /\ job'[w] = job[w]
  <2>1. CASE ExtractStart(w)
    <3>1. ChunkOf(job[w]) \in extracted
      BY <1>0, <2>1 DEF ExtractStart, Move, Goto, ExtractFrom
    <3> QED BY <1>2, <3>1, ExtractedStays
  <2>2. CASE ExtractWork(w)
    BY <1>2, <2>2 DEF ExtractWork
  <2>3. CASE ProbeVideo(w)
    BY <1>2, <2>3 DEF ProbeVideo, ProbeStart, ProbeWork, ProbeEnqueue, In
  <2>4. CASE ExtractEnqueue(w) \/ IndexChunk(w) \/ RecordError(w) \/ Raises(w)
    <3>1. \E place \in Busy \ {"enqueue"} : Goto(w, place)
      BY <2>4 DEF ExtractEnqueue, IndexChunk, IndexStart, IndexWork, IndexFinalize, RecordError,
         RecordChunkError, RecordVerdict, Raises, ProbeRaises, ChunkWorkRaises,
         TransactionFails, Move, Busy
    <3> QED BY <1>0, <3>1 DEF Goto
  <2> QED BY <1>2, <2>1, <2>2, <2>3, <2>4 DEF HandlerStep, ExtractChunk
<1> QED BY <1>0, <1>1, <1>2, PlaceSteps DEF Busy

LEMMA StepIndexedAfterExtract ==
  ASSUME OrderInv, Next
  PROVE  IndexedAfterExtract'
<1>0. Typed /\ EnqueueAfterExtract /\ IndexedAfterExtract
  BY DEF OrderInv
<1> SUFFICES ASSUME NEW c \in Chunks, jobs'[Index(c)].status # "none"
             PROVE  c \in extracted'
  BY DEF IndexedAfterExtract
<1>1. Index(c) \in Jobs /\ Type(Index(c)) = "index" /\ ChunkOf(Index(c)) = c
  BY JobParts
<1>2. CASE jobs[Index(c)].status # "none"
  BY <1>0, <1>2, ExtractedStays DEF IndexedAfterExtract
<1>3. ASSUME NEW w \in Workers, ExtractEnqueue(w), Index(c) = Index(ChunkOf(job[w]))
      PROVE  c \in extracted'
  <2>1. ChunkOf(job[w]) \in extracted
    BY <1>0, <1>3 DEF ExtractEnqueue, In, At, EnqueueAfterExtract
  <2>2. ChunkOf(job[w]) = c
    BY <1>3 DEF Index
  <2> QED BY <2>1, <2>2, ExtractedStays
<1>4. CASE jobs[Index(c)].status = "none"
  <2>1. ~(\E w \in Workers : LeaseOf(w, Index(c))) /\ Index(c) \notin Orphans
    BY <1>4 DEF LeaseOf, Orphans
  <2>2. ASSUME NEW w \in Workers, Complete(w) \/ Fail(w), job[w] = Index(c) PROVE FALSE
    <3>1. pc[w] \in Busy
      BY <2>2 DEF Complete, Fail, At, Busy
    <3> QED BY <1>4, <2>2, <3>1 DEF OrderInv, RowsExist
  <2>3. Delivered(Index(c))
    BY <1>0, <1>1, <1>4, <2>1, <2>2, JobSteps DEF JobStep
  <2> QED BY <1>1, <1>3, <2>3 DEF Delivered
<1> QED BY <1>2, <1>4

(* What happens to the row of a chunk. *)
ChunkStep(c) ==
  \/ chunk'[c] = chunk[c]
  \/ chunk[c] # "done" /\ chunk'[c] # "done"
  \/ \E w \in Workers : IndexWork(w) /\ ChunkOf(job[w]) = c
  \/ \E w \in Workers : RecordChunkError(w) /\ ChunkOf(job[w]) = c /\ chunk'[c] # "done"

LEMMA ChunkSteps ==
  ASSUME Typed, Next, NEW c \in Chunks
  PROVE  ChunkStep(c)
<1>0. chunk \in [Chunks -> ChunkStatus]
  BY DEF Typed, TypeOK
<1>1. ASSUME UNCHANGED chunk PROVE ChunkStep(c)
  BY <1>1 DEF ChunkStep
<1>2. ASSUME RetryVideo \/ \E w \in Workers : ProbeWork(w) PROVE ChunkStep(c)
  BY <1>2 DEF RetryVideo, ProbeWork, ChunkStep
<1>3. ASSUME NEW w \in Workers, ExtractStart(w) \/ IndexStart(w) PROVE ChunkStep(c)
  <2>1. \/ UNCHANGED chunk
        \/ chunk[ChunkOf(job[w])] # "done" /\ chunk' = [chunk EXCEPT ![ChunkOf(job[w])] = "running"]
    BY <1>3 DEF ExtractStart, IndexStart, SetChunk, Move, videoVars, AlreadyIndexed
  <2> QED BY <1>0, <1>1, <2>1 DEF ChunkStep
<1>4. ASSUME NEW w \in Workers, Bury(w) PROVE ChunkStep(c)
  <2>1. \/ UNCHANGED chunk
        \/ \E d : chunk[d] # "done" /\ chunk' = [chunk EXCEPT ![d] = "failed"]
    BY <1>4 DEF Bury
  <2> QED BY <1>0, <1>1, <2>1 DEF ChunkStep
<1>5. ASSUME NEW w \in Workers, IndexWork(w) PROVE ChunkStep(c)
  <2>1. ChunkOf(job[w]) = c \/ chunk'[c] = chunk[c]
    BY <1>0, <1>5 DEF IndexWork, SetChunk
  <2> QED BY <1>5, <2>1 DEF ChunkStep
<1>6. ASSUME NEW w \in Workers, RecordChunkError(w) PROVE ChunkStep(c)
  <2>1. PICK status \in {"failed", "pending"} : SetChunk(ChunkOf(job[w]), status)
    BY <1>6 DEF RecordChunkError
  <2>2. chunk'[c] = chunk[c] \/ (ChunkOf(job[w]) = c /\ chunk'[c] # "done")
    BY <1>0, <2>1 DEF SetChunk
  <2> QED BY <1>6, <2>2 DEF ChunkStep
<1>7. ASSUME NEW w \in Workers,
             \/ ProbeStart(w) \/ ProbeEnqueue(w) \/ ExtractWork(w) \/ ExtractEnqueue(w)
             \/ IndexFinalize(w) \/ RecordVerdict(w) \/ Raises(w) \/ Lease(w) \/ Complete(w)
             \/ Fail(w) \/ Reap(w) \/ Buried(w) \/ BurialFails(w) \/ Crash(w) \/ Stall(w)
             \/ Resume(w)
      PROVE  UNCHANGED chunk
  BY <1>7 DEF ProbeStart, ProbeEnqueue, ExtractWork, ExtractEnqueue, IndexFinalize,
     RecordVerdict, Raises, ProbeRaises, ChunkWorkRaises, TransactionFails, Lease, Complete,
     Fail, Reap, Buried, BurialFails, Crash, Stall, Resume, Move, videoVars
<1>8. ASSUME CompleteUpload \/ \E j \in Jobs : BackoffElapsed(j) PROVE UNCHANGED chunk
  BY <1>8 DEF CompleteUpload, BackoffElapsed, videoVars
<1> QED
  BY <1>1, <1>2, <1>3, <1>4, <1>5, <1>6, <1>7, <1>8
     DEF Next, Proceed, ProbeVideo, ExtractChunk, IndexChunk, RecordError, Burial

(* An index job works on a chunk that was extracted. *)
LEMMA IndexOfExtracted ==
  ASSUME OrderInv, NEW w \in Workers, pc[w] \in Busy, Type(job[w]) = "index"
  PROVE  ChunkOf(job[w]) \in Chunks /\ job[w] = Index(ChunkOf(job[w]))
         /\ ChunkOf(job[w]) \in extracted
<1>1. job[w] \in Jobs /\ jobs[job[w]].status # "none"
  BY DEF OrderInv, RowsExist, Typed, HasJob
<1>2. ChunkOf(job[w]) \in Chunks /\ job[w] = Index(ChunkOf(job[w]))
  BY <1>1, JobParts
<1> QED BY <1>1, <1>2 DEF OrderInv, IndexedAfterExtract

LEMMA StepDoneAfterExtract ==
  ASSUME OrderInv, Next
  PROVE  DoneAfterExtract'
<1>0. Typed /\ DoneAfterExtract
  BY DEF OrderInv
<1> SUFFICES ASSUME NEW c \in Chunks, chunk'[c] = "done"
             PROVE  c \in extracted'
  BY DEF DoneAfterExtract
<1>1. ASSUME NEW w \in Workers, IndexWork(w), ChunkOf(job[w]) = c PROVE c \in extracted
  BY <1>1, IndexOfExtracted DEF IndexWork, In, At, Busy
<1> QED BY <1>0, <1>1, ChunkSteps, ExtractedStays DEF ChunkStep, DoneAfterExtract

LEMMA OrderHolds == Spec => []OrderInv
<1>1. Init => OrderInv
  <2> SUFFICES ASSUME Init PROVE OrderInv
    OBVIOUS
  <2>1. Typed
    BY InitTyped
  <2>2. RowsExist /\ EnqueueAfterExtract /\ DoneAfterExtract
    BY DEF Init, RowsExist, EnqueueAfterExtract, DoneAfterExtract, Busy
  <2>3. IndexedAfterExtract
    BY JobParts DEF Init, IndexedAfterExtract, NoRow
  <2> QED BY <2>1, <2>2, <2>3 DEF OrderInv
<1>2. OrderInv /\ [Next]_vars => OrderInv'
  <2> SUFFICES ASSUME OrderInv, [Next]_vars PROVE OrderInv'
    OBVIOUS
  <2>1. CASE Next
    <3>1. Typed'
      BY <2>1, StepTyped DEF OrderInv
    <3> QED BY <2>1, <3>1, StepRowsExist, StepEnqueueAfterExtract, StepIndexedAfterExtract,
               StepDoneAfterExtract DEF OrderInv
  <2>2. CASE UNCHANGED vars
    <3>1. Typed'
      BY <2>2, TypedStutters DEF OrderInv
    <3>2. UNCHANGED <<jobs, chunk, extracted, pc, job>>
      BY <2>2 DEF vars, videoVars, workerVars
    <3> QED BY <3>1, <3>2 DEF OrderInv, RowsExist, EnqueueAfterExtract, IndexedAfterExtract,
                               DoneAfterExtract
  <2> QED BY <2>1, <2>2
<1> QED BY <1>1, <1>2, PTL DEF Spec

(* index_chunk never finds a chunk that was not extracted, whatever dies,  *)
(* freezes or fails, so its RuntimeError cannot be raised.                 *)
THEOREM IndexFindsFrames == Spec => []IndexedAfterExtract
<1>1. OrderInv => IndexedAfterExtract
  BY DEF OrderInv
<1> QED BY <1>1, OrderHolds, PTL

-----------------------------------------------------------------------------
(* Without frozen processes and failing transactions a worker owns the row *)
(* of its job, is the only one to run it, and nobody has done its work.    *)
Owned ==
  /\ frozen = {}
  /\ \A w \in Workers :
       pc[w] \in Busy => jobs[job[w]].status = "running" /\ jobs[job[w]].lockedBy = w

Undone ==
  \A w \in Workers : pc[w] \in {"work", "record"} =>
    /\ Type(job[w]) = "extract" => ChunkOf(job[w]) \notin extracted
    /\ Type(job[w]) = "index" => chunk[ChunkOf(job[w])] # "done"

AllIndexed == \A c \in Chunks : chunk[c] = "done"
ReadyInv == video = "ready" => AllIndexed

LEMMA OneRunner ==
  ASSUME Owned, NEW w \in Workers, NEW u \in Workers,
         pc[w] \in Busy, pc[u] \in Busy, job[u] = job[w]
  PROVE  u = w
  BY DEF Owned

LEMMA OrderlySteps ==
  ASSUME Typed, Next, Orderly'
  PROVE  Orderly /\ frozen' \subseteq frozen /\ \A w \in Workers : ~TransactionFails(w)
<1>0. used \in [Kinds -> Nat] /\ Kinds = {"crash", "stall", "error", "probeError", "corrupt",
                                          "dbError", "retry", "untimely", "upload"}
  BY DEF Typed, TypeOK, Kinds
<1>1. ASSUME NEW k \in Kinds, Spend(k)
      PROVE  k # "stall" /\ k # "dbError" /\ Orderly
  <2>1. used' = [used EXCEPT ![k] = used[k] + 1]
    BY <1>1 DEF Spend
  <2>2. k # "stall" /\ k # "dbError"
    BY <1>0, <2>1 DEF Orderly
  <2> QED BY <1>0, <2>1, <2>2 DEF Orderly
<1>2. \A w \in Workers : ~TransactionFails(w)
  BY <1>0, <1>1 DEF TransactionFails
<1>3. ASSUME UNCHANGED <<frozen, used>> PROVE Orderly /\ frozen' \subseteq frozen
  BY <1>3 DEF Orderly
<1>4. ASSUME CompleteUpload \/ RetryVideo PROVE Orderly /\ frozen' \subseteq frozen
  BY <1>0, <1>1, <1>4 DEF CompleteUpload, RetryVideo
<1>5. ASSUME NEW w \in Workers, Raises(w) \/ BurialFails(w) \/ Crash(w) \/ Stall(w)
      PROVE  Orderly /\ frozen' \subseteq frozen
  BY <1>0, <1>1, <1>5 DEF Raises, ProbeRaises, ChunkWorkRaises, TransactionFails, BurialFails,
     Crash, Stall, Move
<1>6. ASSUME NEW w \in Workers, Proceed(w) PROVE UNCHANGED <<frozen, used>>
  BY <1>6 DEF Proceed, Lease, ProbeVideo, ProbeStart, ProbeWork, ProbeEnqueue, ExtractChunk,
     ExtractStart, ExtractWork, ExtractEnqueue, IndexChunk, IndexStart, IndexWork, IndexFinalize,
     RecordError, RecordChunkError, RecordVerdict, Complete, Fail, Reap, Burial, Bury, Buried,
     Move, SetChunk, NoSpend
<1>7. ASSUME NEW w \in Workers, Resume(w) PROVE Orderly /\ frozen' \subseteq frozen
  BY <1>7 DEF Resume, Orderly
<1>8. ASSUME NEW j \in Jobs, BackoffElapsed(j) PROVE UNCHANGED <<frozen, used>>
  BY <1>8 DEF BackoffElapsed
<1> QED BY <1>2, <1>3, <1>4, <1>5, <1>6, <1>7, <1>8 DEF Next

LEMMA StepOwned ==
  ASSUME Typed, Owned, Next, Orderly'
  PROVE  Owned'
<1>0. frozen = {} /\ frozen' = {}
  BY OrderlySteps DEF Owned
<1> SUFFICES ASSUME NEW w \in Workers, pc'[w] \in Busy
             PROVE  jobs'[job'[w]].status = "running" /\ jobs'[job'[w]].lockedBy = w
  BY <1>0 DEF Owned
<1>1. CASE job'[w] = job[w] /\ pc[w] \in Busy
  <2> DEFINE j == job[w]
  <2>1. j \in Jobs /\ jobs[j].status = "running" /\ jobs[j].lockedBy = w
    BY <1>1, WorkerChunk DEF Owned
  <2>2. j \notin Orphans
    BY <1>0, <1>1 DEF Orphans
  <2>3. ~(\E u \in Workers : LeaseOf(u, j))
    BY <2>1 DEF LeaseOf
  <2>4. ASSUME NEW u \in Workers, Complete(u) \/ Fail(u), job[u] = j PROVE FALSE
    <3>1. pc[u] \in Busy /\ pc' = [pc EXCEPT ![u] = "idle"]
      BY <2>4 DEF Complete, Fail, At, Busy, Release, Goto
    <3>2. u = w
      BY <1>1, <2>4, <3>1, OneRunner
    <3> QED BY <3>1, <3>2 DEF Busy, Typed, TypeOK
  <2>5. jobs'[j].status = "running" /\ jobs'[j].lockedBy = w
    BY <2>1, <2>2, <2>3, <2>4, JobSteps DEF JobStep
  <2> QED BY <1>1, <2>5
<1>2. CASE Lease(w)
  <2>1. PICK j : LeaseOf(w, j)
    BY <1>2, LeaseParts
  <2>2. job'[w] = j /\ jobs'[j] = Leased(jobs[j], w)
    BY <2>1 DEF LeaseOf, Typed, TypeOK
  <2> QED BY <2>2 DEF Leased
<1> QED BY <1>1, <1>2, PlaceSteps, HandlerMoves

(* Steps into the work of a handler and out of it by an exception *)
LEMMA WorkSteps ==
  ASSUME Typed, NEW w \in Workers, HandlerStep(w), ~TransactionFails(w),
         pc'[w] \in {"work", "record"}
  PROVE  /\ Type(job[w]) = "extract" => \/ ExtractStart(w) /\ ChunkOf(job[w]) \notin extracted
                                        \/ ChunkWorkRaises(w)
         /\ Type(job[w]) = "index" => \/ IndexStart(w) /\ chunk[ChunkOf(job[w])] # "done"
                                      \/ ChunkWorkRaises(w)
<1>0. pc = [u \in Workers |-> pc[u]]
  BY DEF Typed, TypeOK
<1>1. ASSUME NEW place, Goto(w, place) PROVE place \in {"work", "record"}
  BY <1>0, <1>1 DEF Goto
<1>2. ASSUME ProbeVideo(w) \/ ProbeRaises(w) PROVE Type(job[w]) = "probe"
  BY <1>2 DEF ProbeVideo, ProbeStart, ProbeWork, ProbeEnqueue, ProbeRaises, In
<1>3. ~ExtractWork(w) /\ ~ExtractEnqueue(w) /\ ~IndexWork(w) /\ ~IndexFinalize(w)
      /\ ~RecordError(w)
  BY <1>1 DEF ExtractWork, ExtractEnqueue, IndexWork, IndexFinalize, RecordError,
     RecordChunkError, RecordVerdict
<1>4. ASSUME ExtractStart(w)
      PROVE  ChunkOf(job[w]) \notin extracted /\ Type(job[w]) = "extract"
  BY <1>1, <1>4 DEF ExtractStart, ExtractFrom, Move, In
<1>5. ASSUME IndexStart(w)
      PROVE  chunk[ChunkOf(job[w])] # "done" /\ Type(job[w]) = "index"
  BY <1>1, <1>5 DEF IndexStart, AlreadyIndexed, Move, In
<1> QED BY <1>2, <1>3, <1>4, <1>5 DEF HandlerStep, ExtractChunk, IndexChunk, Raises

LEMMA StepUndone ==
  ASSUME OrderInv, Owned, Undone, Next, Orderly'
  PROVE  Undone'
<1>0. Typed /\ DoneAfterExtract /\ pc = [u \in Workers |-> pc[u]]
  BY DEF OrderInv, Typed, TypeOK
<1>1. ASSUME NEW w \in Workers, pc[w] \in Busy, Type(job[w]) = "extract",
             ChunkOf(job[w]) \notin extracted, ~ExtractWork(w)
      PROVE  ChunkOf(job[w]) \notin extracted'
  <2>1. job[w] \in Jobs /\ job[w] = Extract(ChunkOf(job[w]))
    BY <1>0, <1>1, WorkerChunk, JobParts
  <2>2. ASSUME NEW u \in Workers, ExtractWork(u), ChunkOf(job[u]) = ChunkOf(job[w]) PROVE FALSE
    <3>1. pc[u] \in Busy /\ Type(job[u]) = "extract"
      BY <2>2 DEF ExtractWork, In, At, Busy
    <3>2. job[u] = Extract(ChunkOf(job[u]))
      BY <1>0, <3>1, WorkerChunk, JobParts
    <3>3. u = w
      BY <1>1, <2>1, <2>2, <3>1, <3>2, OneRunner
    <3> QED BY <1>1, <2>2, <3>3
  <2> QED BY <1>1, <2>2, ExtractedStays
<1>2. ASSUME NEW w \in Workers, pc[w] \in Busy, Type(job[w]) = "index",
             chunk[ChunkOf(job[w])] # "done", ~IndexWork(w)
      PROVE  chunk'[ChunkOf(job[w])] # "done"
  <2>1. ChunkOf(job[w]) \in Chunks /\ job[w] = Index(ChunkOf(job[w]))
    BY <1>2, IndexOfExtracted
  <2>2. ASSUME NEW u \in Workers, IndexWork(u), ChunkOf(job[u]) = ChunkOf(job[w]) PROVE FALSE
    <3>1. pc[u] \in Busy /\ Type(job[u]) = "index"
      BY <2>2 DEF IndexWork, In, At, Busy
    <3>2. job[u] = Index(ChunkOf(job[u]))
      BY <3>1, IndexOfExtracted
    <3>3. u = w
      BY <1>2, <2>1, <2>2, <3>1, <3>2, OneRunner
    <3> QED BY <1>2, <2>2, <3>3
  <2> QED BY <1>0, <1>2, <2>1, <2>2, ChunkSteps DEF ChunkStep
<1> SUFFICES ASSUME NEW w \in Workers, pc'[w] \in {"work", "record"}
             PROVE  /\ Type(job'[w]) = "extract" => ChunkOf(job'[w]) \notin extracted'
                    /\ Type(job'[w]) = "index" => chunk'[ChunkOf(job'[w])] # "done"
  BY DEF Undone
<1>3. /\ ~ExtractWork(w) /\ ~IndexWork(w)
  BY <1>0 DEF ExtractWork, IndexWork, Goto
<1>4. CASE pc'[w] = pc[w] /\ job'[w] = job[w]
  BY <1>1, <1>2, <1>3, <1>4 DEF Undone, Busy
<1>5. CASE HandlerStep(w) /\ job'[w] = job[w]
  <2>1. pc[w] \in Busy /\ ~TransactionFails(w)
    BY <1>0, <1>5, HandlerMoves, OrderlySteps
  <2>2. ChunkWorkRaises(w) => pc[w] = "work"
    BY DEF ChunkWorkRaises, In, At
  <2>3. /\ Type(job[w]) = "extract" => ChunkOf(job[w]) \notin extracted
        /\ Type(job[w]) = "index" => chunk[ChunkOf(job[w])] # "done"
    BY <1>0, <1>5, <2>1, <2>2, WorkSteps DEF Undone
  <2> QED BY <1>1, <1>2, <1>3, <1>5, <2>1, <2>3
<1> QED BY <1>0, <1>4, <1>5, PlaceSteps DEF Busy

LEMMA StepDoneStays ==
  ASSUME OrderInv, Undone, Next, NEW c \in Chunks, chunk[c] = "done"
  PROVE  chunk'[c] = "done"
<1>0. Typed /\ DoneAfterExtract /\ chunk \in [Chunks -> ChunkStatus]
  BY DEF OrderInv, Typed, TypeOK
<1>1. ASSUME NEW w \in Workers, RecordChunkError(w), ChunkOf(job[w]) = c PROVE FALSE
  <2>1. pc[w] = "record" /\ Type(job[w]) \in {"extract", "index"}
    BY <1>0, <1>1, WorkerChunk DEF RecordChunkError, At, Busy
  <2> QED BY <1>0, <1>1, <2>1 DEF Undone, DoneAfterExtract
<1>2. ASSUME NEW w \in Workers, IndexWork(w), ChunkOf(job[w]) = c PROVE chunk'[c] = "done"
  BY <1>0, <1>2 DEF IndexWork, SetChunk
<1> QED BY <1>0, <1>1, <1>2, ChunkSteps DEF ChunkStep

(* Only finalize_if_complete() declares a video ready. *)
LEMMA ReadySteps ==
  ASSUME Typed, Next, video' = "ready"
  PROVE  video = "ready" \/ (UNCHANGED chunk /\ AllIndexed)
<1>1. ASSUME NEW status, FinalizeIfComplete(status)
      PROVE  video = "ready" \/ AllIndexed
  BY <1>1 DEF FinalizeIfComplete, Verdict, AllTerminal, AllIndexed
<1>2. ASSUME NEW w \in Workers, IndexFinalize(w) \/ RecordVerdict(w) \/ Buried(w)
      PROVE  video = "ready" \/ (UNCHANGED chunk /\ AllIndexed)
  BY <1>1, <1>2 DEF IndexFinalize, RecordVerdict, Buried
<1>3. ASSUME NEW w \in Workers, ProbeStart(w) PROVE video = "ready"
  BY <1>3 DEF ProbeStart, AlreadyReady
<1>4. ~CompleteUpload /\ ~RetryVideo
  BY DEF CompleteUpload, RetryVideo
<1>5. ASSUME NEW w \in Workers,
             \/ ProbeWork(w) \/ ProbeEnqueue(w) \/ ExtractChunk(w) \/ IndexStart(w)
             \/ IndexWork(w) \/ RecordChunkError(w) \/ Raises(w) \/ Lease(w) \/ Complete(w)
             \/ Fail(w) \/ Reap(w) \/ Bury(w) \/ BurialFails(w) \/ Crash(w) \/ Stall(w)
             \/ Resume(w)
      PROVE  UNCHANGED video
  BY <1>5 DEF ProbeWork, ProbeEnqueue, ExtractChunk, ExtractStart, ExtractWork, ExtractEnqueue,
     IndexStart, IndexWork, RecordChunkError, Raises, ProbeRaises, ChunkWorkRaises,
     TransactionFails, Lease, Complete, Fail, Reap, Bury, BurialFails, Crash, Stall, Resume,
     Move, SetChunk, videoVars
<1>6. ASSUME NEW j \in Jobs, BackoffElapsed(j) PROVE UNCHANGED video
  BY <1>6 DEF BackoffElapsed, videoVars
<1> QED BY <1>2, <1>3, <1>4, <1>5, <1>6
           DEF Next, Proceed, ProbeVideo, IndexChunk, RecordError, Burial

SafeInv == OrderInv /\ (Orderly => Owned /\ Undone /\ ReadyInv)

LEMMA StepSafe ==
  ASSUME SafeInv, Next, OrderInv'
  PROVE  /\ SafeInv'
         /\ Orderly' => \A c \in Chunks : chunk[c] = "done" => chunk'[c] = "done"
<1>0. OrderInv /\ Typed
  BY DEF SafeInv, OrderInv
<1>1. ASSUME Orderly'
      PROVE  /\ Owned' /\ Undone' /\ ReadyInv'
             /\ \A c \in Chunks : chunk[c] = "done" => chunk'[c] = "done"
  <2>1. Owned /\ Undone /\ ReadyInv
    BY <1>0, <1>1, OrderlySteps DEF SafeInv
  <2>2. \A c \in Chunks : chunk[c] = "done" => chunk'[c] = "done"
    BY <1>0, <2>1, StepDoneStays
  <2>3. ReadyInv'
    BY <1>0, <2>1, <2>2, ReadySteps DEF ReadyInv, AllIndexed
  <2> QED BY <1>0, <1>1, <2>1, <2>2, <2>3, StepOwned, StepUndone
<1> QED BY <1>1 DEF SafeInv

LEMMA SafeStutters ==
  ASSUME SafeInv, OrderInv', UNCHANGED vars
  PROVE  SafeInv'
<1>1. UNCHANGED <<jobs, video, chunk, extracted, pc, job, frozen, used>>
  BY DEF vars, videoVars, workerVars
<1> QED BY <1>1 DEF SafeInv, Orderly, Owned, Undone, ReadyInv, AllIndexed

LEMMA SafeHolds == Spec => []SafeInv
<1>1. Init => (OrderInv => SafeInv)
  BY DEF Init, SafeInv, Owned, Undone, ReadyInv, Busy
<1>2. SafeInv /\ OrderInv' /\ [Next]_vars => SafeInv'
  BY StepSafe, SafeStutters
<1> QED BY <1>1, <1>2, OrderHolds, PTL DEF Spec

(* A video is shown as ready only while all its chunks are searchable,     *)
(* through crashes, errors, retries and repeated complete calls.           *)
THEOREM ReadyMeansComplete == Spec => []ReadyIsComplete
<1>1. SafeInv => ReadyIsComplete
  BY DEF SafeInv, ReadyInv, AllIndexed, ReadyIsComplete
<1> QED BY <1>1, SafeHolds, PTL

(* A chunk that is searchable stays so: no late attempt, reaper or retry   *)
(* takes it back.                                                          *)
THEOREM DoneStaysDone == Spec => DoneIsFinal
<1>1. SafeInv /\ OrderInv' /\ [Next]_vars =>
        [Orderly' => \A c \in Chunks : chunk[c] = "done" => chunk'[c] = "done"]_vars
  BY StepSafe
<1> QED BY <1>1, SafeHolds, OrderHolds, PTL DEF Spec, DoneIsFinal
=============================================================================
