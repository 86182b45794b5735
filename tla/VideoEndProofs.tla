----------------------------- MODULE VideoEndProofs -----------------------------
(***************************************************************************)
(* How the run of a video ends, for every number of chunks and workers and *)
(* every MaxAttempts: theorems about VideoPipeline that build on those of  *)
(* VideoProofs.  The first part says once who writes each variable, and    *)
(* the proofs after it speak of these writes and not of the actions.       *)
(***************************************************************************)
EXTENDS VideoProofs

-----------------------------------------------------------------------------
(* Events are counted. *)
LEMMA SpendCounts ==
  ASSUME Typed, NEW k \in Kinds, Spend(k)
  PROVE  used'[k] = used[k] + 1 /\ \A i \in Kinds \ {k} : used'[i] = used[i]
  BY DEF Spend, Typed, TypeOK

LEMMA SpendOrNot ==
  ASSUME Next
  PROVE  UNCHANGED used \/ \E k \in Kinds : Spend(k)
<1>0. Kinds = {"crash", "stall", "error", "probeError", "corrupt", "dbError", "retry",
            "untimely", "upload"}
  BY DEF Kinds
<1>1. ASSUME NEW w \in Workers, Proceed(w) PROVE UNCHANGED used
  BY <1>1 DEF Proceed, Lease, ProbeVideo, ProbeStart, ProbeWork, ProbeEnqueue, ExtractChunk,
     ExtractStart, ExtractWork, ExtractEnqueue, IndexChunk, IndexStart, IndexWork, IndexFinalize,
     RecordError, RecordChunkError, RecordVerdict, Complete, Fail, Reap, Burial, Bury, Buried,
     NoSpend
<1>2. ASSUME NEW w \in Workers, Raises(w) \/ BurialFails(w) \/ Crash(w) \/ Stall(w)
      PROVE  \E k \in Kinds : Spend(k)
  BY <1>0, <1>2 DEF Raises, ProbeRaises, ChunkWorkRaises, TransactionFails, BurialFails,
     Crash, Stall
<1>3. ASSUME CompleteUpload \/ RetryVideo PROVE \E k \in Kinds : Spend(k)
  BY <1>0, <1>3 DEF CompleteUpload, RetryVideo
<1>4. ASSUME \/ \E w \in Workers : Resume(w)
             \/ \E j \in Jobs : BackoffElapsed(j)
      PROVE  UNCHANGED used
  BY <1>4 DEF Resume, BackoffElapsed
<1> QED BY <1>1, <1>2, <1>3, <1>4 DEF Next

LEMMA UsedGrows ==
  ASSUME Typed, Next, NEW k \in Kinds
  PROVE  used[k] \in Nat /\ used'[k] \in Nat /\ used[k] <= used'[k]
<1>0. used[k] \in Nat
  BY DEF Typed, TypeOK
<1>1. ASSUME NEW i \in Kinds, Spend(i) PROVE used'[k] \in Nat /\ used[k] <= used'[k]
  BY <1>0, <1>1, SpendCounts
<1> QED BY <1>0, <1>1, SpendOrNot

-----------------------------------------------------------------------------
(* Who writes the status of a chunk. *)
ChunkWrite(c) ==
  \/ chunk'[c] = chunk[c]
  \/ RetryVideo /\ chunk[c] = "failed" /\ chunk'[c] = "pending"
  \/ \E w \in Workers : ProbeWork(w) /\ chunk[c] = "none" /\ chunk'[c] = "pending"
  \/ \E w \in Workers : /\ ExtractStart(w) \/ IndexStart(w)
                        /\ ChunkOf(job[w]) = c /\ chunk[c] \notin {"none", "done"}
                        /\ chunk'[c] = "running"
  \/ \E w \in Workers : IndexWork(w) /\ ChunkOf(job[w]) = c /\ chunk'[c] = "done"
  \/ \E w \in Workers : /\ RecordChunkError(w) /\ ChunkOf(job[w]) = c
                        /\ chunk'[c] = IF LastAttempt(w) THEN "failed" ELSE "pending"
  \/ \E w \in Workers : Bury(w) /\ chunk[c] \notin {"none", "done"} /\ chunk'[c] = "failed"

LEMMA ChunkWrites ==
  ASSUME Typed, Next, NEW c \in Chunks
  PROVE  ChunkWrite(c)
<1>0. chunk \in [Chunks -> ChunkStatus]
  BY DEF Typed, TypeOK
<1>1. ASSUME UNCHANGED chunk PROVE ChunkWrite(c)
  BY <1>1 DEF ChunkWrite
<1>2. ASSUME RetryVideo PROVE ChunkWrite(c)
  BY <1>2 DEF RetryVideo, ChunkWrite
<1>3. ASSUME NEW w \in Workers, ProbeWork(w) PROVE ChunkWrite(c)
  BY <1>3 DEF ProbeWork, ChunkWrite
<1>4. ASSUME NEW w \in Workers, ExtractStart(w) \/ IndexStart(w) PROVE ChunkWrite(c)
  <2>1. \/ UNCHANGED chunk
        \/ /\ chunk[ChunkOf(job[w])] \notin {"none", "done"}
           /\ chunk' = [chunk EXCEPT ![ChunkOf(job[w])] = "running"]
    BY <1>4 DEF ExtractStart, IndexStart, SetChunk, Move, videoVars, AlreadyIndexed
  <2>2. \/ chunk'[c] = chunk[c]
        \/ ChunkOf(job[w]) = c /\ chunk[c] \notin {"none", "done"} /\ chunk'[c] = "running"
    BY <1>0, <2>1
  <2> QED BY <1>4, <2>2 DEF ChunkWrite
<1>5. ASSUME NEW w \in Workers, IndexWork(w) PROVE ChunkWrite(c)
  <2>1. chunk'[c] = chunk[c] \/ (ChunkOf(job[w]) = c /\ chunk'[c] = "done")
    BY <1>0, <1>5 DEF IndexWork, SetChunk
  <2> QED BY <1>5, <2>1 DEF ChunkWrite
<1>6. ASSUME NEW w \in Workers, RecordChunkError(w) PROVE ChunkWrite(c)
  <2> DEFINE status == IF LastAttempt(w) THEN "failed" ELSE "pending"
  <2>1. chunk' = [chunk EXCEPT ![ChunkOf(job[w])] = status]
    BY <1>6 DEF RecordChunkError, SetChunk
  <2>2. chunk'[c] = chunk[c] \/ (ChunkOf(job[w]) = c /\ chunk'[c] = status)
    BY <1>0, <2>1
  <2> QED BY <1>6, <2>2 DEF ChunkWrite
<1>7. ASSUME NEW w \in Workers, Bury(w) PROVE ChunkWrite(c)
  <2>1. \/ UNCHANGED chunk
        \/ \E d : chunk[d] \notin {"none", "done"} /\ chunk' = [chunk EXCEPT ![d] = "failed"]
    BY <1>7 DEF Bury
  <2>2. chunk'[c] = chunk[c] \/ (chunk[c] \notin {"none", "done"} /\ chunk'[c] = "failed")
    BY <1>0, <2>1
  <2> QED BY <1>7, <2>2 DEF ChunkWrite
<1>8. ASSUME NEW w \in Workers,
             \/ ProbeStart(w) \/ ProbeEnqueue(w) \/ ExtractWork(w) \/ ExtractEnqueue(w)
             \/ IndexFinalize(w) \/ RecordVerdict(w) \/ Raises(w) \/ Lease(w) \/ Complete(w)
             \/ Fail(w) \/ Reap(w) \/ Buried(w) \/ BurialFails(w) \/ Crash(w) \/ Stall(w)
             \/ Resume(w)
      PROVE  UNCHANGED chunk
  BY <1>8 DEF ProbeStart, ProbeEnqueue, ExtractWork, ExtractEnqueue, IndexFinalize,
     RecordVerdict, Raises, ProbeRaises, ChunkWorkRaises, TransactionFails, Lease, Complete,
     Fail, Reap, Buried, BurialFails, Crash, Stall, Resume, Move, videoVars
<1>9. ASSUME CompleteUpload \/ \E j \in Jobs : BackoffElapsed(j) PROVE UNCHANGED chunk
  BY <1>9 DEF CompleteUpload, BackoffElapsed, videoVars
<1> QED
  BY <1>1, <1>2, <1>3, <1>4, <1>5, <1>6, <1>7, <1>8, <1>9
     DEF Next, Proceed, ProbeVideo, ExtractChunk, IndexChunk, RecordError, Burial

(* Who writes the status of the video. *)
Settles(w) ==
  /\ UNCHANGED chunk /\ AllTerminal /\ video' = Verdict
  /\ \/ IndexFinalize(w) \/ RecordVerdict(w)
     \/ Buried(w) /\ video \notin {"ready", "failed"}

VideoWrite ==
  \/ UNCHANGED video
  \/ CompleteUpload /\ video' = "uploaded"
  \/ RetryVideo /\ video' = "processing"
  \/ \E w \in Workers : ProbeStart(w) /\ video # "ready" /\ video' = "processing"
  \/ \E w \in Workers : Settles(w)

LEMMA VideoWrites ==
  ASSUME Next
  PROVE  VideoWrite
<1>1. ASSUME UNCHANGED video PROVE VideoWrite
  BY <1>1 DEF VideoWrite
<1>2. ASSUME CompleteUpload \/ RetryVideo PROVE VideoWrite
  BY <1>2 DEF CompleteUpload, RetryVideo, VideoWrite
<1>3. ASSUME NEW w \in Workers, ProbeStart(w) PROVE VideoWrite
  <2>1. UNCHANGED video \/ (video # "ready" /\ video' = "processing")
    BY <1>3 DEF ProbeStart, AlreadyReady
  <2> QED BY <1>3, <2>1 DEF VideoWrite
<1>4. ASSUME NEW w \in Workers, IndexFinalize(w) \/ RecordVerdict(w) \/ Buried(w)
      PROVE  VideoWrite
  <2>1. \/ UNCHANGED video
        \/ UNCHANGED chunk /\ AllTerminal /\ video' = Verdict
    BY <1>4 DEF IndexFinalize, RecordVerdict, Buried, FinalizeIfComplete
  <2>2. Buried(w) => UNCHANGED video \/ video \notin {"ready", "failed"}
    BY DEF Buried, FinalizeIfComplete
  <2> QED BY <1>4, <2>1, <2>2 DEF VideoWrite, Settles
<1>5. ASSUME NEW w \in Workers,
             \/ ProbeWork(w) \/ ProbeEnqueue(w) \/ ExtractChunk(w) \/ IndexStart(w)
             \/ IndexWork(w) \/ RecordChunkError(w) \/ Raises(w) \/ Lease(w) \/ Complete(w)
             \/ Fail(w) \/ Reap(w) \/ Bury(w) \/ BurialFails(w) \/ Crash(w) \/ Stall(w)
             \/ Resume(w)
      PROVE  UNCHANGED video
  BY <1>5 DEF ProbeWork, ProbeEnqueue, ExtractChunk, ExtractStart, ExtractWork, ExtractEnqueue,
     IndexStart, IndexWork, RecordChunkError, Raises, ProbeRaises, ChunkWorkRaises,
     TransactionFails, Lease, Complete, Fail, Reap, Bury, BurialFails, Crash, Stall, Resume,
     Move, SetChunk, videoVars
<1>6. ASSUME NEW j \in Jobs, BackoffElapsed(j) PROVE UNCHANGED video
  BY <1>6 DEF BackoffElapsed, videoVars
<1> QED BY <1>1, <1>2, <1>3, <1>4, <1>5, <1>6
           DEF Next, Proceed, ProbeVideo, IndexChunk, RecordError, Burial

(* Who writes the row of a job, and what it holds then. *)
Enqueuer(j) ==
  \/ CompleteUpload /\ j = <<"probe", 0>>
  \/ RetryVideo /\ Type(j) = "probe"
  \/ \E w \in Workers : ProbeEnqueue(w) /\ Type(j) = "extract"
  \/ \E w \in Workers : ExtractEnqueue(w) /\ j = Index(ChunkOf(job[w]))

RowWrite(j) ==
  \/ jobs'[j].status = jobs[j].status /\ jobs'[j].attempts = jobs[j].attempts
  \/ jobs[j].status = "none" /\ jobs'[j].status = "queued" /\ jobs'[j].attempts = 0 /\ Enqueuer(j)
  \/ jobs[j].status = "dead" /\ jobs'[j].status = "queued" /\ jobs'[j].attempts = 0 /\ RetryVideo
  \/ \E w \in Workers : /\ Lease(w) /\ LeaseOf(w, j)
                        /\ jobs'[j].status = "running" /\ jobs'[j].attempts = jobs[j].attempts + 1
  \/ \E w \in Workers : /\ Complete(w) /\ job[w] = j
                        /\ jobs'[j].status = "succeeded" /\ jobs'[j].attempts = jobs[j].attempts
  \/ \E w \in Workers : /\ Fail(w) /\ job[w] = j
                        /\ jobs'[j].status =
                             IF pc[w] = "error" /\ seen[w] < MaxAttempts THEN "queued" ELSE "dead"
                        /\ jobs'[j].attempts = jobs[j].attempts
  \/ \E w \in Workers : /\ Reap(w) /\ j \in Orphans
                        /\ jobs'[j].status =
                             IF jobs[j].attempts >= MaxAttempts THEN "dead" ELSE "queued"
                        /\ jobs'[j].attempts = jobs[j].attempts

LEMMA RowContents ==
  ASSUME NEW row \in Row
  PROVE  /\ \/ Enqueued(row) = row
            \/ row.status = "none" /\ Enqueued(row).status = "queued" /\ Enqueued(row).attempts = 0
         /\ \/ Revived(row) = row
            \/ row.status = "dead" /\ Revived(row).status = "queued" /\ Revived(row).attempts = 0
         /\ Completed(row).status = "succeeded" /\ Completed(row).attempts = row.attempts
         /\ row.status = "running" =>
              /\ Reaped([row EXCEPT !.stale = TRUE]).attempts = row.attempts
              /\ Reaped([row EXCEPT !.stale = TRUE]).status =
                   IF row.attempts >= MaxAttempts THEN "dead" ELSE "queued"
         /\ [row EXCEPT !.delayed = FALSE].status = row.status
         /\ [row EXCEPT !.delayed = FALSE].attempts = row.attempts
<1> USE DEF Row
<1>1. \/ Enqueued(row) = row
      \/ row.status = "none" /\ Enqueued(row).status = "queued" /\ Enqueued(row).attempts = 0
  BY DEF Enqueued, QueuedRow, NoRow
<1>2. \/ Revived(row) = row
      \/ row.status = "dead" /\ Revived(row).status = "queued" /\ Revived(row).attempts = 0
  BY DEF Revived, QueuedRow, NoRow
<1>3. Completed(row).status = "succeeded" /\ Completed(row).attempts = row.attempts
  BY DEF Completed
<1>4. row.status = "running" =>
        /\ Reaped([row EXCEPT !.stale = TRUE]).attempts = row.attempts
        /\ Reaped([row EXCEPT !.stale = TRUE]).status =
             IF row.attempts >= MaxAttempts THEN "dead" ELSE "queued"
  BY DEF Reaped, Reapable
<1>5. /\ [row EXCEPT !.delayed = FALSE].status = row.status
      /\ [row EXCEPT !.delayed = FALSE].attempts = row.attempts
  OBVIOUS
<1> QED BY <1>1, <1>2, <1>3, <1>4, <1>5

LEMMA RowWrites ==
  ASSUME Typed, Next, NEW j \in Jobs
  PROVE  RowWrite(j)
<1>0. jobs \in [Jobs -> Row] /\ jobs[j] \in Row
  BY DEF Typed, TypeOK
<1> DEFINE row == jobs[j]
<1>e. /\ \/ Enqueued(row) = row
         \/ row.status = "none" /\ Enqueued(row).status = "queued" /\ Enqueued(row).attempts = 0
      /\ \/ Revived(row) = row
         \/ row.status = "dead" /\ Revived(row).status = "queued" /\ Revived(row).attempts = 0
      /\ Completed(row).status = "succeeded" /\ Completed(row).attempts = row.attempts
      /\ row.status = "running" =>
           /\ Reaped([row EXCEPT !.stale = TRUE]).attempts = row.attempts
           /\ Reaped([row EXCEPT !.stale = TRUE]).status =
                IF row.attempts >= MaxAttempts THEN "dead" ELSE "queued"
      /\ [row EXCEPT !.delayed = FALSE].status = row.status
      /\ [row EXCEPT !.delayed = FALSE].attempts = row.attempts
  BY <1>0, RowContents
<1>1. ASSUME jobs'[j] = jobs[j] PROVE RowWrite(j)
  BY <1>1 DEF RowWrite
<1>2. ASSUME CompleteUpload PROVE RowWrite(j)
  <2>1. jobs'[j] = jobs[j] \/ (j = <<"probe", 0>> /\ jobs'[j] = Enqueued(jobs[j]))
    BY <1>0, <1>2 DEF CompleteUpload
  <2> QED BY <1>1, <1>2, <2>1, <1>e DEF RowWrite, Enqueuer
<1>3. ASSUME RetryVideo PROVE RowWrite(j)
  <2> DEFINE revived == [i \in Jobs |-> Revived(jobs[i])]
             fresh   == <<"probe", Retries'>>
  <2>1. jobs' = revived \/ jobs' = [revived EXCEPT ![fresh] = Enqueued(@)]
    BY <1>3 DEF RetryVideo
  <2>2. revived[j] = Revived(jobs[j]) /\ revived \in [Jobs -> Row] /\ revived[j] \in Row
    BY <1>0, RowStep
  <2>3. j = fresh => Type(j) = "probe"
    BY DEF Type
  <2> HIDE DEF revived, fresh
  <2>4. jobs'[j] = revived[j] \/ (j = fresh /\ jobs'[j] = Enqueued(revived[j]))
    BY <2>1, <2>2
  <2>5. \/ Enqueued(revived[j]) = revived[j]
        \/ /\ revived[j].status = "none"
           /\ Enqueued(revived[j]).status = "queued" /\ Enqueued(revived[j]).attempts = 0
    BY <2>2, RowContents
  <2> QED BY <1>3, <2>2, <2>3, <2>4, <2>5, <1>e DEF RowWrite, Enqueuer
<1>4. ASSUME NEW i \in Jobs, BackoffElapsed(i) PROVE RowWrite(j)
  <2>1. jobs' = [jobs EXCEPT ![i] = [jobs[i] EXCEPT !.delayed = FALSE]]
    BY <1>4 DEF BackoffElapsed
  <2>2. jobs'[j] = jobs[j] \/ jobs'[j] = [jobs[j] EXCEPT !.delayed = FALSE]
    BY <1>0, <2>1
  <2> QED BY <2>2, <1>e DEF RowWrite
<1>5. ASSUME NEW w \in Workers, Lease(w) PROVE RowWrite(j)
  <2>1. PICK i : LeaseOf(w, i)
    BY <1>5, LeaseParts
  <2>2. i # j => jobs'[j] = jobs[j]
    BY <1>0, <2>1 DEF LeaseOf
  <2>3. i = j => jobs'[j] = Leased(jobs[j], w)
    BY <1>0, <2>1 DEF LeaseOf
  <2>4. i = j => jobs'[j].status = "running" /\ jobs'[j].attempts = jobs[j].attempts + 1
    BY <2>3 DEF Leased
  <2> QED BY <1>1, <1>5, <2>1, <2>2, <2>4 DEF RowWrite
<1>6. ASSUME NEW w \in Workers, Complete(w) \/ Fail(w) PROVE RowWrite(j)
  <2>1. \/ jobs'[j] = jobs[j]
        \/ Complete(w) /\ job[w] = j /\ jobs'[j] = Completed(jobs[j])
        \/ Fail(w) /\ job[w] = j /\ jobs'[j] = Failed(jobs[j], seen[w], pc[w] = "error")
    BY <1>0, <1>6 DEF Complete, Fail
  <2>2. ASSUME Complete(w), job[w] = j, jobs'[j] = Completed(jobs[j]) PROVE RowWrite(j)
    BY <2>2, <1>e DEF RowWrite
  <2>3. ASSUME Fail(w), job[w] = j, jobs'[j] = Failed(jobs[j], seen[w], pc[w] = "error")
        PROVE  RowWrite(j)
    <3>1. /\ jobs'[j].attempts = jobs[j].attempts
          /\ jobs'[j].status =
               IF pc[w] = "error" /\ seen[w] < MaxAttempts THEN "queued" ELSE "dead"
      BY <1>0, <2>3 DEF Failed, Retried, Died, Row
    <3> QED BY <2>3, <3>1 DEF RowWrite
  <2> QED BY <1>1, <2>1, <2>2, <2>3
<1>7. ASSUME NEW w \in Workers, ProbeEnqueue(w) PROVE RowWrite(j)
  <2>1. jobs'[j] = jobs[j] \/ (Type(j) = "extract" /\ jobs'[j] = Enqueued(jobs[j]))
    BY <1>0, <1>7 DEF ProbeEnqueue, ProbeFollowUp
  <2> QED BY <1>1, <1>7, <2>1, <1>e DEF RowWrite, Enqueuer
<1>8. ASSUME NEW w \in Workers, ExtractEnqueue(w) PROVE RowWrite(j)
  <2>1. \/ jobs'[j] = jobs[j]
        \/ j = Index(ChunkOf(job[w])) /\ jobs'[j] = Enqueued(jobs[j])
    BY <1>0, <1>8 DEF ExtractEnqueue
  <2> QED BY <1>1, <1>8, <2>1, <1>e DEF RowWrite, Enqueuer
<1>9. ASSUME NEW w \in Workers, Reap(w) PROVE RowWrite(j)
  <2>1. PICK S : ReapOf(w, S)
    BY <1>9, ReapParts
  <2>2. \/ jobs'[j] = jobs[j]
        \/ j \in Orphans /\ jobs'[j] = Reaped([jobs[j] EXCEPT !.stale = TRUE])
    BY <2>1 DEF ReapOf
  <2>3. j \in Orphans => jobs[j].status = "running"
    BY DEF Orphans
  <2> QED BY <1>1, <1>9, <2>2, <2>3, <1>e DEF RowWrite
<1>10. ASSUME NEW w \in Workers,
              \/ ProbeStart(w) \/ ProbeWork(w) \/ ExtractStart(w) \/ ExtractWork(w)
              \/ IndexChunk(w) \/ RecordError(w) \/ Raises(w) \/ Burial(w) \/ BurialFails(w)
              \/ Crash(w) \/ Stall(w) \/ Resume(w)
       PROVE  UNCHANGED jobs
  BY <1>10 DEF ProbeStart, ProbeWork, ExtractStart, ExtractWork, IndexChunk, IndexStart,
       IndexWork, IndexFinalize, RecordError, RecordChunkError, RecordVerdict, Raises,
       ProbeRaises, ChunkWorkRaises, TransactionFails, Burial, Bury, Buried, BurialFails,
       Crash, Stall, Resume, Move, SetChunk
<1> HIDE DEF row
<1> QED
  BY <1>1, <1>2, <1>3, <1>4, <1>5, <1>6, <1>7, <1>8, <1>9, <1>10
     DEF Next, Proceed, ProbeVideo, ExtractChunk

-----------------------------------------------------------------------------
(* Where a worker goes. *)
Rests(w) == pc'[w] = pc[w] /\ job'[w] = job[w] /\ seen'[w] = seen[w] /\ saw'[w] = saw[w]
Leaves(w) == (Complete(w) \/ Fail(w) \/ Crash(w)) /\ pc'[w] = "idle"
Aside(w) == /\ Reap(w) \/ Burial(w) \/ BurialFails(w)
            /\ pc[w] \notin Busy /\ pc'[w] \notin Busy
Handles(w) == HandlerStep(w) /\ job'[w] = job[w] /\ seen'[w] = seen[w]
              /\ pc[w] \in Busy /\ pc'[w] \in Busy

WorkerStep(w) ==
  Rests(w) \/ Handles(w) \/ (Lease(w) /\ pc'[w] = "start") \/ Leaves(w) \/ Aside(w)

LEMMA WorkerSteps ==
  ASSUME Typed, Next, NEW w \in Workers
  PROVE  WorkerStep(w)
<1>0. /\ pc = [u \in Workers |-> pc[u]] /\ job = [u \in Workers |-> job[u]]
      /\ seen = [u \in Workers |-> seen[u]] /\ saw = [u \in Workers |-> saw[u]]
  BY DEF Typed, TypeOK
<1>1. ASSUME UNCHANGED <<pc, job, seen, saw>> PROVE WorkerStep(w)
  BY <1>1 DEF WorkerStep, Rests
<1>2. ASSUME NEW u \in Workers, Complete(u) \/ Fail(u) \/ Crash(u) PROVE WorkerStep(w)
  <2>1. /\ pc' = [pc EXCEPT ![u] = "idle"] /\ job' = [job EXCEPT ![u] = NoJob]
        /\ seen' = [seen EXCEPT ![u] = 0] /\ saw' = [saw EXCEPT ![u] = "unread"]
    BY <1>2 DEF Complete, Fail, Crash, Release, Goto
  <2>2. u = w \/ Rests(w)
    BY <1>0, <2>1 DEF Rests
  <2>3. pc'[u] = "idle"
    BY <1>0, <2>1
  <2> QED BY <1>2, <2>2, <2>3 DEF WorkerStep, Leaves
<1>3. ASSUME NEW u \in Workers, Lease(u) PROVE WorkerStep(w)
  <2>1. PICK j : LeaseOf(u, j)
    BY <1>3, LeaseParts
  <2>2. /\ pc' = [pc EXCEPT ![u] = "start"] /\ job' = [job EXCEPT ![u] = j]
        /\ seen' = [seen EXCEPT ![u] = jobs[j].attempts + 1] /\ saw' = saw
    BY <1>3, <2>1 DEF Lease, Goto, LeaseOf
  <2>3. u = w \/ Rests(w)
    BY <1>0, <2>2 DEF Rests
  <2>4. pc'[u] = "start"
    BY <1>0, <2>2
  <2> QED BY <1>3, <2>3, <2>4 DEF WorkerStep
<1>4. ASSUME NEW u \in Workers, HandlerStep(u) PROVE WorkerStep(w)
  <2>1. pc[u] \in Busy /\ UNCHANGED <<job, seen>>
    BY <1>4, HandlerMoves
  <2>2. PICK place \in Busy : pc' = [pc EXCEPT ![u] = place]
    BY <1>4, HandlerMoves DEF Goto
  <2>3. saw' = saw \/ saw' = [saw EXCEPT ![u] = video]
    BY <1>4, HandlerMoves
  <2>4. u # w => pc'[w] = pc[w] /\ saw'[w] = saw[w]
    BY <1>0, <2>2, <2>3
  <2>5. pc'[u] = place
    BY <1>0, <2>2
  <2> QED BY <1>4, <2>1, <2>4, <2>5 DEF WorkerStep, Handles, Rests
<1>5. ASSUME NEW u \in Workers, Reap(u) \/ Burial(u) \/ BurialFails(u) PROVE WorkerStep(w)
  <2>1. UNCHANGED <<job, seen, saw>> /\ pc[u] \notin Busy
    BY <1>5 DEF Reap, Burial, Bury, Buried, BurialFails, At, Busy
  <2>2. PICK place \in Places \ Busy : pc' = [pc EXCEPT ![u] = place]
    <3>1. CASE Reap(u)
      <4>1. PICK S : ReapOf(u, S)
        BY <3>1, ReapParts
      <4> QED BY <4>1 DEF ReapOf, Goto, AfterBurial, Places, Busy
    <3>2. CASE Burial(u) \/ BurialFails(u)
      BY <3>2 DEF Burial, Bury, Buried, BurialFails, Goto, AfterBurial, Places, Busy
    <3> QED BY <1>5, <3>1, <3>2
  <2>3. u # w => pc'[w] = pc[w]
    BY <1>0, <2>2
  <2>4. pc'[u] \notin Busy
    BY <1>0, <2>2
  <2> QED BY <1>5, <2>1, <2>3, <2>4 DEF WorkerStep, Rests, Aside
<1>6. ASSUME \/ CompleteUpload \/ RetryVideo \/ \E j \in Jobs : BackoffElapsed(j)
             \/ \E u \in Workers : Stall(u) \/ Resume(u)
      PROVE  UNCHANGED <<pc, job, seen, saw>>
  BY <1>6 DEF CompleteUpload, RetryVideo, BackoffElapsed, Stall, Resume, workerVars
<1> QED
  BY <1>1, <1>2, <1>3, <1>4, <1>5, <1>6 DEF Next, Proceed, HandlerStep

(* Which step of a handler leads to a place. *)
Arrival(w) ==
  LET c == ChunkOf(job[w])
  IN /\ pc'[w] # "start"
     /\ pc'[w] = "work" =>
          \/ ProbeStart(w) /\ ~AlreadyReady
          \/ ExtractStart(w) /\ c \notin extracted
          \/ IndexStart(w) /\ chunk[c] # "done"
     /\ pc'[w] = "enqueue" =>
          ProbeWork(w) \/ ExtractWork(w) \/ (ExtractStart(w) /\ c \in extracted)
     /\ pc'[w] = "finalize" => IndexWork(w)
     /\ pc'[w] = "record" => ChunkWorkRaises(w) \/ (TransactionFails(w) /\ pc[w] = "finalize")
     /\ pc'[w] = "verdict" => RecordChunkError(w) /\ LastAttempt(w)
     /\ pc'[w] = "ok" =>
          \/ ProbeStart(w) /\ AlreadyReady
          \/ ProbeEnqueue(w) \/ ExtractEnqueue(w) \/ IndexFinalize(w)
          \/ (ExtractStart(w) \/ IndexStart(w)) /\ chunk[c] = "done"
     /\ pc'[w] = "error" =>
          \/ ProbeRaises(w) \/ RecordVerdict(w) \/ TransactionFails(w)
          \/ IndexStart(w) /\ c \notin extracted
          \/ RecordChunkError(w) /\ ~LastAttempt(w)
     /\ pc'[w] = "fatal" =>
          \/ ProbeRaises(w) /\ Spend("corrupt")
          \/ (ExtractStart(w) \/ IndexStart(w)) /\ chunk[c] = "none"

LEMMA Arrivals ==
  ASSUME Typed, NEW w \in Workers, HandlerStep(w)
  PROVE  Arrival(w)
<1>0. \A place : Goto(w, place) => pc'[w] = place
  BY DEF Goto, Typed, TypeOK
<1>1. ASSUME ProbeVideo(w) PROVE Arrival(w)
  BY <1>0, <1>1 DEF Arrival, ProbeVideo, ProbeStart, ProbeWork, ProbeEnqueue
<1>2. ASSUME ExtractStart(w) PROVE Arrival(w)
  BY <1>0, <1>2 DEF Arrival, ExtractStart, ExtractFrom, Move
<1>3. ASSUME ExtractWork(w) \/ ExtractEnqueue(w) PROVE Arrival(w)
  BY <1>0, <1>3 DEF Arrival, ExtractWork, ExtractEnqueue
<1>4. ASSUME IndexStart(w) PROVE Arrival(w)
  BY <1>0, <1>4 DEF Arrival, IndexStart, AlreadyIndexed, Move
<1>5. ASSUME IndexWork(w) \/ IndexFinalize(w) PROVE Arrival(w)
  BY <1>0, <1>5 DEF Arrival, IndexWork, IndexFinalize
<1>6. ASSUME RecordError(w) PROVE Arrival(w)
  BY <1>0, <1>6 DEF Arrival, RecordError, RecordChunkError, RecordVerdict
<1>7. ASSUME ProbeRaises(w) \/ ChunkWorkRaises(w) PROVE Arrival(w)
  BY <1>0, <1>7 DEF Arrival, ProbeRaises, ChunkWorkRaises, Move
<1>8. ASSUME TransactionFails(w) PROVE Arrival(w)
  <2>1. pc'[w] = IF pc[w] = "finalize" THEN "record" ELSE "error"
    BY <1>0, <1>8 DEF TransactionFails, Move
  <2> QED BY <1>8, <2>1 DEF Arrival
<1> QED BY <1>1, <1>2, <1>3, <1>4, <1>5, <1>6, <1>7, <1>8
           DEF HandlerStep, ExtractChunk, IndexChunk, Raises

(* Which step of a handler leads on from its last places. *)
LEMMA Departures ==
  ASSUME NEW w \in Workers, HandlerStep(w)
  PROVE  /\ pc[w] \notin {"ok", "error", "fatal"}
         /\ pc[w] = "finalize" => IndexFinalize(w) \/ TransactionFails(w)
         /\ pc[w] = "record" => RecordChunkError(w) \/ TransactionFails(w)
         /\ pc[w] = "verdict" => RecordVerdict(w) \/ TransactionFails(w)
         /\ pc[w] = "enqueue" => ProbeEnqueue(w) \/ ExtractEnqueue(w) \/ TransactionFails(w)
         /\ pc[w] = "work" => \/ ProbeWork(w) \/ ExtractWork(w) \/ IndexWork(w)
                              \/ ProbeRaises(w) \/ ChunkWorkRaises(w)
         /\ pc[w] = "start" => \/ ProbeStart(w) \/ ExtractStart(w) \/ IndexStart(w)
                               \/ TransactionFails(w)
<1>1. CASE ProbeVideo(w)
  BY <1>1 DEF ProbeVideo, ProbeStart, ProbeWork, ProbeEnqueue, In, At
<1>2. CASE ExtractChunk(w)
  BY <1>2 DEF ExtractChunk, ExtractStart, ExtractWork, ExtractEnqueue, In, At
<1>3. CASE IndexChunk(w)
  BY <1>3 DEF IndexChunk, IndexStart, IndexWork, IndexFinalize, In, At
<1>4. CASE RecordError(w)
  BY <1>4 DEF RecordError, RecordChunkError, RecordVerdict, At
<1>5. CASE ProbeRaises(w) \/ ChunkWorkRaises(w)
  BY <1>5 DEF ProbeRaises, ChunkWorkRaises, In, At
<1>6. CASE TransactionFails(w)
  BY <1>6 DEF TransactionFails, At
<1> QED BY <1>1, <1>2, <1>3, <1>4, <1>5, <1>6 DEF HandlerStep, Raises

-----------------------------------------------------------------------------
(* A searchable chunk that the temporal encoder has not been told of is in *)
(* the hands of the worker that finished it: at its last transaction, or,  *)
(* after that one failed, on the way to take the chunk back.               *)
ToEncode(w, c) ==
  /\ job[w] = Index(c)
  /\ pc[w] = "finalize" \/ (pc[w] = "record" /\ used["dbError"] = 1)

EncodeInv ==
  used["crash"] = 0 /\ used["dbError"] <= 1 =>
    \A c \in Chunks : chunk[c] = "done" => c \in temporal \/ \E w \in Workers : ToEncode(w, c)

LEMMA TemporalGrows ==
  ASSUME Next
  PROVE  temporal \subseteq temporal'
<1>1. ASSUME NEW w \in Workers, IndexFinalize(w) PROVE temporal \subseteq temporal'
  BY <1>1 DEF IndexFinalize
<1>2. ASSUME NEW w \in Workers,
             \/ ProbeVideo(w) \/ ExtractChunk(w) \/ IndexStart(w) \/ IndexWork(w)
             \/ RecordError(w) \/ Raises(w) \/ Lease(w) \/ Complete(w) \/ Fail(w) \/ Reap(w)
             \/ Burial(w) \/ BurialFails(w) \/ Crash(w) \/ Stall(w) \/ Resume(w)
      PROVE  UNCHANGED temporal
  BY <1>2 DEF ProbeVideo, ProbeStart, ProbeWork, ProbeEnqueue, ExtractChunk, ExtractStart,
     ExtractWork, ExtractEnqueue, IndexStart, IndexWork, RecordError, RecordChunkError,
     RecordVerdict, Raises, ProbeRaises, ChunkWorkRaises, TransactionFails, Lease, Complete,
     Fail, Reap, Burial, Bury, Buried, BurialFails, Crash, Stall, Resume, Move, SetChunk,
     videoVars
<1>3. ASSUME CompleteUpload \/ RetryVideo \/ \E j \in Jobs : BackoffElapsed(j)
      PROVE  UNCHANGED temporal
  BY <1>3 DEF CompleteUpload, RetryVideo, BackoffElapsed, videoVars
<1> QED BY <1>1, <1>2, <1>3 DEF Next, Proceed, IndexChunk

LEMMA StepEncode ==
  ASSUME Typed, EncodeInv, Next
  PROVE  EncodeInv'
<1> SUFFICES ASSUME used'["crash"] = 0, used'["dbError"] <= 1,
                    NEW c \in Chunks, chunk'[c] = "done"
             PROVE  c \in temporal' \/ \E w \in Workers : ToEncode(w, c)'
  BY DEF EncodeInv
<1>0. /\ "crash" \in Kinds /\ "dbError" \in Kinds
      /\ chunk \in [Chunks -> ChunkStatus] /\ job \in [Workers -> Jobs \cup {NoJob}]
      /\ pc \in [Workers -> Places]
  BY DEF Typed, TypeOK, Kinds
<1>1. used["crash"] = 0 /\ used["dbError"] <= 1 /\ used["dbError"] <= used'["dbError"]
      /\ used["dbError"] \in Nat /\ used'["dbError"] \in Nat
  BY <1>0, UsedGrows
<1>2. ASSUME NEW w \in Workers PROVE ~Crash(w)
  BY <1>0, <1>1, SpendCounts DEF Crash
<1>3. ASSUME NEW w \in Workers, IndexWork(w), ChunkOf(job[w]) = c PROVE ToEncode(w, c)'
  <2>1. pc'[w] = "finalize" /\ job'[w] = job[w] /\ pc[w] \in Busy /\ Type(job[w]) = "index"
    BY <1>0, <1>3 DEF IndexWork, Goto, SetChunk, In, At, Busy
  <2>2. job[w] \in Jobs
    BY <2>1, WorkerChunk
  <2> QED BY <1>3, <2>1, <2>2, JobParts DEF ToEncode
<1>4. ASSUME NEW w \in Workers, ToEncode(w, c) PROVE c \in temporal' \/ ToEncode(w, c)'
  <2>1. CASE Rests(w)
    BY <1>1, <1>4, <2>1 DEF ToEncode, Rests
  <2>2. ~Leaves(w) /\ ~Lease(w) /\ ~Aside(w)
    BY <1>2, <1>4 DEF Leaves, Aside, Lease, Complete, Fail, At, ToEncode, Busy
  <2>3. CASE Handles(w)
    <3>1. IndexFinalize(w) \/ TransactionFails(w) \/ RecordChunkError(w)
      BY <1>4, <2>3, Departures DEF Handles, ToEncode
    <3>2. CASE IndexFinalize(w)
      <4>1. ChunkOf(job[w]) = c
        BY <1>4, JobParts DEF ToEncode
      <4> QED BY <3>2, <4>1 DEF IndexFinalize, NewlyEncoded
    <3>3. CASE TransactionFails(w)
      <4>1. used'["dbError"] = used["dbError"] + 1
        BY <1>0, <3>3, SpendCounts DEF TransactionFails
      <4>2. pc[w] = "finalize" /\ used'["dbError"] = 1
        BY <1>1, <1>4, <4>1 DEF ToEncode
      <4>3. pc'[w] = "record"
        BY <1>0, <3>3, <4>2 DEF TransactionFails, Move, Goto
      <4> QED BY <1>4, <2>3, <4>2, <4>3 DEF ToEncode, Handles
    <3>4. CASE RecordChunkError(w)
      <4>1. ChunkOf(job[w]) = c
        BY <1>4, JobParts DEF ToEncode
      <4>2. chunk'[c] \in {"failed", "pending"}
        BY <1>0, <3>4, <4>1 DEF RecordChunkError, SetChunk
      <4> QED BY <4>2
    <3> QED BY <3>1, <3>2, <3>3, <3>4
  <2> QED BY <2>1, <2>2, <2>3, WorkerSteps DEF WorkerStep
<1>5. CASE chunk[c] = "done"
  BY <1>1, <1>4, <1>5, TemporalGrows DEF EncodeInv
<1>6. CASE chunk[c] # "done"
  BY <1>3, <1>6, ChunkWrites DEF ChunkWrite
<1> QED BY <1>5, <1>6

(* When the work is over, every searchable chunk was handed on to the      *)
(* temporal encoder, if nothing died and at most one transaction failed.   *)
THEOREM DoneMeansEncoded == Spec => []DoneIsEncoded
<1>1. Init => EncodeInv
  BY DEF Init, EncodeInv
<1>2. EncodeInv /\ UNCHANGED vars => EncodeInv'
  BY DEF EncodeInv, ToEncode, vars, videoVars, workerVars
<1>3. Typed /\ EncodeInv /\ [Next]_vars => EncodeInv'
  BY <1>2, StepEncode
<1>4. EncodeInv => DoneIsEncoded
  <2> SUFFICES ASSUME EncodeInv, used["crash"] = 0, used["dbError"] <= 1, Quiet,
                      NEW c \in Chunks, chunk[c] = "done"
               PROVE  c \in temporal
    BY DEF DoneIsEncoded
  <2> QED BY DEF EncodeInv, ToEncode, Quiet
<1> QED BY <1>1, <1>3, <1>4, TypedHolds, PTL DEF Spec

-----------------------------------------------------------------------------
(* While no process has frozen, a worker owns the row of its job, and the  *)
(* attempts it remembers are those of the row.                             *)
SeenIsAttempts == \A w \in Workers : pc[w] \in Busy => jobs[job[w]].attempts = seen[w]

HeldInv == used["stall"] = 0 => Owned /\ SeenIsAttempts

LEMMA NobodyFreezes ==
  ASSUME Typed, Next, used'["stall"] = 0
  PROVE  used["stall"] = 0 /\ frozen' \subseteq frozen
<1>0. "stall" \in Kinds
  BY DEF Kinds
<1>1. used["stall"] = 0
  BY <1>0, UsedGrows
<1>2. \A w \in Workers : ~Stall(w)
  BY <1>0, <1>1, SpendCounts DEF Stall
<1>3. ASSUME NEW w \in Workers, Proceed(w) PROVE UNCHANGED frozen
  BY <1>3 DEF Proceed, Lease, ProbeVideo, ProbeStart, ProbeWork, ProbeEnqueue, ExtractChunk,
     ExtractStart, ExtractWork, ExtractEnqueue, IndexChunk, IndexStart, IndexWork, IndexFinalize,
     RecordError, RecordChunkError, RecordVerdict, Complete, Fail, Reap, Burial, Bury, Buried,
     Move, SetChunk
<1>4. ASSUME NEW w \in Workers, Raises(w) \/ BurialFails(w) \/ Crash(w) \/ Resume(w)
      PROVE  frozen' \subseteq frozen
  BY <1>4 DEF Raises, ProbeRaises, ChunkWorkRaises, TransactionFails, BurialFails, Crash,
     Resume, Move
<1>5. ASSUME CompleteUpload \/ RetryVideo \/ \E j \in Jobs : BackoffElapsed(j)
      PROVE  UNCHANGED frozen
  BY <1>5 DEF CompleteUpload, RetryVideo, BackoffElapsed
<1> QED BY <1>1, <1>2, <1>3, <1>4, <1>5 DEF Next

LEMMA EndOfRun ==
  ASSUME Typed, NEW w \in Workers
  PROVE  /\ Complete(w) => pc[w] = "ok" /\ job[w] \in Jobs /\ jobs'[job[w]].status = "succeeded"
         /\ Fail(w) =>
              /\ pc[w] \in {"error", "fatal"} /\ job[w] \in Jobs
              /\ jobs'[job[w]].status =
                   IF pc[w] = "error" /\ seen[w] < MaxAttempts THEN "queued" ELSE "dead"
<1>1. ASSUME Complete(w) \/ Fail(w)
      PROVE  job[w] \in Jobs /\ jobs[job[w]] \in Row /\ jobs \in [Jobs -> Row]
  BY <1>1, WorkerChunk DEF Complete, Fail, At, Busy, Typed, TypeOK
<1>2. ASSUME Complete(w) PROVE pc[w] = "ok" /\ jobs'[job[w]].status = "succeeded"
  BY <1>1, <1>2 DEF Complete, At, Completed, Row
<1>3. ASSUME Fail(w)
      PROVE  /\ pc[w] \in {"error", "fatal"}
             /\ jobs'[job[w]].status =
                  IF pc[w] = "error" /\ seen[w] < MaxAttempts THEN "queued" ELSE "dead"
  BY <1>1, <1>3 DEF Fail, At, Failed, Retried, Died, Row
<1> QED BY <1>1, <1>2, <1>3

LEMMA HeldAttempts ==
  ASSUME Typed, Owned, SeenIsAttempts, Next, frozen' = {}
  PROVE  Owned' /\ SeenIsAttempts'
<1> SUFFICES ASSUME NEW w \in Workers, pc'[w] \in Busy
             PROVE  /\ jobs'[job'[w]].status = "running" /\ jobs'[job'[w]].lockedBy = w
                    /\ jobs'[job'[w]].attempts = seen'[w]
  BY DEF Owned, SeenIsAttempts
<1>1. CASE job'[w] = job[w] /\ seen'[w] = seen[w] /\ pc[w] \in Busy
  <2> DEFINE j == job[w]
  <2>1. /\ j \in Jobs /\ jobs[j].status = "running" /\ jobs[j].lockedBy = w
        /\ jobs[j].attempts = seen[w]
    BY <1>1, WorkerChunk DEF Owned, SeenIsAttempts
  <2>2. j \notin Orphans
    BY <1>1 DEF Orphans, Owned
  <2>3. ~(\E u \in Workers : LeaseOf(u, j))
    BY <2>1 DEF LeaseOf
  <2>4. ASSUME NEW u \in Workers, Complete(u) \/ Fail(u), job[u] = j PROVE FALSE
    <3>1. pc[u] \in Busy /\ pc' = [pc EXCEPT ![u] = "idle"]
      BY <2>4 DEF Complete, Fail, At, Busy, Release, Goto
    <3>2. u = w
      BY <1>1, <2>4, <3>1, OneRunner
    <3> QED BY <3>1, <3>2 DEF Busy, Typed, TypeOK
  <2>5. jobs'[j].status = "running" /\ jobs'[j].lockedBy = w
    BY <2>1, <2>2, <2>3, <2>4, JobSteps DEF JobStep
  <2>6. jobs'[j].attempts = jobs[j].attempts
    BY <2>1, <2>2, <2>3, <2>4, RowWrites DEF RowWrite
  <2> QED BY <1>1, <2>1, <2>5, <2>6
<1>2. CASE Lease(w)
  <2>1. PICK j : LeaseOf(w, j)
    BY <1>2, LeaseParts
  <2>2. job'[w] = j /\ jobs'[j] = Leased(jobs[j], w) /\ seen'[w] = jobs[j].attempts + 1
    BY <2>1 DEF LeaseOf, Typed, TypeOK
  <2> QED BY <2>2 DEF Leased
<1>3. ~Leaves(w) /\ ~Aside(w)
  BY DEF Leaves, Aside, Busy
<1> QED BY <1>1, <1>2, <1>3, WorkerSteps DEF WorkerStep, Rests, Handles

LEMMA HeldHolds == Spec => []HeldInv
<1>1. Init => HeldInv
  BY DEF Init, HeldInv, Owned, SeenIsAttempts, Busy
<1>2. ASSUME Typed, HeldInv, Next PROVE HeldInv'
  <2> SUFFICES ASSUME used'["stall"] = 0 PROVE Owned' /\ SeenIsAttempts'
    BY DEF HeldInv
  <2>1. used["stall"] = 0 /\ frozen' \subseteq frozen
    BY <1>2, NobodyFreezes
  <2>2. Owned /\ SeenIsAttempts /\ frozen' = {}
    BY <1>2, <2>1 DEF HeldInv, Owned
  <2> QED BY <1>2, <2>2, HeldAttempts
<1>3. HeldInv /\ UNCHANGED vars => HeldInv'
  BY DEF HeldInv, Owned, SeenIsAttempts, vars, workerVars
<1>4. Typed /\ HeldInv /\ [Next]_vars => HeldInv'
  BY <1>2, <1>3
<1> QED BY <1>1, <1>4, TypedHolds, PTL DEF Spec

-----------------------------------------------------------------------------
(* Jobs that have done their part, and jobs that are beyond help. *)
Ended(j) == jobs[j].status = "succeeded" \/ \E w \in Workers : pc[w] = "ok" /\ job[w] = j
Dying(j) == \/ jobs[j].status = "dead"
            \/ \E w \in Workers : /\ pc[w] \in {"verdict", "error"} /\ job[w] = j
                                  /\ seen[w] >= MaxAttempts

(* No process dies in this step *)
NobodyDies == \A w \in Workers : ~Crash(w)

LEMMA EndedStays ==
  ASSUME Typed, Owned, Next, NobodyDies, NEW j \in Jobs, Ended(j)
  PROVE  Ended(j)'
<1>1. CASE jobs[j].status = "succeeded"
  <2>1. ~(\E u \in Workers : LeaseOf(u, j)) /\ j \notin Orphans
    BY <1>1 DEF LeaseOf, Orphans
  <2>2. ASSUME NEW u \in Workers, Complete(u) \/ Fail(u), job[u] = j PROVE FALSE
    BY <1>1, <2>2 DEF Complete, Fail, At, Busy, Owned
  <2>3. jobs'[j].status = "succeeded"
    BY <1>1, <2>1, <2>2, RowWrites DEF RowWrite
  <2> QED BY <2>3 DEF Ended
<1>2. ASSUME NEW w \in Workers, pc[w] = "ok", job[w] = j PROVE Ended(j)'
  <2>1. CASE Rests(w)
    BY <1>2, <2>1 DEF Rests, Ended
  <2>2. ~Handles(w) /\ ~Aside(w) /\ ~Lease(w) /\ ~Fail(w)
    BY <1>2, Departures DEF Handles, Aside, Lease, Fail, At, Busy
  <2>3. CASE Complete(w)
    BY <1>2, <2>3, EndOfRun DEF Ended
  <2> QED BY <2>1, <2>2, <2>3, WorkerSteps DEF WorkerStep, Leaves, NobodyDies
<1> QED BY <1>1, <1>2 DEF Ended

LEMMA DyingStays ==
  ASSUME Typed, Owned, Next, NobodyDies, ~RetryVideo, NEW j \in Jobs, Dying(j)
  PROVE  Dying(j)'
<1>1. CASE jobs[j].status = "dead"
  <2>1. ~(\E u \in Workers : LeaseOf(u, j)) /\ j \notin Orphans
    BY <1>1 DEF LeaseOf, Orphans
  <2>2. ASSUME NEW u \in Workers, Complete(u) \/ Fail(u), job[u] = j PROVE FALSE
    BY <1>1, <2>2 DEF Complete, Fail, At, Busy, Owned
  <2>3. jobs'[j].status = "dead"
    BY <1>1, <2>1, <2>2, RowWrites DEF RowWrite
  <2> QED BY <2>3 DEF Dying
<1>2. ASSUME NEW w \in Workers, pc[w] \in {"verdict", "error"}, job[w] = j, seen[w] >= MaxAttempts
      PROVE  Dying(j)'
  <2>1. CASE Rests(w)
    BY <1>2, <2>1 DEF Rests, Dying
  <2>2. ~Aside(w) /\ ~Lease(w) /\ ~Complete(w)
    BY <1>2 DEF Aside, Lease, Complete, At, Busy
  <2>3. CASE Handles(w)
    <3>1. pc[w] = "verdict" /\ (RecordVerdict(w) \/ TransactionFails(w))
      BY <1>2, <2>3, Departures DEF Handles
    <3>2. pc'[w] = "error"
      BY <3>1 DEF RecordVerdict, TransactionFails, Move, Goto, Typed, TypeOK
    <3> QED BY <1>2, <2>3, <3>2 DEF Handles, Dying
  <2>4. CASE Fail(w)
    <3>1. seen[w] \in Nat /\ MaxAttempts \in Nat
      BY PipelineConstants DEF Typed, TypeOK
    <3>2. jobs'[j].status = "dead"
      BY <1>2, <2>4, <3>1, EndOfRun
    <3> QED BY <3>2 DEF Dying
  <2> QED BY <2>1, <2>2, <2>3, <2>4, WorkerSteps DEF WorkerStep, Leaves, NobodyDies
<1> QED BY <1>1, <1>2 DEF Dying

(* Nobody works on a job that has ended or is dying. *)
LEMMA NoWorkAfterEnd ==
  ASSUME Owned, NEW w \in Workers,
         pc[w] \in {"start", "work", "enqueue", "finalize", "record"}
  PROVE  ~Ended(job[w]) /\ ~Dying(job[w])
<1>1. pc[w] \in Busy
  BY DEF Busy
<1>2. jobs[job[w]].status = "running"
  BY <1>1 DEF Owned
<1>3. ASSUME NEW u \in Workers, pc[u] \in {"ok", "verdict", "error"}, job[u] = job[w] PROVE FALSE
  <2>1. pc[u] \in Busy
    BY <1>3 DEF Busy
  <2>2. u = w
    BY <1>1, <1>3, <2>1, OneRunner
  <2> QED BY <1>3, <2>2
<1> QED BY <1>2, <1>3 DEF Ended, Dying

(* Only index_chunk settles the video in its last transaction. *)
FinalizeIsIndex == \A w \in Workers : pc[w] = "finalize" => Type(job[w]) = "index"

LEMMA FinalizeHolds == Spec => []FinalizeIsIndex
<1>1. Init => FinalizeIsIndex
  BY DEF Init, FinalizeIsIndex
<1>2. ASSUME Typed, FinalizeIsIndex, Next PROVE FinalizeIsIndex'
  <2> SUFFICES ASSUME NEW w \in Workers, pc'[w] = "finalize" PROVE Type(job'[w]) = "index"
    BY DEF FinalizeIsIndex
  <2>1. Rests(w) \/ Handles(w)
    BY <1>2, WorkerSteps DEF WorkerStep, Leaves, Aside, Busy
  <2>2. CASE Rests(w)
    BY <1>2, <2>2 DEF Rests, FinalizeIsIndex
  <2>3. CASE Handles(w)
    BY <1>2, <2>3, Arrivals DEF Handles, Arrival, IndexWork, In
  <2> QED BY <2>1, <2>2, <2>3
<1>3. FinalizeIsIndex /\ UNCHANGED vars => FinalizeIsIndex'
  BY DEF FinalizeIsIndex, vars, workerVars
<1>4. Typed /\ FinalizeIsIndex /\ [Next]_vars => FinalizeIsIndex'
  BY <1>2, <1>3
<1> QED BY <1>1, <1>4, TypedHolds, PTL DEF Spec

-----------------------------------------------------------------------------
(* As long as nothing has died or frozen: running jobs are in somebody's   *)
(* hands and there is nothing to bury; an index job exists only once the   *)
(* extract job is over; who extracts a chunk is the first to; and a chunk  *)
(* that failed has a job that is beyond help, with nothing to come after.  *)
NoDeath == used["crash"] = 0 /\ used["stall"] = 0

InHands ==
  /\ \A j \in Jobs : jobs[j].status = "running" =>
       \E w \in Workers : pc[w] \in Busy /\ job[w] = j
  /\ \A w \in Workers : pc[w] \notin {"bury", "buried"}

IndexAfterEnd == \A c \in Chunks : jobs[Index(c)].status # "none" => Ended(Extract(c))

FirstExtract ==
  \A w \in Workers : pc[w] \in {"work", "record"} /\ Type(job[w]) = "extract" =>
    ChunkOf(job[w]) \notin extracted

FailedForGood ==
  \A c \in Chunks : chunk[c] = "failed" =>
    \/ Dying(Extract(c)) /\ jobs[Index(c)].status = "none"
    \/ Dying(Index(c)) /\ Ended(Extract(c))

Reason == video = "failed" => \E c \in Chunks : chunk[c] = "failed"

CalmInv == InHands /\ IndexAfterEnd /\ FirstExtract /\ FailedForGood /\ Reason

LEMMA StepInHands ==
  ASSUME Typed, Owned, InHands, Next, NobodyDies
  PROVE  InHands' /\ \A w \in Workers : ~Reap(w) /\ ~Bury(w) /\ ~Buried(w)
<1>1. Orphans = {}
  BY DEF Orphans, InHands, Owned
<1>2. ASSUME NEW w \in Workers PROVE ~Reap(w) /\ ~Burial(w) /\ ~BurialFails(w)
  <2>1. ~Reap(w)
    BY <1>1 DEF Reap
  <2>2. ~Burial(w)
    BY DEF Burial, Bury, Buried, At, InHands
  <2>3. ~BurialFails(w)
    BY DEF BurialFails, At, InHands
  <2> QED BY <2>1, <2>2, <2>3
<1>3. ASSUME NEW j \in Jobs, jobs'[j].status = "running"
      PROVE  \E w \in Workers : pc'[w] \in Busy /\ job'[w] = j
  <2>1. CASE jobs[j].status = "running"
    <3>1. PICK w \in Workers : pc[w] \in Busy /\ job[w] = j
      BY <2>1 DEF InHands
    <3>2. ~Complete(w) /\ ~Fail(w)
      BY <1>3, <3>1, EndOfRun
    <3>3. ~Lease(w)
      BY <3>1 DEF Lease, At, Busy
    <3>4. Rests(w) \/ Handles(w)
      BY <1>2, <3>2, <3>3, WorkerSteps DEF WorkerStep, Leaves, Aside, NobodyDies
    <3> QED BY <3>1, <3>4 DEF Rests, Handles
  <2>2. CASE jobs[j].status # "running"
    <3>1. PICK w \in Workers : Lease(w) /\ LeaseOf(w, j)
      BY <1>2, <1>3, <2>2, RowWrites DEF RowWrite
    <3>2. pc'[w] = "start" /\ job'[w] = j
      BY <3>1 DEF Lease, LeaseOf, Goto, Typed, TypeOK
    <3> QED BY <3>2 DEF Busy
  <2> QED BY <2>1, <2>2
<1>4. ASSUME NEW w \in Workers PROVE pc'[w] \notin {"bury", "buried"}
  <2>1. pc[w] \notin {"bury", "buried"}
    BY DEF InHands
  <2> QED BY <1>2, <2>1, WorkerSteps DEF WorkerStep, Rests, Handles, Leaves, Aside, Busy
<1> QED BY <1>2, <1>3, <1>4 DEF InHands, Burial

LEMMA StepIndexAfterEnd ==
  ASSUME OrderInv, Owned, IndexAfterEnd, Next, NobodyDies
  PROVE  IndexAfterEnd'
<1>0. Typed
  BY DEF OrderInv
<1> SUFFICES ASSUME NEW c \in Chunks, jobs'[Index(c)].status # "none"
             PROVE  Ended(Extract(c))'
  BY DEF IndexAfterEnd
<1>1. /\ Extract(c) \in Jobs /\ Index(c) \in Jobs /\ Type(Index(c)) = "index"
  BY JobParts
<1>2. CASE jobs[Index(c)].status # "none"
  BY <1>0, <1>1, <1>2, EndedStays DEF IndexAfterEnd
<1>3. CASE jobs[Index(c)].status = "none"
  <2>1. ~(\E u \in Workers : LeaseOf(u, Index(c))) /\ Index(c) \notin Orphans
    BY <1>3 DEF LeaseOf, Orphans
  <2>2. ASSUME NEW u \in Workers, Complete(u) \/ Fail(u), job[u] = Index(c) PROVE FALSE
    BY <1>3, <2>2 DEF Complete, Fail, At, Busy, Owned
  <2>3. Enqueuer(Index(c))
    BY <1>0, <1>1, <1>3, <2>1, <2>2, RowWrites DEF RowWrite
  <2>4. Index(c) # <<"probe", 0>>
    BY DEF Index
  <2>5. PICK w \in Workers : ExtractEnqueue(w) /\ Index(c) = Index(ChunkOf(job[w]))
    BY <1>1, <2>3, <2>4 DEF Enqueuer
  <2>6. ChunkOf(job[w]) = c /\ pc[w] \in Busy /\ Type(job[w]) = "extract"
    BY <2>5 DEF Index, ExtractEnqueue, In, At, Busy
  <2>7. job[w] = Extract(c)
    BY <1>0, <2>6, WorkerChunk, JobParts
  <2>8. pc'[w] = "ok" /\ job'[w] = job[w]
    BY <1>0, <2>5 DEF ExtractEnqueue, Goto, Typed, TypeOK
  <2> QED BY <2>7, <2>8 DEF Ended
<1> QED BY <1>2, <1>3

LEMMA StepFirstExtract ==
  ASSUME OrderInv, Owned, FinalizeIsIndex, FirstExtract, Next, NobodyDies
  PROVE  FirstExtract'
<1>0. Typed
  BY DEF OrderInv
<1> SUFFICES ASSUME NEW w \in Workers, pc'[w] \in {"work", "record"}, Type(job'[w]) = "extract"
             PROVE  ChunkOf(job'[w]) \notin extracted'
  BY DEF FirstExtract
<1>1. Rests(w) \/ Handles(w)
  BY <1>0, WorkerSteps DEF WorkerStep, Leaves, Aside, Busy
<1>2. pc[w] \in Busy /\ job'[w] = job[w] /\ Type(job[w]) = "extract"
  BY <1>1 DEF Rests, Handles, Busy
<1>3. job[w] = Extract(ChunkOf(job[w])) /\ ChunkOf(job[w]) \in Chunks
  BY <1>0, <1>2, WorkerChunk, JobParts
<1>4. ChunkOf(job[w]) \notin extracted
  <2>1. CASE Rests(w)
    BY <1>2, <2>1 DEF Rests, FirstExtract
  <2>2. CASE Handles(w)
    <3>1. \/ ExtractStart(w) /\ ChunkOf(job[w]) \notin extracted
          \/ ProbeStart(w) \/ IndexStart(w)
          \/ ChunkWorkRaises(w)
          \/ pc[w] = "finalize"
      BY <1>0, <2>2, Arrivals DEF Handles, Arrival
    <3>2. ~ProbeStart(w) /\ ~IndexStart(w) /\ pc[w] # "finalize"
      BY <1>2 DEF ProbeStart, IndexStart, In, FinalizeIsIndex
    <3>3. ChunkWorkRaises(w) => pc[w] = "work"
      BY DEF ChunkWorkRaises, In, At
    <3> QED BY <1>2, <3>1, <3>2, <3>3 DEF FirstExtract
  <2> QED BY <1>1, <2>1, <2>2
<1>5. ASSUME NEW u \in Workers, ExtractWork(u), ChunkOf(job[u]) = ChunkOf(job[w]) PROVE FALSE
  <2>1. pc[u] \in Busy /\ Type(job[u]) = "extract" /\ pc'[u] = "enqueue"
    BY <1>0, <1>5 DEF ExtractWork, In, At, Busy, Goto, Typed, TypeOK
  <2>2. job[u] = Extract(ChunkOf(job[u]))
    BY <1>0, <2>1, WorkerChunk, JobParts
  <2>3. u = w
    BY <1>2, <1>3, <1>5, <2>1, <2>2, OneRunner
  <2> QED BY <2>1, <2>3
<1> QED BY <1>2, <1>4, <1>5, ExtractedStays

LEMMA StepFailedForGood ==
  ASSUME OrderInv, Owned, CalmInv, Next, NobodyDies
  PROVE  FailedForGood'
<1>0. Typed /\ chunk \in [Chunks -> ChunkStatus]
  BY DEF OrderInv, Typed, TypeOK
<1> SUFFICES ASSUME NEW c \in Chunks, chunk'[c] = "failed"
             PROVE  \/ Dying(Extract(c))' /\ jobs'[Index(c)].status = "none"
                    \/ Dying(Index(c))' /\ Ended(Extract(c))'
  BY DEF FailedForGood
<1>1. Extract(c) \in Jobs /\ Index(c) \in Jobs /\ Type(Index(c)) = "index"
  BY JobParts
<1>2. ~RetryVideo
  BY <1>0 DEF RetryVideo
<1>3. ASSUME chunk[c] = "failed", Dying(Extract(c)), jobs[Index(c)].status = "none"
      PROVE  Dying(Extract(c))' /\ jobs'[Index(c)].status = "none"
  <2>1. Dying(Extract(c))'
    BY <1>0, <1>1, <1>2, <1>3, DyingStays
  <2>2. ASSUME jobs'[Index(c)].status # "none" PROVE FALSE
    <3>1. ~(\E u \in Workers : LeaseOf(u, Index(c))) /\ Index(c) \notin Orphans
      BY <1>3 DEF LeaseOf, Orphans
    <3>2. ASSUME NEW u \in Workers, Complete(u) \/ Fail(u), job[u] = Index(c) PROVE FALSE
      BY <1>3, <3>2 DEF Complete, Fail, At, Busy, Owned
    <3>3. Enqueuer(Index(c))
      BY <1>0, <1>1, <1>3, <2>2, <3>1, <3>2, RowWrites DEF RowWrite
    <3>4. Index(c) # <<"probe", 0>>
      BY DEF Index
    <3>5. PICK w \in Workers : ExtractEnqueue(w) /\ Index(c) = Index(ChunkOf(job[w]))
      BY <1>1, <3>3, <3>4 DEF Enqueuer
    <3>6. ChunkOf(job[w]) = c /\ pc[w] = "enqueue" /\ Type(job[w]) = "extract"
      BY <3>5 DEF Index, ExtractEnqueue, In, At
    <3>7. job[w] = Extract(c)
      BY <1>0, <3>6, WorkerChunk, JobParts DEF Busy
    <3> QED BY <1>3, <3>6, <3>7, NoWorkAfterEnd
  <2> QED BY <2>1, <2>2
<1>4. ASSUME chunk[c] = "failed", Dying(Index(c)), Ended(Extract(c))
      PROVE  Dying(Index(c))' /\ Ended(Extract(c))'
  BY <1>0, <1>1, <1>2, <1>4, DyingStays, EndedStays
<1>5. CASE chunk[c] = "failed"
  BY <1>3, <1>4, <1>5 DEF CalmInv, FailedForGood
<1>6. ASSUME NEW w \in Workers, RecordChunkError(w), LastAttempt(w), ChunkOf(job[w]) = c
      PROVE  \/ Dying(Extract(c))' /\ jobs'[Index(c)].status = "none"
             \/ Dying(Index(c))' /\ Ended(Extract(c))'
  <2>1. /\ pc[w] = "record" /\ pc'[w] = "verdict" /\ job'[w] = job[w] /\ seen'[w] = seen[w]
        /\ jobs' = jobs
    BY <1>0, <1>6 DEF RecordChunkError, SetChunk, At, Goto, Typed, TypeOK
  <2>2. Dying(job[w])'
    <3>1. seen'[w] >= MaxAttempts
      BY <1>6, <2>1 DEF LastAttempt
    <3>2. job'[w] = job[w] /\ pc'[w] \in {"verdict", "error"}
      BY <2>1
    <3> QED BY <3>1, <3>2 DEF Dying
  <2>3. Type(job[w]) \in {"extract", "index"} /\ job[w] \in Jobs /\ pc[w] \in Busy
    BY <1>0, <2>1, WorkerChunk DEF Busy
  <2>4. CASE Type(job[w]) = "extract"
    <3>1. job[w] = Extract(c)
      BY <1>6, <2>3, <2>4, JobParts
    <3>2. c \notin extracted
      BY <1>6, <2>1, <2>4 DEF CalmInv, FirstExtract
    <3>3. jobs[Index(c)].status = "none"
      BY <3>2 DEF OrderInv, IndexedAfterExtract
    <3>4. Dying(Extract(c))'
      <4>1. ASSUME NEW j, Dying(j)', j = Extract(c) PROVE Dying(Extract(c))'
        BY <4>1 DEF Dying
      <4> QED BY <2>1, <2>2, <3>1, <4>1 DEF Dying
    <3> QED BY <2>1, <3>3, <3>4
  <2>5. CASE Type(job[w]) = "index"
    <3>1. job[w] = Index(c)
      BY <1>6, <2>3, <2>5, JobParts
    <3>2. jobs[Index(c)].status # "none"
      BY <2>3, <3>1 DEF OrderInv, RowsExist
    <3>3. Ended(Extract(c))'
      BY <1>0, <1>1, <3>2, EndedStays DEF CalmInv, IndexAfterEnd
    <3>4. Dying(Index(c))'
      BY <2>1, <2>2, <3>1 DEF Dying
    <3> QED BY <3>3, <3>4
  <2> QED BY <2>3, <2>4, <2>5
<1>7. \A w \in Workers : ~Bury(w)
  BY <1>0, StepInHands DEF CalmInv
<1> QED BY <1>5, <1>6, <1>7, ChunkWrites, <1>0 DEF ChunkWrite

(* A chunk that failed is worked on by nobody, so only a retry resets it.  *)
LEMMA FailedStays ==
  ASSUME OrderInv, Owned, FailedForGood, Next, ~RetryVideo,
         NEW c \in Chunks, chunk[c] = "failed"
  PROVE  chunk'[c] = "failed"
<1>0. Typed
  BY DEF OrderInv
<1>1. \/ Dying(Extract(c)) /\ jobs[Index(c)].status = "none"
      \/ Dying(Index(c)) /\ Ended(Extract(c))
  BY DEF FailedForGood
<1>2. ASSUME NEW w \in Workers, pc[w] \in {"start", "work", "record"}, ChunkOf(job[w]) = c,
             Type(job[w]) \in {"extract", "index"}
      PROVE  FALSE
  <2>1. pc[w] \in Busy /\ job[w] \in Jobs
    BY <1>0, <1>2, WorkerChunk DEF Busy
  <2>2. job[w] = Extract(c) \/ job[w] = Index(c)
    BY <1>2, <2>1, JobParts
  <2>3. jobs[job[w]].status # "none"
    BY <2>1 DEF OrderInv, RowsExist
  <2>4. ~Ended(job[w]) /\ ~Dying(job[w])
    BY <1>2, NoWorkAfterEnd
  <2> QED BY <1>1, <2>2, <2>3, <2>4
<1>3. ASSUME NEW w \in Workers, ExtractStart(w) \/ IndexStart(w) \/ IndexWork(w), ChunkOf(job[w]) = c
      PROVE  FALSE
  BY <1>2, <1>3 DEF ExtractStart, IndexStart, IndexWork, In, At
<1>4. ASSUME NEW w \in Workers, RecordChunkError(w), ChunkOf(job[w]) = c PROVE FALSE
  <2>1. pc[w] = "record" /\ Type(job[w]) \in {"extract", "index"}
    BY <1>0, <1>4, WorkerChunk DEF RecordChunkError, At, Busy
  <2> QED BY <1>2, <1>4, <2>1
<1> QED BY <1>0, <1>3, <1>4, ChunkWrites DEF ChunkWrite

LEMMA StepReason ==
  ASSUME OrderInv, Owned, CalmInv, Next
  PROVE  Reason'
<1> SUFFICES ASSUME video' = "failed" PROVE \E c \in Chunks : chunk'[c] = "failed"
  BY DEF Reason
<1>1. ASSUME NEW w \in Workers, Settles(w) PROVE \E c \in Chunks : chunk'[c] = "failed"
  BY <1>1 DEF Settles, Verdict
<1>2. ~RetryVideo
  BY DEF RetryVideo
<1>3. CASE video = "failed"
  BY <1>2, <1>3, FailedStays DEF CalmInv, Reason
<1> QED BY <1>1, <1>2, <1>3, VideoWrites DEF VideoWrite

CalmHolds == NoDeath => CalmInv

LEMMA DeathsCount ==
  ASSUME Typed, Next, used'["crash"] = 0
  PROVE  used["crash"] = 0 /\ NobodyDies
<1>1. "crash" \in Kinds
  BY DEF Kinds
<1>2. used["crash"] = 0
  BY <1>1, UsedGrows
<1> QED BY <1>1, <1>2, SpendCounts DEF NobodyDies, Crash

LEMMA CalmAlways == Spec => []CalmHolds
<1>1. Init => CalmHolds
  BY JobParts DEF Init, CalmHolds, CalmInv, InHands, IndexAfterEnd, FirstExtract, FailedForGood,
     Reason, NoRow
<1>2. ASSUME OrderInv, HeldInv, FinalizeIsIndex, CalmHolds, Next PROVE CalmHolds'
  <2> SUFFICES ASSUME NoDeath' PROVE CalmInv'
    BY DEF CalmHolds
  <2>0. Typed
    BY <1>2 DEF OrderInv
  <2>1. used["crash"] = 0 /\ NobodyDies /\ used["stall"] = 0
    BY <2>0, <1>2, DeathsCount, NobodyFreezes DEF NoDeath
  <2>2. CalmInv /\ Owned
    BY <1>2, <2>1 DEF CalmHolds, NoDeath, HeldInv
  <2>3. InHands' /\ IndexAfterEnd' /\ FirstExtract'
    BY <1>2, <2>0, <2>1, <2>2, StepInHands, StepIndexAfterEnd, StepFirstExtract DEF CalmInv
  <2>4. FailedForGood' /\ Reason'
    BY <1>2, <2>1, <2>2, StepFailedForGood, StepReason
  <2> QED BY <2>3, <2>4 DEF CalmInv
<1>3. CalmHolds /\ UNCHANGED vars => CalmHolds'
  BY DEF CalmHolds, NoDeath, CalmInv, InHands, IndexAfterEnd, FirstExtract, FailedForGood, Reason,
     Ended, Dying, vars, videoVars, workerVars
<1>4. OrderInv /\ HeldInv /\ FinalizeIsIndex /\ CalmHolds /\ [Next]_vars => CalmHolds'
  BY <1>2, <1>3
<1> QED BY <1>1, <1>4, OrderHolds, HeldHolds, FinalizeHolds, PTL DEF Spec

(* A video that says `failed` has a chunk to blame all the while, as long  *)
(* as no process dies or freezes, whatever errors, failing transactions,   *)
(* retries and repeated complete calls there are.                          *)
THEOREM FailedMeansReason == Spec => []FailedHasReason
<1>1. CalmHolds => FailedHasReason
  BY DEF CalmHolds, CalmInv, NoDeath, Reason, FailedHasReason
<1> QED BY <1>1, CalmAlways, PTL

-----------------------------------------------------------------------------
(* What is there: the rows of a chunk and of the probe come before the     *)
(* jobs and the statuses that need them, whatever happens.                 *)
ChunkRowsFirst ==
  /\ \A w \in Workers : pc[w] = "enqueue" /\ Type(job[w]) = "probe" =>
       \A c \in Chunks : chunk[c] # "none"
  /\ \A c \in Chunks : jobs[Extract(c)].status # "none" \/ jobs[Index(c)].status # "none" =>
       chunk[c] # "none"

ProbeRowFirst ==
  video # "uploading" \/ (\E c \in Chunks : chunk[c] # "none") =>
    Retries > 0 \/ \E p \in Probes : jobs[p].status # "none"

LEMMA RowsStayed ==
  ASSUME OrderInv, Next, NEW j \in Jobs, jobs[j].status # "none"
  PROVE  jobs'[j].status # "none"
  BY RowWrites DEF OrderInv, RowWrite

LEMMA ChunkRowsStay ==
  ASSUME OrderInv, Next, NEW c \in Chunks, chunk[c] # "none"
  PROVE  chunk'[c] # "none"
<1>1. \A w \in Workers : (IF LastAttempt(w) THEN "failed" ELSE "pending") # "none"
  OBVIOUS
<1> QED BY <1>1, ChunkWrites DEF OrderInv, ChunkWrite

(* A row that appears was enqueued. *)
LEMMA NewRows ==
  ASSUME OrderInv, Next, NEW j \in Jobs, jobs[j].status = "none", jobs'[j].status # "none"
  PROVE  Enqueuer(j)
<1>1. ~(\E u \in Workers : LeaseOf(u, j)) /\ j \notin Orphans
  BY DEF LeaseOf, Orphans
<1>2. ASSUME NEW u \in Workers, Complete(u) \/ Fail(u), job[u] = j PROVE FALSE
  BY <1>2 DEF Complete, Fail, At, Busy, OrderInv, RowsExist
<1> QED BY <1>1, <1>2, RowWrites DEF OrderInv, RowWrite

LEMMA ChunkJobOf ==
  ASSUME OrderInv, ChunkRowsFirst, NEW w \in Workers, pc[w] \in Busy,
         Type(job[w]) \in {"extract", "index"}
  PROVE  /\ ChunkOf(job[w]) \in Chunks /\ chunk[ChunkOf(job[w])] # "none"
         /\ job[w] = Extract(ChunkOf(job[w])) \/ job[w] = Index(ChunkOf(job[w]))
<1>1. job[w] \in Jobs /\ jobs[job[w]].status # "none"
  BY WorkerChunk DEF OrderInv, RowsExist
<1>2. /\ ChunkOf(job[w]) \in Chunks
      /\ job[w] = Extract(ChunkOf(job[w])) \/ job[w] = Index(ChunkOf(job[w]))
  BY <1>1, JobParts
<1> QED BY <1>1, <1>2 DEF ChunkRowsFirst

LEMMA StepChunkRowsFirst ==
  ASSUME OrderInv, ChunkRowsFirst, Next
  PROVE  ChunkRowsFirst'
<1>0. Typed
  BY DEF OrderInv
<1>1. ASSUME NEW w \in Workers, pc'[w] = "enqueue", Type(job'[w]) = "probe", NEW c \in Chunks
      PROVE  chunk'[c] # "none"
  <2>1. Rests(w) \/ Handles(w)
    BY <1>0, <1>1, WorkerSteps DEF WorkerStep, Leaves, Aside, Busy
  <2>2. CASE Rests(w)
    BY <1>1, <2>2, ChunkRowsStay DEF Rests, ChunkRowsFirst
  <2>3. CASE Handles(w)
    <3>1. ProbeWork(w) \/ ExtractWork(w) \/ ExtractStart(w)
      BY <1>0, <1>1, <2>3, Arrivals DEF Handles, Arrival
    <3>2. ProbeWork(w)
      BY <1>1, <2>3, <3>1 DEF Handles, ExtractWork, ExtractStart, In
    <3> QED BY <3>2 DEF ProbeWork
  <2> QED BY <2>1, <2>2, <2>3
<1>2. ASSUME NEW c \in Chunks, jobs'[Extract(c)].status # "none" PROVE chunk'[c] # "none"
  <2>1. Extract(c) \in Jobs /\ Type(Extract(c)) = "extract"
    BY JobParts
  <2>2. ASSUME jobs[Extract(c)].status = "none" PROVE chunk[c] # "none"
    <3>1. Enqueuer(Extract(c))
      BY <1>2, <2>1, <2>2, NewRows
    <3>2. PICK w \in Workers : ProbeEnqueue(w)
      BY <2>1, <3>1 DEF Enqueuer, Extract, Index
    <3> QED BY <3>2 DEF ProbeEnqueue, In, At, ChunkRowsFirst
  <2> QED BY <1>2, <2>2, ChunkRowsStay DEF ChunkRowsFirst
<1>3. ASSUME NEW c \in Chunks, jobs'[Index(c)].status # "none" PROVE chunk'[c] # "none"
  <2>1. Index(c) \in Jobs /\ Type(Index(c)) = "index"
    BY JobParts
  <2>2. ASSUME jobs[Index(c)].status = "none" PROVE chunk[c] # "none"
    <3>1. Enqueuer(Index(c))
      BY <1>3, <2>1, <2>2, NewRows
    <3>2. PICK w \in Workers : ExtractEnqueue(w) /\ Index(c) = Index(ChunkOf(job[w]))
      BY <2>1, <3>1 DEF Enqueuer, Index
    <3>3. ChunkOf(job[w]) = c /\ pc[w] \in Busy /\ Type(job[w]) = "extract"
      BY <3>2 DEF Index, ExtractEnqueue, In, At, Busy
    <3> QED BY <3>3, ChunkJobOf
  <2> QED BY <1>3, <2>2, ChunkRowsStay DEF ChunkRowsFirst
<1> QED BY <1>1, <1>2, <1>3 DEF ChunkRowsFirst

LEMMA StepProbeRowFirst ==
  ASSUME OrderInv, ChunkRowsFirst, ProbeRowFirst, Next
  PROVE  ProbeRowFirst'
<1>0. Typed /\ {"retry", "untimely"} \subseteq Kinds /\ Probes \subseteq Jobs
  BY DEF OrderInv, Kinds, Jobs
<1>r. /\ used["retry"] \in Nat /\ used'["retry"] \in Nat /\ used["retry"] <= used'["retry"]
      /\ used["untimely"] \in Nat /\ used'["untimely"] \in Nat
      /\ used["untimely"] <= used'["untimely"]
  BY <1>0, UsedGrows
<1>1. Retries > 0 => Retries' > 0
  BY <1>r DEF Retries
<1>2. CASE video # "uploading" \/ \E c \in Chunks : chunk[c] # "none"
  BY <1>0, <1>1, <1>2, RowsStayed DEF ProbeRowFirst
<1>3. ASSUME NEW w \in Workers, ProbeStart(w) \/ ProbeWork(w)
      PROVE  \E p \in Probes : jobs[p].status # "none"
  <2>1. pc[w] \in Busy /\ Type(job[w]) = "probe"
    BY <1>3 DEF ProbeStart, ProbeWork, In, At, Busy
  <2>2. job[w] \in Jobs /\ jobs[job[w]].status # "none"
    BY <2>1, WorkerChunk DEF OrderInv, RowsExist
  <2>3. job[w] \in Probes
    BY <2>1, <2>2, JobParts DEF Jobs
  <2> QED BY <2>2, <2>3
<1>4. CASE video = "uploading" /\ \A c \in Chunks : chunk[c] = "none"
  <2>1. ASSUME NEW w \in Workers, Settles(w) PROVE FALSE
    <3>1. 0 \in Chunks
      BY PipelineConstants DEF Chunks
    <3> QED BY <1>4, <2>1, <3>1 DEF Settles, AllTerminal
  <2>2. ASSUME CompleteUpload PROVE \E p \in Probes : jobs'[p].status # "none"
    <3>1. PICK b \in Budgets : b \in [Kinds -> Nat]
      BY PipelineConstants
    <3>2. 0 \in 0 .. b["retry"] + b["untimely"]
      BY <1>0, <3>1
    <3>3. <<"probe", 0>> \in Probes
      BY <3>2 DEF Probes
    <3>4. jobs' = [jobs EXCEPT ![<<"probe", 0>>] = Enqueued(@)] /\ jobs \in [Jobs -> Row]
      BY <1>0, <2>2 DEF CompleteUpload, Typed, TypeOK
    <3>5. Enqueued(jobs[<<"probe", 0>>]).status # "none"
      BY DEF Enqueued, QueuedRow, NoRow
    <3> QED BY <1>0, <3>3, <3>4, <3>5
  <2>3. ASSUME RetryVideo PROVE Retries' > 0
    <3>1. \/ used'["retry"] = used["retry"] + 1
          \/ used'["untimely"] = used["untimely"] + 1
      BY <1>0, <2>3, SpendCounts DEF RetryVideo
    <3> QED BY <1>r, <3>1 DEF Retries
  <2>4. ASSUME video' # "uploading" PROVE ProbeRowFirst'
    BY <1>0, <1>3, <1>4, <2>1, <2>2, <2>3, <2>4, VideoWrites, RowsStayed DEF VideoWrite, ProbeRowFirst
  <2>5. ASSUME NEW c \in Chunks, chunk'[c] # "none" PROVE ProbeRowFirst'
    <3>1. ASSUME NEW w \in Workers, IndexWork(w) \/ RecordChunkError(w), ChunkOf(job[w]) = c PROVE FALSE
      <4>1. pc[w] \in Busy /\ Type(job[w]) \in {"extract", "index"}
        BY <1>0, <3>1, WorkerChunk DEF IndexWork, RecordChunkError, In, At, Busy
      <4> QED BY <1>4, <3>1, <4>1, ChunkJobOf
    <3>2. \E w \in Workers : ProbeWork(w)
      BY <1>0, <1>4, <2>5, <3>1, ChunkWrites DEF ChunkWrite
    <3> QED BY <1>0, <1>3, <3>2, RowsStayed DEF ProbeRowFirst
  <2> QED BY <2>4, <2>5 DEF ProbeRowFirst
<1> QED BY <1>2, <1>4

FirstInv == ChunkRowsFirst /\ ProbeRowFirst

LEMMA FirstHolds == Spec => []FirstInv
<1>1. Init => FirstInv
  BY JobParts DEF Init, FirstInv, ChunkRowsFirst, ProbeRowFirst, NoRow
<1>2. FirstInv /\ UNCHANGED vars => FirstInv'
  BY DEF FirstInv, ChunkRowsFirst, ProbeRowFirst, Retries, vars, videoVars, workerVars
<1>3. OrderInv /\ FirstInv /\ [Next]_vars => FirstInv'
  BY <1>2, StepChunkRowsFirst, StepProbeRowFirst DEF FirstInv
<1> QED BY <1>1, <1>3, OrderHolds, PTL DEF Spec

-----------------------------------------------------------------------------
(* What a job that has done its part leaves behind, without frozen         *)
(* processes and failing transactions: the jobs of the next stage, or the  *)
(* chunk done.                                                             *)
ProbeHandsOn ==
  \A p \in Probes : Ended(p) =>
    (\A c \in Chunks : jobs[Extract(c)].status # "none") \/ AllIndexed

ExtractHandsOn ==
  \A c \in Chunks : Ended(Extract(c)) => jobs[Index(c)].status # "none" \/ chunk[c] = "done"

IndexEnds ==
  /\ \A c \in Chunks : Ended(Index(c)) => chunk[c] = "done"
  /\ \A w \in Workers : pc[w] = "finalize" => chunk[ChunkOf(job[w])] = "done"

StageInv == ProbeHandsOn /\ ExtractHandsOn /\ IndexEnds

LEMMA NewlyEnded ==
  ASSUME Typed, Next, NEW j \in Jobs, Ended(j)', ~Ended(j)
  PROVE  \E w \in Workers : HandlerStep(w) /\ job[w] = j /\ pc[w] \in Busy /\ pc'[w] = "ok"
<1>1. CASE jobs'[j].status = "succeeded"
  <2>1. \E u \in Workers : Complete(u) /\ job[u] = j
    BY <1>1, RowWrites DEF RowWrite, Ended
  <2> QED BY <2>1, EndOfRun DEF Ended
<1>2. ASSUME NEW w \in Workers, pc'[w] = "ok", job'[w] = j
      PROVE  HandlerStep(w) /\ job[w] = j /\ pc[w] \in Busy
  BY <1>2, WorkerSteps DEF WorkerStep, Rests, Handles, Leaves, Aside, Busy, Ended
<1> QED BY <1>1, <1>2 DEF Ended

DoneStays == \A c \in Chunks : chunk[c] = "done" => chunk'[c] = "done"

LEMMA StepProbeHandsOn ==
  ASSUME OrderInv, ReadyInv, ProbeHandsOn, Next, DoneStays
  PROVE  ProbeHandsOn'
<1>0. Typed /\ Probes \subseteq Jobs /\ \A c \in Chunks : Extract(c) \in Jobs
  BY JobParts DEF OrderInv, Jobs
<1> SUFFICES ASSUME NEW p \in Probes, Ended(p)'
             PROVE  (\A c \in Chunks : jobs'[Extract(c)].status # "none") \/ AllIndexed'
  BY DEF ProbeHandsOn
<1>1. AllIndexed => AllIndexed'
  BY DEF AllIndexed, DoneStays
<1>2. CASE Ended(p)
  BY <1>0, <1>1, <1>2, RowsStayed DEF ProbeHandsOn
<1>3. ASSUME NEW w \in Workers, HandlerStep(w), job[w] = p, pc[w] \in Busy, pc'[w] = "ok"
      PROVE  (\A c \in Chunks : jobs'[Extract(c)].status # "none") \/ AllIndexed
  <2>1. Type(job[w]) = "probe"
    BY <1>3 DEF Probes, Type
  <2>2. \/ ProbeStart(w) /\ AlreadyReady
        \/ ProbeEnqueue(w)
    BY <1>0, <1>3, <2>1, Arrivals
       DEF Arrival, ExtractEnqueue, IndexFinalize, ExtractStart, IndexStart, In
  <2>3. CASE ProbeEnqueue(w)
    <3>1. ASSUME NEW c \in Chunks PROVE jobs'[Extract(c)].status # "none"
      <4>1. Extract(c) \in Jobs /\ Type(Extract(c)) = "extract"
        BY JobParts
      <4>2. jobs'[Extract(c)] = Enqueued(jobs[Extract(c)])
        BY <2>3, <4>1 DEF ProbeEnqueue, ProbeFollowUp
      <4> QED BY <4>2 DEF Enqueued, QueuedRow, NoRow
    <3> QED BY <3>1
  <2> QED BY <2>2, <2>3 DEF AlreadyReady, ReadyInv
<1> QED BY <1>0, <1>1, <1>2, <1>3, NewlyEnded

LEMMA StepExtractHandsOn ==
  ASSUME OrderInv, ExtractHandsOn, Next, DoneStays
  PROVE  ExtractHandsOn'
<1>0. Typed
  BY DEF OrderInv
<1> SUFFICES ASSUME NEW c \in Chunks, Ended(Extract(c))'
             PROVE  jobs'[Index(c)].status # "none" \/ chunk'[c] = "done"
  BY DEF ExtractHandsOn
<1>1. /\ Extract(c) \in Jobs /\ Index(c) \in Jobs /\ Type(Extract(c)) = "extract"
      /\ ChunkOf(Extract(c)) = c
  BY JobParts
<1>2. CASE Ended(Extract(c))
  BY <1>1, <1>2, RowsStayed DEF ExtractHandsOn, DoneStays
<1>3. ASSUME NEW w \in Workers, HandlerStep(w), job[w] = Extract(c), pc[w] \in Busy, pc'[w] = "ok"
      PROVE  jobs'[Index(c)].status # "none" \/ chunk[c] = "done"
  <2>1. ExtractEnqueue(w) \/ chunk[c] = "done"
    BY <1>0, <1>1, <1>3, Arrivals
       DEF Arrival, ProbeStart, ProbeEnqueue, IndexFinalize, In
  <2>2. CASE ExtractEnqueue(w)
    <3>1. jobs'[Index(c)] = Enqueued(jobs[Index(c)])
      BY <1>0, <1>1, <1>3, <2>2 DEF ExtractEnqueue, Typed, TypeOK
    <3> QED BY <3>1 DEF Enqueued, QueuedRow, NoRow
  <2> QED BY <2>1, <2>2
<1> QED BY <1>0, <1>1, <1>2, <1>3, NewlyEnded DEF DoneStays

LEMMA StepIndexEnds ==
  ASSUME OrderInv, IndexEnds, Next, DoneStays
  PROVE  IndexEnds'
<1>0. Typed /\ chunk \in [Chunks -> ChunkStatus]
  BY DEF OrderInv, Typed, TypeOK
<1>1. ASSUME NEW w \in Workers, pc'[w] = "finalize" PROVE chunk'[ChunkOf(job'[w])] = "done"
  <2>1. Rests(w) \/ Handles(w)
    BY <1>0, <1>1, WorkerSteps DEF WorkerStep, Leaves, Aside, Busy
  <2>2. CASE Rests(w)
    <3>1. ChunkOf(job[w]) \in Chunks
      BY <1>0, <1>1, <2>2, WorkerChunk DEF Rests, Busy
    <3> QED BY <1>1, <2>2, <3>1 DEF Rests, IndexEnds, DoneStays
  <2>3. CASE Handles(w)
    <3>1. IndexWork(w)
      BY <1>0, <1>1, <2>3, Arrivals DEF Handles, Arrival
    <3>2. ChunkOf(job[w]) \in Chunks
      BY <2>3, <3>1, IndexOfExtracted DEF Handles, IndexWork, In
    <3> QED BY <1>0, <2>3, <3>1, <3>2 DEF Handles, IndexWork, SetChunk
  <2> QED BY <2>1, <2>2, <2>3
<1>2. ASSUME NEW c \in Chunks, Ended(Index(c))' PROVE chunk'[c] = "done"
  <2>1. Index(c) \in Jobs /\ Type(Index(c)) = "index" /\ ChunkOf(Index(c)) = c
    BY JobParts
  <2>2. CASE Ended(Index(c))
    BY <2>2 DEF IndexEnds, DoneStays
  <2>3. ASSUME NEW w \in Workers, HandlerStep(w), job[w] = Index(c), pc[w] \in Busy, pc'[w] = "ok"
        PROVE  chunk[c] = "done"
    <3>1. IndexFinalize(w) \/ chunk[c] = "done"
      BY <1>0, <2>1, <2>3, Arrivals
         DEF Arrival, ProbeStart, ProbeEnqueue, ExtractEnqueue, In
    <3>2. IndexFinalize(w) => pc[w] = "finalize"
      BY DEF IndexFinalize, In, At
    <3> QED BY <2>1, <2>3, <3>1, <3>2 DEF IndexEnds
  <2> QED BY <1>0, <1>2, <2>1, <2>2, <2>3, NewlyEnded DEF DoneStays
<1> QED BY <1>1, <1>2 DEF IndexEnds

StageHolds == Orderly => StageInv

LEMMA StageAlways == Spec => []StageHolds
<1>1. Init => StageHolds
  BY JobParts DEF Init, StageHolds, StageInv, ProbeHandsOn, ExtractHandsOn, IndexEnds, Ended, NoRow,
     Jobs
<1>2. ASSUME SafeInv, OrderInv', StageHolds, Next PROVE StageHolds'
  <2> SUFFICES ASSUME Orderly' PROVE StageInv'
    BY DEF StageHolds
  <2>0. OrderInv /\ Typed
    BY <1>2 DEF SafeInv, OrderInv
  <2>1. Orderly /\ StageInv /\ ReadyInv
    BY <1>2, <2>0, OrderlySteps DEF StageHolds, SafeInv
  <2>2. DoneStays
    BY <1>2, StepSafe DEF DoneStays
  <2> QED BY <1>2, <2>0, <2>1, <2>2, StepProbeHandsOn, StepExtractHandsOn, StepIndexEnds
          DEF StageInv
<1>3. StageHolds /\ UNCHANGED vars => StageHolds'
  BY DEF StageHolds, StageInv, ProbeHandsOn, ExtractHandsOn, IndexEnds, Ended, AllIndexed, Orderly,
     vars, videoVars, workerVars
<1>4. SafeInv /\ OrderInv' /\ StageHolds /\ [Next]_vars => StageHolds'
  BY <1>2, <1>3
<1> QED BY <1>1, <1>4, SafeHolds, OrderHolds, PTL DEF Spec

-----------------------------------------------------------------------------
(* While processes only die, nothing is raised and nobody gives up: a row  *)
(* has had one attempt for every death, and one more while it is run.      *)
FewDeaths == OnlyCrashes /\ used["crash"] < MaxAttempts

NoTrouble ==
  /\ \A w \in Workers :
       pc[w] \notin {"record", "verdict", "error", "fatal", "bury", "buried"}
  /\ \A j \in Jobs : jobs[j].status # "dead"

DeathsPay ==
  \A j \in Jobs :
    /\ jobs[j].attempts <= used["crash"] + 1
    /\ jobs[j].status = "queued" \/ j \in Orphans => jobs[j].attempts <= used["crash"]

CrashInv == NoTrouble /\ DeathsPay

LEMMA OnlyCrashSteps ==
  ASSUME Typed, Next, FewDeaths'
  PROVE  /\ FewDeaths /\ Orderly /\ Orderly'
         /\ \A k \in Kinds \ {"crash", "upload"} : ~Spend(k)
<1>0. /\ {"crash", "upload", "stall", "dbError"} \subseteq Kinds
      /\ MaxAttempts \in Nat
  BY PipelineConstants DEF Kinds
<1>1. ASSUME NEW k \in Kinds \ {"crash", "upload"} PROVE used[k] = 0 /\ ~Spend(k)
  <2>1. used'[k] = 0
    BY <1>1 DEF FewDeaths, OnlyCrashes
  <2> QED BY <1>1, <2>1, UsedGrows, SpendCounts
<1>2. used["crash"] < MaxAttempts
  BY <1>0, UsedGrows DEF FewDeaths
<1> QED BY <1>0, <1>1, <1>2 DEF FewDeaths, OnlyCrashes, Orderly

LEMMA StepNoTrouble ==
  ASSUME OrderInv, ChunkRowsFirst, Owned, CrashInv, FewDeaths, Next,
         \A k \in Kinds \ {"crash", "upload"} : ~Spend(k)
  PROVE  NoTrouble'
<1>0. Typed /\ {"error", "probeError", "corrupt", "dbError", "retry", "untimely"} \subseteq Kinds \ {"crash", "upload"}
  BY DEF OrderInv, Kinds
<1>1. ASSUME NEW w \in Workers
      PROVE  /\ ~ProbeRaises(w) /\ ~ChunkWorkRaises(w) /\ ~TransactionFails(w) /\ ~BurialFails(w)
             /\ ~Burial(w) /\ ~Fail(w) /\ ~RecordChunkError(w) /\ ~RecordVerdict(w)
  <2>1. ~ProbeRaises(w) /\ ~ChunkWorkRaises(w) /\ ~TransactionFails(w) /\ ~BurialFails(w)
    BY <1>0 DEF ProbeRaises, ChunkWorkRaises, TransactionFails, BurialFails
  <2>2. ~Burial(w) /\ ~Fail(w) /\ ~RecordChunkError(w) /\ ~RecordVerdict(w)
    BY DEF Burial, Bury, Buried, Fail, RecordChunkError, RecordVerdict, At, CrashInv, NoTrouble
  <2> QED BY <2>1, <2>2
<1>2. ASSUME NEW j \in Jobs PROVE jobs'[j].status # "dead"
  <2>1. j \in Orphans => jobs[j].attempts < MaxAttempts /\ jobs[j].attempts \in Nat
    <3>1. jobs[j].attempts \in Nat /\ used["crash"] \in Nat /\ MaxAttempts \in Nat
      BY <1>0, PipelineConstants DEF Typed, TypeOK, Row, Kinds
    <3> QED BY <3>1 DEF CrashInv, DeathsPay, FewDeaths
  <2>2. MaxAttempts \in Nat
    BY PipelineConstants
  <2>3. j \in Orphans => (IF jobs[j].attempts >= MaxAttempts THEN "dead" ELSE "queued") = "queued"
    BY <2>1, <2>2
  <2> QED BY <1>0, <1>1, <2>3, RowWrites DEF RowWrite, CrashInv, NoTrouble
<1>3. ASSUME NEW w \in Workers, Reap(w) PROVE pc'[w] = "idle"
  <2>1. PICK S : ReapOf(w, S) /\ S \subseteq Jobs
    BY <1>3, ReapParts DEF ReapOf, Orphans
  <2>2. PICK dead : /\ Goto(w, AfterBurial(dead))
                    /\ \A j \in dead : j \in Jobs /\ jobs'[j].status = "dead"
    <3>1. PICK T \in (SUBSET Orphans) \ {{}} :
            LET dead == {j \in T : jobs'[j].status = "dead" /\ Type(j) # "probe"}
            IN Goto(w, AfterBurial(dead))
      BY <1>3 DEF Reap
    <3> QED BY <3>1 DEF Orphans
  <2>3. dead = {}
    BY <1>2, <2>2
  <2> QED BY <1>0, <2>2, <2>3 DEF AfterBurial, Goto, Typed, TypeOK
<1>4. ASSUME NEW w \in Workers
      PROVE  pc'[w] \notin {"record", "verdict", "error", "fatal", "bury", "buried"}
  <2>1. CASE Handles(w)
    <3>1. /\ IndexStart(w) => ChunkOf(job[w]) \in extracted
      BY <2>1, IndexOfExtracted DEF Handles, IndexStart, In
    <3>2. ExtractStart(w) \/ IndexStart(w) => chunk[ChunkOf(job[w])] # "none"
      BY <2>1, ChunkJobOf DEF Handles, ExtractStart, IndexStart, In
    <3> QED BY <1>0, <1>1, <2>1, <3>1, <3>2, Arrivals DEF Handles, Arrival, Busy
  <2>2. CASE Rests(w)
    BY <2>2 DEF Rests, CrashInv, NoTrouble
  <2>3. CASE Aside(w)
    BY <1>1, <1>3, <2>3 DEF Aside
  <2> QED BY <1>0, <2>1, <2>2, <2>3, WorkerSteps DEF WorkerStep, Leaves
<1> QED BY <1>2, <1>4 DEF NoTrouble

LEMMA StepDeathsPay ==
  ASSUME Typed, Owned, CrashInv, Next, frozen' = {},
         \A k \in Kinds \ {"crash", "upload"} : ~Spend(k)
  PROVE  DeathsPay'
<1>0. "crash" \in Kinds /\ {"retry", "untimely"} \subseteq Kinds \ {"crash", "upload"}
  BY DEF Kinds
<1> DEFINE k  == used["crash"]
           kk == used'["crash"]
<1>1. k \in Nat /\ kk \in Nat /\ k <= kk
  BY <1>0, UsedGrows
<1>2. \A w \in Workers : ~Fail(w)
  BY DEF Fail, At, CrashInv, NoTrouble
<1>3. ~RetryVideo
  BY <1>0 DEF RetryVideo
<1> HIDE DEF k, kk
<1> SUFFICES ASSUME NEW j \in Jobs
             PROVE  /\ jobs'[j].attempts <= kk + 1
                    /\ jobs'[j].status = "queued" \/ j \in Orphans' => jobs'[j].attempts <= kk
  BY DEF DeathsPay, kk
<1>4. jobs[j].attempts \in Nat /\ jobs[j].attempts <= k + 1
      /\ (jobs[j].status = "queued" \/ j \in Orphans => jobs[j].attempts <= k)
  BY DEF CrashInv, DeathsPay, Typed, TypeOK, Row, k
<1>5. j \in Orphans' =>
        /\ jobs'[j].status = "running"
        /\ \A w \in Workers : ~(pc'[w] \in Busy /\ job'[w] = j)
  BY DEF Orphans
<1>6. CASE jobs'[j].status = jobs[j].status /\ jobs'[j].attempts = jobs[j].attempts
  <2>1. ASSUME j \in Orphans', j \notin Orphans PROVE kk = k + 1
    <3>1. PICK w \in Workers : pc[w] \in Busy /\ job[w] = j
      BY <1>5, <1>6, <2>1 DEF Orphans
    <3>2. ~Rests(w) /\ ~Handles(w)
      BY <1>5, <2>1, <3>1 DEF Rests, Handles
    <3>3. ~Lease(w)
      BY <3>1 DEF Lease, At, Busy
    <3>4. ~Complete(w)
      BY <1>5, <1>6, <2>1, <3>1, EndOfRun
    <3>5. Crash(w)
      BY <1>2, <3>1, <3>2, <3>3, <3>4, WorkerSteps DEF WorkerStep, Leaves, Aside
    <3> QED BY <1>0, <3>5, SpendCounts DEF Crash, k, kk
  <2> QED BY <1>1, <1>4, <1>6, <2>1
<1>7. CASE jobs'[j].status = "queued" /\ jobs'[j].attempts = 0
  BY <1>1, <1>7
<1>8. ASSUME NEW w \in Workers, Lease(w), LeaseOf(w, j),
             jobs'[j].status = "running", jobs'[j].attempts = jobs[j].attempts + 1
      PROVE  /\ jobs'[j].attempts <= kk + 1
             /\ jobs'[j].status = "queued" \/ j \in Orphans' => jobs'[j].attempts <= kk
  <2>1. pc'[w] = "start" /\ job'[w] = j /\ jobs[j].status = "queued"
    BY <1>8 DEF Lease, LeaseOf, Goto, Typed, TypeOK
  <2>2. j \notin Orphans'
    BY <1>5, <2>1 DEF Busy
  <2> QED BY <1>1, <1>4, <1>8, <2>1, <2>2
<1>9. CASE jobs'[j].status = "succeeded" /\ jobs'[j].attempts = jobs[j].attempts
  BY <1>1, <1>4, <1>5, <1>9
<1>10. CASE j \in Orphans /\ jobs'[j].attempts = jobs[j].attempts
  BY <1>1, <1>4, <1>10
<1> QED BY <1>2, <1>3, <1>6, <1>7, <1>8, <1>9, <1>10, RowWrites DEF RowWrite

CrashHolds == FewDeaths => CrashInv

LEMMA CrashAlways == Spec => []CrashHolds
<1>1. Init => CrashHolds
  BY DEF Init, CrashHolds, CrashInv, NoTrouble, DeathsPay, NoRow, Orphans, Kinds
<1>2. ASSUME OrderInv, FirstInv, HeldInv, HeldInv', CrashHolds, Next PROVE CrashHolds'
  <2> SUFFICES ASSUME FewDeaths' PROVE CrashInv'
    BY DEF CrashHolds
  <2>0. Typed
    BY <1>2 DEF OrderInv
  <2>1. /\ FewDeaths /\ Orderly /\ Orderly'
        /\ \A k \in Kinds \ {"crash", "upload"} : ~Spend(k)
    BY <1>2, <2>0, OnlyCrashSteps
  <2>2. Owned /\ frozen' = {} /\ CrashInv /\ ChunkRowsFirst
    BY <1>2, <2>1 DEF HeldInv, Orderly, Owned, CrashHolds, FirstInv
  <2> QED BY <1>2, <2>0, <2>1, <2>2, StepNoTrouble, StepDeathsPay DEF CrashInv
<1>3. CrashHolds /\ UNCHANGED vars => CrashHolds'
  BY DEF CrashHolds, FewDeaths, OnlyCrashes, CrashInv, NoTrouble, DeathsPay, Orphans, vars, workerVars
<1>4. OrderInv /\ FirstInv /\ HeldInv /\ HeldInv' /\ CrashHolds /\ [Next]_vars => CrashHolds'
  BY <1>2, <1>3
<1> QED BY <1>1, <1>4, OrderHolds, FirstHolds, HeldHolds, PTL DEF Spec

(* Fewer deaths than attempts cost no chunk, even if complete_upload() is  *)
(* called again meanwhile: when the work is over all chunks are done.      *)
THEOREM CrashesLoseNothing == Spec => []CrashLosesNoChunk
<1>1. ASSUME CrashHolds, FirstInv, StageHolds PROVE CrashLosesNoChunk
  <2> SUFFICES ASSUME FewDeaths, Quiet, video # "uploading", NEW c \in Chunks
               PROVE  chunk[c] = "done"
    BY DEF CrashLosesNoChunk, FewDeaths
  <2>1. \A j \in Jobs : jobs[j].status \in {"none", "succeeded"}
    BY <1>1 DEF Quiet, Settled, CrashHolds, CrashInv, NoTrouble
  <2>2. Orderly /\ Retries = 0
    BY DEF FewDeaths, OnlyCrashes, Orderly, Retries, Kinds
  <2>3. StageInv
    BY <1>1, <2>2 DEF StageHolds
  <2>4. PICK p \in Probes : jobs[p].status # "none"
    BY <1>1, <2>2 DEF FirstInv, ProbeRowFirst
  <2>5. p \in Jobs /\ Extract(c) \in Jobs /\ Index(c) \in Jobs
    BY JobParts DEF Jobs
  <2>6. (\A d \in Chunks : jobs[Extract(d)].status # "none") \/ AllIndexed
    BY <2>1, <2>3, <2>4, <2>5 DEF StageInv, ProbeHandsOn, Ended
  <2>7. CASE jobs[Extract(c)].status # "none"
    BY <2>1, <2>3, <2>5, <2>7 DEF StageInv, ExtractHandsOn, IndexEnds, Ended
  <2> QED BY <2>6, <2>7 DEF AllIndexed
<1>2. CrashHolds /\ FirstInv /\ StageHolds => CrashLosesNoChunk
  BY <1>1
<1> QED BY <1>2, CrashAlways, FirstHolds, StageAlways, PTL

-----------------------------------------------------------------------------
(* The start of a video of a patient user: it is `uploading` until         *)
(* complete_upload() is called, with no jobs, and has no chunks before the *)
(* probe takes it up.                                                      *)
Young == video \in {"uploading", "uploaded"}

YoungInv ==
  /\ used["upload"] = 0 => video = "uploading"
  /\ video = "uploading" => \A j \in Jobs : jobs[j].status = "none"
  /\ Young =>
       /\ \A c \in Chunks : /\ chunk[c] = "none"
                            /\ jobs[Extract(c)].status = "none" /\ jobs[Index(c)].status = "none"
       /\ \A w \in Workers : ~(pc[w] \in {"work", "enqueue"} /\ Type(job[w]) = "probe")

LEMMA NoneSteps ==
  ASSUME OrderInv, ChunkRowsFirst, Next, NEW c \in Chunks, chunk[c] = "none"
  PROVE  chunk'[c] = "none" \/ \E w \in Workers : ProbeWork(w)
<1>0. Typed
  BY DEF OrderInv
<1>1. ASSUME NEW w \in Workers, IndexWork(w) \/ RecordChunkError(w), ChunkOf(job[w]) = c PROVE FALSE
  <2>1. pc[w] \in Busy /\ Type(job[w]) \in {"extract", "index"}
    BY <1>0, <1>1, WorkerChunk DEF IndexWork, RecordChunkError, In, At, Busy
  <2> QED BY <1>1, <2>1, ChunkJobOf
<1> QED BY <1>0, <1>1, ChunkWrites DEF ChunkWrite

LEMMA NothingToSettle ==
  ASSUME NEW w, \A c \in Chunks : chunk[c] = "none"
  PROVE  ~Settles(w) /\ ~AllTerminal
<1>1. 0 \in Chunks
  BY PipelineConstants DEF Chunks
<1> QED BY <1>1 DEF Settles, AllTerminal

LEMMA NobodyAtWork ==
  ASSUME OrderInv, NEW w \in Workers, \A j \in Jobs : jobs[j].status = "none"
  PROVE  pc[w] \notin Busy
  BY WorkerChunk DEF OrderInv, RowsExist

LEMMA PatientBefore ==
  ASSUME Typed, Next, PatientUser'
  PROVE  /\ PatientUser
         /\ CompleteUpload => used["upload"] = 0 /\ used'["upload"] # 0
         /\ RetryVideo => RetryOffered
<1>0. {"upload", "untimely"} \subseteq Kinds
  BY DEF Kinds
<1>1. /\ used["upload"] \in Nat /\ used'["upload"] \in Nat /\ used["upload"] <= used'["upload"]
      /\ used["untimely"] \in Nat /\ used'["untimely"] \in Nat
      /\ used["untimely"] <= used'["untimely"]
  BY <1>0, UsedGrows
<1>2. PatientUser
  BY <1>1 DEF PatientUser
<1>3. ASSUME CompleteUpload PROVE used["upload"] = 0 /\ used'["upload"] # 0
  <2>1. used'["upload"] = used["upload"] + 1
    BY <1>0, <1>3, SpendCounts DEF CompleteUpload
  <2> QED BY <1>1, <2>1 DEF PatientUser
<1>4. ASSUME RetryVideo PROVE RetryOffered
  <2>1. ~Spend("untimely")
    <3> SUFFICES ASSUME Spend("untimely") PROVE FALSE
      OBVIOUS
    <3>1. used'["untimely"] = used["untimely"] + 1
      BY <1>0, SpendCounts
    <3> QED BY <1>1, <3>1 DEF PatientUser
  <2> QED BY <1>4, <2>1 DEF RetryVideo
<1> QED BY <1>2, <1>3, <1>4

LEMMA StepYoung ==
  ASSUME OrderInv, ChunkRowsFirst, YoungInv, Next, PatientUser'
  PROVE  YoungInv'
<1>0. Typed /\ "upload" \in Kinds
  BY DEF OrderInv, Kinds
<1>1. /\ CompleteUpload => used["upload"] = 0 /\ used'["upload"] # 0
      /\ RetryVideo => RetryOffered
      /\ used'["upload"] = 0 => used["upload"] = 0
  BY <1>0, PatientBefore, UsedGrows
<1>2. CompleteUpload => video = "uploading"
  BY <1>1 DEF YoungInv
<1>3. RetryVideo => ~Young
  BY <1>1 DEF RetryOffered, YoungInv, Young
<1>4. ASSUME Young, NEW w \in Workers PROVE ~Settles(w)
  BY <1>4, NothingToSettle DEF YoungInv
<1>5. ASSUME video = "uploading", NEW w \in Workers PROVE pc[w] \notin Busy
  BY <1>5, NobodyAtWork DEF YoungInv
<1>6. ASSUME NEW w \in Workers
      PROVE  /\ ProbeStart(w) \/ ProbeEnqueue(w) \/ ExtractEnqueue(w) => pc[w] \in Busy
             /\ ProbeWork(w) => pc[w] = "work" /\ Type(job[w]) = "probe"
             /\ ProbeEnqueue(w) => pc[w] = "enqueue" /\ Type(job[w]) = "probe"
             /\ ExtractEnqueue(w) => Type(job[w]) = "extract"
  BY DEF ProbeStart, ProbeWork, ProbeEnqueue, ExtractEnqueue, In, At, Busy
<1>7. Young' => Young /\ ~RetryVideo /\ ~(\E w \in Workers : ProbeStart(w) /\ video # "ready")
  <2>1. ASSUME NEW w \in Workers, Settles(w) PROVE ~Young'
    BY <2>1 DEF Settles, Verdict, Young
  <2>2. ASSUME NEW w \in Workers, ProbeStart(w), video # "ready" PROVE ~Young'
    BY <2>2 DEF ProbeStart, AlreadyReady, Young
  <2>3. RetryVideo => ~Young'
    BY DEF RetryVideo, Young
  <2> QED BY <1>2, <2>1, <2>2, <2>3, VideoWrites DEF VideoWrite, Young
<1>8. ASSUME used'["upload"] = 0 PROVE video' = "uploading"
  <2>1. video = "uploading" /\ ~CompleteUpload /\ ~RetryVideo
    BY <1>1, <1>3, <1>8 DEF YoungInv, Young
  <2> QED BY <1>4, <1>5, <1>6, <2>1, VideoWrites DEF VideoWrite, Young
<1>9. ASSUME video' = "uploading", NEW j \in Jobs PROVE jobs'[j].status = "none"
  <2>1. video = "uploading"
    <3>1. ASSUME NEW w \in Workers, Settles(w) PROVE FALSE
      BY <1>9, <3>1 DEF Settles, Verdict
    <3> QED BY <1>9, <3>1, VideoWrites DEF VideoWrite
  <2>2. ~CompleteUpload /\ ~RetryVideo
    BY <1>9 DEF CompleteUpload, RetryVideo
  <2>3. jobs[j].status = "none"
    BY <2>1 DEF YoungInv
  <2>4. ~Enqueuer(j)
    BY <1>5, <1>6, <2>1, <2>2 DEF Enqueuer
  <2> QED BY <2>3, <2>4, NewRows
<1>10. ASSUME Young', NEW c \in Chunks
       PROVE  /\ chunk'[c] = "none"
              /\ jobs'[Extract(c)].status = "none" /\ jobs'[Index(c)].status = "none"
  <2>1. /\ chunk[c] = "none" /\ \A w \in Workers : ~ProbeWork(w) /\ ~ProbeEnqueue(w)
        /\ jobs[Extract(c)].status = "none" /\ jobs[Index(c)].status = "none"
    BY <1>6, <1>7, <1>10 DEF YoungInv
  <2>2. ASSUME NEW w \in Workers, ExtractEnqueue(w) PROVE FALSE
    <3>1. /\ ChunkOf(job[w]) \in Chunks /\ chunk[ChunkOf(job[w])] # "none"
      BY <1>6, <2>2, ChunkJobOf
    <3> QED BY <1>7, <1>10, <3>1 DEF YoungInv
  <2>3. ASSUME NEW j \in Jobs, j = Extract(c) \/ j = Index(c) PROVE ~Enqueuer(j)
    <3>1. j # <<"probe", 0>>
      BY <2>3 DEF Extract, Index
    <3> QED BY <1>7, <1>10, <2>1, <2>2, <3>1 DEF Enqueuer
  <2>4. Extract(c) \in Jobs /\ Index(c) \in Jobs
    BY JobParts
  <2> QED BY <2>1, <2>3, <2>4, NoneSteps, NewRows
<1>11. ASSUME Young', NEW w \in Workers, pc'[w] \in {"work", "enqueue"}, Type(job'[w]) = "probe"
       PROVE  FALSE
  <2>1. ~Rests(w)
    BY <1>7, <1>11 DEF Rests, YoungInv
  <2>2. Handles(w)
    BY <1>0, <1>11, <2>1, WorkerSteps DEF WorkerStep, Leaves, Aside, Busy
  <2>3. \/ ProbeStart(w) /\ ~AlreadyReady
        \/ ProbeWork(w) \/ ExtractStart(w) \/ IndexStart(w) \/ ExtractWork(w)
    BY <1>0, <1>11, <2>2, Arrivals DEF Handles, Arrival
  <2>4. ProbeWork(w)
    BY <1>7, <1>11, <2>2, <2>3
       DEF Handles, ExtractStart, IndexStart, ExtractWork, In, AlreadyReady
  <2> QED BY <1>6, <1>7, <1>11, <2>4 DEF YoungInv
<1> QED BY <1>8, <1>9, <1>10, <1>11 DEF YoungInv, Young

YoungHolds == PatientUser => YoungInv

LEMMA YoungAlways == Spec => []YoungHolds
<1>1. Init => YoungHolds
  BY JobParts DEF Init, YoungHolds, YoungInv, NoRow
<1>2. ASSUME OrderInv, FirstInv, YoungHolds, Next PROVE YoungHolds'
  BY <1>2, StepYoung, PatientBefore DEF YoungHolds, FirstInv, OrderInv
<1>3. YoungHolds /\ UNCHANGED vars => YoungHolds'
  BY DEF YoungHolds, PatientUser, YoungInv, Young, vars, videoVars, workerVars
<1>4. OrderInv /\ FirstInv /\ YoungHolds /\ [Next]_vars => YoungHolds'
  BY <1>2, <1>3
<1> QED BY <1>1, <1>4, OrderHolds, FirstHolds, PTL DEF Spec

-----------------------------------------------------------------------------
(* What can go wrong before a user gives up on a single upload: errors of  *)
(* the work on chunks, as many as there may be, and fewer errors of the    *)
(* probe than it has attempts.                                             *)
OnlyErrors ==
  /\ \A k \in {"crash", "stall", "dbError", "retry", "untimely", "corrupt"} : used[k] = 0
  /\ used["upload"] <= 1 /\ used["probeError"] < MaxAttempts

NoFatal == \A w \in Workers : pc[w] # "fatal"

DyingFails == \A c \in Chunks : Dying(Extract(c)) \/ Dying(Index(c)) => chunk[c] = "failed"

(* There is one probe, it never gives up, and every attempt but the one    *)
(* that is running was ended by an error.                                  *)
ProbeTries ==
  /\ \A p \in Probes :
       /\ p # <<"probe", 0>> => jobs[p].status = "none"
       /\ jobs[p].status # "dead"
       /\ jobs[p].status = "queued" => jobs[p].attempts <= used["probeError"]
       /\ jobs[p].status = "running" => jobs[p].attempts <= used["probeError"] + 1
  /\ \A w \in Workers : pc[w] = "error" /\ Type(job[w]) = "probe" => seen[w] <= used["probeError"]

(* The probe has not yet made the rows of the chunks. *)
AtHand(p) == \/ jobs[p].status = "queued"
             \/ \E w \in Workers : pc[w] \in {"start", "work", "error"} /\ job[w] = p

ProbeMakesChunks == \A p \in Probes : AtHand(p) => \A c \in Chunks : chunk[c] = "none"

(* Once all chunks are terminal the video is settled, or a worker that has *)
(* seen it unsettled is about to.                                          *)
Declared ==
  AllTerminal =>
    \/ video \in {"ready", "failed"}
    \/ \E w \in Workers : pc[w] \in {"finalize", "verdict"} /\ saw[w] \notin {"ready", "failed"}

SettleInv == NoFatal /\ DyingFails /\ ProbeTries /\ ProbeMakesChunks /\ Declared

(* What cannot happen in a step of such a run *)
NoFault ==
  /\ \A w \in Workers : /\ ~Crash(w) /\ ~TransactionFails(w)
                        /\ ~Reap(w) /\ ~Bury(w) /\ ~Buried(w)
  /\ ~RetryVideo /\ ~Spend("corrupt")

LEMMA OnlyErrorsBefore ==
  ASSUME Typed, Next, OnlyErrors'
  PROVE  /\ OnlyErrors /\ NoDeath /\ NoDeath' /\ Orderly /\ Orderly'
         /\ PatientUser /\ PatientUser'
         /\ \A k \in {"crash", "stall", "dbError", "retry", "untimely", "corrupt"} : ~Spend(k)
<1> DEFINE K == {"crash", "stall", "dbError", "retry", "untimely", "corrupt"}
<1>0. K \subseteq Kinds /\ {"upload", "probeError"} \subseteq Kinds /\ MaxAttempts \in Nat
  BY PipelineConstants DEF Kinds
<1>1. ASSUME NEW k \in K PROVE used[k] = 0 /\ ~Spend(k)
  <2>1. used'[k] = 0
    BY <1>1 DEF OnlyErrors
  <2> QED BY <1>0, <1>1, <2>1, UsedGrows, SpendCounts
<1>2. used["upload"] <= 1 /\ used["probeError"] < MaxAttempts
  <2>1. used'["upload"] <= 1 /\ used'["probeError"] < MaxAttempts
    BY DEF OnlyErrors
  <2>2. /\ used["upload"] \in Nat /\ used'["upload"] \in Nat /\ used["upload"] <= used'["upload"]
        /\ used["probeError"] \in Nat /\ used'["probeError"] \in Nat
        /\ used["probeError"] <= used'["probeError"]
    BY <1>0, UsedGrows
  <2> QED BY <1>0, <2>1, <2>2
<1>3. OnlyErrors
  BY <1>1, <1>2 DEF OnlyErrors
<1>4. OnlyErrors => NoDeath /\ Orderly /\ PatientUser
  BY DEF OnlyErrors, NoDeath, Orderly, PatientUser
<1>5. NoDeath' /\ Orderly' /\ PatientUser'
  BY DEF OnlyErrors, NoDeath, Orderly, PatientUser
<1> QED BY <1>1, <1>3, <1>4, <1>5

LEMMA StepNoFatal ==
  ASSUME OrderInv, ChunkRowsFirst, NoFatal, NoFault, Next
  PROVE  NoFatal'
<1>0. Typed
  BY DEF OrderInv
<1> SUFFICES ASSUME NEW w \in Workers, pc'[w] = "fatal" PROVE FALSE
  BY DEF NoFatal
<1>1. Rests(w) \/ Handles(w)
  BY <1>0, WorkerSteps DEF WorkerStep, Leaves, Aside, Busy
<1>2. ASSUME Handles(w) PROVE FALSE
  <2>1. (ExtractStart(w) \/ IndexStart(w)) /\ chunk[ChunkOf(job[w])] = "none"
    BY <1>0, <1>2, Arrivals DEF Handles, Arrival, NoFault
  <2>2. pc[w] \in Busy /\ Type(job[w]) \in {"extract", "index"}
    BY <2>1 DEF ExtractStart, IndexStart, In, At, Busy
  <2> QED BY <2>1, <2>2, ChunkJobOf
<1> QED BY <1>1, <1>2 DEF Rests, NoFatal

LEMMA StepDyingFails ==
  ASSUME OrderInv, Owned, FailedForGood, NoFatal, DyingFails, NoFault, Next
  PROVE  DyingFails'
<1>0. Typed /\ chunk \in [Chunks -> ChunkStatus] /\ MaxAttempts \in Nat /\ seen \in [Workers -> Nat]
  BY PipelineConstants DEF OrderInv, Typed, TypeOK
<1> SUFFICES ASSUME NEW c \in Chunks, NEW j \in {Extract(c), Index(c)}, Dying(j)'
             PROVE  chunk'[c] = "failed"
  BY DEF DyingFails
<1>1. j \in Jobs /\ ChunkOf(j) = c /\ Type(j) \in {"extract", "index"}
  BY JobParts
<1>2. CASE Dying(j)
  <2>1. chunk[c] = "failed"
    BY <1>2 DEF DyingFails
  <2> QED BY <2>1, FailedStays DEF NoFault
<1>3. ASSUME jobs'[j].status = "dead" PROVE Dying(j)
  <2>1. ASSUME NEW w \in Workers, Fail(w), job[w] = j,
               jobs'[j].status = IF pc[w] = "error" /\ seen[w] < MaxAttempts THEN "queued" ELSE "dead"
        PROVE  Dying(j)
    <3>1. pc[w] = "error"
      BY <2>1 DEF Fail, At, NoFatal
    <3>2. ~(seen[w] < MaxAttempts)
      BY <1>3, <2>1, <3>1
    <3> QED BY <1>0, <2>1, <3>1, <3>2 DEF Dying
  <2> QED BY <1>0, <1>1, <1>3, <2>1, RowWrites DEF RowWrite, NoFault, Dying
<1>4. ASSUME NEW w \in Workers, pc'[w] \in {"verdict", "error"}, job'[w] = j,
             seen'[w] >= MaxAttempts
      PROVE  Dying(j) \/ chunk'[c] = "failed"
  <2>1. Rests(w) \/ Handles(w)
    BY <1>0, <1>4, WorkerSteps DEF WorkerStep, Leaves, Aside, Busy
  <2>2. CASE Rests(w)
    BY <1>4, <2>2 DEF Rests, Dying
  <2>3. CASE Handles(w)
    <3>1. seen[w] >= MaxAttempts /\ job[w] = j /\ pc[w] \in Busy
      BY <1>4, <2>3 DEF Handles
    <3>2. LastAttempt(w)
      BY <3>1 DEF LastAttempt
    <3>3. ~ProbeRaises(w) /\ ~(IndexStart(w) /\ ChunkOf(job[w]) \notin extracted)
      BY <1>1, <3>1, IndexOfExtracted DEF ProbeRaises, IndexStart, In
    <3>4. RecordVerdict(w) \/ RecordChunkError(w)
      BY <1>0, <1>4, <2>3, <3>2, <3>3, Arrivals DEF Handles, Arrival, NoFault
    <3>5. CASE RecordVerdict(w)
      BY <3>1, <3>5 DEF RecordVerdict, At, Dying
    <3>6. CASE RecordChunkError(w)
      BY <1>0, <1>1, <3>1, <3>2, <3>6 DEF RecordChunkError, SetChunk
    <3> QED BY <3>4, <3>5, <3>6
  <2> QED BY <2>1, <2>2, <2>3
<1> QED BY <1>2, <1>3, <1>4 DEF Dying

LEMMA StepProbeTries ==
  ASSUME OrderInv, Owned, SeenIsAttempts, NoFatal, ProbeTries, NoFault, OnlyErrors, Next
  PROVE  ProbeTries'
<1>0. Typed /\ Probes \subseteq Jobs /\ "probeError" \in Kinds /\ MaxAttempts \in Nat
  BY PipelineConstants DEF OrderInv, Jobs, Kinds
<1> DEFINE e  == used["probeError"]
           ee == used'["probeError"]
<1>1. e \in Nat /\ ee \in Nat /\ e <= ee
  BY <1>0, UsedGrows
<1>2. e < MaxAttempts
  BY DEF OnlyErrors
<1> HIDE DEF e, ee
<1>3. ASSUME NEW p \in Probes
      PROVE  /\ p # <<"probe", 0>> => jobs'[p].status = "none"
             /\ jobs'[p].status # "dead"
             /\ jobs'[p].status = "queued" => jobs'[p].attempts <= ee
             /\ jobs'[p].status = "running" => jobs'[p].attempts <= ee + 1
  <2>1. p \in Jobs /\ Type(p) = "probe" /\ jobs[p].attempts \in Nat
    BY <1>0 DEF Probes, Type, Typed, TypeOK, Row
  <2>2. /\ p # <<"probe", 0>> => jobs[p].status = "none"
        /\ jobs[p].status # "dead"
        /\ jobs[p].status = "queued" => jobs[p].attempts <= e
        /\ jobs[p].status = "running" => jobs[p].attempts <= e + 1
    BY DEF ProbeTries, e
  <2>3. ASSUME p # <<"probe", 0>> PROVE jobs'[p].status = "none"
    <3>1. ~Enqueuer(p)
      BY <2>1, <2>3 DEF Enqueuer, NoFault, Type, Index
    <3> QED BY <2>1, <2>2, <2>3, <3>1, NewRows
  <2>4. CASE jobs'[p].status = jobs[p].status /\ jobs'[p].attempts = jobs[p].attempts
    BY <1>1, <2>1, <2>2, <2>3, <2>4
  <2>5. CASE jobs'[p].status = "queued" /\ jobs'[p].attempts = 0
    BY <1>1, <2>3, <2>5
  <2>6. ASSUME NEW w \in Workers, LeaseOf(w, p),
               jobs'[p].status = "running", jobs'[p].attempts = jobs[p].attempts + 1
        PROVE  jobs'[p].attempts <= ee + 1
    BY <1>1, <2>1, <2>2, <2>6 DEF LeaseOf
  <2>7. CASE jobs'[p].status = "succeeded"
    BY <2>3, <2>7
  <2>8. ASSUME NEW w \in Workers, Fail(w), job[w] = p,
               jobs'[p].status = IF pc[w] = "error" /\ seen[w] < MaxAttempts THEN "queued" ELSE "dead",
               jobs'[p].attempts = jobs[p].attempts
        PROVE  jobs'[p].status = "queued" /\ jobs'[p].attempts <= ee
    <3>1. pc[w] = "error" /\ pc[w] \in Busy
      BY <2>8 DEF Fail, At, NoFatal, Busy
    <3>2. seen[w] <= e /\ jobs[p].attempts = seen[w] /\ seen[w] \in Nat
      BY <1>0, <2>1, <2>8, <3>1 DEF ProbeTries, SeenIsAttempts, Typed, TypeOK, e
    <3>3. seen[w] < MaxAttempts
      BY <1>0, <1>1, <1>2, <3>2
    <3> QED BY <1>1, <2>8, <3>1, <3>2, <3>3
  <2>9. ~RetryVideo /\ \A w \in Workers : ~Reap(w)
    BY DEF NoFault
  <2> QED BY <1>0, <2>1, <2>3, <2>4, <2>5, <2>6, <2>7, <2>8, <2>9, RowWrites DEF RowWrite
<1>4. ASSUME NEW w \in Workers, pc'[w] = "error", Type(job'[w]) = "probe"
      PROVE  seen'[w] <= ee
  <2>1. Rests(w) \/ Handles(w)
    BY <1>0, <1>4, WorkerSteps DEF WorkerStep, Leaves, Aside, Busy
  <2>2. CASE Rests(w)
    <3>1. seen'[w] = seen[w] /\ seen[w] \in Nat /\ seen[w] <= e
      BY <1>0, <1>4, <2>2 DEF Rests, ProbeTries, Typed, TypeOK, e
    <3> QED BY <1>1, <3>1
  <2>3. CASE Handles(w)
    <3>1. Type(job[w]) = "probe" /\ pc[w] \in Busy /\ job[w] \in Jobs
      BY <1>0, <1>4, <2>3, WorkerChunk DEF Handles
    <3>2. ~IndexStart(w) /\ ~RecordVerdict(w) /\ ~RecordChunkError(w)
      BY <1>0, <3>1, WorkerChunk DEF IndexStart, RecordVerdict, RecordChunkError, In, At
    <3>3. ProbeRaises(w)
      BY <1>0, <1>4, <2>3, <3>2, Arrivals DEF Handles, Arrival, NoFault
    <3>4. Spend("probeError")
      BY <3>3 DEF ProbeRaises, NoFault
    <3>5. ee = e + 1
      BY <1>0, <3>4, SpendCounts DEF e, ee
    <3>6. job[w] \in Probes
      BY <3>1, JobParts DEF Jobs
    <3>7. jobs[job[w]].attempts <= e + 1 /\ seen[w] = jobs[job[w]].attempts
      BY <3>1, <3>6 DEF ProbeTries, Owned, SeenIsAttempts, e
    <3> QED BY <2>3, <3>5, <3>7 DEF Handles
  <2> QED BY <2>1, <2>2, <2>3
<1> QED BY <1>3, <1>4 DEF ProbeTries, ee

LEMMA StepProbeMakesChunks ==
  ASSUME OrderInv, ChunkRowsFirst, Owned, ProbeTries, ProbeMakesChunks, YoungInv, NoFatal,
         NoFault, Next, PatientUser'
  PROVE  ProbeMakesChunks'
<1>0. Typed /\ Probes \subseteq Jobs
  BY DEF OrderInv, Jobs
<1> SUFFICES ASSUME NEW p \in Probes, AtHand(p)'
             PROVE  \A c \in Chunks : chunk'[c] = "none"
  BY DEF ProbeMakesChunks
<1>1. p \in Jobs /\ Type(p) = "probe"
  BY <1>0 DEF Probes, Type
<1>2. ASSUME NEW w \in Workers, pc'[w] \in {"start", "work", "error"}, job'[w] = p
      PROVE  AtHand(p)
  <2>1. Rests(w) \/ Handles(w) \/ Lease(w)
    BY <1>0, <1>2, WorkerSteps DEF WorkerStep, Leaves, Aside, Busy
  <2>2. CASE Rests(w)
    BY <1>2, <2>2 DEF Rests, AtHand
  <2>3. CASE Lease(w)
    <3>1. PICK j : LeaseOf(w, j)
      BY <2>3, LeaseParts
    <3>2. j = p /\ jobs[p].status = "queued"
      BY <1>0, <1>2, <3>1 DEF LeaseOf, Typed, TypeOK
    <3> QED BY <3>2 DEF AtHand
  <2>4. CASE Handles(w)
    <3>1. Type(job[w]) = "probe" /\ pc[w] \in Busy /\ job[w] = p
      BY <1>1, <1>2, <2>4 DEF Handles
    <3>2. ~IndexStart(w) /\ ~ExtractStart(w) /\ ~RecordVerdict(w) /\ ~RecordChunkError(w)
      BY <1>0, <3>1, WorkerChunk DEF IndexStart, ExtractStart, RecordVerdict, RecordChunkError, In, At
    <3>3. ProbeStart(w) \/ ProbeRaises(w)
      BY <1>0, <1>2, <2>4, <3>2, Arrivals DEF Handles, Arrival, NoFault
    <3>4. pc[w] \in {"start", "work"}
      BY <3>3 DEF ProbeStart, ProbeRaises, In, At
    <3> QED BY <3>1, <3>4 DEF AtHand
  <2> QED BY <2>1, <2>2, <2>3, <2>4
<1>3. ASSUME jobs'[p].status = "queued" PROVE AtHand(p) \/ CompleteUpload
  <2>1. ASSUME NEW w \in Workers, Fail(w), job[w] = p PROVE AtHand(p)
    BY <2>1 DEF Fail, At, NoFatal, AtHand
  <2>2. Enqueuer(p) => CompleteUpload
    BY <1>1 DEF Enqueuer, NoFault, Type, Index
  <2> QED BY <1>1, <1>0, <1>3, <2>1, <2>2, RowWrites DEF RowWrite, NoFault, AtHand
<1>4. CASE CompleteUpload
  <2>1. used["upload"] = 0
    BY <1>0, <1>4, PatientBefore
  <2>2. \A c \in Chunks : chunk[c] = "none"
    BY <2>1 DEF YoungInv, Young
  <2> QED BY <1>4, <2>2 DEF CompleteUpload
<1>5. CASE AtHand(p)
  <2>1. \A c \in Chunks : chunk[c] = "none"
    BY <1>5 DEF ProbeMakesChunks
  <2>2. ASSUME NEW u \in Workers, ProbeWork(u) PROVE FALSE
    <3>1. /\ pc[u] \in Busy /\ Type(job[u]) = "probe" /\ pc[u] = "work" /\ pc'[u] = "enqueue"
          /\ UNCHANGED <<jobs, job>>
      BY <1>0, <2>2 DEF ProbeWork, In, At, Busy, Goto, Typed, TypeOK
    <3>2. job[u] \in Probes /\ jobs[job[u]].status = "running"
      BY <1>0, <3>1, WorkerChunk, JobParts DEF Owned, Jobs
    <3>3. job[u] = <<"probe", 0>>
      BY <3>2 DEF ProbeTries
    <3>4. jobs[p].status # "none"
      BY <1>5 DEF AtHand, Owned, Busy
    <3>5. p = job[u]
      BY <3>3, <3>4 DEF ProbeTries
    <3>6. jobs'[p].status # "queued"
      BY <3>1, <3>2, <3>5
    <3>7. PICK w \in Workers : pc'[w] \in {"start", "work", "error"} /\ job[w] = p
      BY <3>1, <3>6 DEF AtHand
    <3>8. u # w /\ pc[w] = pc'[w]
      BY <1>0, <2>2, <3>1, <3>7 DEF ProbeWork, Goto, Typed, TypeOK
    <3> QED BY <3>1, <3>5, <3>7, <3>8, OneRunner DEF Busy
  <2> QED BY <2>1, <2>2, NoneSteps
<1> QED BY <1>2, <1>3, <1>4, <1>5 DEF AtHand

(* Somebody who finds all chunks terminal settles the video. *)
LEMMA StepDeclared ==
  ASSUME OrderInv, ProbeMakesChunks, Declared, YoungInv, NoFault, Next, PatientUser'
  PROVE  Declared'
<1>0. /\ Typed /\ chunk \in [Chunks -> ChunkStatus] /\ pc \in [Workers -> Places]
      /\ saw \in [Workers -> VideoStatus \cup {"unread"}]
  BY DEF OrderInv, Typed, TypeOK
<1> DEFINE Open == video \notin {"ready", "failed"}
           Soon(w) == pc[w] \in {"finalize", "verdict"} /\ saw[w] \notin {"ready", "failed"}
<1> SUFFICES ASSUME AllTerminal'
             PROVE  video' \in {"ready", "failed"} \/ \E w \in Workers : Soon(w)'
  BY DEF Declared
<1>1. ASSUME UNCHANGED chunk, \A c \in Chunks : chunk[c] = "none" PROVE FALSE
  <2>1. 0 \in Chunks
    BY PipelineConstants DEF Chunks
  <2> QED BY <1>1, <2>1 DEF AllTerminal
<1>2. ~CompleteUpload
  <2>1. ASSUME CompleteUpload PROVE FALSE
    <3>1. used["upload"] = 0
      BY <1>0, <2>1, PatientBefore
    <3>2. \A c \in Chunks : chunk[c] = "none"
      BY <3>1 DEF YoungInv, Young
    <3> QED BY <1>1, <2>1, <3>2 DEF CompleteUpload
  <2> QED BY <2>1
<1>3. ASSUME NEW w \in Workers, ProbeStart(w) PROVE FALSE
  <2>1. pc[w] = "start" /\ pc[w] \in Busy /\ Type(job[w]) = "probe" /\ UNCHANGED chunk
    BY <1>3 DEF ProbeStart, In, At, Busy
  <2>2. job[w] \in Probes
    BY <1>0, <2>1, WorkerChunk, JobParts DEF Jobs
  <2>3. \A c \in Chunks : chunk[c] = "none"
    BY <2>1, <2>2 DEF ProbeMakesChunks, AtHand
  <2> QED BY <1>1, <2>1, <2>3
<1>4. ASSUME NEW w \in Workers, Settles(w) PROVE video' \in {"ready", "failed"}
  BY <1>4 DEF Settles, Verdict
<1>5. CASE UNCHANGED video /\ Open
  <2>1. ASSUME AllTerminal PROVE video' \in {"ready", "failed"} \/ \E w \in Workers : Soon(w)'
    <3>1. PICK w \in Workers : Soon(w)
      BY <1>5, <2>1 DEF Declared
    <3>2. CASE Rests(w)
      BY <3>1, <3>2 DEF Rests
    <3>3. CASE Handles(w)
      <4>1. IndexFinalize(w) \/ RecordVerdict(w)
        BY <3>1, <3>3, Departures DEF Handles, NoFault
      <4>2. FinalizeIfComplete(saw[w])
        BY <4>1 DEF IndexFinalize, RecordVerdict
      <4> QED BY <2>1, <3>1, <4>2 DEF FinalizeIfComplete, Verdict
    <3>4. ~Lease(w) /\ ~Leaves(w) /\ ~Aside(w)
      BY <3>1 DEF Lease, Leaves, Aside, Complete, Fail, NoFault, At, Busy
    <3> QED BY <1>0, <3>2, <3>3, <3>4, WorkerSteps DEF WorkerStep
  <2>2. ASSUME NEW c \in Chunks, chunk[c] \notin {"done", "failed"}
        PROVE  \E w \in Workers : Soon(w)'
    <3>1. chunk'[c] \in {"done", "failed"}
      BY DEF AllTerminal
    <3>2. PICK w \in Workers : IndexWork(w) \/ (RecordChunkError(w) /\ LastAttempt(w))
      BY <1>0, <2>2, <3>1, ChunkWrites DEF ChunkWrite, NoFault
    <3>3. pc'[w] \in {"finalize", "verdict"} /\ saw'[w] = video
      BY <1>0, <3>2 DEF IndexWork, RecordChunkError, Goto
    <3> QED BY <1>5, <3>3
  <2> QED BY <2>1, <2>2 DEF AllTerminal
<1> QED BY <1>2, <1>3, <1>4, <1>5, VideoWrites DEF VideoWrite, NoFault

SettleHolds == OnlyErrors => SettleInv

LEMMA SettleAlways == Spec => []SettleHolds
<1>1. Init => SettleHolds
  <2>1. 0 \in Chunks
    BY PipelineConstants DEF Chunks
  <2> QED BY <2>1, JobParts
          DEF Init, SettleHolds, SettleInv, NoFatal, DyingFails, ProbeTries, ProbeMakesChunks,
              Declared, Dying, AllTerminal, NoRow, Jobs, Kinds
<1>2. ASSUME OrderInv, FirstInv, HeldInv, CalmHolds, YoungHolds, SettleHolds, Next
      PROVE  SettleHolds'
  <2> SUFFICES ASSUME OnlyErrors' PROVE SettleInv'
    BY DEF SettleHolds
  <2>0. Typed
    BY <1>2 DEF OrderInv
  <2>1. /\ OnlyErrors /\ NoDeath /\ NoDeath' /\ Orderly /\ Orderly'
        /\ PatientUser /\ PatientUser'
        /\ \A k \in {"crash", "stall", "dbError", "retry", "untimely", "corrupt"} : ~Spend(k)
    BY <1>2, <2>0, OnlyErrorsBefore
  <2>2. /\ SettleInv /\ CalmInv /\ YoungInv /\ Owned /\ SeenIsAttempts
        /\ ChunkRowsFirst
    BY <1>2, <2>1 DEF SettleHolds, CalmHolds, YoungHolds, HeldInv, Orderly, FirstInv
  <2>3. NobodyDies
    BY <2>1 DEF NobodyDies, Crash
  <2>4. NoFault
    <3>1. \A w \in Workers : ~Reap(w) /\ ~Bury(w) /\ ~Buried(w)
      BY <1>2, <2>0, <2>2, <2>3, StepInHands DEF CalmInv
    <3>2. ~RetryVideo /\ \A w \in Workers : ~TransactionFails(w)
      BY <2>1 DEF RetryVideo, TransactionFails
    <3> QED BY <2>1, <2>3, <3>1, <3>2 DEF NoFault, NobodyDies
  <2>5. NoFatal' /\ DyingFails'
    BY <1>2, <2>2, <2>4, StepNoFatal, StepDyingFails DEF SettleInv, CalmInv
  <2>6. ProbeTries' /\ ProbeMakesChunks'
    BY <1>2, <2>1, <2>2, <2>4, StepProbeTries, StepProbeMakesChunks DEF SettleInv
  <2>7. Declared'
    BY <1>2, <2>1, <2>2, <2>4, StepDeclared DEF SettleInv
  <2> QED BY <2>5, <2>6, <2>7 DEF SettleInv
<1>3. SettleHolds /\ UNCHANGED vars => SettleHolds'
  BY DEF SettleHolds, OnlyErrors, SettleInv, NoFatal, DyingFails, ProbeTries, ProbeMakesChunks,
     AtHand, Declared, AllTerminal, Dying, vars, videoVars, workerVars
<1>4. OrderInv /\ FirstInv /\ HeldInv /\ CalmHolds /\ YoungHolds /\ SettleHolds /\ [Next]_vars
        => SettleHolds'
  BY <1>2, <1>3
<1> QED BY <1>1, <1>4, OrderHolds, FirstHolds, HeldHolds, CalmAlways, YoungAlways, PTL DEF Spec

(* When the work is over the video says so, however many errors the work   *)
(* on its chunks raised and in whichever order the workers finished, for   *)
(* a video uploaded once whose probe was not given up on.                  *)
THEOREM QuietMeansSettled == Spec => [](OnlyErrors => QuietIsSettled)
<1>1. ASSUME FirstInv, StageHolds, SettleHolds, OnlyErrors PROVE QuietIsSettled
  <2> SUFFICES ASSUME Quiet, video \in {"uploaded", "processing"} PROVE FALSE
    BY DEF QuietIsSettled
  <2>1. SettleInv /\ StageInv /\ Retries = 0
    BY <1>1 DEF SettleHolds, StageHolds, OnlyErrors, Orderly, Retries
  <2>2. PICK p \in Probes : jobs[p].status # "none"
    BY <1>1, <2>1 DEF FirstInv, ProbeRowFirst
  <2>3. p \in Jobs /\ \A c \in Chunks : Extract(c) \in Jobs /\ Index(c) \in Jobs
    BY JobParts DEF Jobs
  <2>4. \A j \in Jobs : jobs[j].status \in {"none", "succeeded", "dead"}
    BY DEF Quiet, Settled
  <2>5. jobs[p].status = "succeeded"
    BY <2>1, <2>2, <2>3, <2>4 DEF SettleInv, ProbeTries
  <2>6. (\A c \in Chunks : jobs[Extract(c)].status # "none") \/ AllIndexed
    BY <2>1, <2>5 DEF StageInv, ProbeHandsOn, Ended
  <2>7. ASSUME NEW c \in Chunks PROVE chunk[c] \in {"done", "failed"}
    <3>1. jobs[Extract(c)].status = "dead" \/ jobs[Index(c)].status = "dead" => chunk[c] = "failed"
      BY <2>1 DEF SettleInv, DyingFails, Dying
    <3>2. jobs[Extract(c)].status = "succeeded" => jobs[Index(c)].status # "none" \/ chunk[c] = "done"
      BY <2>1 DEF StageInv, ExtractHandsOn, Ended
    <3>3. jobs[Index(c)].status = "succeeded" => chunk[c] = "done"
      BY <2>1 DEF StageInv, IndexEnds, Ended
    <3> QED BY <2>3, <2>4, <2>6, <3>1, <3>2, <3>3 DEF AllIndexed
  <2>8. AllTerminal
    BY <2>7 DEF AllTerminal
  <2> QED BY <2>1, <2>8 DEF SettleInv, Declared, Quiet
<1>2. FirstInv /\ StageHolds /\ SettleHolds => (OnlyErrors => QuietIsSettled)
  BY <1>1
<1> QED BY <1>2, FirstHolds, StageAlways, SettleAlways, PTL

-----------------------------------------------------------------------------
(* What a user sees of a video that is uploaded once, step by step, without *)
(* frozen processes and failing transactions.                              *)
Searchable == {c \in Chunks : chunk[c] = "done"}

LifeMove ==
  \/ UNCHANGED <<video, Searchable>>
  \/ video = "uploading" /\ video' = "uploaded" /\ UNCHANGED Searchable
  \/ video \in {"uploaded", "failed"} /\ video' = "processing" /\ UNCHANGED Searchable
  \/ /\ video \in {"processing", "failed"} /\ Searchable = Chunks
     /\ video' = "ready" /\ UNCHANGED Searchable
  \/ video = "processing" /\ Searchable # Chunks /\ video' = "failed" /\ UNCHANGED Searchable
  \/ /\ video \in {"processing", "failed"} /\ UNCHANGED video
     /\ \E c \in Chunks : c \notin Searchable /\ Searchable' = Searchable \cup {c}

LEMMA LifeMoves ==
  ASSUME SafeInv, OrderInv', YoungHolds, Next, Orderly', PatientUser'
  PROVE  LifeMove
<1>0. /\ OrderInv /\ Typed /\ video \in VideoStatus
      /\ chunk \in [Chunks -> ChunkStatus] /\ chunk' \in [Chunks -> ChunkStatus]
  BY DEF SafeInv, OrderInv, Typed, TypeOK
<1>1. /\ YoungInv /\ ReadyInv
      /\ CompleteUpload => used["upload"] = 0
      /\ RetryVideo => RetryOffered
  BY <1>0, PatientBefore, OrderlySteps DEF YoungHolds, SafeInv
<1>2. \A c \in Chunks : chunk[c] = "done" => chunk'[c] = "done"
  BY StepSafe
<1>3. ASSUME UNCHANGED chunk PROVE UNCHANGED Searchable
  BY <1>3 DEF Searchable
<1>4. CASE UNCHANGED video
  <2>1. CASE \A c \in Chunks : chunk'[c] = "done" => chunk[c] = "done"
    <3>1. Searchable' = Searchable
      BY <1>2, <2>1 DEF Searchable
    <3> QED BY <1>4, <3>1 DEF LifeMove
  <2>2. ASSUME NEW c \in Chunks, chunk'[c] = "done", chunk[c] # "done" PROVE LifeMove
    <3>1. PICK w \in Workers : IndexWork(w) /\ ChunkOf(job[w]) = c
      BY <1>0, <2>2, ChunkWrites DEF ChunkWrite
    <3>2. chunk' = [chunk EXCEPT ![c] = "done"]
      BY <3>1 DEF IndexWork, SetChunk
    <3>3. Searchable' = Searchable \cup {c} /\ c \notin Searchable
      BY <1>0, <2>2, <3>2 DEF Searchable
    <3>4. pc[w] \in Busy /\ Type(job[w]) = "index"
      BY <3>1 DEF IndexWork, In, At, Busy
    <3>5. jobs[Index(c)].status # "none"
      BY <1>0, <3>1, <3>4, IndexOfExtracted DEF OrderInv, RowsExist
    <3>6. ~Young /\ video # "ready"
      BY <1>1, <2>2, <3>5 DEF YoungInv, ReadyInv, AllIndexed
    <3>7. video \in {"processing", "failed"}
      BY <1>0, <3>6 DEF Young, VideoStatus
    <3> QED BY <1>4, <3>3, <3>7 DEF LifeMove
  <2> QED BY <2>1, <2>2
<1>5. CASE CompleteUpload
  BY <1>1, <1>3, <1>5 DEF CompleteUpload, YoungInv, LifeMove
<1>6. CASE RetryVideo
  <2>1. Searchable' = Searchable
    BY <1>0, <1>6 DEF RetryVideo, Searchable
  <2>2. video # "ready" /\ ~Young
    BY <1>1, <1>6 DEF RetryOffered, ReadyInv, AllIndexed, YoungInv, Young
  <2>3. video \in {"processing", "failed"} /\ video' = "processing"
    BY <1>0, <1>6, <2>2 DEF RetryVideo, Young, VideoStatus
  <2> QED BY <2>1, <2>3 DEF LifeMove
<1>7. ASSUME NEW w \in Workers, ProbeStart(w), video # "ready", video' = "processing"
      PROVE  LifeMove
  <2>1. pc[w] \in Busy /\ UNCHANGED chunk
    BY <1>7 DEF ProbeStart, In, At, Busy
  <2>2. video # "uploading"
    BY <1>0, <1>1, <2>1, NobodyAtWork DEF YoungInv
  <2>3. video \in {"uploaded", "processing", "failed"}
    BY <1>0, <1>7, <2>2 DEF VideoStatus
  <2> QED BY <1>3, <1>7, <2>1, <2>3 DEF LifeMove
<1>8. ASSUME NEW w \in Workers, Settles(w) PROVE LifeMove
  <2>1. UNCHANGED Searchable /\ AllTerminal /\ video' = Verdict
    BY <1>3, <1>8 DEF Settles
  <2>2. ~Young
    BY <1>1, <1>8, NothingToSettle DEF YoungInv
  <2>3. video \in {"processing", "ready", "failed"}
    BY <1>0, <2>2 DEF Young, VideoStatus
  <2>4. CASE \E c \in Chunks : chunk[c] = "failed"
    <3>1. video' = "failed"
      BY <2>1, <2>4 DEF Verdict
    <3>2. Searchable # Chunks /\ video # "ready"
      BY <1>1, <2>4 DEF Searchable, ReadyInv, AllIndexed
    <3> QED BY <2>1, <2>3, <3>1, <3>2 DEF LifeMove
  <2>5. CASE ~(\E c \in Chunks : chunk[c] = "failed")
    <3>1. video' = "ready"
      BY <2>1, <2>5 DEF Verdict
    <3>2. Searchable = Chunks
      BY <2>1, <2>5 DEF Searchable, AllTerminal
    <3> QED BY <2>1, <2>3, <3>1, <3>2 DEF LifeMove
  <2> QED BY <2>4, <2>5
<1> QED BY <1>4, <1>5, <1>6, <1>7, <1>8, VideoWrites DEF VideoWrite

(* The same in the words of VideoLife *)
LEMMA LifeOf ==
  /\ Init => Life!Init
  /\ LifeMove => Life!Next \/ UNCHANGED Life!vars
<1>1. Init => Life!Init
  BY DEF Init, Life!Init
<1>2. ASSUME UNCHANGED <<video, Searchable>> PROVE UNCHANGED Life!vars
  BY <1>2 DEF Life!vars, Searchable
<1>3. ASSUME video = "uploading", video' = "uploaded", UNCHANGED Searchable PROVE Life!Submit
  BY <1>3 DEF Life!Submit, Searchable
<1>4. ASSUME video \in {"uploaded", "failed"}, video' = "processing", UNCHANGED Searchable
      PROVE  Life!TakeUp
  BY <1>4 DEF Life!TakeUp, Searchable
<1>5. ASSUME video \in {"processing", "failed"}, Searchable = Chunks,
             video' = "ready", UNCHANGED Searchable
      PROVE  Life!DeclareReady
  BY <1>5 DEF Life!DeclareReady, Searchable
<1>6. ASSUME video = "processing", Searchable # Chunks, video' = "failed", UNCHANGED Searchable
      PROVE  Life!DeclareFailed
  BY <1>6 DEF Life!DeclareFailed, Searchable
<1>7. ASSUME video \in {"processing", "failed"}, UNCHANGED video, NEW c \in Chunks,
             c \notin Searchable, Searchable' = Searchable \cup {c}
      PROVE  Life!Publish(c)
  BY <1>7 DEF Life!Publish, Searchable
<1> QED BY <1>1, <1>2, <1>3, <1>4, <1>5, <1>6, <1>7 DEF LifeMove, Life!Next

LEMMA LifeStutters == UNCHANGED vars => UNCHANGED Life!vars
  BY DEF vars, videoVars, Life!vars

(* Every step of the pipeline is a step of VideoLife, or none that a user  *)
(* sees, through crashes, errors and the retries the page offers, until    *)
(* the first frozen process, failing transaction, second upload or retry   *)
(* at another time.                                                        *)
THEOREM VideoLifeUntilTrouble == Spec => LivesAsVideoLife
<1>1. SafeInv /\ OrderInv' /\ YoungHolds /\ [Next]_vars =>
        [Orderly' /\ PatientUser' => Life!Next \/ UNCHANGED Life!vars]_vars
  BY LifeMoves, LifeOf
<1>2. Init => Life!Init
  BY LifeOf
<1> QED BY <1>1, <1>2, SafeHolds, OrderHolds, YoungAlways, PTL DEF Spec, LivesAsVideoLife

(* The bound on the events is never passed. *)
LEMMA UsedWithin == Spec => [](\E b \in Budgets : \A k \in Kinds : used[k] <= b[k])
<1> DEFINE Within == \E b \in Budgets : \A k \in Kinds : used[k] <= b[k]
<1>1. Init => Within
  <2>1. PICK b \in Budgets : b \in [Kinds -> Nat]
    BY PipelineConstants
  <2>2. Init => \A k \in Kinds : used[k] <= b[k]
    BY <2>1 DEF Init
  <2> QED BY <2>1, <2>2
<1>2. ASSUME Typed, Within, Next PROVE Within'
  <2>0. /\ used \in [Kinds -> Nat] /\ Budgets \subseteq [Kinds -> Nat]
        /\ Kinds = {"crash", "stall", "error", "probeError", "corrupt", "dbError", "retry",
            "untimely", "upload"}
    BY <1>2, PipelineConstants DEF Typed, TypeOK, Kinds
  <2>1. ASSUME NEW k \in Kinds, Spend(k) PROVE Within'
    <3>1. PICK b \in Budgets : used[k] < b[k] /\ \A i \in Kinds : used[i] <= b[i]
      BY <2>1 DEF Spend
    <3>2. ASSUME NEW i \in Kinds PROVE used'[i] <= b[i]
      <4>1. used[i] \in Nat /\ b[i] \in Nat /\ used'[i] = IF i = k THEN used[i] + 1 ELSE used[i]
        BY <2>0, <2>1 DEF Spend
      <4> QED BY <3>1, <4>1
    <3> QED BY <3>2
  <2>2. ASSUME UNCHANGED used PROVE Within'
    BY <1>2, <2>2
  <2> QED BY <1>2, <2>1, <2>2, SpendOrNot
<1>3. Within /\ UNCHANGED vars => Within'
  BY DEF vars
<1>4. Typed /\ Within /\ [Next]_vars => Within'
  BY <1>2, <1>3
<1> HIDE DEF Within
<1>5. Spec => []Within
  BY <1>1, <1>4, TypedHolds, PTL DEF Spec
<1> QED BY <1>5 DEF Within

(* The pipeline implements VideoLife if the page is all that calls retry   *)
(* and complete, and nothing freezes and no transaction fails.             *)
THEOREM PipelineImplementsVideoLife ==
  ASSUME \A b \in Budgets : /\ b["stall"] = 0 /\ b["dbError"] = 0
                             /\ b["untimely"] = 0 /\ b["upload"] <= 1
  PROVE  Spec => ImplementsVideoLife
<1> DEFINE Within == \E b \in Budgets : \A k \in Kinds : used[k] <= b[k]
<1>1. Typed /\ Within => Orderly /\ PatientUser
  <2> SUFFICES ASSUME Typed, NEW b \in Budgets, \A k \in Kinds : used[k] <= b[k]
               PROVE  Orderly /\ PatientUser
    OBVIOUS
  <2>1. used["stall"] = 0 /\ used["dbError"] = 0 /\ used["untimely"] = 0 /\ used["upload"] <= 1
    <3>1. /\ used["stall"] <= b["stall"] /\ used["dbError"] <= b["dbError"]
          /\ used["untimely"] <= b["untimely"] /\ used["upload"] <= b["upload"]
      BY DEF Kinds
    <3>2. /\ used["stall"] \in Nat /\ used["dbError"] \in Nat /\ used["upload"] \in Nat
          /\ used["untimely"] \in Nat /\ b["upload"] \in Nat
      BY PipelineConstants DEF Typed, TypeOK, Kinds
    <3>3. b["stall"] = 0 /\ b["dbError"] = 0 /\ b["untimely"] = 0 /\ b["upload"] <= 1
      OBVIOUS
    <3> QED BY <3>1, <3>2, <3>3
  <2> QED BY <2>1 DEF Orderly, PatientUser
<1>2. (Typed /\ Within)' => Orderly' /\ PatientUser'
  BY <1>1, PTL
<1>3. /\ (Typed /\ Within)'
      /\ [Orderly' /\ PatientUser' => Life!Next \/ UNCHANGED Life!vars]_vars
      => [Life!Next]_(Life!vars)
  BY <1>2, LifeStutters
<1> QED
  BY <1>3, TypedHolds, UsedWithin, VideoLifeUntilTrouble, PTL
     DEF ImplementsVideoLife, LivesAsVideoLife, Life!Spec
=============================================================================
