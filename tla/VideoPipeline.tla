--------------------------- MODULE VideoPipeline ---------------------------
(***************************************************************************)
(* One uploaded video on its way from the upload to `ready`: the API calls *)
(* of api/routers/videos.py, the job handlers probe_video, extract_chunk   *)
(* and index_chunk, the bookkeeping that decides when the video is done    *)
(* (pipeline/index.py), and the workers and reaper that run all that.      *)
(*                                                                         *)
(* One action is one committed transaction or the external work between    *)
(* two.  A transaction is atomic here, but what a handler read in one and  *)
(* uses in the next is kept: the sessions of JobContext do not expire on   *)
(* commit, so `saw` is the video status a worker loaded earlier.           *)
(*                                                                         *)
(* Abstractions: rows of segments, frames and utterances, stored objects   *)
(* and stage labels are left out; build_timeline and encode_temporal jobs  *)
(* are only recorded as enqueued; an orphaned row may be reaped at once    *)
(* (JobQueue has the clocks); the lease is atomic, because no job of an    *)
(* upload of at most 100 chunks is subject to the offline budget.          *)
(***************************************************************************)
EXTENDS Integers, FiniteSets, PriorityBands

CONSTANTS
  Workers, NoWorker, MaxAttempts,  \* as in JobTable
  Serves,        \* Serves[w]: the job types in the queues of worker w
  NoJob,         \* a worker that runs nothing
  ChunkCount,    \* chunks plan_chunks makes of this video
  Budgets        \* bound: the mixes of events below, how often each may happen

(* What may happen a bounded number of times: a process dies, a process    *)
(* freezes, the work of a chunk raises, the work of a probe raises, media  *)
(* turn out corrupt, a transaction fails, retry is called where the page   *)
(* offers it, or at any other time, and complete is called.                *)
Kinds == {"crash", "stall", "error", "probeError", "corrupt", "dbError",
          "retry", "untimely", "upload"}

Chunks == 0 .. ChunkCount - 1

(* Idempotency keys: probe:{id} is <<"probe", 0>>; retry number n, whose key *)
(* ends in the second it was called at, is <<"probe", n>>                    *)
Probes  == {"probe"} \X UNION {0 .. b["retry"] + b["untimely"] : b \in Budgets}
Extract(c) == <<"extract", c>>
Index(c)   == <<"index", c>>
Jobs    == Probes \cup {Extract(c) : c \in Chunks} \cup {Index(c) : c \in Chunks}

Type(j) == j[1]
ChunkOf(j) == j[2]

Priority == [j \in Jobs |-> IF Type(j) = "probe" THEN probe_priority(INTERACTIVE)
                            ELSE chunk_priority(INTERACTIVE, ChunkOf(j))]

OfflineBudget == 0

INSTANCE JobTable

ASSUME PipelineConstants ==
  /\ IsFiniteSet(Workers) /\ NoWorker \notin Workers /\ MaxAttempts \in Nat \ {0}
  /\ ChunkCount \in Nat \ {0}
  /\ Serves \in [Workers -> SUBSET {"probe", "extract", "index"}]
  /\ Budgets # {} /\ Budgets \subseteq [Kinds -> Nat]
  /\ NoJob \notin Jobs

VARIABLES
  jobs,       \* the jobs table: Jobs -> Row
  video,      \* videos.status
  chunk,      \* video_chunks.status, "none" before the rows exist
  extracted,  \* the chunks with extracted_at set
  temporal,   \* the chunks whose encode_temporal job was enqueued
  timelines,  \* build_timeline jobs enqueued
  pc, job, seen, saw, doomed,  \* each worker, see below
  frozen,     \* the workers that are frozen
  used        \* how often each kind of event has happened

videoVars  == <<video, chunk, extracted, temporal, timelines>>
workerVars == <<pc, job, seen, saw, doomed>>
vars == <<jobs, videoVars, workerVars, frozen, used>>

VideoStatus == {"uploading", "uploaded", "processing", "ready", "failed"}
ChunkStatus == {"none", "pending", "running", "done", "failed"}

(***************************************************************************)
(* A worker is at the top of its loop ("idle"), at the first transaction   *)
(* of a handler ("start"), in its external work, up to and including the   *)
(* transaction that stores the result ("work"), at the transaction that    *)
(* enqueues what follows ("enqueue") or settles the video ("finalize"), at *)
(* the two transactions of record_chunk_error ("record", "verdict"), past  *)
(* the handler ("ok", "error", "fatal"), or at the two transactions of     *)
(* fail_dead_chunk_jobs ("bury", "buried") for the jobs in doomed.         *)
(***************************************************************************)
Busy   == {"start", "work", "enqueue", "finalize", "record", "verdict",
           "ok", "error", "fatal"}
Places == {"idle", "bury", "buried"} \cup Busy

TypeOK ==
  /\ jobs \in [Jobs -> Row]
  /\ video \in VideoStatus
  /\ chunk \in [Chunks -> ChunkStatus]
  /\ extracted \subseteq Chunks /\ temporal \subseteq Chunks
  /\ timelines \in Nat
  /\ pc \in [Workers -> Places]
  /\ job \in [Workers -> Jobs \cup {NoJob}]
  /\ seen \in [Workers -> Nat]
  /\ saw \in [Workers -> VideoStatus \cup {"unread"}]
  /\ doomed \in [Workers -> SUBSET Jobs]
  /\ frozen \subseteq Workers
  /\ used \in [Kinds -> Nat]

(* create_video() has returned and the file is in the object store *)
Init ==
  /\ jobs = [j \in Jobs |-> NoRow]
  /\ video = "uploading"
  /\ chunk = [c \in Chunks |-> "none"]
  /\ extracted = {} /\ temporal = {} /\ timelines = 0
  /\ pc = [w \in Workers |-> "idle"]
  /\ job = [w \in Workers |-> NoJob]
  /\ seen = [w \in Workers |-> 0]
  /\ saw = [w \in Workers |-> "unread"]
  /\ doomed = [w \in Workers |-> {}]
  /\ frozen = {}
  /\ used = [k \in Kinds |-> 0]

Spend(k) ==
  /\ \E b \in Budgets : used[k] < b[k] /\ \A i \in Kinds : used[i] <= b[i]
  /\ used' = [used EXCEPT ![k] = @ + 1]
NoSpend  == UNCHANGED used

Goto(w, place) == pc' = [pc EXCEPT ![w] = place]

-----------------------------------------------------------------------------
(* API calls *)

(* complete_upload(): nothing is asked of the status it overwrites *)
CompleteUpload ==
  /\ Spend("upload")
  /\ video' = "uploaded"
  /\ jobs' = [jobs EXCEPT ![<<"probe", 0>>] = Enqueued(@)]
  /\ UNCHANGED <<chunk, extracted, temporal, timelines, workerVars, frozen>>

Retries == used["retry"] + used["untimely"]

(* VideoCard, VideoDetail: where the page shows the Retry button *)
RetryOffered == video = "failed" \/ \E c \in Chunks : chunk[c] = "failed"

(* retry_video(): the dead jobs and the failed chunks start afresh, and a  *)
(* video that never got its chunks is probed once more                     *)
RetryVideo ==
  /\ \/ Spend("retry") /\ RetryOffered
     \/ Spend("untimely")
  /\ LET revived == [j \in Jobs |-> Revived(jobs[j])]
         fresh   == <<"probe", Retries'>>
     IN jobs' = IF chunk[0] = "none" THEN [revived EXCEPT ![fresh] = Enqueued(@)]
                                    ELSE revived
  /\ chunk' = [c \in Chunks |-> IF chunk[c] = "failed" THEN "pending" ELSE chunk[c]]
  /\ video' = "processing"
  /\ UNCHANGED <<extracted, temporal, timelines, workerVars, frozen>>

-----------------------------------------------------------------------------
(* finalize_if_complete(), with the video status the caller's session holds *)

AllDone    == \A c \in Chunks : chunk[c] = "done"        \* mutant: failures not counted
NonePending == \A c \in Chunks : chunk[c] # "pending"    \* mutant: running counted
AllTerminal == \A c \in Chunks : chunk[c] \in {"done", "failed"}

Verdict == IF \E c \in Chunks : chunk[c] = "failed" THEN "failed" ELSE "ready"

FinalizeIfComplete(status) ==
  IF AllTerminal /\ status \notin {"ready", "failed"}
    THEN /\ video' = Verdict
         /\ timelines' = timelines + (IF \E c \in Chunks : chunk[c] = "done" THEN 1 ELSE 0)
    ELSE UNCHANGED <<video, timelines>>

-----------------------------------------------------------------------------
(* The worker around the handler *)

At(w, place) == pc[w] = place /\ w \notin frozen
In(w, place, type) == At(w, place) /\ Type(job[w]) = type

Served(w) == {j \in Jobs : Type(j) \in Serves[w]}

(* _lease() *)
Lease(w) ==
  /\ At(w, "idle")
  /\ \E j \in MostUrgent(Leasable(jobs, Served(w), -1000, TRUE)) :
       /\ jobs' = [jobs EXCEPT ![j] = Leased(@, w)]
       /\ job' = [job EXCEPT ![w] = j]
       /\ seen' = [seen EXCEPT ![w] = jobs[j].attempts + 1]
  /\ Goto(w, "start")
  /\ UNCHANGED <<videoVars, saw, doomed, frozen, used>>

Release(w) ==
  /\ Goto(w, "idle")
  /\ job' = [job EXCEPT ![w] = NoJob]
  /\ seen' = [seen EXCEPT ![w] = 0]
  /\ saw' = [saw EXCEPT ![w] = "unread"]

(* _run_job(): complete(), and fail() of an Exception or NonRetryableError *)
Complete(w) ==
  /\ At(w, "ok")
  /\ jobs' = [jobs EXCEPT ![job[w]] = Completed(@)]
  /\ Release(w)
  /\ UNCHANGED <<videoVars, doomed, frozen, used>>

Fail(w) ==
  /\ At(w, "error") \/ At(w, "fatal")
  /\ jobs' = [jobs EXCEPT ![job[w]] = Failed(@, seen[w], pc[w] = "error")]
  /\ Release(w)
  /\ UNCHANGED <<videoVars, doomed, frozen, used>>

(* A step of a handler that touches no table *)
Move(w, place) ==
  /\ Goto(w, place)
  /\ UNCHANGED <<jobs, videoVars, job, seen, saw, doomed, frozen>>

-----------------------------------------------------------------------------
(* probe_video *)

NeverProbed == FALSE  \* mutant: the early return is gone
AlreadyReady == video = "ready"

(* The first transaction: the video is processing from here on *)
ProbeStart(w) ==
  /\ In(w, "start", "probe")
  /\ Goto(w, IF AlreadyReady THEN "ok" ELSE "work")
  /\ video' = IF AlreadyReady THEN video ELSE "processing"
  /\ UNCHANGED <<jobs, chunk, extracted, temporal, timelines, job, seen, saw,
                 doomed, frozen, used>>

(* ffprobe, transcoding and uploads, then the transaction of the chunk rows *)
ProbeWork(w) ==
  /\ In(w, "work", "probe")
  /\ chunk' = [c \in Chunks |-> IF chunk[c] = "none" THEN "pending" ELSE chunk[c]]
  /\ Goto(w, "enqueue")
  /\ UNCHANGED <<jobs, video, extracted, temporal, timelines, job, seen, saw,
                 doomed, frozen, used>>

ProbeRaises(w) ==
  /\ In(w, "work", "probe")
  /\ \/ Spend("probeError") /\ Move(w, "error")
     \/ Spend("corrupt") /\ Move(w, "fatal")

AllChunkJobs == {j \in Jobs : Type(j) # "probe"}  \* mutant: index jobs too
ProbeFollowUp == {j \in Jobs : Type(j) = "extract"}

(* The last transaction: one extract job for every chunk *)
ProbeEnqueue(w) ==
  /\ In(w, "enqueue", "probe")
  /\ jobs' = [j \in Jobs |-> IF j \in ProbeFollowUp THEN Enqueued(jobs[j]) ELSE jobs[j]]
  /\ Goto(w, "ok")
  /\ UNCHANGED <<videoVars, job, seen, saw, doomed, frozen, used>>

-----------------------------------------------------------------------------
(* extract_chunk *)

SetChunk(c, status) ==
  /\ chunk' = [chunk EXCEPT ![c] = status]
  /\ UNCHANGED <<jobs, video, extracted, temporal, timelines, job, seen, doomed, frozen>>

NothingLeft(c)  == IF c \in extracted THEN "ok" ELSE "work"  \* mutant: no enqueue
ExtractFrom(c)  == IF c \in extracted THEN "enqueue" ELSE "work"

(* The first transaction; frames sampled by an earlier attempt are kept *)
ExtractStart(w) ==
  /\ In(w, "start", "extract")
  /\ LET c == ChunkOf(job[w])
     IN \/ chunk[c] = "none" /\ Move(w, "fatal")
        \/ chunk[c] = "done" /\ Move(w, "ok")
        \/ /\ chunk[c] \notin {"none", "done"}
           /\ SetChunk(c, "running")
           /\ Goto(w, ExtractFrom(c))
           /\ UNCHANGED saw
  /\ NoSpend

(* Frames sampled and uploaded, then the transaction that says so *)
ExtractWork(w) ==
  /\ In(w, "work", "extract")
  /\ extracted' = extracted \cup {ChunkOf(job[w])}
  /\ Goto(w, "enqueue")
  /\ UNCHANGED <<jobs, video, chunk, temporal, timelines, job, seen, saw, doomed,
                 frozen, used>>

(* The last transaction, outside the handler's own `try` *)
ExtractEnqueue(w) ==
  /\ In(w, "enqueue", "extract")
  /\ jobs' = [jobs EXCEPT ![Index(ChunkOf(job[w]))] = Enqueued(@)]
  /\ Goto(w, "ok")
  /\ UNCHANGED <<videoVars, job, seen, saw, doomed, frozen, used>>
-----------------------------------------------------------------------------
(* index_chunk *)

IndexedAnyway(c) == FALSE  \* mutant: the early return is gone
AlreadyIndexed(c) == chunk[c] = "done"

IndexStart(w) ==
  /\ In(w, "start", "index")
  /\ LET c == ChunkOf(job[w])
         open == chunk[c] # "none" /\ ~AlreadyIndexed(c)
     IN \/ chunk[c] = "none" /\ Move(w, "fatal")
        \/ AlreadyIndexed(c) /\ Move(w, "ok")
        \/ open /\ c \notin extracted /\ Move(w, "error")
        \/ /\ open /\ c \in extracted
           /\ SetChunk(c, "running")
           /\ Goto(w, "work")
           /\ UNCHANGED saw
  /\ NoSpend

(* Transcription to OCR, then the transaction that replaces the rows of    *)
(* the chunk; it loads the video, whose status the session keeps           *)
IndexWork(w) ==
  /\ In(w, "work", "index")
  /\ SetChunk(ChunkOf(job[w]), "done")
  /\ saw' = [saw EXCEPT ![w] = video]
  /\ Goto(w, "finalize")
  /\ NoSpend

EncodedAtTheEnd(c) == IF AllTerminal THEN {c} ELSE {}  \* mutant: only the last chunk
NewlyEncoded(c)    == {c}

(* The transaction after it: settle the video, enqueue encode_temporal *)
IndexFinalize(w) ==
  /\ In(w, "finalize", "index")
  /\ FinalizeIfComplete(saw[w])
  /\ temporal' = temporal \cup NewlyEncoded(ChunkOf(job[w]))
  /\ Goto(w, "ok")
  /\ UNCHANGED <<jobs, chunk, extracted, job, seen, saw, doomed, frozen, used>>

-----------------------------------------------------------------------------
(* Errors of a handler *)

(* ffmpeg, the object store, a model or the write transaction raises *)
ChunkWorkRaises(w) ==
  /\ In(w, "work", "extract") \/ In(w, "work", "index")
  /\ Spend("error")
  /\ Move(w, "record")

OneTooEarly(w) == seen[w] + 1 >= MaxAttempts  \* mutant: off by one
LastAttempt(w) == seen[w] >= MaxAttempts

(* record_chunk_error(): the chunk fails for good on the last attempt *)
RecordChunkError(w) ==
  /\ At(w, "record")
  /\ LET final == LastAttempt(w)
     IN /\ SetChunk(ChunkOf(job[w]), IF final THEN "failed" ELSE "pending")
        /\ saw' = IF final THEN [saw EXCEPT ![w] = video] ELSE saw
        /\ Goto(w, IF final THEN "verdict" ELSE "error")
  /\ NoSpend

(* fail_chunk(), its second transaction *)
RecordVerdict(w) ==
  /\ At(w, "verdict")
  /\ FinalizeIfComplete(saw[w])
  /\ Goto(w, "error")
  /\ UNCHANGED <<jobs, chunk, extracted, temporal, job, seen, saw, doomed, frozen, used>>

(* A transaction of a handler fails.  Only index_chunk's last one is inside *)
(* a `try` that records the error on the chunk.                             *)
TransactionFails(w) ==
  /\ \/ At(w, "start") \/ At(w, "enqueue") \/ At(w, "finalize")
     \/ At(w, "record") \/ At(w, "verdict")
  /\ Spend("dbError")
  /\ Move(w, IF pc[w] = "finalize" THEN "record" ELSE "error")

-----------------------------------------------------------------------------
(* The reaper *)

(* Rows whose worker is gone, or frozen, and whose heartbeat goes stale *)
Orphans == {j \in Jobs : /\ jobs[j].status = "running"
                         /\ \A w \in Workers :
                              pc[w] \in Busy /\ job[w] = j => w \in frozen}

AfterBurial(left) == IF left = {} THEN "idle" ELSE "bury"

(* _maybe_reap(): the rows S have expired; the chunk jobs that are dead now *)
(* are handed to fail_dead_chunk_jobs()                                     *)
Reap(w) ==
  /\ At(w, "idle")
  /\ \E S \in (SUBSET Orphans) \ {{}} :
       /\ jobs' = [j \in Jobs |-> IF j \in S THEN Reaped([jobs[j] EXCEPT !.stale = TRUE])
                                             ELSE jobs[j]]
       /\ LET dead == {j \in S : jobs'[j].status = "dead" /\ Type(j) # "probe"}
          IN doomed' = [doomed EXCEPT ![w] = dead] /\ Goto(w, AfterBurial(dead))
  /\ UNCHANGED <<videoVars, job, seen, saw, frozen, used>>

(* fail_dead_chunk_jobs(), one job: the transaction that fails its chunk *)
Bury(w) ==
  /\ At(w, "bury")
  /\ \E j \in doomed[w] :
       LET c == ChunkOf(j)
           left == doomed[w] \ {j}
       IN /\ doomed' = [doomed EXCEPT ![w] = left]
          /\ \/ /\ chunk[c] \in {"none", "done"}
                /\ Goto(w, AfterBurial(left))
                /\ UNCHANGED chunk
             \/ /\ chunk[c] \notin {"none", "done"}
                /\ Goto(w, "buried")
                /\ chunk' = [chunk EXCEPT ![c] = "failed"]
  /\ UNCHANGED <<jobs, video, extracted, temporal, timelines, job, seen, saw,
                 frozen, used>>

(* ... and the one that settles the video, its status loaded afresh *)
Buried(w) ==
  /\ At(w, "buried")
  /\ FinalizeIfComplete(video)
  /\ Goto(w, AfterBurial(doomed[w]))
  /\ UNCHANGED <<jobs, chunk, extracted, temporal, job, seen, saw, doomed, frozen, used>>

(* An exception there is logged and the job skipped *)
BurialFails(w) ==
  /\ Spend("dbError")
  /\ \/ /\ At(w, "bury")
        /\ \E j \in doomed[w] :
             /\ doomed' = [doomed EXCEPT ![w] = @ \ {j}]
             /\ Goto(w, AfterBurial(doomed[w] \ {j}))
     \/ At(w, "buried") /\ Goto(w, AfterBurial(doomed[w])) /\ UNCHANGED doomed
  /\ UNCHANGED <<jobs, videoVars, job, seen, saw, frozen>>
-----------------------------------------------------------------------------
(* Time and faults *)

(* run_after passes *)
BackoffElapsed(j) ==
  /\ jobs[j].delayed
  /\ jobs' = [jobs EXCEPT ![j].delayed = FALSE]
  /\ UNCHANGED <<videoVars, workerVars, frozen, used>>

(* A process dies at any point and a fresh one takes its place *)
Crash(w) ==
  /\ Spend("crash") /\ pc[w] # "idle"
  /\ Release(w)
  /\ doomed' = [doomed EXCEPT ![w] = {}]
  /\ frozen' = frozen \ {w}
  /\ UNCHANGED <<jobs, videoVars>>

Stall(w) ==
  /\ Spend("stall") /\ pc[w] \in Busy
  /\ frozen' = frozen \cup {w}
  /\ UNCHANGED <<jobs, videoVars, workerVars>>

Resume(w) ==
  /\ w \in frozen
  /\ frozen' = frozen \ {w}
  /\ UNCHANGED <<jobs, videoVars, workerVars, used>>

-----------------------------------------------------------------------------
ProbeVideo(w)   == ProbeStart(w) \/ ProbeWork(w) \/ ProbeEnqueue(w)
ExtractChunk(w) == ExtractStart(w) \/ ExtractWork(w) \/ ExtractEnqueue(w)
IndexChunk(w)   == IndexStart(w) \/ IndexWork(w) \/ IndexFinalize(w)
RecordError(w)  == RecordChunkError(w) \/ RecordVerdict(w)
Raises(w)       == ProbeRaises(w) \/ ChunkWorkRaises(w) \/ TransactionFails(w)
Burial(w)       == Bury(w) \/ Buried(w)

(* What a worker does next when nothing goes wrong around it *)
Proceed(w) ==
  \/ Lease(w) \/ ProbeVideo(w) \/ ExtractChunk(w) \/ IndexChunk(w)
  \/ RecordError(w) \/ Complete(w) \/ Fail(w) \/ Reap(w) \/ Burial(w)

Next ==
  \/ CompleteUpload \/ RetryVideo
  \/ \E j \in Jobs : BackoffElapsed(j)
  \/ \E w \in Workers :
       Proceed(w) \/ Raises(w) \/ BurialFails(w) \/ Crash(w) \/ Stall(w) \/ Resume(w)

Spec == Init /\ [][Next]_vars

(***************************************************************************)
(* A worker process that is up goes on with its loop, and backoffs pass.   *)
(* Nothing promises that a user uploads or retries, or that a frozen       *)
(* process resumes.                                                        *)
(***************************************************************************)
FairSpec ==
  /\ Spec
  /\ \A w \in Workers : WF_vars(Proceed(w))
  /\ \A j \in Jobs : WF_vars(BackoffElapsed(j))

-----------------------------------------------------------------------------
(* Properties *)

(* No work is left for this video, and nobody is at work *)
Quiet ==
  /\ \A w \in Workers : pc[w] = "idle"
  /\ \A j \in Jobs : jobs[j].status \in {"none"} \cup Settled

(***************************************************************************)
(* When the work is over the video says so: the last of the concurrent     *)
(* workers, whichever way its chunk ended, has seen every chunk terminal   *)
(* and flipped the video (finalize_if_complete).                           *)
(***************************************************************************)
QuietIsSettled == Quiet => video \notin {"uploaded", "processing"}

(***************************************************************************)
(* A video that says `failed` has a chunk to blame all the while, whatever *)
(* errors, failing transactions, retries and repeated complete calls: no   *)
(* late job works on a failed chunk behind its back (fail_chunk).  A death *)
(* breaks it: an extract job that is declared dead after it handed its     *)
(* chunk on fails the chunk, and the index job finishes it all the same.   *)
(***************************************************************************)
FailedHasReason ==
  used["crash"] = 0 /\ used["stall"] = 0 /\ video = "failed" =>
    \E c \in Chunks : chunk[c] = "failed"

(***************************************************************************)
(* When the work is over, every searchable chunk was handed on to the      *)
(* temporal encoder, whatever errors and freezes there were on the way, if *)
(* nothing died and at most one transaction failed (index_chunk).          *)
(***************************************************************************)
DoneIsEncoded ==
  used["crash"] = 0 /\ used["dbError"] <= 1 /\ Quiet =>
    \A c \in Chunks : chunk[c] = "done" => c \in temporal

(***************************************************************************)
(* A worker dying mid-chunk costs nothing: the reaper puts the job back    *)
(* and its next attempt ends the chunk (README.md, crash recovery), even   *)
(* if complete_upload() is called again meanwhile.  A death uses up one    *)
(* attempt, so this is promised for fewer deaths than there are attempts.  *)
(***************************************************************************)
OnlyCrashes == \A k \in Kinds \ {"crash", "upload"} : used[k] = 0

CrashLosesNoChunk ==
  OnlyCrashes /\ used["crash"] < MaxAttempts /\ Quiet /\ video # "uploading" =>
    \A c \in Chunks : chunk[c] = "done"

(* Without frozen processes and failing transactions *)
Orderly == used["stall"] = 0 /\ used["dbError"] = 0

(* A video is shown as ready only while all its chunks are searchable,     *)
(* through crashes, errors, retries and repeated complete calls.           *)
ReadyIsComplete ==
  Orderly /\ video = "ready" => \A c \in Chunks : chunk[c] = "done"

(* A chunk that is searchable stays so: no late attempt, reaper or retry   *)
(* takes it back (the status checks at the top of the handlers).           *)
DoneIsFinal ==
  [][Orderly' => \A c \in Chunks : chunk[c] = "done" => chunk'[c] = "done"]_vars

(* index_chunk never finds a chunk that was not extracted, not even after  *)
(* crashes and with zombies, so its RuntimeError cannot be raised.         *)
IndexedAfterExtract ==
  \A c \in Chunks : jobs[Index(c)].status # "none" => c \in extracted

(* Every upload ends: ready or failed. *)
VideoSettles == (video = "uploaded") ~> (video \in {"ready", "failed"})

(***************************************************************************)
(* A video uploaded once lives as VideoLife says, through crashes, errors  *)
(* and the retries the page offers: ready is final, failed never hides a   *)
(* complete index at the moment it is declared.                            *)
(***************************************************************************)
Life == INSTANCE VideoLife WITH
          status     <- video,
          searchable <- {c \in Chunks : chunk[c] = "done"}

ImplementsVideoLife == Life!Spec

PatientUser == used["untimely"] = 0 /\ used["upload"] <= 1

(***************************************************************************)
(* A video lives as VideoLife says, one step after the other, through      *)
(* crashes, errors and the retries the page offers, until a process        *)
(* freezes, a transaction fails, or the API is called at another time.     *)
(***************************************************************************)
LivesAsVideoLife ==
  /\ Life!Init
  /\ [][Orderly' /\ PatientUser' => Life!Next \/ UNCHANGED Life!vars]_vars
=============================================================================
