# A TLA+ model of ScenePeek

ScenePeek takes uploaded videos apart (probe, transcode, sample frames,
transcribe, caption, embed) and makes every moment of them searchable. The work
is done by a fleet of worker processes that share one PostgreSQL database: there
is no broker, the `jobs` table is the queue. Benchmarks are fetched into the same
library and the search is evaluated on them. This directory holds a TLA+ model
of the parts where order, failure and concurrency decide whether the result is
right, the TLC configurations that check it, and TLAPS proofs of its central
properties.

    tlc -workers 2 -config MCJobQueue_faults.cfg MCJobQueue.tla
    tlapm JobQueueProofs.tla        (also TemporalProofs, FiniteOrders, AlgorithmProofs,
                                      LibraryProofs, VideoProofs, VideoEndProofs,
                                      EvaluationProofs)

Source paths below are relative to `src/backend/scenepeek/` unless they start
with `src/`. `PROJECT.json` maps every definition to the lines it stands for.


## 1. Inventory

### Components

| Component | State | Operations | Interacts with |
|---|---|---|---|
| Job table (`jobs/queue.py`, `models/job.py`) | one row per job: status, priority, attempts, locked_by, heartbeat_at, run_after, idempotency_key | enqueue, lease, heartbeat, complete, fail (retry or dead), reap | everything that has work to do |
| Worker (`jobs/worker.py`, `jobs/registry.py`) | the job it runs, a heartbeat thread, a stop flag | loop: reap, lease, run handler, complete or fail | job table, handlers |
| Priority bands (`jobs/priority.py`) | – | chunk_priority | every enqueue; the lease order; the offline budget |
| Video pipeline (`pipeline/probe.py`, `extract.py`, `index.py`) | `videos.status`, `video_chunks.status`, `extracted_at`, frames, utterances, segments | probe_video, extract_chunk, index_chunk, finalize_if_complete, fail_chunk, record_chunk_error, fail_dead_chunk_jobs | job table, object store, models |
| Videos API (`api/routers/videos.py`) | – | create, complete, list, detail, transcript, timeline, retry, delete | pipeline tables, job table, object store |
| Planning (`pipeline/chunking.py`, `segment.py`, `frames.py`) | – | plan_chunks, plan_segments, select_keyframes, pick_distinct | pipeline |
| Temporal encoding (`pipeline/temporal.py`, `ml/versions.py`, `models/index_version.py`) | `segment_embeddings`, `index_versions`, one partial index per version | encode_temporal, backfill, ensure_index, retire | segments, media cache |
| Timeline (`pipeline/timeline.py`) | `video_topics` | heading_cuts, segment_topics, build_timeline | segments, frames, LLM |
| Captions (`pipeline/captions.py`) | captions of segments | backfill | segments |
| Media cache (`pipeline/media.py`) | files in a cache directory, one lock file each | cached, drop_cache, ffmpeg calls | object store |
| Dataset fetch (`pipeline/fetch.py`, `datasets/`) | dataset rows, `video_id` of a dataset video, downloads on disk | import_split, link_library_videos, enqueue_fetches, fetch_dataset_video | videos, job table, object store |
| Search (`search/`) | – | plan, route, candidates, fuse, suppress, hydrate | segments, videos, versions |
| Learned router (`search/learned_router.py`) | a trained model file | predict | search |
| Model singletons (`ml/`) | one lazily built instance per model | get | handlers, search |
| Evaluation (`eval/experiment.py`, `metrics.py`, `negatives.py`) | experiments, their results, training examples | run, metrics, mine | search, segments |
| Review tools (`eval/real.py`, `review.py`, `web_review.py`, `auto_review.py`, `web_label.py`) | `candidates.yaml`, `dataset.yaml` | scan, approve, reject, edit, rebuild | the user, one another |
| Metrics (`core/metrics.py`) | a buffer, flushed to a table | record, flush, summaries | all |
| Frontend (`src/frontend/`) | query cache | upload (create, PUT, complete), polling, retry, delete, search | API |

### What is hard about it

* **Leases without owner.** A worker owns a job because its row says so, but
  `_COMPLETE_SQL`, `_RETRY_SQL`, `_DEAD_SQL` and `_HEARTBEAT_SQL` name neither
  the owner nor the attempt. They are right only as long as a lease that is
  acted upon has not been reaped.
* **Two deciders.** `fail()` and the reaper both decide between another attempt
  and `dead`, one from the attempts its lease returned, the other from the row.
* **A budget counted in a snapshot.** The lease statement counts the running
  offline jobs in a sub-query, and locks its row later.
* **Handlers are several transactions.** A handler commits between two and five
  times; a crash, an error or an API call may fall between any two commits, and
  the attempt that follows starts from what was committed.
* **Nobody owns the video.** Whether it is ready or failed is decided by whoever
  happens to end the last chunk: `index_chunk`, `record_chunk_error`, or the
  reaper through `fail_dead_chunk_jobs`. Sessions are opened with
  `expire_on_commit=False`, so the status tested there may be an old one.
* **Two stores.** A video is a row and objects under its id. Fetch stores before it
  commits, probe deletes after it has planned, delete commits before it
  deletes; a crash falls between any two of them.
* **Deletion under running work.** `delete_video` takes rows away from handlers
  that have loaded them, and segments from searches, experiments and training
  examples that name them.
* **Greedy loops over real lines.** Chunks, segments, windows, keyframes and
  topics are cut by loops with clipping, absorbing and tolerances, each
  independent of the next, whose results have to fit one another.
* **Retries from outside.** `complete_upload` and `retry_video` change statuses
  and jobs under the feet of the workers and check nothing.

The hazards, each with its line and the properties aimed at it, are listed in
`PROJECT.json` under `hazards`.

### What makes each component correct

* Job table and workers: a job is run by one worker at a time; attempts are
  bounded; every job settles; the budget holds, up to a known overshoot.
* Pipeline: ready means complete; searchable chunks stay searchable; when all
  work is over the video has a verdict, and a failed one has a failed chunk to
  blame; a crash costs no chunk; no chunk is indexed before it is extracted;
  every finished chunk is handed to the temporal encoder.
* Planning: chunks tile the video and segments the chunk; every word is in one
  segment; a segment shows frames near it; windows see every frame.
* Priority: bands order the work (a remark on their edges is in section 5).
* Temporal: a version is complete when backfill says so, and rows never vanish.
* Timeline: no cut makes an accepted topic too short, whatever is cut later.
* Search: a lane that is off stays off and comes back in no way but one (the
  reranker's passages, section 5), agreement of the lanes is kept, what is not
  shown is suppressed by something that is.
* Library: what was handed in keeps its media; a clip is entered once; nothing
  refers to a deleted video.
* Evaluation: the metrics agree with each other; what is mined as a negative
  is one. Review: the dataset is what was approved.


## 2. Modules

| Module | Extends or instantiates | Implements |
|---|---|---|
| `JobTable` | – | – |
| `JobQueue` | JobTable | `LeaseQueue` |
| `PriorityBands` | – | – |
| `VideoPipeline` | JobTable, PriorityBands | `VideoLife` |
| `TemporalEncoding` | JobTable | – |
| `BenchmarkLibrary` | JobTable, PriorityBands | – |
| `Rankings` | – | – |
| `SegmentPlan`, `SearchRanking` | Rankings | – |
| `TimelinePlan` | – | – |
| `EvalMetrics` | – | – |
| `Evaluation` | EvalMetrics | – |
| `Curation` | – | – |
| `JobQueueProofs`, `TemporalProofs`, `LibraryProofs` | JobQueue, TemporalEncoding, BenchmarkLibrary | – |
| `VideoProofs`; `VideoEndProofs` | VideoPipeline; VideoProofs | – |
| `FiniteOrders` | – | – |
| `AlgorithmProofs` | SegmentPlan, TimelinePlan, SearchRanking, FiniteOrders | – |
| `EvaluationProofs` | Curation, Evaluation, FiniteOrders | – |
| `MCJobQueue`, `MCVideoPipeline`, `MCTemporalEncoding` | the module of that name | – |
| `MCAlgorithms` | SegmentPlan, TimelinePlan, SearchRanking | – |
| `MCLibrary` | BenchmarkLibrary, Evaluation, Curation | – |

**JobTable** – the `jobs` table. Each SQL statement is an operator from the row
it reads to the row it leaves: `Enqueued`, `Leased`, `Beaten`, `Completed`,
`Retried`, `Died`, `Reaped`, `Revived`; the lease query is `Leasable` (its
WHERE), `BudgetLeft` (its sub-query) and `MostUrgent` (its ORDER BY). The table
is a function from idempotency keys to rows. `heartbeat_at` is the Boolean
`stale`, `run_after` the Boolean `delayed`. `created_at` is dropped: rows of
equal priority are leased in any order, which allows more than the code does.
`max_attempts` is the same for all jobs because no caller passes another value.
`JobStatus.FAILED` is declared in the code and never written, so it is not a
status here.

**JobQueue** – workers around that table, `worker.py` line by line: `Reap`,
`LeaseSnapshot` and `LeaseTake` (the two sides of the lease statement under READ
COMMITTED), `Heartbeat`, `HandlerEnds`, `Complete`, `Fail`. `Crash` loses the
worker's memory and leaves its row running; `Stall` freezes a process (with its
heartbeat thread) and `Resume` lets it go on where it was. `Expire` is the
passing of 90 seconds without a heartbeat, which is assumed not to happen while
an awake worker runs the job, since its thread beats every 10 seconds. An
exception out of the `complete()` or `fail()` transaction leaves the loop of
`run()` and ends the process: it is a `Crash`.

**LeaseQueue** – what the queue promises: a job waits, is held by one worker,
spends one attempt each time it is taken, is finished or killed only by its
holder, and is put back or declared dead by those who declare the holder dead.
`JobQueue!ImplementsLeaseQueue` is the refinement mapping.

**VideoPipeline** – one video with `ChunkCount` chunks, its handlers opened up
to one action per committed transaction (or the external work between two).
The job table is the same `JobTable`, instantiated for the probe jobs of the
video (the first, and one per retry), and one extract and one index job per
chunk. Correspondence, in the order of the code:

| Code | Actions |
|---|---|
| `complete_upload` | `CompleteUpload` |
| `retry_video` | `RetryVideo` (a `retry` if the page offers it, `RetryOffered`; an `untimely` one at any time) |
| `probe_video` | `ProbeStart`, `ProbeWork` or `ProbeRaises`, `ProbeEnqueue` |
| `extract_chunk` | `ExtractStart`, `ExtractWork` or `ChunkWorkRaises`, `ExtractEnqueue` |
| `index_chunk`, `_index` | `IndexStart`, `IndexWork` or `ChunkWorkRaises`, `IndexFinalize` |
| `record_chunk_error`, `fail_chunk` | `RecordChunkError`, `RecordVerdict` |
| `finalize_if_complete` | `FinalizeIfComplete`, inside the actions above |
| `_maybe_reap`, `fail_dead_chunk_jobs` | `Reap`, `Bury`, `Buried`, `BurialFails` |
| `_lease`, `complete`, `fail` | `Lease`, `Complete`, `Fail` |
| a commit of a handler fails | `TransactionFails` |

`saw[w]` is the status of the video as the session of worker `w` loaded it: the
session keeps it over its own commits, and `finalize_if_complete` tests it.
`record_chunk_error` loads it only on the last attempt, `index_chunk` when it
writes the rows of the chunk, the reaper afresh for each job.

**VideoLife** – the life of a video as a user sees it: submitted, taken up,
published chunk by chunk, declared ready when complete (for good), declared
failed when incomplete, taken up again. `Life` in VideoPipeline is the mapping.
`LivesAsVideoLife` says that the pipeline takes only its steps until a process
freezes, a transaction fails or the API is called at another time than the page
would (`PatientUser`); `ImplementsVideoLife`, that it implements it.

**PriorityBands** – the bands and `chunk_priority`, on which the order of leases
in VideoPipeline depends.

**TemporalEncoding** – the versioned temporal embeddings of one video: the
`encode_temporal` jobs, those who ask for them, the registry of versions, and
the files that workers of one host share. The job table is `JobTable` again,
now with one job per idempotency key `temporal:{video}:{c}[:{model}][:{second}]`.

| Code | Actions |
|---|---|
| `_index`, its last two transactions, as far as this module sees them | `IndexChunk`, `HandOver` |
| `backfill`, with and without `--force`, `enqueue_for_chunk` | `Backfill`, `BackfillForce`, both through `Ask` |
| `retire` | `Retire` |
| `get_encoder`, the choice of an encoder | `Encoder` |
| `encode_temporal`, first transaction | `Start` |
| `media.cached`, `media.sample_frames` (before and after ffmpeg), the glob of the frames | `Fetch`, `Cut`, `CutEnds`, `Open` |
| the model and the `rmtree` after it | `Embed` |
| DELETE; INSERTs and commit | `DeleteOld`, `InsertNew` |
| `ensure_index`, its question and its upsert | `Register`, `Build` |
| `_maybe_drop_cache` | `Drop` |
| an exception in the work | `WorkRaises` |
| another `settings.temporal_model` and a restart of the workers | `Reconfigure` |

All vectors that one run of a job writes for a chunk and an encoder are one
*window set*: by which worker, for which job, and whether all frames of the
chunk went into it. `DeleteOld` remembers the sets its DELETE found;
`InsertNew` removes these, not what another transaction has committed since.
The directory `work/chunk_{c}/dense` of a host is `"gone"`, `"full"` of all
frames, or holds some: then `frames` names the worker whose ffmpeg was the last
to start there, the only one that will fill it. `filmed` is the set of chunks
that have a picture: the sound of a file may outlast its video stream, and a
clip may be shorter than one sample, so that ffmpeg writes no frame at all.
`Open` has the three outcomes of the glob. With frames the windows are encoded.
Without any, because the chunk has no picture or because another worker emptied
the directory, the handler removes the directory and returns, and the job
succeeds without rows. Frames that vanish after the glob raise.

**BenchmarkLibrary** – how videos enter and leave the library besides the upload
page. It opens up what VideoPipeline takes as given, the stores and the rows of
the videos, and closes what VideoPipeline opens up: the chunks of a video, from
their planning to the verdict, are the one step `FinalizeVideo`.

| Code | Actions |
|---|---|
| `import_split` with `link_library_videos`, `enqueue_fetches` | `ImportSplit` (`LinkLibraryVideos`), `EnqueueFetches` |
| `upload_all` of `eval/upload_real.py`: create, PUT, complete | `CreateVideo`, `PutOriginal`, `CompleteUpload` |
| `retry_video` | `RetryVideo` |
| `delete_video`: the commit with its cascades; `delete_prefix` | `DeleteVideo` (`WithoutJobs`, `WithoutLinks`); `DeletePrefix` |
| `fetch_dataset_video`: its first session | `FetchStart` |
| `adapter.fetch`, `rename` | `StartDownload`, `EndDownload` or `DownloadFails`, `RenameDownload` |
| the session after `Unavailable` | `MarkUnavailable` |
| the last session: upload, commit, `unlink` | `StoreClip` or `FileGone`, `CommitClip`, `UnlinkDownload` |
| `probe_video` | `ProbeStart`, `ProbeWork` or `ProbeRaises`, `ProbePlan`, `ProbeTidy` |
| `finalize_if_complete`, its last lines | `FinalizeVideo` |

`disk` has, for each clip, the `.part.mp4` file, which all attempts of a fetch
write, and the `.mp4` file it is renamed to; `torn` remembers the videos whose
object was stored from a file that was not complete. A row that was deleted is
marked and its id never comes back. Lease, retry and reap are those of JobTable;
`Put` is an UPDATE, which does nothing when its row is gone.

**SegmentPlan** – `plan_chunks`; `plan_segments`, one iteration of its loop per
step; and on the finished plan the words, the keyframes (`select_keyframes`), the
frames of a segment (`_index`, `pick_distinct`), the temporal windows
(`sample_windows`) and the segment a window is stored with
(`encode_temporal`).

**TimelinePlan** – the cuts of `build_timeline`: `heading_cuts` on the titles of
the slides, then the loop of `segment_topics` with one candidate per step:
`TryForced`, in order, and `TryDeep`, in any order (the order is the depth of the gaps between the
embeddings, which are not modelled). `_long_enough` judges both.

**SearchRanking** – one search, from the phrases of the query to the hits:
`parse`, the three routers, `plan`, the candidates of each lane with the pooling
of frames and windows, `fuse`, the loading of the head, `_passage` and `_final_scores`,
`suppress`. Scores and weights are integers in units of 1/12, exact for the
instances. `Vanish` takes a segment away between the lanes and the loading.
A text is named for the lane that searches it; `TextOf` says which texts a
segment has, `Passage` which of them the reranker is shown (OCR text always,
captions if configured), and a request holds the reranker's verdict on each
passage, which is any function of it (`Rated`).
A search is restricted to videos before its lanes are cut to their limit, as in
the queries of `candidates.py`. **Rankings** has `Ranked`, Python's `sorted` for an order that decides
everything; stability is spelled out as the order in which `fuse` met the
segments (`ByFused`, `ByScore`).

**EvalMetrics** – `eval/metrics.py`, on ranges in whole seconds; an overlap is kept
as a fraction, which is 0/1 where the code returns `0.0`. `Credited` is the loop that
`relevance` and `average_precision_at_iou` share: the ranges still left after
each hit, and which of them a hit takes (`FirstOverlap`, `BestOverlap`).

**Evaluation** – `run` of `eval/experiment.py` from the row of the experiment to
the commit of its results, and `mine` of `eval/negatives.py`, while chunks are
indexed again and videos deleted. What a search returns is any ranking.

**Curation** – the tools around `candidates.yaml` and `dataset.yaml`, as programs
that copy both files, change the copies and write them back one after the other.
`mishaps` records what the property makes an exception for.

**JobQueueProofs**, **TemporalProofs**, **LibraryProofs**, **VideoProofs**,
**VideoEndProofs**, **AlgorithmProofs**, **EvaluationProofs** – the theorems,
section 6. **FiniteOrders** has what they share about finite sets and numbers.

### Abstractions

* A transaction is atomic. What is read in one and used in the next is kept in
  the model (`seen`, `budget`, `saw`, `doomed`). Inside one transaction nothing
  is split: two transactions that each count the chunks of the video and do not
  see each other's last chunk cannot both stay silent, since a chunk is
  committed in an earlier transaction than the one that counts.
* Rows of segments, frames, utterances, stored objects and the `stage` labels
  are left out: no status depends on them.
* `build_timeline` jobs are counted and `encode_temporal` jobs recorded per
  chunk, neither is run.
* In VideoPipeline the lease is one step and an orphaned row may be reaped at
  once; JobQueue has the clocks and the two halves of the lease. The offline
  budget is off there: it concerns jobs of negative priority, which an upload
  of at most 100 chunks does not create.
* The key of a retry's probe job ends in the second of the call; the model
  takes two retries to be in different seconds.
* In TemporalEncoding, besides: all jobs have one priority, processes do not
  freeze, the segments of a chunk never change, and a listing of a directory
  that another process is removing shows either what was there or nothing. A
  chunk has a picture or none; how many frames a short one has is SegmentPlan's
  matter.
  `models/embedding.py` is not in the repository, so what happens to embeddings
  of a deleted segment is not modelled.
* In VideoPipeline "chunk missing" branches are there although no row can be
  missing: deletion is in BenchmarkLibrary, which has no chunks of its own.
* In BenchmarkLibrary the names people give their uploads are not names of
  clips; downloads and objects are whole or torn; the annotation queries, which
  nothing there reads, are left out.
* Times in the planning modules are integers: seconds of a video scaled down.
  That `round(..., 3)` of the code makes of 12.3456 a 12.346 is left out.
* The frames of a segment are picked from one sample per second of its chunk. The
  guard of `_index` for a chunk without frames (`pipeline/index.py:137`) is not
  reached there.
* Hits are spans of segments, as `span_mode` is by default; with `window`
  (`search/service.py:181`) a hit is the best temporal window, which is left out.
* `mine` is one step, and so is the writing of one YAML file: a file that is cut
  off in the middle is not modelled, only a tool that is cut off between its two.
* `fail_dead_chunk_jobs` loads a chunk and sets it to failed in one transaction
  without a lock. An index job that commits between the two statements would be
  overwritten; the model does not split them.
* `RetryVideo` and `CompleteUpload` of BenchmarkLibrary are called when the page
  and `upload_all` call them, for a failed and an uploading video. The API checks
  neither; VideoPipeline has the repeated and untimely calls.
* `PerQuery`, the number of negatives of a query, is positive. With 0 the loop of
  `mine` would still take one (`eval/negatives.py:104`).
* Pictures differ iff a scene change lies between them: perceptual hashes are
  not modelled, nor that two distant scenes may look alike.


## 3. Runs

Bounds are named in the modules (`MaxCrashes`, `MaxStalls`, `MaxRetries`,
`Budgets`) and set in the `.cfg` files. Two workers are enough for every race of
two parties that the code admits, and a crashed worker's place is taken by a
fresh one. `MaxAttempts = 2` (3 in the settings) gives a first, and a last
attempt that differ; two chunks give a first and a last one. Symmetry under
permutation of the workers is used where the runs check no liveness and all
workers serve the same queues.

### JobQueue

| Run | Bounds | Shows |
|---|---|---|
| `queue_faults` | three offline jobs (one of the backfill band), offline budget 1, a worker with `--min-priority -100`, 1 crash, 1 freeze, 1 retry call | TypeOK, LeaseHonoured, NoDoubleProcessing, AttemptsBounded; OfflineOvershootBounded: never more than budget + workers − 1 |
| `queue_live` | an interactive and a benchmark job, budget 1, 1 crash, 1 retry | the table implements LeaseQueue; every enqueued job succeeds or is declared dead |

LeaseHonoured, NoDoubleProcessing and AttemptsBounded are claimed up to the
first freeze (`stalls = 0`). After one they do not hold, see section 5.

### VideoPipeline

| Run | Bounds | Shows |
|---|---|---|
| `video_live` | 2 errors in chunk work, 1 in the probe | QuietIsSettled; VideoSettles: every upload becomes ready or failed |
| `video_faults` | two workers, two chunks; one of the mixes crash + retry, raised work + retry + second complete, crash + raised work + failing commit, freeze + raised work, freeze + crash, corrupt file + retry (these at any time), crash + two errors + retry when offered | TypeOK, IndexedAfterExtract, ReadyIsComplete, DoneIsFinal; FailedHasReason, in the behaviours without crash and freeze; DoneIsEncoded, without a crash; CrashLosesNoChunk, in those whose only fault is the crash; LivesAsVideoLife, which is refinement step by step, in all of them up to the first freeze, failing commit, second complete or untimely retry |

The runs on videos set `CHECK_DEADLOCK FALSE`: one video is all there is, and when it
is done and the bounded events are used up nothing remains to happen. "Quiet"
in the invariants is that state: no worker busy, no job queued or running. So
QuietIsSettled says what a liveness property would, and also covers the runs
in which an event cuts the work short.

Two events are allowed to interact in each run because the interesting
failures need two: an error on each attempt exhausts a job, and a crash needs
an error before it to be the last attempt. QuietIsSettled does not hold under every mix of faults (`video_stuck` shows one),
so it is checked where only work raises; FailedHasReason, DoneIsEncoded and
CrashLosesNoChunk say in their premise what they exclude, and section 5 why.

### TemporalEncoding

| Run | Bounds | Shows |
|---|---|---|
| `temporal_faults` | two workers on one or two hosts, one chunk, with a picture or without, of an uploaded or a dataset video, two encoders; one of the mixes two backfills, forced backfill + crash, backfill + crash, backfill + two errors + retry, backfill + retire, backfill + new setting | TypeOK, RowsStay, OneSetPerWriter; QuietIsRegistered (no crash, no error); SuccessIsStored (one worker per host, a chunk with a picture); SteadyBackfillIsComplete (and the setting stays) |

Jobs of different chunks share nothing but the cache file of the video, so one
chunk is enough for the races; two jobs of it are there from the start as soon
as a backfill names an encoder. Symmetry: workers, hosts, encoders.

### Algorithms

| Run | Bounds | Shows |
|---|---|---|
| `algorithms_plans` | every video of length 0, 1, 2, 14, 15, 27 with chunks of 12, up to two utterance ends and one scene change per chunk; every timeline of up to four segments of length 1 or 2, with and without silence, any titles out of two or none; 16 routed requests with and without pinned weights, 16 more with both fusions, with and without a reranker that contradicts and goes by the passage, on 140 small indexes of segments with different texts | ChunksTile, SegmentsTile, WordsPlaced, SegmentsHaveFrames, WindowsCover; TopicsLongEnough; OffLaneOnlyReread, AgreementKept, HitsExplained; PlansTypeOK |

The three modules compute, in handlers and requests that share no state, so the run is
their disjoint sum: a behaviour is one of any of them, and the others rest in a
finished state. The numbers are chosen so that every branch is taken: tails
below, at and above the minimum; ends in and out of the range of a segment; a
segment absorbed, clipped, or alone; windows clipped; topics that a later cut
could shorten; more candidates than the head, a head cut by the reranker, more
frames of one segment than the pool.

OffLaneOnlyReread compares the answer with that of a library in which the lane
has nothing to find and the passages lack its text. The order of two segments
may differ only if the reranker read that text of one of them; `search_leak`
(section 5) shows that it does.

### Library, evaluation, curation

| Run | Bounds | Shows |
|---|---|---|
| `benchmark_clips` | one clip, three videos, two workers, one of six mixes: two crashes; a freeze, a deletion, two imports; an upload, two imports, a retry; a crash, a deletion, an error; a vanished clip with an upload; a freeze, an upload, a deletion. One experiment of one query, four hits, an index of three segments cut in two ways, a rebuild of each part, two calls of mine. Two candidates of one source, three starts of tools | LibraryTypeOK, MediaKept, OneVideoPerClip (no freeze), ReferencesHold; ScoresConsistent, NegativesAreWrong; DatasetFollowsReview |

Again a disjoint sum, by the variable `mode`: an experiment only reads an index, the review
tools only files. One clip is enough because clips share nothing; its fetch, its
upload and the link of either race through the three ids. Symmetry: workers and
video ids.

### Mutants

Every property of a passing run has a mutant in `PROJECT.json`: an operator
that stands directly before the one it replaces, with the comment `mutant`. It is a bug
that could plausibly be in the code (a dropped early return, an off-by-one in
the attempts, a lease timeout that is ignored, a chunk count that forgets the
failed ones), and under it the run's property is violated.


## 4. Fairness

* JobQueue, `queue_live`: weak fairness of the worker's loop (`run()` never
  leaves it while the process is up, and handlers are assumed to end), of time
  passing (`Expire`, `BackoffElapsed`), and strong fairness of `Reap`, because
  `_maybe_reap` is called at the top of every iteration but a polling worker is
  there only now and then. Nothing makes a dead process restart.
* VideoPipeline, `video_live`: weak fairness of `Proceed(w)`, the disjunction of
  all steps a healthy worker takes, and of `BackoffElapsed`. No fairness for
  users, faults or the resumption of a frozen process.
* The other modules claim safety only. In BenchmarkLibrary nothing that should happen
  eventually does under every mix: a clip whose fetch job died is never enqueued
  again (its key is taken), as section 5 says.

That handlers end is an assumption: the heartbeat thread keeps the lease of a
handler that hangs, and except for the timeout of ffmpeg calls nothing in the
code ends it.


## 5. Where the code and its documents disagree

Each of these is a run that TLC is expected to, and does, find violated.

1. `queue_overbudget` – the offline budget is exceeded by concurrent leases:
   two workers read the same snapshot. `core/config.py:32` and
   `src/scripts/bench_isolation.sh:6` promise at most `OFFLINE_MAX_RUNNING`.
   The overshoot is at most the number of the other workers (`queue_faults`, and proved).
2. `queue_resurrect` – a worker frozen for longer than the lease resumes after
   another worker completed its job; its `fail()` puts the job back in the queue
   and it is processed again. In the same way a late `fail()` takes back a job
   that is dead, which then gets an attempt beyond `max_attempts`.
3. `video_stuck` – a worker dies between the two last transactions of
   `index_chunk`. The next attempt sees a chunk that is done and returns at
   once: the video is never settled, and Retry is not offered.
4. `temporal_onehost` – two workers of a host encode one chunk with two encoders
   in the same directory of frames. The first removes it, the second finds no
   frames, returns normally, and its job has succeeded without a row; its key
   then blocks every later unforced backfill.
5. `search_leak` – the passages of the reranker hold the OCR text of a segment
   (`search/service.py:275`) though the `ocr` lane has weight 0, so the hits are
   others than without that text. `search/service.py:111` says that no signal
   leaks into rerank. Captions are in the passages if
   `caption_in_rerank_passage` says so, and the transcript always, whatever the
   weights. Nothing else of a lane that is off is left (`algorithms_plans`, and
   proved).

Further behaviours of the same kind, found while modelling, are allowed for in the
properties and have no run of their own:

* Retry between the commit that fails a chunk and the one that declares its job
  dead resets the chunk, the job dies afterwards, and nothing works on the
  chunk again (`video_stuck` with two errors and a retry).
* A worker that dies on the last attempt of `extract_chunk`, after it enqueued
  `index_chunk`, gets its chunk failed by the reaper; the index job completes
  it, and the video stays `failed` with every chunk done (a crash and an error).
* A reaper that dies between the commit that declares jobs dead and
  `fail_dead_chunk_jobs` leaves their chunks as they were, and the next reaper
  does not see these jobs again.
* Two encodings of one chunk with one encoder under different keys may both
  leave their rows, since each DELETE misses what the other has not committed.
* `ensure_index` overwrites `retired` with `ready`; a crash or an error before it leaves rows of a
  version that is not registered, until that version encodes another chunk.
* A chunk without a frame ends its job as a success without rows
  (`pipeline/temporal.py:58`). It needs no encoding, but nothing says so: its key is
  taken, every backfill selects it again and enqueues nothing, and since
  `temporal_at` is never set, the cache of a dataset video that has such a chunk
  is never dropped. SuccessIsStored and BackfillIsComplete are claimed of chunks
  with a picture.
* Media that ffprobe refuses kill the probe job; nothing settles the video, which
  has no chunks and stays `processing` (`src/docs/architecture.md:41` says a
  failed video can be retried; this one does not fail).
* The key of an `encode_temporal` job names the encoder only if the caller did.
  After a change of `settings.temporal_model` a plain backfill selects every chunk
  and enqueues nothing, because the key belongs to the succeeded job of the old
  encoder (`pipeline/temporal.py:152`). SteadyBackfillIsComplete has the condition.
* `chunk_priority` has no lower bound: chunk 101 of an upload counts as offline
  work, chunk 51 of a clip comes after every fetch, chunk 101 after the backfills.

Library and fetch:

* A clip whose fetch job died stays `pending` and is never fetched again: the
  idempotency key is taken. One whose video was deleted stays `fetched` or
  `indexed` without a video.
* A clip linked to an upload that is not ready yet stays `fetched`: only videos of
  other sources turn their clip `indexed`.
* A process frozen in a fetch for longer than its lease can enter the clip twice,
  and store a torn file (both downloads write one `.part.mp4`). `Unavailable` may be
  written over a link made meanwhile.
* Objects without a row remain after a crash between upload and commit, between
  the commit of a deletion and `delete_prefix`, or when a handler stores for a
  video whose prefix is already deleted.
* `upload_real` skips a title that was created and never completed.
* A probe that runs again after the original of a clip was deleted dies; one that
  runs again on a failed video sets it to processing.

Planning and search:

* A slide shown for one segment only makes a forced cut when the topic before and after is long
  enough, and `MAX_TOPICS` does not bound the forced cuts.
* The head is loaded up to four times the limit; when one video fills it,
  suppression leaves a short page though other videos were found.
* A learned router whose probabilities are all below `min_p` turns every lane
  off. In its training (`search/learned_router.py:156`) a lane that was off for a
  query counts as a miss, although line 129 says it carries no evidence.
* A video deleted between the two statements that load segments and videos
  makes the search fail with a KeyError (`search/service.py:196`).

Evaluation and review:

* A setting that does not exist leaves the experiment `running`:
  `apply_overrides` is called outside the try (`eval/experiment.py:258`). Mining by name
  takes the newest experiment of that name, whatever its status.
* Two tools at once overwrite each other's decisions; a second approval
  duplicates the query; a rejection leaves an approved query in the dataset;
  a tool cut off between its two saves loses an approved query; a forced scan
  drops the candidates of all its videos before the first is scanned. These are
  the `mishaps` of Curation.
* `web_label` names a query by the number of queries + 1: after a deletion an id
  can occur twice, and the import keeps one of them.

Two smaller differences, because the models abstract from them: the
backoff is documented as `5s·2^attempts` (`src/docs/architecture.md`) and is
computed as `5·2^(attempts-1)`, at most 300 s; and the transitions from `failed`
to `ready` that a stale status permits (`VideoLife!DeclareReady`) are nowhere
excluded by the documents.


## 6. Proofs

`JobQueueProofs.tla` proves, for every number of jobs and workers, every priority,
budget and bound:

| Theorem | States |
|---|---|
| `TypeCorrect` | `Spec => []TypeOK` |
| `LeasesHonoured` | until a process freezes, who runs a job owns its row |
| `ExclusiveProcessing` | until a process freezes, a job is run by one worker at most |
| `AttemptsAreBounded` | until a process freezes, no attempt beyond `max_attempts` |
| `OvershootIsBounded` | at any time, running offline jobs ≤ budget + workers − 1 |
| `LeaseQueueUntilFreeze` | every step up to the first freeze is a step of LeaseQueue or none of its own |
| `QueueImplementsLeaseQueue` | if `MaxStalls = 0`, `Spec => ImplementsLeaseQueue` |

Assumptions (those of JobTable and JobQueue): finite sets of jobs and workers, `NoWorker` and `NoJob` outside
them, a positive `MaxAttempts`, a natural budget; nothing else about constants.

The inductive invariant of the first four is `IInv`: TypeOK; no process is
stalled while `stalls = 0`; LeaseHonoured; AttemptsBounded. LeaseHonoured and
AttemptsBounded need each other: that a failed job is put back with attempts to
spare follows from the attempts the lease returned being those of the row, and
that this stays so needs that nobody else leases or reaps the row. ExclusiveProcessing follows
from LeaseHonoured, because a row has one `locked_by`.

For OvershootIsBounded the invariant counts claims, `ClaimsBounded`: running
offline jobs, plus the workers that are between snapshot and commit and have
seen room. A snapshot that sees room finds fewer than `OfflineBudget` running,
so at most `OfflineBudget - 1` of them plus all workers; taking a job turns a
claim into a running job. Freezes and crashes do not matter to it.

The refinement takes `IInv` and `AbsentIsFresh` (a job without a row has no
holder and no tries), and one lemma per action of the queue: which of the
abstract steps it is, from who holds the row before and after. The condition is needed: after a freeze
a late `fail()` is no step of LeaseQueue, which is run `queue_resurrect`. The run
`queue_live` checks the same refinement, with `MaxStalls = 0`.

`TemporalProofs.tla` proves, for every number of chunks, workers, hosts and
encoders, and every mix of events:

| Theorem | States |
|---|---|
| `EncodingTypeCorrect` | `Spec => []TypeOK` |
| `RowsNeverVanish` | a chunk that has rows of an encoder always keeps some |
| `WritersReplaceTheirOwn` | a chunk has at most one window set per encoder and worker |
| `SuccessLeavesRows` | with one worker per host, a succeeded job of a chunk with a picture has left windows of its encoder, made from all frames |
| `RowsAreRegistered` | `[]QuietIsRegistered`: without crash and error, when the work is over, a version with rows is in the registry |
| `SteadyBackfillCompletes` | `[]SteadyBackfillIsComplete`: while the setting stays, with one worker per host, every chunk with a picture that a backfill wanted is encoded once its jobs are over, unless they died |

The only assumption is `TemporalConstants`. The invariants:

* `Typed`: TypeOK, and that a worker which is past `Start` knows its job and the
  encoder that its key names.
* `PileInv`, for `WritersReplaceTheirOwn`: while a worker is between DELETE and
  commit, every committed set of its own is among those its DELETE found. It
  has to be said of the worker and not of the job, because another worker may
  commit in between.
* `StoredInv`, for `SuccessLeavesRows`: all sets are whole, and each worker is
  `Reliable`: web.mp4 is in the cache when its ffmpeg starts, its frames are
  complete when it opens them, it has rows when it is past the commit; all this if
  its chunk has a picture. That
  nobody removes the files it needs is where the condition of one worker per
  host comes in; `RowsNeverVanish` keeps what succeeded jobs have left.
* `RegisterInv`, for `RowsAreRegistered`: an unregistered version with rows has a
  worker that is on its way to register it. Only a crash or an exception
  takes that worker from its way, so these two are excluded; retirements and a change of the
  setting are not.
* `SteadyInv`, for `SteadyBackfillCompletes`: StoredInv; every wish of a backfill has a
  row in the jobs table; a worker encodes with the encoder that the key of its
  job names *now*, and so did every job that succeeded. The last two are what
  another `temporal_model` breaks, as section 5 says.

`AlgorithmProofs.tla` proves three groups of theorems. First, for every chunk length, minimum, target and maximum,
every length of video and every set of utterance ends:

| Theorem | States |
|---|---|
| `SegmentTypeCorrect` | `SegSpec => []SegTypeOK` |
| `ChunksTileTheVideo` | the chunks cover the video without gap or overlap; only a whole video is shorter than the minimum tail |
| `SegmentsTileTheChunk` | the segments cover the chunk without gap or overlap, are at least the minimum long (unless the chunk is shorter) and shorter than maximum plus minimum |
| `WordsAreShown` | `[]WordsPlaced`: every word of the chunk is in one segment, the one on screen when it is spoken |
| `SegmentsShowFrames` | `[]SegmentsHaveFrames`: a segment as long as the gap has a keyframe inside, none shows one further away than the gap, or one picture twice |
| `WindowsCoverTheChunk` | `[]WindowsCover`: every frame is in a window, windows stay in the chunk and in order, and each is stored with a segment it overlaps |

Assumptions: `ChunkBounds` (the minimum tail is at most a chunk), `SegmentBounds`
(minimum ≤ target ≤ maximum; the loop stops less than a minimum early), `WindowBounds`
(a positive stride, at most a window; positive numbers of frames, and a positive gap). The
invariant `PlanInv` adds to SegmentsTile that `cur` never passes the end of the
chunk and that what is left of the chunk is nothing or at least the minimum:
this is what absorbing a short tail is for, and without it the loop could stop
early with a gap of up to half a second. That the nearest boundary exists
needs that a non-empty set of distances has a least one (`LeastElement` of FiniteOrders).
For the windows: turn k of the loop begins k strides into the chunk
(`TurnsMoveOn`); of the turns that begin at or before a frame the last covers it,
since a stride is no longer than a window; the centre of a window lies in a
segment because the segments tile the chunk.
For the words: the pass is a fold, and after k words (`PassPlacesWords`) each of
them stands in its segment and the pass is at the last of these; the next
word is not before it, because the words are sorted (`NumbersInOrder`).
For the frames: of the samples up to any time the last keyframe is less than a gap
behind (`KeepCovers`), so one is near every time of the chunk
(`KeyframesAreNear`); `PickStaysDistinct` follows `pick_distinct`.

Second, for every timeline of ordered segments, every set of
titles, minimum and order of the candidates:

| Theorem | States |
|---|---|
| `TopicTypeCorrect` | `TopicSpec => []TopicTypeOK` |
| `TopicsAreLongEnough` | no topic is shorter than the relaxed minimum, once there is a cut |

Assumptions: `TopicBounds`, `TimelinesType`. The argument (`CutKeepsLong`): a new cut has
one neighbour on each side, which `_long_enough` finds; the two topics it makes
are measured, all others keep their ends.

Third, for every set of requests and every index, and segments that vanish meanwhile:

| Theorem | States |
|---|---|
| `OffLanesAreOnlyReread` | `SearchSpec => []OffLaneOnlyReread`: no router turns on a lane that the configuration turned off and the request did not pin; a lane that is off neither adds nor removes a candidate, and two segments change places for its sake only if one of them was reranked by a passage with its text; without a reranker the answer is the same |
| `AgreementIsKept` | `[]AgreementKept`: a segment that every lane which found it, and the reranker, ranked behind another is never shown before that one |
| `HitsAreExplained` | `[]HitsExplained`: no two hits lie near each other; a loaded candidate that is no hit lost to better ones: a full page, one near it, or the share of its video |

Assumptions: `IndexesType` (what a lane returns is sorted by its score, which may be
negative), `RequestsType`, `UnitType`, `LimitsType`, `SpanType`, `TextsType`, `MixType` (weights of the mix are
not negative). `SearchInv` says that the plan is a function of the request, and the answer one
of the request, the plan, the index and the segments still there.
`OffLanesAreOnlyReread` needs that each of the three routers multiplies, or takes
away, a weight (`LaneStaysOff`), and that the candidates of a lane without weight
are not asked for (`OffLaneUnread`). So head, fused and visual scores are the same
with and without the lane; the passages are not. A segment whose passage does not
hold the text of the lane has the same rating in both searches (`RatedAlike`), hence
the same final score, and two of them are ordered alike (`ComparedAlike`): the final
order is decided by scores and by the head alone.

`AgreementIsKept` follows an order through the whole search: pooling and cutting
leave each lane's list sorted and without repetition (`PoolStaysBest`, `ListsAreBest`); normalising
and dividing by the rank, rounded down as they are, do not turn scores around
(`MinMaxGrows`, `BetterRankShare`), so the fused score does not (`FusedGrows`);
a tie is decided by the order of meeting, which the lanes agree on too
(`FusedInOrder`); the visual part and the reranker, which sees a prefix of the
head, do not turn it around either (`FinalScoresGrow`, `ScoresInOrder`). For a pair of
which one was reranked and the other not, it is the first that was reranked, and the
discount of 9/10 falls on the other. `SearchAnswers` puts it together.
`HitsAreExplained` is about greedy suppression: after k segments of the order each is
kept, or near a kept one before it, or its video has its share (`SuppressThins`), and
cutting the page leaves those reasons or is one (`PageExplains`).

`LibraryProofs.tla` proves, for every number of clips, videos
and workers, every `MaxAttempts` and every mix of crashes, stalls, failures and
operations of the user:

| Theorem | States |
|---|---|
| `LibraryTypeCorrect` | `LibrarySpec => []LibraryTypeOK` |
| `ReferencesAreKept` | `[]ReferencesHold`: no job, chunk or clip refers to a deleted video, an indexed clip has a ready one |
| `MediaAreKept` | `[]MediaKept`: a video that was handed in has its original, or all that comes of it; the original is whole unless a process was frozen |
| `OneVideoOfAClip` | `[]OneVideoPerClip`: a clip is in the library once unless a process was frozen |

Assumptions: `LibraryConstants` and those of JobTable. None of the properties is
inductive; the strengthening has three layers.

* `IdInv` says who may name a video: the id under which a worker
  has stored an object has no row yet and is no other worker's (`FreshIsNew`); a
  purge is only of deleted rows (`PurgedIsDeleted`); a probe, queued or running,
  is of a video that was submitted (`ProbedIsSubmitted`). Without the last, a probe
  could drop the original of a row that is still to be committed. `LibrarySteps`,
  `ProbeRows` and `ClipSteps` list who writes which row.
* `KeptInv` adds what a probe relies on between its steps: before it
  plans, the web rendition is stored; before it drops the original, the chunks are
  planned as well – or the video is gone meanwhile (`AtWork`).
* As long as nobody was frozen, `ClipInv` adds that the worker of a fetch owns
  its row (`Alone`), so that only one works on a clip; then no `.part` file is
  renamed under a writer (`Whole`), a clip whose video was fetched is linked to it
  and whoever fetches has none (`Linking`).

`VideoProofs.tla` proves, for every number of chunks and workers, every
`MaxAttempts` and every mix of events:

| Theorem | States |
|---|---|
| `PipelineTypeCorrect` | `Spec => []TypeOK` |
| `IndexFindsFrames` | `[]IndexedAfterExtract`: no index job of a chunk before its frames are stored, whatever happens |
| `ReadyMeansComplete` | `[]ReadyIsComplete`: without a frozen process or a failing transaction a ready video has every chunk done |
| `DoneStaysDone` | `DoneIsFinal`: under the same condition a chunk that is done stays done |

Assumption: `PipelineConstants`. `OrderInv` says that the row of a job at work
exists, that whoever is about to enqueue the index job of a chunk has extracted
it, and that only an extracted chunk is done. `SafeInv` adds, while no process
was frozen and no transaction failed, that each worker owns the row of its job
(`Owned`), so that no two run one job, and therefore that the worker at work, or
about to record an error, works on a chunk nobody has finished (`Undone`). Both
conditions are needed: a frozen worker may record its error after the next one
is done, and when the last transaction of `index_chunk` fails, its `except`
records the error on the chunk it has just completed.

`VideoEndProofs.tla` goes on from there to what is true when the work is over,
under the same assumption:

| Theorem | States |
|---|---|
| `FailedMeansReason` | `[]FailedHasReason`: without death and freeze, a failed video has a failed chunk, at every moment |
| `DoneMeansEncoded` | `[]DoneIsEncoded`: without a death and with at most one failing transaction, every searchable chunk was handed to the encoder |
| `CrashesLoseNothing` | `[]CrashLosesNoChunk`: fewer deaths than attempts, and nothing else, leave every chunk done |
| `QuietMeansSettled` | where work raises and nothing else goes wrong (`OnlyErrors`), the video is settled when the work is over |
| `VideoLifeUntilTrouble` | every step is one of VideoLife or invisible, until the first freeze, failing transaction, second upload or retry that was not offered |
| `PipelineImplementsVideoLife` | `Spec => ImplementsVideoLife`, if the bounds exclude these |

`VideoLifeUntilTrouble` is `Spec => LivesAsVideoLife`, which `video_faults` checks.
`OnlyErrors` is what the run `video_live` gives (`ErrorBudget`); the number of
errors, crashes and retries is any. Each theorem has an invariant that says in whose hands the
remaining work is:

* `CalmInv`, for `FailedMeansReason`: a running job is in the hands of a worker; an index
  job exists only once the extract job of its chunk is over; a chunk that failed
  has a job that is beyond help and nothing that comes after it. The second is
  false once a process may die after it enqueued the index job, hence the
  exclusion of deaths (section 5).
* `EncodeInv`, for `DoneMeansEncoded`: a done chunk that was not handed on has
  a worker at its last transaction, or on the way to record that this one
  failed. With a second failing transaction it may record nothing.
* `StageInv`: a job that has done its part has left the rows of the next stage, or the
  chunk done. `FirstInv`: a video that was submitted has a probe, a chunk has an extract job.
  `CrashInv`: every row has had one attempt for each death at most, and one more
  while it is run, so no job dies. Together they are `CrashesLoseNothing`: when nothing is
  queued or running, the chain of stages ends in a done chunk.
* `SettleInv`, for `QuietMeansSettled`: the one probe never exhausts its attempts; a job
  that is dying has failed its chunk; and `Declared`: when all chunks are
  terminal, the video is settled, or some worker has seen it unsettled
  (`saw`) and has its `finalize_if_complete` still before it. That the last of
  two concurrent workers is such a one is the heart of the matter.
* `YoungInv`, for the refinement: before a video is taken up it has no chunks
  and no jobs but the probe's.

`EvaluationProofs.tla` proves, for every set of candidates, sources and starts of tools:

| Theorem | States |
|---|---|
| `DatasetIsWhatWasApproved` | `CurationSpec => []DatasetFollowsReview` |

and for every set of parts, cuts, queries, experiments, limit of the search, `MaxIou` and
`PerQuery`, whatever is rebuilt or deleted between search and mining:

| Theorem | States |
|---|---|
| `MinedNegativesAreWrong` | `EvalSpec => []NegativesAreWrong` |
| `ScoresAgree` | `EvalSpec => []ScoresConsistent`: no metric of a ranking exceeds its ideal or contradicts another, whatever was found and whatever is true |

Assumptions: `CurationConstants`, `EvaluationConstants`, `MetricsConstants`; a
labelled query has ranges of its own video only, and at least one; `Scale`, which stands for 1.0,
is a multiple of every rank up to `HitLimit`, so that precisions are exact.

* `CurationInv`: types, and as long as nothing happened that the tools do not cope with
  (`Calm`), at most one tool is open (`Sane`) and its copies agree with each other,
  and with the files as far as it has not written them (`Sound`). Between the two
  saves the dataset may be behind the candidates and never ahead: this is why a
  tool that is cut off loses a query and does not invent one.
* `EvalInv`: the property itself, with: recorded hits are segments, there or
  gone, of the video of the query, at most `HitLimit` of them; who asks belongs to an experiment that is still
  running; what is not done has no results. The arithmetic is in `AboveIsAnOrder`:
  comparing overlaps as fractions is a strict order because the union is never 0, and
  so the best of a finite set of ranges exists (`MaximalElement`); `FirstAreFew`
  bounds what is taken from the ranks that are kept, without sorting them.
* `ScoresAgree` is about one loop with two ways of taking a range. Ranks credited and
  ranges left always add up to all ranges (`TakenAndLeft`), which bounds recall,
  gain and average precision (`FoundAreFew`, `GainIsIdeal`, `AverageIsShare`). That average precision
  falls with the IoU compares two runs of the loop, with a low and a high
  threshold: whatever the low run has left the high run has left too
  (`MoreIsLeft`), because a range that is the best of many stays the best of some
  (`BestStays`). Hence the low run has credited as many or more at every rank, and
  each precision of the high run is at most one of the low run (`AverageFalls`). As long as
  nothing is credited nothing is taken, so a hit that overlaps enough finds its
  range (`ScoredIfFound`).

Only model-checked:

* Liveness, `JobsSettle` and `VideoSettles`: fairness and ENABLED are beyond the
  prover. (`QuietMeansSettled` is the safety half of the second.)
* `PlansTypeOK`, the types of a run's disjoint sum: its parts are proved
  (`SegmentTypeCorrect`, `TopicTypeCorrect`).


## 7. Not modelled, and plan

Left for later, in this order:

1. A done chunk that is indexed again while it is being encoded or captioned,
   once the rule for embeddings of deleted segments is known
   (`models/embedding.py` is not in the repository).
2. Two `build_timeline` jobs of one video at once: nothing in the database tells
   their topics apart, and no document says what should happen.
3. `web_label` and the annotation queries of an import.

Left out for good: inference in the models and their lazy singletons (built under
one lock), the captions backfill (one loop over rows without a caption), metrics,
the statistics of training and reports, text matching in the planner, what the
candidate generators see in a video, rendering and polling in the frontend, CLI
parsing: computation or I/O without state that others depend on. The file lock
of the media cache is taken for granted.
