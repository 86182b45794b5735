--------------------------- MODULE BenchmarkLibrary ---------------------------
(***************************************************************************)
(* How videos enter and leave the library besides the upload page: clips   *)
(* of a benchmark are imported and linked (datasets/importer.py), fetched  *)
(* by jobs (pipeline/fetch.py) or uploaded by eval/upload_real.py, probed, *)
(* indexed, and deleted (api/routers/videos.py) under all of that.         *)
(*                                                                         *)
(* One action is one committed transaction or the external work between    *)
(* two, on the job rows of JobTable.  The chunks of a video are one step   *)
(* here, from the last transaction of probe_video to the verdict of        *)
(* finalize_if_complete; VideoPipeline has what happens in between.        *)
(* The annotation queries, which nothing in this module reads, are left    *)
(* out; object keys under videos/{id}/ are the original and the rest.      *)
(***************************************************************************)
EXTENDS Integers, FiniteSets, PriorityBands

CONSTANTS
  Clips,           \* external ids of the dataset
  Videos, NoVideo, \* video ids ever created; NULL
  Workers, NoWorker, NoJob, MaxAttempts,  \* as in VideoPipeline
  Budgets          \* bound: the mixes of events, how often each may happen

(* A process dies, a process freezes, a download or a probe raises, a clip *)
(* is gone from its site, an operation of the user.                        *)
Kinds == {"crash", "stall", "error", "gone", "import", "fetch", "upload",
          "delete", "retry"}

Fetch(c) == <<"fetch", c>>
Probe(v) == <<"probe", v>>
Jobs == {Fetch(c) : c \in Clips} \cup {Probe(v) : v \in Videos}
Type(j) == j[1]

(* Probes of clips come before fetches, those of uploads even more so *)
Priority == [j \in Jobs |-> IF Type(j) = "fetch" THEN FETCH
                                                 ELSE probe_priority(BENCHMARK)]
OfflineBudget == 0

INSTANCE JobTable

ASSUME LibraryConstants ==
  /\ IsFiniteSet(Workers) /\ NoWorker \notin Workers /\ NoVideo \notin Videos
  /\ MaxAttempts \in Nat \ {0} /\ NoJob \notin Jobs
  /\ Budgets # {} /\ Budgets \subseteq [Kinds -> Nat]

VARIABLES
  jobs,     \* the jobs table
  clips,    \* dataset_videos: status ("none" before the import) and video_id
  library,  \* videos: title, source and status; planned once it has chunk jobs
  original, \* the videos with their original in the object store
  torn,     \* ... of which only a part was on disk when it was stored
  web,      \* ... with web rendition, poster and audio
  purging,  \* delete_video() calls between their commit and delete_prefix()
  disk,     \* the downloads on disk: the .part.mp4 file and the .mp4 file
  pc, job, seen, fresh,  \* each worker; fresh is the id of the row it adds
  frozen, used           \* as in VideoPipeline

dataVars   == <<clips, library, original, torn, web, purging, disk>>
workerVars == <<pc, job, seen, fresh>>
libraryVars == <<jobs, dataVars, workerVars, frozen, used>>

NoRowYet == [title |-> "none", source |-> "none", status |-> "none", planned |-> FALSE]
Deleted  == [NoRowYet EXCEPT !.status = "deleted"]
Exists(v) == library[v].status \notin {"none", "deleted"}

Places == {"idle", "start", "download", "downloading", "rename", "gone",
           "register", "commit", "unlink", "work", "plan", "tidy", "ok", "error", "fatal"}

(* Every variable has its type. *)
LibraryTypeOK ==
  /\ jobs \in [Jobs -> Row]
  /\ clips \in [Clips -> [status : {"none", "pending", "fetched", "unavailable", "indexed"},
                          video : Videos \cup {NoVideo}]]
  /\ library \in [Videos -> [title : Clips \cup {"none"},
                             source : {"none", "upload", "dataset"},
                             status : {"none", "uploading", "uploaded", "processing",
                                       "ready", "failed", "deleted"},
                             planned : BOOLEAN]]
  /\ original \subseteq Videos /\ web \subseteq Videos /\ purging \subseteq Videos
  /\ torn \subseteq Videos
  /\ disk \in [Clips -> [part : {"none", "writing", "written"},
                         dest : {"none", "torn", "whole"}]]
  /\ pc \in [Workers -> Places] /\ job \in [Workers -> Jobs \cup {NoJob}]
  /\ seen \in [Workers -> Nat] /\ fresh \in [Workers -> Videos \cup {NoVideo}]
  /\ frozen \subseteq Workers /\ used \in [Kinds -> Nat]

LibraryInit ==
  /\ jobs = [j \in Jobs |-> NoRow]
  /\ clips = [c \in Clips |-> [status |-> "none", video |-> NoVideo]]
  /\ library = [v \in Videos |-> NoRowYet]
  /\ original = {} /\ torn = {} /\ web = {} /\ purging = {}
  /\ disk = [c \in Clips |-> [part |-> "none", dest |-> "none"]]
  /\ pc = [w \in Workers |-> "idle"] /\ job = [w \in Workers |-> NoJob]
  /\ seen = [w \in Workers |-> 0] /\ fresh = [w \in Workers |-> NoVideo]
  /\ frozen = {} /\ used = [k \in Kinds |-> 0]

Spend(k) ==
  /\ \E b \in Budgets : used[k] < b[k] /\ \A i \in Kinds : used[i] <= b[i]
  /\ used' = [used EXCEPT ![k] = @ + 1]

(* An id no row, object or open transaction has had *)
Unused(v) == /\ library[v] = NoRowYet /\ v \notin original
             /\ \A w \in Workers : fresh[w] # v

-----------------------------------------------------------------------------
(* Commands and API calls *)

(* link_library_videos: a row whose title is the clip, fetched ones first; *)
(* of several the last one the query returns                               *)
Matches(c) ==
  LET of(s) == {v \in Videos : Exists(v) /\ library[v].title = c /\ library[v].source = s}
  IN  IF of("dataset") # {} THEN of("dataset") ELSE of("upload")

(* Mutant: a clip gets the status of its video *)
LinkedAsIs(row, v) == [status |-> library[v].status, video |-> v]

Linked(row, v) ==
  [status |-> IF library[v].status = "ready" THEN "indexed" ELSE "fetched", video |-> v]

(* Dataset rows without a video get one of those that match *)
LinkLibraryVideos(rows, pick) ==
  [c \in Clips |-> IF rows[c].status = "none" \/ rows[c].video # NoVideo \/ Matches(c) = {}
                     THEN rows[c] ELSE Linked(rows[c], pick[c])]

(* import_split() of any subset; `dataset status` links without new clips *)
ImportSplit ==
  /\ Spend("import")
  /\ \E ids \in SUBSET Clips, pick \in [Clips -> Videos] :
       /\ \A c \in Clips : Matches(c) # {} => pick[c] \in Matches(c)
       /\ clips' = LinkLibraryVideos(
            [c \in Clips |-> IF c \in ids /\ clips[c].status = "none"
                               THEN [clips[c] EXCEPT !.status = "pending"]
                               ELSE clips[c]], pick)
  /\ UNCHANGED <<jobs, library, original, torn, web, purging, disk, workerVars, frozen>>

(* enqueue_fetches() *)
EnqueueFetches ==
  /\ Spend("fetch")
  /\ jobs' = [j \in Jobs |-> IF Type(j) = "fetch" /\ clips[j[2]].status = "pending"
                               THEN Enqueued(jobs[j]) ELSE jobs[j]]
  /\ UNCHANGED <<dataVars, workerVars, frozen>>

(* upload_all() skips a title the library has, whatever became of it *)
TitleTaken(c) == \E v \in Videos : Exists(v) /\ library[v].title = c

(* Else it calls create_video(), ... (People upload other titles here.) *)
CreateVideo(v, c) ==
  /\ Spend("upload") /\ Unused(v) /\ ~TitleTaken(c)
  /\ library' = [library EXCEPT ![v] = [title |-> c, source |-> "upload",
                                        status |-> "uploading", planned |-> FALSE]]
  /\ UNCHANGED <<jobs, clips, original, torn, web, purging, disk, workerVars, frozen>>

(* ... the PUT to the object store, ... *)
PutOriginal(v) ==
  /\ library[v].status = "uploading" /\ v \notin original
  /\ original' = original \cup {v}
  /\ UNCHANGED <<jobs, clips, library, torn, web, purging, disk, workerVars, frozen, used>>

(* ... and complete_upload(), called once (VideoPipeline repeats it) *)
CompleteUpload(v) ==
  /\ library[v].status = "uploading" /\ v \in original
  /\ library' = [library EXCEPT ![v].status = "uploaded"]
  /\ jobs' = [jobs EXCEPT ![Probe(v)] = Enqueued(@)]
  /\ UNCHANGED <<clips, original, torn, web, purging, disk, workerVars, frozen, used>>

(* retry_video(), where the page offers it; the chunks start afresh *)
RetryVideo(v) ==
  /\ Spend("retry") /\ library[v].status = "failed"
  /\ library' = [library EXCEPT ![v].status = "processing"]
  /\ jobs' = [jobs EXCEPT ![Probe(v)] = Revived(@)]
  /\ UNCHANGED <<clips, original, torn, web, purging, disk, workerVars, frozen>>

(* The foreign keys: jobs go with their video, dataset rows let go of it.  *)
(* Mutant: the job rows stay.                                              *)
JobsStay(v)     == jobs
WithoutJobs(v)  == [jobs EXCEPT ![Probe(v)] = NoRow]
WithoutLinks(v) == [c \in Clips |-> IF clips[c].video = v
                                      THEN [clips[c] EXCEPT !.video = NoVideo]
                                      ELSE clips[c]]

(* delete_video(): the row with all that depends on it, ... *)
DeleteVideo(v) ==
  /\ Spend("delete") /\ Exists(v)
  /\ library' = [library EXCEPT ![v] = Deleted]
  /\ jobs' = WithoutJobs(v)
  /\ clips' = WithoutLinks(v)
  /\ purging' = purging \cup {v}
  /\ UNCHANGED <<original, torn, web, disk, workerVars, frozen>>

(* ... then its objects, unless the API dies first *)
DeletePrefix(v) ==
  /\ v \in purging
  /\ purging' = purging \ {v}
  /\ \/ /\ original' = original \ {v} /\ web' = web \ {v}
        /\ UNCHANGED used
     \/ Spend("crash") /\ UNCHANGED <<original, web>>
  /\ UNCHANGED <<jobs, clips, library, torn, disk, workerVars, frozen>>

-----------------------------------------------------------------------------
(* The worker around the handlers; an UPDATE of a row that is gone is lost *)

At(w, place) == pc[w] = place /\ w \notin frozen
In(w, place, type) == At(w, place) /\ Type(job[w]) = type
Goto(w, place) == pc' = [pc EXCEPT ![w] = place]
Subject(w) == job[w][2]

Put(j, row) == IF jobs[j] = NoRow THEN jobs ELSE [jobs EXCEPT ![j] = row]

Lease(w) ==
  /\ At(w, "idle")
  /\ \E j \in MostUrgent(Leasable(jobs, Jobs, -1000, TRUE)) :
       /\ jobs' = [jobs EXCEPT ![j] = Leased(@, w)]
       /\ job' = [job EXCEPT ![w] = j]
       /\ seen' = [seen EXCEPT ![w] = jobs[j].attempts + 1]
  /\ Goto(w, "start")
  /\ UNCHANGED <<dataVars, fresh, frozen, used>>

Release(w) ==
  /\ Goto(w, "idle")
  /\ job' = [job EXCEPT ![w] = NoJob]
  /\ seen' = [seen EXCEPT ![w] = 0]
  /\ fresh' = [fresh EXCEPT ![w] = NoVideo]

Finish(w) ==
  /\ \/ At(w, "ok") /\ jobs' = Put(job[w], Completed(jobs[job[w]]))
     \/ /\ At(w, "error") \/ At(w, "fatal")
        /\ jobs' = Put(job[w], Failed(jobs[job[w]], seen[w], pc[w] = "error"))
  /\ Release(w)
  /\ UNCHANGED <<dataVars, frozen, used>>

(* A step of a handler that stores nothing *)
Move(w, place) ==
  /\ Goto(w, place)
  /\ UNCHANGED <<jobs, dataVars, job, seen, fresh, frozen>>
Step(w, from, type, to) == In(w, from, type) /\ Move(w, to) /\ UNCHANGED used

(* Rows whose worker is gone, or frozen for longer than the lease timeout *)
Reap(w, j) ==
  /\ At(w, "idle") /\ jobs[j].status = "running"
  /\ \A u \in Workers : job[u] = j => u \in frozen
  /\ jobs' = [jobs EXCEPT ![j] = Reaped([@ EXCEPT !.stale = TRUE])]
  /\ UNCHANGED <<dataVars, workerVars, frozen, used>>

BackoffElapsed(j) ==
  /\ jobs[j].delayed
  /\ jobs' = [jobs EXCEPT ![j].delayed = FALSE]
  /\ UNCHANGED <<dataVars, workerVars, frozen, used>>

Crash(w) ==
  /\ pc[w] # "idle" /\ Spend("crash")
  /\ Release(w) /\ frozen' = frozen \ {w}
  /\ UNCHANGED <<jobs, dataVars>>

Stall(w) ==
  /\ pc[w] # "idle" /\ Spend("stall")
  /\ frozen' = frozen \cup {w}
  /\ UNCHANGED <<jobs, dataVars, workerVars>>

Resume(w) ==
  /\ w \in frozen /\ frozen' = frozen \ {w}
  /\ UNCHANGED <<jobs, dataVars, workerVars, used>>

-----------------------------------------------------------------------------
(* fetch_dataset_video *)

(* Mutant: the clip is fetched whatever happened before *)
NotFetchedBefore(c) == FALSE
FetchedBefore(c)    == clips[c].video # NoVideo

(* Its first transaction, and what is on disk from an earlier attempt *)
FetchStart(w) ==
  /\ In(w, "start", "fetch")
  /\ Move(w, IF FetchedBefore(Subject(w)) THEN "ok"
             ELSE IF disk[Subject(w)].dest # "none" THEN "register" ELSE "download")
  /\ UNCHANGED used

(* Mutant: the download goes straight to its name *)
WrittenInPlace(files) == [files EXCEPT !.dest = "torn"]
Writing(files)        == [files EXCEPT !.part = "writing"]

OnDisk(w, files) ==
  /\ disk' = [disk EXCEPT ![Subject(w)] = files]
  /\ UNCHANGED <<jobs, clips, library, original, torn, web, purging, job, seen, fresh,
                 frozen, used>>

(* adapter.fetch() writes the .part file, ... *)
StartDownload(w) ==
  /\ In(w, "download", "fetch")
  /\ OnDisk(w, Writing(disk[Subject(w)]))
  /\ Goto(w, "downloading")

EndDownload(w) ==
  /\ In(w, "downloading", "fetch")
  /\ OnDisk(w, [disk[Subject(w)] EXCEPT !.part = IF @ = "none" THEN @ ELSE "written"])
  /\ Goto(w, "rename")

(* ... which is renamed when it is complete, unless another run did *)
RenameDownload(w) ==
  /\ In(w, "rename", "fetch")
  /\ LET files == disk[Subject(w)]
     IN IF files.part = "none" THEN OnDisk(w, files) /\ Goto(w, "error")
        ELSE /\ OnDisk(w, [part |-> "none",
                           dest |-> IF files.part = "written" THEN "whole" ELSE "torn"])
             /\ Goto(w, "register")

DownloadFails(w) ==
  /\ In(w, "downloading", "fetch")
  /\ \/ Spend("error") /\ Move(w, "error")
     \/ Spend("gone") /\ Move(w, "gone")

(* Unavailable *)
MarkUnavailable(w) ==
  /\ In(w, "gone", "fetch")
  /\ clips' = [clips EXCEPT ![Subject(w)].status = "unavailable"]
  /\ Goto(w, "fatal")
  /\ UNCHANGED <<jobs, library, original, torn, web, purging, disk, job, seen, fresh, frozen, used>>

(* The last transaction: the object is stored before the row is committed *)
StoreClip(w) ==
  /\ In(w, "register", "fetch")
  /\ disk[Subject(w)].dest # "none"
  /\ \E v \in Videos :
       /\ Unused(v)
       /\ fresh' = [fresh EXCEPT ![w] = v]
       /\ original' = original \cup {v}
       /\ torn' = IF disk[Subject(w)].dest = "torn" THEN torn \cup {v} ELSE torn
  /\ Goto(w, "commit")
  /\ UNCHANGED <<jobs, clips, library, web, purging, disk, job, seen, frozen, used>>

(* dest.stat() of a file another run has unlinked *)
FileGone(w) == In(w, "register", "fetch") /\ disk[Subject(w)].dest = "none"
                 /\ Move(w, "error") /\ UNCHANGED used

CommitClip(w) ==
  /\ In(w, "commit", "fetch")
  /\ library' = [library EXCEPT ![fresh[w]] =
       [title |-> Subject(w), source |-> "dataset", status |-> "uploaded", planned |-> FALSE]]
  /\ clips' = [clips EXCEPT ![Subject(w)] = [status |-> "fetched", video |-> fresh[w]]]
  /\ jobs' = [jobs EXCEPT ![Probe(fresh[w])] = Enqueued(@)]
  /\ fresh' = [fresh EXCEPT ![w] = NoVideo]
  /\ Goto(w, "unlink")
  /\ UNCHANGED <<original, torn, web, purging, disk, job, seen, frozen, used>>

UnlinkDownload(w) ==
  /\ In(w, "unlink", "fetch")
  /\ OnDisk(w, [disk[Subject(w)] EXCEPT !.dest = "none"])
  /\ Goto(w, "ok")

-----------------------------------------------------------------------------
(* probe_video *)

ProbeStart(w) ==
  /\ In(w, "start", "probe")
  /\ LET v == Subject(w)
     IN \/ ~Exists(v) /\ Goto(w, "fatal") /\ UNCHANGED library
        \/ library[v].status = "ready" /\ Goto(w, "ok") /\ UNCHANGED library
        \/ /\ Exists(v) /\ library[v].status # "ready"
           /\ library' = [library EXCEPT ![v].status = "processing"]
           /\ Goto(w, "work")
  /\ UNCHANGED <<jobs, clips, original, torn, web, purging, disk, job, seen, fresh, frozen, used>>

(* The original is downloaded; what is derived from it is stored unless an *)
(* earlier attempt did.  Then the row is loaded again.                     *)
ProbeWork(w) ==
  /\ In(w, "work", "probe")
  /\ IF Subject(w) \in original
       THEN web' = web \cup {Subject(w)} /\ Goto(w, "plan")
       ELSE UNCHANGED web /\ Goto(w, "error")
  /\ UNCHANGED <<jobs, clips, library, original, torn, purging, disk, job, seen, fresh, frozen, used>>

ProbeRaises(w) ==
  /\ In(w, "work", "probe")
  /\ Spend("error") /\ Move(w, "error")

KeepsOriginal(v) == library[v].source = "upload"

(* The chunk rows and their jobs; a row that is gone raises *)
ProbePlan(w) ==
  /\ In(w, "plan", "probe")
  /\ LET v == Subject(w)
     IN IF Exists(v)
          THEN /\ library' = [library EXCEPT ![v].planned = TRUE]
               /\ Goto(w, IF KeepsOriginal(v) THEN "ok" ELSE "tidy")
          ELSE UNCHANGED library /\ Goto(w, "error")
  /\ UNCHANGED <<jobs, clips, original, torn, web, purging, disk, job, seen, fresh, frozen, used>>

(* The original of a clip only costs disk *)
ProbeTidy(w) ==
  /\ In(w, "tidy", "probe")
  /\ original' = original \ {Subject(w)}
  /\ Goto(w, "ok")
  /\ UNCHANGED <<jobs, clips, library, torn, web, purging, disk, job, seen, fresh, frozen, used>>

(* The chunks end and finalize_if_complete() settles the video *)
FinalizeVideo(v) ==
  /\ library[v].planned /\ library[v].status \notin {"ready", "failed"}
  /\ v \in web
  /\ \E verdict \in {"ready", "failed"} :
       /\ library' = [library EXCEPT ![v].status = verdict]
       /\ clips' = [c \in Clips |->
            IF verdict = "ready" /\ library[v].source # "upload" /\ clips[c].video = v
              THEN [clips[c] EXCEPT !.status = "indexed"] ELSE clips[c]]
  /\ UNCHANGED <<jobs, original, torn, web, purging, disk, workerVars, frozen, used>>

-----------------------------------------------------------------------------
User == \/ ImportSplit \/ EnqueueFetches
        \/ \E v \in Videos, c \in Clips : CreateVideo(v, c)
        \/ \E v \in Videos : \/ PutOriginal(v) \/ CompleteUpload(v) \/ RetryVideo(v)
                              \/ DeleteVideo(v) \/ DeletePrefix(v)

FetchDatasetVideo(w) ==
  \/ FetchStart(w) \/ StartDownload(w) \/ EndDownload(w) \/ RenameDownload(w)
  \/ DownloadFails(w) \/ MarkUnavailable(w) \/ StoreClip(w) \/ FileGone(w) \/ CommitClip(w)
  \/ UnlinkDownload(w)

ProbeVideo(w) == ProbeStart(w) \/ ProbeWork(w) \/ ProbeRaises(w) \/ ProbePlan(w)
                   \/ ProbeTidy(w)

LibraryNext ==
  \/ User
  \/ \E j \in Jobs : BackoffElapsed(j)
  \/ \E v \in Videos : FinalizeVideo(v)
  \/ \E w \in Workers :
       \/ Lease(w) \/ FetchDatasetVideo(w) \/ ProbeVideo(w) \/ Finish(w)
       \/ Crash(w) \/ Stall(w) \/ Resume(w) \/ \E j \in Jobs : Reap(w, j)

LibrarySpec == LibraryInit /\ [][LibraryNext]_libraryVars

-----------------------------------------------------------------------------
(* Whatever process dies between the object store and the database, a video *)
(* that was handed in can be processed and shown: its original is stored,   *)
(* or its chunks are planned and everything later stages need is stored.    *)
(* (fetch stores before it commits, probe drops the original after it has   *)
(* planned, delete drops the row before the objects.)  And it is the whole  *)
(* file, whenever the download was cut off, unless a process was frozen for *)
(* longer than its lease: two downloads then share one .part file.          *)
MediaKept ==
  \A v \in Videos : Exists(v) /\ library[v].status # "uploading" =>
    /\ v \in original \/ (library[v].planned /\ v \in web)
    /\ v \in torn => used["stall"] > 0

(* A clip is in the library once, though its fetch may be repeated after a  *)
(* crash at any point and it may be imported, linked and enqueued again.    *)
(* (A process that is frozen for longer than its lease can break this: the  *)
(* last transaction of the fetch does not look whether the clip has a video *)
(* by now.)                                                                 *)
OneVideoPerClip ==
  used["stall"] = 0 =>
    \A c \in Clips :
      Cardinality({v \in Videos : library[v].title = c /\ library[v].source = "dataset"}) <= 1

(* No row refers to a video that was deleted, under whichever handler: jobs *)
(* and chunks go with it and do not come back, and dataset rows let go.     *)
(* A clip that counts as indexed is linked to a video that is ready.        *)
ReferencesHold ==
  /\ \A v \in Videos : ~Exists(v) => jobs[Probe(v)] = NoRow /\ ~library[v].planned
  /\ \A c \in Clips : LET v == clips[c].video IN v # NoVideo =>
       /\ Exists(v)
       /\ clips[c].status = "indexed" => library[v].status = "ready"
=============================================================================
