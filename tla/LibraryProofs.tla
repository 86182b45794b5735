---------------------------- MODULE LibraryProofs ----------------------------
(***************************************************************************)
(* Theorems about BenchmarkLibrary, for every set of clips, videos and     *)
(* workers and every mix of events: the types and the identities, then     *)
(* what the library keeps of a clip, its media until nothing needs them    *)
(* and one video of it.                                                    *)
(***************************************************************************)
EXTENDS BenchmarkLibrary, FiniteSetTheorems, TLAPS

-----------------------------------------------------------------------------
(* The rows of the job table *)

LEMMA RowStep ==
  ASSUME NEW row \in Row
  PROVE  /\ NoRow \in Row
         /\ Enqueued(row) \in Row /\ Revived(row) \in Row /\ Completed(row) \in Row
         /\ \A w \in Workers : Leased(row, w) \in Row
         /\ \A n \in Nat, b \in BOOLEAN : Failed(row, n, b) \in Row
         /\ Reaped([row EXCEPT !.stale = TRUE]) \in Row
         /\ [row EXCEPT !.delayed = FALSE] \in Row
<1> USE DEF Row, JobStatus
<1>1. NoRow \in Row /\ Enqueued(row) \in Row /\ Revived(row) \in Row /\ Completed(row) \in Row
  BY DEF Enqueued, Revived, Completed, QueuedRow, NoRow
<1>2. \A w \in Workers : Leased(row, w) \in Row
  BY DEF Leased
<1>3. Retried(row) \in Row /\ Died(row) \in Row
  BY DEF Retried, Died
<1>4. \A n \in Nat, b \in BOOLEAN : Failed(row, n, b) \in Row
  BY <1>3 DEF Failed
<1>5. Reaped([row EXCEPT !.stale = TRUE]) \in Row
  BY DEF Reaped, Reapable
<1>6. [row EXCEPT !.delayed = FALSE] \in Row
  OBVIOUS
<1> QED BY <1>1, <1>2, <1>4, <1>5, <1>6

(* A fetch is about a clip, a probe about a video, and none is both. *)
LEMMA JobParts ==
  /\ \A j \in Jobs : \/ Type(j) = "fetch" /\ j[2] \in Clips /\ j = Fetch(j[2])
                     \/ Type(j) = "probe" /\ j[2] \in Videos /\ j = Probe(j[2])
  /\ \A c \in Clips : Fetch(c) \in Jobs /\ Type(Fetch(c)) = "fetch" /\ Fetch(c)[2] = c
  /\ \A v \in Videos : Probe(v) \in Jobs /\ Type(Probe(v)) = "probe" /\ Probe(v)[2] = v
  BY DEF Jobs, Type, Fetch, Probe

LEMMA ProbesDiffer ==
  ASSUME NEW u, NEW v, Probe(u) = Probe(v)
  PROVE  u = v
  BY DEF Probe

(* What Lease does to the queued job it takes. *)
LeaseOf(w, j) ==
  /\ j \in Jobs /\ jobs[j].status = "queued"
  /\ jobs' = [jobs EXCEPT ![j] = Leased(@, w)]
  /\ job' = [job EXCEPT ![w] = j]
  /\ seen' = [seen EXCEPT ![w] = jobs[j].attempts + 1]

LEMMA LeaseParts ==
  ASSUME NEW w, Lease(w)
  PROVE  \E j : LeaseOf(w, j)
  BY DEF Lease, LeaseOf, MostUrgent, Leasable

-----------------------------------------------------------------------------
(* Types.  A worker that is not idle has a job. *)
HasJob == \A w \in Workers : pc[w] # "idle" => job[w] \in Jobs

Typed == LibraryTypeOK /\ HasJob

LEMMA SpendTyped ==
  ASSUME used \in [Kinds -> Nat], NEW k \in Kinds, Spend(k)
  PROVE  used' \in [Kinds -> Nat]
  BY DEF Spend

LEMMA ReleaseTyped ==
  ASSUME Typed, NEW w \in Workers, Release(w)
  PROVE  /\ pc' \in [Workers -> Places] /\ job' \in [Workers -> Jobs \cup {NoJob}]
         /\ seen' \in [Workers -> Nat] /\ fresh' \in [Workers -> Videos \cup {NoVideo}]
         /\ HasJob'
  BY DEF Typed, LibraryTypeOK, HasJob, Release, Goto, Places

LEMMA GotoTyped ==
  ASSUME Typed, NEW w \in Workers, NEW place \in Places, pc[w] # "idle",
         Goto(w, place), UNCHANGED job
  PROVE  pc' \in [Workers -> Places] /\ HasJob'
  BY DEF Typed, LibraryTypeOK, HasJob, Goto

LEMMA PutTyped ==
  ASSUME jobs \in [Jobs -> Row], NEW j \in Jobs, NEW row \in Row, jobs' = Put(j, row)
  PROVE  jobs' \in [Jobs -> Row]
  BY DEF Put

WorkersTyped ==
  /\ pc \in [Workers -> Places] /\ job \in [Workers -> Jobs \cup {NoJob}]
  /\ seen \in [Workers -> Nat] /\ fresh \in [Workers -> Videos \cup {NoVideo}]
  /\ frozen \subseteq Workers /\ used \in [Kinds -> Nat]
  /\ HasJob

TablesTyped ==
  /\ jobs \in [Jobs -> Row]
  /\ clips \in [Clips -> [status : {"none", "pending", "fetched", "unavailable", "indexed"},
                          video : Videos \cup {NoVideo}]]
  /\ library \in [Videos -> [title : Clips \cup {"none"},
                             source : {"none", "upload", "dataset"},
                             status : {"none", "uploading", "uploaded", "processing",
                                       "ready", "failed", "deleted"},
                             planned : BOOLEAN]]

FilesTyped ==
  /\ original \subseteq Videos /\ web \subseteq Videos /\ purging \subseteq Videos
  /\ torn \subseteq Videos
  /\ disk \in [Clips -> [part : {"none", "writing", "written"},
                         dest : {"none", "torn", "whole"}]]

LEMMA TypedParts == Typed <=> WorkersTyped /\ TablesTyped /\ FilesTyped
  BY DEF Typed, LibraryTypeOK, WorkersTyped, TablesTyped, FilesTyped

LEMMA PartsTypedNext == WorkersTyped' /\ TablesTyped' /\ FilesTyped' => Typed'
  BY DEF Typed, LibraryTypeOK, WorkersTyped, TablesTyped, FilesTyped

LEMMA StepWorkersTyped ==
  ASSUME Typed, LibraryNext
  PROVE  WorkersTyped'
<1> USE DEF WorkersTyped, Kinds
<1>0. WorkersTyped /\ TablesTyped
  BY TypedParts
<1>1. ASSUME UNCHANGED <<workerVars, frozen, used>>
      PROVE  WorkersTyped'
  BY <1>0, <1>1 DEF workerVars, HasJob
<1>2. ASSUME NEW k \in Kinds, Spend(k), UNCHANGED <<workerVars, frozen>>
      PROVE  WorkersTyped'
  BY <1>0, <1>2, SpendTyped DEF workerVars, HasJob
<1>3. CASE User
  <2>1. ASSUME ImportSplit \/ EnqueueFetches \/ (\E v \in Videos, c \in Clips : CreateVideo(v, c))
               \/ (\E v \in Videos : RetryVideo(v) \/ DeleteVideo(v))
        PROVE  WorkersTyped'
    BY <1>2, <2>1 DEF ImportSplit, EnqueueFetches, CreateVideo, RetryVideo, DeleteVideo
  <2>2. ASSUME NEW v \in Videos, PutOriginal(v) \/ CompleteUpload(v) \/ DeletePrefix(v)
        PROVE  WorkersTyped'
    BY <1>1, <1>2, <2>2 DEF PutOriginal, CompleteUpload, DeletePrefix
  <2> QED BY <1>3, <2>1, <2>2 DEF User
<1>4. ASSUME \/ \E j \in Jobs : BackoffElapsed(j)
             \/ \E v \in Videos : FinalizeVideo(v)
             \/ \E w \in Workers, j \in Jobs : Reap(w, j)
      PROVE  WorkersTyped'
  BY <1>1, <1>4 DEF BackoffElapsed, FinalizeVideo, Reap
<1>5. ASSUME NEW w \in Workers, Lease(w)
      PROVE  WorkersTyped'
  <2>1. PICK j : LeaseOf(w, j)
    BY <1>5, LeaseParts
  <2>2. j \in Jobs
    BY <2>1 DEF LeaseOf
  <2>3. jobs[j].attempts \in Nat
    BY <1>0, <2>2 DEF TablesTyped, Row
  <2>4. pc' = [pc EXCEPT ![w] = "start"] /\ UNCHANGED <<fresh, frozen, used>>
    BY <1>5 DEF Lease, Goto
  <2> QED BY <1>0, <2>1, <2>2, <2>3, <2>4 DEF HasJob, Places, LeaseOf
<1>6. ASSUME NEW w \in Workers, Finish(w) \/ Crash(w)
      PROVE  WorkersTyped'
  <2>1. Release(w)
    BY <1>6 DEF Finish, Crash
  <2>2. frozen' \subseteq Workers /\ used' \in [Kinds -> Nat]
    BY <1>0, <1>6, SpendTyped DEF Finish, Crash
  <2> QED BY <2>1, <2>2, ReleaseTyped
<1>7. ASSUME NEW w \in Workers, Stall(w) \/ Resume(w)
      PROVE  WorkersTyped'
  BY <1>0, <1>7, SpendTyped DEF Stall, Resume, workerVars, HasJob
<1>8. ASSUME NEW w \in Workers, FetchDatasetVideo(w) \/ ProbeVideo(w)
      PROVE  WorkersTyped'
  <2>1. /\ pc[w] # "idle" /\ UNCHANGED <<job, seen, frozen>>
        /\ \E place \in Places : Goto(w, place)
    BY <1>8 DEF FetchDatasetVideo, ProbeVideo, FetchStart, StartDownload, EndDownload,
         RenameDownload, DownloadFails, MarkUnavailable, StoreClip, FileGone, CommitClip,
         UnlinkDownload, ProbeStart, ProbeWork, ProbeRaises, ProbePlan, ProbeTidy,
         In, At, Move, OnDisk, Places
  <2>2. used' \in [Kinds -> Nat]
    BY <1>0, <1>8, SpendTyped DEF FetchDatasetVideo, ProbeVideo, FetchStart, StartDownload, EndDownload,
         RenameDownload, DownloadFails, MarkUnavailable, StoreClip, FileGone, CommitClip,
         UnlinkDownload, ProbeStart, ProbeWork, ProbeRaises, ProbePlan, ProbeTidy,
         OnDisk
  <2>3. fresh' \in [Workers -> Videos \cup {NoVideo}]
    BY <1>0, <1>8 DEF FetchDatasetVideo, ProbeVideo, FetchStart, StartDownload, EndDownload,
         RenameDownload, DownloadFails, MarkUnavailable, StoreClip, FileGone, CommitClip,
         UnlinkDownload, ProbeStart, ProbeWork, ProbeRaises, ProbePlan, ProbeTidy,
         Move, OnDisk
  <2> QED BY <1>0, <2>1, <2>2, <2>3, GotoTyped
<1> QED BY <1>3, <1>4, <1>5, <1>6, <1>7, <1>8 DEF LibraryNext

LEMMA StepTablesTyped ==
  ASSUME Typed, LibraryNext
  PROVE  TablesTyped'
<1> USE DEF TablesTyped
<1>0. WorkersTyped /\ TablesTyped
  BY TypedParts
<1>1. ASSUME UNCHANGED <<jobs, clips, library>>
      PROVE  TablesTyped'
  BY <1>0, <1>1
<1>2. ASSUME NEW j \in Jobs, NEW row \in Row, jobs' = [jobs EXCEPT ![j] = row],
             UNCHANGED <<clips, library>>
      PROVE  TablesTyped'
  BY <1>0, <1>2
<1>3. \A w \in Workers : pc[w] # "idle" => job[w] \in Jobs
  BY <1>0 DEF WorkersTyped, HasJob
<1>4. \A j \in Jobs : jobs[j] \in Row
  BY <1>0
<1>5. ASSUME ImportSplit PROVE TablesTyped'
  <2>1. PICK ids \in SUBSET Clips, pick \in [Clips -> Videos] :
          clips' = LinkLibraryVideos(
            [c \in Clips |-> IF c \in ids /\ clips[c].status = "none"
                               THEN [clips[c] EXCEPT !.status = "pending"]
                               ELSE clips[c]], pick)
    BY <1>5 DEF ImportSplit
  <2>2. UNCHANGED <<jobs, library>>
    BY <1>5 DEF ImportSplit
  <2> QED BY <1>0, <2>1, <2>2 DEF LinkLibraryVideos, Linked
<1>6. ASSUME EnqueueFetches PROVE TablesTyped'
  <2>1. \A j \in Jobs : Enqueued(jobs[j]) \in Row
    BY <1>4, RowStep
  <2> QED BY <1>0, <1>6, <2>1 DEF EnqueueFetches, dataVars
<1>7. ASSUME NEW v \in Videos, NEW c \in Clips, CreateVideo(v, c) PROVE TablesTyped'
  BY <1>0, <1>7 DEF CreateVideo
<1>8. ASSUME NEW v \in Videos, CompleteUpload(v) PROVE TablesTyped'
  <2>1. Enqueued(jobs[Probe(v)]) \in Row /\ Probe(v) \in Jobs
    BY <1>4, RowStep, JobParts
  <2> QED BY <1>0, <1>8, <2>1 DEF CompleteUpload
<1>9. ASSUME NEW v \in Videos, RetryVideo(v) PROVE TablesTyped'
  <2>1. Revived(jobs[Probe(v)]) \in Row /\ Probe(v) \in Jobs
    BY <1>4, RowStep, JobParts
  <2> QED BY <1>0, <1>9, <2>1 DEF RetryVideo
<1>10. ASSUME NEW v \in Videos, DeleteVideo(v) PROVE TablesTyped'
  <2>1. NoRow \in Row
    BY DEF NoRow, Row, JobStatus
  <2> QED BY <1>0, <1>10, <2>1 DEF DeleteVideo, WithoutJobs, WithoutLinks, Deleted, NoRowYet
<1>11. ASSUME NEW v \in Videos, FinalizeVideo(v) PROVE TablesTyped'
  BY <1>0, <1>11 DEF FinalizeVideo
<1>12. ASSUME NEW w \in Workers, Lease(w) PROVE TablesTyped'
  <2>1. PICK j : LeaseOf(w, j)
    BY <1>12, LeaseParts
  <2>2. j \in Jobs /\ Leased(jobs[j], w) \in Row /\ jobs' = [jobs EXCEPT ![j] = Leased(jobs[j], w)]
    BY <1>4, <2>1, RowStep DEF LeaseOf
  <2>3. UNCHANGED <<clips, library>>
    BY <1>12 DEF Lease, dataVars
  <2> QED BY <1>2, <2>2, <2>3
<1>13. ASSUME NEW w \in Workers, Finish(w) PROVE TablesTyped'
  <2>1. job[w] \in Jobs
    BY <1>3, <1>13 DEF Finish, At
  <2>2. seen[w] \in Nat /\ jobs[job[w]] \in Row
    BY <1>0, <1>4, <2>1 DEF WorkersTyped
  <2>3. Completed(jobs[job[w]]) \in Row /\ Failed(jobs[job[w]], seen[w], pc[w] = "error") \in Row
    BY <2>2, RowStep
  <2>4. jobs' \in [Jobs -> Row]
    BY <1>0, <1>13, <2>1, <2>3, PutTyped DEF Finish
  <2> QED BY <1>0, <1>13, <2>4 DEF Finish, dataVars
<1>14. ASSUME NEW w \in Workers, NEW j \in Jobs, Reap(w, j) PROVE TablesTyped'
  <2>1. Reaped([jobs[j] EXCEPT !.stale = TRUE]) \in Row
    BY <1>4, RowStep
  <2> QED BY <1>2, <1>14, <2>1 DEF Reap, dataVars
<1>15. ASSUME NEW j \in Jobs, BackoffElapsed(j) PROVE TablesTyped'
  <2>1. [jobs[j] EXCEPT !.delayed = FALSE] \in Row
    BY <1>4, RowStep
  <2>2. jobs' = [jobs EXCEPT ![j] = [jobs[j] EXCEPT !.delayed = FALSE]] /\ UNCHANGED <<clips, library>>
    BY <1>15 DEF BackoffElapsed, dataVars
  <2> QED BY <1>2, <2>1, <2>2
<1>16. ASSUME NEW w \in Workers, MarkUnavailable(w) PROVE TablesTyped'
  BY <1>0, <1>16 DEF MarkUnavailable
<1>17. ASSUME NEW w \in Workers, CommitClip(w) PROVE TablesTyped'
  <2>1. job[w] \in Jobs /\ Type(job[w]) = "fetch"
    BY <1>3, <1>17 DEF CommitClip, In, At
  <2>2. Subject(w) \in Clips
    BY <2>1, JobParts DEF Subject
  <2>3. jobs' \in [Jobs -> Row]
    <3>1. CASE Probe(fresh[w]) \in Jobs
      BY <1>0, <1>4, <1>17, <3>1, RowStep DEF CommitClip
    <3>2. CASE Probe(fresh[w]) \notin Jobs
      BY <1>0, <1>17, <3>2 DEF CommitClip
    <3> QED BY <3>1, <3>2
  <2>4. fresh[w] \in Videos \cup {NoVideo}
    BY <1>0 DEF WorkersTyped
  <2>5. clips' = [clips EXCEPT ![Subject(w)] = [status |-> "fetched", video |-> fresh[w]]]
        /\ library' = [library EXCEPT ![fresh[w]] =
             [title |-> Subject(w), source |-> "dataset", status |-> "uploaded", planned |-> FALSE]]
    BY <1>17 DEF CommitClip
  <2> HIDE DEF TablesTyped
  <2>6. clips' \in [Clips -> [status : {"none", "pending", "fetched", "unavailable", "indexed"},
                              video : Videos \cup {NoVideo}]]
    BY <1>0, <2>4, <2>5 DEF TablesTyped
  <2>7. library' \in [Videos -> [title : Clips \cup {"none"},
                             source : {"none", "upload", "dataset"},
                             status : {"none", "uploading", "uploaded", "processing",
                                       "ready", "failed", "deleted"},
                             planned : BOOLEAN]]
    BY <1>0, <2>2, <2>5 DEF TablesTyped
  <2> QED BY <2>3, <2>6, <2>7 DEF TablesTyped
<1>18. ASSUME NEW w \in Workers, ProbeStart(w) \/ ProbePlan(w) PROVE TablesTyped'
  <2>1. UNCHANGED <<jobs, clips>>
    BY <1>18 DEF ProbeStart, ProbePlan
  <2>2. CASE UNCHANGED library
    BY <1>1, <2>1, <2>2
  <2> DEFINE v == Subject(w)
  <2>5. v \in Videos
    BY <1>3, <1>18, JobParts DEF ProbeStart, ProbePlan, In, At, Subject
  <2> HIDE DEF v
  <2>3. CASE library' = [library EXCEPT ![v].status = "processing"]
    BY <1>0, <2>1, <2>3, <2>5
  <2>4. CASE library' = [library EXCEPT ![v].planned = TRUE]
    <3> DEFINE R == [title : Clips \cup {"none"}, source : {"none", "upload", "dataset"},
                     status : {"none", "uploading", "uploaded", "processing",
                               "ready", "failed", "deleted"},
                     planned : BOOLEAN]
    <3>1. library \in [Videos -> R]
      BY <1>0
    <3>2. \A row \in R : [row EXCEPT !.planned = TRUE] \in R
      OBVIOUS
    <3> HIDE DEF R
    <3>3. library' \in [Videos -> R]
      BY <2>4, <2>5, <3>1, <3>2
    <3> QED BY <1>0, <2>1, <3>3 DEF R
  <2> QED BY <1>18, <2>2, <2>3, <2>4 DEF ProbeStart, ProbePlan, v
<1>19. ASSUME NEW w \in Workers,
              \/ FetchStart(w) \/ StartDownload(w) \/ EndDownload(w) \/ RenameDownload(w)
              \/ DownloadFails(w) \/ StoreClip(w) \/ FileGone(w) \/ UnlinkDownload(w)
              \/ ProbeWork(w) \/ ProbeRaises(w) \/ ProbeTidy(w)
              \/ Crash(w) \/ Stall(w) \/ Resume(w)
       PROVE  TablesTyped'
  <2>1. UNCHANGED <<jobs, clips, library>>
    BY <1>19 DEF FetchStart, StartDownload, EndDownload, RenameDownload, DownloadFails, StoreClip,
         FileGone, UnlinkDownload, ProbeWork, ProbeRaises, ProbeTidy, Crash, Stall, Resume,
         Move, OnDisk, dataVars
  <2> QED BY <1>1, <2>1
<1>20. ASSUME NEW v \in Videos, PutOriginal(v) \/ DeletePrefix(v) PROVE TablesTyped'
  BY <1>1, <1>20 DEF PutOriginal, DeletePrefix
<1> QED
  BY <1>5, <1>6, <1>7, <1>8, <1>9, <1>10, <1>11, <1>12, <1>13, <1>14, <1>15, <1>16, <1>17,
     <1>18, <1>19, <1>20 DEF LibraryNext, User, FetchDatasetVideo, ProbeVideo

LEMMA StepFilesTyped ==
  ASSUME Typed, LibraryNext
  PROVE  FilesTyped'
<1> USE DEF FilesTyped
<1>0. WorkersTyped /\ FilesTyped
  BY TypedParts
<1>1. ASSUME UNCHANGED <<original, web, purging, torn, disk>>
      PROVE  FilesTyped'
  BY <1>0, <1>1
<1>2. \A w \in Workers : pc[w] # "idle" => job[w] \in Jobs
  BY <1>0 DEF WorkersTyped, HasJob
<1>3. ASSUME NEW v \in Videos, PutOriginal(v) \/ DeleteVideo(v) \/ DeletePrefix(v)
      PROVE  FilesTyped'
  BY <1>0, <1>3 DEF PutOriginal, DeleteVideo, DeletePrefix
<1>4. ASSUME NEW w \in Workers, StoreClip(w) PROVE FilesTyped'
  BY <1>0, <1>4 DEF StoreClip
<1>5. ASSUME NEW w \in Workers,
             StartDownload(w) \/ EndDownload(w) \/ RenameDownload(w) \/ UnlinkDownload(w)
      PROVE  FilesTyped'
  <2>1. UNCHANGED <<original, web, purging, torn>>
    BY <1>5 DEF StartDownload, EndDownload, RenameDownload, UnlinkDownload, OnDisk
  <2>2. Subject(w) \in Clips
    BY <1>2, <1>5, JobParts DEF StartDownload, EndDownload, RenameDownload, UnlinkDownload,
         In, At, Subject
  <2>3. disk[Subject(w)] \in [part : {"none", "writing", "written"}, dest : {"none", "torn", "whole"}]
    BY <1>0, <2>2
  <2>4. PICK files \in [part : {"none", "writing", "written"}, dest : {"none", "torn", "whole"}] :
          disk' = [disk EXCEPT ![Subject(w)] = files]
    BY <1>5, <2>3 DEF StartDownload, EndDownload, RenameDownload, UnlinkDownload, OnDisk, Writing
  <2> QED BY <1>0, <2>1, <2>2, <2>4
<1>6. ASSUME NEW w \in Workers, ProbeWork(w) PROVE FilesTyped'
  <2>1. Subject(w) \in Videos
    BY <1>2, <1>6, JobParts DEF ProbeWork, In, At, Subject
  <2> QED BY <1>0, <1>6, <2>1 DEF ProbeWork
<1>7. ASSUME NEW w \in Workers, ProbeTidy(w) PROVE FilesTyped'
  BY <1>0, <1>7 DEF ProbeTidy
<1>8. ASSUME NEW w \in Workers,
             \/ FetchStart(w) \/ DownloadFails(w) \/ MarkUnavailable(w) \/ FileGone(w)
             \/ CommitClip(w) \/ ProbeStart(w) \/ ProbeRaises(w) \/ ProbePlan(w)
             \/ Lease(w) \/ Finish(w) \/ Crash(w) \/ Stall(w) \/ Resume(w)
             \/ \E j \in Jobs : Reap(w, j)
      PROVE  FilesTyped'
  <2>1. UNCHANGED <<original, web, purging, torn, disk>>
    BY <1>8 DEF FetchStart, DownloadFails, MarkUnavailable, FileGone, CommitClip, ProbeStart,
         ProbeRaises, ProbePlan, Lease, Finish, Crash, Stall, Resume, Reap, Move, dataVars
  <2> QED BY <1>1, <2>1
<1>9. ASSUME \/ ImportSplit \/ EnqueueFetches \/ \E v \in Videos, c \in Clips : CreateVideo(v, c)
             \/ \E v \in Videos : CompleteUpload(v) \/ RetryVideo(v) \/ FinalizeVideo(v)
             \/ \E j \in Jobs : BackoffElapsed(j)
      PROVE  FilesTyped'
  <2>1. UNCHANGED <<original, web, purging, torn, disk>>
    BY <1>9 DEF ImportSplit, EnqueueFetches, CreateVideo, CompleteUpload, RetryVideo, FinalizeVideo,
         BackoffElapsed, dataVars
  <2> QED BY <1>1, <2>1
<1> QED
  BY <1>3, <1>4, <1>5, <1>6, <1>7, <1>8, <1>9
     DEF LibraryNext, User, FetchDatasetVideo, ProbeVideo

LEMMA InitTyped == LibraryInit => Typed
  BY DEF LibraryInit, Typed, LibraryTypeOK, HasJob, NoRow, Row, JobStatus, NoRowYet, Places, Kinds

LEMMA StepTyped == Typed /\ LibraryNext => Typed'
  BY StepWorkersTyped, StepTablesTyped, StepFilesTyped, PartsTypedNext

LEMMA TypedHolds == LibrarySpec => []Typed
<1>1. Typed /\ [LibraryNext]_libraryVars => Typed'
  <2>1. CASE UNCHANGED libraryVars
    BY <2>1 DEF Typed, LibraryTypeOK, HasJob, libraryVars, dataVars, workerVars
  <2> QED BY <2>1, StepTyped
<1> QED BY <1>1, InitTyped, PTL DEF LibrarySpec

(* The variables of the library keep their types, whatever happens. *)
THEOREM LibraryTypeCorrect == LibrarySpec => []LibraryTypeOK
<1>1. Typed => LibraryTypeOK
  BY DEF Typed
<1> QED BY <1>1, TypedHolds, PTL

-----------------------------------------------------------------------------
(* Identities.  Who names a video: the worker that is about to add its row, *)
(* the call that is about to remove its objects, the jobs on it and those   *)
(* who run them.                                                            *)
Named(w) == fresh[w] # NoVideo

FreshIsNew ==
  /\ \A w \in Workers : Named(w) => /\ fresh[w] \in original
                                   /\ library[fresh[w]] = NoRowYet
  /\ \A w, u \in Workers : Named(w) /\ w # u => fresh[w] # fresh[u]
  /\ \A w \in Workers : pc[w] = "commit" => Named(w)

PurgedIsDeleted == \A v \in purging : library[v].status = "deleted"

Submitted(v) == library[v].status \notin {"none", "uploading"}
Probes(w) == job[w] \in Jobs /\ Type(job[w]) = "probe"

ProbedIsSubmitted ==
  /\ \A w \in Workers : Probes(w) => Submitted(Subject(w))
  /\ \A v \in Videos : jobs[Probe(v)] # NoRow => Submitted(v)

IdInv == /\ Typed /\ FreshIsNew /\ PurgedIsDeleted /\ ProbedIsSubmitted
         /\ ReferencesHold

LEMMA WorkerJob ==
  ASSUME Typed, NEW w \in Workers, pc[w] # "idle"
  PROVE  /\ job[w] \in Jobs
         /\ Type(job[w]) = "fetch" => Subject(w) \in Clips /\ job[w] = Fetch(Subject(w))
         /\ Type(job[w]) = "probe" => Subject(w) \in Videos /\ job[w] = Probe(Subject(w))
                                        /\ Probes(w)
  BY JobParts DEF Typed, HasJob, Subject, Probes

(* A probe job appears only with the commit that submits its video. *)
LEMMA ProbeRows ==
  ASSUME Typed, LibraryNext, NEW v \in Videos, jobs[Probe(v)] = NoRow
  PROVE  \/ jobs'[Probe(v)] = NoRow
         \/ CompleteUpload(v)
         \/ \E w \in Workers : CommitClip(w) /\ fresh[w] = v
<1>0. jobs \in [Jobs -> Row] /\ Probe(v) \in Jobs /\ Type(Probe(v)) = "probe"
  BY JobParts DEF Typed, LibraryTypeOK
<1>1. /\ NoRow.status = "none" /\ NoRow.delayed = FALSE
      /\ Revived(NoRow) = NoRow
  BY DEF NoRow, Revived
<1>2. ASSUME UNCHANGED jobs PROVE jobs'[Probe(v)] = NoRow
  BY <1>2
<1>3. ASSUME EnqueueFetches PROVE jobs'[Probe(v)] = NoRow
  BY <1>0, <1>3 DEF EnqueueFetches
<1>4. ASSUME NEW u \in Videos, CompleteUpload(u) \/ RetryVideo(u) \/ DeleteVideo(u)
      PROVE  jobs'[Probe(v)] = NoRow \/ CompleteUpload(v)
  <2>1. CASE u = v
    BY <1>0, <1>1, <1>4, <2>1 DEF RetryVideo, DeleteVideo, WithoutJobs
  <2>2. CASE u # v
    <3>1. Probe(u) # Probe(v)
      BY <2>2, ProbesDiffer
    <3> QED BY <1>0, <1>4, <3>1 DEF CompleteUpload, RetryVideo, DeleteVideo, WithoutJobs
  <2> QED BY <2>1, <2>2
<1>5. ASSUME NEW w \in Workers, Lease(w) PROVE jobs'[Probe(v)] = NoRow
  <2>1. PICK j : LeaseOf(w, j)
    BY <1>5, LeaseParts
  <2>2. j # Probe(v)
    BY <1>1, <2>1 DEF LeaseOf
  <2> QED BY <1>0, <2>1, <2>2 DEF LeaseOf
<1>6. ASSUME NEW w \in Workers, Finish(w) PROVE jobs'[Probe(v)] = NoRow
  BY <1>0, <1>6 DEF Finish, Put
<1>7. ASSUME NEW w \in Workers, NEW j \in Jobs, Reap(w, j) PROVE jobs'[Probe(v)] = NoRow
  <2>1. j # Probe(v) /\ jobs' = [jobs EXCEPT ![j] = Reaped([jobs[j] EXCEPT !.stale = TRUE])]
    BY <1>1, <1>7 DEF Reap
  <2> QED BY <1>0, <2>1
<1>8. ASSUME NEW j \in Jobs, BackoffElapsed(j) PROVE jobs'[Probe(v)] = NoRow
  <2>1. j # Probe(v) /\ jobs' = [jobs EXCEPT ![j] = [jobs[j] EXCEPT !.delayed = FALSE]]
    BY <1>1, <1>8 DEF BackoffElapsed
  <2> QED BY <1>0, <2>1
<1>9. ASSUME NEW w \in Workers, CommitClip(w)
      PROVE  jobs'[Probe(v)] = NoRow \/ fresh[w] = v
  <2>1. CASE fresh[w] # v
    <3>1. Probe(fresh[w]) # Probe(v)
      BY <2>1, ProbesDiffer
    <3> QED BY <1>0, <1>9, <3>1 DEF CommitClip
  <2> QED BY <2>1
<1>10. ASSUME NEW w \in Workers,
              \/ FetchStart(w) \/ StartDownload(w) \/ EndDownload(w) \/ RenameDownload(w)
              \/ DownloadFails(w) \/ MarkUnavailable(w) \/ StoreClip(w) \/ FileGone(w)
              \/ UnlinkDownload(w) \/ ProbeVideo(w) \/ Crash(w) \/ Stall(w) \/ Resume(w)
       PROVE  UNCHANGED jobs
  BY <1>10 DEF FetchStart, StartDownload, EndDownload, RenameDownload, DownloadFails,
       MarkUnavailable, StoreClip, FileGone, UnlinkDownload, ProbeVideo, ProbeStart, ProbeWork,
       ProbeRaises, ProbePlan, ProbeTidy, Crash, Stall, Resume, Move, OnDisk
<1>11. ASSUME \/ ImportSplit \/ \E u \in Videos, c \in Clips : CreateVideo(u, c)
              \/ \E u \in Videos : PutOriginal(u) \/ DeletePrefix(u) \/ FinalizeVideo(u)
       PROVE  UNCHANGED jobs
  BY <1>11 DEF ImportSplit, CreateVideo, PutOriginal, DeletePrefix, FinalizeVideo
<1> QED
  BY <1>2, <1>3, <1>4, <1>5, <1>6, <1>7, <1>8, <1>9, <1>10, <1>11
     DEF LibraryNext, User, FetchDatasetVideo

(* The transactions that change the row of a video. *)
VideoStep(v) ==
  \/ \E c \in Clips : CreateVideo(v, c)
  \/ CompleteUpload(v) \/ RetryVideo(v) \/ DeleteVideo(v) \/ FinalizeVideo(v)
  \/ \E w \in Workers : CommitClip(w) /\ fresh[w] = v
  \/ \E w \in Workers : (ProbeStart(w) \/ ProbePlan(w)) /\ Subject(w) = v /\ Exists(v)

LEMMA LibrarySteps ==
  ASSUME Typed, LibraryNext, NEW v \in Videos
  PROVE  library'[v] = library[v] \/ VideoStep(v)
<1>0. library = [u \in Videos |-> library[u]]
  BY DEF Typed, LibraryTypeOK
<1>1. ASSUME UNCHANGED library PROVE library'[v] = library[v]
  BY <1>1
<1>2. ASSUME NEW u \in Videos, NEW c \in Clips, CreateVideo(u, c)
      PROVE  library'[v] = library[v] \/ VideoStep(v)
  <2>1. u = v \/ library'[v] = library[v]
    BY <1>0, <1>2 DEF CreateVideo
  <2> QED BY <1>2, <2>1 DEF VideoStep
<1>3. ASSUME NEW u \in Videos,
             CompleteUpload(u) \/ RetryVideo(u) \/ DeleteVideo(u) \/ FinalizeVideo(u)
      PROVE  library'[v] = library[v] \/ VideoStep(v)
  <2>1. u = v \/ library'[v] = library[v]
    BY <1>0, <1>3 DEF CompleteUpload, RetryVideo, DeleteVideo, FinalizeVideo
  <2> QED BY <1>3, <2>1 DEF VideoStep
<1>4. ASSUME NEW w \in Workers, CommitClip(w)
      PROVE  library'[v] = library[v] \/ VideoStep(v)
  <2>1. fresh[w] = v \/ library'[v] = library[v]
    BY <1>0, <1>4 DEF CommitClip
  <2> QED BY <1>4, <2>1 DEF VideoStep
<1>5. ASSUME NEW w \in Workers, ProbeStart(w) \/ ProbePlan(w)
      PROVE  library'[v] = library[v] \/ VideoStep(v)
  <2>1. library'[v] = library[v] \/ (Subject(w) = v /\ Exists(v))
    BY <1>0, <1>5 DEF ProbeStart, ProbePlan
  <2> QED BY <1>5, <2>1 DEF VideoStep
<1>6. ASSUME NEW w \in Workers,
             \/ FetchStart(w) \/ StartDownload(w) \/ EndDownload(w) \/ RenameDownload(w)
             \/ DownloadFails(w) \/ MarkUnavailable(w) \/ StoreClip(w) \/ FileGone(w)
             \/ UnlinkDownload(w) \/ ProbeWork(w) \/ ProbeRaises(w) \/ ProbeTidy(w)
             \/ Lease(w) \/ Finish(w) \/ Crash(w) \/ Stall(w) \/ Resume(w)
             \/ \E j \in Jobs : Reap(w, j)
      PROVE  UNCHANGED library
  BY <1>6 DEF FetchStart, StartDownload, EndDownload, RenameDownload, DownloadFails,
       MarkUnavailable, StoreClip, FileGone, UnlinkDownload, ProbeWork, ProbeRaises, ProbeTidy,
       Lease, Finish, Crash, Stall, Resume, Reap, Move, OnDisk, dataVars
<1>7. ASSUME \/ ImportSplit \/ EnqueueFetches \/ \E j \in Jobs : BackoffElapsed(j)
             \/ \E u \in Videos : PutOriginal(u) \/ DeletePrefix(u)
      PROVE  UNCHANGED library
  BY <1>7 DEF ImportSplit, EnqueueFetches, BackoffElapsed, PutOriginal, DeletePrefix, dataVars
<1> QED
  BY <1>1, <1>2, <1>3, <1>4, <1>5, <1>6, <1>7
     DEF LibraryNext, User, FetchDatasetVideo, ProbeVideo

(* What these do to it: an id is used once, and submission is for good. *)
LEMMA RowLife ==
  ASSUME Typed, FreshIsNew, ReferencesHold, LibraryNext, NEW v \in Videos
  PROVE  /\ library[v].status = "deleted" => library'[v] = library[v]
         /\ Submitted(v) => Submitted(v)'
         /\ library[v] # NoRowYet => library'[v] # NoRowYet
         /\ CompleteUpload(v) => Submitted(v)'
<1>0. /\ library = [u \in Videos |-> library[u]]
      /\ library[v] \in [title : Clips \cup {"none"}, source : {"none", "upload", "dataset"},
                         status : {"none", "uploading", "uploaded", "processing",
                                   "ready", "failed", "deleted"}, planned : BOOLEAN]
  BY DEF Typed, LibraryTypeOK
<1> DEFINE Life == /\ library[v].status = "deleted" => library'[v] = library[v]
                   /\ Submitted(v) => Submitted(v)'
                   /\ library[v] # NoRowYet => library'[v] # NoRowYet
                   /\ CompleteUpload(v) => Submitted(v)'
<1>1. ASSUME NEW c \in Clips, CreateVideo(v, c) PROVE Life
  <2>1. library[v] = NoRowYet /\ library'[v].status = "uploading"
    BY <1>0, <1>1 DEF CreateVideo, Unused
  <2> QED BY <1>1, <2>1 DEF NoRowYet, Submitted, CompleteUpload
<1> USE DEF Submitted, NoRowYet
<1>2. CASE CompleteUpload(v)
  BY <1>0, <1>2 DEF CompleteUpload
<1>3. CASE RetryVideo(v) \/ FinalizeVideo(v)
  <2>1. Exists(v)
    BY <1>3 DEF RetryVideo, FinalizeVideo, ReferencesHold, Exists
  <2>2. library'[v].status \in {"processing", "ready", "failed"}
    BY <1>0, <1>3 DEF RetryVideo, FinalizeVideo
  <2>3. ~CompleteUpload(v)
    <3>1. CompleteUpload(v) => library'[v].status = "uploaded"
      BY <1>0 DEF CompleteUpload
    <3> QED BY <2>2, <3>1
  <2> QED BY <2>1, <2>2, <2>3 DEF Exists
<1>4. CASE DeleteVideo(v)
  BY <1>0, <1>4 DEF DeleteVideo, Deleted, Exists, CompleteUpload
<1>5. ASSUME NEW w \in Workers, CommitClip(w), fresh[w] = v PROVE Life
  <2>1. library'[v].status = "uploaded"
    BY <1>0, <1>5 DEF CommitClip
  <2>2. library[v] = NoRowYet
    BY <1>5 DEF CommitClip, In, At, FreshIsNew, Named
  <2>3. ~CompleteUpload(v)
    BY <2>2 DEF CompleteUpload
  <2> QED BY <2>1, <2>2, <2>3
<1>6. ASSUME NEW w \in Workers, ProbeStart(w) \/ ProbePlan(w), Subject(w) = v, Exists(v)
      PROVE  Life
  BY <1>0, <1>6 DEF ProbeStart, ProbePlan, Exists, CompleteUpload
<1>7. CASE library'[v] = library[v] /\ ~CompleteUpload(v)
  BY <1>7
<1> QED BY <1>1, <1>2, <1>3, <1>4, <1>5, <1>6, <1>7, LibrarySteps DEF VideoStep

(* Who changes the id of the row a worker adds, or its place at the commit *)
LEMMA FreshSteps ==
  ASSUME Typed, LibraryNext, NEW w \in Workers
  PROVE  \/ fresh'[w] = NoVideo /\ pc'[w] # "commit"
         \/ fresh'[w] = fresh[w] /\ (pc'[w] = "commit" => pc[w] = "commit")
         \/ StoreClip(w)
<1> DEFINE Goal == \/ fresh'[w] = NoVideo /\ pc'[w] # "commit"
                   \/ fresh'[w] = fresh[w] /\ (pc'[w] = "commit" => pc[w] = "commit")
                   \/ StoreClip(w)
<1>0. /\ pc = [u \in Workers |-> pc[u]] /\ fresh = [u \in Workers |-> fresh[u]]
  BY DEF Typed, LibraryTypeOK
<1>1. ASSUME UNCHANGED fresh,
             pc' = pc \/ \E u \in Workers, place \in Places \ {"commit"} : Goto(u, place)
      PROVE  Goal
  BY <1>0, <1>1 DEF Goto
<1>2. ASSUME NEW u \in Workers, Finish(u) \/ Crash(u) PROVE Goal
  <2>1. pc' = [pc EXCEPT ![u] = "idle"] /\ fresh' = [fresh EXCEPT ![u] = NoVideo]
    BY <1>2 DEF Finish, Crash, Release, Goto
  <2> QED BY <1>0, <2>1
<1>3. ASSUME NEW u \in Workers, CommitClip(u) PROVE Goal
  <2>1. pc' = [pc EXCEPT ![u] = "unlink"] /\ fresh' = [fresh EXCEPT ![u] = NoVideo]
    BY <1>3 DEF CommitClip, Goto
  <2> QED BY <1>0, <2>1
<1>4. ASSUME NEW u \in Workers, StoreClip(u) PROVE Goal
  <2>1. CASE u # w
    BY <1>0, <1>4, <2>1 DEF StoreClip, Goto
  <2> QED BY <1>4, <2>1
<1>5. ASSUME NEW u \in Workers,
             \/ FetchStart(u) \/ StartDownload(u) \/ EndDownload(u) \/ RenameDownload(u)
             \/ DownloadFails(u) \/ MarkUnavailable(u) \/ FileGone(u) \/ UnlinkDownload(u)
             \/ ProbeVideo(u) \/ Lease(u)
      PROVE  UNCHANGED fresh /\ \E place \in Places \ {"commit"} : Goto(u, place)
  BY <1>5 DEF FetchStart, StartDownload, EndDownload, RenameDownload, DownloadFails,
       MarkUnavailable, FileGone, UnlinkDownload, ProbeVideo, ProbeStart, ProbeWork,
       ProbeRaises, ProbePlan, ProbeTidy, Lease, Move, OnDisk, Places
<1>6. ASSUME \/ User \/ \E j \in Jobs : BackoffElapsed(j) \/ \E v \in Videos : FinalizeVideo(v)
             \/ \E u \in Workers : Stall(u) \/ Resume(u) \/ \E j \in Jobs : Reap(u, j)
      PROVE  UNCHANGED <<fresh, pc>>
  BY <1>6 DEF User, BackoffElapsed, FinalizeVideo, Stall, Resume, Reap, ImportSplit,
       EnqueueFetches, CreateVideo, PutOriginal, CompleteUpload, RetryVideo, DeleteVideo,
       DeletePrefix, workerVars
<1>7. ASSUME \E j \in Jobs : BackoffElapsed(j) PROVE UNCHANGED <<fresh, pc>>
  BY <1>7 DEF BackoffElapsed, workerVars
<1>8. ASSUME \E v \in Videos : FinalizeVideo(v) PROVE UNCHANGED <<fresh, pc>>
  BY <1>8 DEF FinalizeVideo, workerVars
<1> HIDE DEF Goal
<1>9. Goal
  BY <1>1, <1>2, <1>3, <1>4, <1>5, <1>6, <1>7, <1>8 DEF LibraryNext, FetchDatasetVideo
<1> QED BY <1>9 DEF Goal

LEMMA JobSteps ==
  ASSUME Typed, LibraryNext, NEW w \in Workers
  PROVE  job'[w] = job[w] \/ job'[w] = NoJob \/ Lease(w)
<1>0. job = [u \in Workers |-> job[u]]
  BY DEF Typed, LibraryTypeOK
<1>1. ASSUME UNCHANGED job PROVE job'[w] = job[w]
  BY <1>1
<1>2. ASSUME NEW u \in Workers, Finish(u) \/ Crash(u)
      PROVE  job'[w] = job[w] \/ job'[w] = NoJob
  <2>1. job' = [job EXCEPT ![u] = NoJob]
    BY <1>2 DEF Finish, Crash, Release
  <2> QED BY <1>0, <2>1
<1>3. ASSUME NEW u \in Workers, Lease(u) PROVE job'[w] = job[w] \/ Lease(w)
  <2>1. PICK j : job' = [job EXCEPT ![u] = j]
    BY <1>3, LeaseParts DEF LeaseOf
  <2> QED BY <1>0, <1>3, <2>1
<1>4. ASSUME NEW u \in Workers, FetchDatasetVideo(u) \/ ProbeVideo(u) PROVE UNCHANGED job
  BY <1>4 DEF FetchDatasetVideo, FetchStart, StartDownload, EndDownload, RenameDownload,
       DownloadFails, MarkUnavailable, StoreClip, FileGone, CommitClip, UnlinkDownload,
       ProbeVideo, ProbeStart, ProbeWork, ProbeRaises, ProbePlan, ProbeTidy, Move, OnDisk
<1>5. ASSUME \E u \in Workers : Stall(u) \/ Resume(u) \/ \E j \in Jobs : Reap(u, j)
      PROVE  UNCHANGED job
  BY <1>5 DEF Stall, Resume, Reap, workerVars
<1>6. ASSUME User PROVE UNCHANGED job
  BY <1>6 DEF User, ImportSplit, EnqueueFetches, CreateVideo, PutOriginal, CompleteUpload,
       RetryVideo, DeleteVideo, DeletePrefix, workerVars
<1>7. ASSUME \E j \in Jobs : BackoffElapsed(j) PROVE UNCHANGED job
  BY <1>7 DEF BackoffElapsed, workerVars
<1>8. ASSUME \E v \in Videos : FinalizeVideo(v) PROVE UNCHANGED job
  BY <1>8 DEF FinalizeVideo, workerVars
<1> QED BY <1>1, <1>2, <1>3, <1>4, <1>5, <1>6, <1>7, <1>8 DEF LibraryNext

(* Originals are removed by delete_prefix() and by the probe of a clip. *)
LEMMA OriginalSteps ==
  ASSUME LibraryNext, NEW v \in original, v \notin original'
  PROVE  DeletePrefix(v) \/ \E w \in Workers : ProbeTidy(w) /\ Subject(w) = v
<1>1. ASSUME NEW u \in Videos, DeletePrefix(u) PROVE DeletePrefix(v)
  BY <1>1 DEF DeletePrefix
<1>2. ASSUME NEW w \in Workers, ProbeTidy(w) PROVE Subject(w) = v
  BY <1>2 DEF ProbeTidy
<1>3. ASSUME NEW u \in Videos, PutOriginal(u) PROVE FALSE
  BY <1>3 DEF PutOriginal
<1>4. ASSUME NEW w \in Workers, StoreClip(w) PROVE FALSE
  BY <1>4 DEF StoreClip
<1>5. ASSUME NEW w \in Workers,
             \/ FetchStart(w) \/ StartDownload(w) \/ EndDownload(w) \/ RenameDownload(w)
             \/ DownloadFails(w) \/ MarkUnavailable(w) \/ FileGone(w) \/ CommitClip(w)
             \/ UnlinkDownload(w) \/ ProbeStart(w) \/ ProbeWork(w) \/ ProbeRaises(w) \/ ProbePlan(w)
             \/ Lease(w) \/ Finish(w) \/ Crash(w) \/ Stall(w) \/ Resume(w)
             \/ \E j \in Jobs : Reap(w, j)
      PROVE  FALSE
  BY <1>5 DEF FetchStart, StartDownload, EndDownload, RenameDownload, DownloadFails,
       MarkUnavailable, FileGone, CommitClip, UnlinkDownload, ProbeStart, ProbeWork, ProbeRaises,
       ProbePlan, Lease, Finish, Crash, Stall, Resume, Reap, Move, OnDisk, dataVars
<1>6. ASSUME \/ ImportSplit \/ EnqueueFetches \/ \E u \in Videos, c \in Clips : CreateVideo(u, c)
             \/ \E j \in Jobs : BackoffElapsed(j)
             \/ \E u \in Videos : CompleteUpload(u) \/ RetryVideo(u) \/ DeleteVideo(u) \/ FinalizeVideo(u)
      PROVE  FALSE
  BY <1>6 DEF ImportSplit, EnqueueFetches, CreateVideo, BackoffElapsed, CompleteUpload, RetryVideo,
       DeleteVideo, FinalizeVideo, dataVars
<1> QED BY <1>1, <1>2, <1>3, <1>4, <1>5, <1>6
           DEF LibraryNext, User, FetchDatasetVideo, ProbeVideo

LEMMA StepFreshIsNew ==
  ASSUME IdInv, LibraryNext
  PROVE  FreshIsNew'
<1>0. Typed /\ FreshIsNew
  BY DEF IdInv
<1>1. \A w \in Workers : fresh[w] \in Videos \cup {NoVideo}
  BY <1>0 DEF Typed, LibraryTypeOK
<1>2. ASSUME NEW w \in Workers, Named(w), fresh'[w] = fresh[w]
      PROVE  fresh[w] \in original' /\ library'[fresh[w]] = NoRowYet
  <2> DEFINE v == fresh[w]
  <2>1. v \in Videos /\ v \in original /\ library[v] = NoRowYet
    BY <1>0, <1>1, <1>2 DEF FreshIsNew, Named
  <2>2. ~Exists(v) /\ ~Submitted(v) /\ v \notin purging
    BY <2>1 DEF NoRowYet, Exists, Submitted, IdInv, PurgedIsDeleted
  <2>3. v \in original'
    <3>1. ~DeletePrefix(v)
      BY <2>2 DEF DeletePrefix
    <3>2. ASSUME NEW u \in Workers, ProbeTidy(u), Subject(u) = v PROVE FALSE
      <4>1. Probes(u)
        BY <1>0, <3>2, WorkerJob DEF ProbeTidy, In, At
      <4> QED BY <2>2, <3>2, <4>1 DEF IdInv, ProbedIsSubmitted
    <3> QED BY <2>1, <3>1, <3>2, OriginalSteps
  <2>4. ~VideoStep(v)
    <3>1. ASSUME NEW c \in Clips, CreateVideo(v, c) PROVE FALSE
      BY <3>1 DEF CreateVideo, Unused
    <3>2. ~(CompleteUpload(v) \/ RetryVideo(v) \/ DeleteVideo(v) \/ FinalizeVideo(v))
      BY <2>1, <2>2 DEF CompleteUpload, RetryVideo, DeleteVideo, FinalizeVideo, NoRowYet
    <3>3. ASSUME NEW u \in Workers, CommitClip(u), fresh[u] = v PROVE FALSE
      <4>1. u = w
        BY <1>0, <1>2, <3>3 DEF FreshIsNew, Named
      <4>2. fresh' = [fresh EXCEPT ![u] = NoVideo] /\ fresh = [x \in Workers |-> fresh[x]]
        BY <1>0, <3>3 DEF CommitClip, Typed, LibraryTypeOK
      <4> QED BY <1>2, <4>1, <4>2 DEF Named
    <3> QED BY <2>2, <3>1, <3>2, <3>3 DEF VideoStep
  <2> QED BY <1>0, <2>1, <2>3, <2>4, LibrarySteps
<1>3. ASSUME NEW w \in Workers, StoreClip(w)
      PROVE  /\ fresh'[w] \in original' /\ library'[fresh'[w]] = NoRowYet /\ fresh'[w] # NoVideo
             /\ \A u \in Workers : u # w => fresh'[u] = fresh[u] /\ fresh[u] # fresh'[w]
                                           /\ pc'[u] = pc[u]
  <2>1. PICK v \in Videos : /\ Unused(v) /\ fresh' = [fresh EXCEPT ![w] = v]
                            /\ original' = original \cup {v}
    BY <1>3 DEF StoreClip
  <2>2. fresh = [x \in Workers |-> fresh[x]] /\ UNCHANGED library
        /\ pc = [x \in Workers |-> pc[x]] /\ pc' = [pc EXCEPT ![w] = "commit"]
    BY <1>0, <1>3 DEF StoreClip, Typed, LibraryTypeOK, Goto
  <2>3. v # NoVideo
    BY LibraryConstants
  <2> QED BY <2>1, <2>2, <2>3 DEF Unused
<1>4. ASSUME NEW w \in Workers, fresh'[w] # NoVideo
      PROVE  fresh'[w] \in original' /\ library'[fresh'[w]] = NoRowYet
  BY <1>0, <1>2, <1>3, <1>4, FreshSteps DEF Named
<1>5. ASSUME NEW w \in Workers, NEW u \in Workers, fresh'[w] # NoVideo, w # u
      PROVE  fresh'[w] # fresh'[u]
  <2>1. CASE StoreClip(w) \/ StoreClip(u)
    BY <1>3, <1>5, <2>1
  <2>2. CASE ~StoreClip(w) /\ ~StoreClip(u)
    <3>1. fresh'[w] = fresh[w] /\ (fresh'[u] = fresh[u] \/ fresh'[u] = NoVideo)
      BY <1>0, <1>5, <2>2, FreshSteps
    <3> QED BY <1>0, <1>5, <3>1 DEF FreshIsNew, Named
  <2> QED BY <2>1, <2>2
<1>6. ASSUME NEW w \in Workers, pc'[w] = "commit"
      PROVE  fresh'[w] # NoVideo
  BY <1>0, <1>3, <1>6, FreshSteps DEF FreshIsNew, Named
<1> QED BY <1>4, <1>5, <1>6 DEF FreshIsNew, Named

LEMMA StepPurged ==
  ASSUME IdInv, LibraryNext
  PROVE  PurgedIsDeleted'
<1>0. Typed /\ FreshIsNew /\ PurgedIsDeleted /\ ReferencesHold
  BY DEF IdInv
<1>1. ASSUME NEW v \in purging PROVE library'[v].status = "deleted"
  <2>1. v \in Videos /\ library[v].status = "deleted"
    BY <1>0 DEF PurgedIsDeleted, Typed, LibraryTypeOK
  <2> QED BY <1>0, <2>1, RowLife
<1>2. ASSUME NEW v \in Videos, DeleteVideo(v)
      PROVE  purging' = purging \cup {v} /\ library'[v].status = "deleted"
  BY <1>0, <1>2 DEF DeleteVideo, Deleted, NoRowYet, Typed, LibraryTypeOK
<1>3. ASSUME NEW v \in Videos, DeletePrefix(v) PROVE purging' \subseteq purging
  BY <1>3 DEF DeletePrefix
<1>4. ASSUME NEW w \in Workers,
             \/ FetchDatasetVideo(w) \/ ProbeVideo(w) \/ Lease(w) \/ Finish(w)
             \/ Crash(w) \/ Stall(w) \/ Resume(w) \/ \E j \in Jobs : Reap(w, j)
      PROVE  UNCHANGED purging
  BY <1>4 DEF FetchDatasetVideo, ProbeVideo, FetchStart, StartDownload, EndDownload,
       RenameDownload, DownloadFails, MarkUnavailable, StoreClip, FileGone, CommitClip,
       UnlinkDownload, ProbeStart, ProbeWork, ProbeRaises, ProbePlan, ProbeTidy,
       Lease, Finish, Crash, Stall, Resume, Reap, Move, OnDisk, dataVars
<1>5. ASSUME \/ ImportSplit \/ EnqueueFetches \/ \E v \in Videos, c \in Clips : CreateVideo(v, c)
             \/ \E j \in Jobs : BackoffElapsed(j)
             \/ \E v \in Videos : PutOriginal(v) \/ CompleteUpload(v) \/ RetryVideo(v)
                                   \/ FinalizeVideo(v)
      PROVE  UNCHANGED purging
  BY <1>5 DEF ImportSplit, EnqueueFetches, CreateVideo, BackoffElapsed, PutOriginal,
       CompleteUpload, RetryVideo, FinalizeVideo, dataVars
<1> QED BY <1>1, <1>2, <1>3, <1>4, <1>5 DEF LibraryNext, User, PurgedIsDeleted

LEMMA StepProbed ==
  ASSUME IdInv, LibraryNext
  PROVE  ProbedIsSubmitted'
<1>0. Typed /\ FreshIsNew /\ ProbedIsSubmitted /\ ReferencesHold
  BY DEF IdInv
<1>1. ASSUME NEW v \in Videos, jobs'[Probe(v)] # NoRow PROVE Submitted(v)'
  <2>1. CASE jobs[Probe(v)] # NoRow
    BY <1>0, <2>1, RowLife DEF ProbedIsSubmitted
  <2>2. CASE CompleteUpload(v)
    BY <1>0, <2>2, RowLife
  <2>3. ASSUME NEW w \in Workers, CommitClip(w), fresh[w] = v PROVE Submitted(v)'
    BY <1>0, <2>3 DEF CommitClip, Submitted, Typed, LibraryTypeOK
  <2> QED BY <1>0, <1>1, <2>1, <2>2, <2>3, ProbeRows
<1>2. ASSUME NEW w \in Workers, Probes(w)' PROVE Submitted(Subject(w))'
  <2>1. CASE job'[w] = job[w]
    <3>1. Probes(w) /\ Subject(w) \in Videos /\ Subject(w)' = Subject(w)
      BY <1>2, <2>1, JobParts DEF Probes, Subject
    <3>2. Submitted(Subject(w))
      BY <1>0, <3>1 DEF ProbedIsSubmitted
    <3> DEFINE v == Subject(w)
    <3>3. Submitted(v)'
      BY <1>0, <3>1, <3>2, RowLife DEF Submitted
    <3> QED BY <3>1, <3>3 DEF Submitted
  <2>2. CASE job'[w] = NoJob
    BY <1>2, <2>2, LibraryConstants DEF Probes
  <2>3. CASE Lease(w)
    <3>1. PICK j : LeaseOf(w, j)
      BY <2>3, LeaseParts
    <3>2. job'[w] = j /\ jobs[j] # NoRow /\ UNCHANGED library
      BY <1>0, <2>3, <3>1 DEF LeaseOf, NoRow, Typed, LibraryTypeOK, Lease, dataVars
    <3>3. j[2] \in Videos /\ j = Probe(j[2])
      BY <1>2, <3>2, JobParts DEF Probes
    <3>4. Submitted(j[2])
      BY <1>0, <3>2, <3>3 DEF ProbedIsSubmitted
    <3> QED BY <3>2, <3>4 DEF Submitted, Subject
  <2> QED BY <1>0, <2>1, <2>2, <2>3, JobSteps
<1> QED BY <1>1, <1>2 DEF ProbedIsSubmitted

(* A row only goes with delete_video(), and ready is final but for that. *)
LEMMA RowKept ==
  ASSUME Typed, FreshIsNew, ReferencesHold, LibraryNext, NEW v \in Videos
  PROVE  /\ Exists(v) => Exists(v)' \/ DeleteVideo(v)
         /\ library[v].status = "ready" => library'[v].status = "ready" \/ DeleteVideo(v)
         /\ ~Exists(v) => Exists(v)' \/ library'[v] = library[v]
<1>0. /\ library = [u \in Videos |-> library[u]]
      /\ library[v] \in [title : Clips \cup {"none"}, source : {"none", "upload", "dataset"},
                         status : {"none", "uploading", "uploaded", "processing",
                                   "ready", "failed", "deleted"}, planned : BOOLEAN]
  BY DEF Typed, LibraryTypeOK
<1> DEFINE Kept == /\ Exists(v) => Exists(v)' \/ DeleteVideo(v)
                   /\ library[v].status = "ready" => library'[v].status = "ready" \/ DeleteVideo(v)
                   /\ ~Exists(v) => Exists(v)' \/ library'[v] = library[v]
<1>1. ASSUME NEW c \in Clips, CreateVideo(v, c) PROVE Kept
  <2>1. library[v] = NoRowYet /\ library'[v].status = "uploading"
    BY <1>0, <1>1 DEF CreateVideo, Unused
  <2> QED BY <2>1 DEF NoRowYet, Exists
<1>2. CASE CompleteUpload(v) \/ RetryVideo(v) \/ FinalizeVideo(v)
  <2>1. library'[v].status \in {"uploaded", "processing", "ready", "failed"}
        /\ library[v].status # "ready"
    BY <1>0, <1>2 DEF CompleteUpload, RetryVideo, FinalizeVideo
  <2> QED BY <2>1 DEF Exists
<1>3. CASE DeleteVideo(v)
  BY <1>3 DEF DeleteVideo
<1>4. ASSUME NEW w \in Workers, CommitClip(w), fresh[w] = v PROVE Kept
  <2>1. library'[v].status = "uploaded"
    BY <1>0, <1>4 DEF CommitClip
  <2>2. library[v] = NoRowYet
    BY <1>4 DEF CommitClip, In, At, FreshIsNew, Named
  <2> QED BY <2>1, <2>2 DEF Exists, NoRowYet
<1>5. ASSUME NEW w \in Workers, ProbeStart(w) \/ ProbePlan(w), Subject(w) = v, Exists(v)
      PROVE  Kept
  <2>1. \/ library'[v].status = library[v].status
        \/ library'[v].status = "processing" /\ library[v].status # "ready"
    BY <1>0, <1>5 DEF ProbeStart, ProbePlan
  <2> QED BY <1>5, <2>1 DEF Exists
<1>6. CASE library'[v] = library[v]
  BY <1>6 DEF Exists
<1> QED BY <1>1, <1>2, <1>3, <1>4, <1>5, <1>6, LibrarySteps DEF VideoStep

(* What happens to the row of a clip. *)
ClipKept(c) == /\ clips'[c].video = clips[c].video
               /\ clips'[c].status = "indexed" => clips[c].status = "indexed"
ClipLinked(c) == /\ UNCHANGED library /\ clips[c].video = NoVideo
                 /\ \E v \in Videos : Exists(v) /\ clips'[c] = Linked(clips[c], v)
ClipFetched(c) ==
  \E w \in Workers : /\ CommitClip(w) /\ Subject(w) = c
                     /\ clips'[c] = [status |-> "fetched", video |-> fresh[w]]
ClipDropped(c) == DeleteVideo(clips[c].video) /\ clips'[c].video = NoVideo
ClipIndexed(c) ==
  /\ FinalizeVideo(clips[c].video) /\ clips'[c].video = clips[c].video
  /\ library'[clips[c].video].status = "ready"

LEMMA LinkedExists ==
  ASSUME NEW c \in Clips, NEW v \in Matches(c)
  PROVE  v \in Videos /\ Exists(v)
  BY DEF Matches

LEMMA ClipSteps ==
  ASSUME Typed, LibraryNext, NEW c \in Clips
  PROVE  \/ ClipKept(c) \/ ClipDropped(c)
         \/ ClipLinked(c) \/ ClipFetched(c) \/ ClipIndexed(c)
<1>0. clips \in [Clips -> [status : {"none", "pending", "fetched", "unavailable", "indexed"},
                           video : Videos \cup {NoVideo}]]
  BY DEF Typed, LibraryTypeOK
<1>1. ASSUME UNCHANGED clips PROVE ClipKept(c)
  BY <1>1 DEF ClipKept
<1>2. ASSUME ImportSplit PROVE ClipKept(c) \/ ClipLinked(c)
  <2>1. PICK ids \in SUBSET Clips, pick \in [Clips -> Videos] :
          /\ \A d \in Clips : Matches(d) # {} => pick[d] \in Matches(d)
          /\ clips' = LinkLibraryVideos(
               [d \in Clips |-> IF d \in ids /\ clips[d].status = "none"
                                  THEN [clips[d] EXCEPT !.status = "pending"]
                                  ELSE clips[d]], pick)
    BY <1>2 DEF ImportSplit
  <2>2. UNCHANGED library
    BY <1>2 DEF ImportSplit
  <2> DEFINE row == IF c \in ids /\ clips[c].status = "none"
                      THEN [clips[c] EXCEPT !.status = "pending"] ELSE clips[c]
  <2>3. \/ clips'[c] = row
        \/ row.video = NoVideo /\ Matches(c) # {} /\ clips'[c] = Linked(row, pick[c])
    BY <2>1 DEF LinkLibraryVideos
  <2>4. CASE clips'[c] = row
    BY <1>0, <2>4 DEF ClipKept
  <2>5. CASE row.video = NoVideo /\ Matches(c) # {} /\ clips'[c] = Linked(row, pick[c])
    <3>0. clips[c].video = NoVideo
      BY <1>0, <2>5
    <3>1. pick[c] \in Videos /\ Exists(pick[c])
      BY <2>1, <2>5, LinkedExists
    <3>2. Linked(row, pick[c]) = Linked(clips[c], pick[c])
      BY DEF Linked
    <3> QED BY <2>2, <2>5, <3>0, <3>1, <3>2 DEF ClipLinked
  <2> QED BY <2>3, <2>4, <2>5
<1>3. ASSUME NEW v \in Videos, DeleteVideo(v) PROVE ClipKept(c) \/ ClipDropped(c)
  <2>1. \/ clips'[c] = clips[c]
        \/ clips[c].video = v /\ clips'[c].video = NoVideo
    BY <1>0, <1>3 DEF DeleteVideo, WithoutLinks
  <2> QED BY <1>3, <2>1 DEF ClipKept, ClipDropped
<1>4. ASSUME NEW v \in Videos, FinalizeVideo(v) PROVE ClipKept(c) \/ ClipIndexed(c)
  <2>1. PICK verdict \in {"ready", "failed"} :
          /\ library' = [library EXCEPT ![v].status = verdict]
          /\ clips' = [d \in Clips |->
               IF verdict = "ready" /\ library[v].source # "upload" /\ clips[d].video = v
                 THEN [clips[d] EXCEPT !.status = "indexed"] ELSE clips[d]]
    BY <1>4 DEF FinalizeVideo
  <2>2. CASE verdict = "ready" /\ clips[c].video = v
    <3>1. library'[v].status = "ready"
      BY <2>1, <2>2 DEF Typed, LibraryTypeOK
    <3>2. clips'[c].video = clips[c].video
      BY <1>0, <2>1, <2>2
    <3> QED BY <1>4, <2>2, <3>1, <3>2 DEF ClipIndexed
  <2>3. CASE ~(verdict = "ready" /\ clips[c].video = v)
    BY <1>0, <2>1, <2>3 DEF ClipKept
  <2> QED BY <2>2, <2>3
<1>5. ASSUME NEW w \in Workers, MarkUnavailable(w) PROVE ClipKept(c)
  BY <1>0, <1>5 DEF MarkUnavailable, ClipKept
<1>6. ASSUME NEW w \in Workers, CommitClip(w) PROVE ClipKept(c) \/ ClipFetched(c)
  <2>1. \/ clips'[c] = clips[c]
        \/ Subject(w) = c /\ clips'[c] = [status |-> "fetched", video |-> fresh[w]]
    BY <1>0, <1>6 DEF CommitClip
  <2> QED BY <1>6, <2>1 DEF ClipKept, ClipFetched
<1>7. ASSUME NEW w \in Workers,
             \/ FetchStart(w) \/ StartDownload(w) \/ EndDownload(w) \/ RenameDownload(w)
             \/ DownloadFails(w) \/ StoreClip(w) \/ FileGone(w) \/ UnlinkDownload(w)
             \/ ProbeVideo(w) \/ Lease(w) \/ Finish(w) \/ Crash(w) \/ Stall(w) \/ Resume(w)
             \/ \E j \in Jobs : Reap(w, j)
      PROVE  UNCHANGED clips
  BY <1>7 DEF FetchStart, StartDownload, EndDownload, RenameDownload, DownloadFails, StoreClip,
       FileGone, UnlinkDownload, ProbeVideo, ProbeStart, ProbeWork, ProbeRaises, ProbePlan,
       ProbeTidy, Lease, Finish, Crash, Stall, Resume, Reap, Move, OnDisk, dataVars
<1>8. ASSUME \/ EnqueueFetches \/ \E v \in Videos, d \in Clips : CreateVideo(v, d)
             \/ \E j \in Jobs : BackoffElapsed(j)
             \/ \E v \in Videos : PutOriginal(v) \/ CompleteUpload(v) \/ RetryVideo(v)
                                   \/ DeletePrefix(v)
      PROVE  UNCHANGED clips
  BY <1>8 DEF EnqueueFetches, CreateVideo, BackoffElapsed, PutOriginal, CompleteUpload,
       RetryVideo, DeletePrefix, dataVars
<1> QED BY <1>1, <1>2, <1>3, <1>4, <1>5, <1>6, <1>7, <1>8
           DEF LibraryNext, User, FetchDatasetVideo

LEMMA StepReferences ==
  ASSUME IdInv, LibraryNext
  PROVE  ReferencesHold'
<1>0. Typed /\ FreshIsNew /\ ProbedIsSubmitted /\ ReferencesHold
  BY DEF IdInv
<1>1. ASSUME NEW v \in Videos, ~Exists(v)'
      PROVE  jobs'[Probe(v)] = NoRow /\ ~library'[v].planned
  <2>1. CASE DeleteVideo(v)
    <3>1. library'[v] = Deleted
      BY <1>0, <2>1 DEF DeleteVideo, Typed, LibraryTypeOK
    <3>2. jobs'[Probe(v)] = NoRow
      BY <1>0, <2>1, JobParts DEF DeleteVideo, WithoutJobs, Typed, LibraryTypeOK
    <3> QED BY <3>1, <3>2 DEF Deleted, NoRowYet
  <2>2. CASE ~DeleteVideo(v)
    <3>1. ~Exists(v) /\ library'[v] = library[v]
      BY <1>0, <1>1, <2>2, RowKept
    <3>2. jobs[Probe(v)] = NoRow /\ ~library[v].planned
      BY <1>0, <3>1 DEF ReferencesHold
    <3>3. ~CompleteUpload(v)
      BY <3>1 DEF CompleteUpload, Exists
    <3>4. ASSUME NEW w \in Workers, CommitClip(w), fresh[w] = v PROVE FALSE
      BY <1>0, <1>1, <3>4 DEF CommitClip, Exists, Typed, LibraryTypeOK
    <3> QED BY <1>0, <3>1, <3>2, <3>3, <3>4, ProbeRows
  <2> QED BY <2>1, <2>2
<1>2. ASSUME NEW c \in Clips, NEW v, v = clips'[c].video, v # NoVideo
      PROVE  Exists(v)' /\ (clips'[c].status = "indexed" => library'[v].status = "ready")
  <2>0. clips \in [Clips -> [status : {"none", "pending", "fetched", "unavailable", "indexed"},
                             video : Videos \cup {NoVideo}]]
        /\ \A w \in Workers : fresh[w] \in Videos \cup {NoVideo}
    BY <1>0 DEF Typed, LibraryTypeOK
  <2>1. ASSUME v = clips[c].video
        PROVE  /\ v \in Videos /\ ~DeleteVideo(v) /\ Exists(v) /\ Exists(v)'
               /\ clips[c].status = "indexed" => library'[v].status = "ready"
    <3>1. v \in Videos /\ Exists(v) /\ (clips[c].status = "indexed" => library[v].status = "ready")
      BY <1>0, <1>2, <2>0, <2>1 DEF ReferencesHold
    <3>2. ~DeleteVideo(v)
      BY <1>2, <2>0, <2>1 DEF DeleteVideo, WithoutLinks
    <3> QED BY <1>0, <3>1, <3>2, RowKept
  <2>2. CASE ClipKept(c)
    BY <1>2, <2>1, <2>2 DEF ClipKept
  <2>3. CASE ClipLinked(c)
    <3>1. PICK u \in Videos : Exists(u) /\ clips'[c] = Linked(clips[c], u)
      BY <2>3 DEF ClipLinked
    <3>2. v = u /\ library' = library /\ (clips'[c].status = "indexed" => library[u].status = "ready")
      BY <1>2, <2>3, <3>1 DEF Linked, ClipLinked
    <3> QED BY <3>1, <3>2 DEF Exists
  <2>4. CASE ClipFetched(c)
    <3>1. PICK w \in Workers : CommitClip(w) /\ clips'[c] = [status |-> "fetched", video |-> fresh[w]]
      BY <2>4 DEF ClipFetched
    <3>2. v = fresh[w] /\ v \in Videos /\ clips'[c].status # "indexed"
      BY <1>2, <2>0, <3>1
    <3>3. library'[v].status = "uploaded"
      BY <1>0, <3>1, <3>2 DEF CommitClip, Typed, LibraryTypeOK
    <3> QED BY <3>2, <3>3 DEF Exists
  <2>5. CASE ClipIndexed(c)
    BY <1>2, <2>1, <2>5 DEF ClipIndexed
  <2> QED BY <1>0, <1>2, <2>2, <2>3, <2>4, <2>5, ClipSteps DEF ClipDropped
<1> QED BY <1>1, <1>2 DEF ReferencesHold

LEMMA InitId == LibraryInit => IdInv
<1> SUFFICES ASSUME LibraryInit PROVE IdInv
  OBVIOUS
<1>1. Typed
  BY InitTyped
<1>2. FreshIsNew /\ PurgedIsDeleted
  BY DEF LibraryInit, FreshIsNew, Named, PurgedIsDeleted
<1>3. \A j \in Jobs : jobs[j] = NoRow
  BY DEF LibraryInit
<1>4. ProbedIsSubmitted
  BY <1>3, JobParts, LibraryConstants DEF LibraryInit, ProbedIsSubmitted, Probes
<1>5. ReferencesHold
  BY <1>3, JobParts DEF LibraryInit, ReferencesHold, NoRowYet
<1> QED BY <1>1, <1>2, <1>4, <1>5 DEF IdInv

LEMMA IdHolds == LibrarySpec => []IdInv
<1>1. IdInv /\ [LibraryNext]_libraryVars => IdInv'
  <2> SUFFICES ASSUME IdInv, [LibraryNext]_libraryVars PROVE IdInv'
    OBVIOUS
  <2>1. CASE LibraryNext
    <3>1. Typed'
      BY <2>1, StepTyped DEF IdInv
    <3> QED BY <2>1, <3>1, StepFreshIsNew, StepPurged, StepProbed, StepReferences DEF IdInv
  <2>2. CASE UNCHANGED libraryVars
    <3>1. /\ UNCHANGED <<jobs, clips, library, original, torn, web, purging, disk,
                         pc, job, seen, fresh, frozen, used>>
      BY <2>2 DEF libraryVars, dataVars, workerVars
    <3> QED BY <3>1 DEF IdInv, Typed, LibraryTypeOK, HasJob, FreshIsNew, Named, PurgedIsDeleted,
              ProbedIsSubmitted, Probes, Submitted, Subject, ReferencesHold, Exists
  <2> QED BY <2>1, <2>2
<1> QED BY <1>1, InitId, PTL DEF LibrarySpec

(* No row refers to a video that was deleted, whatever handler runs, and a *)
(* clip that counts as indexed is linked to a video that is ready.         *)
THEOREM ReferencesAreKept == LibrarySpec => []ReferencesHold
<1>1. IdInv => ReferencesHold
  BY DEF IdInv
<1> QED BY <1>1, IdHolds, PTL

-----------------------------------------------------------------------------
(* What a step does to a worker, to a video that is planned, to its media *)

HandlerStep(w) == FetchDatasetVideo(w) \/ ProbeVideo(w)

LEMMA PlaceSteps ==
  ASSUME Typed, LibraryNext, NEW w \in Workers
  PROVE  \/ pc'[w] = pc[w] /\ job'[w] = job[w]
         \/ pc'[w] = "idle" /\ job'[w] = NoJob
         \/ pc'[w] = "start" /\ Lease(w)
         \/ HandlerStep(w) /\ job'[w] = job[w]
<1> DEFINE Goal == \/ pc'[w] = pc[w] /\ job'[w] = job[w]
                   \/ pc'[w] = "idle" /\ job'[w] = NoJob
                   \/ pc'[w] = "start" /\ Lease(w)
                   \/ HandlerStep(w) /\ job'[w] = job[w]
<1>0. pc = [u \in Workers |-> pc[u]] /\ job = [u \in Workers |-> job[u]]
  BY DEF Typed, LibraryTypeOK
<1>1. ASSUME UNCHANGED <<pc, job>> PROVE Goal
  BY <1>1
<1>2. ASSUME NEW u \in Workers, Finish(u) \/ Crash(u) PROVE Goal
  <2>1. pc' = [pc EXCEPT ![u] = "idle"] /\ job' = [job EXCEPT ![u] = NoJob]
    BY <1>2 DEF Finish, Crash, Release, Goto
  <2> QED BY <1>0, <2>1
<1>3. ASSUME NEW u \in Workers, Lease(u) PROVE Goal
  <2>1. PICK j : job' = [job EXCEPT ![u] = j]
    BY <1>3, LeaseParts DEF LeaseOf
  <2>2. pc' = [pc EXCEPT ![u] = "start"]
    BY <1>3 DEF Lease, Goto
  <2> QED BY <1>0, <1>3, <2>1, <2>2
<1>4. ASSUME NEW u \in Workers, HandlerStep(u) PROVE Goal
  <2>1. UNCHANGED job /\ \E place : pc' = [pc EXCEPT ![u] = place]
    BY <1>4 DEF HandlerStep, FetchDatasetVideo, ProbeVideo, FetchStart, StartDownload,
         EndDownload, RenameDownload, DownloadFails, MarkUnavailable, StoreClip, FileGone,
         CommitClip, UnlinkDownload, ProbeStart, ProbeWork, ProbeRaises, ProbePlan, ProbeTidy,
         Move, OnDisk, Goto
  <2> QED BY <1>0, <1>4, <2>1
<1>5. ASSUME \/ \E u \in Workers : Stall(u) \/ Resume(u) \/ \E j \in Jobs : Reap(u, j)
             \/ \E j \in Jobs : BackoffElapsed(j)
             \/ \E v \in Videos : FinalizeVideo(v)
      PROVE  UNCHANGED <<pc, job>>
  BY <1>5 DEF Stall, Resume, Reap, BackoffElapsed, FinalizeVideo, workerVars
<1>6. ASSUME User PROVE UNCHANGED <<pc, job>>
  BY <1>6 DEF User, ImportSplit, EnqueueFetches, CreateVideo, PutOriginal, CompleteUpload,
       RetryVideo, DeleteVideo, DeletePrefix, workerVars
<1> HIDE DEF Goal
<1>7. Goal
  BY <1>1, <1>2, <1>3, <1>4, <1>5, <1>6 DEF LibraryNext, HandlerStep
<1> QED BY <1>7 DEF Goal

LEMMA PlannedStays ==
  ASSUME Typed, FreshIsNew, LibraryNext, NEW v \in Videos, library[v].planned
  PROVE  library'[v].planned \/ library'[v].status = "deleted"
<1>0. library = [u \in Videos |-> library[u]]
      /\ library[v] \in [title : Clips \cup {"none"}, source : {"none", "upload", "dataset"},
                         status : {"none", "uploading", "uploaded", "processing",
                                   "ready", "failed", "deleted"}, planned : BOOLEAN]
  BY DEF Typed, LibraryTypeOK
<1>1. ASSUME NEW c \in Clips, CreateVideo(v, c) PROVE FALSE
  BY <1>1 DEF CreateVideo, Unused, NoRowYet
<1>2. ASSUME NEW w \in Workers, CommitClip(w), fresh[w] = v PROVE FALSE
  BY <1>2 DEF CommitClip, In, At, FreshIsNew, Named, NoRowYet
<1>3. CASE CompleteUpload(v) \/ RetryVideo(v) \/ FinalizeVideo(v)
  BY <1>0, <1>3 DEF CompleteUpload, RetryVideo, FinalizeVideo
<1>4. CASE DeleteVideo(v)
  BY <1>0, <1>4 DEF DeleteVideo, Deleted, NoRowYet
<1>5. ASSUME NEW w \in Workers, ProbeStart(w) \/ ProbePlan(w), Subject(w) = v
      PROVE  library'[v].planned
  BY <1>0, <1>5 DEF ProbeStart, ProbePlan
<1>6. CASE library'[v] = library[v]
  BY <1>6
<1> QED BY <1>1, <1>2, <1>3, <1>4, <1>5, <1>6, LibrarySteps DEF VideoStep

LEMMA WebSteps ==
  ASSUME LibraryNext, NEW v \in web, v \notin web'
  PROVE  DeletePrefix(v)
<1>1. ASSUME NEW u \in Videos, DeletePrefix(u) PROVE DeletePrefix(v)
  BY <1>1 DEF DeletePrefix
<1>2. ASSUME NEW w \in Workers, ProbeWork(w) PROVE FALSE
  BY <1>2 DEF ProbeWork
<1>3. ASSUME NEW w \in Workers,
             \/ FetchDatasetVideo(w) \/ ProbeStart(w) \/ ProbeRaises(w) \/ ProbePlan(w)
             \/ ProbeTidy(w) \/ Lease(w) \/ Finish(w) \/ Crash(w) \/ Stall(w) \/ Resume(w)
             \/ \E j \in Jobs : Reap(w, j)
      PROVE  UNCHANGED web
  BY <1>3 DEF FetchDatasetVideo, FetchStart, StartDownload, EndDownload, RenameDownload,
       DownloadFails, MarkUnavailable, StoreClip, FileGone, CommitClip, UnlinkDownload,
       ProbeStart, ProbeRaises, ProbePlan, ProbeTidy, Lease, Finish, Crash, Stall, Resume,
       Reap, Move, OnDisk, dataVars
<1>4. ASSUME \/ ImportSplit \/ EnqueueFetches \/ \E u \in Videos, c \in Clips : CreateVideo(u, c)
             \/ \E j \in Jobs : BackoffElapsed(j)
             \/ \E u \in Videos : \/ PutOriginal(u) \/ CompleteUpload(u) \/ RetryVideo(u)
                                   \/ DeleteVideo(u) \/ FinalizeVideo(u)
      PROVE  UNCHANGED web
  BY <1>4 DEF ImportSplit, EnqueueFetches, CreateVideo, BackoffElapsed, PutOriginal,
       CompleteUpload, RetryVideo, DeleteVideo, FinalizeVideo, dataVars
<1> QED BY <1>1, <1>2, <1>3, <1>4 DEF LibraryNext, User, ProbeVideo

-----------------------------------------------------------------------------
(* The media of a video: the first half of MediaKept and what a probe may  *)
(* rely on between its steps.                                              *)
Gone(v) == library[v].status = "deleted"
Shown(v) == library[v].planned /\ v \in web

Stored ==
  \A v \in Videos : Exists(v) /\ library[v].status # "uploading" => v \in original \/ Shown(v)

AtWork ==
  \A w \in Workers :
    /\ pc[w] = "plan" => Probes(w) /\ (Subject(w) \in web \/ Gone(Subject(w)))
    /\ pc[w] = "tidy" => Probes(w) /\ (Shown(Subject(w)) \/ Gone(Subject(w)))

KeptInv == IdInv /\ Stored /\ AtWork

LEMMA MediaStay ==
  ASSUME IdInv, LibraryNext, NEW v \in Videos
  PROVE  /\ Gone(v) => Gone(v)'
         /\ v \in web => v \in web' \/ Gone(v)'
         /\ Shown(v) => Shown(v)' \/ Gone(v)'
<1>0. Typed /\ FreshIsNew /\ ReferencesHold /\ PurgedIsDeleted
  BY DEF IdInv
<1>1. Gone(v) => Gone(v)'
  BY <1>0, RowLife DEF Gone
<1>2. v \in web => v \in web' \/ Gone(v)'
  <2>1. DeletePrefix(v) => Gone(v)
    BY <1>0 DEF DeletePrefix, PurgedIsDeleted, Gone
  <2> QED BY <1>1, <2>1, WebSteps
<1>3. library[v].planned => library'[v].planned \/ Gone(v)'
  BY <1>0, PlannedStays DEF Gone
<1> QED BY <1>1, <1>2, <1>3 DEF Shown

LEMMA StepAtWork ==
  ASSUME KeptInv, LibraryNext
  PROVE  AtWork'
<1>0. IdInv /\ Typed /\ AtWork
  BY DEF KeptInv, IdInv
<1>1. ASSUME NEW w \in Workers, pc'[w] = pc[w], job'[w] = job[w]
      PROVE  /\ pc'[w] = "plan" => Probes(w)' /\ (Subject(w)' \in web' \/ Gone(Subject(w))')
             /\ pc'[w] = "tidy" => Probes(w)' /\ (Shown(Subject(w))' \/ Gone(Subject(w))')
  <2>1. Probes(w)' = Probes(w) /\ Subject(w)' = Subject(w)
    BY <1>1 DEF Probes, Subject
  <2>2. Probes(w) => Subject(w) \in Videos
    BY JobParts DEF Probes, Subject
  <2> DEFINE v == Subject(w)
  <2>3. v \in Videos => /\ Gone(v) => Gone(v)'
                        /\ v \in web => v' \in web' \/ Gone(v)'
                        /\ Shown(v) => Shown(v)' \/ Gone(v)'
    BY <1>0, <2>1, MediaStay DEF Gone, Shown
  <2> QED BY <1>0, <1>1, <2>1, <2>2, <2>3 DEF AtWork
<1>2. ASSUME NEW w \in Workers, HandlerStep(w), job'[w] = job[w]
      PROVE  /\ pc'[w] = "plan" => Probes(w)' /\ (Subject(w)' \in web' \/ Gone(Subject(w))')
             /\ pc'[w] = "tidy" => Probes(w)' /\ (Shown(Subject(w))' \/ Gone(Subject(w))')
  <2>0. pc = [u \in Workers |-> pc[u]] /\ library = [u \in Videos |-> library[u]]
    BY <1>0 DEF Typed, LibraryTypeOK
  <2>1. Probes(w)' = Probes(w) /\ Subject(w)' = Subject(w)
    BY <1>2 DEF Probes, Subject
  <2>2. CASE ProbeWork(w)
    <3>1. Probes(w)
      BY <1>0, <2>2, WorkerJob DEF ProbeWork, In, At
    <3>2. \/ pc'[w] = "plan" /\ Subject(w) \in web'
          \/ pc'[w] = "error"
      BY <2>0, <2>2 DEF ProbeWork, Goto
    <3> QED BY <2>1, <3>1, <3>2
  <2>3. CASE ProbePlan(w)
    <3>1. Probes(w) /\ Subject(w) \in Videos
      BY <1>0, <2>3, WorkerJob DEF ProbePlan, In, At
    <3> DEFINE v == Subject(w)
    <3>2. /\ pc'[w] \in {"ok", "tidy", "error"}
          /\ pc'[w] = "tidy" => Exists(v) /\ library' = [library EXCEPT ![v].planned = TRUE]
          /\ web' = web
      BY <2>0, <2>3 DEF ProbePlan, Goto
    <3>3. pc[w] = "plan"
      BY <2>3 DEF ProbePlan, In, At
    <3>4. pc'[w] = "tidy" => v \in web
      BY <1>0, <3>2, <3>3 DEF AtWork, Gone, Exists
    <3> HIDE DEF v
    <3>5. pc'[w] = "tidy" => library'[v].planned
      <4>1. v \in Videos
        BY <3>1 DEF v
      <4>2. ASSUME library' = [library EXCEPT ![v].planned = TRUE] PROVE library'[v].planned
        <5>1. library'[v] = [library[v] EXCEPT !.planned = TRUE]
          BY <2>0, <4>1, <4>2
        <5>2. library[v] \in [title : Clips \cup {"none"}, source : {"none", "upload", "dataset"},
                              status : {"none", "uploading", "uploaded", "processing",
                                        "ready", "failed", "deleted"}, planned : BOOLEAN]
          BY <1>0, <4>1 DEF Typed, LibraryTypeOK
        <5>3. library'[v].planned = TRUE
          BY <5>1, <5>2
        <5> QED BY <5>3
      <4> QED BY <3>2, <4>2
    <3> USE DEF v
    <3> QED BY <2>1, <3>1, <3>2, <3>4, <3>5 DEF Shown
  <2>4. CASE FetchDatasetVideo(w) \/ ProbeStart(w) \/ ProbeRaises(w) \/ ProbeTidy(w)
    <3>1. \E place \in Places \ {"plan", "tidy"} : Goto(w, place)
      BY <2>4 DEF FetchDatasetVideo, FetchStart, StartDownload, EndDownload, RenameDownload,
           DownloadFails, MarkUnavailable, StoreClip, FileGone, CommitClip, UnlinkDownload,
           ProbeStart, ProbeRaises, ProbeTidy, Move, OnDisk, Places
    <3> QED BY <2>0, <3>1 DEF Goto
  <2> QED BY <1>2, <2>2, <2>3, <2>4 DEF HandlerStep, ProbeVideo
<1> QED BY <1>0, <1>1, <1>2, PlaceSteps DEF AtWork

LEMMA StepStored ==
  ASSUME KeptInv, LibraryNext
  PROVE  Stored'
<1>0. IdInv /\ Typed /\ FreshIsNew /\ ReferencesHold /\ PurgedIsDeleted /\ Stored /\ AtWork
  BY DEF KeptInv, IdInv
<1> SUFFICES ASSUME NEW v \in Videos, Exists(v)', library'[v].status # "uploading"
             PROVE  v \in original' \/ Shown(v)'
  BY DEF Stored
<1>1. ~Gone(v) /\ ~Gone(v)'
  BY <1>0, MediaStay DEF Exists, Gone
<1>2. v \in original => v \in original' \/ Shown(v)'
  <2>1. ~DeletePrefix(v)
    BY <1>0, <1>1 DEF DeletePrefix, PurgedIsDeleted, Gone
  <2>2. ASSUME NEW w \in Workers, ProbeTidy(w), Subject(w) = v PROVE Shown(v)'
    <3>1. Shown(v)
      BY <1>0, <1>1, <2>2 DEF AtWork, ProbeTidy, In, At
    <3> QED BY <1>0, <1>1, <3>1, MediaStay
  <2> QED BY <2>1, <2>2, OriginalSteps
<1>3. Shown(v) => Shown(v)'
  BY <1>0, <1>1, MediaStay
<1>4. CASE Exists(v) /\ library[v].status # "uploading"
  BY <1>0, <1>2, <1>3, <1>4 DEF Stored
<1>5. CASE ~(Exists(v) /\ library[v].status # "uploading")
  <2>1. library[v].status \in {"none", "uploading"}
    BY <1>1, <1>5 DEF Exists, Gone
  <2>2. library'[v] # library[v]
    BY <2>1 DEF Exists
  <2>3. ASSUME NEW c \in Clips, CreateVideo(v, c) PROVE FALSE
    BY <1>0, <2>3 DEF CreateVideo, Typed, LibraryTypeOK
  <2>4. CASE CompleteUpload(v)
    BY <1>2, <2>4 DEF CompleteUpload
  <2>5. ~(RetryVideo(v) \/ DeleteVideo(v))
    BY <1>0, <1>1, <2>1 DEF RetryVideo, DeleteVideo, Typed, LibraryTypeOK, Gone, Deleted, NoRowYet
  <2>6. CASE FinalizeVideo(v)
    BY <1>3, <2>6 DEF FinalizeVideo, Shown
  <2>7. ASSUME NEW w \in Workers, CommitClip(w), fresh[w] = v PROVE v \in original'
    BY <1>0, <2>7 DEF CommitClip, In, At, FreshIsNew
  <2>8. ASSUME NEW w \in Workers, ProbeStart(w) \/ ProbePlan(w), Subject(w) = v PROVE FALSE
    <3>1. Submitted(v)
      BY <1>0, <2>8, WorkerJob DEF ProbeStart, ProbePlan, In, At, IdInv, ProbedIsSubmitted
    <3> QED BY <2>1, <3>1 DEF Submitted
  <2> QED BY <1>0, <2>2, <2>3, <2>4, <2>5, <2>6, <2>7, <2>8, LibrarySteps DEF VideoStep
<1> QED BY <1>4, <1>5

-----------------------------------------------------------------------------
(* As long as no process was frozen for longer than its lease, the worker  *)
(* of a fetch is the only one on that clip.                                *)
Fetches(w) == job[w] \in Jobs /\ Type(job[w]) = "fetch"

Holds == \A w \in Workers :
           Fetches(w) => jobs[job[w]].status = "running" /\ jobs[job[w]].lockedBy = w

Alone == frozen = {} /\ Holds

LEMMA OneFetcher ==
  ASSUME Holds, NEW w \in Workers, NEW u \in Workers, Fetches(w), job[u] = job[w]
  PROVE  u = w
  BY DEF Holds, Fetches

LEMMA StallSteps ==
  ASSUME Typed, LibraryNext, used'["stall"] = 0
  PROVE  used["stall"] = 0 /\ frozen' \subseteq frozen
<1>0. used \in [Kinds -> Nat] /\ "stall" \in Kinds
  BY DEF Typed, LibraryTypeOK, Kinds
<1>1. ASSUME NEW k \in Kinds, Spend(k)
      PROVE  k # "stall" /\ used["stall"] = 0
  <2>1. used' = [used EXCEPT ![k] = used[k] + 1]
    BY <1>1 DEF Spend
  <2> QED BY <1>0, <2>1
<1>2. {"crash", "error", "gone", "import", "fetch", "upload", "delete", "retry", "stall"} \subseteq Kinds
  BY DEF Kinds
<1>3. ASSUME User PROVE used["stall"] = 0 /\ frozen' \subseteq frozen
  BY <1>1, <1>2, <1>3 DEF User, ImportSplit, EnqueueFetches, CreateVideo, PutOriginal,
       CompleteUpload, RetryVideo, DeleteVideo, DeletePrefix
<1>4. ASSUME NEW w \in Workers, FetchDatasetVideo(w) \/ ProbeVideo(w)
      PROVE  used["stall"] = 0 /\ frozen' \subseteq frozen
  BY <1>1, <1>2, <1>4 DEF FetchDatasetVideo, ProbeVideo, FetchStart, StartDownload,
       EndDownload, RenameDownload, DownloadFails, MarkUnavailable, StoreClip, FileGone,
       CommitClip, UnlinkDownload, ProbeStart, ProbeWork, ProbeRaises, ProbePlan, ProbeTidy,
       Move, OnDisk
<1>5. ASSUME NEW w \in Workers, Lease(w) \/ Finish(w) \/ Crash(w) \/ Stall(w) \/ Resume(w)
      PROVE  used["stall"] = 0 /\ frozen' \subseteq frozen
  BY <1>1, <1>2, <1>5 DEF Lease, Finish, Crash, Stall, Resume
<1>6. ASSUME \/ \E w \in Workers, j \in Jobs : Reap(w, j)
             \/ \E j \in Jobs : BackoffElapsed(j)
             \/ \E v \in Videos : FinalizeVideo(v)
      PROVE  used["stall"] = 0 /\ frozen' \subseteq frozen
  BY <1>6 DEF Reap, BackoffElapsed, FinalizeVideo
<1> QED BY <1>3, <1>4, <1>5, <1>6 DEF LibraryNext

(* The row of a running fetch is settled by its worker or by the reaper. *)
LEMMA FetchRows ==
  ASSUME Typed, LibraryNext, NEW c \in Clips, jobs[Fetch(c)].status = "running"
  PROVE  \/ /\ jobs'[Fetch(c)].status = "running"
            /\ jobs'[Fetch(c)].lockedBy = jobs[Fetch(c)].lockedBy
         \/ \E u \in Workers : Finish(u) /\ job[u] = Fetch(c)
         \/ \E u \in Workers : Reap(u, Fetch(c))
<1> DEFINE Kept == /\ jobs'[Fetch(c)].status = "running"
                   /\ jobs'[Fetch(c)].lockedBy = jobs[Fetch(c)].lockedBy
<1>0. jobs \in [Jobs -> Row] /\ Fetch(c) \in Jobs /\ \A v : Probe(v) # Fetch(c)
  BY JobParts DEF Typed, LibraryTypeOK, Fetch, Probe
<1>1. ASSUME jobs'[Fetch(c)] = jobs[Fetch(c)] PROVE Kept
  BY <1>1
<1>2. ASSUME EnqueueFetches PROVE Kept
  BY <1>0, <1>2 DEF EnqueueFetches, Enqueued
<1>3. ASSUME NEW v \in Videos, CompleteUpload(v) \/ RetryVideo(v) \/ DeleteVideo(v)
      PROVE  Kept
  BY <1>0, <1>3 DEF CompleteUpload, RetryVideo, DeleteVideo, WithoutJobs
<1>4. ASSUME NEW w \in Workers, CommitClip(w) PROVE Kept
  BY <1>0, <1>4 DEF CommitClip
<1>5. ASSUME NEW w \in Workers, Lease(w) PROVE Kept
  <2>1. PICK j : LeaseOf(w, j)
    BY <1>5, LeaseParts
  <2> QED BY <1>0, <2>1 DEF LeaseOf
<1>6. ASSUME NEW w \in Workers, Finish(w), job[w] # Fetch(c) PROVE Kept
  BY <1>0, <1>6 DEF Finish, Put
<1>7. ASSUME NEW w \in Workers, NEW j \in Jobs, Reap(w, j), j # Fetch(c) PROVE Kept
  BY <1>0, <1>7 DEF Reap
<1>8. ASSUME NEW j \in Jobs, BackoffElapsed(j) PROVE Kept
  <2>1. jobs' = [jobs EXCEPT ![j] = [jobs[j] EXCEPT !.delayed = FALSE]]
    BY <1>8 DEF BackoffElapsed
  <2>2. jobs[Fetch(c)] \in Row
    BY <1>0
  <2> QED BY <1>0, <2>1, <2>2 DEF Row
<1>9. ASSUME \/ ImportSplit \/ \E v \in Videos, d \in Clips : CreateVideo(v, d)
             \/ \E v \in Videos : PutOriginal(v) \/ DeletePrefix(v) \/ FinalizeVideo(v)
      PROVE  UNCHANGED jobs
  BY <1>9 DEF ImportSplit, CreateVideo, PutOriginal, DeletePrefix, FinalizeVideo
<1>10. ASSUME NEW w \in Workers,
              \/ FetchStart(w) \/ StartDownload(w) \/ EndDownload(w) \/ RenameDownload(w)
              \/ DownloadFails(w) \/ MarkUnavailable(w) \/ StoreClip(w) \/ FileGone(w)
              \/ UnlinkDownload(w) \/ ProbeVideo(w) \/ Crash(w) \/ Stall(w) \/ Resume(w)
       PROVE  UNCHANGED jobs
  BY <1>10 DEF FetchStart, StartDownload, EndDownload, RenameDownload, DownloadFails,
       MarkUnavailable, StoreClip, FileGone, UnlinkDownload, ProbeVideo, ProbeStart, ProbeWork,
       ProbeRaises, ProbePlan, ProbeTidy, Crash, Stall, Resume, Move, OnDisk
<1> HIDE DEF Kept
<1>11. \/ Kept
       \/ \E u \in Workers : Finish(u) /\ job[u] = Fetch(c)
       \/ \E u \in Workers : Reap(u, Fetch(c))
  BY <1>1, <1>2, <1>3, <1>4, <1>5, <1>6, <1>7, <1>8, <1>9, <1>10
     DEF LibraryNext, User, FetchDatasetVideo
<1> QED BY <1>11 DEF Kept

LEMMA StepAlone ==
  ASSUME Typed, Alone, LibraryNext, used'["stall"] = 0
  PROVE  Alone'
<1>0. frozen = {} /\ Holds /\ frozen' = {}
  BY StallSteps DEF Alone
<1>1. ASSUME NEW w \in Workers, Fetches(w)'
      PROVE  jobs'[job'[w]].status = "running" /\ jobs'[job'[w]].lockedBy = w
  <2>1. CASE job'[w] = job[w]
    <3>1. Fetches(w)
      BY <1>1, <2>1 DEF Fetches
    <3>2. PICK c \in Clips : job[w] = Fetch(c)
      BY <3>1, JobParts DEF Fetches
    <3>3. jobs[Fetch(c)].status = "running" /\ jobs[Fetch(c)].lockedBy = w
      BY <1>0, <3>1, <3>2 DEF Holds
    <3>4. ASSUME NEW u \in Workers, Finish(u), job[u] = Fetch(c) PROVE FALSE
      <4>1. u = w
        BY <1>0, <3>1, <3>2, <3>4, OneFetcher
      <4>2. job'[w] = NoJob
        BY <3>4, <4>1 DEF Finish, Release, Typed, LibraryTypeOK
      <4> QED BY <1>1, <4>2, LibraryConstants DEF Fetches
    <3>5. ASSUME NEW u \in Workers, Reap(u, Fetch(c)) PROVE FALSE
      BY <1>0, <3>2, <3>5 DEF Reap
    <3> QED BY <2>1, <3>2, <3>3, <3>4, <3>5, FetchRows
  <2>2. CASE job'[w] = NoJob
    BY <1>1, <2>2, LibraryConstants DEF Fetches
  <2>3. CASE Lease(w)
    <3>1. PICK j : LeaseOf(w, j)
      BY <2>3, LeaseParts
    <3>2. job'[w] = j /\ jobs'[j] = Leased(jobs[j], w)
      BY <3>1 DEF LeaseOf, Typed, LibraryTypeOK
    <3> QED BY <3>2 DEF Leased
  <2> QED BY <2>1, <2>2, <2>3, JobSteps
<1> QED BY <1>0, <1>1 DEF Alone, Holds

-----------------------------------------------------------------------------
(* Then no download is cut off under another one's hands, ... *)
Whole ==
  /\ torn = {}
  /\ \A c \in Clips : disk[c].dest # "torn"
  /\ \A w \in Workers : Fetches(w) /\ pc[w] = "rename" => disk[Subject(w)].part # "writing"

DiskStep(c) ==
  \E w \in Workers :
    /\ StartDownload(w) \/ EndDownload(w) \/ RenameDownload(w) \/ UnlinkDownload(w)
    /\ Subject(w) = c

LEMMA DiskSteps ==
  ASSUME Typed, LibraryNext, NEW c \in Clips
  PROVE  disk'[c] = disk[c] \/ DiskStep(c)
<1>0. disk = [d \in Clips |-> disk[d]]
  BY DEF Typed, LibraryTypeOK
<1>1. ASSUME UNCHANGED disk PROVE disk'[c] = disk[c]
  BY <1>1
<1>2. ASSUME NEW w \in Workers,
             StartDownload(w) \/ EndDownload(w) \/ RenameDownload(w) \/ UnlinkDownload(w)
      PROVE  disk'[c] = disk[c] \/ DiskStep(c)
  <2>1. \E files : disk' = [disk EXCEPT ![Subject(w)] = files]
    BY <1>2 DEF StartDownload, EndDownload, RenameDownload, UnlinkDownload, OnDisk
  <2>2. Subject(w) = c \/ disk'[c] = disk[c]
    BY <1>0, <2>1
  <2> QED BY <1>2, <2>2 DEF DiskStep
<1>3. ASSUME NEW w \in Workers,
             \/ FetchStart(w) \/ DownloadFails(w) \/ MarkUnavailable(w) \/ StoreClip(w)
             \/ FileGone(w) \/ CommitClip(w) \/ ProbeVideo(w) \/ Lease(w) \/ Finish(w)
             \/ Crash(w) \/ Stall(w) \/ Resume(w) \/ \E j \in Jobs : Reap(w, j)
      PROVE  UNCHANGED disk
  BY <1>3 DEF FetchStart, DownloadFails, MarkUnavailable, StoreClip, FileGone, CommitClip,
       ProbeVideo, ProbeStart, ProbeWork, ProbeRaises, ProbePlan, ProbeTidy, Lease, Finish,
       Crash, Stall, Resume, Reap, Move, dataVars
<1>4. ASSUME \/ User \/ \E j \in Jobs : BackoffElapsed(j) PROVE UNCHANGED disk
  BY <1>4 DEF User, ImportSplit, EnqueueFetches, CreateVideo, PutOriginal, CompleteUpload,
       RetryVideo, DeleteVideo, DeletePrefix, BackoffElapsed, dataVars
<1>5. ASSUME \E v \in Videos : FinalizeVideo(v) PROVE UNCHANGED disk
  BY <1>5 DEF FinalizeVideo
<1> QED BY <1>1, <1>2, <1>3, <1>4, <1>5 DEF LibraryNext, FetchDatasetVideo

LEMMA TornSteps ==
  ASSUME LibraryNext
  PROVE  torn' = torn \/ \E w \in Workers : StoreClip(w)
<1>1. ASSUME NEW w \in Workers,
             \/ FetchStart(w) \/ StartDownload(w) \/ EndDownload(w) \/ RenameDownload(w)
             \/ DownloadFails(w) \/ MarkUnavailable(w) \/ FileGone(w) \/ CommitClip(w)
             \/ UnlinkDownload(w) \/ ProbeVideo(w) \/ Lease(w) \/ Finish(w)
             \/ Crash(w) \/ Stall(w) \/ Resume(w) \/ \E j \in Jobs : Reap(w, j)
      PROVE  UNCHANGED torn
  BY <1>1 DEF FetchStart, StartDownload, EndDownload, RenameDownload, DownloadFails,
       MarkUnavailable, FileGone, CommitClip, UnlinkDownload, ProbeVideo, ProbeStart, ProbeWork,
       ProbeRaises, ProbePlan, ProbeTidy, Lease, Finish, Crash, Stall, Resume, Reap, Move,
       OnDisk, dataVars
<1>2. ASSUME \/ User \/ \E j \in Jobs : BackoffElapsed(j) PROVE UNCHANGED torn
  BY <1>2 DEF User, ImportSplit, EnqueueFetches, CreateVideo, PutOriginal, CompleteUpload,
       RetryVideo, DeleteVideo, DeletePrefix, BackoffElapsed, dataVars
<1>3. ASSUME \E v \in Videos : FinalizeVideo(v) PROVE UNCHANGED torn
  BY <1>3 DEF FinalizeVideo
<1> QED BY <1>1, <1>2, <1>3 DEF LibraryNext, FetchDatasetVideo

LEMMA StepWhole ==
  ASSUME Typed, Alone, Whole, LibraryNext
  PROVE  Whole'
<1>0. /\ pc = [w \in Workers |-> pc[w]] /\ disk = [c \in Clips |-> disk[c]]
      /\ \A w \in Workers : Fetches(w) => Subject(w) \in Clips /\ job[w] = Fetch(Subject(w))
  BY JobParts DEF Typed, LibraryTypeOK, Fetches, Subject
<1>1. torn' = {}
  <2>1. ASSUME NEW w \in Workers, StoreClip(w) PROVE torn' = torn
    <3>1. Subject(w) \in Clips
      BY <2>1, WorkerJob DEF StoreClip, In, At
    <3> QED BY <2>1, <3>1 DEF StoreClip, Whole
  <2> QED BY <2>1, TornSteps DEF Whole
<1>2. ASSUME NEW w \in Workers,
             StartDownload(w) \/ EndDownload(w) \/ RenameDownload(w) \/ UnlinkDownload(w)
      PROVE  Fetches(w) /\ Subject(w) \in Clips /\ job'[w] = job[w]
  BY <1>2, WorkerJob DEF StartDownload, EndDownload, RenameDownload, UnlinkDownload, In, At,
     OnDisk, Fetches
<1>3. ASSUME NEW w \in Workers, RenameDownload(w)
      PROVE  disk[Subject(w)].part # "writing" /\ disk[Subject(w)].part \in {"none", "written", "writing"}
  BY <1>2, <1>3 DEF RenameDownload, In, At, Whole, Typed, LibraryTypeOK
<1>4. ASSUME NEW c \in Clips PROVE disk'[c].dest # "torn"
  <2>1. disk[c] \in [part : {"none", "writing", "written"}, dest : {"none", "torn", "whole"}]
        /\ disk[c].dest # "torn"
    BY DEF Whole, Typed, LibraryTypeOK
  <2>2. ASSUME NEW w \in Workers, StartDownload(w) \/ EndDownload(w) \/ UnlinkDownload(w),
               Subject(w) = c
        PROVE  disk'[c].dest # "torn"
    BY <1>0, <2>1, <2>2 DEF StartDownload, EndDownload, UnlinkDownload, OnDisk, Writing
  <2>3. ASSUME NEW w \in Workers, RenameDownload(w), Subject(w) = c
        PROVE  disk'[c].dest # "torn"
    <3>1. disk[c].part # "writing" /\ disk[c].part \in {"none", "written", "writing"}
      BY <1>3, <2>3
    <3>2. CASE disk[c].part = "none"
      <4>1. disk' = [disk EXCEPT ![c] = disk[c]]
        BY <2>3, <3>2 DEF RenameDownload, OnDisk
      <4> QED BY <1>0, <2>1, <4>1
    <3>3. CASE disk[c].part # "none"
      <4>1. disk' = [disk EXCEPT ![c] = [part |-> "none", dest |-> "whole"]]
        BY <2>3, <3>1, <3>3 DEF RenameDownload, OnDisk
      <4> QED BY <1>0, <4>1
    <3> QED BY <3>2, <3>3
  <2> QED BY <2>1, <2>2, <2>3, DiskSteps DEF DiskStep
<1>5. ASSUME NEW w \in Workers, Fetches(w)', pc'[w] = "rename"
      PROVE  disk'[Subject(w)'].part # "writing"
  <2>1. job'[w] = job[w]
    BY <1>5, PlaceSteps
  <2> DEFINE c == Subject(w)
  <2>2. Fetches(w) /\ Subject(w)' = c /\ c \in Clips
    BY <1>0, <1>5, <2>1 DEF Fetches, Subject
  <2>3. CASE EndDownload(w)
    <3>1. disk' = [disk EXCEPT ![c] =
                     [disk[c] EXCEPT !.part = IF @ = "none" THEN @ ELSE "written"]]
      BY <2>3 DEF EndDownload, OnDisk
    <3>2. disk[c] \in [part : {"none", "writing", "written"}, dest : {"none", "torn", "whole"}]
      BY <2>2 DEF Typed, LibraryTypeOK
    <3> HIDE DEF c
    <3> QED BY <1>0, <2>2, <3>1, <3>2
  <2>4. CASE pc[w] = "rename" /\ ~RenameDownload(w)
    <3>1. disk[c].part # "writing"
      BY <2>2, <2>4 DEF Whole
    <3>2. ASSUME NEW u \in Workers,
                 StartDownload(u) \/ EndDownload(u) \/ RenameDownload(u) \/ UnlinkDownload(u),
                 Subject(u) = c
          PROVE  FALSE
      <4>1. job[u] = job[w]
        BY <1>0, <1>2, <2>2, <3>2
      <4>2. u = w
        BY <2>2, <4>1, OneFetcher DEF Alone
      <4> QED BY <2>4, <3>2, <4>2 DEF StartDownload, EndDownload, UnlinkDownload, In, At
    <3> QED BY <2>2, <3>1, <3>2, DiskSteps DEF DiskStep
  <2>5. ASSUME HandlerStep(w), ~EndDownload(w) PROVE FALSE
    <3>1. \E place \in Places \ {"rename"} : Goto(w, place)
      BY <2>5 DEF HandlerStep, FetchDatasetVideo, ProbeVideo, FetchStart, StartDownload,
           RenameDownload, DownloadFails, MarkUnavailable, StoreClip, FileGone, CommitClip,
           UnlinkDownload, ProbeStart, ProbeWork, ProbeRaises, ProbePlan, ProbeTidy, Move,
           OnDisk, Places
    <3> QED BY <1>0, <1>5, <3>1 DEF Goto
  <2>6. RenameDownload(w) => HandlerStep(w) /\ ~EndDownload(w)
    BY DEF HandlerStep, FetchDatasetVideo, RenameDownload, EndDownload, In, At
  <2> QED BY <1>5, <2>3, <2>4, <2>5, <2>6, PlaceSteps
<1> QED BY <1>1, <1>4, <1>5 DEF Whole

-----------------------------------------------------------------------------
(* ... and a clip whose video was fetched is linked to it, so that no one  *)
(* who still fetches a clip would add a second one.                        *)
Titled(v, c) == library[v].title = c /\ library[v].source = "dataset"

Fetching == {"download", "downloading", "rename", "register", "commit"}

Linking ==
  /\ \A c \in Clips, v \in Videos : Titled(v, c) => clips[c].video = v
  /\ \A w \in Workers : Fetches(w) /\ pc[w] \in Fetching =>
       \A v \in Videos : ~Titled(v, Subject(w))

LEMMA TitleSteps ==
  ASSUME Typed, LibraryNext, NEW v \in Videos, NEW c \in Clips, Titled(v, c)'
  PROVE  \/ Titled(v, c) /\ ~DeleteVideo(v)
         \/ \E w \in Workers : CommitClip(w) /\ fresh[w] = v /\ Subject(w) = c
<1>0. /\ library = [u \in Videos |-> library[u]]
      /\ library[v] \in [title : Clips \cup {"none"}, source : {"none", "upload", "dataset"},
                         status : {"none", "uploading", "uploaded", "processing",
                                   "ready", "failed", "deleted"}, planned : BOOLEAN]
  BY DEF Typed, LibraryTypeOK
<1>1. ASSUME NEW d \in Clips, CreateVideo(v, d) PROVE FALSE
  BY <1>0, <1>1 DEF CreateVideo, Titled
<1>2. ASSUME DeleteVideo(v) PROVE FALSE
  BY <1>0, <1>2 DEF DeleteVideo, Deleted, NoRowYet, Titled
<1>3. CASE CompleteUpload(v) \/ RetryVideo(v) \/ FinalizeVideo(v)
  BY <1>0, <1>2, <1>3 DEF CompleteUpload, RetryVideo, FinalizeVideo, Titled
<1>4. ASSUME NEW w \in Workers, CommitClip(w), fresh[w] = v PROVE Subject(w) = c
  BY <1>0, <1>4 DEF CommitClip, Titled
<1>5. ASSUME NEW w \in Workers, ProbeStart(w) \/ ProbePlan(w), Subject(w) = v PROVE Titled(v, c)
  BY <1>0, <1>5 DEF ProbeStart, ProbePlan, Titled
<1>6. CASE library'[v] = library[v]
  BY <1>2, <1>6 DEF Titled
<1> QED BY <1>1, <1>2, <1>3, <1>4, <1>5, <1>6, LibrarySteps DEF VideoStep

LEMMA StepLinking ==
  ASSUME IdInv, Alone, Linking, LibraryNext
  PROVE  Linking'
<1>0. Typed /\ FreshIsNew /\ Linking /\ Holds
  BY DEF IdInv, Alone
<1>1. ASSUME NEW w \in Workers, CommitClip(w)
      PROVE  /\ Fetches(w) /\ job[w] = Fetch(Subject(w)) /\ Subject(w) \in Clips
             /\ pc[w] = "commit" /\ pc'[w] = "unlink"
  BY <1>0, <1>1, WorkerJob DEF CommitClip, In, At, Goto, Fetches, Typed, LibraryTypeOK
<1>2. ASSUME NEW c \in Clips, NEW v \in Videos, Titled(v, c)' PROVE clips'[c].video = v
  <2>1. CASE Titled(v, c) /\ ~DeleteVideo(v)
    <3>1. clips[c].video = v /\ v # NoVideo
      BY <1>0, <2>1, LibraryConstants DEF Linking
    <3>2. ~ClipFetched(c)
      BY <1>0, <1>1, <2>1 DEF ClipFetched, Linking, Fetching
    <3>3. ClipKept(c) \/ ClipIndexed(c)
      BY <1>0, <2>1, <3>1, <3>2, ClipSteps DEF ClipDropped, ClipLinked
    <3> QED BY <3>1, <3>3 DEF ClipKept, ClipIndexed
  <2>2. ASSUME NEW w \in Workers, CommitClip(w), fresh[w] = v, Subject(w) = c
        PROVE  clips'[c].video = v
    BY <1>0, <2>2 DEF CommitClip, Typed, LibraryTypeOK
  <2> QED BY <1>0, <1>2, <2>1, <2>2, TitleSteps
<1>3. ASSUME NEW w \in Workers, Fetches(w)', pc'[w] \in Fetching,
             NEW v \in Videos, NEW c, c = Subject(w)', Titled(v, c)'
      PROVE  FALSE
  <2>1. job'[w] = job[w] /\ (pc'[w] = pc[w] \/ HandlerStep(w))
    BY <1>0, <1>3, PlaceSteps DEF Fetching
  <2>2. Fetches(w) /\ Subject(w) = c /\ c \in Clips /\ job[w] = Fetch(c)
    BY <1>3, <2>1, JobParts DEF Fetches, Subject
  <2>3. ASSUME NEW u \in Workers, CommitClip(u), Subject(u) = c PROVE FALSE
    <3>1. u = w
      BY <1>0, <1>1, <2>2, <2>3, OneFetcher
    <3> QED BY <1>1, <1>3, <2>3, <3>1 DEF Fetching
  <2>4. Titled(v, c)
    BY <1>0, <1>3, <2>2, <2>3, TitleSteps
  <2>5. pc[w] \notin Fetching /\ clips[c].video = v /\ v # NoVideo
    BY <1>0, <2>2, <2>4, LibraryConstants DEF Linking
  <2>6. HandlerStep(w)
    BY <1>3, <2>1, <2>5
  <2>7. CASE FetchStart(w)
    <3>1. pc' = [pc EXCEPT ![w] = "ok"]
      BY <2>2, <2>5, <2>7 DEF FetchStart, FetchedBefore, Move, Goto
    <3> QED BY <1>0, <1>3, <3>1 DEF Fetching, Typed, LibraryTypeOK
  <2>8. CASE ~FetchStart(w)
    <3>1. \E place \in Places \ Fetching : Goto(w, place)
      BY <2>5, <2>6, <2>8 DEF HandlerStep, FetchDatasetVideo, ProbeVideo, StartDownload,
           EndDownload, RenameDownload, DownloadFails, MarkUnavailable, StoreClip, FileGone,
           CommitClip, UnlinkDownload, ProbeStart, ProbeWork, ProbeRaises, ProbePlan, ProbeTidy,
           In, At, Move, OnDisk, Places, Fetching
    <3> QED BY <1>0, <1>3, <3>1 DEF Goto, Typed, LibraryTypeOK
  <2> QED BY <2>7, <2>8
<1>4. ASSUME NEW w \in Workers, Fetches(w)', pc'[w] \in Fetching, NEW v \in Videos
      PROVE  ~(library'[v].title = Subject(w)' /\ library'[v].source = "dataset")
  BY <1>3, <1>4 DEF Titled
<1> QED BY <1>2, <1>4 DEF Linking, Titled

-----------------------------------------------------------------------------
(* Together *)
ClipInv == /\ KeptInv
           /\ used["stall"] = 0 => Alone /\ Whole /\ Linking

LEMMA StepClipInv ==
  ASSUME ClipInv, LibraryNext, IdInv'
  PROVE  ClipInv'
<1>1. KeptInv /\ IdInv /\ Typed
  BY DEF ClipInv, KeptInv, IdInv
<1>2. KeptInv'
  BY <1>1, StepStored, StepAtWork DEF KeptInv
<1>3. ASSUME used'["stall"] = 0 PROVE (Alone /\ Whole /\ Linking)'
  <2>1. Alone /\ Whole /\ Linking
    BY <1>1, <1>3, StallSteps DEF ClipInv
  <2> QED BY <1>1, <1>3, <2>1, StepAlone, StepWhole, StepLinking
<1> QED BY <1>2, <1>3 DEF ClipInv

LEMMA ClipHolds == LibrarySpec => []ClipInv
<1>1. LibraryInit => ClipInv
  <2> SUFFICES ASSUME LibraryInit PROVE ClipInv
    OBVIOUS
  <2>1. IdInv
    BY InitId
  <2>2. Stored /\ AtWork
    BY DEF LibraryInit, Stored, AtWork, Exists, NoRowYet
  <2>3. \A w \in Workers : ~Fetches(w)
    BY LibraryConstants DEF LibraryInit, Fetches
  <2>4. Alone /\ Whole
    BY <2>3 DEF LibraryInit, Alone, Holds, Whole
  <2>5. Linking
    BY <2>3 DEF LibraryInit, Linking, Titled, NoRowYet
  <2> QED BY <2>1, <2>2, <2>4, <2>5 DEF ClipInv, KeptInv
<1>2. ClipInv /\ IdInv' /\ [LibraryNext]_libraryVars => ClipInv'
  <2>1. CASE UNCHANGED libraryVars
    <3>1. UNCHANGED <<jobs, clips, library, original, torn, web, purging, disk,
                      pc, job, seen, fresh, frozen, used>>
      BY <2>1 DEF libraryVars, dataVars, workerVars
    <3> QED BY <3>1 DEF ClipInv, KeptInv, Stored, AtWork, Shown, Gone, Exists, Probes, Subject,
              Alone, Holds, Fetches, Whole, Linking, Titled
  <2> QED BY <2>1, StepClipInv
<1> QED BY <1>1, <1>2, IdHolds, PTL DEF LibrarySpec

(* Whatever process dies between the object store and the database, a video *)
(* that was handed in has its original or all that comes of it, and the     *)
(* original is the whole file unless a process slept through its lease.     *)
THEOREM MediaAreKept == LibrarySpec => []MediaKept
<1>1. ClipInv /\ LibraryTypeOK => MediaKept
  <2> SUFFICES ASSUME ClipInv, LibraryTypeOK,
                      NEW v \in Videos, Exists(v), library[v].status # "uploading"
               PROVE  /\ v \in original \/ (library[v].planned /\ v \in web)
                      /\ v \in torn => used["stall"] > 0
    BY DEF MediaKept
  <2>1. v \in original \/ (library[v].planned /\ v \in web)
    BY DEF ClipInv, KeptInv, Stored, Shown
  <2>2. used["stall"] \in Nat
    BY DEF LibraryTypeOK, Kinds
  <2>3. v \in torn => used["stall"] > 0
    BY <2>2 DEF ClipInv, Whole
  <2> QED BY <2>1, <2>3
<1> QED BY <1>1, ClipHolds, LibraryTypeCorrect, PTL

(* A clip is in the library once, however often its fetch was repeated,     *)
(* unless a process slept through its lease.                                *)
THEOREM OneVideoOfAClip == LibrarySpec => []OneVideoPerClip
<1>1. ClipInv => OneVideoPerClip
  <2> SUFFICES ASSUME ClipInv, used["stall"] = 0, NEW c \in Clips
               PROVE  Cardinality({v \in Videos : library[v].title = c
                                                    /\ library[v].source = "dataset"}) <= 1
    BY DEF OneVideoPerClip
  <2> DEFINE Copies == {v \in Videos : library[v].title = c /\ library[v].source = "dataset"}
  <2>1. \A v \in Copies : v = clips[c].video
    BY DEF ClipInv, Linking, Titled
  <2>2. Copies = {} \/ Copies = {clips[c].video}
    BY <2>1
  <2>3. Cardinality({}) = 0
    BY FS_EmptySet
  <2>4. Cardinality({clips[c].video}) = 1
    BY FS_Singleton
  <2> HIDE DEF Copies
  <2>5. Cardinality(Copies) <= 1
    BY <2>2, <2>3, <2>4
  <2> QED BY <2>5 DEF Copies
<1> QED BY <1>1, ClipHolds, PTL
=============================================================================
