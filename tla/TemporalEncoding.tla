-------------------------- MODULE TemporalEncoding --------------------------
(***************************************************************************)
(* The versioned temporal embeddings of one video (pipeline/temporal.py):  *)
(* encode_temporal jobs on the workers of the vision queue, the backfill   *)
(* and retire commands, the registry of versions, and the files that       *)
(* workers of one host share (pipeline/media.py).                          *)
(*                                                                         *)
(* The vectors one job writes for a chunk and an encoder are one element   *)
(* of rows[c][k], a window set: who wrote it, in which job, and whether it *)
(* was made from all the frames of the chunk.                              *)
(*                                                                         *)
(* Abstractions: the lease is atomic, in any order, and an orphaned row    *)
(* may be reaped at once (JobQueue has the clocks and the priorities); the *)
(* segments of a chunk do not change, and the frozen processes of JobQueue *)
(* are left out.  Hence a chunk that is done stays so, and the checks for  *)
(* a missing or unfinished chunk cannot fail here.                         *)
(***************************************************************************)
EXTENDS Integers, FiniteSets

CONSTANTS
  Workers, NoWorker, MaxAttempts,  \* as in JobTable
  NoJob,      \* a worker that runs nothing
  ChunkCount, \* rows of video_chunks
  Pictures,   \* the choices of the chunks that have a picture: the others lie
              \* beyond the end of the video stream, and ffmpeg gives no frame
  Names,      \* names of encoders: settings.temporal_model, --model
  KeyOf,      \* Names -> the model_key of the encoder get_encoder builds
  Unnamed,    \* model=None: whatever the settings name when the job runs
  Hosts,      \* machines
  Placements, \* the choices of a host for each worker
  Sources,    \* videos.source
  Budgets     \* bound: the mixes of events, how often each may happen

Kinds == {"crash", "error", "backfill", "force", "retire", "retry", "reconfigure"}

Chunks == 0 .. ChunkCount - 1
Keys   == {KeyOf[n] : n \in Names}

(* temporal:{video}:{c}[:{model}][:{second}]; second 0 is a key without    *)
(* one, call number n of a forced backfill is in second n                  *)
Seconds == UNION {0 .. b["force"] : b \in Budgets}
Jobs    == Chunks \X (Names \cup {Unnamed}) \X Seconds

ChunkOf(j) == j[1]
NameOf(j)  == j[2]
Forced(j)  == j[3] # 0

Priority == [j \in Jobs |-> 0]
OfflineBudget == 0

INSTANCE JobTable

ASSUME TemporalConstants ==
  /\ IsFiniteSet(Workers) /\ Workers \cap {NoWorker, "gone", "full"} = {}
  /\ MaxAttempts \in Nat \ {0}
  /\ NoJob \notin Jobs /\ ChunkCount \in Nat \ {0}
  /\ Pictures # {} /\ Pictures \subseteq SUBSET Chunks
  /\ IsFiniteSet(Names) /\ Names # {} /\ Unnamed \notin Names
  /\ DOMAIN KeyOf = Names
  /\ Placements \subseteq [Workers -> Hosts] /\ Sources # {}
  /\ Budgets # {} /\ Budgets \subseteq [Kinds -> Nat]

VARIABLES
  jobs,       \* the jobs table: Jobs -> Row
  done,       \* the chunks with status `done`
  handing,    \* the chunks between the two last transactions of _index
  rows,       \* embeddings of kind `temporal`: chunk -> key -> window sets
  encoded,    \* the chunks with temporal_at set
  version,    \* index_versions.status of each key, "none" without a row
  configured, \* settings.temporal_model, the same in every process
  worker,     \* what each worker process is doing
  host,       \* where it runs
  source,     \* videos.source
  filmed,     \* the chunks that have a picture
  web,        \* the hosts that have web.mp4 in their cache
  frames,     \* work/chunk_{c}/dense on each host: "gone", "full" of all its
              \* frames (if it has any), or the worker whose ffmpeg was the last to start there
  wanted,     \* history: what backfill set out to have encoded
  used        \* history: how often each kind of event has happened

library == <<done, handing, rows, encoded, version>>
files   == <<web, frames>>
setting == <<configured, host, source, filmed>>
vars == <<jobs, library, worker, files, setting, wanted, used>>

WindowSet == [by : Workers, for : Jobs, whole : BOOLEAN]

(***************************************************************************)
(* A worker is at the top of its loop ("idle"), or in encode_temporal: at  *)
(* the first transaction ("start"), the download ("fetch"), before, in and *)
(* after ffmpeg ("cut", "cutting", "open"), in the model ("embed"), at the *)
(* DELETE and the commit of its rows ("delete", "insert"), at the two ends *)
(* of ensure_index ("register", "build"), at _maybe_drop_cache ("drop"),   *)
(* or past the handler ("ok", "error").                                    *)
(***************************************************************************)
Places == {"idle", "start", "fetch", "cut", "cutting", "open", "embed", "delete",
           "insert", "register", "build", "drop", "ok", "error"}

(* enc: enc.key; whole: all frames were there; old: the rows DELETE has    *)
(* found, invisible to others until the commit                             *)
Process == [pc : Places, job : Jobs \cup {NoJob}, seen : Nat,
            enc : Keys \cup {"unread"}, whole : BOOLEAN, old : SUBSET WindowSet]

Idle == [pc |-> "idle", job |-> NoJob, seen |-> 0, enc |-> "unread",
         whole |-> FALSE, old |-> {}]

Wish == [chunk : Chunks, key : Keys, job : Jobs]

TypeOK ==
  /\ jobs \in [Jobs -> Row]
  /\ handing \subseteq done /\ done \subseteq Chunks /\ encoded \subseteq Chunks
  /\ rows \in [Chunks -> [Keys -> SUBSET WindowSet]]
  /\ version \in [Keys -> {"none", "ready", "retired"}]
  /\ configured \in Names /\ host \in Placements /\ source \in Sources
  /\ filmed \in Pictures
  /\ worker \in [Workers -> Process]
  /\ web \subseteq Hosts /\ frames \in [Hosts \X Chunks -> {"gone", "full"} \cup Workers]
  /\ wanted \subseteq Wish
  /\ used \in [Kinds -> Nat]

Init ==
  /\ jobs = [j \in Jobs |-> NoRow]
  /\ done = {} /\ handing = {} /\ encoded = {}
  /\ rows = [c \in Chunks |-> [k \in Keys |-> {}]]
  /\ version = [k \in Keys |-> "none"]
  /\ configured \in Names /\ host \in Placements /\ source \in Sources
  /\ filmed \in Pictures
  /\ worker = [w \in Workers |-> Idle]
  /\ web = {} /\ frames = [d \in Hosts \X Chunks |-> "gone"]
  /\ wanted = {}
  /\ used = [k \in Kinds |-> 0]

Spend(k) ==
  /\ \E b \in Budgets : used[k] < b[k] /\ \A i \in Kinds : used[i] <= b[i]
  /\ used' = [used EXCEPT ![k] = @ + 1]

-----------------------------------------------------------------------------
(* The other side of the queue *)

(* _index(): the commit that makes the chunk searchable ... *)
IndexChunk(c) ==
  /\ c \notin done
  /\ done' = done \cup {c} /\ handing' = handing \cup {c}
  /\ UNCHANGED <<jobs, rows, encoded, version, worker, files, setting, wanted, used>>

(* ... and the one that hands it to the encoder, if the process lives *)
HandOver(c) ==
  /\ c \in handing
  /\ handing' = handing \ {c}
  /\ \/ jobs' = [jobs EXCEPT ![<<c, Unnamed, 0>>] = Enqueued(@)] /\ UNCHANGED used
     \/ Spend("crash") /\ UNCHANGED jobs
  /\ UNCHANGED <<done, rows, encoded, version, worker, files, setting, wanted>>

EncoderIgnored(n) == KeyOf[configured]  \* mutant: payload["model"] is not read

(* get_encoder(): a missing name stands for the settings' one *)
Encoder(n) == KeyOf[IF n = Unnamed THEN configured ELSE n]

(* The SELECT of backfill() without --force *)
Missing(n) == {c \in done : rows[c][Encoder(n)] = {}}

Ask(targets, n, second) ==
  /\ jobs' = [j \in Jobs |-> IF ChunkOf(j) \in targets /\ NameOf(j) = n /\ j[3] = second
                               THEN Enqueued(jobs[j]) ELSE jobs[j]]
  /\ wanted' = wanted \cup {[chunk |-> c, key |-> Encoder(n), job |-> <<c, n, second>>] :
                              c \in targets}
  /\ UNCHANGED <<library, worker, files, setting>>

Backfill(n)      == Spend("backfill") /\ Ask(Missing(n), n, 0)
BackfillForce(n) == Spend("force") /\ Ask(done, n, used'["force"])

(* retire() *)
Retire(k) ==
  /\ Spend("retire") /\ version[k] # "none"
  /\ version' = [version EXCEPT ![k] = "retired"]
  /\ UNCHANGED <<jobs, done, handing, rows, encoded, worker, files, setting, wanted>>

(* retry_video(), what it does to these jobs *)
RetryVideo ==
  /\ Spend("retry")
  /\ jobs' = [j \in Jobs |-> Revived(jobs[j])]
  /\ UNCHANGED <<library, worker, files, setting, wanted>>

(* Another settings.temporal_model: the processes are started anew *)
Reconfigure(n) ==
  /\ Spend("reconfigure") /\ n # configured
  /\ \A w \in Workers : worker[w].pc = "idle"
  /\ configured' = n
  /\ UNCHANGED <<jobs, library, worker, files, host, source, filmed, wanted>>

-----------------------------------------------------------------------------
(* The worker around the handler *)

At(w, place) == worker[w].pc = place
Goto(w, place) == worker' = [worker EXCEPT ![w].pc = place]

Lease(w) ==
  /\ At(w, "idle")
  /\ \E j \in MostUrgent(Leasable(jobs, Jobs, -1000, TRUE)) :
       /\ jobs' = [jobs EXCEPT ![j] = Leased(@, w)]
       /\ worker' = [worker EXCEPT ![w] = [Idle EXCEPT !.pc = "start", !.job = j,
                                                       !.seen = jobs[j].attempts + 1]]
  /\ UNCHANGED <<library, files, setting, wanted, used>>

Complete(w) ==
  /\ At(w, "ok")
  /\ jobs' = [jobs EXCEPT ![worker[w].job] = Completed(@)]
  /\ worker' = [worker EXCEPT ![w] = Idle]
  /\ UNCHANGED <<library, files, setting, wanted, used>>

Fail(w) ==
  /\ At(w, "error")
  /\ jobs' = [jobs EXCEPT ![worker[w].job] = Failed(@, worker[w].seen, TRUE)]
  /\ worker' = [worker EXCEPT ![w] = Idle]
  /\ UNCHANGED <<library, files, setting, wanted, used>>

(* The process is gone: an open transaction is rolled back, files stay *)
Crash(w) ==
  /\ Spend("crash") /\ ~At(w, "idle")
  /\ worker' = [worker EXCEPT ![w] = Idle]
  /\ UNCHANGED <<jobs, library, files, setting, wanted>>

Orphans == {j \in Jobs : jobs[j].status = "running" /\ \A w \in Workers : worker[w].job # j}

(* _maybe_reap(): dead encode_temporal jobs concern no chunk *)
Reap ==
  /\ \E w \in Workers : At(w, "idle")
  /\ \E S \in (SUBSET Orphans) \ {{}} :
       jobs' = [j \in Jobs |-> IF j \in S THEN Reaped([jobs[j] EXCEPT !.stale = TRUE])
                                          ELSE jobs[j]]
  /\ UNCHANGED <<library, worker, files, setting, wanted, used>>

BackoffElapsed(j) ==
  /\ jobs[j].delayed
  /\ jobs' = [jobs EXCEPT ![j].delayed = FALSE]
  /\ UNCHANGED <<library, worker, files, setting, wanted, used>>

-----------------------------------------------------------------------------
(* encode_temporal() *)

Mine(w) == ChunkOf(worker[w].job)
Dir(w)  == <<host[w], Mine(w)>>   \* workdir(video, chunk_{c}, "dense")

(* Mutant: rows of any version count *)
HasAny(c, k) == \E m \in Keys : rows[c][m] # {}
Has(c, k)    == rows[c][k] # {}

(* The first transaction: nothing to do if the encoder has rows here *)
Start(w) ==
  /\ At(w, "start")
  /\ LET k == Encoder(NameOf(worker[w].job))
     IN worker' = [worker EXCEPT
          ![w].enc = k,
          ![w].pc  = IF Has(Mine(w), k) /\ ~Forced(worker[w].job) THEN "ok" ELSE "fetch"]
  /\ UNCHANGED <<jobs, library, files, setting, wanted, used>>

(* media.cached(): afterwards the file is there, whoever downloaded it *)
Fetch(w) ==
  /\ At(w, "fetch")
  /\ web' = web \cup {host[w]}
  /\ Goto(w, "cut")
  /\ UNCHANGED <<jobs, library, frames, setting, wanted, used>>

(* sample_frames(): the frames of an earlier run are unlinked first, the   *)
(* directory is made if need be; ffmpeg fails if web.mp4 is gone           *)
Cut(w) ==
  /\ At(w, "cut")
  /\ frames' = [frames EXCEPT ![Dir(w)] = w]
  /\ Goto(w, IF host[w] \in web THEN "cutting" ELSE "error")
  /\ UNCHANGED <<jobs, library, web, setting, wanted, used>>

HasPicture(w) == Mine(w) \in filmed

(* ffmpeg ends: all frames are there, unless a later run on the directory  *)
(* unlinked the first of them; it fails if the directory was removed, but  *)
(* does not miss it if it has no frame to write                            *)
CutEnds(w) ==
  /\ At(w, "cutting")
  /\ Goto(w, IF frames[Dir(w)] = "gone" /\ HasPicture(w) THEN "error" ELSE "open")
  /\ frames' = [frames EXCEPT ![Dir(w)] = IF @ = w THEN "full" ELSE @]
  /\ UNCHANGED <<jobs, library, web, setting, wanted, used>>

(* The glob and Image.open of what it found.  No frames, no windows: the   *)
(* handler removes the directory and returns, as it does for a chunk       *)
(* without a picture.  Frames that vanish in between raise.                *)
Open(w) ==
  /\ At(w, "open")
  /\ \/ /\ HasPicture(w) /\ frames[Dir(w)] # "gone"
        /\ worker' = [worker EXCEPT ![w].pc = "embed",
                                    ![w].whole = frames[Dir(w)] = "full"]
        /\ UNCHANGED frames
     \/ /\ HasPicture(w) => frames[Dir(w)] # "full"
        /\ Goto(w, "ok")
        /\ frames' = [frames EXCEPT ![Dir(w)] = "gone"]
     \/ /\ HasPicture(w) /\ frames[Dir(w)] # "full"
        /\ Goto(w, "error")
        /\ UNCHANGED frames
  /\ UNCHANGED <<jobs, library, web, setting, wanted, used>>

(* embed_clips(), and the rmtree of the frames after it *)
Embed(w) ==
  /\ At(w, "embed")
  /\ Goto(w, "delete")
  /\ frames' = [frames EXCEPT ![Dir(w)] = "gone"]
  /\ UNCHANGED <<jobs, library, web, setting, wanted, used>>

(* Anything after the first transaction may raise *)
WorkRaises(w) ==
  /\ worker[w].pc \notin {"idle", "start", "ok", "error"}
  /\ Spend("error")
  /\ Goto(w, "error")
  /\ UNCHANGED <<jobs, library, files, setting, wanted>>

(* Mutants: a DELETE that is committed at once; none but for the job's own *)
DeleteOldAtOnce(w) ==
  /\ At(w, "delete")
  /\ worker' = [worker EXCEPT ![w].pc = "insert", ![w].old = rows[Mine(w)][worker[w].enc]]
  /\ rows' = [rows EXCEPT ![Mine(w)][worker[w].enc] = {}]
  /\ UNCHANGED <<jobs, done, handing, encoded, version, files, setting, wanted, used>>

DeleteOldOfJob(w) ==
  /\ At(w, "delete")
  /\ worker' = [worker EXCEPT ![w].pc  = "insert",
                              ![w].old = {x \in rows[Mine(w)][worker[w].enc] : x.for = worker[w].job}]
  /\ UNCHANGED <<jobs, library, files, setting, wanted, used>>

(* DELETE ... WHERE chunk and key: it sees the rows committed so far *)
DeleteOld(w) ==
  /\ At(w, "delete")
  /\ worker' = [worker EXCEPT ![w].pc  = "insert",
                              ![w].old = rows[Mine(w)][worker[w].enc]]
  /\ UNCHANGED <<jobs, library, files, setting, wanted, used>>

(* The INSERTs, temporal_at, and the commit of both and of the DELETE.     *)
(* What another transaction committed since the DELETE stays.              *)
InsertNew(w) ==
  /\ At(w, "insert")
  /\ rows' = [rows EXCEPT ![Mine(w)][worker[w].enc] =
                (@ \ worker[w].old) \cup
                {[by |-> w, for |-> worker[w].job, whole |-> worker[w].whole]}]
  /\ encoded' = encoded \cup {Mine(w)}
  /\ worker' = [worker EXCEPT ![w].pc = "register", ![w].old = {}]
  /\ UNCHANGED <<jobs, done, handing, version, files, setting, wanted, used>>

(* Mutant: only a version known to be retired is indexed anew *)
NotRetired(k) == version[k] # "retired"
Registered(k) == version[k] = "ready"

(* ensure_index(): the question ... *)
Register(w) ==
  /\ At(w, "register")
  /\ Goto(w, IF Registered(worker[w].enc) THEN "drop" ELSE "build")
  /\ UNCHANGED <<jobs, library, files, setting, wanted, used>>

(* ... the index, and the upsert, which asks nothing *)
Build(w) ==
  /\ At(w, "build")
  /\ version' = [version EXCEPT ![worker[w].enc] = "ready"]
  /\ Goto(w, "drop")
  /\ UNCHANGED <<jobs, done, handing, rows, encoded, files, setting, wanted, used>>

(* _maybe_drop_cache(): the whole cache of the video on this host *)
Drop(w) ==
  /\ At(w, "drop")
  /\ Goto(w, "ok")
  /\ IF source # "upload" /\ encoded = Chunks
       THEN /\ web' = web \ {host[w]}
            /\ frames' = [d \in Hosts \X Chunks |-> IF d[1] = host[w] THEN "gone" ELSE frames[d]]
       ELSE UNCHANGED files
  /\ UNCHANGED <<jobs, library, setting, wanted, used>>

-----------------------------------------------------------------------------
Handler(w) ==
  \/ Start(w) \/ Fetch(w) \/ Cut(w) \/ CutEnds(w) \/ Open(w) \/ Embed(w)
  \/ WorkRaises(w) \/ DeleteOld(w) \/ InsertNew(w)
  \/ Register(w) \/ Build(w) \/ Drop(w)

Command ==
  \/ \E n \in Names \cup {Unnamed} : Backfill(n) \/ BackfillForce(n)
  \/ \E k \in Keys : Retire(k)
  \/ \E n \in Names : Reconfigure(n)
  \/ RetryVideo

Next ==
  \/ \E w \in Workers : Lease(w) \/ Handler(w) \/ Complete(w) \/ Fail(w) \/ Crash(w)
  \/ \E c \in Chunks : IndexChunk(c) \/ HandOver(c)
  \/ \E j \in Jobs : BackoffElapsed(j)
  \/ Reap \/ Command

Spec == Init /\ [][Next]_vars

-----------------------------------------------------------------------------
(* Properties *)

Apart == \A v, w \in Workers : host[v] = host[w] => v = w

Quiet ==
  /\ handing = {}
  /\ \A w \in Workers : worker[w] = Idle
  /\ \A j \in Jobs : jobs[j].status \notin {"queued", "running"}

(* A job that succeeded has left the windows of its encoder, of any        *)
(* encoder if it named none, made from all the frames: whatever the order  *)
(* of jobs, crashes and retries, as long as no two workers share a host.   *)
(* A chunk without a picture is left out: its jobs succeed without rows    *)
(* (encode_temporal returns when there are no windows).                    *)
SuccessIsStored ==
  Apart => \A j \in Jobs : jobs[j].status = "succeeded" /\ ChunkOf(j) \in filmed =>
    \E k \in IF NameOf(j) = Unnamed THEN Keys ELSE {KeyOf[NameOf(j)]} :
      rows[ChunkOf(j)][k] # {} /\ \A x \in rows[ChunkOf(j)][k] : x.whole

(* Re-encoding never takes a chunk out of the temporal lane: from the      *)
(* first commit on there are always rows of that version (delete and       *)
(* insert are one transaction), even when two jobs write at once.          *)
RowsStay ==
  [][\A c \in Chunks, k \in Keys : rows[c][k] # {} => rows'[c][k] # {}]_vars

(* Two jobs for one encoder (with and without --model, or forced) can      *)
(* leave two window sets of a chunk, but only if they raced: no worker     *)
(* leaves two, so they do not pile up with every backfill.                 *)
OneSetPerWriter ==
  \A c \in Chunks, k \in Keys : \A x, y \in rows[c][k] : x.by = y.by => x = y

(* Whatever has rows is in the registry of versions, with its index,       *)
(* unless a process failed on the way there: the next attempt finds the    *)
(* rows and returns before ensure_index.                                   *)
QuietIsRegistered ==
  Quiet /\ used["crash"] = 0 /\ used["error"] = 0 =>
    \A c \in Chunks, k \in Keys : rows[c][k] # {} => version[k] # "none"

(* What backfill() says it does: when the work is over every finished      *)
(* chunk it selected has rows for the encoder, or a dead job that says     *)
(* why.  Said of the chunks with a picture: the others it selects each     *)
(* time, and they never get rows.                                          *)
BackfillIsComplete ==
  Quiet => \A x \in wanted : x.chunk \in filmed =>
    rows[x.chunk][x.key] # {} \/ jobs[x.job].status = "dead"

(* ... with one worker per host and while the configured encoder stays the *)
(* same.                                                                   *)
SteadyBackfillIsComplete ==
  Apart /\ used["reconfigure"] = 0 => BackfillIsComplete
=============================================================================
