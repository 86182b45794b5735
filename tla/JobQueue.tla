------------------------------ MODULE JobQueue ------------------------------
(***************************************************************************)
(* The worker processes of jobs/worker.py around the table of JobTable:    *)
(* reap, lease, run the handler under a heartbeat thread, then complete or *)
(* fail.  What a handler does is left out: it returns, raises, or raises   *)
(* NonRetryableError.  VideoPipeline opens the handlers up.                *)
(*                                                                         *)
(* One action is one committed transaction or one local step, except that  *)
(* the lease statement is two: its offline-budget sub-query reads the      *)
(* statement's snapshot, while the row it locks is re-checked against the  *)
(* current table (READ COMMITTED), so another lease may commit in between. *)
(*                                                                         *)
(* Faults: a process dies (Crash), or freezes and later goes on where it   *)
(* was (Stall, Resume): a suspended laptop, a paused container, a          *)
(* partition from the database.  A frozen process sends no heartbeat.      *)
(***************************************************************************)
EXTENDS JobTable

CONSTANTS
  NoJob,        \* a worker that runs nothing
  Serves,       \* Serves[w]: the jobs in the queues worker w was started with
  MinPriority,  \* MinPriority[w]: worker_min_priority of worker w
  Videos,       \* videos, and
  VideoOf,      \*   the video_id column of each job
  MaxCrashes,   \* bound: processes that die
  MaxStalls,    \* bound: processes that freeze
  MaxRetries    \* bound: POST /videos/{id}/retry calls

ASSUME NoJobOutside == NoJob \notin Jobs
ASSUME ServesType == Serves \in [Workers -> SUBSET Jobs]
ASSUME MinPriorityType == MinPriority \in [Workers -> Int]
ASSUME VideoOfType == VideoOf \in [Jobs -> Videos]
ASSUME BoundsType == MaxCrashes \in Nat /\ MaxStalls \in Nat /\ MaxRetries \in Nat

VARIABLES
  jobs,      \* the table: Jobs -> Row
  pc,        \* where each worker is
  job,       \* the job each worker runs
  seen,      \* the attempts value its lease returned (job["attempts"])
  budget,    \* what its lease saw of the offline budget
  stalled,   \* the frozen workers
  crashes, stalls, retries  \* faults and API calls so far

workerVars == <<pc, job, seen, budget>>
faultVars  == <<stalled, crashes, stalls, retries>>
vars == <<jobs, workerVars, faultVars>>

(***************************************************************************)
(* "idle" is the top of the loop, "leasing" inside the lease statement,    *)
(* "run" inside the handler with the heartbeat thread alive; "ok", "error" *)
(* and "fatal" are the three ways out of the handler, the heartbeat        *)
(* stopped and the closing transaction still to come.                      *)
(***************************************************************************)
Busy == {"run", "ok", "error", "fatal"}
Places == {"down", "idle", "leasing"} \cup Busy

Holds(w, j) == pc[w] \in Busy /\ job[w] = j
Awake(w) == w \notin stalled

TypeOK ==
  /\ jobs \in [Jobs -> Row]
  /\ pc \in [Workers -> Places]
  /\ job \in [Workers -> Jobs \cup {NoJob}]
  /\ \A w \in Workers : pc[w] \in Busy => job[w] \in Jobs
  /\ seen \in [Workers -> Nat]
  /\ budget \in [Workers -> BOOLEAN]
  /\ stalled \in SUBSET Workers
  /\ crashes \in Nat /\ stalls \in Nat /\ retries \in Nat

Init ==
  /\ jobs = [j \in Jobs |-> NoRow]
  /\ pc = [w \in Workers |-> "idle"]
  /\ job = [w \in Workers |-> NoJob]
  /\ seen = [w \in Workers |-> 0]
  /\ budget = [w \in Workers |-> FALSE]
  /\ stalled = {}
  /\ crashes = 0 /\ stalls = 0 /\ retries = 0

-----------------------------------------------------------------------------
(* Clients *)

(* enqueue() and enqueue_sync(); a second call with the key changes nothing *)
Enqueue(j) ==
  /\ jobs' = [jobs EXCEPT ![j] = Enqueued(@)]
  /\ UNCHANGED <<workerVars, faultVars>>

(* retry_video(), its UPDATE of the video's dead jobs *)
RetryVideo(v) ==
  /\ retries < MaxRetries
  /\ retries' = retries + 1
  /\ jobs' = [j \in Jobs |-> IF VideoOf[j] = v THEN Revived(jobs[j]) ELSE jobs[j]]
  /\ UNCHANGED <<workerVars, stalled, crashes, stalls>>

-----------------------------------------------------------------------------
(* The worker loop *)

(* _maybe_reap(): any worker, at the top of its loop, over the whole table *)
Reap(w) ==
  /\ pc[w] = "idle"
  /\ \E j \in Jobs : Reapable(jobs[j])
  /\ jobs' = [j \in Jobs |-> Reaped(jobs[j])]
  /\ UNCHANGED <<workerVars, faultVars>>

(* _lease(), the snapshot: count the running offline jobs *)
LeaseSnapshot(w) ==
  /\ pc[w] = "idle"
  /\ pc' = [pc EXCEPT ![w] = "leasing"]
  /\ budget' = [budget EXCEPT ![w] = BudgetLeft(jobs)]
  /\ UNCHANGED <<jobs, job, seen, faultVars>>

Candidates(w) == Leasable(jobs, Serves[w], MinPriority[w], budget[w])

(* _lease(), a row is found: lock it, update it, commit *)
LeaseTake(w) ==
  /\ pc[w] = "leasing"
  /\ \E j \in MostUrgent(Candidates(w)) :
       /\ jobs' = [jobs EXCEPT ![j] = Leased(@, w)]
       /\ job' = [job EXCEPT ![w] = j]
       /\ seen' = [seen EXCEPT ![w] = jobs[j].attempts + 1]
  /\ pc' = [pc EXCEPT ![w] = "run"]
  /\ budget' = [budget EXCEPT ![w] = FALSE]
  /\ UNCHANGED faultVars

(* _lease() returns None: wait for the poll interval *)
LeaseNothing(w) ==
  /\ pc[w] = "leasing"
  /\ Candidates(w) = {}
  /\ pc' = [pc EXCEPT ![w] = "idle"]
  /\ budget' = [budget EXCEPT ![w] = FALSE]
  /\ UNCHANGED <<jobs, job, seen, faultVars>>

(* _heartbeat_loop(), one beat; it matters only on a row about to expire *)
Heartbeat(w) ==
  /\ pc[w] = "run" /\ Awake(w)
  /\ Reapable(jobs[job[w]])
  /\ jobs' = [jobs EXCEPT ![job[w]] = Beaten(@)]
  /\ UNCHANGED <<workerVars, faultVars>>

(* spec.handler(...) returns, raises, or raises NonRetryableError *)
HandlerEnds(w, how) ==
  /\ pc[w] = "run" /\ Awake(w)
  /\ pc' = [pc EXCEPT ![w] = how]
  /\ UNCHANGED <<jobs, job, seen, budget, faultVars>>

(* Back to the top of the loop *)
Release(w) ==
  /\ pc' = [pc EXCEPT ![w] = "idle"]
  /\ job' = [job EXCEPT ![w] = NoJob]
  /\ seen' = [seen EXCEPT ![w] = 0]
  /\ UNCHANGED <<budget, faultVars>>

(* _run_job(), the `else` branch: complete() *)
Complete(w) ==
  /\ pc[w] = "ok" /\ Awake(w)
  /\ jobs' = [jobs EXCEPT ![job[w]] = Completed(@)]
  /\ Release(w)

(* _run_job(), the `except` branches: fail() *)
Fail(w) ==
  /\ pc[w] \in {"error", "fatal"} /\ Awake(w)
  /\ jobs' = [jobs EXCEPT ![job[w]] = Failed(@, seen[w], pc[w] = "error")]
  /\ Release(w)

-----------------------------------------------------------------------------
(* Time and faults *)

(* heartbeat_at falls behind the lease timeout.  Time assumption: that does *)
(* not happen while an awake process runs the job (10 s beats, 90 s lease). *)
Expire(j) ==
  /\ jobs[j].status = "running" /\ ~jobs[j].stale
  /\ \A w \in Workers : Holds(w, j) => ~Awake(w)
  /\ jobs' = [jobs EXCEPT ![j].stale = TRUE]
  /\ UNCHANGED <<workerVars, faultVars>>

(* run_after passes *)
BackoffElapsed(j) ==
  /\ jobs[j].delayed
  /\ jobs' = [jobs EXCEPT ![j].delayed = FALSE]
  /\ UNCHANGED <<workerVars, faultVars>>

(* The process dies anywhere: SIGKILL, an error outside the handler (run()  *)
(* catches none), or SIGTERM honoured at the top of the loop                *)
Crash(w) ==
  /\ crashes < MaxCrashes /\ pc[w] # "down"
  /\ crashes' = crashes + 1
  /\ pc' = [pc EXCEPT ![w] = "down"]
  /\ job' = [job EXCEPT ![w] = NoJob]
  /\ seen' = [seen EXCEPT ![w] = 0]
  /\ budget' = [budget EXCEPT ![w] = FALSE]
  /\ stalled' = stalled \ {w}
  /\ UNCHANGED <<jobs, stalls, retries>>

(* A new process in its place; it remembers nothing *)
Restart(w) ==
  /\ pc[w] = "down"
  /\ pc' = [pc EXCEPT ![w] = "idle"]
  /\ UNCHANGED <<jobs, job, seen, budget, faultVars>>

Stall(w) ==
  /\ stalls < MaxStalls /\ pc[w] \in Busy /\ Awake(w)
  /\ stalls' = stalls + 1
  /\ stalled' = stalled \cup {w}
  /\ UNCHANGED <<jobs, workerVars, crashes, retries>>

Resume(w) ==
  /\ w \in stalled
  /\ stalled' = stalled \ {w}
  /\ UNCHANGED <<jobs, workerVars, crashes, stalls, retries>>

-----------------------------------------------------------------------------
Loop(w) ==
  \/ LeaseSnapshot(w) \/ LeaseTake(w) \/ LeaseNothing(w)
  \/ \E how \in {"ok", "error", "fatal"} : HandlerEnds(w, how)
  \/ Complete(w) \/ Fail(w)

Next ==
  \/ \E j \in Jobs : Enqueue(j) \/ Expire(j) \/ BackoffElapsed(j)
  \/ \E v \in Videos : RetryVideo(v)
  \/ \E w \in Workers :
       \/ Loop(w) \/ Reap(w) \/ Heartbeat(w)
       \/ Crash(w) \/ Restart(w) \/ Stall(w) \/ Resume(w)

Spec == Init /\ [][Next]_vars

(***************************************************************************)
(* Fairness.  A process that is up keeps looping, its handler ends, and    *)
(* clocks advance.  _maybe_reap is called at the top of every iteration,   *)
(* so a reap that is due again and again is done (strong fairness: the     *)
(* worker leaves and re-enters "idle" while it polls).  Nothing promises   *)
(* that a dead process is restarted or that a frozen one resumes.          *)
(***************************************************************************)
Fairness ==
  /\ \A w \in Workers : WF_vars(Loop(w)) /\ SF_vars(Reap(w))
  /\ \A j \in Jobs : WF_vars(Expire(j)) /\ WF_vars(BackoffElapsed(j))

FairSpec == Spec /\ Fairness

-----------------------------------------------------------------------------
(* Properties *)

(***************************************************************************)
(* While no process has frozen, whoever runs a job owns its row: the row   *)
(* is running under that worker, with the attempts its lease returned, and *)
(* its heartbeat is fresh.  _COMPLETE_SQL, _RETRY_SQL, _DEAD_SQL and       *)
(* _HEARTBEAT_SQL name no owner and rely on this.                          *)
(***************************************************************************)
Owned(row, w, n) == /\ row.status = "running" /\ row.lockedBy = w
                    /\ row.attempts = n /\ ~row.stale

LeaseHonoured ==
  stalls = 0 =>
    \A w \in Workers : pc[w] \in Busy => Owned(jobs[job[w]], w, seen[w])

(* While no process has frozen, two workers never process one job at the   *)
(* same time, crashes and reaping included (queue.py, module docstring).   *)
NoDoubleProcessing ==
  stalls = 0 =>
    \A w1, w2 \in Workers, j \in Jobs :
      Holds(w1, j) /\ Holds(w2, j) => w1 = w2

(* While no process has frozen, a job is never given an attempt beyond     *)
(* max_attempts, by fail(), by the reaper or by their interplay.           *)
InBudget(row) == /\ row.attempts <= MaxAttempts
                 /\ row.status = "queued" => row.attempts < MaxAttempts

AttemptsBounded == stalls = 0 => \A j \in Jobs : InBudget(jobs[j])

(***************************************************************************)
(* The offline budget is read from a snapshot, so concurrent leases can    *)
(* exceed it, but never by more than the other workers that may be between *)
(* snapshot and commit: budget + workers - 1 is the bound, whatever the    *)
(* crashes, freezes and retries (_LEASE_SQL).                              *)
(***************************************************************************)
OfflineOvershootBounded ==
  OfflineBudget > 0 =>
    Cardinality(OfflineRunning(jobs)) <= OfflineBudget + Cardinality(Workers) - 1

(* The queue implements LeaseQueue as long as no process freezes.          *)
LQ == INSTANCE LeaseQueue WITH
        state  <- [j \in Jobs |->
                     CASE jobs[j].status = "none"      -> "absent"
                       [] jobs[j].status = "queued"    -> "waiting"
                       [] jobs[j].status = "running"   -> "held"
                       [] jobs[j].status = "succeeded" -> "done"
                       [] jobs[j].status = "dead"      -> "dead"],
        holder <- [j \in Jobs |->
                     IF jobs[j].status = "running" THEN jobs[j].lockedBy
                                                   ELSE NoWorker],
        tries  <- [j \in Jobs |-> jobs[j].attempts]

ImplementsLeaseQueue == LQ!Spec

(* Every job that was enqueued ends: it succeeds or is declared dead, even *)
(* when its worker dies without a word (worker.py, the reaper).            *)
JobsSettle ==
  \A j \in Jobs : (jobs[j].status # "none") ~> (jobs[j].status \in Settled)

(***************************************************************************)
(* Statements of the repository that the code does not keep; see the       *)
(* findings in the README.                                                 *)
(***************************************************************************)

(* bench_isolation.sh: with a budget of k, at most k offline jobs run.     *)
OfflineWithinBudget ==
  OfflineBudget > 0 => Cardinality(OfflineRunning(jobs)) <= OfflineBudget

(* queue.py: pulled "without double-processing": a job that has succeeded  *)
(* is not put back and processed again.                                    *)
SucceededStays ==
  [][\A j \in Jobs : jobs[j].status = "succeeded" => jobs'[j].status = "succeeded"]_vars
=============================================================================
