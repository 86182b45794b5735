------------------------------ MODULE JobTable ------------------------------
(***************************************************************************)
(* The `jobs` table of jobs/queue.py.  Every SQL statement of that file is *)
(* one operator here: a function from the row (or the table) it reads to   *)
(* the row (or the table) it leaves behind.  The modules that own a `jobs` *)
(* variable build their actions from these operators, one per transaction. *)
(*                                                                         *)
(* Data abstractions:                                                      *)
(*  - an idempotency key identifies a row, so Jobs is the set of keys;     *)
(*  - heartbeat_at is the Boolean `stale` (older than the lease timeout)   *)
(*    and run_after the Boolean `delayed` (still in the future);           *)
(*  - created_at, the tie-breaker of the lease query, is dropped: rows of  *)
(*    equal priority are leased in any order;                              *)
(*  - every job has the same max_attempts (no caller passes another one).  *)
(***************************************************************************)
EXTENDS Integers, FiniteSets

CONSTANTS
  Jobs,          \* idempotency keys
  Workers,       \* worker processes
  NoWorker,      \* NULL of the locked_by column
  Priority,      \* the priority column of each job
  MaxAttempts,   \* max_attempts
  OfflineBudget  \* offline_max_running; 0 means no budget, as in the settings

ASSUME JobsFinite == IsFiniteSet(Jobs)
ASSUME WorkersFinite == IsFiniteSet(Workers) /\ NoWorker \notin Workers
ASSUME PriorityType == Priority \in [Jobs -> Int]
ASSUME MaxAttemptsPositive == MaxAttempts \in Nat \ {0}
ASSUME OfflineBudgetType == OfflineBudget \in Nat

(***************************************************************************)
(* Rows.  "none" is the absence of a row.  JobStatus.FAILED exists in      *)
(* models/job.py but no statement ever writes it, so it is not a status.   *)
(***************************************************************************)
JobStatus == {"none", "queued", "running", "succeeded", "dead"}
Settled   == {"succeeded", "dead"}

Row == [status   : JobStatus,
        attempts : Nat,
        lockedBy : Workers \cup {NoWorker},
        stale    : BOOLEAN,
        delayed  : BOOLEAN]

NoRow == [status |-> "none", attempts |-> 0, lockedBy |-> NoWorker,
          stale |-> FALSE, delayed |-> FALSE]

QueuedRow == [NoRow EXCEPT !.status = "queued"]

(* INSERT ... ON CONFLICT (idempotency_key) DO NOTHING *)
Enqueued(row) == IF row.status = "none" THEN QueuedRow ELSE row

(* _LEASE_SQL, the assignment: attempts + 1 and a fresh heartbeat *)
Leased(row, w) == [status |-> "running", attempts |-> row.attempts + 1,
                   lockedBy |-> w, stale |-> FALSE, delayed |-> FALSE]

(* _HEARTBEAT_SQL: guarded by the status, not by the owner *)
Beaten(row) == IF row.status = "running" THEN [row EXCEPT !.stale = FALSE]
                                         ELSE row

(* _COMPLETE_SQL: guarded by nothing; locked_by is kept *)
Completed(row) == [row EXCEPT !.status = "succeeded", !.stale = FALSE]

(* _RETRY_SQL: guarded by nothing; run_after moves into the future *)
Retried(row) == [row EXCEPT !.status = "queued", !.lockedBy = NoWorker,
                            !.stale = FALSE, !.delayed = TRUE]

(* Mutant: the status JobStatus.FAILED, which nothing else knows *)
DiedAsFailed(row) == [row EXCEPT !.status = "failed", !.lockedBy = NoWorker,
                                 !.stale = FALSE]

(* _DEAD_SQL: guarded by nothing *)
Died(row) == [row EXCEPT !.status = "dead", !.lockedBy = NoWorker,
                         !.stale = FALSE]

(* Mutant: off by one *)
FailedLate(row, seen, retryable) ==
  IF retryable /\ seen <= MaxAttempts THEN Retried(row) ELSE Died(row)

(* fail(): the decision uses the attempts the lease returned, `seen` *)
Failed(row, seen, retryable) ==
  IF retryable /\ seen < MaxAttempts THEN Retried(row) ELSE Died(row)

(* Mutants: the lease timeout is ignored; exhausted rows are passed over *)
ReapableAny(row)       == row.status = "running"
ReapableWhileLeft(row) == /\ row.status = "running" /\ row.stale
                          /\ row.attempts < MaxAttempts

(* _REAP_SQL on one row: the decision uses the row's own attempts *)
Reapable(row) == row.status = "running" /\ row.stale

Reaped(row) ==
  IF Reapable(row)
    THEN [row EXCEPT
            !.status = IF row.attempts >= MaxAttempts THEN "dead" ELSE "queued",
            !.lockedBy = NoWorker, !.stale = FALSE]
    ELSE row

(* Mutant: the attempts are not reset *)
RevivedSpent(row) ==
  IF row.status = "dead" THEN [row EXCEPT !.status = "queued"] ELSE row

(* The UPDATE of POST /videos/{id}/retry on one row *)
Revived(row) == IF row.status = "dead" THEN QueuedRow ELSE row

(***************************************************************************)
(* The lease query, the choice: WHERE, the offline budget sub-query and    *)
(* ORDER BY priority DESC ... LIMIT 1.                                     *)
(***************************************************************************)
OfflineRunning(table) ==
  {j \in Jobs : table[j].status = "running" /\ Priority[j] < 0}

NoLimit(table) == TRUE  \* mutant: the sub-query is gone

BudgetLeft(table) ==
  OfflineBudget = 0 \/ Cardinality(OfflineRunning(table)) < OfflineBudget

Leasable(table, served, minPriority, budgetLeft) ==
  {j \in served : /\ table[j].status = "queued"
                  /\ ~table[j].delayed
                  /\ Priority[j] >= minPriority
                  /\ Priority[j] >= 0 \/ budgetLeft}

MostUrgent(S) == {j \in S : \A k \in S : Priority[k] <= Priority[j]}
=============================================================================
