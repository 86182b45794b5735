--------------------------- MODULE JobQueueProofs ---------------------------
(***************************************************************************)
(* Theorems about JobQueue, for every set of jobs and workers and every    *)
(* value of the bounds.                                                    *)
(***************************************************************************)
EXTENDS JobQueue, FiniteSetTheorems, TLAPS

(* Every statement of JobTable turns a row into a row. *)
LEMMA RowOperators ==
  ASSUME NEW row \in Row
  PROVE  /\ Enqueued(row) \in Row
         /\ \A w \in Workers : Leased(row, w) \in Row
         /\ Beaten(row) \in Row
         /\ Completed(row) \in Row
         /\ \A n \in Nat, b \in BOOLEAN : Failed(row, n, b) \in Row
         /\ Reaped(row) \in Row
         /\ Revived(row) \in Row
         /\ \A b \in BOOLEAN : [row EXCEPT !.stale = b] \in Row
         /\ \A b \in BOOLEAN : [row EXCEPT !.delayed = b] \in Row
<1> USE DEF Row, JobStatus
<1>1. Enqueued(row) \in Row /\ Revived(row) \in Row
  BY DEF Enqueued, Revived, QueuedRow, NoRow
<1>2. \A w \in Workers : Leased(row, w) \in Row
  BY DEF Leased
<1>3. Beaten(row) \in Row /\ Completed(row) \in Row
  BY DEF Beaten, Completed
<1>4. Retried(row) \in Row /\ Died(row) \in Row
  BY DEF Retried, Died
<1>5. \A n \in Nat, b \in BOOLEAN : Failed(row, n, b) \in Row
  BY <1>4 DEF Failed
<1>6. Reaped(row) \in Row
  BY DEF Reaped, Reapable
<1>7. /\ \A b \in BOOLEAN : [row EXCEPT !.stale = b] \in Row
      /\ \A b \in BOOLEAN : [row EXCEPT !.delayed = b] \in Row
  OBVIOUS
<1> QED BY <1>1, <1>2, <1>3, <1>5, <1>6, <1>7

-----------------------------------------------------------------------------
(* The table, the worker variables and the counters keep their types. *)
LEMMA InitTypeOK == Init => TypeOK
  BY DEF Init, TypeOK, Row, JobStatus, NoRow, Places, Busy

LEMMA NextTypeOK == TypeOK /\ [Next]_vars => TypeOK'
<1> SUFFICES ASSUME TypeOK, [Next]_vars PROVE TypeOK'
  OBVIOUS
<1> USE DEF TypeOK
<1>1. ASSUME NEW j \in Jobs, Enqueue(j) PROVE TypeOK'
  <2>1. Enqueued(jobs[j]) \in Row
    BY RowOperators
  <2> QED BY <1>1, <2>1 DEF Enqueue, workerVars, faultVars
<1>2. ASSUME NEW j \in Jobs, Expire(j) PROVE TypeOK'
  <2>1. [jobs[j] EXCEPT !.stale = TRUE] \in Row
    <3>1. jobs[j] \in Row
      OBVIOUS
    <3> QED BY <3>1, RowOperators
  <2> QED BY <1>2, <2>1 DEF Expire, workerVars, faultVars
<1>3. ASSUME NEW j \in Jobs, BackoffElapsed(j) PROVE TypeOK'
  <2>1. [jobs[j] EXCEPT !.delayed = FALSE] \in Row
    <3>1. jobs[j] \in Row
      OBVIOUS
    <3> QED BY <3>1, RowOperators
  <2> QED BY <1>3, <2>1 DEF BackoffElapsed, workerVars, faultVars
<1>4. ASSUME NEW v \in Videos, RetryVideo(v) PROVE TypeOK'
  <2>1. \A j \in Jobs : Revived(jobs[j]) \in Row
    BY RowOperators
  <2> QED BY <1>4, <2>1 DEF RetryVideo, workerVars
<1>5. ASSUME NEW w \in Workers, Reap(w) PROVE TypeOK'
  <2>1. \A j \in Jobs : Reaped(jobs[j]) \in Row
    BY RowOperators
  <2> QED BY <1>5, <2>1 DEF Reap, workerVars, faultVars
<1>6. ASSUME NEW w \in Workers, LeaseSnapshot(w) PROVE TypeOK'
  BY <1>6 DEF LeaseSnapshot, faultVars, Places, Busy, BudgetLeft
<1>7. ASSUME NEW w \in Workers, LeaseTake(w) PROVE TypeOK'
  <2>1. PICK j \in MostUrgent(Candidates(w)) :
          /\ jobs' = [jobs EXCEPT ![j] = Leased(jobs[j], w)]
          /\ job' = [job EXCEPT ![w] = j]
          /\ seen' = [seen EXCEPT ![w] = jobs[j].attempts + 1]
    BY <1>7 DEF LeaseTake
  <2>2. j \in Jobs
    BY ServesType DEF MostUrgent, Candidates, Leasable
  <2>3. Leased(jobs[j], w) \in Row /\ jobs[j].attempts + 1 \in Nat
    <3>1. jobs[j] \in Row
      BY <2>2
    <3>2. jobs[j].attempts \in Nat
      BY <3>1 DEF Row
    <3> QED BY <3>1, <3>2, RowOperators
  <2> QED BY <1>7, <2>1, <2>2, <2>3 DEF LeaseTake, faultVars, Places, Busy
<1>8. ASSUME NEW w \in Workers, LeaseNothing(w) PROVE TypeOK'
  BY <1>8 DEF LeaseNothing, faultVars, Places, Busy
<1>9. ASSUME NEW w \in Workers, Heartbeat(w) PROVE TypeOK'
  <2>1. Beaten(jobs[job[w]]) \in Row
    BY <1>9, RowOperators DEF Heartbeat, Busy
  <2> QED BY <1>9, <2>1 DEF Heartbeat, workerVars, faultVars
<1>10. ASSUME NEW w \in Workers, NEW how \in {"ok", "error", "fatal"},
              HandlerEnds(w, how)
       PROVE TypeOK'
  BY <1>10 DEF HandlerEnds, faultVars, Places, Busy
<1>11. ASSUME NEW w \in Workers, Complete(w) PROVE TypeOK'
  <2>1. job[w] \in Jobs /\ Completed(jobs[job[w]]) \in Row
    BY <1>11, RowOperators DEF Complete, Busy
  <2> QED BY <1>11, <2>1 DEF Complete, Release, faultVars, Places, Busy
<1>12. ASSUME NEW w \in Workers, Fail(w) PROVE TypeOK'
  <2>1. job[w] \in Jobs
    BY <1>12 DEF Fail, Busy
  <2>2. Failed(jobs[job[w]], seen[w], pc[w] = "error") \in Row
    <3>1. (pc[w] = "error") \in BOOLEAN
      OBVIOUS
    <3> QED BY <2>1, <3>1, RowOperators
  <2> QED BY <1>12, <2>1, <2>2 DEF Fail, Release, faultVars, Places, Busy
<1>13. ASSUME NEW w \in Workers, Crash(w) PROVE TypeOK'
  BY <1>13 DEF Crash, Places, Busy
<1>14. ASSUME NEW w \in Workers, Restart(w) PROVE TypeOK'
  BY <1>14 DEF Restart, faultVars, Places, Busy
<1>15. ASSUME NEW w \in Workers, Stall(w) PROVE TypeOK'
  BY <1>15 DEF Stall, workerVars
<1>16. ASSUME NEW w \in Workers, Resume(w) PROVE TypeOK'
  BY <1>16 DEF Resume, workerVars
<1>17. CASE UNCHANGED vars
  BY <1>17 DEF vars, workerVars, faultVars
<1> QED
  BY <1>1, <1>2, <1>3, <1>4, <1>5, <1>6, <1>7, <1>8, <1>9, <1>10, <1>11, <1>12,
     <1>13, <1>14, <1>15, <1>16, <1>17 DEF Next, Loop

(* The variables of the queue keep their types in every behaviour. *)
THEOREM TypeCorrect == Spec => []TypeOK
  BY InitTypeOK, NextTypeOK, PTL DEF Spec

-----------------------------------------------------------------------------
(***************************************************************************)
(* The inductive invariant behind the guarantees that hold while no        *)
(* process has frozen.  LeaseHonoured alone is not inductive: a zombie     *)
(* would have to be frozen first, which the first conjunct excludes, and   *)
(* the bound on attempts needs the attempts a worker remembers to be those *)
(* of its row.                                                             *)
(***************************************************************************)
IInv ==
  /\ TypeOK
  /\ stalls = 0 => stalled = {}
  /\ LeaseHonoured
  /\ AttemptsBounded

(* The statements that name no owner leave an owned row alone. *)
LEMMA OwnedRowsUntouched ==
  ASSUME NEW row \in Row, NEW w, NEW n, Owned(row, w, n)
  PROVE  Enqueued(row) = row /\ Reaped(row) = row /\ Revived(row) = row
  BY DEF Owned, Enqueued, Reaped, Reapable, Revived

(* No statement takes a row over its attempts; the failure of a job needs *)
(* the worker to remember the attempts of the row.                        *)
LEMMA BudgetKept ==
  ASSUME NEW row \in Row, InBudget(row)
  PROVE  /\ InBudget(Enqueued(row)) /\ InBudget(Reaped(row))
         /\ InBudget(Revived(row)) /\ InBudget(Beaten(row))
         /\ InBudget(Completed(row))
         /\ \A b \in BOOLEAN : InBudget(Failed(row, row.attempts, b))
         /\ \A b \in BOOLEAN : /\ InBudget([row EXCEPT !.stale = b])
                               /\ InBudget([row EXCEPT !.delayed = b])
         /\ \A w : row.status = "queued" => InBudget(Leased(row, w))
<1> USE MaxAttemptsPositive DEF InBudget, Row
<1>0. row.attempts \in Nat
  OBVIOUS
<1>1. InBudget(Enqueued(row)) /\ InBudget(Revived(row))
  BY DEF Enqueued, Revived, QueuedRow, NoRow
<1>2. InBudget(Reaped(row))
  BY <1>0 DEF Reaped, Reapable
<1>3. InBudget(Beaten(row)) /\ InBudget(Completed(row))
  BY DEF Beaten, Completed
<1>4. \A b \in BOOLEAN : InBudget(Failed(row, row.attempts, b))
  BY <1>0 DEF Failed, Retried, Died
<1>5. \A b \in BOOLEAN : /\ InBudget([row EXCEPT !.stale = b])
                         /\ InBudget([row EXCEPT !.delayed = b])
  OBVIOUS
<1>6. \A w : row.status = "queued" => InBudget(Leased(row, w))
  BY <1>0 DEF Leased
<1> QED BY <1>1, <1>2, <1>3, <1>4, <1>5, <1>6

LEMMA InitIInv == Init => IInv
<1> SUFFICES ASSUME Init PROVE IInv
  OBVIOUS
<1>1. \A j \in Jobs : InBudget(jobs[j])
  BY MaxAttemptsPositive DEF Init, InBudget, NoRow
<1>2. \A w \in Workers : pc[w] \notin Busy
  BY DEF Init, Busy
<1> QED
  BY InitTypeOK, <1>1, <1>2 DEF Init, IInv, LeaseHonoured, AttemptsBounded

LEMMA NextIInv == IInv /\ [Next]_vars => IInv'
<1> SUFFICES ASSUME IInv, [Next]_vars PROVE IInv'
  OBVIOUS
<1>0. TypeOK'
  BY NextTypeOK DEF IInv
(* No action lowers `stalls`, so only the steps of a run that has not seen *)
(* a frozen process matter.                                                *)
<1>1. CASE stalls' # 0
  BY <1>0, <1>1 DEF IInv, LeaseHonoured, AttemptsBounded
<1>2. CASE stalls' = 0
  <2>a. stalls = 0
    BY <1>2 DEF IInv, TypeOK, Next, Loop, Enqueue, Expire, BackoffElapsed,
       RetryVideo, LeaseSnapshot, LeaseTake, LeaseNothing, HandlerEnds, Complete,
       Fail, Release, Reap, Heartbeat, Crash, Restart, Stall, Resume, vars,
       workerVars, faultVars
  <2>b. /\ stalled = {}
        /\ \A w \in Workers : pc[w] \in Busy =>
             job[w] \in Jobs /\ Owned(jobs[job[w]], w, seen[w])
        /\ \A j \in Jobs : InBudget(jobs[j])
    BY <2>a DEF IInv, LeaseHonoured, AttemptsBounded, TypeOK
  <2>c. /\ \A j \in Jobs : jobs[j] \in Row
        /\ jobs \in [Jobs -> Row] /\ pc \in [Workers -> Places]
        /\ job \in [Workers -> Jobs \cup {NoJob}] /\ seen \in [Workers -> Nat]
    BY DEF IInv, TypeOK
  (* Two workers cannot be busy with one job: its row has one owner. *)
  <2>d. \A w, x \in Workers :
          pc[w] \in Busy /\ pc[x] \in Busy /\ job[w] = job[x] => w = x
    BY <2>b DEF Owned
  <2> DEFINE Keeps == /\ stalled' = {}
                      /\ \A x \in Workers : pc'[x] \in Busy =>
                           Owned(jobs'[job'[x]], x, seen'[x])
                      /\ \A k \in Jobs : InBudget(jobs'[k])
  <2> SUFFICES Keeps
    BY <1>0, <1>2 DEF IInv, LeaseHonoured, AttemptsBounded
  (* Most actions move at most the row of one job that nobody runs. *)
  <2>e. ASSUME stalled' = {}, UNCHANGED <<pc, job, seen>>,
               \A x \in Workers : pc[x] \in Busy => jobs'[job[x]] = jobs[job[x]],
               \A k \in Jobs : InBudget(jobs'[k])
        PROVE  Keeps
    BY <2>e, <2>b
  <2>1. ASSUME NEW j \in Jobs, Enqueue(j) PROVE Keeps
    <3>1. \A k \in Jobs : jobs'[k] = IF k = j THEN Enqueued(jobs[k]) ELSE jobs[k]
      BY <2>1, <2>c DEF Enqueue
    <3> QED BY <2>1, <2>b, <2>c, <2>e, <3>1, OwnedRowsUntouched, BudgetKept
            DEF Enqueue, workerVars, faultVars
  <2>2. ASSUME NEW j \in Jobs, Expire(j) PROVE Keeps
    <3>1. \A k \in Jobs : jobs'[k] = IF k = j THEN [jobs[k] EXCEPT !.stale = TRUE]
                                             ELSE jobs[k]
      BY <2>2, <2>c DEF Expire
    <3>2. \A x \in Workers : pc[x] \in Busy => job[x] # j
      BY <2>2, <2>b DEF Expire, Holds, Awake
    <3>3. \A k \in Jobs : InBudget(jobs'[k])
      BY <2>b, <2>c, <3>1, BudgetKept
    <3>4. \A x \in Workers : pc[x] \in Busy => jobs'[job[x]] = jobs[job[x]]
      BY <2>b, <3>1, <3>2
    <3>5. stalled' = {} /\ UNCHANGED <<pc, job, seen>>
      BY <2>2, <2>b DEF Expire, workerVars, faultVars
    <3> QED BY <2>e, <3>3, <3>4, <3>5
  <2>3. ASSUME NEW j \in Jobs, BackoffElapsed(j) PROVE Keeps
    <3>1. \A k \in Jobs : jobs'[k] = IF k = j THEN [jobs[k] EXCEPT !.delayed = FALSE]
                                             ELSE jobs[k]
      BY <2>3, <2>c DEF BackoffElapsed
    <3>2. \A k \in Jobs : InBudget(jobs'[k])
      BY <2>b, <2>c, <3>1, BudgetKept
    <3>3. ASSUME NEW x \in Workers, pc[x] \in Busy
          PROVE  Owned(jobs'[job[x]], x, seen[x])
      <4>1. jobs[job[x]] \in Row /\ job[x] \in Jobs /\ Owned(jobs[job[x]], x, seen[x])
        BY <2>b, <2>c, <3>3
      <4>2. Owned([jobs[job[x]] EXCEPT !.delayed = FALSE], x, seen[x])
        BY <4>1 DEF Owned, Row
      <4> QED BY <3>1, <4>1, <4>2
    <3> QED BY <2>3, <2>b, <3>2, <3>3 DEF BackoffElapsed, workerVars, faultVars
  <2>4. ASSUME NEW v \in Videos, RetryVideo(v) PROVE Keeps
    <3>1. \A k \in Jobs : jobs'[k] = IF VideoOf[k] = v THEN Revived(jobs[k])
                                                      ELSE jobs[k]
      BY <2>4 DEF RetryVideo
    <3> QED BY <2>4, <2>b, <2>c, <2>e, <3>1, OwnedRowsUntouched, BudgetKept
            DEF RetryVideo, workerVars
  <2>5. ASSUME NEW w \in Workers, Reap(w) PROVE Keeps
    <3>1. \A k \in Jobs : jobs'[k] = Reaped(jobs[k])
      BY <2>5 DEF Reap
    <3> QED BY <2>5, <2>b, <2>c, <2>e, <3>1, OwnedRowsUntouched, BudgetKept
            DEF Reap, workerVars, faultVars
  <2>6. ASSUME NEW w \in Workers, LeaseSnapshot(w) PROVE Keeps
    BY <2>6, <2>b, <2>c DEF LeaseSnapshot, faultVars, Busy
  <2>7. ASSUME NEW w \in Workers, LeaseTake(w) PROVE Keeps
    <3>1. PICK j \in MostUrgent(Candidates(w)) :
            /\ jobs' = [jobs EXCEPT ![j] = Leased(jobs[j], w)]
            /\ job' = [job EXCEPT ![w] = j]
            /\ seen' = [seen EXCEPT ![w] = jobs[j].attempts + 1]
      BY <2>7 DEF LeaseTake
    <3>2. j \in Jobs /\ jobs[j].status = "queued"
      BY ServesType DEF MostUrgent, Candidates, Leasable
    <3>3. pc[w] = "leasing" /\ pc' = [pc EXCEPT ![w] = "run"] /\ stalled' = stalled
      BY <2>7 DEF LeaseTake, faultVars
    <3>4. \A k \in Jobs : jobs'[k] = IF k = j THEN Leased(jobs[j], w) ELSE jobs[k]
      BY <2>c, <3>1
    <3>5. Owned(jobs'[job'[w]], w, seen'[w])
      BY <2>c, <3>1, <3>2, <3>4 DEF Leased, Owned
    <3>6. \A x \in Workers \ {w} : pc'[x] \in Busy =>
            Owned(jobs'[job'[x]], x, seen'[x])
      BY <2>b, <2>c, <3>1, <3>2, <3>3, <3>4 DEF Owned
    <3> QED BY <2>b, <2>c, <3>2, <3>3, <3>4, <3>5, <3>6, BudgetKept
  <2>8. ASSUME NEW w \in Workers, LeaseNothing(w) PROVE Keeps
    BY <2>8, <2>b, <2>c DEF LeaseNothing, faultVars, Busy
  <2>9. ASSUME NEW w \in Workers, Heartbeat(w) PROVE Keeps
    BY <2>9, <2>b DEF Heartbeat, Reapable, Owned, Busy
  <2>10. ASSUME NEW w \in Workers, NEW how \in {"ok", "error", "fatal"},
                HandlerEnds(w, how)
         PROVE  Keeps
    BY <2>10, <2>b, <2>c DEF HandlerEnds, faultVars, Busy
  (* A worker that lets go of its job was the only one to run it. *)
  <2>f. ASSUME NEW w \in Workers, pc[w] \in Busy, Release(w),
               NEW row, InBudget(row), jobs' = [jobs EXCEPT ![job[w]] = row]
        PROVE  Keeps
    <3>1. \A k \in Jobs : jobs'[k] = IF k = job[w] THEN row ELSE jobs[k]
      BY <2>c, <2>f
    <3>2. pc'[w] \notin Busy
      BY <2>c, <2>f DEF Release, Busy
    <3>3. \A x \in Workers \ {w} : pc'[x] \in Busy =>
            Owned(jobs'[job'[x]], x, seen'[x])
      BY <2>b, <2>c, <2>d, <2>f, <3>1 DEF Release
    <3> QED BY <2>b, <2>f, <3>1, <3>2, <3>3 DEF Release, faultVars
  <2>11. ASSUME NEW w \in Workers, Complete(w) PROVE Keeps
    <3>1. pc[w] \in Busy /\ job[w] \in Jobs
      BY <2>11, <2>b DEF Complete, Busy
    <3> QED BY <2>11, <2>b, <2>c, <2>f, <3>1, BudgetKept DEF Complete
  <2>12. ASSUME NEW w \in Workers, Fail(w) PROVE Keeps
    <3>1. pc[w] \in Busy /\ job[w] \in Jobs /\ seen[w] = jobs[job[w]].attempts
      BY <2>12, <2>b DEF Fail, Busy, Owned
    <3>2. (pc[w] = "error") \in BOOLEAN
      OBVIOUS
    <3>3. InBudget(Failed(jobs[job[w]], seen[w], pc[w] = "error"))
      BY <2>b, <2>c, <3>1, <3>2, BudgetKept
    <3> QED BY <2>12, <2>f, <3>1, <3>3 DEF Fail
  <2>13. ASSUME NEW w \in Workers, Crash(w) PROVE Keeps
    BY <2>13, <2>b, <2>c DEF Crash, Busy
  <2>14. ASSUME NEW w \in Workers, Restart(w) PROVE Keeps
    BY <2>14, <2>b, <2>c DEF Restart, faultVars, Busy
  <2>15. ASSUME NEW w \in Workers, Stall(w) PROVE Keeps
    BY <2>15, <1>2, <2>a DEF Stall
  <2>16. ASSUME NEW w \in Workers, Resume(w) PROVE Keeps
    BY <2>16, <2>b DEF Resume
  <2>17. CASE UNCHANGED vars
    BY <2>17, <2>b DEF vars, workerVars, faultVars
  <2> HIDE DEF Keeps
  <2> QED
    BY <2>1, <2>2, <2>3, <2>4, <2>5, <2>6, <2>7, <2>8, <2>9, <2>10, <2>11,
       <2>12, <2>13, <2>14, <2>15, <2>16, <2>17 DEF Next, Loop
<1> QED BY <1>1, <1>2

LEMMA InductiveInvariant == Spec => []IInv
  BY InitIInv, NextIInv, PTL DEF Spec

(* While no process has frozen, whoever runs a job owns its row. *)
THEOREM LeasesHonoured == Spec => []LeaseHonoured
  BY InductiveInvariant, PTL DEF IInv

(* While no process has frozen, two workers never run one job. *)
THEOREM ExclusiveProcessing == Spec => []NoDoubleProcessing
<1>1. IInv => NoDoubleProcessing
  BY DEF IInv, LeaseHonoured, NoDoubleProcessing, Holds, Owned
<1> QED BY <1>1, InductiveInvariant, PTL

(* While no process has frozen, no job is leased more than max_attempts times *)
(* between two retries of its video.                                          *)
THEOREM AttemptsAreBounded == Spec => []AttemptsBounded
  BY InductiveInvariant, PTL DEF IInv

-----------------------------------------------------------------------------
(***************************************************************************)
(* The offline budget.  A worker between its snapshot and its commit with  *)
(* the budget seen as free holds a claim on a place.  A new claim is made  *)
(* only while fewer than OfflineBudget offline jobs run, and there is at   *)
(* most one claim per worker; a claim turns into at most one running job.  *)
(* So running jobs plus claims never exceed OfflineBudget - 1 + workers,   *)
(* with no assumption on crashes, freezes or retries.                      *)
(***************************************************************************)
Claims == {w \in Workers : pc[w] = "leasing" /\ budget[w]}

ClaimsBounded ==
  OfflineBudget > 0 =>
    Cardinality(OfflineRunning(jobs)) + Cardinality(Claims)
      <= OfflineBudget - 1 + Cardinality(Workers)

LEMMA FiniteSides ==
  /\ IsFiniteSet(OfflineRunning(jobs)) /\ Cardinality(OfflineRunning(jobs)) \in Nat
  /\ IsFiniteSet(Claims) /\ Cardinality(Claims) \in Nat
  /\ Cardinality(Claims) <= Cardinality(Workers)
  /\ Cardinality(Workers) \in Nat
<1>1. OfflineRunning(jobs) \subseteq Jobs /\ Claims \subseteq Workers
  BY DEF OfflineRunning, Claims
<1> QED
  BY <1>1, JobsFinite, WorkersFinite, FS_Subset, FS_CardinalityType

LEMMA FiniteSidesNext ==
  /\ IsFiniteSet(OfflineRunning(jobs')) /\ Cardinality(OfflineRunning(jobs')) \in Nat
  /\ IsFiniteSet(Claims') /\ Cardinality(Claims') \in Nat
  /\ Cardinality(Claims') <= Cardinality(Workers)
<1>1. OfflineRunning(jobs') \subseteq Jobs /\ Claims' \subseteq Workers
  BY DEF OfflineRunning, Claims
<1> QED
  BY <1>1, JobsFinite, WorkersFinite, FS_Subset, FS_CardinalityType

(* No statement but the lease makes a row running. *)
LEMMA OnlyLeaseRuns ==
  ASSUME NEW row \in Row, row.status # "running", NEW n, NEW b
  PROVE  /\ Enqueued(row).status # "running" /\ Reaped(row).status # "running"
         /\ Revived(row).status # "running" /\ Beaten(row).status # "running"
         /\ Completed(row).status # "running" /\ Failed(row, n, b).status # "running"
  BY DEF Row, Enqueued, QueuedRow, NoRow, Reaped, Reapable, Revived, Beaten,
         Completed, Failed, Retried, Died

LEMMA ClosedRowsStop ==
  ASSUME NEW row \in Row, NEW n, NEW b
  PROVE  /\ Completed(row).status # "running"
         /\ Failed(row, n, b).status # "running"
  BY DEF Row, Completed, Failed, Retried, Died

LEMMA NextClaimsBounded ==
  TypeOK /\ ClaimsBounded /\ [Next]_vars => ClaimsBounded'
<1> SUFFICES ASSUME TypeOK, ClaimsBounded, [Next]_vars, OfflineBudget > 0
             PROVE  Cardinality(OfflineRunning(jobs')) + Cardinality(Claims')
                      <= OfflineBudget - 1 + Cardinality(Workers)
  BY DEF ClaimsBounded, OfflineRunning
<1> DEFINE Bound == Cardinality(OfflineRunning(jobs')) + Cardinality(Claims')
                      <= OfflineBudget - 1 + Cardinality(Workers)
<1>a. Cardinality(OfflineRunning(jobs)) + Cardinality(Claims)
        <= OfflineBudget - 1 + Cardinality(Workers)
  BY DEF ClaimsBounded
<1>b. OfflineBudget \in Nat
  BY OfflineBudgetType
<1>c. jobs \in [Jobs -> Row] /\ pc \in [Workers -> Places] /\ budget \in [Workers -> BOOLEAN]
  BY DEF TypeOK
<1>d. \A j \in Jobs : jobs[j] \in Row
  BY <1>c
(* Every action but the two halves of the lease shrinks both sides. *)
<1>e. ASSUME OfflineRunning(jobs') \subseteq OfflineRunning(jobs), Claims' \subseteq Claims
      PROVE  Bound
  <2>1. /\ Cardinality(OfflineRunning(jobs')) <= Cardinality(OfflineRunning(jobs))
        /\ Cardinality(Claims') <= Cardinality(Claims)
    BY <1>e, FiniteSides, FS_Subset
  <2> QED BY <2>1, <1>a, <1>b, FiniteSides, FiniteSidesNext
<1>f. ASSUME UNCHANGED <<pc, budget>>,
             \A j \in Jobs : jobs[j].status # "running" => jobs'[j].status # "running"
      PROVE  Bound
  BY <1>e, <1>f DEF OfflineRunning, Claims
<1>g. ASSUME UNCHANGED jobs, Claims' \subseteq Claims PROVE Bound
  BY <1>e, <1>g
<1>1. ASSUME NEW j \in Jobs, Enqueue(j) PROVE Bound
  BY <1>1, <1>c, <1>d, <1>f, OnlyLeaseRuns DEF Enqueue, workerVars
<1>2. ASSUME NEW j \in Jobs, Expire(j) PROVE Bound
  <2>1. \A k \in Jobs : jobs'[k].status = jobs[k].status
    BY <1>2, <1>c, <1>d DEF Expire, Row
  <2> QED BY <1>2, <2>1, <1>f DEF Expire, workerVars
<1>3. ASSUME NEW j \in Jobs, BackoffElapsed(j) PROVE Bound
  <2>1. \A k \in Jobs : jobs'[k].status = jobs[k].status
    BY <1>3, <1>c, <1>d DEF BackoffElapsed, Row
  <2> QED BY <1>3, <2>1, <1>f DEF BackoffElapsed, workerVars
<1>4. ASSUME NEW v \in Videos, RetryVideo(v) PROVE Bound
  BY <1>4, <1>d, <1>f, OnlyLeaseRuns DEF RetryVideo, workerVars
<1>5. ASSUME NEW w \in Workers, Reap(w) PROVE Bound
  BY <1>5, <1>d, <1>f, OnlyLeaseRuns DEF Reap, workerVars
<1>6. ASSUME NEW w \in Workers, LeaseSnapshot(w) PROVE Bound
  <2>0. UNCHANGED jobs
    BY <1>6 DEF LeaseSnapshot
  <2>1. CASE BudgetLeft(jobs)
    <3>1. Cardinality(OfflineRunning(jobs')) < OfflineBudget
      BY <2>0, <2>1, <1>b DEF BudgetLeft
    <3> QED BY <3>1, <1>b, FiniteSides, FiniteSidesNext
  <2>2. CASE ~BudgetLeft(jobs)
    <3>1. Claims' \subseteq Claims
      BY <1>6, <2>2, <1>c DEF LeaseSnapshot, Claims
    <3> QED BY <3>1, <2>0, <1>g
  <2> QED BY <2>1, <2>2
<1>7. ASSUME NEW w \in Workers, LeaseTake(w) PROVE Bound
  <2>1. PICK j \in MostUrgent(Candidates(w)) :
          jobs' = [jobs EXCEPT ![j] = Leased(jobs[j], w)]
    BY <1>7 DEF LeaseTake
  <2>2. j \in Jobs /\ (Priority[j] >= 0 \/ budget[w])
    BY ServesType DEF MostUrgent, Candidates, Leasable
  <2>3. Claims' = Claims \ {w}
    BY <1>7, <1>c DEF LeaseTake, Claims
  <2>4. OfflineRunning(jobs') \subseteq OfflineRunning(jobs) \cup {j}
    BY <2>1, <2>2, <1>c DEF OfflineRunning
  <2>5. CASE Priority[j] >= 0
    <3>1. OfflineRunning(jobs') \subseteq OfflineRunning(jobs)
      BY <2>4, <2>5, <2>2, PriorityType DEF OfflineRunning
    <3> QED BY <3>1, <2>3, <1>e
  <2>6. CASE budget[w]
    <3>1. w \in Claims
      BY <1>7, <2>6 DEF LeaseTake, Claims
    <3>2. Cardinality(Claims') = Cardinality(Claims) - 1
      BY <3>1, <2>3, FiniteSides, FS_RemoveElement
    <3>3. /\ IsFiniteSet(OfflineRunning(jobs) \cup {j})
          /\ Cardinality(OfflineRunning(jobs) \cup {j})
               <= Cardinality(OfflineRunning(jobs)) + 1
          /\ Cardinality(OfflineRunning(jobs) \cup {j}) \in Nat
      <4>1. IsFiniteSet(OfflineRunning(jobs)) /\ Cardinality(OfflineRunning(jobs)) \in Nat
        BY FiniteSides
      <4> HIDE DEF Bound
      <4>2. \/ Cardinality(OfflineRunning(jobs) \cup {j}) = Cardinality(OfflineRunning(jobs))
            \/ Cardinality(OfflineRunning(jobs) \cup {j}) = Cardinality(OfflineRunning(jobs)) + 1
        BY <4>1, FS_AddElement
      <4>3. IsFiniteSet(OfflineRunning(jobs) \cup {j})
        BY <4>1, FS_AddElement
      <4> QED BY <4>1, <4>2, <4>3
    <3>4. Cardinality(OfflineRunning(jobs')) <= Cardinality(OfflineRunning(jobs)) + 1
      BY <2>4, <3>3, FS_Subset, FiniteSides, FiniteSidesNext
    <3> QED BY <3>2, <3>4, <1>a, <1>b, FiniteSides, FiniteSidesNext
  <2> QED BY <2>2, <2>5, <2>6
<1>8. ASSUME NEW w \in Workers, LeaseNothing(w) PROVE Bound
  BY <1>8, <1>c, <1>g DEF LeaseNothing, Claims
<1>9. ASSUME NEW w \in Workers, Heartbeat(w) PROVE Bound
  BY <1>9, <1>c, <1>d, <1>f, OnlyLeaseRuns DEF Heartbeat, workerVars
<1>10. ASSUME NEW w \in Workers, NEW how \in {"ok", "error", "fatal"},
              HandlerEnds(w, how)
       PROVE  Bound
  BY <1>10, <1>c, <1>g DEF HandlerEnds, Claims
<1>11. ASSUME NEW w \in Workers, Complete(w) PROVE Bound
  <2>1. \A j \in Jobs : jobs[j].status # "running" => jobs'[j].status # "running"
    BY <1>11, <1>c, <1>d, ClosedRowsStop DEF Complete
  <2>2. Claims' \subseteq Claims
    BY <1>11, <1>c DEF Complete, Release, Claims
  <2> QED BY <2>1, <2>2, <1>e DEF OfflineRunning
<1>12. ASSUME NEW w \in Workers, Fail(w) PROVE Bound
  <2>1. \A j \in Jobs : jobs[j].status # "running" => jobs'[j].status # "running"
    BY <1>12, <1>c, <1>d, ClosedRowsStop DEF Fail
  <2>2. Claims' \subseteq Claims
    BY <1>12, <1>c DEF Fail, Release, Claims
  <2> QED BY <2>1, <2>2, <1>e DEF OfflineRunning
<1>13. ASSUME NEW w \in Workers, Crash(w) PROVE Bound
  BY <1>13, <1>c, <1>g DEF Crash, Claims
<1>14. ASSUME NEW w \in Workers, Restart(w) PROVE Bound
  BY <1>14, <1>c, <1>g DEF Restart, Claims
<1>15. ASSUME NEW w \in Workers, Stall(w) PROVE Bound
  BY <1>15, <1>g DEF Stall, workerVars, Claims
<1>16. ASSUME NEW w \in Workers, Resume(w) PROVE Bound
  BY <1>16, <1>g DEF Resume, workerVars, Claims
<1>17. CASE UNCHANGED vars
  BY <1>17, <1>g DEF vars, workerVars, Claims
<1> QED
  BY <1>1, <1>2, <1>3, <1>4, <1>5, <1>6, <1>7, <1>8, <1>9, <1>10, <1>11, <1>12,
     <1>13, <1>14, <1>15, <1>16, <1>17 DEF Next, Loop

LEMMA InitClaimsBounded == Init => ClaimsBounded
<1> SUFFICES ASSUME Init, OfflineBudget > 0 PROVE ClaimsBounded
  BY DEF ClaimsBounded
<1>1. OfflineRunning(jobs) = {} /\ Claims = {}
  BY DEF Init, NoRow, OfflineRunning, Claims
<1>2. Cardinality({}) = 0
  BY FS_EmptySet
<1> QED
  BY <1>1, <1>2, FiniteSides, OfflineBudgetType DEF ClaimsBounded

(* Concurrent leases exceed the offline budget by at most one job for every *)
(* other worker, whatever fails.                                            *)
THEOREM OvershootIsBounded == Spec => []OfflineOvershootBounded
<1>1. Init => TypeOK /\ ClaimsBounded
  BY InitTypeOK, InitClaimsBounded
<1>2. TypeOK /\ ClaimsBounded /\ [Next]_vars => (TypeOK /\ ClaimsBounded)'
  BY NextTypeOK, NextClaimsBounded
<1>3. ClaimsBounded => OfflineOvershootBounded
  BY FiniteSides, OfflineBudgetType DEF ClaimsBounded, OfflineOvershootBounded
<1> QED
  BY <1>1, <1>2, <1>3, PTL DEF Spec

-----------------------------------------------------------------------------
(***************************************************************************)
(* JobQueue implements LeaseQueue until a process freezes.  A row maps to  *)
(* the state, the holder and the tries of its job; each step that commits  *)
(* a statement maps to the step of LeaseQueue with that effect, if it has  *)
(* one.  The guards of LeaseQueue that the statements do not check (the    *)
(* holder ends the job, tries are left) follow from IInv.                  *)
(***************************************************************************)
StateOf(row) ==
  CASE row.status = "none"      -> "absent"
    [] row.status = "queued"    -> "waiting"
    [] row.status = "running"   -> "held"
    [] row.status = "succeeded" -> "done"
    [] row.status = "dead"      -> "dead"

HolderOf(row) == IF row.status = "running" THEN row.lockedBy ELSE NoWorker

States  == [j \in Jobs |-> StateOf(jobs[j])]
Holders == [j \in Jobs |-> HolderOf(jobs[j])]
Tries   == [j \in Jobs |-> jobs[j].attempts]

LEMMA StateOfStatus ==
  ASSUME NEW row
  PROVE  /\ row.status = "none"      => StateOf(row) = "absent"
         /\ row.status = "queued"    => StateOf(row) = "waiting"
         /\ row.status = "running"   => StateOf(row) = "held"
         /\ row.status = "succeeded" => StateOf(row) = "done"
         /\ row.status = "dead"      => StateOf(row) = "dead"
  BY DEF StateOf

(* The definitions of LeaseQueue, in the terms of the mapping *)
LEMMA MappedVars == UNCHANGED <<States, Holders, Tries>> => UNCHANGED LQ!vars
  BY DEF LQ!vars, States, Holders, Tries, StateOf, HolderOf

LEMMA MappedInit ==
  LQ!Init <=> /\ States = [j \in Jobs |-> "absent"]
              /\ Holders = [j \in Jobs |-> NoWorker]
              /\ Tries = [j \in Jobs |-> 0]
  BY DEF LQ!Init, States, Holders, Tries, StateOf, HolderOf

LEMMA MappedSubmit ==
  \A j : LQ!Submit(j) <=>
    /\ States[j] = "absent" /\ States' = [States EXCEPT ![j] = "waiting"]
    /\ UNCHANGED <<Holders, Tries>>
  BY DEF LQ!Submit, States, Holders, Tries, StateOf, HolderOf

LEMMA MappedTake ==
  \A w, j : LQ!Take(w, j) <=>
    /\ States[j] = "waiting" /\ Tries[j] < MaxAttempts
    /\ States' = [States EXCEPT ![j] = "held"]
    /\ Holders' = [Holders EXCEPT ![j] = w]
    /\ Tries' = [Tries EXCEPT ![j] = Tries[j] + 1]
  BY DEF LQ!Take, States, Holders, Tries, StateOf, HolderOf

LEMMA MappedEnd ==
  \A w, j, how : LQ!End(w, j, how) <=>
    /\ States[j] = "held" /\ Holders[j] = w
    /\ States' = [States EXCEPT ![j] = how]
    /\ Holders' = [Holders EXCEPT ![j] = NoWorker]
    /\ UNCHANGED Tries
  BY DEF LQ!End, States, Holders, Tries, StateOf, HolderOf

LEMMA MappedGiveBack ==
  \A w, j : LQ!GiveBack(w, j) <=>
    /\ States[j] = "held" /\ Holders[j] = w
    /\ States' = [States EXCEPT ![j] = IF Tries[j] < MaxAttempts THEN "waiting" ELSE "dead"]
    /\ Holders' = [Holders EXCEPT ![j] = NoWorker]
    /\ UNCHANGED Tries
  BY DEF LQ!GiveBack, LQ!End, States, Holders, Tries, StateOf, HolderOf

LEMMA MappedRevoke ==
  \A S : LQ!Revoke(S) <=>
    /\ \A j \in S : States[j] = "held"
    /\ States' = [j \in Jobs |-> IF j \notin S THEN States[j]
                                 ELSE IF Tries[j] < MaxAttempts THEN "waiting" ELSE "dead"]
    /\ Holders' = [j \in Jobs |-> IF j \in S THEN NoWorker ELSE Holders[j]]
    /\ UNCHANGED Tries
  BY DEF LQ!Revoke, States, Holders, Tries, StateOf, HolderOf

LEMMA MappedRevive ==
  \A S : LQ!Revive(S) <=>
    /\ \A j \in S : States[j] = "dead"
    /\ States' = [j \in Jobs |-> IF j \in S THEN "waiting" ELSE States[j]]
    /\ Tries' = [j \in Jobs |-> IF j \in S THEN 0 ELSE Tries[j]]
    /\ UNCHANGED Holders
  BY DEF LQ!Revive, States, Holders, Tries, StateOf, HolderOf

(* What the table looks like after a step that touches no row, or one *)
LEMMA SameRows ==
  ASSUME UNCHANGED jobs
  PROVE  UNCHANGED LQ!vars
  BY MappedVars DEF States, Holders, Tries

LEMMA OneRow ==
  ASSUME TypeOK, NEW j \in Jobs, NEW row, jobs' = [jobs EXCEPT ![j] = row]
  PROVE  /\ States' = [States EXCEPT ![j] = StateOf(row)]
         /\ Holders' = [Holders EXCEPT ![j] = HolderOf(row)]
         /\ Tries' = [Tries EXCEPT ![j] = row.attempts]
<1>1. \A k \in Jobs : jobs'[k] = IF k = j THEN row ELSE jobs[k]
  BY DEF TypeOK
<1>2. States' = [States EXCEPT ![j] = StateOf(row)]
  <2>1. \A k \in Jobs : StateOf(jobs'[k]) = IF k = j THEN StateOf(row) ELSE StateOf(jobs[k])
    BY <1>1
  <2> QED BY <2>1 DEF States
<1>3. Holders' = [Holders EXCEPT ![j] = HolderOf(row)]
  <2>1. \A k \in Jobs : HolderOf(jobs'[k]) = IF k = j THEN HolderOf(row) ELSE HolderOf(jobs[k])
    BY <1>1
  <2> QED BY <2>1 DEF Holders
<1>4. Tries' = [Tries EXCEPT ![j] = row.attempts]
  <2>1. \A k \in Jobs : jobs'[k].attempts = IF k = j THEN row.attempts ELSE jobs[k].attempts
    BY <1>1
  <2> QED BY <2>1 DEF Tries
<1> QED BY <1>2, <1>3, <1>4

(* A row that keeps its status, its owner and its attempts is no step. *)
LEMMA SilentRow ==
  ASSUME TypeOK, NEW j \in Jobs, NEW row, jobs' = [jobs EXCEPT ![j] = row],
         row.status = jobs[j].status, row.lockedBy = jobs[j].lockedBy,
         row.attempts = jobs[j].attempts
  PROVE  UNCHANGED LQ!vars
<1>1. StateOf(row) = StateOf(jobs[j]) /\ HolderOf(row) = HolderOf(jobs[j])
  BY DEF StateOf, HolderOf
<1>2. UNCHANGED States
  BY <1>1, OneRow DEF States
<1>3. UNCHANGED Holders
  BY <1>1, OneRow DEF Holders
<1>4. UNCHANGED Tries
  BY OneRow DEF Tries
<1> QED BY <1>2, <1>3, <1>4, MappedVars

(* A worker that ends its job ends it in LeaseQueue. *)
LEMMA EndOfJob ==
  ASSUME TypeOK, NEW w \in Workers, NEW j \in Jobs, NEW row, NEW how,
         Owned(jobs[j], w, seen[w]), jobs' = [jobs EXCEPT ![j] = row],
         row.status # "running", row.attempts = jobs[j].attempts, how = StateOf(row)
  PROVE  LQ!End(w, j, how)
<1>1. jobs[j].status = "running" /\ jobs[j].lockedBy = w
  BY DEF Owned
<1>2. States[j] = "held" /\ Holders[j] = w /\ Tries[j] = row.attempts
  BY <1>1, StateOfStatus DEF States, Holders, Tries, HolderOf
<1>3. /\ States' = [States EXCEPT ![j] = StateOf(row)]
      /\ Holders' = [Holders EXCEPT ![j] = NoWorker]
      /\ Tries' = [Tries EXCEPT ![j] = Tries[j]]
  BY <1>2, OneRow DEF HolderOf
<1>4. UNCHANGED Tries
  BY <1>3 DEF Tries
<1> QED BY <1>2, <1>3, <1>4, MappedEnd

(* A row that is not there has spent no attempts. *)
Fresh(row) == row.status = "none" => row.attempts = 0
AbsentIsFresh == \A j \in Jobs : Fresh(jobs[j])

LEMMA FreshKept ==
  ASSUME NEW row, Fresh(row), row \in Row
  PROVE  /\ Fresh(Enqueued(row)) /\ Fresh(Reaped(row)) /\ Fresh(Revived(row))
         /\ Fresh(Beaten(row)) /\ Fresh(Completed(row))
         /\ \A w : Fresh(Leased(row, w))
         /\ \A n, b : Fresh(Failed(row, n, b))
         /\ \A b : Fresh([row EXCEPT !.stale = b]) /\ Fresh([row EXCEPT !.delayed = b])
<1> USE DEF Fresh, Row
<1>1. Fresh(Enqueued(row)) /\ Fresh(Revived(row))
  BY DEF Enqueued, Revived, QueuedRow, NoRow
<1>2. Fresh(Reaped(row)) /\ Fresh(Beaten(row)) /\ Fresh(Completed(row))
  BY DEF Reaped, Reapable, Beaten, Completed
<1>3. \A w : Fresh(Leased(row, w))
  BY DEF Leased
<1>4. \A n, b : Fresh(Failed(row, n, b))
  BY DEF Failed, Retried, Died
<1>5. \A b : Fresh([row EXCEPT !.stale = b]) /\ Fresh([row EXCEPT !.delayed = b])
  OBVIOUS
<1> QED BY <1>1, <1>2, <1>3, <1>4, <1>5

LEMMA NextAbsentIsFresh ==
  ASSUME TypeOK, AbsentIsFresh, [Next]_vars
  PROVE  AbsentIsFresh'
<1>0. \A j \in Jobs : jobs[j] \in Row /\ Fresh(jobs[j])
  BY DEF TypeOK, AbsentIsFresh
<1>1. ASSUME NEW j \in Jobs, NEW row, jobs' = [jobs EXCEPT ![j] = row], Fresh(row)
      PROVE  AbsentIsFresh'
  BY <1>0, <1>1 DEF AbsentIsFresh, TypeOK
<1>2. ASSUME UNCHANGED jobs PROVE AbsentIsFresh'
  BY <1>0, <1>2 DEF AbsentIsFresh
<1>3. ASSUME NEW j \in Jobs, Enqueue(j) \/ Expire(j) \/ BackoffElapsed(j)
      PROVE  AbsentIsFresh'
  BY <1>0, <1>1, <1>3, FreshKept DEF Enqueue, Expire, BackoffElapsed
<1>4. ASSUME NEW v, RetryVideo(v) PROVE AbsentIsFresh'
  BY <1>0, <1>4, FreshKept DEF RetryVideo, AbsentIsFresh
<1>5. ASSUME NEW w \in Workers, Reap(w) PROVE AbsentIsFresh'
  BY <1>0, <1>5, FreshKept DEF Reap, AbsentIsFresh
<1>6. ASSUME NEW w \in Workers, LeaseTake(w) PROVE AbsentIsFresh'
  <2>1. PICK j \in MostUrgent(Candidates(w)) : jobs' = [jobs EXCEPT ![j] = Leased(jobs[j], w)]
    BY <1>6 DEF LeaseTake
  <2>2. j \in Jobs
    BY ServesType DEF MostUrgent, Candidates, Leasable
  <2> QED BY <1>0, <1>1, <2>1, <2>2, FreshKept
<1>7. ASSUME NEW w \in Workers, Heartbeat(w) \/ Complete(w) \/ Fail(w) PROVE AbsentIsFresh'
  <2>1. job[w] \in Jobs
    BY <1>7 DEF Heartbeat, Complete, Fail, TypeOK, Busy
  <2> QED BY <1>0, <1>1, <1>7, <2>1, FreshKept DEF Heartbeat, Complete, Fail
<1>8. ASSUME NEW w \in Workers, \/ LeaseSnapshot(w) \/ LeaseNothing(w)
                                \/ \E how \in {"ok", "error", "fatal"} : HandlerEnds(w, how)
                                \/ Crash(w) \/ Restart(w) \/ Stall(w) \/ Resume(w)
      PROVE  UNCHANGED jobs
  BY <1>8 DEF LeaseSnapshot, LeaseNothing, HandlerEnds, Crash, Restart, Stall, Resume
<1> QED BY <1>2, <1>3, <1>4, <1>5, <1>6, <1>7, <1>8 DEF Next, Loop, vars

(* Every step of an unfrozen run is a step of LeaseQueue, or none. *)
LEMMA StepMapped ==
  ASSUME IInv, AbsentIsFresh, [Next]_vars, stalls' = 0
  PROVE  LQ!Next \/ UNCHANGED LQ!vars
<1>0. /\ stalls = 0 /\ TypeOK
      /\ \A w \in Workers : pc[w] \in Busy =>
           job[w] \in Jobs /\ Owned(jobs[job[w]], w, seen[w])
      /\ \A j \in Jobs : InBudget(jobs[j])
  <2>1. stalls = 0
    BY DEF IInv, TypeOK, Next, Loop, Enqueue, Expire, BackoffElapsed,
       RetryVideo, LeaseSnapshot, LeaseTake, LeaseNothing, HandlerEnds, Complete,
       Fail, Release, Reap, Heartbeat, Crash, Restart, Stall, Resume, vars,
       workerVars, faultVars
  <2> QED BY <2>1 DEF IInv, LeaseHonoured, AttemptsBounded, TypeOK
<1>1. ASSUME NEW j \in Jobs, Enqueue(j) PROVE LQ!Submit(j) \/ UNCHANGED LQ!vars
  <2>1. CASE jobs[j].status = "none"
    <3>1. jobs' = [jobs EXCEPT ![j] = QueuedRow]
      BY <1>1, <2>1 DEF Enqueue, Enqueued
    <3>2. States[j] = "absent" /\ Holders[j] = NoWorker /\ Tries[j] = 0
      BY <2>1, StateOfStatus DEF States, Holders, Tries, HolderOf, AbsentIsFresh, Fresh
    <3>3. StateOf(QueuedRow) = "waiting" /\ HolderOf(QueuedRow) = NoWorker
          /\ QueuedRow.attempts = 0
      BY StateOfStatus DEF QueuedRow, NoRow, HolderOf
    <3>4. /\ States' = [States EXCEPT ![j] = StateOf(QueuedRow)]
          /\ Holders' = [Holders EXCEPT ![j] = HolderOf(QueuedRow)]
          /\ Tries' = [Tries EXCEPT ![j] = QueuedRow.attempts]
      BY <1>0, <3>1, OneRow
    <3>5. UNCHANGED <<Holders, Tries>>
      BY <3>2, <3>3, <3>4 DEF Holders, Tries
    <3> QED BY <3>2, <3>3, <3>4, <3>5, MappedSubmit
  <2>2. CASE jobs[j].status # "none"
    <3>1. Enqueued(jobs[j]) = jobs[j]
      BY <2>2 DEF Enqueued
    <3> QED BY <1>0, <1>1, <3>1, SilentRow DEF Enqueue
  <2> QED BY <2>1, <2>2
<1>2. ASSUME NEW j \in Jobs, Expire(j) \/ BackoffElapsed(j) PROVE UNCHANGED LQ!vars
  <2>1. jobs[j] \in Row
    BY <1>0 DEF TypeOK
  <2>2. CASE Expire(j)
    BY <1>0, <2>1, <2>2, SilentRow DEF Expire, Row
  <2>3. CASE BackoffElapsed(j)
    BY <1>0, <2>1, <2>3, SilentRow DEF BackoffElapsed, Row
  <2> QED BY <1>2, <2>2, <2>3
<1>3. ASSUME NEW v, RetryVideo(v) PROVE \E S \in SUBSET Jobs : LQ!Revive(S)
  <2> DEFINE S == {j \in Jobs : VideoOf[j] = v /\ jobs[j].status = "dead"}
  <2>1. \A j \in Jobs : jobs'[j] = IF j \in S THEN QueuedRow ELSE jobs[j]
    BY <1>3 DEF RetryVideo, Revived
  <2>2. StateOf(QueuedRow) = "waiting" /\ HolderOf(QueuedRow) = NoWorker
        /\ QueuedRow.attempts = 0
    BY StateOfStatus DEF QueuedRow, NoRow, HolderOf
  <2>3. \A j \in S : States[j] = "dead" /\ HolderOf(jobs[j]) = NoWorker
    BY StateOfStatus DEF States, HolderOf
  <2>4. \A j \in Jobs : /\ StateOf(jobs'[j]) = IF j \in S THEN "waiting" ELSE States[j]
                        /\ HolderOf(jobs'[j]) = HolderOf(jobs[j])
                        /\ jobs'[j].attempts = IF j \in S THEN 0 ELSE Tries[j]
    BY <2>1, <2>2, <2>3 DEF States, Tries
  <2> HIDE DEF S
  <2>5. States' = [j \in Jobs |-> IF j \in S THEN "waiting" ELSE States[j]]
    BY <2>4 DEF States
  <2>6. Tries' = [j \in Jobs |-> IF j \in S THEN 0 ELSE Tries[j]]
    BY <2>4 DEF Tries
  <2>7. UNCHANGED Holders
    BY <2>4 DEF Holders
  <2>8. S \in SUBSET Jobs
    BY DEF S
  <2> QED BY <2>3, <2>5, <2>6, <2>7, <2>8, MappedRevive
<1>4. ASSUME NEW w, Reap(w) PROVE \E S \in SUBSET Jobs : LQ!Revoke(S)
  <2> DEFINE S == {j \in Jobs : Reapable(jobs[j])}
  <2>1. \A j \in Jobs : jobs'[j] = Reaped(jobs[j]) /\ jobs[j] \in Row
    BY <1>0, <1>4 DEF Reap, TypeOK
  <2>2. \A j \in S : States[j] = "held"
    BY StateOfStatus DEF States, Reapable
  <2>3. ASSUME NEW j \in S
        PROVE  /\ StateOf(jobs'[j]) = IF Tries[j] < MaxAttempts THEN "waiting" ELSE "dead"
               /\ HolderOf(jobs'[j]) = NoWorker /\ jobs'[j].attempts = Tries[j]
    <3>1. Tries[j] = jobs[j].attempts /\ Tries[j] \in Nat
      BY <2>1 DEF Tries, Row
    <3>2. /\ jobs'[j].status = IF Tries[j] >= MaxAttempts THEN "dead" ELSE "queued"
          /\ jobs'[j].attempts = Tries[j]
      BY <2>1, <3>1 DEF Reaped, Row
    <3>3. Tries[j] >= MaxAttempts <=> ~(Tries[j] < MaxAttempts)
      BY <3>1, MaxAttemptsPositive
    <3> QED BY <3>2, <3>3, StateOfStatus DEF HolderOf
  <2>4. ASSUME NEW j \in Jobs \ S PROVE jobs'[j] = jobs[j]
    BY <2>1 DEF Reaped
  <2>5. S \in SUBSET Jobs
    OBVIOUS
  <2> HIDE DEF S
  <2>6. States' = [j \in Jobs |-> IF j \notin S THEN States[j]
                                  ELSE IF Tries[j] < MaxAttempts THEN "waiting" ELSE "dead"]
    <3>1. \A j \in Jobs : StateOf(jobs'[j]) =
            IF j \notin S THEN States[j]
            ELSE IF Tries[j] < MaxAttempts THEN "waiting" ELSE "dead"
      BY <2>3, <2>4 DEF States
    <3> QED BY <3>1 DEF States
  <2>7. Holders' = [j \in Jobs |-> IF j \in S THEN NoWorker ELSE Holders[j]]
    <3>1. \A j \in Jobs : HolderOf(jobs'[j]) = IF j \in S THEN NoWorker ELSE Holders[j]
      BY <2>3, <2>4 DEF Holders
    <3> QED BY <3>1 DEF Holders
  <2>8. UNCHANGED Tries
    <3>1. \A j \in Jobs : jobs'[j].attempts = jobs[j].attempts
      BY <2>3, <2>4 DEF Tries
    <3> QED BY <3>1 DEF Tries
  <2> QED BY <2>2, <2>5, <2>6, <2>7, <2>8, MappedRevoke
<1>5. ASSUME NEW w \in Workers, LeaseTake(w) PROVE \E j \in Jobs : LQ!Take(w, j)
  <2>1. PICK j \in MostUrgent(Candidates(w)) : jobs' = [jobs EXCEPT ![j] = Leased(jobs[j], w)]
    BY <1>5 DEF LeaseTake
  <2>2. j \in Jobs /\ jobs[j].status = "queued"
    BY ServesType DEF MostUrgent, Candidates, Leasable
  <2>3. States[j] = "waiting" /\ Tries[j] < MaxAttempts
    BY <1>0, <2>2, StateOfStatus DEF States, Tries, InBudget
  <2>4. StateOf(Leased(jobs[j], w)) = "held" /\ HolderOf(Leased(jobs[j], w)) = w
        /\ Leased(jobs[j], w).attempts = Tries[j] + 1
    BY <2>2, StateOfStatus DEF Leased, HolderOf, Tries
  <2>5. /\ States' = [States EXCEPT ![j] = StateOf(Leased(jobs[j], w))]
        /\ Holders' = [Holders EXCEPT ![j] = HolderOf(Leased(jobs[j], w))]
        /\ Tries' = [Tries EXCEPT ![j] = Leased(jobs[j], w).attempts]
    BY <1>0, <2>1, <2>2, OneRow
  <2> QED BY <2>2, <2>3, <2>4, <2>5, MappedTake
<1>6. ASSUME NEW w \in Workers, Complete(w) PROVE \E j \in Jobs : LQ!Finish(w, j)
  <2>1. PICK j \in Jobs : j = job[w]
    BY <1>0, <1>6 DEF Complete, Busy
  <2>2. Owned(jobs[j], w, seen[w]) /\ jobs[j] \in Row
    BY <1>0, <1>6, <2>1 DEF Complete, Busy, TypeOK
  <2>3. PICK row : row = Completed(jobs[j])
    OBVIOUS
  <2>4. row.status = "succeeded" /\ row.attempts = jobs[j].attempts
    BY <2>2, <2>3 DEF Completed, Row
  <2>5. LQ!End(w, j, "done")
    BY <1>0, <1>6, <2>1, <2>2, <2>3, <2>4, EndOfJob, StateOfStatus DEF Complete
  <2> QED BY <2>5 DEF LQ!Finish
<1>7. ASSUME NEW w \in Workers, Fail(w)
      PROVE  \E j \in Jobs : LQ!GiveBack(w, j) \/ LQ!Kill(w, j)
  <2>1. PICK j \in Jobs : j = job[w]
    BY <1>0, <1>7 DEF Fail, Busy
  <2>2. Owned(jobs[j], w, seen[w]) /\ jobs[j] \in Row
    BY <1>0, <1>7, <2>1 DEF Fail, Busy, TypeOK
  <2>3. PICK row : row = Failed(jobs[j], seen[w], pc[w] = "error")
    OBVIOUS
  <2>4. row.attempts = jobs[j].attempts /\ seen[w] = jobs[j].attempts
    BY <2>2, <2>3 DEF Failed, Retried, Died, Row, Owned
  <2>5. row.status = IF pc[w] = "error" /\ jobs[j].attempts < MaxAttempts
                       THEN "queued" ELSE "dead"
    BY <2>2, <2>3, <2>4 DEF Failed, Retried, Died, Row
  <2>6. ASSUME NEW how, how = StateOf(row) PROVE LQ!End(w, j, how)
    BY <1>0, <1>7, <2>1, <2>2, <2>3, <2>4, <2>5, <2>6, EndOfJob DEF Fail
  <2>7. CASE pc[w] = "error" /\ jobs[j].attempts < MaxAttempts
    <3>1. LQ!End(w, j, "waiting")
      BY <2>5, <2>6, <2>7, StateOfStatus
    <3>2. Tries[j] < MaxAttempts
      BY <2>7 DEF Tries
    <3> QED BY <3>1, <3>2, MappedEnd, MappedGiveBack
  <2>8. CASE pc[w] = "error" /\ ~(jobs[j].attempts < MaxAttempts)
    <3>1. LQ!End(w, j, "dead")
      BY <2>5, <2>6, <2>8, StateOfStatus
    <3>2. ~(Tries[j] < MaxAttempts)
      BY <2>8 DEF Tries
    <3> QED BY <3>1, <3>2, MappedEnd, MappedGiveBack
  <2>9. CASE pc[w] # "error"
    <3>1. LQ!End(w, j, "dead")
      BY <2>5, <2>6, <2>9, StateOfStatus
    <3> QED BY <3>1 DEF LQ!Kill
  <2> QED BY <2>7, <2>8, <2>9
<1>8. ASSUME NEW w \in Workers, Heartbeat(w) PROVE FALSE
  BY <1>0, <1>8 DEF Heartbeat, Reapable, Owned, Busy
<1>9. ASSUME NEW w \in Workers, \/ LeaseSnapshot(w) \/ LeaseNothing(w)
                                \/ \E how \in {"ok", "error", "fatal"} : HandlerEnds(w, how)
                                \/ Crash(w) \/ Restart(w) \/ Stall(w) \/ Resume(w)
      PROVE  UNCHANGED LQ!vars
  BY <1>9, SameRows
     DEF LeaseSnapshot, LeaseNothing, HandlerEnds, Crash, Restart, Stall, Resume
<1>10. CASE UNCHANGED vars
  BY <1>10, SameRows DEF vars
<1> QED
  BY <1>1, <1>2, <1>3, <1>4, <1>5, <1>6, <1>7, <1>8, <1>9, <1>10
     DEF Next, Loop, LQ!Next

(***************************************************************************)
(* Until the first process freezes, whatever dies and is retried, the      *)
(* table and its workers behave as LeaseQueue says ...                     *)
(***************************************************************************)
THEOREM LeaseQueueUntilFreeze ==
  Spec => LQ!Init /\ [][stalls' = 0 => LQ!Next \/ UNCHANGED LQ!vars]_vars
<1>1. Init => LQ!Init /\ AbsentIsFresh
  BY MappedInit, StateOfStatus
     DEF Init, NoRow, States, Holders, Tries, HolderOf, AbsentIsFresh, Fresh
<1>2. IInv /\ AbsentIsFresh /\ [Next]_vars => AbsentIsFresh'
  BY NextAbsentIsFresh DEF IInv
<1>3. IInv /\ AbsentIsFresh /\ [Next]_vars
        => [stalls' = 0 => LQ!Next \/ UNCHANGED LQ!vars]_vars
  BY StepMapped
<1> QED BY <1>1, <1>2, <1>3, InductiveInvariant, PTL DEF Spec

(* ... and if none does, the queue implements LeaseQueue. *)
THEOREM QueueImplementsLeaseQueue ==
  ASSUME MaxStalls = 0
  PROVE  Spec => ImplementsLeaseQueue
<1>1. Init => stalls = 0
  BY DEF Init
<1>2. TypeOK /\ stalls = 0 /\ [Next]_vars => (stalls = 0)'
  BY DEF Next, Loop, Enqueue, Expire, BackoffElapsed,
     RetryVideo, LeaseSnapshot, LeaseTake, LeaseNothing, HandlerEnds, Complete,
     Fail, Release, Reap, Heartbeat, Crash, Restart, Stall, Resume, vars,
     workerVars, faultVars
<1>3. TypeOK /\ stalls = 0 /\ [Next]_vars /\ [stalls' = 0 => LQ!Next \/ UNCHANGED LQ!vars]_vars
        => [LQ!Next]_(LQ!vars)
  BY <1>2, SameRows DEF vars
<1> QED
  BY <1>1, <1>2, <1>3, TypeCorrect, LeaseQueueUntilFreeze, PTL
     DEF Spec, ImplementsLeaseQueue, LQ!Spec
=============================================================================
