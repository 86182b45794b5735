----------------------------- MODULE MCJobQueue -----------------------------
(***************************************************************************)
(* Instances of JobQueue for TLC: two workers and a few jobs of one video. *)
(***************************************************************************)
EXTENDS JobQueue

CONSTANTS w1, w2, v1, up, bulk1, bulk2, late

TwoWorkers == {w1, w2}
OneVideo   == {v1}

(* One interactive and one benchmark job, or two benchmark jobs and one of *)
(* the backfill band *)
MixedJobs == {up, bulk1}
BulkJobs  == {bulk1, bulk2, late}

PriorityOf(S) == [j \in S |-> IF j = up THEN 100 ELSE IF j = late THEN -200 ELSE -100]
MixedPriority == PriorityOf(MixedJobs)
BulkPriority  == PriorityOf(BulkJobs)

MixedVideo == [j \in MixedJobs |-> v1]
BulkVideo  == [j \in BulkJobs |-> v1]

AllServeMixed == [w \in TwoWorkers |-> MixedJobs]
AllServeBulk  == [w \in TwoWorkers |-> BulkJobs]

(* A worker started with --min-priority -100 leaves the backfill band alone *)
NoReserve  == [w \in TwoWorkers |-> -1000]
W2Reserved == [w \in TwoWorkers |-> IF w = w2 THEN -100 ELSE -1000]
=============================================================================
