---------------------------- MODULE MCVideoPipeline ----------------------------
(***************************************************************************)
(* Instances of VideoPipeline for TLC: a video of two chunks, two workers. *)
(***************************************************************************)
EXTENDS VideoPipeline, TLC

CONSTANTS w1, w2

TwoWorkers == {w1, w2}
AllQueues  == [w \in TwoWorkers |-> {"probe", "extract", "index"}]

(* What may go wrong; each set is a choice of mixes, one upload in each *)
Calm == [k \in Kinds |-> IF k = "upload" THEN 1 ELSE 0]

ErrorBudget   == {[Calm EXCEPT !["error"] = 2, !["probeError"] = 1]}
FaultBudget   == {[Calm EXCEPT !["crash"] = 1, !["untimely"] = 1],
                  [Calm EXCEPT !["error"] = 1, !["untimely"] = 1, !["upload"] = 2],
                  [Calm EXCEPT !["crash"] = 1, !["error"] = 1, !["dbError"] = 1],
                  [Calm EXCEPT !["stall"] = 1, !["error"] = 1],
                  [Calm EXCEPT !["stall"] = 1, !["crash"] = 1],
                  [Calm EXCEPT !["corrupt"] = 1, !["untimely"] = 1],
                  [Calm EXCEPT !["crash"] = 1, !["error"] = 2, !["retry"] = 1]}
CrashBudget   == {[Calm EXCEPT !["crash"] = 1]}

Symmetry == Permutations(TwoWorkers)
=============================================================================
