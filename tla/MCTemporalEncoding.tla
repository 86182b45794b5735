------------------------- MODULE MCTemporalEncoding -------------------------
(***************************************************************************)
(* Instances of TemporalEncoding for TLC: two workers on one or two hosts, *)
(* two encoders, each known under its own name.                            *)
(***************************************************************************)
EXTENDS TemporalEncoding, TLC

CONSTANTS w1, w2, h1, h2, xclip, siglip

TwoWorkers == {w1, w2}
TwoHosts   == {h1, h2}
Anywhere   == [TwoWorkers -> TwoHosts]
OnOneHost  == {[w \in TwoWorkers |-> h1]}

Encoders   == {xclip, siglip}
OneName    == [n \in Encoders |-> n]
SomeFilmed == SUBSET Chunks
AllFilmed  == {Chunks}
Uploaded   == {"upload"}
AnySource  == {"upload", "qvhighlights"}

Calm == [k \in Kinds |-> 0]

FaultBudgets  == {[Calm EXCEPT !["backfill"] = 2],
                  [Calm EXCEPT !["force"] = 1, !["crash"] = 1],
                  [Calm EXCEPT !["backfill"] = 1, !["crash"] = 1],
                  [Calm EXCEPT !["backfill"] = 1, !["error"] = 2, !["retry"] = 1],
                  [Calm EXCEPT !["backfill"] = 1, !["retire"] = 1],
                  [Calm EXCEPT !["backfill"] = 1, !["reconfigure"] = 1]}
TwoBackfills  == {[Calm EXCEPT !["backfill"] = 2]}

Symmetry == UNION {Permutations(TwoWorkers), Permutations(TwoHosts), Permutations(Encoders)}
=============================================================================
