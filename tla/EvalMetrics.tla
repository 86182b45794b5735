----------------------------- MODULE EvalMetrics -----------------------------
(***************************************************************************)
(* The retrieval metrics of eval/metrics.py.  A hit or a relevant range is *)
(* [video, s, e] in whole seconds, thresholds are in hundredths; a score   *)
(* that is a fraction is its numerator over a denominator it is named for. *)
(***************************************************************************)
EXTENDS Integers, SequencesExt

CONSTANTS
  Tolerance,  \* tolerance_s
  Scale       \* 1.0: a multiple of every rank that occurs

ASSUME MetricsConstants == Tolerance \in Nat /\ Scale \in Nat \ {0}

overlaps(hit, rel) ==
  /\ hit.video = rel.video
  /\ \/ hit.s < rel.e /\ hit.e > rel.s
     \/ hit.s \in (rel.s - Tolerance)..(rel.e + Tolerance)

(* iou() as the fraction of two lengths; of an empty union it is 0 *)
iou(hit, rel) ==
  LET from   == IF hit.s > rel.s THEN hit.s ELSE rel.s
      to     == IF hit.e < rel.e THEN hit.e ELSE rel.e
      inter  == IF from < to THEN to - from ELSE 0
      union  == ((hit.e - hit.s) + (rel.e - rel.s)) - inter
  IN  IF hit.video = rel.video /\ union > 0 THEN [inter |-> inter, union |-> union]
                                            ELSE [inter |-> 0, union |-> 1]

Above(x, y)     == x.inter * y.union > y.inter * x.union
AtLeast(x, thr) == 100 * x.inter >= thr * x.union

-----------------------------------------------------------------------------
(* The loop of relevance() and of average_precision_at_iou(): each hit in  *)
(* turn takes the range it matches of the n that are left, if any.  The    *)
(* ranks of the hits that took one.                                        *)
Credited(count, n, Match(_, _)) ==
  LET left[i \in 0..count] == IF i = 0 THEN 1..n ELSE left[i - 1] \ Match(i, left[i - 1])
  IN  {i \in 1..count : left[i] # left[i - 1]}

(* Mutant: a range is credited to every hit that overlaps it *)
EveryOverlap(hits, relevant) ==
  {i \in DOMAIN hits : \E r \in DOMAIN relevant : overlaps(hits[i], relevant[r])}

(* The first of the ranges left that the hit overlaps *)
FirstOverlap(hit, relevant, left) ==
  {r \in left : /\ overlaps(hit, relevant[r])
                /\ \A o \in left : o < r => ~overlaps(hit, relevant[o])}

relevance(hits, relevant) ==
  Credited(Len(hits), Len(relevant), LAMBDA i, left : FirstOverlap(hits[i], relevant, left))

(* Of the qualities of the ranges left r has the best, of equals the first *)
Best(quality, left, r) ==
  \A o \in left : ~Above(quality[o], quality[r]) /\ (o < r => Above(quality[r], quality[o]))

(* The best of the ranges left, if it is good enough *)
BestOverlap(hit, relevant, thr, left) ==
  LET quality == [r \in left |-> iou(hit, relevant[r])]
  IN  {r \in left : Best(quality, left, r) /\ AtLeast(quality[r], thr)}

truePositives(hits, relevant, thr) ==
  Credited(Len(hits), Len(relevant), LAMBDA i, left : BestOverlap(hits[i], relevant, thr, left))

-----------------------------------------------------------------------------
Upto(ranks, k) == {i \in ranks : i <= k}

(* ... over n_relevant *)
recall_at(ranks, n_relevant, k) == Min({n_relevant, Cardinality(Upto(ranks, k))})

hit_at(ranks, k) == Upto(ranks, k) # {}

(* ... over Scale *)
mrr(ranks) == IF ranks = {} THEN 0 ELSE Scale \div Min(ranks)

(* 1 / log2(i + 1), in thousandths *)
Discount == <<1000, 631, 500, 431, 387, 356, 333, 315, 301, 289>>
Gain(ranks) == MapThenSumSet(LAMBDA i : Discount[i], ranks)

(* ndcg_at(): dcg over ideal *)
dcg(ranks, k)        == Gain(Upto(ranks, k))
ideal(n_relevant, k) == Gain(1..Min({n_relevant, k}))

recall_at_iou(hits, relevant, k, thr) ==
  \E i \in Upto(DOMAIN hits, k), r \in DOMAIN relevant : AtLeast(iou(hits[i], relevant[r]), thr)

(* ... over Scale * Len(relevant) *)
average_precision_at_iou(hits, relevant, thr) ==
  LET ranks == truePositives(hits, relevant, thr)
  IN  MapThenSumSet(LAMBDA i : (Cardinality(Upto(ranks, i)) * Scale) \div i, ranks)

Thresholds == {50 + 5 * i : i \in 0..9}

(* ... over 10 * Scale * Len(relevant) *)
mean_ap(hits, relevant) ==
  MapThenSumSet(LAMBDA thr : average_precision_at_iou(hits, relevant, thr), Thresholds)
=============================================================================
