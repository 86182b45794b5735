------------------------------ MODULE Evaluation ------------------------------
(***************************************************************************)
(* Recorded experiments (eval/experiment.py) and the hard negatives mined  *)
(* from them (eval/negatives.py), while the index under them changes: a    *)
(* chunk is indexed again and its segments get new ids (pipeline/index.py), *)
(* a video is deleted.                                                     *)
(*                                                                         *)
(* A segment is the part of the video it was cut from, the build of that   *)
(* part and its span: no later build has the same ids.  What search()      *)
(* returns is any ranking of the segments there are (SearchRanking has the *)
(* search itself); hits carry the span of their segment (span_mode         *)
(* "segment").  The table of training examples is not part of the sources: *)
(* what becomes of an example whose segment goes is left open.             *)
(***************************************************************************)
EXTENDS EvalMetrics, FiniteSets

CONSTANTS
  Parts, PartOf,  \* chunks of indexed videos, and the video of each
  Cuts,           \* how each part may be cut into segments: sets of pairs
  Queries,        \* labelled queries with video and relevant, its true ranges
  Subsets,        \* the sets of queries an experiment may be run on
  Exps,           \* ids of experiments
  HitLimit,       \* limit of the search
  MaxIou, PerQuery,   \* parameters of mine()
  Builds, Mines   \* bounds: builds of each part, calls of mine()

ASSUME EvaluationConstants ==
  /\ PartOf \in [Parts -> {PartOf[p] : p \in Parts}]
  /\ Subsets \subseteq SUBSET Queries
  /\ HitLimit \in Nat \ {0} /\ PerQuery \in Nat \ {0} /\ MaxIou \in 0..100
  /\ \A p \in Parts : \A cuts \in Cuts[p] : cuts \subseteq Int \X Int
  /\ \A q \in Queries : /\ q.video \in {PartOf[p] : p \in Parts}
                        /\ q.relevant \in Seq([video : {q.video}, s : Int, e : Int])
                        /\ q.relevant # <<>>
  /\ \A rank \in 1..HitLimit : Scale % rank = 0

VARIABLES
  built,     \* part -> number of the build and its cuts
  gone,      \* videos that were deleted
  exps,      \* the experiments table, with the hits of the recorded results
  runs,      \* the process of each: its place, queries left and hits so far
  examples,  \* the training_examples table
  mined      \* calls of mine() so far

evalVars == <<built, gone, exps, runs, examples, mined>>

Indexed == UNION {{[video |-> PartOf[p], part |-> p, build |-> built[p].build,
                    s |-> span[1], e |-> span[2]] : span \in built[p].cuts} : p \in Parts}

EvalTypeOK ==
  /\ \A p \in Parts : built[p].build \in 1..Builds
  /\ gone \subseteq {PartOf[p] : p \in Parts}
  /\ \A x \in Exps : /\ exps[x].status \in {"none", "running", "done", "failed"}
                     /\ runs[x].pc \in {"idle", "asking", "ended"}
                     /\ runs[x].left \subseteq Queries
                     /\ DOMAIN runs[x].hits \subseteq Queries
                     /\ DOMAIN exps[x].results \subseteq Queries
  /\ mined \in 0..Mines

EvalInit ==
  /\ \E cuts \in [Parts -> UNION {Cuts[p] : p \in Parts}] :
       /\ \A p \in Parts : cuts[p] \in Cuts[p]
       /\ built = [p \in Parts |-> [build |-> 1, cuts |-> cuts[p]]]
  /\ gone = {}
  /\ exps = [x \in Exps |-> [status |-> "none", results |-> <<>>]]
  /\ runs = [x \in Exps |-> [pc |-> "idle", left |-> {}, hits |-> <<>>]]
  /\ examples = {} /\ mined = 0

-----------------------------------------------------------------------------
(* run() *)

Evaluable == {q \in Queries : q.video \notin gone}

(* load_queries() and the row of the experiment, in one transaction.  A    *)
(* setting that does not exist raises after the commit.                    *)
StartExperiment(x) ==
  /\ exps[x].status = "none"
  /\ exps' = [exps EXCEPT ![x].status = "running"]
  /\ \E ids \in Subsets, place \in {"asking", "ended"} :
       /\ ids \cap Evaluable # {}
       /\ runs' = [runs EXCEPT ![x] = [pc |-> place, left |-> ids \cap Evaluable, hits |-> <<>>]]
  /\ UNCHANGED <<built, gone, examples, mined>>

WithHits(hits, q, found) ==
  [p \in DOMAIN hits \cup {q} |-> IF p = q THEN found ELSE hits[p]]

(* One round of _evaluate(), restricted to the video of the query *)
Ask(x, q) ==
  /\ runs[x].pc = "asking" /\ q \in runs[x].left
  /\ \E n \in 0..HitLimit : \E found \in [1..n -> {seg \in Indexed : seg.video = q.video}] :
       /\ IsInjective(found)
       /\ runs' = [runs EXCEPT ![x] = [pc |-> "asking", left |-> @.left \ {q},
                                       hits |-> WithHits(@.hits, q, found)]]
  /\ UNCHANGED <<built, gone, exps, examples, mined>>

(* A search raises, or the process is interrupted ... *)
EvaluateRaises(x) ==
  /\ runs[x].pc = "asking"
  /\ exps' = [exps EXCEPT ![x].status = "failed"]
  /\ runs' = [runs EXCEPT ![x].pc = "ended"]
  /\ UNCHANGED <<built, gone, examples, mined>>

(* ... or killed *)
KillExperiment(x) ==
  /\ runs[x].pc = "asking"
  /\ runs' = [runs EXCEPT ![x].pc = "ended"]
  /\ UNCHANGED <<built, gone, exps, examples, mined>>

(* The results and the verdict are one commit *)
Record(x) ==
  /\ runs[x].pc = "asking" /\ runs[x].left = {}
  /\ exps' = [exps EXCEPT ![x] = [status |-> "done", results |-> runs[x].hits]]
  /\ runs' = [runs EXCEPT ![x].pc = "ended"]
  /\ UNCHANGED <<built, gone, examples, mined>>

-----------------------------------------------------------------------------
(* The index moves on *)

(* index_chunk() deletes the segments of its chunk and inserts new ones *)
Reindex(p) ==
  /\ PartOf[p] \notin gone /\ built[p].build < Builds
  /\ \E cuts \in Cuts[p] : built' = [built EXCEPT ![p] = [build |-> @.build + 1, cuts |-> cuts]]
  /\ UNCHANGED <<gone, exps, runs, examples, mined>>

(* delete_video(): the segments go, the clip of the queries has no video *)
RemoveVideo(v) ==
  /\ v \in {PartOf[p] : p \in Parts} \ gone
  /\ gone' = gone \cup {v}
  /\ built' = [p \in Parts |-> IF PartOf[p] = v THEN [built[p] EXCEPT !.cuts = {}] ELSE built[p]]
  /\ UNCHANGED <<exps, runs, examples, mined>>

-----------------------------------------------------------------------------
(* mine() *)

(* The best of the overlaps of a span with the true ranges *)
Overlap(span, relevant) ==
  CHOOSE x \in {iou(span, r) : r \in ToSet(relevant)} :
    \A r \in ToSet(relevant) : ~Above(iou(span, r), x)

(* _best_positive(): the segments that overlap best, in no order *)
Positives(q) ==
  LET near == {seg \in Indexed : seg.video = q.video /\ Overlap(seg, q.relevant).inter > 0}
  IN  {seg \in near : \A other \in near :
         ~Above(Overlap(other, q.relevant), Overlap(seg, q.relevant))}

(* Mutant: the answer itself is no exception *)
HardWithPositive(hit, pos, q) == ~Above(Overlap(hit, q.relevant), [inter |-> MaxIou, union |-> 100])

(* A hit that is wrong: not the positive, hardly any overlap *)
Hard(hit, pos, q) ==
  /\ hit # pos
  /\ ~Above(Overlap(hit, q.relevant), [inter |-> MaxIou, union |-> 100])

(* The rows of one query: the first such hits, unless their segment is gone *)
Rows(x, q, pos) ==
  LET hits  == exps[x].results[q]
      ranks == {i \in DOMAIN hits : Hard(hits[i], pos, q)}
      first == {i \in ranks : Cardinality(Upto(ranks, i)) <= PerQuery}
  IN  {[exp |-> x, query |-> q, pos |-> pos, neg |-> hits[i], rank |-> i] :
         i \in {j \in first : hits[j] \in Indexed}}

(* Mutant: what was mined before stays *)
Appended(x) == examples
Replaced(x) == {row \in examples : row.exp # x}

Mine(x) ==
  /\ exps[x].status # "none" /\ mined < Mines
  /\ LET labelled == {q \in DOMAIN exps[x].results : Positives(q) # {}}
     IN \E pos \in [labelled -> Indexed] :
          /\ \A q \in labelled : pos[q] \in Positives(q)
          /\ examples' = Replaced(x) \cup UNION {Rows(x, q, pos[q]) : q \in labelled}
  /\ mined' = mined + 1
  /\ UNCHANGED <<built, gone, exps, runs>>

-----------------------------------------------------------------------------
EvalNext ==
  \/ \E x \in Exps : \/ StartExperiment(x) \/ EvaluateRaises(x) \/ KillExperiment(x)
                     \/ Record(x) \/ Mine(x) \/ \E q \in Queries : Ask(x, q)
  \/ \E p \in Parts : Reindex(p)
  \/ \E v \in {PartOf[p] : p \in Parts} : RemoveVideo(v)

EvalSpec == EvalInit /\ [][EvalNext]_evalVars

-----------------------------------------------------------------------------
(* The scores of a ranking agree with each other, whatever the segments and *)
(* the true ranges look like: no range is counted twice, neither metric     *)
(* exceeds the ideal, hit@k says what mrr says, and average precision never *)
(* rises with the IoU it asks for, so that map lies between its ends        *)
(* (metrics.py matches greedily, so none of this is true by itself).        *)
ScoresConsistent ==
  \A x \in {y \in Exps : runs[y].pc = "asking"} : \A q \in DOMAIN runs[x].hits :
    LET hits  == runs[x].hits[q]
        true  == q.relevant
        ranks == relevance(hits, true)
        ap    == [thr \in Thresholds |-> average_precision_at_iou(hits, true, thr)]
        map   == mean_ap(hits, true)
        full  == Scale * Len(true)
    IN  /\ \A k \in {1, 5, 10} :
             /\ Cardinality(Upto(ranks, k)) = recall_at(ranks, Len(true), k)
             /\ dcg(ranks, k) <= ideal(Len(true), k)
             /\ hit_at(ranks, k) = (mrr(ranks) >= Scale \div k /\ ranks # {})
        /\ \A thr \in Thresholds :
             /\ ap[thr] <= full
             /\ thr > 50 => ap[thr] <= ap[thr - 5]
             /\ ap[thr] > 0 <=> recall_at_iou(hits, true, HitLimit, thr)
        /\ 10 * ap[95] <= map /\ map <= 10 * ap[50]

(* What is mined can be trained on: a negative is another segment than its  *)
(* positive and answers the query hardly at all, never better than the      *)
(* positive, though hits were recorded before and segments are looked up    *)
(* after the index changed.  One query of one experiment has one positive   *)
(* and at most PerQuery negatives however often it is mined, and only what  *)
(* was recorded completely is mined (eval/negatives.py).                    *)
NegativesAreWrong ==
  /\ \A row \in examples :
       /\ exps[row.exp].status = "done"
       /\ row.neg # row.pos
       /\ ~Above(Overlap(row.neg, row.query.relevant), [inter |-> MaxIou, union |-> 100])
       /\ ~Above(Overlap(row.neg, row.query.relevant), Overlap(row.pos, row.query.relevant))
  /\ \A x \in Exps, q \in Queries :
       LET rows == {row \in examples : row.exp = x /\ row.query = q}
       IN  /\ Cardinality(rows) <= PerQuery
           /\ \A r1, r2 \in rows : r1.pos = r2.pos /\ (r1.rank = r2.rank => r1 = r2)
=============================================================================
