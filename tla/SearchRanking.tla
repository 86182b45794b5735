---------------------------- MODULE SearchRanking ----------------------------
(***************************************************************************)
(* One search (search/service.py) from the weights of the router to the     *)
(* hits: planner.py and routing.py choose a weight per lane, the lanes that *)
(* are on return candidates, fusion.py adds them up, service.py reranks the *)
(* head, and dedup.py thins it out.                                         *)
(*                                                                          *)
(* Data abstractions: a query is the sequence of the phrases that match a   *)
(* pattern of the planner; scores and weights are integers, multiples of    *)
(* 1/Unit, exact for the instances (Unit is a multiple of every divisor     *)
(* that occurs); a factor of the routers is in tenths.                      *)
(***************************************************************************)
EXTENDS Integers, SequencesExt, Rankings

CONSTANTS
  Segments,      \* the segments an index may hold
  VideoOf, Span, \* their video; start_s and end_s, a pair
  TextOf,        \* which of their texts are not empty
  Unit,          \* 1.0
  RrfK,          \* rrf_k
  Mix,           \* final_mix, in tenths
  TopK, RerankTopK, Limit, DedupWindow, MaxPerVideo,  \* TopK is candidates
  MinP,          \* min_p of a learned router
  Indexes,       \* what the lanes may find: lane -> rows with the segment
                 \* they belong to and their score, best first
  Requests       \* searches: query, options and configuration

(* The order in which fuse() meets the lanes; Visual is visual_like. *)
Lanes  == <<"text", "visual", "lexical", "ocr", "caption", "temporal">>
Lane   == ToSet(Lanes)
Visual == {"visual", "caption", "temporal"}

(* The texts of a segment that can reach the reranker: seg.text, ocr_text   *)
(* and caption_text, each named for the lane that searches it.              *)
Texts == {"text", "ocr", "caption"}

(* What the patterns match: someone speaks; the words that split a query in  *)
(* what is said and what is shown; a thing to see; a thing to read; both; a  *)
(* quotation; anything else.                                                *)
Phrases == {"speaker", "while", "scene", "caption", "slide", "quoted", "other"}

ASSUME UnitType == Unit \in Nat \ {0} /\ RrfK \in Nat /\ MinP \in 0..Unit
ASSUME LimitsType == /\ TopK \in Nat \ {0} /\ RerankTopK \in Nat /\ Limit \in Nat \ {0}
                     /\ DedupWindow \in Nat /\ MaxPerVideo \in Nat
ASSUME SpanType == Span \in [Segments -> Nat \X Nat]
ASSUME TextsType == TextOf \in [Segments -> SUBSET Texts]
ASSUME MixType == Mix.fused \in Nat /\ Mix.visual \in Nat /\ Mix.rerank \in Nat

(* Cosines may be negative; the queries return the best first. *)
ASSUME IndexesType ==
  \A ix \in Indexes :
    /\ ix = [l \in Lane |-> ix[l]]
    /\ \A l \in Lane :
         /\ ix[l] \in Seq([seg : Segments, score : Int])
         /\ \A j, k \in 1..Len(ix[l]) : j < k => ix[l][j].score >= ix[l][k].score

(* base and over are the weights of the configuration and those the request *)
(* pins; router names the router and holds the probabilities of a learned   *)
(* one; rerank holds the sigmoid of each segment for each passage it could  *)
(* be judged by, <<>> when it is off; captions is caption_in_rerank_passage. *)
ASSUME RequestsType ==
  \A r \in Requests :
    /\ r.query \in Seq(Phrases)
    /\ r.base \in [Lane -> Nat]
    /\ DOMAIN r.over \subseteq Lane /\ \A l \in DOMAIN r.over : r.over[l] \in Int
    /\ r.fusion \in {"weighted", "rrf"}
    /\ r.router.name \in {"fixed", "heuristic", "learned"}
    /\ r.router.name = "learned" =>
         /\ DOMAIN r.router.probs \subseteq Lane
         /\ \A l \in DOMAIN r.router.probs : r.router.probs[l] \in 0..Unit
    /\ r.rerank = <<>> \/ r.rerank \in [Segments -> [SUBSET Texts -> 0..Unit]]
    /\ r.captions \in BOOLEAN
    /\ r.videos \subseteq {VideoOf[seg] : seg \in Segments}

VARIABLES
  request,  \* the query, the options and the configuration of one search
  index,    \* what each lane would find
  present,  \* segments still there when the candidates are loaded
  weights,  \* the plan: a weight per lane, or NoPlan before
  hits      \* the answer: a sequence of hits, or NoPlan before

searchVars == <<request, index, present, weights, hits>>

NoPlan == [none |-> TRUE]

-----------------------------------------------------------------------------
(* parse(): the cues of a query.  The part before the split is searched for *)
(* a speaker, and what they talk about is all that is left of an undivided  *)
(* query when it comes to what can be seen.                                 *)
Before(q, phrase) == SubSeq(q, 1, SelectInSeq(q, LAMBDA p : p = phrase) - 1)
Behind(q, phrase) == SubSeq(q, SelectInSeq(q, LAMBDA p : p = phrase) + 1, Len(q))

parse(q) ==
  LET split  == Contains(q, "while")
      said   == IF split THEN Before(q, "while") ELSE q
      spoken == Contains(said, "speaker")
      about  == IF spoken /\ Behind(said, "speaker") # <<>> THEN Behind(said, "speaker") ELSE said
      shown  == CASE split -> Behind(q, "while") [] ~split /\ spoken -> about [] OTHER -> q
      cue(name, found) == IF found THEN {name} ELSE {}
  IN  UNION {cue("split", split),
             cue("speech", spoken),
             cue("visual", ToSet(shown) \cap {"scene", "slide"} # {}),
             cue("ocr", ToSet(q) \cap {"caption", "slide"} # {}),
             cue("exact", Contains(q, "quoted"))}

(* HeuristicRouter.route, in tenths: the factors of the cues that apply.   *)
Factor(lane, cues) ==
  LET times(f, g) == (f * g) \div 10
      split  == "split" \in cues
      seen   == "visual" \in cues /\ "speech" \notin cues
      spoken == "speech" \in cues /\ "visual" \notin cues
      look   == CASE split /\ lane \in Visual -> 14
                  [] split /\ lane = "ocr"    -> 13
                  [] ~split /\ seen /\ lane \in Visual -> 15
                  [] OTHER -> 10
      speech == CASE spoken /\ lane = "text"     -> 12
                  [] spoken /\ lane = "lexical"  -> 11
                  [] spoken /\ lane \in Visual   -> 6
                  [] OTHER -> 10
      screen == IF lane = "ocr" /\ "ocr" \in cues THEN 16 ELSE 10
      exact  == CASE "exact" \in cues /\ lane = "lexical" -> 15
                  [] "exact" \in cues /\ lane = "ocr"     -> 13
                  [] OTHER -> 10
  IN  times(times(look, speech), times(screen, exact))

(* LearnedRouter.route; probs covers the lanes the model was trained with. *)
Learned(base, probs) ==
  LET top == Max({probs[l] : l \in DOMAIN probs} \cup {0})
  IN  [l \in Lane |->
         IF base[l] <= 0 \/ l \notin DOMAIN probs THEN base[l]
         ELSE IF probs[l] < MinP THEN 0
         ELSE (base[l] * probs[l]) \div (IF top = 0 THEN Unit ELSE top)]

Routed(r) ==
  CASE r.router.name = "fixed"     -> r.base
    [] r.router.name = "heuristic" ->
         [l \in Lane |-> (r.base[l] * Factor(l, parse(r.query))) \div 10]
    [] r.router.name = "learned"   -> Learned(r.base, r.router.probs)

(* plan(): the overrides of the request win *)
Planned(r) ==
  [l \in Lane |-> IF l \in DOMAIN r.over THEN r.over[l] ELSE Routed(r)[l]]

-----------------------------------------------------------------------------
Found(list) == {list[k].seg : k \in DOMAIN list}
FirstRows(rows, n) == SubSeq(rows, 1, Min({n, Len(rows)}))

(* The candidates of a lane among the videos asked for.  The rows of two    *)
(* lanes are frames and windows, three times as many, of which the best     *)
(* counts for its segment.                                                  *)
Pooled(rows) ==
  FoldLeft(LAMBDA best, row : IF row.seg \in Found(best) THEN best ELSE Append(best, row),
           <<>>, rows)

Candidates(l, r, rows) ==
  LET places == Ranked({k \in DOMAIN rows : r.videos = {} \/ VideoOf[rows[k].seg] \in r.videos}, <)
      wanted == [k \in DOMAIN places |-> rows[places[k]]]
  IN  IF l \in {"visual", "temporal"} THEN FirstRows(Pooled(FirstRows(wanted, 3 * TopK)), TopK)
                                      ELSE FirstRows(wanted, TopK)

(* Mutant: every lane runs, whatever its weight *)
AllLanes(r, ix, w) == [l \in Lane |-> Candidates(l, r, ix[l])]

(* search(): a lane with weight 0 is skipped *)
Lists(r, ix, w) == [l \in Lane |-> IF w[l] > 0 THEN Candidates(l, r, ix[l]) ELSE <<>>]

RankIn(list, seg) == CHOOSE k \in DOMAIN list : list[k].seg = seg
Raw(list, seg) == list[RankIn(list, seg)].score

(* Mutant: worst candidates first *)
MinMaxUpsideDown(list, seg, among) ==
  LET S == {Raw(list, o) : o \in among}
  IN  IF Max(S) = Min(S) THEN Unit
      ELSE ((Max(S) - Raw(list, seg)) * Unit) \div (Max(S) - Min(S))

(* Min-max over the segments `among`; equal scores all count as 1.0 *)
MinMax(list, seg, among) ==
  LET S == {Raw(list, o) : o \in among}
  IN  IF Max(S) = Min(S) THEN Unit
      ELSE ((Raw(list, seg) - Min(S)) * Unit) \div (Max(S) - Min(S))

(* fuse(): the contribution of one lane, and the sum *)
Share(method, w, list, seg) ==
  IF seg \notin Found(list) THEN 0
  ELSE IF method = "weighted" THEN w * MinMax(list, seg, Found(list))
  ELSE (w * Unit) \div (RrfK + RankIn(list, seg))

Fused(method, w, lists) ==
  LET all == UNION {Found(lists[l]) : l \in Lane}
  IN  [seg \in all |->
         FoldLeft(LAMBDA sum, l : sum + Share(method, w[l], lists[l], seg), 0, Lanes)]

RankOf(seq, seg) == CHOOSE k \in DOMAIN seq : seq[k] = seg

(* The order in which fuse() meets the segments *)
FirstLane(lists, seg) == Min({n \in DOMAIN Lanes : seg \in Found(lists[Lanes[n]])})

MetBefore(lists, a, b) ==
  LET n == FirstLane(lists, a)
      m == FirstLane(lists, b)
  IN  n < m \/ (n = m /\ RankIn(lists[Lanes[n]], a) < RankIn(lists[Lanes[n]], b))

(* sorted() is stable: ties stay in the order in which the segments were met *)
ByFused(lists, fused, a, b) ==
  fused[a] > fused[b] \/ (fused[a] = fused[b] /\ MetBefore(lists, a, b))

ByScore(head, scores, a, b) ==
  scores[a] > scores[b] \/ (scores[a] = scores[b] /\ RankOf(head, a) < RankOf(head, b))

-----------------------------------------------------------------------------
(* _passage(): the reranker is shown the texts of a segment, those of the    *)
(* screen whatever the weight of their lane, captions if it is configured   *)
Passage(r, texts, seg) ==
  texts[seg] \cap ({"text", "ocr"} \cup IF r.captions THEN {"caption"} ELSE {})

Rated(r, texts) ==
  IF r.rerank = <<>> THEN <<>>
  ELSE [seg \in Segments |-> r.rerank[seg][Passage(r, texts, seg)]]

(* _final_scores over the head, times the common divisor max_f * Unit * 100 *)
TopOf(S) == IF S = {} \/ Max(S) = 0 THEN Unit ELSE Max(S)

FinalScores(rated, w, lists, fused, head, there) ==
  LET inHead == ToSet(head)
      maxF   == TopOf({fused[seg] : seg \in inHead})
      wVis   == Min({Unit, Max({0, w["visual"], w["temporal"]})})
      seenIn(l) == inHead \cap Found(lists[l])
      vnorm(seg) == Max({0} \cup {MinMax(lists[l], seg, seenIn(l)) :
                          l \in {m \in {"visual", "temporal"} :
                                   w[m] > 0 /\ seg \in Found(lists[m])}})
      base(seg) == Mix.fused * fused[seg] * Unit * Unit
                     + Mix.visual * wVis * vnorm(seg) * maxF
      reranked == {head[k] : k \in 1..Min({RerankTopK, Len(head)})} \cap there
  IN  [seg \in inHead |->
         IF rated = <<>> THEN base(seg) * 10
         ELSE IF seg \in reranked
           THEN 10 * (Mix.rerank * rated[seg] * Unit * maxF + base(seg))
           ELSE 9 * base(seg)]

(* suppress(): greedy, best first *)
Near(a, b) ==
  /\ VideoOf[a] = VideoOf[b]
  /\ Span[a][1] < Span[b][2] + DedupWindow
  /\ Span[a][2] > Span[b][1] - DedupWindow

Cap(r) == IF Cardinality(r.videos) = 1 THEN 0 ELSE MaxPerVideo

OfVideo(kept, v) == Cardinality({k \in DOMAIN kept : VideoOf[kept[k]] = v})

(* Mutant: a hit is compared with the last one kept only *)
SuppressLast(cap, kept, seg) ==
  IF \/ kept # <<>> /\ Near(seg, kept[Len(kept)])
     \/ cap > 0 /\ OfVideo(kept, VideoOf[seg]) >= cap
    THEN kept ELSE Append(kept, seg)

Suppress(cap, kept, seg) ==
  IF \/ \E k \in DOMAIN kept : Near(seg, kept[k])
     \/ cap > 0 /\ OfVideo(kept, VideoOf[seg]) >= cap
    THEN kept ELSE Append(kept, seg)

ThinOut(cap) ==
  [order \in Seq(Segments) |->
     FoldLeft(LAMBDA kept, seg : Suppress(cap, kept, seg), <<>>, order)]

(* search(), from the candidates of the lanes to the hits.  The head is     *)
(* what is loaded: enough for the reranker and four times the hits asked    *)
(* for.                                                                     *)
HitsFrom(r, w, lists, rated, there) ==
  LET fused  == Fused(r.fusion, w, lists)
      ranked == Ranked(DOMAIN fused, LAMBDA a, b : ByFused(lists, fused, a, b))
      head   == SubSeq(ranked, 1, Min({Len(ranked), Max({RerankTopK, 4 * Limit})}))
      scores == FinalScores(rated, w, lists, fused, head, there)
      order  == Ranked(DOMAIN scores \cap there, LAMBDA a, b : ByScore(head, scores, a, b))
      kept   == ThinOut(Cap(r))[order]
  IN  [hits |-> SubSeq(kept, 1, Min({Limit, Len(kept)})), order |-> order]

Answer(r, w, ix, texts, there) == HitsFrom(r, w, Lists(r, ix, w), Rated(r, texts), there)

SearchInit ==
  /\ request \in Requests
  /\ index \in Indexes
  /\ present = Segments
  /\ weights = NoPlan
  /\ hits = NoPlan

Plan ==
  /\ weights = NoPlan
  /\ weights' = Planned(request)
  /\ UNCHANGED <<request, index, present, hits>>

(* The lanes read, each in a session of its own, and then the head is       *)
(* loaded; a chunk that is indexed again or a video that is deleted in      *)
(* between takes segments away.                                             *)
Vanish(seg) ==
  /\ hits = NoPlan /\ weights # NoPlan /\ present = Segments
  /\ \E l \in Lane : seg \in Found(index[l])
  /\ present' = present \ {seg}
  /\ UNCHANGED <<request, index, weights, hits>>

Rank ==
  /\ weights # NoPlan /\ hits = NoPlan
  /\ hits' = Answer(request, weights, index, TextOf, present)
  /\ UNCHANGED <<request, index, present, weights>>

SearchNext == Plan \/ Rank \/ \E seg \in Segments : Vanish(seg)

SearchSpec == SearchInit /\ [][SearchNext]_searchVars

-----------------------------------------------------------------------------
(* The answer of a library in which there is nothing for lane l to find, and *)
(* the part of a segment's passage that is l's.                             *)
AnswerWithout(l) ==
  Answer(request, weights, [index EXCEPT ![l] = <<>>],
         [seg \in Segments |-> TextOf[seg] \ {l}], present)

ShownToReranker(l, seg) == request.rerank # <<>> /\ l \in Passage(request, TextOf, seg)

Outranks(seq, a, b) == RankOf(seq, a) < RankOf(seq, b)

(* A lane the configuration turned off and the request did not turn on stays *)
(* off whatever router is used.  A lane that is off (an ablation) neither    *)
(* adds a candidate nor takes one away, and two segments change places for   *)
(* what only it knows of them in one way: that it is in the passage by which *)
(* one of them was reranked.  Without a reranker the answer is the same.     *)
OffLaneOnlyReread ==
  hits # NoPlan =>
    \A l \in Lane :
      /\ request.base[l] = 0 /\ l \notin DOMAIN request.over => weights[l] = 0
      /\ weights[l] <= 0 =>
           LET bare == AnswerWithout(l)
           IN  /\ ToSet(bare.order) = ToSet(hits.order)
               /\ \A a, b \in ToSet(hits.order) :
                    ~ShownToReranker(l, a) /\ ~ShownToReranker(l, b)
                      => (Outranks(bare.order, a, b) <=> Outranks(hits.order, a, b))
               /\ request.rerank = <<>> => bare = hits

(* What search() says: a lane with weight 0 is skipped entirely, with no     *)
(* signal leaking into the reranker.                                         *)
NoSignalLeaks ==
  hits # NoPlan => \A l \in Lane : weights[l] = 0 => hits = AnswerWithout(l)

(* a is found by every lane that finds b, and before b. *)
Dominates(a, b) ==
  LET lists == Lists(request, index, weights)
  IN  /\ \A l \in Lane : b \in Found(lists[l]) =>
           a \in Found(lists[l]) /\ RankIn(lists[l], a) < RankIn(lists[l], b)
      /\ \E l \in Lane : b \in Found(lists[l])

(* A segment that every lane ranks behind another, and the reranker too, is  *)
(* never shown before it: normalising per lane, mixing raw and reranked      *)
(* scores of a head cut at rerank_top_k, and the discount of the rest keep   *)
(* the order the lanes agree on.                                             *)
AgreementKept ==
  hits # NoPlan =>
    LET at(seg) == RankOf(hits.order, seg)
    IN  \A a, b \in ToSet(hits.order) :
          /\ Dominates(a, b)
          /\ request.rerank # <<>> => Rated(request, TextOf)[a] >= Rated(request, TextOf)[b]
          => at(a) < at(b)

(* Every loaded candidate is accounted for: it is shown, or the page is full *)
(* of better ones, or a better one that is shown lies within the window of   *)
(* its video, or its video has its share of better ones.  No two hits are    *)
(* that close.                                                               *)
HitsExplained ==
  hits # NoPlan =>
    LET shown == hits.hits
        better(seg) == {h \in ToSet(shown) :
                          RankOf(hits.order, h) < RankOf(hits.order, seg)}
    IN  /\ \A i, j \in DOMAIN shown : i # j => ~Near(shown[i], shown[j])
        /\ \A seg \in ToSet(hits.order) \ ToSet(shown) :
             \/ Cardinality(better(seg)) = Limit
             \/ \E h \in better(seg) : Near(seg, h)
             \/ /\ Cap(request) > 0
                /\ Cardinality({h \in better(seg) : VideoOf[h] = VideoOf[seg]})
                     = Cap(request)
=============================================================================
