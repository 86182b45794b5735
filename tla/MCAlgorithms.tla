----------------------------- MODULE MCAlgorithms -----------------------------
(***************************************************************************)
(* Instances of SegmentPlan, TimelinePlan and SearchRanking for TLC.  They  *)
(* share no state (the first two are what two handlers compute, the third   *)
(* is a request), so a behaviour is one of any of them: the others rest in  *)
(* a finished state.                                                        *)
(***************************************************************************)
EXTENDS SegmentPlan, TimelinePlan, SearchRanking

(* From no chunk at all to three, with every tail around MinTail *)
ScaledDurations == {0, 1, 2, 14, 15, 27}

(* Up to four segments; some with silence before or between them *)
Spoken(from, lens) ==
  [k \in DOMAIN lens |->
     [s |-> from + FoldLeft(+, 0, SubSeq(lens, 1, k - 1)),
      e |-> from + FoldLeft(+, 0, SubSeq(lens, 1, k))]]

Silence(t) == [k \in DOMAIN t |->
  IF 2 * k > Len(t) THEN [s |-> t[k].s + 3, e |-> t[k].e + 3] ELSE t[k]]

ScaledTimelines ==
  LET whole == {Spoken(2, lens) : lens \in UNION {[1..k -> {1, 2}] : k \in 1..4}}
  IN  whole \cup {Silence(t) : t \in {u \in whole : Len(u) > 2}}

(* Three segments of one video, each near the next, and one of another *)
FourSegments == {"a", "b", "c", "d"}
TwoVideos    == [g \in FourSegments |-> IF g = "d" THEN "v2" ELSE "v1"]
Spans        == [g \in FourSegments |->
                   CASE g = "a" -> <<0, 10>>  [] g = "b" -> <<20, 30>>
                     [] g = "c" -> <<40, 50>> [] g = "d" -> <<0, 10>>]
(* a was spoken, b shown on a screen, c both, with a caption; d says nothing *)
SomeTexts    == [g \in FourSegments |->
                   CASE g = "a" -> {"text"} [] g = "b" -> {"ocr"}
                     [] g = "c" -> {"text", "ocr", "caption"} [] g = "d" -> {}]
TenthsMix    == [rerank |-> 5, fused |-> 3, visual |-> 2]

Cand(names, scores) ==
  [k \in DOMAIN names |-> [seg |-> names[k], score |-> scores[k]]]

FewIndexes ==
  LET empty == [l \in Lane |-> <<>>]
      text  == {<<>>} \cup {Cand(<<x, y>>, <<8, 4>>) : x, y \in {"a", "b", "c"}}
                \cup {Cand(<<"c", x, "b">>, <<9, 8, 5>>) : x \in {"a", "d"}}
      look  == {<<>>, Cand(<<"c", "a">>, <<6, 2>>),
                Cand(<<"d", "c", "d", "b">>, <<9, 5, 4, 1>>)}
      clip  == {<<>>, Cand(<<"a", "a">>, <<3, 2>>),
                Cand([k \in 1..10 |-> IF k < 9 THEN "c" ELSE IF k = 9 THEN "d" ELSE "b"],
                     [k \in 1..10 |-> 12 - k])}
      twice(list) == \E i, j \in DOMAIN list : i # j /\ list[i].seg = list[j].seg
  IN  {[empty EXCEPT !["text"] = t, !["visual"] = v, !["temporal"] = w] :
         t \in {list \in text : ~twice(list)}, v \in look, w \in clip}

On(S) == [l \in Lane |-> IF l \in S THEN 12 ELSE 0]

Some(base, over, router, query, fusion, rerank, captions, videos) ==
  [base |-> On(base), over |-> over, router |-> router, query |-> query,
   fusion |-> fusion, rerank |-> rerank, captions |-> captions, videos |-> videos]

FewRequests ==
  LET fixed == [name |-> "fixed"]
      rule  == [name |-> "heuristic"]
      sure  == [name |-> "learned", probs |-> [l \in {"text", "visual"} |-> 6]]
      torn  == [name |-> "learned",
                probs |-> [l \in Lane |-> IF l = "visual" THEN 1 ELSE 12]]
      all   == {"text", "visual", "temporal"}
      crossed == [g \in FourSegments |-> [shown \in SUBSET Texts |->
                    IF g \in {"b", "d"} /\ "ocr" \in shown THEN 12
                    ELSE IF g = "d" \/ "caption" \in shown THEN 6 ELSE 0]]
      pinned  == [l \in {"temporal"} |-> 12]
  IN  {Some(b, o, rt, <<"other", "while", "caption">>, "weighted", <<>>, FALSE, {"v1", "v2"}) :
         b \in {{"text", "visual"}, {"text"}}, o \in {<<>>, pinned},
         rt \in {fixed, rule, sure, torn}}
      \cup {Some(all, <<>>, rule, c, f, rr, f = "rrf", v) :
              c \in {<<"slide", "speaker", "other">>, <<"scene", "quoted">>}, f \in {"weighted", "rrf"},
              rr \in {<<>>, crossed}, v \in {{}, {"v1"}}}

RestingSegments ==
  /\ duration = 1 /\ chunk = 0 /\ ends = {} /\ scenes = {} /\ stage = "embed"
  /\ segs = <<[s |-> 0, e |-> 1]>>

RestingTimeline ==
  /\ line = CHOOSE t \in Timelines : Len(t) = 1
  /\ titles = <<NoTitle>> /\ forced = {} /\ tried = {} /\ topicCuts = {}

RestingSearch ==
  /\ request = CHOOSE r \in Requests : r.rerank = <<>>
  /\ index = [l \in Lane |-> <<>>] /\ present = Segments
  /\ weights = Planned(request)
  /\ hits = Answer(request, weights, index, TextOf, present)

Init == \/ SegInit /\ RestingTimeline /\ RestingSearch
        \/ TopicInit /\ RestingSegments /\ RestingSearch
        \/ SearchInit /\ RestingSegments /\ RestingTimeline

Next == \/ SegNext /\ UNCHANGED <<topicVars, searchVars>>
        \/ TopicNext /\ UNCHANGED <<segVars, searchVars>>
        \/ SearchNext /\ UNCHANGED <<segVars, topicVars>>

Spec == Init /\ [][Next]_<<segVars, topicVars, searchVars>>

(* The variables of the two planners have their types. *)
PlansTypeOK == SegTypeOK /\ TopicTypeOK
=============================================================================
