--------------------------- MODULE AlgorithmProofs --------------------------
(***************************************************************************)
(* Theorems about the pure algorithms, for all parameters and all inputs.  *)
(* SegmentPlan: the chunks tile the video, the segments their chunk, every *)
(* word and every frame is shown where it belongs, and the temporal        *)
(* windows cover the chunk.  TimelinePlan: no topic is too short.          *)
(* SearchRanking: a lane that is off has no influence, what all lanes      *)
(* agree on is kept, and every hit that is left out lost to better ones.   *)
(***************************************************************************)
EXTENDS SegmentPlan, TimelinePlan, SearchRanking, FiniteOrders, SequenceTheorems

-----------------------------------------------------------------------------
(* Chunks and segments *)

(* _boundaries() prefers a boundary that is there. *)
LEMMA NearestIsOne ==
  ASSUME NEW S \in SUBSET Nat, S # {}, NEW t \in Nat
  PROVE  Nearest(S, t) \in S
<1> DEFINE D == {Distance(x, t) : x \in S}
<1>1. D \in SUBSET Nat /\ D # {}
  <2>1. \A x \in S : x \in Nat /\ Distance(x, t) \in Nat
    BY DEF Distance
  <2>2. D # {}
    OBVIOUS
  <2> QED BY <2>1, <2>2
<1>2. PICK d \in D : \A e \in D : d <= e
  <2> HIDE DEF D
  <2> QED BY <1>1, LeastElement
<1> DEFINE E == {x \in S : Distance(x, t) = d}
<1>3. E \in SUBSET Nat /\ E # {}
  BY <1>2
<1>4. PICK b \in E : \A o \in E : b <= o
  <2> HIDE DEF E
  <2> QED BY <1>3, LeastElement
<1>5. ASSUME NEW o \in S
      PROVE  \/ Distance(b, t) < Distance(o, t)
             \/ Distance(b, t) = Distance(o, t) /\ b <= o
  <2>1. Distance(o, t) \in D /\ Distance(b, t) = d
    BY <1>4
  <2>2. d <= Distance(o, t) /\ d \in Nat /\ Distance(o, t) \in Nat
    BY <2>1, <1>1, <1>2
  <2>3. Distance(o, t) = d => b <= o
    BY <1>4
  <2> HIDE DEF D, E
  <2> QED BY <2>1, <2>2, <2>3
<1> HIDE DEF D, E
<1>6. b \in S
  BY <1>4 DEF E
<1> QED BY <1>5, <1>6 DEF Nearest

-----------------------------------------------------------------------------
(* How many whole chunks fit. *)
LEMMA WholeChunks ==
  ASSUME NEW d \in Nat
  PROVE  LET q == d \div ChunkS
         IN  q \in Nat /\ q * ChunkS <= d /\ d < q * ChunkS + ChunkS
  BY ChunkBounds

(* The parts of plan_chunks: n chunks, of which all but the last are whole. *)
LEMMA ChunksOf ==
  ASSUME NEW d \in Nat, d > 0
  PROVE  /\ ChunkCount(d) \in Nat \ {0}
         /\ (ChunkCount(d) - 1) * ChunkS < d
         /\ d - (ChunkCount(d) - 1) * ChunkS < ChunkS + MinTail
         /\ d - (ChunkCount(d) - 1) * ChunkS < MinTail => ChunkCount(d) = 1
<1> DEFINE q == d \div ChunkS
           n == IF q > 1 THEN q ELSE 1
<1>1. q \in Nat /\ q * ChunkS <= d /\ d < q * ChunkS + ChunkS
  BY WholeChunks
<1>2. /\ n \in Nat \ {0} /\ q <= n /\ (n = q \/ (n = 1 /\ q = 0))
      /\ n * ChunkS \in Nat /\ q * ChunkS \in Nat
  BY <1>1, ChunkBounds
<1>3. (n - 1) * ChunkS = n * ChunkS - ChunkS
  BY <1>2, ChunkBounds
<1>4. n = 1 => n * ChunkS = ChunkS
  BY ChunkBounds
<1>5. q = 0 => q * ChunkS = 0
  BY ChunkBounds
<1>6. ChunkCount(d) = IF d - n * ChunkS >= MinTail THEN n + 1 ELSE n
  BY DEF ChunkCount
<1> HIDE DEF q, n
<1>7. CASE d - n * ChunkS >= MinTail
  <2>0. ChunkCount(d) = n + 1
    BY <1>6, <1>7
  <2>9. ChunkCount(d) - 1 = n
    BY <1>2, <2>0
  <2>1. ChunkCount(d) = n + 1 /\ (ChunkCount(d) - 1) * ChunkS = n * ChunkS
    BY <2>0, <2>9
  <2>2. n = q
    BY <1>1, <1>2, <1>4, <1>5, <1>7, ChunkBounds
  <2> QED BY <2>1, <2>2, <1>1, <1>2, <1>7, ChunkBounds
<1>8. CASE ~(d - n * ChunkS >= MinTail)
  <2>0. ChunkCount(d) = n
    BY <1>6, <1>8
  <2>1. ChunkCount(d) = n /\ (ChunkCount(d) - 1) * ChunkS = n * ChunkS - ChunkS
    BY <1>3, <2>0
  <2>2. CASE n = q
    BY <2>1, <2>2, <1>1, <1>2, <1>8, ChunkBounds
  <2>3. CASE n = 1
    BY <2>1, <2>3, <1>1, <1>2, <1>4, <1>8, ChunkBounds
  <2> QED BY <2>2, <2>3, <1>2
<1> QED BY <1>7, <1>8

(* A chunk begins where the one before ends, and has some length. *)
LEMMA ChunksOfDuration ==
  ASSUME NEW d \in Nat, d > 0, NEW i \in 0..(ChunkCount(d) - 1)
  PROVE  /\ ChunkStart(d, i) \in Nat /\ ChunkEnd(d, i) \in Nat
         /\ LET len == ChunkEnd(d, i) - ChunkStart(d, i)
            IN  /\ len > 0 /\ len < ChunkS + MinTail
                /\ len < MinTail => ChunkCount(d) = 1
         /\ i > 0 => ChunkStart(d, i) = ChunkEnd(d, i - 1)
<1>1. /\ ChunkCount(d) \in Nat \ {0}
      /\ (ChunkCount(d) - 1) * ChunkS < d
      /\ d - (ChunkCount(d) - 1) * ChunkS < ChunkS + MinTail
      /\ d - (ChunkCount(d) - 1) * ChunkS < MinTail => ChunkCount(d) = 1
  BY ChunksOf
<1>2. i * ChunkS \in Nat /\ (i + 1) * ChunkS = i * ChunkS + ChunkS
  BY <1>1, ChunkBounds
<1>3. i > 0 => i - 1 # ChunkCount(d) - 1 /\ (i - 1 + 1) * ChunkS = i * ChunkS
  BY <1>1
<1>4. CASE i = ChunkCount(d) - 1
  BY <1>1, <1>2, <1>3, <1>4, ChunkBounds DEF ChunkStart, ChunkEnd
<1>5. CASE i # ChunkCount(d) - 1
  BY <1>1, <1>2, <1>3, <1>5, ChunkBounds DEF ChunkStart, ChunkEnd
<1> QED BY <1>4, <1>5

-----------------------------------------------------------------------------
(* A probed video with a chunk has a length. *)
LEMMA ChunkOfVideo ==
  ASSUME duration \in Nat, chunk \in 0..(ChunkCount(duration) - 1)
  PROVE  /\ duration > 0 /\ start \in Nat /\ stop \in Nat /\ start < stop
<1>1. duration > 0
  BY DEF ChunkCount
<1> QED BY <1>1, ChunksOfDuration DEF start, stop

(* The ends of utterances that a chunk may have. *)
LEMMA AtMostIsSubset ==
  ASSUME NEW k, NEW S, NEW T \in AtMost(k, S)
  PROVE  T \subseteq S
<1>1. CASE T = {}
  BY <1>1
<1>2. CASE T \in {{f[i] : i \in 1..k} : f \in [1..k -> S]}
  <2>1. PICK f \in [1..k -> S] : T = {f[i] : i \in 1..k}
    BY <1>2
  <2> QED BY <2>1
<1> QED BY <1>1, <1>2 DEF AtMost

(* The invariant that plan_segments() needs to reach the end of its chunk: *)
(* what is left of the chunk is nothing, or enough for one more segment.   *)
PlanInv ==
  /\ SegTypeOK
  /\ chunk \in 0..(ChunkCount(duration) - 1)
  /\ SegmentsTile
  /\ cur <= stop
  /\ segs # <<>> => cur = stop \/ stop - cur >= MinS

(* Where the next segment ends. *)
LEMMA NextEndFits ==
  ASSUME NEW c \in Nat, c < stop - Slack, ends \in SUBSET Nat, stop \in Nat
  PROVE  /\ NextEnd(c) \in Nat /\ c < NextEnd(c) /\ NextEnd(c) <= stop
         /\ NextEnd(c) - c < MaxS + MinS
         /\ \/ NextEnd(c) = stop
            \/ NextEnd(c) - c >= MinS /\ stop - NextEnd(c) >= MinS
<1> DEFINE wish == IF InRange(c) # {} THEN Nearest(InRange(c), c + TargetS)
                                      ELSE c + TargetS
           e    == IF wish > stop THEN stop ELSE wish
<1>1. wish \in Nat /\ c + MinS <= wish /\ wish <= c + MaxS
  <2>1. CASE InRange(c) # {}
    <3>1. InRange(c) \in SUBSET Nat
      BY DEF InRange
    <3>2. c + TargetS \in Nat
      BY SegmentBounds
    <3>3. Nearest(InRange(c), c + TargetS) \in InRange(c)
      BY <2>1, <3>1, <3>2, NearestIsOne
    <3>4. wish \in InRange(c)
      BY <2>1, <3>3
    <3> QED BY <3>1, <3>4 DEF InRange
  <2>2. CASE InRange(c) = {}
    BY <2>2, SegmentBounds
  <2> QED BY <2>1, <2>2
<1>2. NextEnd(c) = IF stop - e < MinS THEN stop ELSE e
  BY DEF NextEnd
<1> HIDE DEF wish
<1> QED BY <1>1, <1>2, SegmentBounds

(* What appending a segment does to the list. *)
LEMMA AppendSegment ==
  ASSUME NEW old \in Seq([s : Nat, e : Nat]), NEW b \in Nat, NEW x \in Nat
  PROVE  LET new == Append(old, [s |-> b, e |-> x])
         IN  /\ new \in Seq([s : Nat, e : Nat]) /\ new # <<>>
             /\ Len(new) = Len(old) + 1
             /\ \A k \in 1..Len(old) : new[k] = old[k]
             /\ new[Len(old) + 1].s = b /\ new[Len(old) + 1].e = x
<1> DEFINE R == [s : Nat, e : Nat]
<1>1. [s |-> b, e |-> x] \in R
  OBVIOUS
<1>2. old \in Seq(R)
  OBVIOUS
<1> HIDE DEF R
<1>3. LET new == Append(old, [s |-> b, e |-> x])
      IN  /\ new \in Seq(R) /\ new # <<>>
          /\ Len(new) = Len(old) + 1
          /\ \A k \in 1..Len(old) : new[k] = old[k]
          /\ new[Len(old) + 1] = [s |-> b, e |-> x]
  BY <1>1, <1>2, AppendProperties
<1> QED BY <1>3 DEF R

(* The segments of a plan are numbers. *)
LEMMA SegmentsAreNumbers ==
  ASSUME SegTypeOK
  PROVE  /\ Len(segs) \in Nat /\ (segs # <<>> => Len(segs) \in 1..Len(segs))
         /\ \A k \in 1..Len(segs) : segs[k].s \in Nat /\ segs[k].e \in Nat
         /\ DOMAIN segs = 1..Len(segs)
<1> DEFINE R == [s : Nat, e : Nat]
<1>1. segs \in Seq(R)
  BY DEF SegTypeOK
<1> HIDE DEF R
<1>2. /\ Len(segs) \in Nat /\ DOMAIN segs = 1..Len(segs)
      /\ segs # <<>> => Len(segs) \in 1..Len(segs)
  BY <1>1
<1>3. ASSUME NEW k \in 1..Len(segs) PROVE segs[k] \in R
  BY <1>1, ElementOfSeq
<1> QED BY <1>2, <1>3 DEF R

(* cur is where the last segment ends. *)
LEMMA CurIsReached ==
  ASSUME SegTypeOK, chunk \in 0..(ChunkCount(duration) - 1), cur <= stop
  PROVE  cur \in Nat
<1>1. start \in Nat
  BY ChunkOfVideo DEF SegTypeOK
<1> QED BY <1>1, SegmentsAreNumbers DEF cur

LEMMA PlanInvStarts == SegInit => PlanInv
<1> SUFFICES ASSUME SegInit PROVE PlanInv
  OBVIOUS
<1>1. /\ duration \in Nat /\ chunk \in 0..(ChunkCount(duration) - 1)
      /\ ends = {} /\ segs = <<>> /\ stage = "transcribe"
  BY DurationsType DEF SegInit
<1>2. ChunkCount(duration) \in Nat
  <2>1. CASE duration > 0
    BY <1>1, <2>1, ChunksOf
  <2>2. CASE ~(duration > 0)
    BY <1>1, <2>2 DEF ChunkCount
  <2> QED BY <2>1, <2>2
<1>3. SegTypeOK
  BY <1>1, <1>2 DEF SegTypeOK
<1>4. start \in Nat /\ stop \in Nat /\ start < stop
  BY <1>1, ChunkOfVideo
<1>5. SegmentsTile
  BY <1>1 DEF SegmentsTile
<1> QED BY <1>1, <1>3, <1>4, <1>5 DEF PlanInv, cur

(* One iteration of the loop. *)
LEMMA CutKeepsPlan ==
  ASSUME PlanInv, CutSegment
  PROVE  PlanInv'
<1>1. /\ start \in Nat /\ stop \in Nat /\ start < stop /\ cur \in Nat
      /\ start' = start /\ stop' = stop /\ ends \in SUBSET Nat
      /\ stage = "segment" /\ stage' = "segment"
  BY ChunkOfVideo, CurIsReached DEF PlanInv, SegTypeOK, CutSegment, start, stop
<1>2. /\ NextEnd(cur) \in Nat /\ cur < NextEnd(cur) /\ NextEnd(cur) <= stop
      /\ NextEnd(cur) - cur < MaxS + MinS
      /\ \/ NextEnd(cur) = stop
         \/ NextEnd(cur) - cur >= MinS /\ stop - NextEnd(cur) >= MinS
  BY <1>1, NextEndFits DEF CutSegment
<1>3. /\ segs' \in Seq([s : Nat, e : Nat]) /\ segs' # <<>>
      /\ Len(segs') = Len(segs) + 1
      /\ \A k \in 1..Len(segs) : segs'[k] = segs[k]
      /\ segs'[Len(segs) + 1].s = cur /\ segs'[Len(segs) + 1].e = NextEnd(cur)
  <2>1. segs' = Append(segs, [s |-> cur, e |-> NextEnd(cur)])
    BY DEF CutSegment
  <2>2. segs \in Seq([s : Nat, e : Nat])
    BY DEF PlanInv, SegTypeOK
  <2>3. LET new == Append(segs, [s |-> cur, e |-> NextEnd(cur)])
        IN  /\ new \in Seq([s : Nat, e : Nat]) /\ new # <<>>
            /\ Len(new) = Len(segs) + 1
            /\ \A k \in 1..Len(segs) : new[k] = segs[k]
            /\ new[Len(segs) + 1].s = cur /\ new[Len(segs) + 1].e = NextEnd(cur)
    BY <1>1, <1>2, <2>2, AppendSegment
  <2> QED BY <2>1, <2>3
<1>4. SegTypeOK' /\ (chunk \in 0..(ChunkCount(duration) - 1))'
  BY <1>1, <1>3 DEF CutSegment, PlanInv, SegTypeOK
<1>5. cur' = NextEnd(cur)
  BY <1>3 DEF cur
<1>6. /\ Len(segs) \in Nat /\ (segs # <<>> => Len(segs) \in 1..Len(segs))
      /\ \A k \in 1..Len(segs) : segs[k].s \in Nat /\ segs[k].e \in Nat
      /\ DOMAIN segs = 1..Len(segs) /\ DOMAIN segs' = 1..(Len(segs) + 1)
  BY <1>3, <1>4, SegmentsAreNumbers DEF PlanInv, SegTypeOK
<1>7. SegmentsTile'
  <2>1. segs'[1].s = start
    BY <1>3, <1>6 DEF PlanInv, SegmentsTile, cur
  <2>2. \A k \in 1..(Len(segs') - 1) : segs'[k].e = segs'[k + 1].s
    <3> TAKE k \in 1..(Len(segs') - 1)
    <3>0. Len(segs') - 1 = Len(segs) /\ Len(segs) \in Nat /\ k \in 1..Len(segs)
      BY <1>3, <1>6
    <3>1. CASE k = Len(segs)
      BY <3>1, <1>3, <1>6 DEF cur
    <3>2. CASE k # Len(segs)
      <4>1. k \in 1..(Len(segs) - 1) /\ k \in 1..Len(segs) /\ k + 1 \in 1..Len(segs)
        BY <3>0, <3>2
      <4> QED BY <4>1, <1>3 DEF PlanInv, SegmentsTile
    <3> QED BY <3>1, <3>2
  <2>3. ASSUME NEW k \in DOMAIN segs'
        PROVE  LET len == segs'[k].e - segs'[k].s
               IN  /\ len >= MinS \/ stop - start < MinS
                   /\ len > 0 /\ len < MaxS + MinS
    <3>1. CASE k = Len(segs) + 1
      <4>1. cur = start \/ stop - cur >= MinS \/ cur = stop
        BY DEF PlanInv, cur
      <4>2. cur < stop
        BY <1>1, <1>2
      <4> QED BY <3>1, <4>1, <4>2, <1>1, <1>2, <1>3, SegmentBounds
    <3>2. CASE k # Len(segs) + 1
      <4>1. k \in 1..Len(segs)
        BY <3>2, <1>6
      <4> QED BY <4>1, <1>3, <1>6 DEF PlanInv, SegmentsTile
    <3> QED BY <3>1, <3>2
  <2> QED BY <2>1, <2>2, <2>3, <1>1 DEF SegmentsTile
<1> QED BY <1>1, <1>2, <1>4, <1>5, <1>7 DEF PlanInv

(* The end of the loop. *)
LEMMA EndKeepsPlan ==
  ASSUME PlanInv, EndPlan
  PROVE  PlanInv'
<1>1. /\ start \in Nat /\ stop \in Nat /\ start < stop /\ cur \in Nat
      /\ start' = start /\ stop' = stop /\ stage' = "embed" /\ cur >= stop - Slack
  BY ChunkOfVideo, CurIsReached DEF PlanInv, SegTypeOK, EndPlan, start, stop
<1>2. CASE segs = <<>>
  <2>1. segs' = <<[s |-> start, e |-> stop]>>
    BY <1>2 DEF EndPlan
  <2>2. /\ segs' \in Seq([s : Nat, e : Nat]) /\ segs' # <<>> /\ Len(segs') = 1
        /\ DOMAIN segs' = {1} /\ segs'[1].s = start /\ segs'[1].e = stop
    BY <2>1, <1>1
  <2>3. cur' = stop
    BY <2>2 DEF cur
  <2>4. stop - start < MinS
    BY <1>1, <1>2, SegmentBounds DEF cur
  <2>5. SegmentsTile'
    BY <1>1, <2>2, <2>3, <2>4, SegmentBounds DEF SegmentsTile
  <2> QED BY <1>1, <2>2, <2>3, <2>5 DEF PlanInv, SegTypeOK, EndPlan
<1>3. CASE segs # <<>>
  <2>1. segs' = segs /\ cur' = cur
    BY <1>3 DEF EndPlan, cur
  <2>2. cur = stop
    BY <1>1, <1>3, SegmentBounds DEF PlanInv
  <2>3. SegmentsTile'
    BY <1>1, <1>3, <2>1, <2>2 DEF SegmentsTile, PlanInv
  <2> QED BY <1>1, <2>1, <2>2, <2>3 DEF PlanInv, SegTypeOK, EndPlan
<1> QED BY <1>2, <1>3

LEMMA PlanInvHolds == SegSpec => []PlanInv
<1>1. PlanInv /\ [SegNext]_segVars => PlanInv'
  <2> SUFFICES ASSUME PlanInv, [SegNext]_segVars PROVE PlanInv'
    OBVIOUS
  <2>1. ASSUME UNCHANGED <<duration, chunk, segs>>, SegTypeOK',
               stage' = "embed" => stage = "embed"
        PROVE  PlanInv'
    <3>1. start' = start /\ stop' = stop /\ cur' = cur
      BY <2>1 DEF start, stop, cur
    <3> QED BY <2>1, <3>1 DEF PlanInv, SegmentsTile
  <2>2. CASE UNCHANGED segVars
    <3>1. SegTypeOK'
      BY <2>2 DEF segVars, SegTypeOK, PlanInv
    <3> QED BY <2>1, <2>2, <3>1 DEF segVars
  <2>3. CASE Transcribe
    <3>1. start \in Nat /\ stop \in Nat
      BY ChunkOfVideo DEF PlanInv, SegTypeOK
    <3>2. ends' \subseteq (start + 1)..(stop + 1)
      BY <2>3, AtMostIsSubset DEF Transcribe
    <3>3. SegTypeOK'
      BY <2>3, <3>1, <3>2 DEF Transcribe, SegTypeOK, PlanInv
    <3> QED BY <2>1, <2>3, <3>3 DEF Transcribe
  <2> QED BY <2>2, <2>3, CutKeepsPlan, EndKeepsPlan DEF SegNext
<1> QED BY <1>1, PlanInvStarts, PTL DEF SegSpec

-----------------------------------------------------------------------------
(* Every variable keeps its type. *)
THEOREM SegmentTypeCorrect == SegSpec => []SegTypeOK
  BY PlanInvHolds, PTL DEF PlanInv

(* plan_chunks() covers a video of any length without a gap or an overlap, *)
(* by chunks of at least the shortest tail, unless there is but one.       *)
THEOREM ChunksTileTheVideo == SegSpec => []ChunksTile
<1>1. PlanInv => ChunksTile
  <2> SUFFICES ASSUME PlanInv PROVE ChunksTile
    OBVIOUS
  <2>1. duration \in Nat /\ duration > 0
    BY ChunkOfVideo DEF PlanInv, SegTypeOK
  <2>2. ChunkStart(duration, 0) = 0
    BY ChunkBounds DEF ChunkStart
  <2>3. ChunkEnd(duration, ChunkCount(duration) - 1) = duration
    BY DEF ChunkEnd
  <2> QED BY <2>1, <2>2, <2>3, ChunksOfDuration DEF ChunksTile
<1> QED BY <1>1, PlanInvHolds, PTL

(* Wherever the utterances end, the segments plan_segments() makes are     *)
(* contiguous at every iteration and cover the chunk when it returns, and  *)
(* none is too short or too long.                                          *)
THEOREM SegmentsTileTheChunk == SegSpec => []SegmentsTile
  BY PlanInvHolds, PTL DEF PlanInv

-----------------------------------------------------------------------------
(* Sorting, and loops that fold a list from the left *)

(* sorted() of a set of numbers. *)
Less(S) == {p \in S \X S : p[1] < p[2]}

LEMMA NumbersInOrder ==
  ASSUME NEW S \in SUBSET Int, IsFiniteSet(S)
  PROVE  LET q == Ranked(S, <)
         IN  /\ Cardinality(S) \in Nat /\ q \in [1..Cardinality(S) -> S]
             /\ \A x \in S : \E i \in 1..Cardinality(S) : q[i] = x
             /\ \A i, j \in 1..Cardinality(S) : i < j <=> q[i] < q[j]
<1>1. \A x, y \in S : <<x, y>> \in Less(S) <=> x < y
  BY DEF Less
<1>2. {[x |-> x, ahead |-> Cardinality({y \in S : y < x})] : x \in S} = Places(S, Less(S))
  <2>1. \A x \in S : Ahead(Less(S), S, x) = Cardinality({y \in S : y < x})
    <3> SUFFICES ASSUME NEW x \in S
                 PROVE  Ahead(Less(S), S, x) = Cardinality({y \in S : y < x})
      OBVIOUS
    <3>1. {y \in S : y < x} = {y \in S : <<y, x>> \in Less(S)}
      BY <1>1
    <3> QED BY <3>1 DEF Ahead
  <2> QED BY <2>1 DEF Places
<1>3. Decides(Less(S), S)
  <2>1. \A x \in S : <<x, x>> \notin Less(S)
    BY <1>1
  <2>2. \A x, y, z \in S : x < y /\ y < z => x < z
    OBVIOUS
  <2>3. \A x, y, z \in S : <<x, y>> \in Less(S) /\ <<y, z>> \in Less(S) => <<x, z>> \in Less(S)
    BY <1>1, <2>2
  <2>4. \A x, y \in S : x # y => <<x, y>> \in Less(S) \/ <<y, x>> \in Less(S)
    BY <1>1
  <2> QED BY <2>1, <2>3, <2>4 DEF Decides
<1> DEFINE q == Sorted(S, Less(S))
<1>4. Ranked(S, <) = q
  <2> DEFINE P == {[x |-> x, ahead |-> Cardinality({y \in S : y < x})] : x \in S}
  <2>1. Ranked(S, <) = [i \in 1..Cardinality(S) |-> (CHOOSE p \in P : p.ahead = i - 1).x]
    BY DEF Ranked
  <2>2. P = Places(S, Less(S))
    BY <1>2
  <2> HIDE DEF P
  <2>3. q = [i \in 1..Cardinality(S) |-> (CHOOSE p \in P : p.ahead = i - 1).x]
    BY <2>2 DEF Sorted
  <2> HIDE DEF q
  <2> QED BY <2>1, <2>3, Zenon
<1>5. InOrder(q, S, Less(S))
  BY <1>3, SortedInPlace
<1> HIDE DEF q
<1>6. /\ Cardinality(S) \in Nat /\ q \in [1..Cardinality(S) -> S]
      /\ \A x \in S : \E i \in 1..Cardinality(S) : q[i] = x
      /\ \A i, j \in 1..Cardinality(S) : i < j <=> <<q[i], q[j]>> \in Less(S)
  BY <1>5 DEF InOrder
<1>7. \A i, j \in 1..Cardinality(S) : i < j <=> q[i] < q[j]
  <2> SUFFICES ASSUME NEW i \in 1..Cardinality(S), NEW j \in 1..Cardinality(S)
               PROVE  i < j <=> q[i] < q[j]
    OBVIOUS
  <2>1. q[i] \in S /\ q[j] \in S
    BY <1>6
  <2>2. <<q[i], q[j]>> \in Less(S) <=> q[i] < q[j]
    BY <1>1, <2>1
  <2> QED BY <1>6, <2>2
<1> QED BY <1>4, <1>6, <1>7, Zenon

-----------------------------------------------------------------------------
(* The words of the segments *)

(* The words a chunk owns. *)
LEMMA WordsAreInside ==
  ASSUME SegTypeOK, start \in Nat, stop \in Nat
  PROVE  /\ Words \in SUBSET Int /\ IsFiniteSet(Words)
         /\ \A w \in Words : start <= w /\ w < stop
<1>1. Words \in SUBSET (start..(stop - 1))
  <2> SUFFICES ASSUME NEW w \in Words PROVE w \in start..(stop - 1)
    OBVIOUS
  <2>1. \A b \in ends : b \in Int /\ b - 1 \in Int
    BY DEF SegTypeOK
  <2>2. /\ w \in ends \/ \E b \in ends : w = b - 1
        /\ start <= w /\ w < stop
    BY DEF Words
  <2>3. w \in Int
    BY <2>1, <2>2
  <2> QED BY <2>2, <2>3
<1>2. IsFiniteSet(start..(stop - 1))
  BY FS_Interval
<1>3. IsFiniteSet(Words)
  BY <1>1, <1>2, FS_Subset
<1> QED BY <1>1, <1>3

(* The places of words: si and the segments so far. *)
Placing == [si : 1..Len(segs), at : Seq(1..Len(segs))]

(* The inner while stops at a segment, at the latest at the last one. *)
LEMMA LoopStops ==
  ASSUME Len(segs) \in Nat \ {0}, NEW si \in 1..Len(segs), NEW w \in Int
  PROVE  LET ahead == {k \in si..Len(segs) : k = Len(segs) \/ w < segs[k].e}
         IN  /\ Min(ahead) \in si..Len(segs)
             /\ Min(ahead) = Len(segs) \/ w < segs[Min(ahead)].e
             /\ \A k \in si..(Min(ahead) - 1) : ~ (w < segs[k].e)
<1> DEFINE ahead == {k \in si..Len(segs) : k = Len(segs) \/ w < segs[k].e}
<1>1. ahead \in SUBSET Nat /\ Len(segs) \in ahead
  OBVIOUS
<1>2. Min(ahead) \in ahead /\ \A k \in ahead : Min(ahead) <= k
  <2> HIDE DEF ahead
  <2> QED BY <1>1, LeastIsMin
<1>3. Min(ahead) \in si..Len(segs) /\ (Min(ahead) = Len(segs) \/ w < segs[Min(ahead)].e)
  BY <1>2
<1>4. ASSUME NEW k \in si..(Min(ahead) - 1), w < segs[k].e PROVE FALSE
  <2>1. k \in si..Len(segs) /\ k < Min(ahead)
    <3> HIDE DEF ahead
    <3> QED BY <1>3
  <2>2. k \in ahead
    BY <1>4, <2>1
  <2> HIDE DEF ahead
  <2> QED BY <1>2, <1>3, <2>1, <2>2
<1> HIDE DEF ahead
<1>5. /\ Min(ahead) \in si..Len(segs) /\ (Min(ahead) = Len(segs) \/ w < segs[Min(ahead)].e)
      /\ \A k \in si..(Min(ahead) - 1) : ~ (w < segs[k].e)
  BY <1>3, <1>4
<1> QED BY <1>5 DEF ahead

LEMMA MoveOnPlaces ==
  ASSUME Len(segs) \in Nat \ {0}, NEW acc \in Placing, NEW w \in Int
  PROVE  LET si == MoveOn(acc, w).si
         IN  /\ MoveOn(acc, w) \in Placing
             /\ si \in acc.si..Len(segs) /\ (si = Len(segs) \/ w < segs[si].e)
             /\ \A k \in acc.si..(si - 1) : ~ (w < segs[k].e)
             /\ segs[si].s <= w => MoveOn(acc, w).at = Append(acc.at, si)
<1> DEFINE ahead == {k \in acc.si..Len(segs) : k = Len(segs) \/ w < segs[k].e}
           m == Min(ahead)
           a == IF segs[m].s <= w \/ m = 1 THEN Append(acc.at, m) ELSE acc.at
<1>1. acc.si \in 1..Len(segs) /\ acc.at \in Seq(1..Len(segs))
  BY DEF Placing
<1>2. /\ m \in acc.si..Len(segs) /\ (m = Len(segs) \/ w < segs[m].e)
      /\ \A k \in acc.si..(m - 1) : ~ (w < segs[k].e)
  BY <1>1, LoopStops
<1>3. MoveOn(acc, w) = [si |-> m, at |-> a]
  BY DEF MoveOn
<1> HIDE DEF m
<1>4. m \in 1..Len(segs)
  BY <1>1, <1>2
<1>5. Append(acc.at, m) \in Seq(1..Len(segs))
  BY <1>1, <1>4, AppendProperties
<1>6. a \in Seq(1..Len(segs)) /\ (segs[m].s <= w => a = Append(acc.at, m))
  BY <1>1, <1>5
<1> HIDE DEF a
<1>7. MoveOn(acc, w) \in Placing /\ MoveOn(acc, w).si = m /\ MoveOn(acc, w).at = a
  BY <1>3, <1>4, <1>6 DEF Placing
<1> QED BY <1>2, <1>6, <1>7

(* The pass over the words, one after the other. *)
WordsWalk(h, b, q, n) ==
  /\ h[0] = b /\ \A i \in 1..n : h[i] = MoveOn(h[i - 1], q[i])
  /\ FoldLeft(MoveOn, b, q) = h[n]

LEMMA WordsOneByOne ==
  ASSUME Len(segs) \in Nat \ {0}, NEW n \in Nat, NEW q \in [1..n -> Int], NEW b \in Placing
  PROVE  \E h : WordsWalk(h, b, q, n)
<1> DEFINE st == [p \in (1..n) \X Placing |-> MoveOn(p[2], q[p[1]])]
<1>1. st \in [(1..n) \X Placing -> Placing]
  BY MoveOnPlaces
<1>2. PICK g \in [SUBSET (1..n) -> Placing] :
        Recurses(g, 1..n, [s \in SUBSET (1..n) |-> Max(s)], b, st)
  <2> HIDE DEF st
  <2> QED BY <1>1, FoldExists
<1>3. ASSUME NEW d \in SUBSET (1..n)
      PROVE  g[d] = IF d = {} THEN b ELSE MoveOn(g[d \ {Max(d)}], q[Max(d)])
  <2>1. g[d] = IF d = {} THEN b ELSE st[Max(d), g[d \ {Max(d)}]]
    <3> HIDE DEF st
    <3> QED BY <1>2 DEF Recurses
  <2>2. d # {} => Max(d) \in 1..n /\ g[d \ {Max(d)}] \in Placing
    <3>1. d \in SUBSET Nat /\ \A x \in d : x <= n
      OBVIOUS
    <3> QED BY <3>1, GreatestElement
  <2>3. d # {} => st[Max(d), g[d \ {Max(d)}]] = MoveOn(g[d \ {Max(d)}], q[Max(d)])
    BY <2>2
  <2> QED BY <2>1, <2>3
<1>4. g = [d \in SUBSET (1..n) |-> IF d = {} THEN b ELSE MoveOn(g[d \ {Max(d)}], q[Max(d)])]
  BY <1>3
<1> DEFINE f == CHOOSE r : r = [d \in SUBSET (1..n) |->
                                  IF d = {} THEN b ELSE MoveOn(r[d \ {Max(d)}], q[Max(d)])]
<1>5. f = [d \in SUBSET (1..n) |-> IF d = {} THEN b ELSE MoveOn(f[d \ {Max(d)}], q[Max(d)])]
  BY <1>4, Zenon
<1>6. FoldLeft(MoveOn, b, q) = f[1..n]
  <2>1. DOMAIN q = 1..n
    OBVIOUS
  <2>2. FoldLeft(MoveOn, b, q) =
          (CHOOSE r : r = [d \in SUBSET (DOMAIN q) |->
             IF d = {} THEN b ELSE MoveOn(r[d \ {Max(d)}], q[Max(d)])])[DOMAIN q]
    BY DEF FoldLeft, MapThenFoldSet
  <2> QED BY <2>1, <2>2, Zenon
<1>7. \A d \in SUBSET (1..n) : f[d] = IF d = {} THEN b ELSE MoveOn(f[d \ {Max(d)}], q[Max(d)])
  <2> HIDE DEF f
  <2> QED BY <1>5
<1>8. Steps(f, n, Placing, b, st)
  <2>1. f[{}] = b
    <3> HIDE DEF f
    <3> QED BY <1>7
  <2> SUFFICES ASSUME NEW d \in SUBSET (1..n), d # {}, f[d \ {Max(d)}] \in Placing
               PROVE  f[d] = st[Max(d), f[d \ {Max(d)}]]
    BY <2>1 DEF Steps
  <2> HIDE DEF f
  <2>2. f[d] = MoveOn(f[d \ {Max(d)}], q[Max(d)])
    BY <1>7
  <2>3. Max(d) \in 1..n
    <3>1. d \in SUBSET Nat /\ \A x \in d : x <= n
      OBVIOUS
    <3> QED BY <3>1, GreatestElement
  <2> QED BY <2>2, <2>3
<1> HIDE DEF f, st
<1>9. PICK h : Trace(h, f, n, Placing, b, st)
  BY <1>1, <1>8, FoldFollows
<1>10. h \in [0..n -> Placing] /\ h[0] = b /\ h[n] = f[1..n]
  BY <1>9 DEF Trace
<1>11. ASSUME NEW i \in 1..n PROVE h[i] = MoveOn(h[i - 1], q[i])
  <2>1. i - 1 \in 0..n /\ h[i - 1] \in Placing
    BY <1>10
  <2> QED BY <1>9, <2>1 DEF Trace, st
<1> QED BY <1>6, <1>10, <1>11 DEF WordsWalk

(* The segment of the next word is on screen when it is spoken, if the one  *)
(* of the word before has begun by then.                                    *)
LEMMA NextWordPlaced ==
  ASSUME PlanInv, stage = "embed", NEW acc \in Placing, NEW w \in Int,
         start <= w, w < stop, segs[acc.si].s <= w
  PROVE  LET si == MoveOn(acc, w).si
         IN  /\ MoveOn(acc, w) \in Placing /\ si \in 1..Len(segs)
             /\ segs[si].s <= w /\ w < segs[si].e
             /\ MoveOn(acc, w).at = Append(acc.at, si)
<1> DEFINE si == MoveOn(acc, w).si
<1>1. /\ Len(segs) \in Nat \ {0} /\ segs # <<>>
      /\ \A k \in 1..Len(segs) : segs[k].s \in Nat /\ segs[k].e \in Nat
  BY SegmentsAreNumbers DEF PlanInv, SegmentsTile
<1>2. segs[Len(segs)].e = stop
  BY <1>1 DEF PlanInv, SegmentsTile, cur
<1>3. /\ MoveOn(acc, w) \in Placing
      /\ si \in acc.si..Len(segs) /\ (si = Len(segs) \/ w < segs[si].e)
      /\ \A k \in acc.si..(si - 1) : ~ (w < segs[k].e)
      /\ segs[si].s <= w => MoveOn(acc, w).at = Append(acc.at, si)
  BY <1>1, MoveOnPlaces
<1>4. acc.si \in 1..Len(segs)
  BY DEF Placing
<1> HIDE DEF si
<1>5. si \in 1..Len(segs) /\ w < segs[si].e
  BY <1>1, <1>2, <1>3, <1>4
<1>6. segs[si].s <= w
  <2>1. CASE si = acc.si
    BY <2>1
  <2>2. CASE si # acc.si
    <3>1. si - 1 \in acc.si..(si - 1) /\ si - 1 \in 1..(Len(segs) - 1) /\ (si - 1) + 1 = si
      BY <1>1, <1>3, <1>4, <2>2
    <3>2. ~ (w < segs[si - 1].e)
      BY <1>3, <3>1
    <3>3. segs[si - 1].e = segs[si].s
      BY <3>1 DEF PlanInv, SegmentsTile
    <3>4. segs[si].s \in Nat
      BY <1>1, <1>5
    <3> QED BY <3>2, <3>3, <3>4
  <2> QED BY <2>1, <2>2
<1> QED BY <1>3, <1>5, <1>6 DEF si

(* The pass over the words in order of time loses none and puts each into   *)
(* the segment that is on screen: the segment of the word before has begun, *)
(* and all that is passed over is over.                                     *)
LEMMA PassPlacesWords ==
  ASSUME PlanInv, stage = "embed", NEW n \in Nat, NEW q \in [1..n -> Int],
         \A i \in 1..n : start <= q[i] /\ q[i] < stop,
         \A i, j \in 1..n : i < j => q[i] < q[j],
         NEW h, h[0] = [si |-> 1, at |-> <<>>],
         \A i \in 1..n : h[i] = MoveOn(h[i - 1], q[i])
  PROVE  /\ Len(h[n].at) = n
         /\ \A i \in 1..n : LET g == segs[h[n].at[i]] IN g.s <= q[i] /\ q[i] < g.e
<1> DEFINE Ready(k) == h[k].si = 1 \/ (k # 0 /\ segs[h[k].si].s <= q[k])
           Done(k) == \A i \in 1..k : /\ segs[h[k].at[i]].s <= q[i]
                                      /\ q[i] < segs[h[k].at[i]].e
           Good == {k \in 0..n : /\ h[k] \in Placing /\ Len(h[k].at) = k
                                 /\ Ready(k) /\ Done(k)}
<1>1. /\ Len(segs) \in Nat \ {0} /\ segs # <<>>
      /\ \A k \in 1..Len(segs) : segs[k].s \in Nat /\ segs[k].e \in Nat
  BY SegmentsAreNumbers DEF PlanInv, SegmentsTile
<1>2. 0 \in Good
  <2>1. <<>> \in Seq(1..Len(segs)) /\ Len(<<>>) = 0 /\ 1 \in 1..Len(segs)
    BY <1>1
  <2>2. h[0].si = 1 /\ h[0].at = <<>> /\ h[0] \in Placing
    BY <2>1 DEF Placing
  <2>3. Ready(0) /\ Done(0)
    BY <2>2
  <2> HIDE DEF Ready, Done
  <2> QED BY <2>1, <2>2, <2>3
<1>3. ASSUME NEW k \in 1..n, k - 1 \in Good PROVE k \in Good
  <2> DEFINE acc == h[k - 1]
             si == MoveOn(acc, q[k]).si
  <2>1. acc \in Placing /\ Len(acc.at) = k - 1 /\ Ready(k - 1) /\ Done(k - 1)
    BY <1>3
  <2>2. acc.si \in 1..Len(segs) /\ acc.at \in Seq(1..Len(segs))
    BY <2>1 DEF Placing
  <2>3. segs[acc.si].s <= q[k]
    <3>1. CASE acc.si = 1
      <4>1. segs[1].s = start
        BY <1>1 DEF PlanInv, SegmentsTile
      <4> QED BY <3>1, <4>1
    <3>2. CASE k - 1 # 0 /\ segs[acc.si].s <= q[k - 1]
      <4>1. k - 1 \in 1..n /\ k - 1 < k
        BY <3>2
      <4>2. q[k - 1] < q[k] /\ q[k - 1] \in Int /\ q[k] \in Int /\ segs[acc.si].s \in Nat
        BY <1>1, <2>2, <4>1
      <4> HIDE DEF acc
      <4> QED BY <3>2, <4>2
    <3> QED BY <2>1, <3>1, <3>2
  <2>4. q[k] \in Int /\ start <= q[k] /\ q[k] < stop /\ h[k] = MoveOn(acc, q[k])
    OBVIOUS
  <2> HIDE DEF acc
  <2>5. /\ h[k] \in Placing /\ si \in 1..Len(segs) /\ h[k].si = si
        /\ segs[si].s <= q[k] /\ q[k] < segs[si].e
        /\ h[k].at = Append(acc.at, si)
    <3> DEFINE w == q[k]
    <3>1. w \in Int /\ start <= w /\ w < stop /\ segs[acc.si].s <= w /\ acc \in Placing
      BY <2>1, <2>3, <2>4
    <3> HIDE DEF w
    <3>2. LET m == MoveOn(acc, w).si
          IN  /\ MoveOn(acc, w) \in Placing /\ m \in 1..Len(segs)
              /\ segs[m].s <= w /\ w < segs[m].e
              /\ MoveOn(acc, w).at = Append(acc.at, m)
      BY <3>1, NextWordPlaced
    <3> QED BY <2>4, <3>2 DEF w
  <2> HIDE DEF si
  <2>6. /\ Len(h[k].at) = k /\ h[k].at[k] = si
        /\ \A i \in 1..(k - 1) : h[k].at[i] = acc.at[i]
    <3>1. /\ Len(h[k].at) = Len(acc.at) + 1 /\ h[k].at[Len(acc.at) + 1] = si
          /\ \A i \in 1..Len(acc.at) : h[k].at[i] = acc.at[i]
      BY <2>2, <2>5, AppendProperties
    <3>2. (k - 1) + 1 = k
      OBVIOUS
    <3> QED BY <2>1, <3>1, <3>2
  <2>7. Done(k)
    <3> SUFFICES ASSUME NEW i \in 1..k
                 PROVE  segs[h[k].at[i]].s <= q[i] /\ q[i] < segs[h[k].at[i]].e
      OBVIOUS
    <3>1. CASE i = k
      BY <2>5, <2>6, <3>1
    <3>2. CASE i # k
      <4>1. i \in 1..(k - 1)
        BY <3>2
      <4>2. h[k].at[i] = h[k - 1].at[i]
        BY <2>6, <4>1 DEF acc
      <4>3. segs[h[k - 1].at[i]].s <= q[i] /\ q[i] < segs[h[k - 1].at[i]].e
        BY <2>1, <4>1
      <4> QED BY <4>2, <4>3
    <3> QED BY <3>1, <3>2
  <2>8. Ready(k)
    BY <2>5
  <2> HIDE DEF Done, Ready
  <2> QED BY <2>5, <2>6, <2>7, <2>8
<1>4. n \in Good
  <2> HIDE DEF Good
  <2>1. \A k \in 1..n : k - 1 \in Good => k \in Good
    BY <1>3
  <2>2. \A k \in 0..n : k \in Good
    BY <1>2, <2>1, StepByStep
  <2> QED BY <2>2
<1> QED BY <1>4

(* Every word is shown in the one segment that is on screen when it is     *)
(* spoken, wherever the utterances and the segments end: the single pass   *)
(* of plan_segments() over both loses none.                                *)
THEOREM WordsAreShown == SegSpec => []WordsPlaced
<1>1. PlanInv => WordsPlaced
  <2> SUFFICES ASSUME PlanInv, stage = "embed"
               PROVE  LET order == Ranked(Words, <)
                          at    == WordSegments
                      IN  /\ Len(at) = Len(order)
                          /\ \A k \in DOMAIN order :
                               LET g == segs[at[k]] IN g.s <= order[k] /\ order[k] < g.e
    BY DEF WordsPlaced
  <2> DEFINE n == Cardinality(Words)
             q == Ranked(Words, <)
             b == [si |-> 1, at |-> <<>>]
  <2>1. start \in Nat /\ stop \in Nat
    BY ChunkOfVideo DEF PlanInv, SegTypeOK
  <2>2. /\ Words \in SUBSET Int /\ IsFiniteSet(Words)
        /\ \A w \in Words : start <= w /\ w < stop
    BY <2>1, WordsAreInside DEF PlanInv
  <2>3. n \in Nat /\ q \in [1..n -> Words] /\ \A i, j \in 1..n : i < j <=> q[i] < q[j]
    BY <2>2, NumbersInOrder
  <2>4. Len(segs) \in Nat \ {0}
    BY SegmentsAreNumbers DEF PlanInv, SegmentsTile
  <2>5. b \in Placing
    <3>1. <<>> \in Seq(1..Len(segs)) /\ 1 \in 1..Len(segs)
      BY <2>4
    <3> QED BY <3>1 DEF Placing
  <2> DEFINE at == FoldLeft(MoveOn, b, q).at
  <2>6. WordSegments = at
    BY DEF WordSegments
  <2> HIDE DEF n, q
  <2>7. n \in Nat /\ q \in [1..n -> Int] /\ \A i \in 1..n : start <= q[i] /\ q[i] < stop
    BY <2>2, <2>3
  <2> HIDE DEF b, at
  <2>8. PICK h : WordsWalk(h, b, q, n)
    BY <2>4, <2>5, <2>7, WordsOneByOne
  <2>9. /\ h[0] = b /\ \A i \in 1..n : h[i] = MoveOn(h[i - 1], q[i])
        /\ FoldLeft(MoveOn, b, q) = h[n]
    BY <2>8 DEF WordsWalk
  <2>10. /\ Len(h[n].at) = n
        /\ \A i \in 1..n : LET g == segs[h[n].at[i]] IN g.s <= q[i] /\ q[i] < g.e
    BY <2>3, <2>7, <2>9, PassPlacesWords DEF b
  <2>11. Len(q) = n /\ DOMAIN q = 1..n
    BY <2>3, <2>7, LenProperties
  <2>12. at = h[n].at
    BY <2>9 DEF at
  <2>13. /\ Len(at) = Len(q)
         /\ \A k \in DOMAIN q : LET g == segs[at[k]] IN g.s <= q[k] /\ q[k] < g.e
    BY <2>10, <2>11, <2>12
  <2> QED BY <2>6, <2>13 DEF q, b
<1> QED BY <1>1, PlanInvHolds, PTL

-----------------------------------------------------------------------------
(* The keyframes of the segments *)

LEMMA KeepPicksTyped ==
  ASSUME NEW acc \in Seq(Int), NEW t \in Int
  PROVE  Keep(acc, t) \in Seq(Int) /\ Pick(acc, t) \in Seq(Int)
<1>1. Append(acc, t) \in Seq(Int)
  BY AppendProperties
<1> QED BY <1>1 DEF Keep, Pick

(* select_keyframes() takes the samples in turn, *)
SamplesWalk(h, b, q, n) ==
  /\ h[0] = b /\ \A i \in 1..n : h[i] = Keep(h[i - 1], q[i])
  /\ FoldLeft(Keep, b, q) = h[n]

LEMMA SamplesOneByOne ==
  ASSUME NEW n \in Nat, NEW q \in [1..n -> Int], NEW b \in Seq(Int)
  PROVE  \E h : SamplesWalk(h, b, q, n)
<1> DEFINE st == [p \in (1..n) \X Seq(Int) |-> Keep(p[2], q[p[1]])]
<1>1. st \in [(1..n) \X Seq(Int) -> Seq(Int)]
  BY KeepPicksTyped
<1>2. PICK g \in [SUBSET (1..n) -> Seq(Int)] :
        Recurses(g, 1..n, [s \in SUBSET (1..n) |-> Max(s)], b, st)
  <2> HIDE DEF st
  <2> QED BY <1>1, FoldExists
<1>3. ASSUME NEW d \in SUBSET (1..n)
      PROVE  g[d] = IF d = {} THEN b ELSE Keep(g[d \ {Max(d)}], q[Max(d)])
  <2>1. g[d] = IF d = {} THEN b ELSE st[Max(d), g[d \ {Max(d)}]]
    <3> HIDE DEF st
    <3> QED BY <1>2 DEF Recurses
  <2>2. d # {} => Max(d) \in 1..n /\ g[d \ {Max(d)}] \in Seq(Int)
    <3>1. d \in SUBSET Nat /\ \A x \in d : x <= n
      OBVIOUS
    <3> QED BY <3>1, GreatestElement
  <2>3. d # {} => st[Max(d), g[d \ {Max(d)}]] = Keep(g[d \ {Max(d)}], q[Max(d)])
    BY <2>2
  <2> QED BY <2>1, <2>3
<1>4. g = [d \in SUBSET (1..n) |-> IF d = {} THEN b ELSE Keep(g[d \ {Max(d)}], q[Max(d)])]
  BY <1>3
<1> DEFINE f == CHOOSE r : r = [d \in SUBSET (1..n) |->
                                  IF d = {} THEN b ELSE Keep(r[d \ {Max(d)}], q[Max(d)])]
<1>5. f = [d \in SUBSET (1..n) |-> IF d = {} THEN b ELSE Keep(f[d \ {Max(d)}], q[Max(d)])]
  BY <1>4, Zenon
<1>6. FoldLeft(Keep, b, q) = f[1..n]
  <2>1. DOMAIN q = 1..n
    OBVIOUS
  <2>2. FoldLeft(Keep, b, q) =
          (CHOOSE r : r = [d \in SUBSET (DOMAIN q) |->
             IF d = {} THEN b ELSE Keep(r[d \ {Max(d)}], q[Max(d)])])[DOMAIN q]
    BY DEF FoldLeft, MapThenFoldSet
  <2> QED BY <2>1, <2>2, Zenon
<1>7. \A d \in SUBSET (1..n) : f[d] = IF d = {} THEN b ELSE Keep(f[d \ {Max(d)}], q[Max(d)])
  <2> HIDE DEF f
  <2> QED BY <1>5
<1>8. Steps(f, n, Seq(Int), b, st)
  <2>1. f[{}] = b
    <3> HIDE DEF f
    <3> QED BY <1>7
  <2> SUFFICES ASSUME NEW d \in SUBSET (1..n), d # {}, f[d \ {Max(d)}] \in Seq(Int)
               PROVE  f[d] = st[Max(d), f[d \ {Max(d)}]]
    BY <2>1 DEF Steps
  <2> HIDE DEF f
  <2>2. f[d] = Keep(f[d \ {Max(d)}], q[Max(d)])
    BY <1>7
  <2>3. Max(d) \in 1..n
    <3>1. d \in SUBSET Nat /\ \A x \in d : x <= n
      OBVIOUS
    <3> QED BY <3>1, GreatestElement
  <2> QED BY <2>2, <2>3
<1> HIDE DEF f, st
<1>9. PICK h : Trace(h, f, n, Seq(Int), b, st)
  BY <1>1, <1>8, FoldFollows
<1>10. h \in [0..n -> Seq(Int)] /\ h[0] = b /\ h[n] = f[1..n]
  BY <1>9 DEF Trace
<1>11. ASSUME NEW i \in 1..n PROVE h[i] = Keep(h[i - 1], q[i])
  <2>1. i - 1 \in 0..n /\ h[i - 1] \in Seq(Int)
    BY <1>10
  <2> QED BY <1>9, <2>1 DEF Trace, st
<1> QED BY <1>6, <1>10, <1>11 DEF SamplesWalk

(* and pick_distinct() the frames of a segment. *)
FramesWalk(h, b, q, n) ==
  /\ h[0] = b /\ \A i \in 1..n : h[i] = Pick(h[i - 1], q[i])
  /\ FoldLeft(Pick, b, q) = h[n]

LEMMA FramesOneByOne ==
  ASSUME NEW n \in Nat, NEW q \in [1..n -> Int], NEW b \in Seq(Int)
  PROVE  \E h : FramesWalk(h, b, q, n)
<1> DEFINE st == [p \in (1..n) \X Seq(Int) |-> Pick(p[2], q[p[1]])]
<1>1. st \in [(1..n) \X Seq(Int) -> Seq(Int)]
  BY KeepPicksTyped
<1>2. PICK g \in [SUBSET (1..n) -> Seq(Int)] :
        Recurses(g, 1..n, [s \in SUBSET (1..n) |-> Max(s)], b, st)
  <2> HIDE DEF st
  <2> QED BY <1>1, FoldExists
<1>3. ASSUME NEW d \in SUBSET (1..n)
      PROVE  g[d] = IF d = {} THEN b ELSE Pick(g[d \ {Max(d)}], q[Max(d)])
  <2>1. g[d] = IF d = {} THEN b ELSE st[Max(d), g[d \ {Max(d)}]]
    <3> HIDE DEF st
    <3> QED BY <1>2 DEF Recurses
  <2>2. d # {} => Max(d) \in 1..n /\ g[d \ {Max(d)}] \in Seq(Int)
    <3>1. d \in SUBSET Nat /\ \A x \in d : x <= n
      OBVIOUS
    <3> QED BY <3>1, GreatestElement
  <2>3. d # {} => st[Max(d), g[d \ {Max(d)}]] = Pick(g[d \ {Max(d)}], q[Max(d)])
    BY <2>2
  <2> QED BY <2>1, <2>3
<1>4. g = [d \in SUBSET (1..n) |-> IF d = {} THEN b ELSE Pick(g[d \ {Max(d)}], q[Max(d)])]
  BY <1>3
<1> DEFINE f == CHOOSE r : r = [d \in SUBSET (1..n) |->
                                  IF d = {} THEN b ELSE Pick(r[d \ {Max(d)}], q[Max(d)])]
<1>5. f = [d \in SUBSET (1..n) |-> IF d = {} THEN b ELSE Pick(f[d \ {Max(d)}], q[Max(d)])]
  BY <1>4, Zenon
<1>6. FoldLeft(Pick, b, q) = f[1..n]
  <2>1. DOMAIN q = 1..n
    OBVIOUS
  <2>2. FoldLeft(Pick, b, q) =
          (CHOOSE r : r = [d \in SUBSET (DOMAIN q) |->
             IF d = {} THEN b ELSE Pick(r[d \ {Max(d)}], q[Max(d)])])[DOMAIN q]
    BY DEF FoldLeft, MapThenFoldSet
  <2> QED BY <2>1, <2>2, Zenon
<1>7. \A d \in SUBSET (1..n) : f[d] = IF d = {} THEN b ELSE Pick(f[d \ {Max(d)}], q[Max(d)])
  <2> HIDE DEF f
  <2> QED BY <1>5
<1>8. Steps(f, n, Seq(Int), b, st)
  <2>1. f[{}] = b
    <3> HIDE DEF f
    <3> QED BY <1>7
  <2> SUFFICES ASSUME NEW d \in SUBSET (1..n), d # {}, f[d \ {Max(d)}] \in Seq(Int)
               PROVE  f[d] = st[Max(d), f[d \ {Max(d)}]]
    BY <2>1 DEF Steps
  <2> HIDE DEF f
  <2>2. f[d] = Pick(f[d \ {Max(d)}], q[Max(d)])
    BY <1>7
  <2>3. Max(d) \in 1..n
    <3>1. d \in SUBSET Nat /\ \A x \in d : x <= n
      OBVIOUS
    <3> QED BY <3>1, GreatestElement
  <2> QED BY <2>2, <2>3
<1> HIDE DEF f, st
<1>9. PICK h : Trace(h, f, n, Seq(Int), b, st)
  BY <1>1, <1>8, FoldFollows
<1>10. h \in [0..n -> Seq(Int)] /\ h[0] = b /\ h[n] = f[1..n]
  BY <1>9 DEF Trace
<1>11. ASSUME NEW i \in 1..n PROVE h[i] = Pick(h[i - 1], q[i])
  <2>1. i - 1 \in 0..n /\ h[i - 1] \in Seq(Int)
    BY <1>10
  <2> QED BY <1>9, <2>1 DEF Trace, st
<1> QED BY <1>6, <1>10, <1>11 DEF FramesWalk

(* One sample: the keyframes before stay, the last is then near. *)
LEMMA KeepStep ==
  ASSUME NEW acc \in Seq(Int), NEW t \in Int
  PROVE  LET new == Keep(acc, t)
         IN  /\ new \in Seq(Int) /\ Len(new) \in Nat /\ Len(acc) \in Nat
             /\ acc # <<>> => acc[Len(acc)] \in Int
             /\ Len(new) # 0 /\ Len(acc) <= Len(new)
             /\ \A m \in 1..Len(acc) : new[m] = acc[m]
             /\ \A m \in 1..Len(new) : m \in 1..Len(acc) \/ new[m] = t
             /\ t - new[Len(new)] < MaxGap
             /\ \/ new[Len(new)] = t
                \/ acc # <<>> /\ Len(new) = Len(acc) /\ new[Len(new)] = acc[Len(acc)]
<1> DEFINE app == Append(acc, t)
<1>1. /\ app \in Seq(Int) /\ Len(app) = Len(acc) + 1 /\ app[Len(acc) + 1] = t
      /\ \A m \in 1..Len(acc) : app[m] = acc[m]
  BY AppendProperties
<1>2. /\ Len(acc) \in Nat /\ (acc = <<>> <=> Len(acc) = 0)
      /\ acc # <<>> => acc[Len(acc)] \in Int
  <2>1. Len(acc) \in Nat /\ (acc = <<>> <=> Len(acc) = 0)
    BY EmptySeq
  <2>2. acc # <<>> => Len(acc) \in 1..Len(acc)
    BY <2>1
  <2> QED BY <2>1, <2>2, ElementOfSeq
<1>3. MaxGap \in Nat \ {0}
  BY WindowBounds
<1> HIDE DEF app
<1>4. CASE Keep(acc, t) = app
  <2>1. Len(app) \in Nat /\ Len(app) # 0 /\ t - app[Len(app)] < MaxGap
    BY <1>1, <1>2, <1>3
  <2>2. \A m \in 1..Len(app) : m \in 1..Len(acc) \/ app[m] = t
    BY <1>1, <1>2
  <2> QED BY <1>1, <1>2, <1>4, <2>1, <2>2
<1>5. CASE acc # <<>> /\ ~ (t - acc[Len(acc)] >= MaxGap) /\ Keep(acc, t) = acc
  BY <1>2, <1>3, <1>5
<1>6. \/ Keep(acc, t) = app
      \/ acc # <<>> /\ ~ (t - acc[Len(acc)] >= MaxGap) /\ Keep(acc, t) = acc
  BY DEF Keep, app
<1> QED BY <1>4, <1>5, <1>6

(* Of the samples up to t: the keyframes are some of them, the last is near *)
(* t, and each has one near it.                                             *)
Covers(kept, from, t) ==
  /\ kept \in Seq(Int)
  /\ \A m \in 1..Len(kept) : from <= kept[m] /\ kept[m] <= t
  /\ from <= t => Len(kept) # 0 /\ t - kept[Len(kept)] < MaxGap
  /\ \A x \in from..t : \E m \in 1..Len(kept) : kept[m] <= x /\ x - kept[m] < MaxGap

LEMMA KeepCovers ==
  ASSUME NEW from \in Int, NEW t \in Int, from <= t, NEW acc, Covers(acc, from, t - 1)
  PROVE  Covers(Keep(acc, t), from, t)
<1> DEFINE new == Keep(acc, t)
<1>1. acc \in Seq(Int)
  BY DEF Covers
<1>2. /\ new \in Seq(Int) /\ Len(new) \in Nat /\ Len(acc) \in Nat
      /\ acc # <<>> => acc[Len(acc)] \in Int
      /\ Len(new) # 0 /\ Len(acc) <= Len(new)
      /\ \A m \in 1..Len(acc) : new[m] = acc[m]
      /\ \A m \in 1..Len(new) : m \in 1..Len(acc) \/ new[m] = t
      /\ t - new[Len(new)] < MaxGap
  BY <1>1, KeepStep
<1> HIDE DEF new
<1>3. \A m \in 1..Len(new) : new[m] \in Int
  BY <1>2, ElementOfSeq
<1>4. \A m \in 1..Len(acc) : from <= acc[m] /\ acc[m] <= t - 1
  BY DEF Covers
<1>5. ASSUME NEW m \in 1..Len(new) PROVE from <= new[m] /\ new[m] <= t
  <2>1. CASE new[m] = t
    BY <2>1
  <2>2. CASE m \in 1..Len(acc)
    <3>1. new[m] = acc[m] /\ new[m] \in Int
      BY <1>2, <1>3, <2>2
    <3>2. from <= acc[m] /\ acc[m] <= t - 1
      BY <1>4, <2>2
    <3> QED BY <3>1, <3>2
  <2> QED BY <1>2, <2>1, <2>2
<1>6. ASSUME NEW x \in from..t
      PROVE  \E m \in 1..Len(new) : new[m] <= x /\ x - new[m] < MaxGap
  <2>1. CASE x = t
    <3>1. Len(new) \in 1..Len(new)
      BY <1>2
    <3> QED BY <1>2, <1>5, <2>1, <3>1
  <2>2. CASE x # t
    <3>1. x \in from..(t - 1)
      BY <2>2
    <3>2. PICK m \in 1..Len(acc) : acc[m] <= x /\ x - acc[m] < MaxGap
      BY <3>1 DEF Covers
    <3>3. m \in 1..Len(new) /\ new[m] = acc[m]
      BY <1>2
    <3> QED BY <3>2, <3>3
  <2> QED BY <2>1, <2>2
<1>7. Covers(new, from, t)
  BY <1>2, <1>5, <1>6 DEF Covers
<1> QED BY <1>7 DEF new

(* select_keyframes() keeps a sample near every sample of the chunk. *)
LEMMA KeyframesAreNear ==
  ASSUME start \in Nat, stop \in Nat, start < stop
  PROVE  /\ Keyframes \in SUBSET (start..(stop - 1))
         /\ \A t \in start..(stop - 1) : \E u \in Keyframes : u <= t /\ t - u < MaxGap
<1> DEFINE n == stop - start
           q == Samples
           b == <<>>
<1>1. n \in Nat /\ q \in [1..n -> Int] /\ b \in Seq(Int)
      /\ \A i \in 1..n : q[i] = start + i - 1
  BY DEF Samples
<1> HIDE DEF q, b
<1>2. PICK h : SamplesWalk(h, b, q, n)
  <2> HIDE DEF n
  <2> QED BY <1>1, SamplesOneByOne
<1>3. /\ h[0] = b /\ \A i \in 1..n : h[i] = Keep(h[i - 1], q[i])
      /\ FoldLeft(Keep, b, q) = h[n]
  BY <1>2 DEF SamplesWalk
<1> DEFINE Good == {i \in 0..n : Covers(h[i], start, start + i - 1)}
<1>4. 0 \in Good
  <2>1. h[0] \in Seq(Int) /\ Len(h[0]) = 0
    BY <1>1, <1>3 DEF b
  <2>2. start..(start + 0 - 1) = {} /\ ~ (start <= start + 0 - 1) /\ 1..0 = {}
    OBVIOUS
  <2>3. Covers(h[0], start, start + 0 - 1)
    BY <2>1, <2>2 DEF Covers
  <2>4. 0 \in 0..n
    BY <1>1
  <2> QED BY <2>3, <2>4
<1>5. ASSUME NEW i \in 1..n, i - 1 \in Good PROVE i \in Good
  <2>1. Covers(h[i - 1], start, q[i] - 1)
    <3>1. start + (i - 1) - 1 = q[i] - 1
      BY <1>1
    <3>2. Covers(h[i - 1], start, start + (i - 1) - 1)
      BY <1>5
    <3> QED BY <3>1, <3>2
  <2>2. q[i] \in Int /\ start <= q[i] /\ start \in Int /\ q[i] = start + i - 1
    BY <1>1
  <2>3. Covers(Keep(h[i - 1], q[i]), start, q[i])
    BY <2>1, <2>2, KeepCovers
  <2>4. Covers(h[i], start, start + i - 1)
    BY <1>3, <2>2, <2>3
  <2> QED BY <2>4
<1>6. n \in Good
  <2> HIDE DEF Good, n
  <2>1. \A i \in 1..n : i - 1 \in Good => i \in Good
    BY <1>5
  <2>2. \A i \in 0..n : i \in Good
    BY <1>1, <1>4, <2>1, StepByStep
  <2> QED BY <1>1, <2>2
<1>7. Covers(h[n], start, stop - 1)
  <2>1. Covers(h[n], start, start + n - 1)
    BY <1>6
  <2>2. start + n - 1 = stop - 1
    OBVIOUS
  <2> QED BY <2>1, <2>2
<1>8. Keyframes = ToSet(h[n])
  BY <1>3 DEF Keyframes, q, b
<1>9. h[n] \in Seq(Int) /\ Len(h[n]) \in Nat /\ DOMAIN h[n] = 1..Len(h[n])
  BY <1>7 DEF Covers
<1>10. \A x : x \in Keyframes <=> \E m \in 1..Len(h[n]) : h[n][m] = x
  BY <1>8, <1>9 DEF ToSet
<1>11. \A m \in 1..Len(h[n]) : h[n][m] \in start..(stop - 1)
  BY <1>7, <1>9, ElementOfSeq DEF Covers
<1>12. Keyframes \in SUBSET (start..(stop - 1))
  BY <1>10, <1>11
<1>13. ASSUME NEW t \in start..(stop - 1)
       PROVE  \E u \in Keyframes : u <= t /\ t - u < MaxGap
  <2>1. PICK m \in 1..Len(h[n]) : h[n][m] <= t /\ t - h[n][m] < MaxGap
    BY <1>7 DEF Covers
  <2>2. h[n][m] \in Keyframes
    BY <1>10
  <2> QED BY <2>1, <2>2
<1> QED BY <1>12, <1>13

(* Where no keyframe is inside a segment, the nearest to its centre is there. *)
LEMMA NearestFrameOf ==
  ASSUME NEW F \in SUBSET Nat, F # {}, NEW g, g.s \in Nat, g.e \in Nat
  PROVE  /\ NearestFrame(F, g) \in F
         /\ \A o \in F : Distance(2 * NearestFrame(F, g), g.s + g.e)
                           <= Distance(2 * o, g.s + g.e)
<1> DEFINE D == {Distance(2 * o, g.s + g.e) : o \in F}
<1>1. D \in SUBSET Nat /\ D # {}
  <2>1. \A o \in F : 2 * o \in Nat /\ g.s + g.e \in Nat
    OBVIOUS
  <2>2. \A o \in F : Distance(2 * o, g.s + g.e) \in Nat
    BY <2>1 DEF Distance
  <2>3. D # {}
    OBVIOUS
  <2> QED BY <2>2, <2>3
<1>2. PICK d \in D : \A c \in D : d <= c
  <2> HIDE DEF D
  <2> QED BY <1>1, LeastElement
<1>3. \E t \in F : \A o \in F : Distance(2 * t, g.s + g.e) <= Distance(2 * o, g.s + g.e)
  BY <1>2
<1> QED BY <1>3 DEF NearestFrame

(* The frames chosen among q[1..k]: a picture is not chosen twice. *)
Distinct(chosen, q, k) ==
  /\ chosen \in Seq(Int)
  /\ \A m \in 1..Len(chosen) : \E i \in 1..k : chosen[m] = q[i]
  /\ k # 0 => Len(chosen) # 0
  /\ \A m, o \in 1..Len(chosen) : chosen[m] < chosen[o] => Changed(chosen[m], chosen[o])

LEMMA PickStaysDistinct ==
  ASSUME NEW n \in Nat, NEW q \in [1..n -> Int], \A i, j \in 1..n : i < j => q[i] < q[j],
         NEW k \in 1..n, NEW acc, Distinct(acc, q, k - 1)
  PROVE  Distinct(Pick(acc, q[k]), q, k)
<1> DEFINE t == q[k]
           app == Append(acc, t)
<1>1. acc \in Seq(Int) /\ t \in Int
  BY DEF Distinct
<1>2. /\ \A m \in 1..Len(acc) : \E i \in 1..(k - 1) : acc[m] = q[i]
      /\ k - 1 # 0 => Len(acc) # 0
      /\ \A m, o \in 1..Len(acc) : acc[m] < acc[o] => Changed(acc[m], acc[o])
  BY DEF Distinct
<1>3. Len(acc) \in Nat /\ DOMAIN acc = 1..Len(acc)
  BY <1>1
<1>4. \A m \in 1..Len(acc) : acc[m] < t /\ acc[m] \in Int
  <2> SUFFICES ASSUME NEW m \in 1..Len(acc) PROVE acc[m] < t /\ acc[m] \in Int
    OBVIOUS
  <2>1. PICK i \in 1..(k - 1) : acc[m] = q[i]
    BY <1>2
  <2>2. i \in 1..n /\ i < k
    BY <2>1
  <2> QED BY <2>1, <2>2
<1>5. CASE Pick(acc, t) = acc /\ Len(acc) # 0
  <2>1. \A i \in 1..(k - 1) : i \in 1..k
    OBVIOUS
  <2>2. \A m \in 1..Len(acc) : \E i \in 1..k : acc[m] = q[i]
    BY <1>2, <2>1
  <2> HIDE DEF t
  <2>3. Distinct(acc, q, k)
    BY <1>1, <1>2, <1>5, <2>2 DEF Distinct
  <2> QED BY <1>5, <2>3 DEF t
<1>6. CASE Pick(acc, t) = app /\ \A m \in 1..Len(acc) : Changed(acc[m], t)
  <2>1. /\ app \in Seq(Int) /\ Len(app) = Len(acc) + 1 /\ app[Len(acc) + 1] = t
        /\ \A m \in 1..Len(acc) : app[m] = acc[m]
    BY <1>1, AppendProperties
  <2>2. \A m \in 1..Len(app) : m \in 1..Len(acc) \/ m = Len(acc) + 1
    BY <1>3, <2>1
  <2> HIDE DEF t, app
  <2>3. \A m \in 1..Len(app) : \E i \in 1..k : app[m] = q[i]
    <3> SUFFICES ASSUME NEW m \in 1..Len(app) PROVE \E i \in 1..k : app[m] = q[i]
      OBVIOUS
    <3>1. CASE m \in 1..Len(acc)
      <4>1. PICK i \in 1..(k - 1) : acc[m] = q[i]
        BY <1>2, <3>1
      <4> QED BY <2>1, <3>1, <4>1
    <3>2. CASE m = Len(acc) + 1
      <4>1. k \in 1..k
        OBVIOUS
      <4> QED BY <2>1, <3>2, <4>1 DEF t
    <3> QED BY <2>2, <3>1, <3>2
  <2>4. ASSUME NEW m \in 1..Len(app), NEW o \in 1..Len(app), app[m] < app[o]
        PROVE  Changed(app[m], app[o])
    <3>1. CASE m \in 1..Len(acc) /\ o \in 1..Len(acc)
      BY <1>2, <2>1, <2>4, <3>1
    <3>2. CASE m \in 1..Len(acc) /\ o = Len(acc) + 1
      BY <1>6, <2>1, <3>2
    <3>3. CASE m = Len(acc) + 1 /\ o \in 1..Len(acc)
      <4>1. app[m] = t /\ app[o] = acc[o] /\ acc[o] < t /\ acc[o] \in Int
        BY <1>4, <2>1, <3>3
      <4> QED BY <1>1, <2>4, <4>1
    <3>4. CASE m = Len(acc) + 1 /\ o = Len(acc) + 1
      BY <1>1, <2>1, <2>4, <3>4
    <3> QED BY <2>2, <3>1, <3>2, <3>3, <3>4
  <2>5. Len(app) # 0
    BY <1>3, <2>1
  <2>6. Distinct(app, q, k)
    BY <2>1, <2>3, <2>4, <2>5 DEF Distinct
  <2> QED BY <1>6, <2>6 DEF t
<1>7. \/ Pick(acc, t) = acc /\ Len(acc) # 0
      \/ Pick(acc, t) = app /\ \A m \in 1..Len(acc) : Changed(acc[m], t)
  <2> HIDE DEF t, app
  <2>1. CASE Len(acc) < PerSegment /\ \A m \in DOMAIN acc : Changed(acc[m], t)
    BY <1>3, <2>1, Zenon DEF Pick, app
  <2>2. CASE ~ (Len(acc) < PerSegment /\ \A m \in DOMAIN acc : Changed(acc[m], t))
    <3>1. Len(acc) # 0
      BY <1>3, <2>2, WindowBounds
    <3> QED BY <2>2, <3>1 DEF Pick
  <2> QED BY <2>1, <2>2, Zenon
<1> HIDE DEF app
<1>8. Distinct(Pick(acc, t), q, k)
  BY <1>5, <1>6, <1>7
<1> QED BY <1>8

(* pick_distinct() of one frame or more: some of them, no picture twice. *)
LEMMA PickedFrames ==
  ASSUME NEW S \in SUBSET Int, IsFiniteSet(S), S # {}
  PROVE  LET shown == ToSet(FoldLeft(Pick, <<>>, Ranked(S, <)))
         IN  /\ shown # {} /\ shown \in SUBSET S
             /\ \A u, t \in shown : u < t => Changed(u, t)
<1> DEFINE n == Cardinality(S)
           q == Ranked(S, <)
           b == <<>>
           shown == ToSet(FoldLeft(Pick, b, q))
<1>1. /\ n \in Nat /\ q \in [1..n -> S] /\ \A i, j \in 1..n : i < j <=> q[i] < q[j]
      /\ \A x \in S : \E i \in 1..n : q[i] = x
  BY NumbersInOrder
<1> HIDE DEF n, q
<1>2. n # 0 /\ n \in Nat /\ q \in [1..n -> Int] /\ b \in Seq(Int)
  <2>1. PICK x \in S : TRUE
    OBVIOUS
  <2>2. PICK i \in 1..n : q[i] = x
    BY <1>1, <2>1
  <2>3. n # 0
    BY <1>1, <2>2
  <2>4. b \in Seq(Int)
    OBVIOUS
  <2> HIDE DEF b, shown
  <2> QED BY <1>1, <2>3, <2>4
<1> HIDE DEF shown, b
<1>3. PICK h : FramesWalk(h, b, q, n)
  BY <1>2, FramesOneByOne
<1>4. /\ h[0] = b /\ \A i \in 1..n : h[i] = Pick(h[i - 1], q[i])
      /\ FoldLeft(Pick, b, q) = h[n]
  BY <1>3 DEF FramesWalk
<1> DEFINE Good == {i \in 0..n : Distinct(h[i], q, i)}
<1>5. 0 \in Good
  <2>1. h[0] \in Seq(Int) /\ Len(h[0]) = 0
    BY <1>4 DEF b
  <2>2. 1..0 = {} /\ 0 \in 0..n
    BY <1>1
  <2>3. Distinct(h[0], q, 0)
    BY <2>1, <2>2 DEF Distinct
  <2> QED BY <2>2, <2>3
<1>6. ASSUME NEW i \in 1..n, i - 1 \in Good PROVE i \in Good
  <2>1. Distinct(h[i - 1], q, i - 1)
    BY <1>6
  <2>2. Distinct(Pick(h[i - 1], q[i]), q, i)
    BY <1>1, <1>2, <2>1, PickStaysDistinct
  <2>3. Distinct(h[i], q, i) /\ i \in 0..n
    BY <1>4, <2>2
  <2> QED BY <2>3
<1>7. n \in Good
  <2> HIDE DEF Good
  <2>1. \A i \in 1..n : i - 1 \in Good => i \in Good
    BY <1>6
  <2>2. \A i \in 0..n : i \in Good
    BY <1>1, <1>5, <2>1, StepByStep
  <2> QED BY <1>1, <2>2
<1>8. Distinct(h[n], q, n)
  BY <1>7
<1>9. shown = ToSet(h[n])
  BY <1>4 DEF shown
<1>10. h[n] \in Seq(Int) /\ Len(h[n]) \in Nat /\ DOMAIN h[n] = 1..Len(h[n])
  BY <1>8 DEF Distinct
<1> HIDE DEF shown, Good
<1>11. \A x : x \in shown <=> \E m \in 1..Len(h[n]) : h[n][m] = x
  BY <1>9, <1>10 DEF ToSet
<1>12. shown \in SUBSET S
  <2> SUFFICES ASSUME NEW x \in shown PROVE x \in S
    OBVIOUS
  <2>1. PICK m \in 1..Len(h[n]) : h[n][m] = x
    BY <1>11
  <2>2. PICK i \in 1..n : h[n][m] = q[i]
    BY <1>8 DEF Distinct
  <2> QED BY <1>1, <2>1, <2>2
<1>13. shown # {}
  <2>1. 1 \in 1..Len(h[n])
    BY <1>2, <1>8, <1>10 DEF Distinct
  <2> QED BY <1>11, <2>1
<1>14. \A u, t \in shown : u < t => Changed(u, t)
  BY <1>8, <1>11 DEF Distinct
<1> QED BY <1>12, <1>13, <1>14 DEF shown, b, q

(* Every segment lies in its chunk. *)
LEMMA SegmentsInChunk ==
  ASSUME PlanInv, stage = "embed", NEW k \in 1..Len(segs)
  PROVE  /\ segs[k].s \in Nat /\ segs[k].e \in Nat /\ segs[k].s < segs[k].e
         /\ start <= segs[k].s /\ segs[k].e <= stop
<1> DEFINE n == Len(segs)
           First == {i \in 0..(n - 1) : start <= segs[i + 1].s}
           Final == {i \in 0..(n - 1) : segs[n - i].e <= stop}
<1>1. /\ n \in Nat \ {0} /\ n - 1 \in Nat /\ segs # <<>>
      /\ \A i \in 1..n : segs[i].s \in Nat /\ segs[i].e \in Nat
  BY SegmentsAreNumbers DEF PlanInv, SegmentsTile
<1>2. /\ segs[1].s = start /\ segs[n].e = stop /\ start \in Nat /\ stop \in Nat
      /\ \A i \in 1..(n - 1) : segs[i].e = segs[i + 1].s
  BY <1>1, ChunkOfVideo DEF PlanInv, SegmentsTile, cur, SegTypeOK
<1>3. \A i \in 1..n : segs[i].s < segs[i].e
  <2>1. DOMAIN segs = 1..n
    BY SegmentsAreNumbers DEF PlanInv
  <2>2. \A i \in 1..n : segs[i].e - segs[i].s > 0
    BY <2>1 DEF PlanInv, SegmentsTile
  <2> QED BY <1>1, <2>2
<1>4. k \in 1..n
  OBVIOUS
<1> HIDE DEF n
<1>5. k - 1 \in First
  <2>1. 0 \in First
    BY <1>1, <1>2
  <2>2. ASSUME NEW i \in 1..(n - 1), i - 1 \in First PROVE i \in First
    <3>1. i \in 1..n /\ i + 1 \in 1..n /\ (i - 1) + 1 = i /\ i \in 0..(n - 1)
      BY <1>1
    <3>2. start <= segs[i].s /\ segs[i].s < segs[i].e /\ segs[i].e = segs[i + 1].s
      BY <1>2, <1>3, <2>2, <3>1
    <3>3. segs[i].s \in Nat /\ segs[i + 1].s \in Nat
      BY <1>1, <3>1
    <3> QED BY <1>2, <3>1, <3>2, <3>3
  <2> HIDE DEF First
  <2>3. \A i \in 1..(n - 1) : i - 1 \in First => i \in First
    BY <2>2
  <2>4. \A i \in 0..(n - 1) : i \in First
    BY <1>1, <2>1, <2>3, StepByStep
  <2> QED BY <1>1, <1>4, <2>4
<1>6. n - k \in Final
  <2>1. 0 \in Final
    BY <1>1, <1>2
  <2>2. ASSUME NEW i \in 1..(n - 1), i - 1 \in Final PROVE i \in Final
    <3>1. /\ n - i \in 1..(n - 1) /\ (n - i) + 1 = n - (i - 1) /\ i \in 0..(n - 1)
          /\ n - i \in 1..n /\ n - (i - 1) \in 1..n
      BY <1>1
    <3> DEFINE m == n - i
               o == n - (i - 1)
    <3>2. segs[o].e <= stop /\ segs[m].e = segs[o].s /\ segs[o].s < segs[o].e
      BY <1>2, <1>3, <2>2, <3>1
    <3>3. segs[m].e \in Nat /\ segs[o].s \in Nat /\ segs[o].e \in Nat
      BY <1>1, <3>1
    <3> HIDE DEF m, o
    <3>4. segs[m].e <= stop
      BY <1>2, <3>2, <3>3
    <3> QED BY <3>1, <3>4 DEF m
  <2> HIDE DEF Final
  <2>3. \A i \in 1..(n - 1) : i - 1 \in Final => i \in Final
    BY <2>2
  <2>4. \A i \in 0..(n - 1) : i \in Final
    BY <1>1, <2>1, <2>3, StepByStep
  <2> QED BY <1>1, <1>4, <2>4
<1>7. (k - 1) + 1 = k /\ n - (n - k) = k
  BY <1>1, <1>4
<1>8. start <= segs[k].s /\ segs[k].e <= stop
  BY <1>5, <1>6, <1>7
<1> QED BY <1>1, <1>3, <1>4, <1>8

(* Keyframes are chosen before the segments exist, and still a long segment *)
(* shows a frame of its own, no segment a frame further away than the gap,  *)
(* and none the same picture twice.                                         *)
THEOREM SegmentsShowFrames == SegSpec => []SegmentsHaveFrames
<1>1. PlanInv => SegmentsHaveFrames
  <2> SUFFICES ASSUME PlanInv, stage = "embed", NEW k \in DOMAIN segs
               PROVE  LET shown == FramesOf(Keyframes, segs[k])
                      IN  /\ segs[k].e - segs[k].s >= MaxGap => Inside(Keyframes, segs[k]) # {}
                          /\ shown # {}
                          /\ \A t \in shown :
                               /\ t > segs[k].s - MaxGap /\ t < segs[k].e + MaxGap
                               /\ \A u \in shown : u < t => Changed(u, t)
    BY DEF SegmentsHaveFrames
  <2> DEFINE F == Keyframes
             g == segs[k]
             inside == IF Inside(F, g) # {} THEN Inside(F, g) ELSE {NearestFrame(F, g)}
             shown == FramesOf(F, g)
  <2>1. start \in Nat /\ stop \in Nat /\ start < stop /\ MaxGap \in Nat \ {0}
    BY ChunkOfVideo, WindowBounds DEF PlanInv, SegTypeOK
  <2>2. g.s \in Nat /\ g.e \in Nat /\ g.s < g.e /\ start <= g.s /\ g.e <= stop
    <3>1. k \in 1..Len(segs)
      BY SegmentsAreNumbers DEF PlanInv
    <3> QED BY <3>1, SegmentsInChunk
  <2>3. /\ F \in SUBSET (start..(stop - 1))
        /\ \A t \in start..(stop - 1) : \E u \in F : u <= t /\ t - u < MaxGap
    BY <2>1, KeyframesAreNear
  <2> HIDE DEF F, g
  <2>4. F \in SUBSET Nat /\ F \in SUBSET Int
    BY <2>1, <2>3
  <2>5. PICK u \in F : u <= g.s /\ g.s - u < MaxGap
    <3>1. g.s \in start..(stop - 1)
      BY <2>1, <2>2
    <3> QED BY <2>3, <3>1
  <2>6. ASSUME g.e - g.s >= MaxGap PROVE Inside(F, g) # {}
    <3>1. g.e - 1 \in start..(stop - 1)
      BY <2>1, <2>2
    <3>2. PICK v \in F : v <= g.e - 1 /\ (g.e - 1) - v < MaxGap
      BY <2>3, <3>1
    <3>3. v \in Nat /\ g.s <= v /\ v < g.e
      BY <2>1, <2>2, <2>4, <2>6, <3>2
    <3>4. v \in Inside(F, g)
      BY <3>3 DEF Inside
    <3> QED BY <3>4
  <2>7. ASSUME NEW t \in inside PROVE t \in F /\ t > g.s - MaxGap /\ t < g.e + MaxGap
    <3>1. CASE t \in Inside(F, g)
      <4>1. t \in F /\ g.s <= t /\ t < g.e /\ t \in Nat
        BY <2>4, <3>1 DEF Inside
      <4> QED BY <2>1, <2>2, <4>1
    <3>2. CASE t = NearestFrame(F, g)
      <4>1. t \in F /\ Distance(2 * t, g.s + g.e) <= Distance(2 * u, g.s + g.e)
        BY <2>2, <2>4, <2>5, <3>2, NearestFrameOf
      <4>2. t \in Nat /\ u \in Nat
        BY <2>4, <4>1
      <4> QED BY <2>1, <2>2, <2>5, <4>1, <4>2 DEF Distance
    <3> QED BY <2>7, <3>1, <3>2
  <2>8. inside \in SUBSET F /\ inside # {}
    BY <2>7
  <2>9. inside \in SUBSET Int /\ IsFiniteSet(inside)
    <3> HIDE DEF inside
    <3>1. IsFiniteSet(start..(stop - 1))
      BY <2>1, FS_Interval
    <3>2. inside \in SUBSET (start..(stop - 1)) /\ inside \in SUBSET Int
      BY <2>3, <2>4, <2>8
    <3> QED BY <3>1, <3>2, FS_Subset
  <2>10. shown = ToSet(FoldLeft(Pick, <<>>, Ranked(inside, <)))
    BY DEF FramesOf
  <2> HIDE DEF inside
  <2>11. /\ shown # {} /\ shown \in SUBSET inside
         /\ \A v, t \in shown : v < t => Changed(v, t)
    <3>1. LET sh == ToSet(FoldLeft(Pick, <<>>, Ranked(inside, <)))
          IN  /\ sh # {} /\ sh \in SUBSET inside
              /\ \A v, t \in sh : v < t => Changed(v, t)
      BY <2>8, <2>9, PickedFrames
    <3> QED BY <2>10, <3>1, Zenon
  <2> HIDE DEF shown
  <2>12. \A t \in shown : /\ t > g.s - MaxGap /\ t < g.e + MaxGap
                          /\ \A v \in shown : v < t => Changed(v, t)
    BY <2>7, <2>11
  <2> QED BY <2>6, <2>11, <2>12 DEF shown, F, g
<1> QED BY <1>1, PlanInvHolds, PTL

-----------------------------------------------------------------------------
(***************************************************************************)
(* The temporal windows: TimeOf(k) is where the k-th turn of the loop of   *)
(* sample_windows() begins.                                                *)
(***************************************************************************)
TimeOf(k) == start + k * StrideS

EndOf(k) == IF TimeOf(k) + WindowS < last + 1 THEN TimeOf(k) + WindowS ELSE last + 1

LEMMA TurnsMoveOn ==
  ASSUME start \in Nat, NEW k \in Nat
  PROVE  /\ TimeOf(0) = start /\ TimeOf(k) \in Nat /\ start + k <= TimeOf(k)
         /\ TimeOf(k + 1) = TimeOf(k) + StrideS
<1>1. StrideS \in Nat /\ StrideS >= 1
  BY WindowBounds
<1>2. k * StrideS \in Nat /\ (k + 1) * StrideS = k * StrideS + StrideS /\ 0 * StrideS = 0
  BY <1>1
<1>3. k <= k * StrideS
  BY <1>1
<1>4. TimeOf(0) = start
  BY <1>2 DEF TimeOf
<1>5. TimeOf(k) \in Nat /\ start + k <= TimeOf(k)
  BY <1>2, <1>3 DEF TimeOf
<1>6. TimeOf(k + 1) = TimeOf(k) + StrideS
  <2>1. TimeOf(k + 1) = start + (k * StrideS + StrideS)
    BY <1>2 DEF TimeOf
  <2>2. TimeOf(k) = start + k * StrideS
    BY DEF TimeOf
  <2> QED BY <1>1, <1>2, <2>1, <2>2
<1> QED BY <1>4, <1>5, <1>6

(* The turn of the loop before this one did not break it. *)
LEMMA TurnBefore ==
  ASSUME NEW k \in Nat
  PROVE  HasWindow(k) <=> k = 0 \/ TimeOf(k - 1) + WindowS < last + 1
  BY DEF HasWindow, TimeOf

LEMMA WindowShape ==
  ASSUME start \in Nat, stop \in Nat, start < stop, NEW win \in Windows
  PROVE  /\ win.s \in Nat /\ win.e \in Nat
         /\ start <= win.s /\ win.s < win.e /\ win.e <= stop
<1>1. PICK k \in 0..(stop - start) : HasWindow(k) /\ win = [s |-> TimeOf(k), e |-> EndOf(k)]
  BY DEF Windows, TimeOf, EndOf
<1>2. k \in Nat /\ TimeOf(k) \in Nat /\ start <= TimeOf(k)
  BY <1>1, TurnsMoveOn
<1>3. TimeOf(k) < stop
  <2>1. CASE k = 0
    BY <2>1, TurnsMoveOn
  <2>2. CASE k # 0
    <3>1. k - 1 \in Nat /\ (k - 1) + 1 = k
      BY <1>2, <2>2
    <3>2. TimeOf(k) = TimeOf(k - 1) + StrideS /\ TimeOf(k - 1) \in Nat
      BY <3>1, TurnsMoveOn
    <3>3. TimeOf(k - 1) + WindowS < last + 1
      BY <1>1, <1>2, <2>2, TurnBefore
    <3> QED BY <3>2, <3>3, WindowBounds DEF last
  <2> QED BY <2>1, <2>2
<1>4. EndOf(k) \in Nat /\ TimeOf(k) < EndOf(k) /\ EndOf(k) <= stop
  BY <1>2, <1>3, WindowBounds DEF EndOf, last
<1> QED BY <1>1, <1>2, <1>4

(* The first turn that gets past a frame, or to the end, has it in its     *)
(* window.                                                                 *)
LEMMA FramesAreSeen ==
  ASSUME start \in Nat, stop \in Nat, start < stop, NEW t \in start..last
  PROVE  \E win \in Windows : win.s <= t /\ t < win.e
<1> DEFINE A == {k \in Nat : t < TimeOf(k) + StrideS \/ last + 1 <= TimeOf(k) + WindowS}
<1>0. t \in Nat /\ start <= t /\ t <= last /\ StrideS \in Nat /\ 1 <= StrideS
      /\ WindowS \in Nat /\ StrideS <= WindowS /\ last \in Int /\ last + 1 = stop
  BY WindowBounds DEF last
<1>1. t \in A
  <2>1. start + t <= TimeOf(t) /\ TimeOf(t) \in Nat
    BY <1>0, TurnsMoveOn
  <2> QED BY <1>0, <2>1
<1>2. PICK k \in A : \A j \in A : k <= j
  <2>1. A \in SUBSET Nat /\ A # {}
    BY <1>1
  <2> HIDE DEF A
  <2> QED BY <2>1, LeastElement
<1>3. k \in Nat /\ TimeOf(k) \in Nat /\ start + k <= TimeOf(k)
  BY <1>2, TurnsMoveOn
<1>4. HasWindow(k) /\ TimeOf(k) <= t
  <2>1. CASE k = 0
    BY <1>0, <1>3, <2>1, TurnBefore, TurnsMoveOn
  <2>2. CASE k # 0
    <3>1. k - 1 \in Nat /\ k - 1 \notin A
      BY <1>2, <1>3, <2>2
    <3>2. TimeOf(k - 1) \in Nat /\ TimeOf(k) = TimeOf(k - 1) + StrideS
      <4>1. (k - 1) + 1 = k
        BY <1>3
      <4> QED BY <3>1, <4>1, TurnsMoveOn
    <3>3. TimeOf(k - 1) + StrideS <= t /\ TimeOf(k - 1) + WindowS < last + 1
      BY <1>0, <3>1, <3>2
    <3> QED BY <1>3, <3>2, <3>3, TurnBefore
  <2> QED BY <2>1, <2>2
<1>5. t < EndOf(k)
  <2>1. t < TimeOf(k) + StrideS \/ last + 1 <= TimeOf(k) + WindowS
    BY <1>2
  <2> QED BY <1>0, <1>3, <2>1 DEF EndOf
<1>6. k \in 0..(stop - start)
  BY <1>0, <1>3, <1>4
<1>7. [s |-> TimeOf(k), e |-> EndOf(k)] \in Windows
  BY <1>4, <1>6 DEF Windows, TimeOf, EndOf
<1> QED BY <1>4, <1>5, <1>7

(* round() is monotonic, also where it goes to the even number. *)
LEMMA RoundedGrows ==
  ASSUME NEW x \in Nat, NEW y \in Nat, NEW d \in Nat \ {0}, x <= y
  PROVE  Rounded(x, d) \in Nat /\ Rounded(x, d) <= Rounded(y, d)
<1> DEFINE p == x \div d
           r == x % d
           q == y \div d
           u == y % d
<1>1. /\ p \in Nat /\ q \in Nat /\ r \in 0..(d - 1) /\ u \in 0..(d - 1)
      /\ x = d * p + r /\ y = d * q + u
  BY Divided
<1>2. Rounded(x, d) = IF 2 * r > d \/ (2 * r = d /\ p % 2 = 1) THEN p + 1 ELSE p
  BY DEF Rounded
<1>3. Rounded(y, d) = IF 2 * u > d \/ (2 * u = d /\ q % 2 = 1) THEN q + 1 ELSE q
  BY DEF Rounded
<1> HIDE DEF p, r, q, u
<1>4. p <= q
  BY <1>1, QuotientGrows
<1>5. CASE p < q
  BY <1>1, <1>2, <1>3, <1>5
<1>6. CASE p = q
  <2>1. r <= u
    <3>1. d * p \in Nat /\ d * p = d * q
      BY <1>1, <1>6
    <3> QED BY <1>1, <3>1
  <2> QED BY <1>1, <1>2, <1>3, <1>6, <2>1
<1> QED BY <1>1, <1>4, <1>5, <1>6

LEMMA IndicesInOrder ==
  ASSUME NEW win, win.s \in Nat, win.e \in Nat, win.s < win.e, NEW j \in 0..(NFrames - 1)
  PROVE  /\ win.s <= FrameIndices(win)[j] /\ FrameIndices(win)[j] < win.e
         /\ j > 0 => FrameIndices(win)[j - 1] <= FrameIndices(win)[j]
<1> DEFINE n == win.e - win.s
           d == IF NFrames > 2 THEN NFrames - 1 ELSE 1
           i(k) == Rounded(k * (n - 1), d)
           clip(x) == IF x < n - 1 THEN x ELSE n - 1
<1>1. n \in Nat \ {0} /\ d \in Nat \ {0} /\ NFrames \in Nat \ {0}
  BY WindowBounds
<1>2. \A k \in 0..(NFrames - 1) : FrameIndices(win)[k] = win.s + clip(i(k))
  BY DEF FrameIndices
<1>3. i(j) \in Nat
  <2>1. j * (n - 1) \in Nat
    BY <1>1
  <2> HIDE DEF n, d
  <2>2. j * (n - 1) <= j * (n - 1)
    BY <2>1
  <2> QED BY <1>1, <2>1, <2>2, RoundedGrows
<1>4. ASSUME j > 0 PROVE j - 1 \in 0..(NFrames - 1) /\ i(j - 1) \in Nat /\ i(j - 1) <= i(j)
  <2>1. j \in Nat /\ j - 1 \in 0..(NFrames - 1) /\ j - 1 \in Nat
    BY <1>1, <1>4
  <2> HIDE DEF n, d
  <2>2. n - 1 \in Nat
    BY <1>1
  <2>3. /\ j * (n - 1) \in Nat /\ (j - 1) * (n - 1) \in Nat
        /\ (j - 1) * (n - 1) = j * (n - 1) - (n - 1)
    BY <2>1, <2>2
  <2>4. (j - 1) * (n - 1) <= j * (n - 1)
    BY <2>2, <2>3
  <2> QED BY <1>1, <2>1, <2>3, <2>4, RoundedGrows
<1>5. clip(i(j)) \in 0..(n - 1)
  <2> HIDE DEF i
  <2> QED BY <1>1, <1>3
<1>6. j > 0 => clip(i(j - 1)) <= clip(i(j))
  <2> HIDE DEF i
  <2> QED BY <1>1, <1>3, <1>4
<1> HIDE DEF clip, i
<1>7. FrameIndices(win)[j] = win.s + clip(i(j))
  BY <1>2
<1>8. j > 0 => FrameIndices(win)[j - 1] = win.s + clip(i(j - 1))
  BY <1>2, <1>4
<1>9. j > 0 => clip(i(j - 1)) \in 0..(n - 1)
  <2> SUFFICES ASSUME j > 0 PROVE clip(i(j - 1)) \in 0..(n - 1)
    OBVIOUS
  <2> QED BY <1>1, <1>4 DEF clip
<1> QED BY <1>1, <1>5, <1>6, <1>7, <1>8, <1>9

(* Of a finished plan some segment has the centre of the window, the first *)
(* that ends behind it.                                                    *)
LEMMA CentreHasSegment ==
  ASSUME PlanInv, stage = "embed", NEW win \in Windows
  PROVE  LET g == segs[SegmentOfWindow(win)] IN g.s < win.e /\ win.s < g.e
<1> DEFINE c == win.s + win.e
           A == {k \in 1..Len(segs) : c < 2 * segs[k].e}
           centred == {k \in DOMAIN segs : 2 * segs[k].s <= c /\ c < 2 * segs[k].e}
<1>1. start \in Nat /\ stop \in Nat /\ start < stop
  BY ChunkOfVideo DEF PlanInv, SegTypeOK
<1>2. /\ win.s \in Nat /\ win.e \in Nat
      /\ start <= win.s /\ win.s < win.e /\ win.e <= stop
  BY <1>1, WindowShape
<1>3. /\ Len(segs) \in Nat /\ Len(segs) \in 1..Len(segs) /\ segs # <<>>
      /\ \A k \in 1..Len(segs) : segs[k].s \in Nat /\ segs[k].e \in Nat
      /\ DOMAIN segs = 1..Len(segs)
  BY SegmentsAreNumbers DEF PlanInv, SegmentsTile
<1>4. segs[Len(segs)].e = stop
  BY <1>3 DEF PlanInv, SegmentsTile, cur
<1>5. Len(segs) \in A
  BY <1>2, <1>3, <1>4
<1>6. PICK k \in A : \A o \in A : k <= o
  <2>1. A \in SUBSET Nat /\ A # {}
    BY <1>5
  <2> HIDE DEF A
  <2> QED BY <2>1, LeastElement
<1>7. k \in 1..Len(segs) /\ c < 2 * segs[k].e
  BY <1>6
<1>8. 2 * segs[k].s <= c
  <2>1. CASE k = 1
    BY <1>1, <1>2, <1>3, <2>1 DEF PlanInv, SegmentsTile
  <2>2. CASE k # 1
    <3>1. k - 1 \in 1..Len(segs) /\ k - 1 \in 1..(Len(segs) - 1) /\ (k - 1) + 1 = k
      BY <1>3, <1>7, <2>2
    <3>2. ~(c < 2 * segs[k - 1].e)
      BY <1>6, <1>7, <3>1
    <3>3. segs[k - 1].e = segs[k].s
      BY <3>1 DEF PlanInv, SegmentsTile
    <3>4. segs[k].s \in Nat /\ c \in Nat
      BY <1>2, <1>3, <1>7
    <3>5. ~(c < 2 * segs[k].s)
      BY <3>2, <3>3
    <3> HIDE DEF c
    <3> QED BY <3>4, <3>5
  <2> QED BY <2>1, <2>2
<1>9. centred \in SUBSET Nat /\ centred # {}
  <2>1. k \in centred
    <3> HIDE DEF c
    <3> QED BY <1>3, <1>7, <1>8
  <2>2. centred \subseteq 1..Len(segs)
    BY <1>3
  <2> HIDE DEF centred
  <2> QED BY <1>3, <2>1, <2>2
<1>10. Min(centred) \in centred
  <2>1. PICK x \in centred : \A y \in centred : x <= y
    <3> HIDE DEF centred
    <3> QED BY <1>9, LeastElement
  <2> HIDE DEF centred
  <2> QED BY <2>1 DEF Min
<1>11. SegmentOfWindow(win) = Min(centred)
  BY <1>9 DEF SegmentOfWindow
<1>12. SegmentOfWindow(win) \in centred
  BY <1>10, <1>11
<1>13. PICK g \in 1..Len(segs) : g = SegmentOfWindow(win) /\ 2 * segs[g].s <= c /\ c < 2 * segs[g].e
  BY <1>3, <1>12
<1>14. segs[g].s \in Nat /\ segs[g].e \in Nat
  BY <1>3, <1>13
<1>15. 2 * segs[g].s <= win.s + win.e /\ win.s + win.e < 2 * segs[g].e
  BY <1>13
<1> HIDE DEF c, A, centred
<1>16. segs[g].s < win.e /\ win.s < segs[g].e
  BY <1>2, <1>14, <1>15
<1> QED BY <1>13, <1>16, Zenon

(* Every frame of the chunk is in a window, the frames of a window are     *)
(* inside it and in order, and it is stored with a segment it overlaps.    *)
THEOREM WindowsCoverTheChunk == SegSpec => []WindowsCover
<1>1. PlanInv => WindowsCover
  <2> SUFFICES ASSUME PlanInv, stage = "embed"
               PROVE  /\ \A t \in start..last : \E win \in Windows : win.s <= t /\ t < win.e
                      /\ \A win \in Windows :
                           /\ \A j \in 0..(NFrames - 1) :
                                /\ win.s <= FrameIndices(win)[j]
                                /\ FrameIndices(win)[j] < win.e
                                /\ j > 0 => FrameIndices(win)[j - 1] <= FrameIndices(win)[j]
                           /\ LET g == segs[SegmentOfWindow(win)]
                              IN  g.s < win.e /\ win.s < g.e
    BY DEF WindowsCover
  <2>1. start \in Nat /\ stop \in Nat /\ start < stop
    BY ChunkOfVideo DEF PlanInv, SegTypeOK
  <2>2. \A win \in Windows : \A j \in 0..(NFrames - 1) :
          /\ win.s <= FrameIndices(win)[j] /\ FrameIndices(win)[j] < win.e
          /\ j > 0 => FrameIndices(win)[j - 1] <= FrameIndices(win)[j]
    BY <2>1, WindowShape, IndicesInOrder
  <2> QED BY <2>1, <2>2, FramesAreSeen, CentreHasSegment
<1> QED BY <1>1, PlanInvHolds, PTL

-----------------------------------------------------------------------------
(* Topics *)

(* What the assumptions say of the segments of one timeline. *)
LEMMA SegmentsInOrder ==
  ASSUME line \in Timelines
  PROVE  /\ Size \in Nat \ {0}
         /\ \A k \in 1..Size : line[k].s \in Nat /\ line[k].e \in Nat
         /\ \A k \in 1..(Size - 1) : line[k].e <= line[k + 1].s
<1>1. /\ line \in Seq([s : Nat, e : Nat]) /\ line # <<>>
      /\ \A k \in 1..(Len(line) - 1) : line[k].e <= line[k + 1].s
  BY TimelinesType
<1>2. Len(line) \in Nat \ {0}
  BY <1>1
<1>3. ASSUME NEW k \in 1..Len(line) PROVE line[k] \in [s : Nat, e : Nat]
  <2> DEFINE R == [s : Nat, e : Nat]
  <2>1. line \in Seq(R)
    BY <1>1
  <2> HIDE DEF R
  <2>2. line[k] \in R
    BY <2>1, <1>2
  <2> QED BY <2>2 DEF R
<1> QED BY <1>1, <1>2, <1>3 DEF Size

(* The minimum of a forced cut is one for a cut at a deep gap too. *)
LEMMA RelaxedIsLess ==
  ASSUME line \in Timelines
  PROVE  relaxed \in Int /\ min_topic_s \in Int /\ relaxed <= min_topic_s
<1>1. line[Size].e - line[1].s \in Int
  BY SegmentsInOrder
<1>2. sixth \in Int
  BY <1>1, TopicBounds DEF sixth
<1> QED BY <1>2, TopicBounds DEF min_topic_s, relaxed

-----------------------------------------------------------------------------
(* Every variable keeps its type; forced cuts lie between two segments. *)
THEOREM TopicTypeCorrect == TopicSpec => []TopicTypeOK
<1>1. TopicInit => TopicTypeOK
  <2> SUFFICES ASSUME TopicInit PROVE TopicTypeOK
    OBVIOUS
  <2>1. Size \in Nat
    BY SegmentsInOrder DEF TopicInit
  <2>2. Len(titles) = Size
    BY <2>1 DEF TopicInit
  <2>3. forced \subseteq 1..(Size - 1)
    BY <2>2 DEF TopicInit, heading_cuts
  <2> QED BY <2>3 DEF TopicInit, TopicTypeOK
<1>2. TopicTypeOK /\ [TopicNext]_topicVars => TopicTypeOK'
  <2> SUFFICES ASSUME TopicTypeOK, [TopicNext]_topicVars PROVE TopicTypeOK'
    OBVIOUS
  <2>1. CASE UNCHANGED topicVars
    BY <2>1 DEF topicVars, TopicTypeOK, Size
  <2>2. ASSUME NEW b \in 1..(Size - 1), TryForced(b) PROVE TopicTypeOK'
    BY <2>2 DEF TryForced, TopicTypeOK, Size
  <2>3. ASSUME NEW b \in 1..(Size - 1), TryDeep(b) PROVE TopicTypeOK'
    BY <2>3 DEF TryDeep, TopicTypeOK, Size
  <2> QED BY <2>1, <2>2, <2>3 DEF TopicNext
<1> QED BY <1>1, <1>2, PTL DEF TopicSpec

-----------------------------------------------------------------------------
(* What topicCuts and the line say of the length of the topics. *)
LongIn(C) ==
  \A a, b \in 0..Size :
    Consecutive(C, a, b) /\ C # {} => line[b].e - line[a + 1].s >= relaxed

(* The invariant: types, and the speech of every topic is long enough. *)
LongInv == TopicTypeOK /\ LongIn(topicCuts)

(* A cut that _long_enough() accepts divides one topic in two that are long *)
(* enough, and leaves the others alone.                                     *)
LEMMA CutKeepsLong ==
  ASSUME line \in Timelines, NEW C \in SUBSET (1..(Size - 1)), LongIn(C),
         NEW x \in 1..(Size - 1), NEW least \in Int, relaxed <= least,
         _long_enough(C, x, least)
  PROVE  LongIn(C \cup {x})
<1> SUFFICES ASSUME x \notin C, NEW a \in 0..Size, NEW b \in 0..Size,
                    Consecutive(C \cup {x}, a, b)
             PROVE  line[b].e - line[a + 1].s >= relaxed
  <2>1. CASE x \in C
    <3>1. C \cup {x} = C
      BY <2>1
    <3> QED BY <3>1
  <2> QED BY <2>1 DEF LongIn
<1>0. /\ Size \in Nat \ {0} /\ relaxed \in Int
      /\ \A k \in 1..Size : line[k].s \in Int /\ line[k].e \in Int
  BY SegmentsInOrder, RelaxedIsLess
<1>1. /\ a \in Bounds(C) \cup {x} /\ b \in Bounds(C) \cup {x} /\ a < b
      /\ \A c \in Bounds(C) \cup {x} : c <= a \/ b <= c
  BY DEF Consecutive, Bounds
<1>2. \A c \in Bounds(C) : c \in 0..Size /\ c # x
  <2>1. 0 \in 0..Size /\ Size \in 0..Size /\ 0 # x /\ Size # x
    BY <1>0
  <2>2. \A c \in C : c \in 0..Size /\ c # x
    BY <1>0
  <2> QED BY <2>1, <2>2 DEF Bounds
<1>3. CASE b = x
  <2>1. a \in Bounds(C) /\ EndsTopicFrom(C, x, a)
    BY <1>0, <1>1, <1>2, <1>3 DEF EndsTopicFrom
  <2>2. line[x].e - line[a + 1].s >= least
    BY <2>1 DEF _long_enough
  <2> QED BY <2>2, <1>0, <1>1, <1>3
<1>4. CASE a = x
  <2>1. b \in Bounds(C) /\ BeginsTopicTo(C, x, b)
    BY <1>0, <1>1, <1>2, <1>4 DEF BeginsTopicTo
  <2>2. line[b].e - line[x + 1].s >= least
    BY <2>1 DEF _long_enough
  <2> QED BY <2>2, <1>0, <1>1, <1>4
<1>5. CASE a # x /\ b # x
  <2>1. Consecutive(C, a, b)
    BY <1>1, <1>5 DEF Consecutive
  <2>2. C # {}
    <3> SUFFICES ASSUME C = {} PROVE FALSE
      OBVIOUS
    <3>1. a = 0 /\ b = Size
      BY <1>0, <1>1, <1>5 DEF Bounds
    <3> QED BY <3>1, <1>0, <1>1
  <2> QED BY <2>1, <2>2 DEF LongIn
<1> QED BY <1>3, <1>4, <1>5

LEMMA LongInvHolds == TopicSpec => []LongInv
<1>1. TopicInit => LongIn(topicCuts)
  BY DEF TopicInit, LongIn
<1>2. TopicTypeOK /\ LongIn(topicCuts) /\ [TopicNext]_topicVars => LongIn(topicCuts)'
  <2> SUFFICES ASSUME TopicTypeOK, LongIn(topicCuts), [TopicNext]_topicVars
               PROVE  LongIn(topicCuts)'
    OBVIOUS
  <2>1. /\ line \in Timelines /\ topicCuts \in SUBSET (1..(Size - 1))
        /\ relaxed \in Int /\ min_topic_s \in Int /\ relaxed <= min_topic_s
    BY RelaxedIsLess DEF TopicTypeOK
  <2>2. ASSUME line' = line, LongIn(topicCuts') PROVE LongIn(topicCuts)'
    BY <2>2 DEF LongIn, Consecutive, Bounds, Size, relaxed, min_topic_s, sixth
  <2>3. CASE UNCHANGED topicVars
    BY <2>2, <2>3 DEF topicVars
  <2>4. ASSUME NEW b \in 1..(Size - 1), TryForced(b) PROVE LongIn(topicCuts)'
    <3>1. LongIn(topicCuts')
      BY <2>1, <2>4, CutKeepsLong DEF TryForced
    <3> QED BY <3>1, <2>2, <2>4 DEF TryForced
  <2>5. ASSUME NEW b \in 1..(Size - 1), TryDeep(b) PROVE LongIn(topicCuts)'
    <3>1. LongIn(topicCuts')
      BY <2>1, <2>5, CutKeepsLong DEF TryDeep
    <3> QED BY <3>1, <2>2, <2>5 DEF TryDeep
  <2> QED BY <2>3, <2>4, <2>5 DEF TopicNext
<1> QED BY <1>1, <1>2, TopicTypeCorrect, PTL DEF TopicSpec, LongInv

(* Whatever cuts the titles force and the embeddings suggest, in whatever  *)
(* order they are tried, segment_topics() leaves no topic with less speech *)
(* than the relaxed minimum, and the rows build_timeline() stretches over  *)
(* the silence contain the speech of their topic.                          *)
THEOREM TopicsAreLongEnough == TopicSpec => []TopicsLongEnough
<1>1. LongInv => TopicsLongEnough
  <2> SUFFICES ASSUME LongInv, NEW a \in 0..Size, NEW b \in 0..Size,
                      Consecutive(topicCuts, a, b), topicCuts # {}
               PROVE  /\ Topic(a, b).e - line[a + 1].s >= relaxed
                      /\ Topic(a, b).s <= line[a + 1].s
    BY DEF TopicsLongEnough
  <2>1. /\ Size \in Nat \ {0}
        /\ \A k \in 1..Size : line[k].s \in Nat /\ line[k].e \in Nat
        /\ \A k \in 1..(Size - 1) : line[k].e <= line[k + 1].s
    BY SegmentsInOrder DEF LongInv, TopicTypeOK
  <2>2. a < b
    BY DEF Consecutive
  <2>3. line[b].e - line[a + 1].s >= relaxed
    BY DEF LongInv, LongIn
  <2>4. Topic(a, b).s <= line[a + 1].s
    BY <2>1, <2>2 DEF Topic
  <2> QED BY <2>3, <2>4 DEF Topic
<1> QED BY <1>1, LongInvHolds, PTL

-----------------------------------------------------------------------------
(***************************************************************************)
(* Search: the plan and the answer are functions of the request and of     *)
(* what the lanes that are on find.                                        *)
(***************************************************************************)
SearchInv ==
  /\ request \in Requests /\ index \in Indexes
  /\ weights # NoPlan => weights = Planned(request)
  /\ hits # NoPlan => /\ weights # NoPlan
                      /\ hits = Answer(request, weights, index, TextOf, present)

LEMMA SearchInvHolds == SearchSpec => []SearchInv
<1>1. SearchInit => SearchInv
  BY DEF SearchInit, SearchInv
<1>2. SearchInv /\ [SearchNext]_searchVars => SearchInv'
  <2> SUFFICES ASSUME SearchInv, [SearchNext]_searchVars PROVE SearchInv'
    OBVIOUS
  <2>1. CASE UNCHANGED searchVars
    BY <2>1 DEF SearchInv, searchVars
  <2>2. CASE Plan
    BY <2>2 DEF SearchInv, Plan
  <2>3. CASE Rank
    BY <2>3 DEF SearchInv, Rank
  <2>4. ASSUME NEW seg \in Segments, Vanish(seg) PROVE SearchInv'
    BY <2>4 DEF SearchInv, Vanish
  <2> QED BY <2>1, <2>2, <2>3, <2>4 DEF SearchNext
<1> QED BY <1>1, <1>2, PTL DEF SearchSpec

(* The factors of HeuristicRouter are numbers, so 0 stays 0. *)
LEMMA FactorIsNumber ==
  ASSUME NEW lane, NEW cues
  PROVE  Factor(lane, cues) \in Int
<1> DEFINE times(f, g) == (f * g) \div 10
           split  == "split" \in cues
           seen   == "visual" \in cues /\ "speech" \notin cues
           spoken == "speech" \in cues /\ "visual" \notin cues
           look   == CASE split /\ lane \in Visual -> 14
                       [] split /\ lane = "ocr"    -> 13
                       [] ~split /\ seen /\ lane \in Visual -> 15
                       [] OTHER -> 10
           speech == CASE spoken /\ lane = "text"     -> 12
                       [] spoken /\ lane = "lexical"  -> 11
                       [] spoken /\ lane \in Visual   -> 6
                       [] OTHER -> 10
           screen == IF lane = "ocr" /\ "ocr" \in cues THEN 16 ELSE 10
           exact  == CASE "exact" \in cues /\ lane = "lexical" -> 15
                       [] "exact" \in cues /\ lane = "ocr"     -> 13
                       [] OTHER -> 10
<1>1. Factor(lane, cues) = times(times(look, speech), times(screen, exact))
  BY DEF Factor
<1>2. look \in {10, 13, 14, 15}
  BY Zenon
<1>3. speech \in {6, 10, 11, 12}
  BY Zenon
<1>4. screen \in {10, 16} /\ exact \in {10, 13, 15}
  BY Zenon
<1> HIDE DEF split, seen, spoken, look, speech, screen, exact
<1>5. times(look, speech) \in Int /\ times(screen, exact) \in Int
  BY <1>2, <1>3, <1>4
<1> HIDE DEF times
<1>6. times(times(look, speech), times(screen, exact)) \in Int
  BY <1>5 DEF times
<1> QED BY <1>1, <1>6

LEMMA LaneStaysOff ==
  ASSUME NEW r \in Requests, NEW l \in Lane, r.base[l] = 0
  PROVE  Routed(r)[l] = 0
<1>1. CASE r.router.name = "fixed"
  <2>1. Routed(r) = r.base
    BY <1>1, Zenon DEF Routed
  <2> QED BY <2>1
<1>2. CASE r.router.name = "heuristic"
  <2>1. Routed(r) = [m \in Lane |-> (r.base[m] * Factor(m, parse(r.query))) \div 10]
    BY <1>2, Zenon DEF Routed
  <2>2. Routed(r)[l] = (0 * Factor(l, parse(r.query))) \div 10
    BY <2>1
  <2> QED BY <2>2, FactorIsNumber
<1>3. CASE r.router.name = "learned"
  <2>1. Routed(r) = Learned(r.base, r.router.probs)
    BY <1>3, Zenon DEF Routed
  <2> QED BY <2>1 DEF Learned
<1> QED BY <1>1, <1>2, <1>3, RequestsType

(* A lane that is off is not read. *)
LEMMA OffLaneUnread ==
  ASSUME NEW r, NEW ix \in Indexes, NEW w, NEW l \in Lane, ~ (w[l] > 0)
  PROVE  Lists(r, [ix EXCEPT ![l] = <<>>], w) = Lists(r, ix, w)
<1>1. \A m \in Lane \ {l} : [ix EXCEPT ![l] = <<>>][m] = ix[m]
  BY IndexesType
<1> QED BY <1>1 DEF Lists

-----------------------------------------------------------------------------
(* What the lanes return *)

(* The first rows of a list. *)
LEMMA FrontOf ==
  ASSUME NEW S, NEW s \in Seq(S), NEW a \in Nat
  PROVE  LET m == Min({a, Len(s)})
             p == SubSeq(s, 1, m)
         IN  /\ m \in Nat /\ m <= a /\ m <= Len(s) /\ (m = a \/ m = Len(s))
             /\ p \in Seq(S) /\ Len(p) = m /\ p = [i \in 1..m |-> s[i]]
<1> DEFINE m == Min({a, Len(s)})
           p == SubSeq(s, 1, m)
<1>1. Len(s) \in Nat /\ DOMAIN s = 1..Len(s)
  OBVIOUS
<1>2. m \in {a, Len(s)} /\ \A y \in {a, Len(s)} : m <= y
  <2>1. {a, Len(s)} \in SUBSET Nat /\ {a, Len(s)} # {}
    BY <1>1
  <2> QED BY <2>1, LeastIsMin
<1>3. m \in Nat /\ m <= a /\ m <= Len(s) /\ (m = a \/ m = Len(s))
  BY <1>1, <1>2
<1> HIDE DEF m, p
<1>4. \A i \in 1..m : s[i] \in S
  <2> DEFINE n == Len(s)
  <2>1. m \in Nat /\ n \in Nat /\ m <= n
    BY <1>1, <1>3
  <2>2. \A i \in 1..n : s[i] \in S
    BY ElementOfSeq
  <2> HIDE DEF n
  <2>3. \A i \in 1..m : i \in 1..n
    BY <2>1
  <2> QED BY <2>2, <2>3, Zenon
<1>5. /\ p \in Seq(S) /\ Len(p) = (IF 1 <= m THEN m - 1 + 1 ELSE 0)
      /\ \A i \in 1..(m - 1 + 1) : p[i] = s[1 + i - 1]
  BY <1>3, <1>4, SubSeqProperties DEF p
<1>6. Len(p) = m /\ \A i \in 1..m : p[i] = s[i]
  <2>1. m - 1 + 1 = m /\ \A i \in 1..m : 1 + i - 1 = i
    BY <1>3
  <2> QED BY <1>3, <1>5, <2>1
<1>7. p = [i \in 1..m |-> p[i]]
  BY <1>5, <1>6
<1>8. p = [i \in 1..m |-> s[i]]
  BY <1>6, <1>7
<1> QED BY <1>3, <1>5, <1>6, <1>8 DEF m, p

Row == [seg : Segments, score : Int]

BestFirst(rows) ==
  /\ rows \in Seq(Row)
  /\ \A j, k \in 1..Len(rows) : j < k => rows[j].score >= rows[k].score

LEMMA RowsAreNumbers ==
  ASSUME NEW rows \in Seq(Row)
  PROVE  /\ Len(rows) \in Nat /\ DOMAIN rows = 1..Len(rows)
         /\ \A k \in 1..Len(rows) : rows[k].seg \in Segments /\ rows[k].score \in Int
<1>1. \A k \in 1..Len(rows) : rows[k] \in Row
  BY ElementOfSeq
<1> QED BY <1>1 DEF Row

LEMMA FrontStaysBest ==
  ASSUME NEW rows, BestFirst(rows), NEW a \in Nat
  PROVE  BestFirst(FirstRows(rows, a))
<1> DEFINE m == Min({a, Len(rows)})
           p == SubSeq(rows, 1, m)
<1>1. rows \in Seq(Row)
  BY DEF BestFirst
<1>2. /\ m \in Nat /\ m <= Len(rows) /\ p \in Seq(Row) /\ Len(p) = m
      /\ p = [i \in 1..m |-> rows[i]]
  BY <1>1, FrontOf
<1> HIDE DEF m, p
<1>3. \A i \in 1..m : i \in 1..Len(rows) /\ p[i] = rows[i]
  BY <1>1, <1>2
<1>4. BestFirst(p)
  BY <1>2, <1>3 DEF BestFirst
<1> QED BY <1>4 DEF FirstRows, p, m

(* The rows of the videos asked for, in the order of the list. *)
LEMMA FilterStaysBest ==
  ASSUME NEW rows, BestFirst(rows), NEW T \in SUBSET DOMAIN rows
  PROVE  LET places == Ranked(T, <)
         IN  BestFirst([k \in DOMAIN places |-> rows[places[k]]])
<1> DEFINE places == Ranked(T, <)
           n == Cardinality(T)
           p == [k \in 1..n |-> rows[places[k]]]
<1>1. rows \in Seq(Row) /\ Len(rows) \in Nat /\ DOMAIN rows = 1..Len(rows)
  BY RowsAreNumbers DEF BestFirst
<1>2. T \in SUBSET Int /\ IsFiniteSet(T) /\ T \in SUBSET (1..Len(rows))
  <2>1. IsFiniteSet(1..Len(rows))
    BY <1>1, FS_Interval
  <2> QED BY <1>1, <2>1, FS_Subset
<1>3. /\ n \in Nat /\ places \in [1..n -> T]
      /\ \A i, j \in 1..n : i < j <=> places[i] < places[j]
  BY <1>2, NumbersInOrder
<1> HIDE DEF places, n
<1>4. \A k \in 1..n : places[k] \in 1..Len(rows)
  BY <1>2, <1>3
<1>5. \A k \in 1..n : rows[places[k]] \in Row
  BY <1>1, <1>4, ElementOfSeq
<1>6. p \in Seq(Row) /\ Len(p) = n
  BY <1>3, <1>5, IsASeq
<1>7. ASSUME NEW j \in 1..n, NEW k \in 1..n, j < k PROVE p[j].score >= p[k].score
  <2>1. places[j] < places[k] /\ places[j] \in 1..Len(rows) /\ places[k] \in 1..Len(rows)
    BY <1>3, <1>4, <1>7
  <2>2. rows[places[j]].score >= rows[places[k]].score
    BY <2>1 DEF BestFirst
  <2> QED BY <2>2
<1>8. BestFirst(p)
  BY <1>6, <1>7 DEF BestFirst
<1>9. DOMAIN places = 1..n
  BY <1>3
<1> QED BY <1>8, <1>9 DEF places

(* Max-pooling: the best row of a segment counts for it. *)
Pool(best, row) == IF row.seg \in Found(best) THEN best ELSE Append(best, row)

LEMMA PoolKeepsRows ==
  ASSUME NEW acc \in Seq(Row), NEW row \in Row
  PROVE  Pool(acc, row) \in Seq(Row)
<1>1. Append(acc, row) \in Seq(Row)
  BY AppendProperties
<1> QED BY <1>1 DEF Pool


PoolWalk(h, b, q, n) ==
  /\ h[0] = b /\ \A i \in 1..n : h[i] = Pool(h[i - 1], q[i])
  /\ FoldLeft(LAMBDA best, row : IF row.seg \in Found(best) THEN best
         ELSE Append(best, row), b, q) = h[n]

LEMMA PoolOneByOne ==
  ASSUME NEW n \in Nat, NEW q \in [1..n -> Row], NEW b \in Seq(Row)
  PROVE  \E h : PoolWalk(h, b, q, n)
<1> DEFINE st == [p \in (1..n) \X Seq(Row) |-> Pool(p[2], q[p[1]])]
<1>1. st \in [(1..n) \X Seq(Row) -> Seq(Row)]
  BY PoolKeepsRows
<1>2. PICK g \in [SUBSET (1..n) -> Seq(Row)] :
        Recurses(g, 1..n, [s \in SUBSET (1..n) |-> Max(s)], b, st)
  <2> HIDE DEF st
  <2> QED BY <1>1, FoldExists
<1>3. ASSUME NEW d \in SUBSET (1..n)
      PROVE  g[d] = IF d = {} THEN b ELSE Pool(g[d \ {Max(d)}], q[Max(d)])
  <2>1. g[d] = IF d = {} THEN b ELSE st[Max(d), g[d \ {Max(d)}]]
    <3> HIDE DEF st
    <3> QED BY <1>2 DEF Recurses
  <2>2. d # {} => Max(d) \in 1..n /\ g[d \ {Max(d)}] \in Seq(Row)
    <3>1. d \in SUBSET Nat /\ \A x \in d : x <= n
      OBVIOUS
    <3> QED BY <3>1, GreatestElement
  <2>3. d # {} => st[Max(d), g[d \ {Max(d)}]] = Pool(g[d \ {Max(d)}], q[Max(d)])
    BY <2>2
  <2> QED BY <2>1, <2>3
<1>4. g = [d \in SUBSET (1..n) |-> IF d = {} THEN b ELSE Pool(g[d \ {Max(d)}], q[Max(d)])]
  BY <1>3
<1> DEFINE f == CHOOSE r : r = [d \in SUBSET (1..n) |->
                                  IF d = {} THEN b ELSE Pool(r[d \ {Max(d)}], q[Max(d)])]
<1>5. f = [d \in SUBSET (1..n) |-> IF d = {} THEN b ELSE Pool(f[d \ {Max(d)}], q[Max(d)])]
  BY <1>4, Zenon
<1>6. FoldLeft(LAMBDA best, row : IF row.seg \in Found(best) THEN best
          ELSE Append(best, row), b, q) = f[1..n]
  <2>1. DOMAIN q = 1..n
    OBVIOUS
  <2>2. FoldLeft(LAMBDA best, row : IF row.seg \in Found(best) THEN best
            ELSE Append(best, row), b, q) =
          (CHOOSE r : r = [d \in SUBSET (DOMAIN q) |->
             IF d = {} THEN b ELSE Pool(r[d \ {Max(d)}], q[Max(d)])])[DOMAIN q]
    BY DEF Pool, FoldLeft, MapThenFoldSet
  <2> QED BY <2>1, <2>2, Zenon
<1>7. \A d \in SUBSET (1..n) : f[d] = IF d = {} THEN b ELSE Pool(f[d \ {Max(d)}], q[Max(d)])
  <2> HIDE DEF f
  <2> QED BY <1>5
<1>8. Steps(f, n, Seq(Row), b, st)
  <2>1. f[{}] = b
    <3> HIDE DEF f
    <3> QED BY <1>7
  <2> SUFFICES ASSUME NEW d \in SUBSET (1..n), d # {}, f[d \ {Max(d)}] \in Seq(Row)
               PROVE  f[d] = st[Max(d), f[d \ {Max(d)}]]
    BY <2>1 DEF Steps
  <2> HIDE DEF f
  <2>2. f[d] = Pool(f[d \ {Max(d)}], q[Max(d)])
    BY <1>7
  <2>3. Max(d) \in 1..n
    <3>1. d \in SUBSET Nat /\ \A x \in d : x <= n
      OBVIOUS
    <3> QED BY <3>1, GreatestElement
  <2> QED BY <2>2, <2>3
<1> HIDE DEF f, st
<1>9. PICK h : Trace(h, f, n, Seq(Row), b, st)
  BY <1>1, <1>8, FoldFollows
<1>10. h \in [0..n -> Seq(Row)] /\ h[0] = b /\ h[n] = f[1..n]
  BY <1>9 DEF Trace
<1>11. ASSUME NEW i \in 1..n PROVE h[i] = Pool(h[i - 1], q[i])
  <2>1. i - 1 \in 0..n /\ h[i - 1] \in Seq(Row)
    BY <1>10
  <2> QED BY <1>9, <2>1 DEF Trace, st
<1> QED BY <1>6, <1>10, <1>11 DEF PoolWalk

LEMMA PoolStaysBest ==
  ASSUME NEW rows, BestFirst(rows)
  PROVE  BestFirst(Pooled(rows))
<1> DEFINE n == Len(rows)
           b == <<>>
<1>1. /\ rows \in Seq(Row) /\ n \in Nat /\ b \in Seq(Row) /\ Len(b) = 0
      /\ \A k \in 1..n : rows[k].score \in Int
  BY RowsAreNumbers DEF BestFirst
<1>2. rows \in [1..n -> Row]
  BY <1>1
<1> HIDE DEF n, b
<1>3. PICK h : PoolWalk(h, b, rows, n)
  BY <1>1, <1>2, PoolOneByOne
<1>4. /\ h[0] = b /\ \A i \in 1..n : h[i] = Pool(h[i - 1], rows[i])
      /\ Pooled(rows) = h[n]
  BY <1>3 DEF PoolWalk, Pooled, b
<1> DEFINE Above(k) == \A m \in 1..Len(h[k]) : \A i \in (k + 1)..n : h[k][m].score >= rows[i].score
           Good == {k \in 0..n : BestFirst(h[k]) /\ Above(k)}
<1>5. 0 \in Good
  <2>1. h[0] \in Seq(Row) /\ Len(h[0]) = 0
    BY <1>1, <1>4
  <2>2. 1..0 = {} /\ 0 \in 0..n
    BY <1>1
  <2>3. BestFirst(h[0])
    BY <2>1, <2>2 DEF BestFirst
  <2> QED BY <2>1, <2>2, <2>3
<1>6. ASSUME NEW k \in 1..n, k - 1 \in Good PROVE k \in Good
  <2> DEFINE acc == h[k - 1]
             app == Append(acc, rows[k])
             len == Len(acc)
  <2>1. BestFirst(acc) /\ Above(k - 1) /\ k \in 0..n
    BY <1>6
  <2>2. /\ acc \in Seq(Row) /\ len \in Nat
        /\ \A j, m \in 1..len : j < m => acc[j].score >= acc[m].score
    BY <2>1 DEF BestFirst
  <2>3. \A m \in 1..len : \A i \in k..n : acc[m].score >= rows[i].score
    <3>1. (k - 1) + 1 = k
      OBVIOUS
    <3> QED BY <2>1, <3>1
  <2>4. \A i \in (k + 1)..n : i \in k..n /\ i \in 1..n /\ k < i
    OBVIOUS
  <2>5. \A i \in (k + 1)..n : rows[k].score >= rows[i].score
    BY <2>4 DEF BestFirst, n
  <2>6. h[k] = acc \/ h[k] = app
    BY <1>4 DEF Pool
  <2> HIDE DEF len, acc
  <2>7. CASE h[k] = acc
    <3>1. Above(k)
      BY <2>3, <2>4, <2>7 DEF len
    <3> QED BY <2>1, <2>7, <3>1
  <2>8. CASE h[k] = app
    <3>1. rows[k] \in Row
      BY <1>2
    <3>2. /\ app \in Seq(Row) /\ Len(app) = len + 1 /\ app[len + 1] = rows[k]
          /\ \A m \in 1..len : app[m] = acc[m]
      BY <2>2, <3>1, AppendProperties DEF len
    <3>3. \A m \in 1..(len + 1) : m \in 1..len \/ m = len + 1
      BY <2>2
    <3> HIDE DEF app
    <3>4. ASSUME NEW j \in 1..Len(app), NEW m \in 1..Len(app), j < m
          PROVE  app[j].score >= app[m].score
      <4>1. j \in 1..len
        BY <2>2, <3>2, <3>4
      <4>2. CASE m \in 1..len
        BY <2>2, <3>2, <3>4, <4>1, <4>2
      <4>3. CASE m = len + 1
        <5>1. k \in k..n
          OBVIOUS
        <5> QED BY <2>3, <3>2, <4>1, <4>3, <5>1
      <4> QED BY <3>2, <3>3, <4>2, <4>3
    <3>5. BestFirst(app)
      BY <3>2, <3>4 DEF BestFirst
    <3>6. \A m \in 1..Len(app) : \A i \in (k + 1)..n : app[m].score >= rows[i].score
      BY <2>3, <2>4, <2>5, <3>2, <3>3
    <3>7. Above(k)
      BY <2>8, <3>6
    <3> HIDE DEF Above
    <3> QED BY <2>1, <2>8, <3>5, <3>7
  <2> QED BY <2>6, <2>7, <2>8
<1>7. n \in Good
  <2> HIDE DEF Good
  <2>1. \A k \in 1..n : k - 1 \in Good => k \in Good
    BY <1>6
  <2>2. \A k \in 0..n : k \in Good
    BY <1>1, <1>5, <2>1, StepByStep
  <2> QED BY <1>1, <2>2
<1> QED BY <1>4, <1>7

(* What fuse() is given: a lane that is on has rows, the best first. *)
Listed(lists, w) ==
  \A l \in Lane : BestFirst(lists[l]) /\ (~ (w[l] > 0) => Found(lists[l]) = {})

LEMMA ListsAreBest ==
  ASSUME NEW r, NEW ix \in Indexes, NEW w
  PROVE  Listed(Lists(r, ix, w), w)
<1> SUFFICES ASSUME NEW l \in Lane
             PROVE  /\ BestFirst(Lists(r, ix, w)[l])
                    /\ ~ (w[l] > 0) => Found(Lists(r, ix, w)[l]) = {}
  BY DEF Listed
<1> DEFINE rows == ix[l]
           T == {k \in DOMAIN rows : r.videos = {} \/ VideoOf[rows[k].seg] \in r.videos}
           places == Ranked(T, <)
           wanted == [k \in DOMAIN places |-> rows[places[k]]]
<1>1. BestFirst(rows)
  BY IndexesType DEF BestFirst, Row
<1>2. BestFirst(wanted)
  <2>1. T \in SUBSET DOMAIN rows
    OBVIOUS
  <2> HIDE DEF T, rows
  <2> QED BY <1>1, <2>1, FilterStaysBest
<1>3. TopK \in Nat /\ 3 * TopK \in Nat
  BY LimitsType
<1> DEFINE pooled == FirstRows(Pooled(FirstRows(wanted, 3 * TopK)), TopK)
           plain == FirstRows(wanted, TopK)
<1>4. Candidates(l, r, rows) = IF l \in {"visual", "temporal"} THEN pooled ELSE plain
  BY DEF Candidates
<1>5. BestFirst(pooled) /\ BestFirst(plain)
  <2> HIDE DEF wanted
  <2> QED BY <1>2, <1>3, FrontStaysBest, PoolStaysBest
<1> HIDE DEF pooled, plain, wanted, places, T
<1>6. BestFirst(Candidates(l, r, rows))
  BY <1>4, <1>5
<1>7. BestFirst(<<>>) /\ Found(<<>>) = {}
  <2>1. <<>> \in Seq(Row) /\ Len(<<>>) = 0 /\ 1..0 = {} /\ DOMAIN <<>> = {}
    OBVIOUS
  <2> QED BY <2>1 DEF BestFirst, Found
<1>8. Lists(r, ix, w)[l] = IF w[l] > 0 THEN Candidates(l, r, rows) ELSE <<>>
  BY DEF Lists
<1> QED BY <1>6, <1>7, <1>8

(* The segments a list ranks: each stands at one place, and a better place *)
(* means no lower a score.                                                 *)
LEMMA RankOfFound ==
  ASSUME NEW rows, BestFirst(rows)
  PROVE  /\ IsFiniteSet(Found(rows)) /\ Found(rows) \in SUBSET Segments
         /\ \A s \in Found(rows) :
              /\ RankIn(rows, s) \in 1..Len(rows) /\ rows[RankIn(rows, s)].seg = s
              /\ Raw(rows, s) \in Int
         /\ \A a, b \in Found(rows) :
              RankIn(rows, a) < RankIn(rows, b) => Raw(rows, a) >= Raw(rows, b)
<1>1. /\ rows \in Seq(Row) /\ Len(rows) \in Nat /\ DOMAIN rows = 1..Len(rows)
      /\ \A k \in 1..Len(rows) : rows[k].seg \in Segments /\ rows[k].score \in Int
  BY RowsAreNumbers DEF BestFirst
<1>2. Found(rows) = {rows[k].seg : k \in 1..Len(rows)}
  BY <1>1 DEF Found
<1>3. IsFiniteSet(Found(rows))
  <2> DEFINE f == [k \in 1..Len(rows) |-> rows[k].seg]
             T == Found(rows)
  <2>1. f \in Surjection(1..Len(rows), T)
    BY <1>2 DEF Surjection
  <2>2. IsFiniteSet(1..Len(rows))
    BY <1>1, FS_Interval
  <2> HIDE DEF f, T
  <2>3. IsFiniteSet(T)
    BY <2>1, <2>2, FS_Surjection
  <2> QED BY <2>3 DEF T
<1>4. ASSUME NEW s \in Found(rows)
      PROVE  /\ RankIn(rows, s) \in 1..Len(rows) /\ rows[RankIn(rows, s)].seg = s
             /\ Raw(rows, s) \in Int
  <2>1. \E k \in DOMAIN rows : rows[k].seg = s
    BY <1>1, <1>2
  <2>2. RankIn(rows, s) \in DOMAIN rows /\ rows[RankIn(rows, s)].seg = s
    BY <2>1 DEF RankIn
  <2> QED BY <1>1, <2>2 DEF Raw
<1>5. ASSUME NEW a \in Found(rows), NEW b \in Found(rows), RankIn(rows, a) < RankIn(rows, b)
      PROVE  Raw(rows, a) >= Raw(rows, b)
  BY <1>4, <1>5 DEF Raw, BestFirst
<1> QED BY <1>1, <1>2, <1>3, <1>4, <1>5

(* Scores between 0 and Unit, in the order of the raw ones. *)
LEMMA MinMaxGrows ==
  ASSUME NEW rows, BestFirst(rows), NEW among \in SUBSET Found(rows),
         NEW a \in among, NEW b \in among,
         a = b \/ RankIn(rows, a) < RankIn(rows, b)
  PROVE  /\ MinMax(rows, a, among) \in Nat /\ MinMax(rows, b, among) \in Nat
         /\ MinMax(rows, a, among) >= MinMax(rows, b, among)
<1> DEFINE T == {Raw(rows, o) : o \in among}
           x == Raw(rows, a)
           y == Raw(rows, b)
<1>1. /\ IsFiniteSet(among) /\ \A o \in among : Raw(rows, o) \in Int
      /\ x \in Int /\ y \in Int /\ x >= y
  <2>1. /\ IsFiniteSet(Found(rows)) /\ \A s \in Found(rows) : Raw(rows, s) \in Int
        /\ RankIn(rows, a) < RankIn(rows, b) => x >= y
    BY RankOfFound
  <2>2. IsFiniteSet(among)
    BY <2>1, FS_Subset
  <2> QED BY <2>1, <2>2
<1>2. T \in SUBSET Int /\ IsFiniteSet(T) /\ T # {} /\ x \in T /\ y \in T
  <2> DEFINE f == [o \in among |-> Raw(rows, o)]
  <2>1. f \in Surjection(among, T)
    BY DEF Surjection
  <2>2. T \in SUBSET Int /\ T # {} /\ x \in T /\ y \in T
    BY <1>1
  <2> HIDE DEF f, T
  <2>3. IsFiniteSet(T)
    BY <1>1, <2>1, FS_Surjection
  <2> QED BY <2>2, <2>3
<1> DEFINE M == Max(T)
           N == Min(T)
<1>3. M \in Int /\ N \in Int /\ N <= x /\ N <= y /\ N <= M
  <2> HIDE DEF T, x, y
  <2>1. M \in T /\ N \in T /\ \A t \in T : t <= M /\ N <= t
    BY <1>2, ExtremesOf
  <2> QED BY <1>2, <2>1
<1>4. /\ MinMax(rows, a, among) = IF M = N THEN Unit ELSE ((x - N) * Unit) \div (M - N)
      /\ MinMax(rows, b, among) = IF M = N THEN Unit ELSE ((y - N) * Unit) \div (M - N)
  BY DEF MinMax
<1> HIDE DEF T, x, y, M, N
<1>5. Unit \in Nat
  BY UnitType
<1>6. CASE M = N
  BY <1>4, <1>5, <1>6
<1>7. CASE M # N
  <2> DEFINE s == (x - N) * Unit
             t == (y - N) * Unit
             d == M - N
  <2>1. d \in Nat \ {0} /\ x - N \in Nat /\ y - N \in Nat /\ y - N <= x - N
    BY <1>1, <1>3, <1>7
  <2>2. s \in Nat /\ t \in Nat /\ t <= s
    <3> DEFINE i == x - N
               j == y - N
    <3>1. i \in Nat /\ j \in Nat /\ j <= i
      BY <2>1
    <3> HIDE DEF i, j
    <3>2. i * Unit \in Nat /\ j * Unit \in Nat /\ j * Unit <= i * Unit
      BY <1>5, <3>1, ProductGrows
    <3> QED BY <3>2 DEF i, j
  <2>3. /\ MinMax(rows, a, among) = s \div d /\ MinMax(rows, b, among) = t \div d
    BY <1>4, <1>7
  <2> HIDE DEF s, t, d
  <2>4. s \div d \in Nat /\ t \div d \in Nat /\ t \div d <= s \div d
    BY <2>1, <2>2, DividedGrows
  <2> QED BY <2>3, <2>4
<1> QED BY <1>6, <1>7

(* What one lane adds for a segment is never negative, and what it ranks    *)
(* better does not get less.                                                *)
LEMMA ShareIsNumber ==
  ASSUME NEW method \in {"weighted", "rrf"}, NEW w \in [Lane -> Int], NEW lists, Listed(lists, w),
         NEW l \in Lane, NEW seg
  PROVE  Share(method, w[l], lists[l], seg) \in Nat
<1> DEFINE rows == lists[l]
           x == w[l]
<1>1. BestFirst(rows) /\ x \in Int /\ (seg \in Found(rows) => x > 0)
  BY DEF Listed
<1> HIDE DEF rows, x
<1>2. CASE seg \notin Found(rows)
  BY <1>2 DEF Share, rows
<1>3. CASE seg \in Found(rows)
  <2>1. x \in Nat /\ Unit \in Nat /\ RrfK \in Nat
    BY <1>1, <1>3, UnitType
  <2>2. MinMax(rows, seg, Found(rows)) \in Nat
    BY <1>1, <1>3, MinMaxGrows
  <2>3. RankIn(rows, seg) \in Nat \ {0}
    <3>1. RankIn(rows, seg) \in 1..Len(rows)
      BY <1>1, <1>3, RankOfFound
    <3>2. Len(rows) \in Nat
      BY <1>1, RowsAreNumbers DEF BestFirst
    <3> QED BY <3>1, <3>2
  <2>4. x * MinMax(rows, seg, Found(rows)) \in Nat
    BY <2>1, <2>2, ProductGrows
  <2>5. (x * Unit) \div (RrfK + RankIn(rows, seg)) \in Nat
    <3> DEFINE y == x * Unit
               d == RrfK + RankIn(rows, seg)
    <3>1. y \in Nat
      BY <2>1, ProductGrows
    <3>2. d \in Nat \ {0}
      BY <2>1, <2>3
    <3> HIDE DEF y, d
    <3>3. y \div d \in Nat
      BY <3>1, <3>2, DividedGrows
    <3> QED BY <3>3 DEF y, d
  <2> QED BY <1>3, <2>4, <2>5 DEF Share, rows, x
<1> QED BY <1>2, <1>3

LEMMA BetterRankShare ==
  ASSUME NEW method \in {"weighted", "rrf"}, NEW w \in [Lane -> Int], NEW lists, Listed(lists, w),
         NEW l \in Lane, NEW a, NEW b,
         b \in Found(lists[l]) => a \in Found(lists[l]) /\ RankIn(lists[l], a) < RankIn(lists[l], b)
  PROVE  Share(method, w[l], lists[l], b) <= Share(method, w[l], lists[l], a)
<1> DEFINE rows == lists[l]
           x == w[l]
           sa == Share(method, w[l], lists[l], a)
           sb == Share(method, w[l], lists[l], b)
<1>1. BestFirst(rows) /\ x \in Int /\ (b \in Found(rows) => x > 0)
  BY DEF Listed
<1>2. sa \in Nat /\ sb \in Nat
  BY ShareIsNumber
<1>3. CASE b \notin Found(rows)
  <2>1. sb = 0
    BY <1>3 DEF Share
  <2> HIDE DEF sa, sb
  <2>2. sb <= sa
    BY <1>2, <2>1
  <2> QED BY <2>2 DEF sa, sb
<1>4. CASE b \in Found(rows)
  <2>1. a \in Found(rows) /\ RankIn(rows, a) < RankIn(rows, b)
    BY <1>4
  <2>2. x \in Nat /\ Unit \in Nat /\ RrfK \in Nat
    BY <1>1, <1>4, UnitType
  <2> HIDE DEF rows, x, sa, sb
  <2>3. /\ MinMax(rows, a, Found(rows)) \in Nat /\ MinMax(rows, b, Found(rows)) \in Nat
        /\ MinMax(rows, b, Found(rows)) <= MinMax(rows, a, Found(rows))
    BY <1>1, <1>4, <2>1, MinMaxGrows
  <2>4. RankIn(rows, a) \in Nat \ {0} /\ RankIn(rows, b) \in Nat \ {0}
    <3>1. RankIn(rows, a) \in 1..Len(rows) /\ RankIn(rows, b) \in 1..Len(rows)
      BY <1>1, <1>4, <2>1, RankOfFound
    <3>2. Len(rows) \in Nat
      BY <1>1, RowsAreNumbers DEF BestFirst
    <3> QED BY <3>1, <3>2
  <2>5. x * MinMax(rows, b, Found(rows)) <= x * MinMax(rows, a, Found(rows))
    BY <2>2, <2>3, ProductGrows
  <2>6. (x * Unit) \div (RrfK + RankIn(rows, b)) <= (x * Unit) \div (RrfK + RankIn(rows, a))
    <3> DEFINE y == x * Unit
               d == RrfK + RankIn(rows, a)
               e == RrfK + RankIn(rows, b)
    <3>1. y \in Nat
      BY <2>2, ProductGrows
    <3>2. d \in Nat \ {0} /\ e \in Nat /\ d <= e
      BY <2>1, <2>2, <2>4
    <3> HIDE DEF y, d, e
    <3>3. y \div e <= y \div d
      BY <3>1, <3>2, QuotientFalls
    <3> QED BY <3>3 DEF y, d, e
  <2> QED BY <1>4, <2>1, <2>5, <2>6 DEF Share, rows, x
<1> QED BY <1>3, <1>4 DEF sa, sb

AddShare(method, w, lists, seg, sum, l) == sum + Share(method, w[l], lists[l], seg)

LEMMA AddShareIsNumber ==
  ASSUME NEW method \in {"weighted", "rrf"}, NEW w \in [Lane -> Int], NEW lists, Listed(lists, w),
         NEW seg, NEW sum \in Nat, NEW l \in Lane
  PROVE  AddShare(method, w, lists, seg, sum, l) \in Nat
<1>1. Share(method, w[l], lists[l], seg) \in Nat
  BY ShareIsNumber
<1> QED BY <1>1 DEF AddShare

(* fuse() for one segment, lane by lane. *)
SharesWalk(method, w, lists, seg, h, b, q, n) ==
  /\ h[0] = b /\ \A i \in 1..n : h[i] = AddShare(method, w, lists, seg, h[i - 1], q[i])
  /\ FoldLeft(LAMBDA sum, l : sum + Share(method, w[l], lists[l], seg), b, q) = h[n]

LEMMA SharesOneByOne ==
  ASSUME NEW method \in {"weighted", "rrf"}, NEW w \in [Lane -> Int], NEW lists, Listed(lists, w), NEW seg,
         NEW n \in Nat, NEW q \in [1..n -> Lane], NEW b \in Nat
  PROVE  \E h : SharesWalk(method, w, lists, seg, h, b, q, n)
<1> DEFINE st == [p \in (1..n) \X Nat |-> AddShare(method, w, lists, seg, p[2], q[p[1]])]
<1>1. st \in [(1..n) \X Nat -> Nat]
  BY AddShareIsNumber
<1>2. PICK g \in [SUBSET (1..n) -> Nat] :
        Recurses(g, 1..n, [s \in SUBSET (1..n) |-> Max(s)], b, st)
  <2> HIDE DEF st
  <2> QED BY <1>1, FoldExists
<1>3. ASSUME NEW d \in SUBSET (1..n)
      PROVE  g[d] = IF d = {} THEN b
                 ELSE AddShare(method, w, lists, seg, g[d \ {Max(d)}], q[Max(d)])
  <2>1. g[d] = IF d = {} THEN b ELSE st[Max(d), g[d \ {Max(d)}]]
    <3> HIDE DEF st
    <3> QED BY <1>2 DEF Recurses
  <2>2. d # {} => Max(d) \in 1..n /\ g[d \ {Max(d)}] \in Nat
    <3>1. d \in SUBSET Nat /\ \A x \in d : x <= n
      OBVIOUS
    <3> QED BY <3>1, GreatestElement
  <2>3. d # {} => st[Max(d), g[d \ {Max(d)}]] = AddShare(method, w, lists, seg, g[d \ {Max(d)}], q[Max(d)])
    BY <2>2
  <2> QED BY <2>1, <2>3
<1>4. g = [d \in SUBSET (1..n) |-> IF d = {} THEN b
          ELSE AddShare(method, w, lists, seg, g[d \ {Max(d)}], q[Max(d)])]
  BY <1>3
<1> DEFINE f == CHOOSE r : r = [d \in SUBSET (1..n) |->
                                  IF d = {} THEN b ELSE AddShare(method, w, lists, seg, r[d \ {Max(d)}], q[Max(d)])]
<1>5. f = [d \in SUBSET (1..n) |-> IF d = {} THEN b
          ELSE AddShare(method, w, lists, seg, f[d \ {Max(d)}], q[Max(d)])]
  BY <1>4, Zenon
<1>6. FoldLeft(LAMBDA sum, l : sum + Share(method, w[l], lists[l], seg), b, q) = f[1..n]
  <2>1. DOMAIN q = 1..n
    OBVIOUS
  <2>2. FoldLeft(LAMBDA sum, l : sum + Share(method, w[l], lists[l], seg), b, q) =
          (CHOOSE r : r = [d \in SUBSET (DOMAIN q) |->
             IF d = {} THEN b
                 ELSE AddShare(method, w, lists, seg, r[d \ {Max(d)}], q[Max(d)])])[DOMAIN q]
    BY DEF AddShare, FoldLeft, MapThenFoldSet
  <2> QED BY <2>1, <2>2, Zenon
<1>7. \A d \in SUBSET (1..n) : f[d] = IF d = {} THEN b
          ELSE AddShare(method, w, lists, seg, f[d \ {Max(d)}], q[Max(d)])
  <2> HIDE DEF f
  <2> QED BY <1>5
<1>8. Steps(f, n, Nat, b, st)
  <2>1. f[{}] = b
    <3> HIDE DEF f
    <3> QED BY <1>7
  <2> SUFFICES ASSUME NEW d \in SUBSET (1..n), d # {}, f[d \ {Max(d)}] \in Nat
               PROVE  f[d] = st[Max(d), f[d \ {Max(d)}]]
    BY <2>1 DEF Steps
  <2> HIDE DEF f
  <2>2. f[d] = AddShare(method, w, lists, seg, f[d \ {Max(d)}], q[Max(d)])
    BY <1>7
  <2>3. Max(d) \in 1..n
    <3>1. d \in SUBSET Nat /\ \A x \in d : x <= n
      OBVIOUS
    <3> QED BY <3>1, GreatestElement
  <2> QED BY <2>2, <2>3
<1> HIDE DEF f, st
<1>9. PICK h : Trace(h, f, n, Nat, b, st)
  BY <1>1, <1>8, FoldFollows
<1>10. h \in [0..n -> Nat] /\ h[0] = b /\ h[n] = f[1..n]
  BY <1>9 DEF Trace
<1>11. ASSUME NEW i \in 1..n PROVE h[i] = AddShare(method, w, lists, seg, h[i - 1], q[i])
  <2>1. i - 1 \in 0..n /\ h[i - 1] \in Nat
    BY <1>10
  <2> QED BY <1>9, <2>1 DEF Trace, st
<1> QED BY <1>6, <1>10, <1>11 DEF SharesWalk

(* The lanes, in the order in which fuse() meets them. *)
LEMMA LanesAreSix ==
  /\ Lanes \in [1..6 -> Lane] /\ DOMAIN Lanes = 1..6
  /\ \A l \in Lane : \E n \in 1..6 : Lanes[n] = l
<1>1. Lane = {"text", "visual", "lexical", "ocr", "caption", "temporal"}
  <2>1. Lane = {Lanes[i] : i \in DOMAIN Lanes}
    BY DEF Lane, ToSet
  <2>2. DOMAIN Lanes = 1..6
    BY DEF Lanes
  <2> QED BY <2>1, <2>2 DEF Lanes
<1> QED BY <1>1 DEF Lanes

LEMMA LanesAreFinite == IsFiniteSet(Lane)
<1>1. IsFiniteSet(1..6)
  <2>1. \A n \in Nat : IsFiniteSet(1..n)
    BY FS_Interval
  <2>2. 6 \in Nat
    OBVIOUS
  <2> QED BY <2>1, <2>2
<1>2. Lanes \in Surjection(1..6, Lane)
  BY LanesAreSix DEF Surjection
<1> QED BY <1>1, <1>2, FS_Surjection

(* What fuse() meets. *)
FoundBy(lists) == UNION {Found(lists[l]) : l \in Lane}

(* The lanes agree that a is before b. *)
Agree(lists, a, b) ==
  /\ \A l \in Lane : b \in Found(lists[l]) =>
       a \in Found(lists[l]) /\ RankIn(lists[l], a) < RankIn(lists[l], b)
  /\ \E l \in Lane : b \in Found(lists[l])

(* fuse() keeps the order the lanes agree on. *)
LEMMA FusedGrows ==
  ASSUME NEW method \in {"weighted", "rrf"}, NEW w \in [Lane -> Int], NEW lists, Listed(lists, w)
  PROVE  /\ Fused(method, w, lists) \in [FoundBy(lists) -> Nat]
         /\ \A a, b \in FoundBy(lists) : Agree(lists, a, b) =>
              Fused(method, w, lists)[b] <= Fused(method, w, lists)[a]
<1> DEFINE F(seg) == FoldLeft(LAMBDA sum, l : sum + Share(method, w[l], lists[l], seg), 0, Lanes)
<1>1. /\ DOMAIN Fused(method, w, lists) = FoundBy(lists)
      /\ Fused(method, w, lists) = [seg \in FoundBy(lists) |-> F(seg)]
  BY DEF Fused, FoundBy
<1>2. Lanes \in [1..6 -> Lane] /\ 6 \in Nat /\ 0 \in Nat
  BY LanesAreSix
<1>3. ASSUME NEW seg
      PROVE  \E h : SharesWalk(method, w, lists, seg, h, 0, Lanes, 6)
  BY <1>2, SharesOneByOne
<1> HIDE DEF F
<1>4. ASSUME NEW seg, NEW h, SharesWalk(method, w, lists, seg, h, 0, Lanes, 6)
      PROVE  /\ F(seg) = h[6] /\ h[0] = 0
             /\ \A i \in 1..6 : h[i] = h[i - 1] + Share(method, w[Lanes[i]], lists[Lanes[i]], seg)
             /\ \A i \in 0..6 : h[i] \in Nat
  <2>1. /\ F(seg) = h[6] /\ h[0] = 0
        /\ \A i \in 1..6 : h[i] = h[i - 1] + Share(method, w[Lanes[i]], lists[Lanes[i]], seg)
    BY <1>4 DEF SharesWalk, AddShare, F
  <2> DEFINE Good == {i \in 0..6 : h[i] \in Nat}
  <2>2. 0 \in Good
    BY <2>1
  <2>3. ASSUME NEW i \in 1..6, i - 1 \in Good PROVE i \in Good
    <3>1. Share(method, w[Lanes[i]], lists[Lanes[i]], seg) \in Nat
      BY <1>2, ShareIsNumber
    <3>2. h[i] \in Nat
      BY <2>1, <2>3, <3>1
    <3> QED BY <3>2
  <2>4. \A i \in 1..6 : i - 1 \in Good => i \in Good
    BY <2>3
  <2>5. \A i \in 0..6 : i \in Good
    <3> HIDE DEF Good
    <3>1. 6 \in Nat
      OBVIOUS
    <3> QED BY <2>2, <2>4, <3>1, StepByStep
  <2> QED BY <2>1, <2>5
<1>5. ASSUME NEW seg PROVE F(seg) \in Nat
  <2>1. PICK h : SharesWalk(method, w, lists, seg, h, 0, Lanes, 6)
    BY <1>3
  <2> QED BY <1>4, <2>1
<1>6. ASSUME NEW a, NEW b, Agree(lists, a, b) PROVE F(b) <= F(a)
  <2>1. PICK g : SharesWalk(method, w, lists, a, g, 0, Lanes, 6)
    BY <1>3
  <2>2. PICK h : SharesWalk(method, w, lists, b, h, 0, Lanes, 6)
    BY <1>3
  <2> DEFINE A(i) == Share(method, w[Lanes[i]], lists[Lanes[i]], a)
             B(i) == Share(method, w[Lanes[i]], lists[Lanes[i]], b)
             Good == {i \in 0..6 : h[i] <= g[i]}
  <2>3. /\ F(a) = g[6] /\ g[0] = 0 /\ \A i \in 1..6 : g[i] = g[i - 1] + A(i)
        /\ \A i \in 0..6 : g[i] \in Nat
    BY <1>4, <2>1
  <2>4. /\ F(b) = h[6] /\ h[0] = 0 /\ \A i \in 1..6 : h[i] = h[i - 1] + B(i)
        /\ \A i \in 0..6 : h[i] \in Nat
    BY <1>4, <2>2
  <2>5. \A i \in 1..6 : A(i) \in Nat /\ B(i) \in Nat /\ B(i) <= A(i)
    <3> SUFFICES ASSUME NEW i \in 1..6
                 PROVE  A(i) \in Nat /\ B(i) \in Nat /\ B(i) <= A(i)
      OBVIOUS
    <3> DEFINE l == Lanes[i]
    <3>1. /\ l \in Lane
          /\ b \in Found(lists[l]) => a \in Found(lists[l]) /\ RankIn(lists[l], a) < RankIn(lists[l], b)
      BY <1>2, <1>6 DEF Agree
    <3>2. A(i) \in Nat /\ B(i) \in Nat
      BY <3>1, ShareIsNumber
    <3>3. Share(method, w[l], lists[l], b) <= Share(method, w[l], lists[l], a)
      <4> HIDE DEF l
      <4> QED BY <3>1, BetterRankShare
    <3> QED BY <3>2, <3>3
  <2> HIDE DEF A, B
  <2>6. 0 \in Good
    BY <2>3, <2>4
  <2>7. ASSUME NEW i \in 1..6, i - 1 \in Good PROVE i \in Good
    <3>1. i - 1 \in 0..6 /\ i \in 0..6 /\ h[i - 1] <= g[i - 1]
      BY <2>7
    <3>2. g[i - 1] \in Nat /\ h[i - 1] \in Nat
      BY <2>3, <2>4, <3>1
    <3>3. h[i] <= g[i]
      BY <2>3, <2>4, <2>5, <3>1, <3>2
    <3> QED BY <3>1, <3>3
  <2>8. \A i \in 0..6 : i \in Good
    <3>1. \A i \in 1..6 : i - 1 \in Good => i \in Good
      BY <2>7
    <3> HIDE DEF Good
    <3>2. 6 \in Nat
      OBVIOUS
    <3> QED BY <2>6, <3>1, <3>2, StepByStep
  <2>9. h[6] <= g[6]
    BY <2>8
  <2> QED BY <2>3, <2>4, <2>9
<1> QED BY <1>1, <1>5, <1>6

(* The order of a sort by the keys f, the greatest first, g and k. *)
Lex(S, f, g, k) ==
  {p \in S \X S :
     \/ f[p[1]] > f[p[2]]
     \/ /\ f[p[1]] = f[p[2]]
        /\ (g[p[1]] < g[p[2]] \/ (g[p[1]] = g[p[2]] /\ k[p[1]] < k[p[2]]))}

LEMMA LexDecides ==
  ASSUME NEW S, NEW f \in [S -> Int], NEW g \in [S -> Int], NEW k \in [S -> Int],
         \A x, y \in S : g[x] = g[y] /\ k[x] = k[y] => x = y
  PROVE  Decides(Lex(S, f, g, k), S)
<1> DEFINE R == Lex(S, f, g, k)
<1>1. \A x, y \in S :
        <<x, y>> \in R <=> \/ f[x] > f[y]
                           \/ f[x] = f[y] /\ (g[x] < g[y] \/ (g[x] = g[y] /\ k[x] < k[y]))
  BY DEF Lex
<1>2. \A x \in S : f[x] \in Int /\ g[x] \in Int /\ k[x] \in Int
  OBVIOUS
<1> HIDE DEF R
<1>3. \A x \in S : <<x, x>> \notin R
  BY <1>1, <1>2
<1>4. ASSUME NEW x \in S, NEW y \in S, NEW z \in S, <<x, y>> \in R, <<y, z>> \in R
      PROVE  <<x, z>> \in R
  <2>1. \/ f[x] > f[y]
        \/ f[x] = f[y] /\ (g[x] < g[y] \/ (g[x] = g[y] /\ k[x] < k[y]))
    BY <1>1, <1>4
  <2>2. \/ f[y] > f[z]
        \/ f[y] = f[z] /\ (g[y] < g[z] \/ (g[y] = g[z] /\ k[y] < k[z]))
    BY <1>1, <1>4
  <2>3. /\ f[x] \in Int /\ f[y] \in Int /\ f[z] \in Int /\ g[x] \in Int /\ g[y] \in Int
        /\ g[z] \in Int /\ k[x] \in Int /\ k[y] \in Int /\ k[z] \in Int
    BY <1>2
  <2>4. \/ f[x] > f[z]
        \/ f[x] = f[z] /\ (g[x] < g[z] \/ (g[x] = g[z] /\ k[x] < k[z]))
    BY <2>1, <2>2, <2>3
  <2> QED BY <1>1, <2>4
<1>5. ASSUME NEW x \in S, NEW y \in S, x # y PROVE <<x, y>> \in R \/ <<y, x>> \in R
  <2>1. /\ f[x] \in Int /\ f[y] \in Int /\ g[x] \in Int /\ g[y] \in Int
        /\ k[x] \in Int /\ k[y] \in Int
    BY <1>2
  <2>2. g[x] # g[y] \/ k[x] # k[y]
    BY <1>5, Zenon
  <2> QED BY <1>1, <2>1, <2>2
<1> QED BY <1>3, <1>4, <1>5 DEF Decides, R

(* The lane that returns a segment first. *)
LEMMA FirstLaneOf ==
  ASSUME NEW lists, NEW s \in FoundBy(lists)
  PROVE  /\ FirstLane(lists, s) \in 1..6 /\ s \in Found(lists[Lanes[FirstLane(lists, s)]])
         /\ \A n \in 1..6 : s \in Found(lists[Lanes[n]]) => FirstLane(lists, s) <= n
<1> DEFINE T == {n \in DOMAIN Lanes : s \in Found(lists[Lanes[n]])}
<1>1. DOMAIN Lanes = 1..6 /\ \A l \in Lane : \E n \in 1..6 : Lanes[n] = l
  BY LanesAreSix
<1>2. T \in SUBSET Nat /\ T # {}
  <2>1. T \in SUBSET Nat
    BY <1>1
  <2>2. PICK l \in Lane : s \in Found(lists[l])
    BY DEF FoundBy
  <2>3. PICK n \in 1..6 : Lanes[n] = l
    BY <1>1
  <2>4. n \in T
    BY <1>1, <2>2, <2>3
  <2> QED BY <2>1, <2>4
<1>3. Min(T) \in T /\ \A n \in T : Min(T) <= n
  <2> HIDE DEF T
  <2> QED BY <1>2, LeastIsMin
<1>4. FirstLane(lists, s) = Min(T)
  BY DEF FirstLane
<1> QED BY <1>1, <1>3, <1>4

FirstLanes(lists) == [s \in FoundBy(lists) |-> FirstLane(lists, s)]
FirstRanks(lists) == [s \in FoundBy(lists) |-> RankIn(lists[Lanes[FirstLane(lists, s)]], s)]

(* fuse() sorts the segments by their sum; no two meet in one place. *)
FusedOrder(lists, fused) ==
  Lex(FoundBy(lists), fused, FirstLanes(lists), FirstRanks(lists))

LEMMA ByFusedIs ==
  ASSUME NEW lists, NEW fused, NEW a \in FoundBy(lists), NEW b \in FoundBy(lists)
  PROVE  ByFused(lists, fused, a, b) <=> <<a, b>> \in FusedOrder(lists, fused)
<1> DEFINE n == FirstLane(lists, a)
           m == FirstLane(lists, b)
<1>1. ByFused(lists, fused, a, b) <=>
        \/ fused[a] > fused[b]
        \/ /\ fused[a] = fused[b]
           /\ (n < m \/ (n = m /\ RankIn(lists[Lanes[n]], a) < RankIn(lists[Lanes[n]], b)))
  BY DEF ByFused, MetBefore
<1>2. <<a, b>> \in FusedOrder(lists, fused) <=>
        \/ fused[a] > fused[b]
        \/ /\ fused[a] = fused[b]
           /\ (n < m \/ (n = m /\ RankIn(lists[Lanes[n]], a) < RankIn(lists[Lanes[m]], b)))
  BY DEF FusedOrder, Lex, FirstLanes, FirstRanks
<1> HIDE DEF n, m
<1> QED BY <1>1, <1>2

LEMMA FusedIsDecided ==
  ASSUME NEW w, NEW lists, Listed(lists, w), NEW fused \in [FoundBy(lists) -> Nat]
  PROVE  /\ Decides(FusedOrder(lists, fused), FoundBy(lists))
         /\ IsFiniteSet(FoundBy(lists)) /\ FoundBy(lists) \in SUBSET Segments
<1> DEFINE S == FoundBy(lists)
<1>1. \A l \in Lane : BestFirst(lists[l])
  BY DEF Listed
<1>2. \A l \in Lane : IsFiniteSet(Found(lists[l])) /\ Found(lists[l]) \in SUBSET Segments
  BY <1>1, RankOfFound
<1>3. S \in SUBSET Segments
  BY <1>2 DEF FoundBy
<1>4. IsFiniteSet(S)
  <2> DEFINE A == {Found(lists[l]) : l \in Lane}
  <2>1. IsFiniteSet(Lane)
    BY LanesAreFinite
  <2>2. IsFiniteSet(A)
    <3> DEFINE f == [l \in Lane |-> Found(lists[l])]
    <3>1. f \in Surjection(Lane, A)
      BY DEF Surjection
    <3> HIDE DEF f, A
    <3> QED BY <2>1, <3>1, FS_Surjection
  <2>3. \A T \in A : IsFiniteSet(T)
    BY <1>2
  <2>4. S = UNION A
    BY DEF FoundBy
  <2> HIDE DEF S, A
  <2> QED BY <2>2, <2>3, <2>4, FS_UNION
<1>5. ASSUME NEW s \in S
      PROVE  /\ FirstLane(lists, s) \in 1..6 /\ Lanes[FirstLane(lists, s)] \in Lane
             /\ s \in Found(lists[Lanes[FirstLane(lists, s)]])
  BY FirstLaneOf, LanesAreSix
<1>6. ASSUME NEW s \in S
      PROVE  /\ FirstRanks(lists)[s] \in Int
             /\ lists[Lanes[FirstLane(lists, s)]][FirstRanks(lists)[s]].seg = s
  <2> DEFINE rows == lists[Lanes[FirstLane(lists, s)]]
  <2>1. BestFirst(rows) /\ s \in Found(rows)
    BY <1>1, <1>5
  <2> HIDE DEF rows
  <2>2. RankIn(rows, s) \in 1..Len(rows) /\ rows[RankIn(rows, s)].seg = s /\ Len(rows) \in Nat
    BY <2>1, RankOfFound, RowsAreNumbers DEF BestFirst
  <2>3. FirstRanks(lists)[s] = RankIn(rows, s)
    BY DEF FirstRanks, rows
  <2>4. FirstRanks(lists)[s] \in Int /\ rows[FirstRanks(lists)[s]].seg = s
    BY <2>2, <2>3
  <2> QED BY <2>4 DEF rows
<1>7. /\ FirstLanes(lists) \in [S -> Int] /\ FirstRanks(lists) \in [S -> Int]
      /\ fused \in [S -> Int]
  <2>1. \A s \in S : FirstLane(lists, s) \in Int
    BY <1>5
  <2>2. \A s \in S : FirstRanks(lists)[s] \in Int
    BY <1>6
  <2>3. FirstRanks(lists) \in [S -> Int]
    BY <2>2 DEF FirstRanks
  <2> QED BY <2>1, <2>3 DEF FirstLanes
<1>8. ASSUME NEW x \in S, NEW y \in S, FirstLanes(lists)[x] = FirstLanes(lists)[y],
             FirstRanks(lists)[x] = FirstRanks(lists)[y]
      PROVE  x = y
  <2>1. FirstLane(lists, x) = FirstLane(lists, y)
    BY <1>8 DEF FirstLanes
  <2> QED BY <1>6, <1>8, <2>1
<1> HIDE DEF S
<1>9. Decides(Lex(S, fused, FirstLanes(lists), FirstRanks(lists)), S)
  BY <1>7, <1>8, LexDecides
<1> QED BY <1>3, <1>4, <1>9 DEF S, FusedOrder

LEMMA FusedInOrder ==
  ASSUME NEW w, NEW lists, Listed(lists, w), NEW fused \in [FoundBy(lists) -> Nat]
  PROVE  InOrder(Ranked(DOMAIN fused, LAMBDA a, b : ByFused(lists, fused, a, b)),
                 FoundBy(lists), FusedOrder(lists, fused))
<1> DEFINE S == FoundBy(lists)
           R == FusedOrder(lists, fused)
           P == {[x |-> x, ahead |-> Cardinality({y \in S : ByFused(lists, fused, y, x)})] : x \in S}
<1>1. P = Places(S, R)
  <2>1. \A x \in S : Ahead(R, S, x) = Cardinality({y \in S : ByFused(lists, fused, y, x)})
    <3> SUFFICES ASSUME NEW x \in S
                 PROVE  Ahead(R, S, x) = Cardinality({y \in S : ByFused(lists, fused, y, x)})
      OBVIOUS
    <3>1. {y \in S : ByFused(lists, fused, y, x)} = {y \in S : <<y, x>> \in R}
      BY ByFusedIs
    <3> QED BY <3>1 DEF Ahead
  <2> HIDE DEF R, S
  <2> QED BY <2>1 DEF Places
<1>2. InOrder(Sorted(S, R), S, R)
  <2>1. Decides(R, S) /\ IsFiniteSet(S)
    BY FusedIsDecided
  <2> HIDE DEF R, S
  <2> QED BY <2>1, SortedInPlace
<1>3. DOMAIN fused = S
  OBVIOUS
<1>4. Ranked(DOMAIN fused, LAMBDA a, b : ByFused(lists, fused, a, b)) =
        [i \in 1..Cardinality(S) |-> (CHOOSE p \in P : p.ahead = i - 1).x]
  <2>1. Ranked(S, LAMBDA a, b : ByFused(lists, fused, a, b)) =
          [i \in 1..Cardinality(S) |-> (CHOOSE p \in P : p.ahead = i - 1).x]
    BY DEF Ranked
  <2> HIDE DEF P, S
  <2> QED BY <1>3, <2>1, Zenon
<1> HIDE DEF P
<1>5. Sorted(S, R) = [i \in 1..Cardinality(S) |-> (CHOOSE p \in P : p.ahead = i - 1).x]
  BY <1>1 DEF Sorted
<1> HIDE DEF S, R
<1>6. Ranked(DOMAIN fused, LAMBDA a, b : ByFused(lists, fused, a, b)) = Sorted(S, R)
  BY <1>4, <1>5, Zenon
<1> QED BY <1>2, <1>6, Zenon DEF S, R

(* The plan gives every lane a number. *)
LEMMA LearnedIsNumber ==
  ASSUME NEW base \in [Lane -> Nat], NEW probs, DOMAIN probs \in SUBSET Lane,
         \A l \in DOMAIN probs : probs[l] \in 0..Unit
  PROVE  Learned(base, probs) \in [Lane -> Int]
<1> DEFINE P == {probs[l] : l \in DOMAIN probs}
           T == P \cup {0}
           top == Max(T)
           d == IF top = 0 THEN Unit ELSE top
<1>1. Unit \in Nat \ {0}
  BY UnitType
<1>2. T \in SUBSET Nat /\ IsFiniteSet(T) /\ 0 \in T
  <2>1. P \in SUBSET Nat
    BY <1>1
  <2>2. IsFiniteSet(P)
    <3> DEFINE f == [l \in DOMAIN probs |-> probs[l]]
    <3>1. f \in Surjection(DOMAIN probs, P)
      BY DEF Surjection
    <3>2. IsFiniteSet(DOMAIN probs)
      BY LanesAreFinite, FS_Subset
    <3> HIDE DEF f, P
    <3> QED BY <3>1, <3>2, FS_Surjection
  <2> HIDE DEF P
  <2> QED BY <2>1, <2>2, FS_AddElement
<1>3. top \in Nat
  <2> HIDE DEF T
  <2>1. T \in SUBSET Int /\ T # {}
    BY <1>2
  <2> QED BY <1>2, <2>1, ExtremesOf
<1>4. d \in Nat \ {0}
  <2> HIDE DEF T
  <2> QED BY <1>1, <1>3
<1>5. Learned(base, probs) =
        [l \in Lane |->
           IF base[l] <= 0 \/ l \notin DOMAIN probs THEN base[l]
           ELSE IF probs[l] < MinP THEN 0 ELSE (base[l] * probs[l]) \div d]
  BY DEF Learned
<1> HIDE DEF d, top, T, P
<1>6. ASSUME NEW l \in Lane, l \in DOMAIN probs PROVE (base[l] * probs[l]) \div d \in Int
  <2> DEFINE x == base[l] * probs[l]
  <2>1. base[l] \in Nat /\ probs[l] \in Nat
    BY <1>1, <1>6
  <2>2. x \in Nat
    BY <2>1, ProductGrows
  <2> HIDE DEF x
  <2>3. x \div d \in Nat
    BY <1>4, <2>2, DividedGrows
  <2> QED BY <2>3 DEF x
<1>7. ASSUME NEW l \in Lane PROVE Learned(base, probs)[l] \in Int
  BY <1>5, <1>6
<1> QED BY <1>5, <1>7

LEMMA PlannedIsNumber ==
  ASSUME NEW r \in Requests
  PROVE  Planned(r) \in [Lane -> Int]
<1>1. /\ r.base \in [Lane -> Nat] /\ \A l \in DOMAIN r.over : r.over[l] \in Int
      /\ r.router.name \in {"fixed", "heuristic", "learned"}
      /\ r.router.name = "learned" =>
           /\ DOMAIN r.router.probs \in SUBSET Lane
           /\ \A l \in DOMAIN r.router.probs : r.router.probs[l] \in 0..Unit
  BY RequestsType
<1>2. Routed(r) \in [Lane -> Int]
  <2>1. CASE r.router.name = "fixed"
    <3>1. Routed(r) = r.base
      BY <2>1, Zenon DEF Routed
    <3> QED BY <1>1, <3>1
  <2>2. CASE r.router.name = "heuristic"
    <3>1. Routed(r) = [l \in Lane |-> (r.base[l] * Factor(l, parse(r.query))) \div 10]
      BY <2>2, Zenon DEF Routed
    <3>2. ASSUME NEW l \in Lane PROVE (r.base[l] * Factor(l, parse(r.query))) \div 10 \in Int
      <4>1. r.base[l] \in Int /\ Factor(l, parse(r.query)) \in Int
        BY <1>1, FactorIsNumber
      <4> QED BY <4>1
    <3> QED BY <3>1, <3>2
  <2>3. CASE r.router.name = "learned"
    <3>1. Routed(r) = Learned(r.base, r.router.probs)
      BY <2>3, Zenon DEF Routed
    <3> QED BY <1>1, <2>3, <3>1, LearnedIsNumber
  <2> QED BY <1>1, <2>1, <2>2, <2>3
<1>3. ASSUME NEW l \in Lane
      PROVE  (IF l \in DOMAIN r.over THEN r.over[l] ELSE Routed(r)[l]) \in Int
  BY <1>1, <1>2
<1> QED BY <1>3 DEF Planned

(* The head: the first of the segments in the order of fuse(). *)
Headed(head, len, S, R) ==
  /\ len \in Nat /\ head \in [1..len -> S]
  /\ \A i, j \in 1..len : i < j <=> <<head[i], head[j]>> \in R

LEMMA HeadOf ==
  ASSUME NEW S, NEW R, NEW ranked, InOrder(ranked, S, R)
  PROVE  LET head == SubSeq(ranked, 1, Min({Len(ranked), Max({RerankTopK, 4 * Limit})}))
         IN  Len(head) \in Nat /\ Headed(head, Len(head), S, R)
<1> DEFINE X == Max({RerankTopK, 4 * Limit})
           n == Cardinality(S)
           m == Min({X, Len(ranked)})
           head == SubSeq(ranked, 1, m)
<1>1. n \in Nat /\ ranked \in [1..n -> S] /\ \A i, j \in 1..n : i < j <=> <<ranked[i], ranked[j]>> \in R
  BY DEF InOrder
<1>2. X \in Nat
  <2> DEFINE T == {RerankTopK, 4 * Limit}
             z == RerankTopK + 4 * Limit
  <2>1. T \in SUBSET Nat /\ T # {} /\ z \in Nat /\ \A t \in T : t <= z
    BY LimitsType
  <2> HIDE DEF T, z
  <2>2. Max(T) \in T
    BY <2>1, GreatestElement
  <2>3. Max(T) \in Nat
    BY <2>1, <2>2
  <2> QED BY <2>3 DEF T
<1> HIDE DEF X, n
<1>3. ranked \in Seq(S) /\ Len(ranked) = n
  <2>1. \A i \in 1..n : ranked[i] \in S
    BY <1>1
  <2>2. ranked = [i \in 1..n |-> ranked[i]]
    BY <1>1
  <2> QED BY <1>1, <2>1, <2>2, IsASeq
<1>4. m \in Nat /\ m <= Len(ranked) /\ Len(head) = m /\ head = [i \in 1..m |-> ranked[i]]
  BY <1>2, <1>3, FrontOf
<1>5. {Len(ranked), X} = {X, Len(ranked)}
  OBVIOUS
<1> HIDE DEF m, head
<1>6. \A i \in 1..m : i \in 1..n /\ head[i] = ranked[i] /\ head[i] \in S
  BY <1>1, <1>3, <1>4
<1>7. Headed(head, m, S, R)
  BY <1>1, <1>4, <1>6 DEF Headed
<1>8. Len(head) \in Nat /\ Headed(head, Len(head), S, R)
  BY <1>4, <1>7
<1> QED BY <1>5, <1>8 DEF head, m, X

LEMMA HeadPlaces ==
  ASSUME NEW head, NEW len, NEW S, NEW R, Headed(head, len, S, R), Decides(R, S)
  PROVE  /\ ToSet(head) \in SUBSET S /\ IsFiniteSet(ToSet(head))
         /\ \A i \in 1..len : head[i] \in ToSet(head) /\ RankOf(head, head[i]) = i
         /\ \A x \in ToSet(head) : RankOf(head, x) \in 1..len /\ head[RankOf(head, x)] = x
         /\ \A x, y \in ToSet(head) : <<x, y>> \in R <=> RankOf(head, x) < RankOf(head, y)
<1>1. /\ len \in Nat /\ head \in [1..len -> S] /\ DOMAIN head = 1..len
      /\ \A i, j \in 1..len : i < j <=> <<head[i], head[j]>> \in R
  BY DEF Headed
<1>2. ToSet(head) = {head[i] : i \in 1..len}
  BY <1>1 DEF ToSet
<1>3. \A i, j \in 1..len : head[i] = head[j] => i = j
  <2> SUFFICES ASSUME NEW i \in 1..len, NEW j \in 1..len, head[i] = head[j] PROVE i = j
    OBVIOUS
  <2>1. <<head[i], head[j]>> \notin R /\ <<head[j], head[i]>> \notin R
    BY <1>1 DEF Decides
  <2>2. ~ (i < j) /\ ~ (j < i)
    BY <1>1, <2>1
  <2> QED BY <1>1, <2>2
<1>4. ASSUME NEW x \in ToSet(head)
      PROVE  RankOf(head, x) \in 1..len /\ head[RankOf(head, x)] = x
  <2>1. \E k \in DOMAIN head : head[k] = x
    BY <1>1, <1>2
  <2>2. RankOf(head, x) \in DOMAIN head /\ head[RankOf(head, x)] = x
    BY <2>1 DEF RankOf
  <2> QED BY <1>1, <2>2
<1>5. ASSUME NEW i \in 1..len PROVE head[i] \in ToSet(head) /\ RankOf(head, head[i]) = i
  <2>1. head[i] \in ToSet(head)
    BY <1>2
  <2> QED BY <1>3, <1>4, <2>1
<1>6. IsFiniteSet(ToSet(head)) /\ ToSet(head) \in SUBSET S
  <2>1. IsFiniteSet(1..len)
    BY <1>1, FS_Interval
  <2>2. head \in Surjection(1..len, ToSet(head))
    BY <1>1, <1>2 DEF Surjection
  <2>3. ToSet(head) \in SUBSET S
    BY <1>1, <1>2
  <2> QED BY <2>1, <2>2, <2>3, FS_Surjection
<1>7. ASSUME NEW x \in ToSet(head), NEW y \in ToSet(head)
      PROVE  <<x, y>> \in R <=> RankOf(head, x) < RankOf(head, y)
  BY <1>1, <1>4
<1> QED BY <1>4, <1>5, <1>6, <1>7

(* The parts of _final_scores. *)
LEMMA TopIsNumber ==
  ASSUME NEW T \in SUBSET Nat, IsFiniteSet(T)
  PROVE  TopOf(T) \in Nat
<1>1. Unit \in Nat
  BY UnitType
<1>2. CASE T = {}
  BY <1>1, <1>2 DEF TopOf
<1>3. CASE T # {}
  <2>1. T \in SUBSET Int
    OBVIOUS
  <2>2. Max(T) \in T
    BY <1>3, <2>1, ExtremesOf
  <2>3. Max(T) \in Nat
    BY <2>2
  <2> QED BY <1>1, <2>3 DEF TopOf
<1> QED BY <1>2, <1>3

LEMMA VisualLanes == "visual" \in Lane /\ "temporal" \in Lane
<1>1. Lanes[2] = "visual" /\ Lanes[6] = "temporal" /\ 2 \in 1..6 /\ 6 \in 1..6
  BY DEF Lanes
<1>2. Lanes[2] \in Lane /\ Lanes[6] \in Lane
  BY <1>1, LanesAreSix
<1> QED BY <1>1, <1>2

VisualWeight(w) == Min({Unit, Max({0, w["visual"], w["temporal"]})})

LEMMA VisualWeightIsNumber ==
  ASSUME NEW w \in [Lane -> Int]
  PROVE  VisualWeight(w) \in Nat
<1> DEFINE T == {0, w["visual"], w["temporal"]}
           m == Max(T)
<1>1. "visual" \in Lane /\ "temporal" \in Lane
  BY VisualLanes
<1>2. m \in Nat
  <2>1. T \in SUBSET Int /\ T # {} /\ 0 \in T
    BY <1>1
  <2>2. IsFiniteSet(T)
    <3>1. IsFiniteSet({} \cup {0})
      BY FS_EmptySet, FS_AddElement
    <3>2. IsFiniteSet(({} \cup {0}) \cup {w["visual"]})
      BY <3>1, FS_AddElement
    <3>3. IsFiniteSet((({} \cup {0}) \cup {w["visual"]}) \cup {w["temporal"]})
      BY <3>2, FS_AddElement
    <3>4. T = (({} \cup {0}) \cup {w["visual"]}) \cup {w["temporal"]}
      OBVIOUS
    <3> QED BY <3>3, <3>4
  <2> HIDE DEF T
  <2>3. m \in T /\ \A t \in T : t <= m
    BY <2>1, <2>2, ExtremesOf
  <2>4. m \in Int /\ 0 <= m
    BY <2>1, <2>3
  <2> QED BY <2>4
<1> HIDE DEF m
<1>3. {Unit, m} \in SUBSET Nat /\ {Unit, m} # {}
  BY <1>2, UnitType
<1>4. Min({Unit, m}) \in {Unit, m}
  BY <1>3, LeastIsMin
<1>5. Min({Unit, m}) \in Nat
  BY <1>3, <1>4
<1> QED BY <1>5 DEF VisualWeight, m

(* The visual part of _final_scores: the best of the visual lanes that are  *)
(* on, normalised over the head.                                            *)
Seen(lists, head, l) == ToSet(head) \cap Found(lists[l])
SeenBy(w, lists, seg) == {m \in {"visual", "temporal"} : w[m] > 0 /\ seg \in Found(lists[m])}
Norms(w, lists, head, seg) ==
  {MinMax(lists[l], seg, Seen(lists, head, l)) : l \in SeenBy(w, lists, seg)}
VisualNorm(w, lists, head, seg) == Max({0} \cup Norms(w, lists, head, seg))

LEMMA NormsAreNumbers ==
  ASSUME NEW w, NEW lists, Listed(lists, w), NEW head, NEW seg \in ToSet(head)
  PROVE  /\ Norms(w, lists, head, seg) \in SUBSET Nat
         /\ VisualNorm(w, lists, head, seg) \in Nat
         /\ \A x \in Norms(w, lists, head, seg) : x <= VisualNorm(w, lists, head, seg)
         /\ \/ VisualNorm(w, lists, head, seg) = 0
            \/ VisualNorm(w, lists, head, seg) \in Norms(w, lists, head, seg)
<1> DEFINE N == Norms(w, lists, head, seg)
           T == {0} \cup N
<1>1. "visual" \in Lane /\ "temporal" \in Lane
  BY VisualLanes
<1>2. ASSUME NEW l \in SeenBy(w, lists, seg)
      PROVE  MinMax(lists[l], seg, Seen(lists, head, l)) \in Nat
  <2> DEFINE rows == lists[l]
             among == Seen(lists, head, l)
  <2>1. l \in Lane /\ seg \in Found(rows)
    BY <1>1 DEF SeenBy
  <2>2. BestFirst(rows) /\ among \in SUBSET Found(rows) /\ seg \in among
    BY <2>1 DEF Listed, Seen
  <2> HIDE DEF rows, among
  <2>3. MinMax(rows, seg, among) \in Nat
    BY <2>2, MinMaxGrows
  <2> QED BY <2>3 DEF rows, among
<1>3. N \in SUBSET Nat
  BY <1>2 DEF Norms
<1>4. IsFiniteSet(N)
  <2> DEFINE D == SeenBy(w, lists, seg)
             f == [l \in D |-> MinMax(lists[l], seg, Seen(lists, head, l))]
  <2>1. D \in SUBSET Lane
    BY <1>1 DEF SeenBy
  <2>2. f \in Surjection(D, N)
    BY DEF Surjection, Norms
  <2> HIDE DEF D, N, f
  <2>3. IsFiniteSet(D)
    BY <2>1, LanesAreFinite, FS_Subset
  <2> QED BY <2>2, <2>3, FS_Surjection
<1> HIDE DEF N
<1>5. T \in SUBSET Int /\ T # {} /\ IsFiniteSet(T) /\ 0 \in T
  <2>1. T = N \cup {0}
    OBVIOUS
  <2> QED BY <1>3, <1>4, <2>1, FS_AddElement
<1>6. Max(T) \in T /\ \A y \in T : y <= Max(T)
  <2> HIDE DEF T
  <2> QED BY <1>5, ExtremesOf
<1>7. VisualNorm(w, lists, head, seg) = Max(T)
  BY DEF VisualNorm, N
<1>8. Max(T) \in Nat
  <2>1. T \in SUBSET Nat
    BY <1>3
  <2> HIDE DEF T
  <2> QED BY <1>6, <2>1
<1>9. \A x \in N : x <= Max(T)
  BY <1>6
<1>10. Max(T) = 0 \/ Max(T) \in N
  BY <1>6
<1> HIDE DEF T
<1> QED BY <1>3, <1>7, <1>8, <1>9, <1>10 DEF N

LEMMA VisualNormGrows ==
  ASSUME NEW w, NEW lists, Listed(lists, w), NEW head,
         NEW a \in ToSet(head), NEW b \in ToSet(head), Agree(lists, a, b)
  PROVE  VisualNorm(w, lists, head, b) <= VisualNorm(w, lists, head, a)
<1> DEFINE x == VisualNorm(w, lists, head, a)
           y == VisualNorm(w, lists, head, b)
<1>1. /\ x \in Nat /\ y \in Nat /\ \A t \in Norms(w, lists, head, a) : t <= x
      /\ Norms(w, lists, head, a) \in SUBSET Nat
      /\ y = 0 \/ y \in Norms(w, lists, head, b)
  BY NormsAreNumbers
<1> HIDE DEF x, y
<1>2. CASE y = 0
  BY <1>1, <1>2 DEF x, y
<1>3. CASE y \in Norms(w, lists, head, b)
  <2>1. PICK l \in SeenBy(w, lists, b) : y = MinMax(lists[l], b, Seen(lists, head, l))
    BY <1>3 DEF Norms
  <2> DEFINE rows == lists[l]
             among == Seen(lists, head, l)
  <2>2. l \in Lane
    BY VisualLanes DEF SeenBy
  <2>3. b \in Found(rows) /\ w[l] > 0 /\ l \in {"visual", "temporal"}
    BY DEF SeenBy
  <2>4. a \in Found(rows) /\ RankIn(rows, a) < RankIn(rows, b)
    BY <2>2, <2>3 DEF Agree
  <2>5. l \in SeenBy(w, lists, a)
    BY <2>3, <2>4 DEF SeenBy
  <2>6. BestFirst(rows) /\ among \in SUBSET Found(rows) /\ a \in among /\ b \in among
    BY <2>2, <2>3, <2>4 DEF Listed, Seen
  <2>7. MinMax(rows, a, among) \in Norms(w, lists, head, a)
    BY <2>5 DEF Norms
  <2> HIDE DEF rows, among
  <2>8. MinMax(rows, b, among) <= MinMax(rows, a, among) /\ MinMax(rows, a, among) \in Nat
    BY <2>4, <2>6, MinMaxGrows
  <2>9. MinMax(rows, a, among) <= x /\ y = MinMax(rows, b, among)
    BY <1>1, <2>1, <2>7 DEF rows, among
  <2>10. y <= x
    BY <1>1, <2>8, <2>9
  <2> QED BY <2>10 DEF x, y
<1> QED BY <1>1, <1>2, <1>3

HeadTop(fused, head) == TopOf({fused[s] : s \in ToSet(head)})

(* The fused and the visual part of a score; no lane agreement is lost. *)
BaseScore(w, lists, fused, head, seg) ==
  Mix.fused * fused[seg] * Unit * Unit
    + Mix.visual * VisualWeight(w) * VisualNorm(w, lists, head, seg) * HeadTop(fused, head)

Reranked(head, there) == {head[k] : k \in 1..Min({RerankTopK, Len(head)})} \cap there

ScoreOf(rated, w, lists, fused, head, there, seg) ==
  IF rated = <<>> THEN BaseScore(w, lists, fused, head, seg) * 10
  ELSE IF seg \in Reranked(head, there)
    THEN 10 * (Mix.rerank * rated[seg] * Unit * HeadTop(fused, head)
                 + BaseScore(w, lists, fused, head, seg))
    ELSE 9 * BaseScore(w, lists, fused, head, seg)

LEMMA ScoresAre ==
  ASSUME NEW rated, NEW w, NEW lists, NEW fused, NEW head, NEW there
  PROVE  FinalScores(rated, w, lists, fused, head, there) =
           [seg \in ToSet(head) |-> ScoreOf(rated, w, lists, fused, head, there, seg)]
  BY DEF FinalScores, ScoreOf, BaseScore, HeadTop, VisualWeight, VisualNorm, Norms, SeenBy, Seen,
         Reranked

LEMMA BaseScoreGrows ==
  ASSUME NEW w \in [Lane -> Int], NEW lists, Listed(lists, w), NEW S, NEW fused \in [S -> Nat],
         NEW head, ToSet(head) \in SUBSET S, IsFiniteSet(ToSet(head))
  PROVE  /\ HeadTop(fused, head) \in Nat
         /\ \A a \in ToSet(head) : BaseScore(w, lists, fused, head, a) \in Nat
         /\ \A a, b \in ToSet(head) :
              Agree(lists, a, b) /\ fused[b] <= fused[a] =>
                BaseScore(w, lists, fused, head, b) <= BaseScore(w, lists, fused, head, a)
<1> DEFINE M == HeadTop(fused, head)
           v == VisualWeight(w)
           n(a) == VisualNorm(w, lists, head, a)
<1>1. M \in Nat
  <2> DEFINE T == {fused[s] : s \in ToSet(head)}
             f == [s \in ToSet(head) |-> fused[s]]
  <2>1. T \in SUBSET Nat
    OBVIOUS
  <2>2. f \in Surjection(ToSet(head), T)
    BY DEF Surjection
  <2> HIDE DEF T, f
  <2>3. IsFiniteSet(T)
    BY <2>2, FS_Surjection
  <2>4. TopOf(T) \in Nat
    BY <2>1, <2>3, TopIsNumber
  <2> QED BY <2>4 DEF T, HeadTop
<1>2. v \in Nat /\ Unit \in Nat /\ Mix.fused \in Nat /\ Mix.visual \in Nat
  BY VisualWeightIsNumber, UnitType, MixType
<1>3. \A a \in ToSet(head) : n(a) \in Nat /\ fused[a] \in Nat
  BY NormsAreNumbers
<1>4. \A a, b \in ToSet(head) : Agree(lists, a, b) => n(b) <= n(a)
  BY VisualNormGrows
<1>5. \A a : BaseScore(w, lists, fused, head, a) = Mix.fused * fused[a] * Unit * Unit + Mix.visual * v * n(a) * M
  BY DEF BaseScore
<1> DEFINE mf == Mix.fused
           mv == Mix.visual
<1> HIDE DEF M, v, n, mf, mv
<1>6. ASSUME NEW x \in Nat, NEW y \in Nat, y <= x
      PROVE  /\ mf * x * Unit * Unit \in Nat /\ mf * y * Unit * Unit \in Nat
             /\ mf * y * Unit * Unit <= mf * x * Unit * Unit
  <2>1. mf \in Nat /\ Unit \in Nat
    BY <1>2 DEF mf
  <2>2. mf * x \in Nat /\ mf * y \in Nat /\ mf * y <= mf * x
    BY <1>6, <2>1, ProductGrows
  <2>3. mf * x * Unit \in Nat /\ mf * y * Unit \in Nat /\ mf * y * Unit <= mf * x * Unit
    <3> DEFINE i == mf * x
               j == mf * y
    <3>1. i \in Nat /\ j \in Nat /\ j <= i
      BY <2>2
    <3> HIDE DEF i, j
    <3>2. i * Unit \in Nat /\ j * Unit \in Nat /\ j * Unit <= i * Unit
      BY <2>1, <3>1, ProductGrows
    <3> QED BY <3>2 DEF i, j
  <2> DEFINE i == mf * x * Unit
             j == mf * y * Unit
  <2>4. i \in Nat /\ j \in Nat /\ j <= i
    BY <2>3
  <2> HIDE DEF i, j
  <2>5. i * Unit \in Nat /\ j * Unit \in Nat /\ j * Unit <= i * Unit
    BY <2>1, <2>4, ProductGrows
  <2> QED BY <2>5 DEF i, j
<1>7. ASSUME NEW x \in Nat, NEW y \in Nat, y <= x
      PROVE  /\ mv * v * x * M \in Nat /\ mv * v * y * M \in Nat
             /\ mv * v * y * M <= mv * v * x * M
  <2> DEFINE c == mv * v
  <2>1. c \in Nat
    <3>1. mv \in Nat /\ v \in Nat
      BY <1>2 DEF mv
    <3> QED BY <3>1, ProductGrows
  <2> HIDE DEF c
  <2>2. c * x \in Nat /\ c * y \in Nat /\ c * y <= c * x
    BY <1>7, <2>1, ProductGrows
  <2> DEFINE i == c * x
             j == c * y
  <2>3. i \in Nat /\ j \in Nat /\ j <= i
    BY <2>2
  <2> HIDE DEF i, j
  <2>4. i * M \in Nat /\ j * M \in Nat /\ j * M <= i * M
    BY <1>1, <2>3, ProductGrows
  <2> QED BY <2>4 DEF i, j, c
<1>8. ASSUME NEW a \in ToSet(head) PROVE BaseScore(w, lists, fused, head, a) \in Nat
  <2> DEFINE i == mf * fused[a] * Unit * Unit
             j == mv * v * n(a) * M
  <2>1. i \in Nat
    <3>1. fused[a] \in Nat /\ fused[a] <= fused[a]
      BY <1>3
    <3> QED BY <1>6, <3>1
  <2>2. j \in Nat
    <3>1. n(a) \in Nat /\ n(a) <= n(a)
      BY <1>3
    <3> QED BY <1>7, <3>1
  <2>3. BaseScore(w, lists, fused, head, a) = i + j
    BY <1>5 DEF mf, mv
  <2> HIDE DEF i, j
  <2> QED BY <2>1, <2>2, <2>3
<1>9. ASSUME NEW a \in ToSet(head), NEW b \in ToSet(head), Agree(lists, a, b), fused[b] <= fused[a]
      PROVE  BaseScore(w, lists, fused, head, b) <= BaseScore(w, lists, fused, head, a)
  <2> DEFINE i(s) == mf * fused[s] * Unit * Unit
             j(s) == mv * v * n(s) * M
  <2>1. i(a) \in Nat /\ i(b) \in Nat /\ i(b) <= i(a)
    <3>1. fused[a] \in Nat /\ fused[b] \in Nat
      BY <1>3
    <3> QED BY <1>6, <1>9, <3>1
  <2>2. j(a) \in Nat /\ j(b) \in Nat /\ j(b) <= j(a)
    <3>1. n(a) \in Nat /\ n(b) \in Nat /\ n(b) <= n(a)
      BY <1>3, <1>4, <1>9
    <3> QED BY <1>7, <3>1
  <2>3. /\ BaseScore(w, lists, fused, head, a) = i(a) + j(a)
        /\ BaseScore(w, lists, fused, head, b) = i(b) + j(b)
    BY <1>5 DEF mf, mv
  <2> HIDE DEF i, j
  <2> QED BY <2>1, <2>2, <2>3
<1> QED BY <1>1, <1>8, <1>9 DEF M

(* What the reranker gives: nothing, or a score for every segment. *)
Scored(rated) == rated = <<>> \/ rated \in [Segments -> 0..Unit]

LEMMA RatedIsScored ==
  ASSUME NEW r \in Requests, NEW texts \in [Segments -> SUBSET Texts]
  PROVE  Scored(Rated(r, texts))
<1>1. CASE r.rerank = <<>>
  BY <1>1 DEF Rated, Scored
<1>2. CASE r.rerank # <<>>
  <2>1. r.rerank \in [Segments -> [SUBSET Texts -> 0..Unit]]
    BY <1>2, RequestsType
  <2>2. \A seg \in Segments : r.rerank[seg][Passage(r, texts, seg)] \in 0..Unit
    <3> SUFFICES ASSUME NEW seg \in Segments PROVE r.rerank[seg][Passage(r, texts, seg)] \in 0..Unit
      OBVIOUS
    <3>1. Passage(r, texts, seg) \in SUBSET Texts
      BY DEF Passage
    <3>2. r.rerank[seg] \in [SUBSET Texts -> 0..Unit]
      BY <2>1
    <3> QED BY <3>1, <3>2
  <2> QED BY <1>2, <2>2 DEF Rated, Scored
<1> QED BY <1>1, <1>2

(* _final_scores keeps the order the lanes and the reranker agree on. *)
LEMMA FinalScoresGrow ==
  ASSUME NEW rated, Scored(rated), NEW w \in [Lane -> Int], NEW lists, Listed(lists, w),
         NEW S \in SUBSET Segments, NEW fused \in [S -> Nat], NEW R, Decides(R, S),
         NEW head, NEW len, Headed(head, len, S, R), len = Len(head), NEW there
  PROVE  LET scores == FinalScores(rated, w, lists, fused, head, there)
         IN  /\ scores \in [ToSet(head) -> Int]
             /\ \A a, b \in ToSet(head) \cap there :
                  /\ Agree(lists, a, b) /\ fused[b] <= fused[a]
                  /\ RankOf(head, a) < RankOf(head, b)
                  /\ rated # <<>> => rated[a] >= rated[b]
                  => scores[b] <= scores[a]
<1> DEFINE scores == FinalScores(rated, w, lists, fused, head, there)
           M == HeadTop(fused, head)
           base(s) == BaseScore(w, lists, fused, head, s)
           re(s) == Mix.rerank * rated[s] * Unit * M
           top(s) == s \in Reranked(head, there)
<1>1. /\ ToSet(head) \in SUBSET S /\ IsFiniteSet(ToSet(head))
      /\ \A x \in ToSet(head) : RankOf(head, x) \in 1..len /\ head[RankOf(head, x)] = x
      /\ \A i \in 1..len : head[i] \in ToSet(head) /\ RankOf(head, head[i]) = i
  BY HeadPlaces
<1>2. /\ M \in Nat /\ \A a \in ToSet(head) : base(a) \in Nat
      /\ \A a, b \in ToSet(head) :
           Agree(lists, a, b) /\ fused[b] <= fused[a] => base(b) <= base(a)
  BY <1>1, BaseScoreGrows
<1>3. /\ DOMAIN scores = ToSet(head)
      /\ \A s \in ToSet(head) :
           scores[s] = IF rated = <<>> THEN base(s) * 10
                       ELSE IF top(s) THEN 10 * (re(s) + base(s)) ELSE 9 * base(s)
  <2>1. scores = [s \in ToSet(head) |-> ScoreOf(rated, w, lists, fused, head, there, s)]
    BY ScoresAre
  <2> HIDE DEF scores
  <2>2. /\ DOMAIN scores = ToSet(head)
        /\ \A s \in ToSet(head) : scores[s] = ScoreOf(rated, w, lists, fused, head, there, s)
    BY <2>1
  <2> QED BY <2>2 DEF ScoreOf
<1>4. ASSUME NEW a \in ToSet(head), rated # <<>>
      PROVE  rated[a] \in Nat /\ re(a) \in Nat
  <2>1. rated \in [Segments -> 0..Unit] /\ Unit \in Nat /\ Mix.rerank \in Nat
    BY <1>4, UnitType, MixType DEF Scored
  <2>2. rated[a] \in 0..Unit
    BY <1>1, <2>1
  <2>3. rated[a] \in Nat
    BY <2>1, <2>2
  <2> DEFINE x == rated[a]
             m == Mix.rerank
  <2> HIDE DEF x, m, M
  <2>4. m * x \in Nat
    BY <2>1, <2>3, ProductGrows DEF x, m
  <2> DEFINE i == m * x
  <2> HIDE DEF i
  <2>5. i * Unit \in Nat
    BY <2>1, <2>4, ProductGrows DEF i
  <2> DEFINE j == i * Unit
  <2> HIDE DEF j
  <2>6. j * M \in Nat
    BY <1>2, <2>5, ProductGrows DEF j
  <2> QED BY <2>3, <2>6 DEF i, j, x, m
<1>5. ASSUME NEW a \in ToSet(head), NEW b \in ToSet(head), rated # <<>>, rated[a] >= rated[b]
      PROVE  re(b) <= re(a)
  <2>1. rated[a] \in Nat /\ rated[b] \in Nat /\ rated[b] <= rated[a]
    BY <1>4, <1>5
  <2>2. Unit \in Nat /\ Mix.rerank \in Nat
    BY UnitType, MixType
  <2> DEFINE x == rated[a]
             y == rated[b]
             m == Mix.rerank
  <2>3. x \in Nat /\ y \in Nat /\ y <= x /\ m \in Nat
    BY <2>1, <2>2
  <2> HIDE DEF x, y, m, M
  <2>4. m * x \in Nat /\ m * y \in Nat /\ m * y <= m * x
    BY <2>3, ProductGrows
  <2> DEFINE i == m * x
             k == m * y
  <2>5. i \in Nat /\ k \in Nat /\ k <= i
    BY <2>4
  <2> HIDE DEF i, k
  <2>6. i * Unit \in Nat /\ k * Unit \in Nat /\ k * Unit <= i * Unit
    BY <2>2, <2>5, ProductGrows
  <2> DEFINE p == i * Unit
             q == k * Unit
  <2>7. p \in Nat /\ q \in Nat /\ q <= p
    BY <2>6
  <2> HIDE DEF p, q
  <2>8. q * M <= p * M
    BY <1>2, <2>7, ProductGrows
  <2> QED BY <2>8 DEF p, q, i, k, x, y, m
<1>6. ASSUME NEW a \in ToSet(head) \cap there, NEW b \in ToSet(head) \cap there,
             RankOf(head, a) < RankOf(head, b), top(b)
      PROVE  top(a)
  <2> DEFINE T == {RerankTopK, len}
             m == Min(T)
  <2>1. m \in Nat /\ m <= len
    <3>1. T \in SUBSET Nat /\ T # {} /\ len \in T
      BY LimitsType DEF Headed
    <3> HIDE DEF T
    <3> QED BY <3>1, LeastIsMin
  <2>2. Reranked(head, there) = {head[k] : k \in 1..m} \cap there
    BY DEF Reranked
  <2> HIDE DEF m
  <2>3. PICK k \in 1..m : head[k] = b
    BY <1>6, <2>2
  <2>4. len \in Nat
    BY DEF Headed
  <2>5. RankOf(head, b) = k
    BY <1>1, <2>1, <2>3, <2>4
  <2>6. RankOf(head, a) \in 1..m /\ head[RankOf(head, a)] = a
    <3> DEFINE i == RankOf(head, a)
    <3>1. i \in 1..len /\ head[i] = a /\ i < k
      BY <1>1, <1>6, <2>5
    <3> HIDE DEF i
    <3>2. i \in 1..m
      BY <2>1, <2>3, <2>4, <3>1
    <3> QED BY <3>1, <3>2 DEF i
  <2> QED BY <2>2, <2>6
<1> HIDE DEF scores, M, base, re, top
<1>7. ASSUME NEW s \in ToSet(head) PROVE scores[s] \in Int
  <2>1. CASE rated = <<>>
    BY <1>2, <1>3, <2>1
  <2>2. CASE rated # <<>>
    <3>1. base(s) \in Nat /\ re(s) \in Nat
      BY <1>2, <1>4, <2>2
    <3>2. scores[s] = 10 * (re(s) + base(s)) \/ scores[s] = 9 * base(s)
      BY <1>3, <2>2
    <3> QED BY <3>1, <3>2
  <2> QED BY <2>1, <2>2
<1>8. scores \in [ToSet(head) -> Int]
  <2>1. scores = [s \in ToSet(head) |-> scores[s]]
    <3>1. scores = [s \in ToSet(head) |-> ScoreOf(rated, w, lists, fused, head, there, s)]
      BY ScoresAre DEF scores
    <3> QED BY <3>1
  <2> QED BY <1>7, <2>1
<1>9. ASSUME NEW a \in ToSet(head) \cap there, NEW b \in ToSet(head) \cap there,
             Agree(lists, a, b), fused[b] <= fused[a], RankOf(head, a) < RankOf(head, b),
             rated # <<>> => rated[a] >= rated[b]
      PROVE  scores[b] <= scores[a]
  <2>1. base(a) \in Nat /\ base(b) \in Nat /\ base(b) <= base(a)
    BY <1>2, <1>9
  <2>2. CASE rated = <<>>
    <3>1. scores[a] = base(a) * 10 /\ scores[b] = base(b) * 10
      BY <1>3, <2>2
    <3> QED BY <2>1, <3>1
  <2>3. CASE rated # <<>>
    <3>1. re(a) \in Nat /\ re(b) \in Nat /\ re(b) <= re(a)
      BY <1>4, <1>5, <1>9, <2>3
    <3>2. top(b) => top(a)
      BY <1>6, <1>9
    <3>3. /\ scores[a] = IF top(a) THEN 10 * (re(a) + base(a)) ELSE 9 * base(a)
          /\ scores[b] = IF top(b) THEN 10 * (re(b) + base(b)) ELSE 9 * base(b)
      BY <1>3, <2>3
    <3>4. CASE top(b)
      <4>1. scores[a] = 10 * (re(a) + base(a)) /\ scores[b] = 10 * (re(b) + base(b))
        BY <3>2, <3>3, <3>4
      <4> QED BY <2>1, <3>1, <4>1
    <3>5. CASE ~ top(b)
      <4>1. scores[b] = 9 * base(b) /\ (scores[a] = 10 * (re(a) + base(a)) \/ scores[a] = 9 * base(a))
        BY <3>3, <3>5
      <4> QED BY <2>1, <3>1, <4>1
    <3> QED BY <3>4, <3>5
  <2> QED BY <2>2, <2>3
<1> QED BY <1>8, <1>9 DEF scores

(* What the search sorts: the head that is still there, by score. *)
RanksIn(head, T) == [s \in T |-> RankOf(head, s)]
ScoresIn(scores, T) == [s \in T |-> scores[s]]
ScoreOrder(head, scores, T) == Lex(T, ScoresIn(scores, T), RanksIn(head, T), RanksIn(head, T))

LEMMA ByScoreIs ==
  ASSUME NEW head, NEW scores, NEW T, NEW a \in T, NEW b \in T
  PROVE  ByScore(head, scores, a, b) <=> <<a, b>> \in ScoreOrder(head, scores, T)
<1> DEFINE i == RankOf(head, a)
           j == RankOf(head, b)
<1>1. ByScore(head, scores, a, b) <=>
        scores[a] > scores[b] \/ (scores[a] = scores[b] /\ i < j)
  BY DEF ByScore
<1>2. <<a, b>> \in ScoreOrder(head, scores, T) <=>
        \/ scores[a] > scores[b]
        \/ /\ scores[a] = scores[b]
           /\ (i < j \/ (i = j /\ i < j))
  BY DEF ScoreOrder, Lex, ScoresIn, RanksIn
<1> HIDE DEF i, j
<1> QED BY <1>1, <1>2

LEMMA ScoresInOrder ==
  ASSUME NEW head, NEW len, NEW S, NEW Q, Headed(head, len, S, Q), Decides(Q, S),
         NEW scores \in [ToSet(head) -> Int], NEW there
  PROVE  LET T == ToSet(head) \cap there
         IN  /\ Decides(ScoreOrder(head, scores, T), T)
             /\ InOrder(Ranked(DOMAIN scores \cap there, LAMBDA a, b : ByScore(head, scores, a, b)),
                        T, ScoreOrder(head, scores, T))
<1> DEFINE T == ToSet(head) \cap there
           R == ScoreOrder(head, scores, T)
           P == {[x |-> x, ahead |-> Cardinality({y \in T : ByScore(head, scores, y, x)})] : x \in T}
<1>1. /\ IsFiniteSet(T) /\ \A s \in T : RankOf(head, s) \in Int /\ head[RankOf(head, s)] = s
      /\ \A s \in T : scores[s] \in Int
  <2>1. /\ IsFiniteSet(ToSet(head))
        /\ \A x \in ToSet(head) : RankOf(head, x) \in 1..len /\ head[RankOf(head, x)] = x
    BY HeadPlaces
  <2>2. len \in Nat
    BY DEF Headed
  <2>3. IsFiniteSet(T)
    BY <2>1, FS_Subset
  <2> QED BY <2>1, <2>2, <2>3
<1>2. P = Places(T, R)
  <2>1. \A x \in T : Ahead(R, T, x) = Cardinality({y \in T : ByScore(head, scores, y, x)})
    <3> SUFFICES ASSUME NEW x \in T
                 PROVE  Ahead(R, T, x) = Cardinality({y \in T : ByScore(head, scores, y, x)})
      OBVIOUS
    <3>1. {y \in T : ByScore(head, scores, y, x)} = {y \in T : <<y, x>> \in R}
      <4> HIDE DEF T
      <4> QED BY ByScoreIs
    <3> QED BY <3>1 DEF Ahead
  <2> HIDE DEF R, T
  <2> QED BY <2>1 DEF Places
<1>3. InOrder(Sorted(T, R), T, R) /\ Decides(R, T)
  <2> DEFINE f == ScoresIn(scores, T)
             g == RanksIn(head, T)
  <2>1. f \in [T -> Int] /\ g \in [T -> Int] /\ \A x, y \in T : g[x] = g[y] => x = y
    BY <1>1 DEF ScoresIn, RanksIn
  <2> HIDE DEF f, g, T
  <2>2. Decides(Lex(T, f, g, g), T)
    BY <2>1, LexDecides
  <2>3. Decides(R, T)
    BY <2>2 DEF ScoreOrder, f, g
  <2> HIDE DEF R
  <2> QED BY <1>1, <2>3, SortedInPlace
<1>4. DOMAIN scores \cap there = T
  OBVIOUS
<1>5. Ranked(DOMAIN scores \cap there, LAMBDA a, b : ByScore(head, scores, a, b)) =
        [i \in 1..Cardinality(T) |-> (CHOOSE p \in P : p.ahead = i - 1).x]
  <2>1. Ranked(T, LAMBDA a, b : ByScore(head, scores, a, b)) =
          [i \in 1..Cardinality(T) |-> (CHOOSE p \in P : p.ahead = i - 1).x]
    BY DEF Ranked
  <2> HIDE DEF P, T
  <2> QED BY <1>4, <2>1, Zenon
<1> HIDE DEF P
<1>6. Sorted(T, R) = [i \in 1..Cardinality(T) |-> (CHOOSE p \in P : p.ahead = i - 1).x]
  BY <1>2 DEF Sorted
<1> HIDE DEF T, R
<1>7. Ranked(DOMAIN scores \cap there, LAMBDA a, b : ByScore(head, scores, a, b)) = Sorted(T, R)
  BY <1>5, <1>6, Zenon
<1> QED BY <1>3, <1>7, Zenon DEF T, R

(* What every lane ranks better is met first, and so comes out first. *)
LEMMA AgreedIsFirst ==
  ASSUME NEW w, NEW lists, Listed(lists, w), NEW fused \in [FoundBy(lists) -> Nat],
         NEW a \in FoundBy(lists), NEW b \in FoundBy(lists),
         Agree(lists, a, b), fused[b] <= fused[a]
  PROVE  <<a, b>> \in FusedOrder(lists, fused)
<1> DEFINE n == FirstLane(lists, a)
           m == FirstLane(lists, b)
<1>1. /\ n \in 1..6 /\ m \in 1..6 /\ b \in Found(lists[Lanes[m]])
      /\ \A k \in 1..6 : a \in Found(lists[Lanes[k]]) => n <= k
  BY FirstLaneOf
<1>2. a \in Found(lists[Lanes[m]]) /\ RankIn(lists[Lanes[m]], a) < RankIn(lists[Lanes[m]], b)
  <2>1. Lanes[m] \in Lane
    BY <1>1, LanesAreSix
  <2> HIDE DEF m
  <2> QED BY <1>1, <2>1 DEF Agree
<1>3. n <= m
  BY <1>1, <1>2
<1>4. n < m \/ (n = m /\ RankIn(lists[Lanes[n]], a) < RankIn(lists[Lanes[n]], b))
  <2> HIDE DEF n, m
  <2>1. n < m \/ n = m
    BY <1>1, <1>3
  <2> QED BY <1>2, <2>1
<1>5. MetBefore(lists, a, b)
  BY <1>4 DEF MetBefore
<1>6. fused[a] > fused[b] \/ fused[a] = fused[b]
  BY <1>1
<1>7. ByFused(lists, fused, a, b)
  BY <1>5, <1>6 DEF ByFused
<1> QED BY <1>7, ByFusedIs

(* How an answer comes about: the head is loaded, T of it is still there,  *)
(* and it is sorted by R.                                                  *)
Answered(answer, n, T, R, r, rated, lists) ==
  /\ n = Cardinality(T) /\ T \in SUBSET Segments /\ Decides(R, T)
  /\ InOrder(answer.order, T, R)
  /\ \A a, b \in T :
       Agree(lists, a, b) /\ (rated # <<>> => rated[a] >= rated[b]) => <<a, b>> \in R
  /\ LET kept == ThinOut(Cap(r))[answer.order]
     IN  answer.hits = SubSeq(kept, 1, Min({Limit, Len(kept)}))

HeadOfSearch(r, w, lists) ==
  LET fused  == Fused(r.fusion, w, lists)
      ranked == Ranked(DOMAIN fused, LAMBDA a, b : ByFused(lists, fused, a, b))
  IN  SubSeq(ranked, 1, Min({Len(ranked), Max({RerankTopK, 4 * Limit})}))

ScoresOfSearch(r, w, lists, rated, there) ==
  FinalScores(rated, w, lists, Fused(r.fusion, w, lists), HeadOfSearch(r, w, lists), there)

Loaded(r, w, lists, there) == ToSet(HeadOfSearch(r, w, lists)) \cap there

OrderOfSearch(r, w, lists, rated, there) ==
  ScoreOrder(HeadOfSearch(r, w, lists), ScoresOfSearch(r, w, lists, rated, there),
             Loaded(r, w, lists, there))

LEMMA SearchAnswers ==
  ASSUME NEW r \in Requests, NEW w \in [Lane -> Int], NEW lists, Listed(lists, w),
         NEW rated, Scored(rated), NEW there
  PROVE  Answered(HitsFrom(r, w, lists, rated, there), Cardinality(Loaded(r, w, lists, there)),
                  Loaded(r, w, lists, there), OrderOfSearch(r, w, lists, rated, there),
                  r, rated, lists)
<1> DEFINE fused == Fused(r.fusion, w, lists)
           S == FoundBy(lists)
           Q == FusedOrder(lists, fused)
           ranked == Ranked(DOMAIN fused, LAMBDA a, b : ByFused(lists, fused, a, b))
           head == SubSeq(ranked, 1, Min({Len(ranked), Max({RerankTopK, 4 * Limit})}))
           scores == FinalScores(rated, w, lists, fused, head, there)
           T == ToSet(head) \cap there
           R == ScoreOrder(head, scores, T)
           order == Ranked(DOMAIN scores \cap there, LAMBDA a, b : ByScore(head, scores, a, b))
           kept == ThinOut(Cap(r))[order]
           page == SubSeq(kept, 1, Min({Limit, Len(kept)}))
<1>1. HitsFrom(r, w, lists, rated, there) = [hits |-> page, order |-> order]
  BY DEF HitsFrom
<1>2. r.fusion \in {"weighted", "rrf"}
  BY RequestsType
<1>0. T = Loaded(r, w, lists, there) /\ R = OrderOfSearch(r, w, lists, rated, there)
  BY DEF Loaded, OrderOfSearch, ScoresOfSearch, HeadOfSearch
<1>3. /\ fused \in [S -> Nat]
      /\ \A a, b \in S : Agree(lists, a, b) => fused[b] <= fused[a]
  BY <1>2, FusedGrows
<1> HIDE DEF fused
<1>4. Decides(Q, S) /\ S \in SUBSET Segments
  BY <1>2, <1>3, FusedIsDecided
<1>5. InOrder(ranked, S, Q)
  BY <1>2, <1>3, FusedInOrder
<1>6. \A a, b \in S : Agree(lists, a, b) => <<a, b>> \in Q
  BY <1>2, <1>3, AgreedIsFirst
<1> HIDE DEF Q, S, ranked
<1>7. Len(head) \in Nat /\ Headed(head, Len(head), S, Q)
  BY <1>5, HeadOf
<1> HIDE DEF head
<1>8. /\ ToSet(head) \in SUBSET S
      /\ \A x, y \in ToSet(head) : <<x, y>> \in Q <=> RankOf(head, x) < RankOf(head, y)
  BY <1>4, <1>7, HeadPlaces
<1>9. /\ scores \in [ToSet(head) -> Int]
      /\ \A a, b \in ToSet(head) \cap there :
           /\ Agree(lists, a, b) /\ fused[b] <= fused[a]
           /\ RankOf(head, a) < RankOf(head, b)
           /\ rated # <<>> => rated[a] >= rated[b]
           => scores[b] <= scores[a]
  BY <1>2, <1>3, <1>4, <1>7, FinalScoresGrow
<1> HIDE DEF scores
<1>10. InOrder(order, T, R) /\ Decides(R, T)
  BY <1>4, <1>7, <1>9, ScoresInOrder
<1>11. ASSUME NEW a \in T, NEW b \in T, Agree(lists, a, b),
              rated # <<>> => rated[a] >= rated[b]
       PROVE  <<a, b>> \in R
  <2>1. a \in ToSet(head) \cap there /\ b \in ToSet(head) \cap there /\ a \in S /\ b \in S
    BY <1>8
  <2>2. fused[b] <= fused[a] /\ RankOf(head, a) < RankOf(head, b)
    BY <1>3, <1>6, <1>8, <1>11, <2>1
  <2>3. scores[b] <= scores[a]
    BY <1>9, <1>11, <2>1, <2>2
  <2>4. scores[a] \in Int /\ scores[b] \in Int
    BY <1>9, <2>1
  <2>5. scores[a] > scores[b] \/ scores[a] = scores[b]
    BY <2>3, <2>4
  <2>6. ByScore(head, scores, a, b)
    BY <2>2, <2>5 DEF ByScore
  <2> HIDE DEF T
  <2> QED BY <2>6, ByScoreIs
<1>12. T \in SUBSET Segments
  BY <1>4, <1>8
<1> HIDE DEF T, R, order
<1>13. /\ [hits |-> page, order |-> order].order = order
       /\ [hits |-> page, order |-> order].hits = page
  OBVIOUS
<1> DEFINE answer == HitsFrom(r, w, lists, rated, there)
<1>14. answer.order = order /\ answer.hits = page
  BY <1>1, <1>13
<1> HIDE DEF answer
<1>15. Answered(answer, Cardinality(T), T, R, r, rated, lists)
  BY <1>10, <1>11, <1>12, <1>14 DEF Answered
<1> QED BY <1>0, <1>15 DEF answer

-----------------------------------------------------------------------------
(* Suppression of what is near a better hit *)

LEMMA NearIsMutual ==
  ASSUME NEW a \in Segments, NEW b \in Segments, Near(a, b)
  PROVE  Near(b, a)
<1>1. Span[a] \in Nat \X Nat /\ Span[b] \in Nat \X Nat
  BY SpanType
<1>2. /\ Span[a][1] \in Nat /\ Span[a][2] \in Nat /\ Span[b][1] \in Nat /\ Span[b][2] \in Nat
      /\ DedupWindow \in Nat
  BY <1>1, LimitsType
<1> QED BY <1>2 DEF Near

LEMMA SuppressKeepsHits ==
  ASSUME NEW cap, NEW acc \in Seq(Segments), NEW x \in Segments
  PROVE  Suppress(cap, acc, x) \in Seq(Segments)
<1>1. Append(acc, x) \in Seq(Segments)
  BY AppendProperties
<1> QED BY <1>1 DEF Suppress

(* suppress() takes the hits in turn. *)
HitsWalk(cap, h, b, q, n) ==
  /\ h[0] = b /\ \A i \in 1..n : h[i] = Suppress(cap, h[i - 1], q[i])
  /\ FoldLeft(LAMBDA kept, seg : Suppress(cap, kept, seg), b, q) = h[n]

LEMMA HitsOneByOne ==
  ASSUME NEW cap, NEW n \in Nat, NEW q \in [1..n -> Segments], NEW b \in Seq(Segments)
  PROVE  \E h : HitsWalk(cap, h, b, q, n)
<1> DEFINE st == [p \in (1..n) \X Seq(Segments) |-> Suppress(cap, p[2], q[p[1]])]
<1>1. st \in [(1..n) \X Seq(Segments) -> Seq(Segments)]
  BY SuppressKeepsHits
<1>2. PICK g \in [SUBSET (1..n) -> Seq(Segments)] :
        Recurses(g, 1..n, [s \in SUBSET (1..n) |-> Max(s)], b, st)
  <2> HIDE DEF st
  <2> QED BY <1>1, FoldExists
<1>3. ASSUME NEW d \in SUBSET (1..n)
      PROVE  g[d] = IF d = {} THEN b ELSE Suppress(cap, g[d \ {Max(d)}], q[Max(d)])
  <2>1. g[d] = IF d = {} THEN b ELSE st[Max(d), g[d \ {Max(d)}]]
    <3> HIDE DEF st
    <3> QED BY <1>2 DEF Recurses
  <2>2. d # {} => Max(d) \in 1..n /\ g[d \ {Max(d)}] \in Seq(Segments)
    <3>1. d \in SUBSET Nat /\ \A x \in d : x <= n
      OBVIOUS
    <3> QED BY <3>1, GreatestElement
  <2>3. d # {} => st[Max(d), g[d \ {Max(d)}]] = Suppress(cap, g[d \ {Max(d)}], q[Max(d)])
    BY <2>2
  <2> QED BY <2>1, <2>3
<1>4. g = [d \in SUBSET (1..n) |-> IF d = {} THEN b ELSE Suppress(cap, g[d \ {Max(d)}], q[Max(d)])]
  BY <1>3
<1> DEFINE f == CHOOSE r : r = [d \in SUBSET (1..n) |->
                                  IF d = {} THEN b ELSE Suppress(cap, r[d \ {Max(d)}], q[Max(d)])]
<1>5. f = [d \in SUBSET (1..n) |-> IF d = {} THEN b ELSE Suppress(cap, f[d \ {Max(d)}], q[Max(d)])]
  BY <1>4, Zenon
<1>6. FoldLeft(LAMBDA kept, seg : Suppress(cap, kept, seg), b, q) = f[1..n]
  <2>1. DOMAIN q = 1..n
    OBVIOUS
  <2>2. FoldLeft(LAMBDA kept, seg : Suppress(cap, kept, seg), b, q) =
          (CHOOSE r : r = [d \in SUBSET (DOMAIN q) |->
             IF d = {} THEN b ELSE Suppress(cap, r[d \ {Max(d)}], q[Max(d)])])[DOMAIN q]
    BY DEF FoldLeft, MapThenFoldSet
  <2> QED BY <2>1, <2>2, Zenon
<1>7. \A d \in SUBSET (1..n) : f[d] = IF d = {} THEN b
          ELSE Suppress(cap, f[d \ {Max(d)}], q[Max(d)])
  <2> HIDE DEF f
  <2> QED BY <1>5
<1>8. Steps(f, n, Seq(Segments), b, st)
  <2>1. f[{}] = b
    <3> HIDE DEF f
    <3> QED BY <1>7
  <2> SUFFICES ASSUME NEW d \in SUBSET (1..n), d # {}, f[d \ {Max(d)}] \in Seq(Segments)
               PROVE  f[d] = st[Max(d), f[d \ {Max(d)}]]
    BY <2>1 DEF Steps
  <2> HIDE DEF f
  <2>2. f[d] = Suppress(cap, f[d \ {Max(d)}], q[Max(d)])
    BY <1>7
  <2>3. Max(d) \in 1..n
    <3>1. d \in SUBSET Nat /\ \A x \in d : x <= n
      OBVIOUS
    <3> QED BY <3>1, GreatestElement
  <2> QED BY <2>2, <2>3
<1> HIDE DEF f, st
<1>9. PICK h : Trace(h, f, n, Seq(Segments), b, st)
  BY <1>1, <1>8, FoldFollows
<1>10. h \in [0..n -> Seq(Segments)] /\ h[0] = b /\ h[n] = f[1..n]
  BY <1>9 DEF Trace
<1>11. ASSUME NEW i \in 1..n PROVE h[i] = Suppress(cap, h[i - 1], q[i])
  <2>1. i - 1 \in 0..n /\ h[i - 1] \in Seq(Segments)
    BY <1>10
  <2> QED BY <1>9, <2>1 DEF Trace, st
<1> QED BY <1>6, <1>10, <1>11 DEF HitsWalk

(* How many of the first b of kept are of video v. *)
ShareOf(kept, b, v) == Cardinality({m \in 1..b : VideoOf[kept[m]] = v})

LEMMA ShareGrows ==
  ASSUME NEW acc \in Seq(Segments), NEW x \in Segments, NEW v
  PROVE  /\ \A b \in 0..Len(acc) : ShareOf(Append(acc, x), b, v) = ShareOf(acc, b, v)
         /\ ShareOf(acc, Len(acc), v) \in Nat
         /\ VideoOf[x] = v =>
              ShareOf(Append(acc, x), Len(acc) + 1, v) = ShareOf(acc, Len(acc), v) + 1
         /\ VideoOf[x] # v =>
              ShareOf(Append(acc, x), Len(acc) + 1, v) = ShareOf(acc, Len(acc), v)
<1> DEFINE app == Append(acc, x)
           n == Len(acc)
           Old == {m \in 1..n : VideoOf[acc[m]] = v}
           New == {m \in 1..(n + 1) : VideoOf[app[m]] = v}
<1>1. /\ n \in Nat /\ app[n + 1] = x
      /\ \A m \in 1..n : app[m] = acc[m]
  BY AppendProperties
<1> HIDE DEF app, n
<1>2. ASSUME NEW b \in 0..n PROVE ShareOf(app, b, v) = ShareOf(acc, b, v)
  <2>1. \A m \in 1..b : m \in 1..n
    BY <1>1
  <2>2. {m \in 1..b : VideoOf[app[m]] = v} = {m \in 1..b : VideoOf[acc[m]] = v}
    BY <1>1, <2>1
  <2> QED BY <2>2 DEF ShareOf
<1>3. IsFiniteSet(Old) /\ Cardinality(Old) \in Nat
  <2>1. IsFiniteSet(1..n)
    BY <1>1, FS_Interval
  <2>2. Old \in SUBSET (1..n)
    OBVIOUS
  <2> HIDE DEF Old
  <2> QED BY <2>1, <2>2, FS_Subset, FS_CardinalityType
<1>4. \A m \in 1..(n + 1) : m \in 1..n \/ m = n + 1
  BY <1>1
<1>5. \A m \in 1..n : m \in 1..(n + 1)
  BY <1>1
<1>6. n + 1 \in 1..(n + 1) /\ n + 1 \notin 1..n
  BY <1>1
<1>7. ASSUME VideoOf[x] = v PROVE Cardinality(New) = Cardinality(Old) + 1
  <2>1. New = Old \cup {n + 1}
    BY <1>1, <1>4, <1>5, <1>6, <1>7
  <2>2. n + 1 \notin Old
    BY <1>6
  <2> HIDE DEF Old, New
  <2> QED BY <1>3, <2>1, <2>2, FS_AddElement
<1>8. ASSUME VideoOf[x] # v PROVE New = Old
  BY <1>1, <1>4, <1>5, <1>8
<1>9. ShareOf(acc, n, v) = Cardinality(Old) /\ ShareOf(app, n + 1, v) = Cardinality(New)
  BY DEF ShareOf
<1> HIDE DEF Old, New
<1>10. /\ \A b \in 0..n : ShareOf(app, b, v) = ShareOf(acc, b, v)
       /\ ShareOf(acc, n, v) \in Nat
       /\ VideoOf[x] = v => ShareOf(app, n + 1, v) = ShareOf(acc, n, v) + 1
       /\ VideoOf[x] # v => ShareOf(app, n + 1, v) = ShareOf(acc, n, v)
  BY <1>2, <1>3, <1>7, <1>8, <1>9
<1> QED BY <1>10 DEF app, n

(* Why x, at place i of the list, is kept or not: of the hits kept the      *)
(* first b come before it, and it is the next, or near one of them, or its  *)
(* video has its share.                                                     *)
Explained(kept, at, i, x, cap) ==
  \E b \in 0..Len(kept) :
    /\ \A m \in 1..Len(kept) : at[kept[m]] < i <=> m <= b
    /\ \/ b < Len(kept) /\ kept[b + 1] = x
       \/ \E m \in 1..b : Near(x, kept[m])
       \/ cap > 0 /\ ShareOf(kept, b, VideoOf[x]) = cap

(* What suppress() has kept of the first k hits of q; at is the inverse of q. *)
Thinned(kept, q, at, k, cap) ==
  /\ kept \in Seq(Segments)
  /\ \A m \in 1..Len(kept) : at[kept[m]] \in 1..k
  /\ \A m, o \in 1..Len(kept) : m < o => at[kept[m]] < at[kept[o]]
  /\ \A m, o \in 1..Len(kept) : m # o => ~ Near(kept[m], kept[o])
  /\ cap > 0 => \A s \in Segments : ShareOf(kept, Len(kept), VideoOf[s]) <= cap
  /\ \A i \in 1..k : Explained(kept, at, i, q[i], cap)

LEMMA SuppressThins ==
  ASSUME NEW cap \in Nat, NEW n \in Nat, NEW q \in [1..n -> Segments], NEW at,
         \A i \in 1..n : at[q[i]] = i,
         NEW k \in 1..n, NEW acc, Thinned(acc, q, at, k - 1, cap)
  PROVE  Thinned(Suppress(cap, acc, q[k]), q, at, k, cap)
<1> DEFINE x == q[k]
           new == Append(acc, x)
           len == Len(acc)
<1>1. /\ acc \in Seq(Segments) /\ x \in Segments /\ at[x] = k
      /\ len \in Nat /\ DOMAIN acc = 1..len
  BY DEF Thinned
<1>2. /\ \A m \in 1..len : at[acc[m]] \in 1..(k - 1)
      /\ \A m, o \in 1..len : m < o => at[acc[m]] < at[acc[o]]
      /\ \A m, o \in 1..len : m # o => ~ Near(acc[m], acc[o])
      /\ cap > 0 => \A s \in Segments : ShareOf(acc, len, VideoOf[s]) <= cap
      /\ \A i \in 1..(k - 1) : Explained(acc, at, i, q[i], cap)
  BY DEF Thinned
<1>3. \A m \in 1..len : acc[m] \in Segments
  BY <1>1, ElementOfSeq
<1>4. OfVideo(acc, VideoOf[x]) = ShareOf(acc, len, VideoOf[x])
  BY <1>1 DEF OfVideo, ShareOf
<1>5. \A i \in 1..k : i \in 1..(k - 1) \/ i = k
  OBVIOUS
<1>6. \A m \in 1..len : at[acc[m]] < k /\ at[acc[m]] \in 1..k
  BY <1>2
<1> HIDE DEF len
<1>7. ASSUME \/ \E m \in 1..len : Near(x, acc[m])
             \/ cap > 0 /\ ShareOf(acc, len, VideoOf[x]) >= cap
      PROVE  Thinned(acc, q, at, k, cap)
  <2>1. cap > 0 => ShareOf(acc, len, VideoOf[x]) <= cap /\ ShareOf(acc, len, VideoOf[x]) \in Nat
    BY <1>1, <1>2, ShareGrows DEF len
  <2>2. \/ \E m \in 1..len : Near(x, acc[m])
        \/ cap > 0 /\ ShareOf(acc, len, VideoOf[x]) = cap
    BY <1>7, <2>1
  <2>3. len \in 0..len /\ \A m \in 1..len : at[acc[m]] < k <=> m <= len
    BY <1>1, <1>6
  <2>4. Explained(acc, at, k, x, cap)
    BY <2>2, <2>3 DEF Explained, len
  <2>5. \A i \in 1..k : Explained(acc, at, i, q[i], cap)
    BY <1>2, <1>5, <2>4
  <2> HIDE DEF x
  <2> QED BY <1>1, <1>2, <1>6, <2>5 DEF Thinned, len
<1>8. ASSUME \A m \in 1..len : ~ Near(x, acc[m]),
             cap > 0 => ~ (ShareOf(acc, len, VideoOf[x]) >= cap)
      PROVE  Thinned(new, q, at, k, cap)
  <2>1. /\ new \in Seq(Segments) /\ Len(new) = len + 1 /\ new[len + 1] = x
        /\ \A m \in 1..len : new[m] = acc[m]
    BY <1>1, AppendProperties DEF len
  <2>2. \A v : /\ \A b \in 0..len : ShareOf(new, b, v) = ShareOf(acc, b, v)
               /\ ShareOf(acc, len, v) \in Nat
               /\ VideoOf[x] = v => ShareOf(new, len + 1, v) = ShareOf(acc, len, v) + 1
               /\ VideoOf[x] # v => ShareOf(new, len + 1, v) = ShareOf(acc, len, v)
    BY <1>1, ShareGrows DEF len
  <2>3. \A m \in 1..(len + 1) : m \in 1..len \/ m = len + 1
    BY <1>1
  <2> HIDE DEF x, new
  <2>4. \A m \in 1..Len(new) : at[new[m]] \in 1..k
    <3>1. k \in 1..k
      OBVIOUS
    <3> QED BY <1>1, <1>6, <2>1, <2>3, <3>1
  <2>5. ASSUME NEW m \in 1..Len(new), NEW o \in 1..Len(new), m < o
        PROVE  at[new[m]] < at[new[o]]
    <3>1. m \in 1..len
      BY <1>1, <2>1, <2>5
    <3>2. CASE o \in 1..len
      BY <1>2, <2>1, <2>5, <3>1, <3>2
    <3>3. CASE o = len + 1
      BY <1>1, <1>6, <2>1, <3>1, <3>3
    <3> QED BY <2>1, <2>3, <3>2, <3>3
  <2>6. ASSUME NEW m \in 1..Len(new), NEW o \in 1..Len(new), m # o
        PROVE  ~ Near(new[m], new[o])
    <3>1. CASE m \in 1..len /\ o \in 1..len
      BY <1>2, <2>1, <2>6, <3>1
    <3>2. CASE m = len + 1 /\ o \in 1..len
      BY <1>8, <2>1, <3>2
    <3>3. CASE m \in 1..len /\ o = len + 1
      <4>1. new[m] = acc[m] /\ new[o] = x /\ acc[m] \in Segments /\ ~ Near(x, acc[m])
        BY <1>3, <1>8, <2>1, <3>3
      <4> QED BY <1>1, <4>1, NearIsMutual
    <3>4. CASE m = len + 1 /\ o = len + 1
      BY <2>6, <3>4
    <3> QED BY <2>1, <2>3, <3>1, <3>2, <3>3, <3>4
  <2>7. ASSUME cap > 0, NEW s \in Segments
        PROVE  ShareOf(new, Len(new), VideoOf[s]) <= cap
    <3>1. ShareOf(acc, len, VideoOf[s]) <= cap /\ ShareOf(acc, len, VideoOf[s]) \in Nat
      BY <1>2, <2>2, <2>7
    <3>2. CASE VideoOf[x] = VideoOf[s]
      <4>1. ShareOf(new, len + 1, VideoOf[s]) = ShareOf(acc, len, VideoOf[s]) + 1
        BY <2>2, <3>2
      <4>2. ~ (ShareOf(acc, len, VideoOf[s]) >= cap)
        BY <1>8, <2>7, <3>2
      <4> QED BY <2>1, <3>1, <4>1, <4>2
    <3>3. CASE VideoOf[x] # VideoOf[s]
      <4>1. ShareOf(new, len + 1, VideoOf[s]) = ShareOf(acc, len, VideoOf[s])
        BY <2>2, <3>3
      <4> QED BY <2>1, <3>1, <4>1
    <3> QED BY <3>2, <3>3
  <2>8. ASSUME NEW i \in 1..k PROVE Explained(new, at, i, q[i], cap)
    <3>1. CASE i = k
      <4>1. len \in 0..Len(new) /\ len < Len(new) /\ new[len + 1] = q[i]
        BY <1>1, <2>1, <3>1 DEF x
      <4>2. ASSUME NEW m \in 1..Len(new) PROVE at[new[m]] < i <=> m <= len
        <5>1. CASE m \in 1..len
          BY <1>6, <2>1, <3>1, <5>1
        <5>2. CASE m = len + 1
          BY <1>1, <2>1, <3>1, <5>2
        <5> QED BY <2>1, <2>3, <5>1, <5>2
      <4> QED BY <4>1, <4>2 DEF Explained
    <3>2. CASE i \in 1..(k - 1)
      <4>1. PICK b \in 0..len :
              /\ \A m \in 1..len : at[acc[m]] < i <=> m <= b
              /\ \/ b < len /\ acc[b + 1] = q[i]
                 \/ \E m \in 1..b : Near(q[i], acc[m])
                 \/ cap > 0 /\ ShareOf(acc, b, VideoOf[q[i]]) = cap
        BY <1>2, <3>2 DEF Explained, len
      <4>2. ASSUME NEW m \in 1..Len(new) PROVE at[new[m]] < i <=> m <= b
        <5>1. CASE m \in 1..len
          BY <2>1, <4>1, <5>1
        <5>2. CASE m = len + 1
          BY <1>1, <2>1, <3>2, <5>2
        <5> QED BY <2>1, <2>3, <5>1, <5>2
      <4>3. b \in 0..Len(new) /\ \A m \in 1..b : m \in 1..len
        BY <1>1, <2>1
      <4>4. CASE b < len /\ acc[b + 1] = q[i]
        <5>1. b + 1 \in 1..len
          BY <1>1, <4>4
        <5>2. b < Len(new) /\ new[b + 1] = q[i]
          BY <1>1, <2>1, <4>4, <5>1
        <5> QED BY <4>2, <4>3, <5>2 DEF Explained
      <4>5. CASE \E m \in 1..b : Near(q[i], acc[m])
        <5>1. \E m \in 1..b : Near(q[i], new[m])
          BY <2>1, <4>3, <4>5
        <5> QED BY <4>2, <4>3, <5>1 DEF Explained
      <4>6. CASE cap > 0 /\ ShareOf(acc, b, VideoOf[q[i]]) = cap
        <5>1. cap > 0 /\ ShareOf(new, b, VideoOf[q[i]]) = cap
          BY <2>2, <4>6
        <5> QED BY <4>2, <4>3, <5>1 DEF Explained
      <4> QED BY <4>1, <4>4, <4>5, <4>6
    <3> QED BY <1>5, <3>1, <3>2
  <2> QED BY <2>1, <2>4, <2>5, <2>6, <2>7, <2>8 DEF Thinned
<1>9. \/ /\ Suppress(cap, acc, x) = acc
         /\ \/ \E m \in 1..len : Near(x, acc[m])
            \/ cap > 0 /\ ShareOf(acc, len, VideoOf[x]) >= cap
      \/ /\ Suppress(cap, acc, x) = new
         /\ \A m \in 1..len : ~ Near(x, acc[m])
         /\ cap > 0 => ~ (ShareOf(acc, len, VideoOf[x]) >= cap)
  <2> HIDE DEF x
  <2> QED BY <1>1, <1>4 DEF Suppress
<1> HIDE DEF new
<1>10. Thinned(Suppress(cap, acc, x), q, at, k, cap)
  BY <1>7, <1>8, <1>9
<1> QED BY <1>10

LEMMA ThinOutThins ==
  ASSUME NEW cap \in Nat, NEW n \in Nat, NEW q \in [1..n -> Segments], NEW at,
         \A i \in 1..n : at[q[i]] = i
  PROVE  Thinned(ThinOut(cap)[q], q, at, n, cap)
<1> DEFINE b == <<>>
<1>1. b \in Seq(Segments) /\ Len(b) = 0
  OBVIOUS
<1>2. q \in Seq(Segments)
  <2>1. \A i \in 1..n : q[i] \in Segments
    OBVIOUS
  <2>2. q = [i \in 1..n |-> q[i]]
    OBVIOUS
  <2> QED BY <2>1, <2>2, IsASeq
<1>3. ThinOut(cap)[q] = FoldLeft(LAMBDA kept, seg : Suppress(cap, kept, seg), b, q)
  BY <1>2 DEF ThinOut
<1> HIDE DEF b
<1>4. PICK h : HitsWalk(cap, h, b, q, n)
  BY <1>1, HitsOneByOne
<1>5. /\ h[0] = b /\ \A i \in 1..n : h[i] = Suppress(cap, h[i - 1], q[i])
      /\ ThinOut(cap)[q] = h[n]
  BY <1>4, <1>3 DEF HitsWalk
<1> DEFINE Good == {i \in 0..n : Thinned(h[i], q, at, i, cap)}
<1>6. 0 \in Good
  <2>1. h[0] \in Seq(Segments) /\ Len(h[0]) = 0
    BY <1>1, <1>5
  <2>2. \A v : ShareOf(h[0], 0, v) = 0
    <3> SUFFICES ASSUME NEW v PROVE ShareOf(h[0], 0, v) = 0
      OBVIOUS
    <3>1. {m \in 1..0 : VideoOf[h[0][m]] = v} = {}
      OBVIOUS
    <3> QED BY <3>1, FS_EmptySet DEF ShareOf
  <2>3. 1..0 = {} /\ 0 \in 0..n
    OBVIOUS
  <2>4. Thinned(h[0], q, at, 0, cap)
    BY <2>1, <2>2, <2>3 DEF Thinned
  <2> QED BY <2>3, <2>4
<1>7. ASSUME NEW i \in 1..n, i - 1 \in Good PROVE i \in Good
  <2>1. Thinned(h[i - 1], q, at, i - 1, cap)
    BY <1>7
  <2>2. Thinned(Suppress(cap, h[i - 1], q[i]), q, at, i, cap)
    BY <2>1, SuppressThins
  <2>3. Thinned(h[i], q, at, i, cap) /\ i \in 0..n
    BY <1>5, <2>2
  <2> QED BY <2>3
<1>8. n \in Good
  <2> HIDE DEF Good
  <2>1. \A i \in 1..n : i - 1 \in Good => i \in Good
    BY <1>7
  <2>2. \A i \in 0..n : i \in Good
    BY <1>6, <2>1, StepByStep
  <2> QED BY <2>2
<1> QED BY <1>5, <1>8

(* A page of numbered things has as many of them as places. *)
At(f, B) == {f[i] : i \in B}

LEMMA NumberedOnce ==
  ASSUME NEW n \in Nat, NEW B \in SUBSET (1..n), NEW f,
         \A i, j \in B : i # j => f[i] # f[j]
  PROVE  Cardinality(At(f, B)) = Cardinality(B)
<1> DEFINE T == At(f, B)
           g == [i \in B |-> f[i]]
<1>1. IsFiniteSet(B)
  <2>1. IsFiniteSet(1..n)
    BY FS_Interval
  <2> QED BY <2>1, FS_Subset
<1>2. g \in Bijection(B, T)
  <2>1. /\ g \in [B -> T]
        /\ \A t \in T : \E i \in B : g[i] = t
    BY DEF At
  <2>2. \A i, j \in B : i # j => g[i] # g[j]
    OBVIOUS
  <2> HIDE DEF g, T
  <2>3. g \in Injection(B, T)
    BY <2>1, <2>2 DEF Injection, IsInjective
  <2>4. g \in Surjection(B, T)
    BY <2>1 DEF Surjection
  <2> QED BY <2>3, <2>4 DEF Bijection
<1>3. ExistsBijection(B, T)
  BY <1>2 DEF ExistsBijection
<1> HIDE DEF T, g
<1>4. Cardinality(T) = Cardinality(B)
  BY <1>1, <1>3, FS_Bijection
<1> QED BY <1>4 DEF T

(* A page: the first hits that suppress() kept. *)
Paged(page, len, kept) ==
  /\ len \in Nat /\ len <= Limit /\ len <= Len(kept) /\ (len = Limit \/ len = Len(kept))
  /\ page = [m \in 1..len |-> kept[m]]

Better(page, len, at, i) == {x \in {page[m] : m \in 1..len} : at[x] < i}

(* Why the i-th segment, x, is not on it. *)
LeftOut(better, x, cap) ==
  \/ Cardinality(better) = Limit
  \/ \E h \in better : Near(x, h)
  \/ /\ cap > 0
     /\ Cardinality({h \in better : VideoOf[h] = VideoOf[x]}) = cap

LEMMA PageExplains ==
  ASSUME NEW cap \in Nat, NEW n \in Nat, NEW q \in [1..n -> Segments], NEW at,
         \A i \in 1..n : at[q[i]] = i,
         NEW kept, Thinned(kept, q, at, n, cap),
         NEW len, NEW page, Paged(page, len, kept),
         NEW i \in 1..n, \A m \in 1..len : page[m] # q[i]
  PROVE  LeftOut(Better(page, len, at, i), q[i], cap)
<1> DEFINE better == {x \in {page[m] : m \in 1..len} : at[x] < i}
           video == {x \in better : VideoOf[x] = VideoOf[q[i]]}
<1> SUFFICES \/ Cardinality(better) = Limit
             \/ \E x \in better : Near(q[i], x)
             \/ cap > 0 /\ Cardinality(video) = cap
  BY Zenon DEF LeftOut, Better
<1>1. /\ len \in Nat /\ len <= Limit /\ len <= Len(kept) /\ (len = Limit \/ len = Len(kept))
      /\ page = [m \in 1..len |-> kept[m]]
  BY DEF Paged
<1>2. kept \in Seq(Segments) /\ Len(kept) \in Nat /\ Limit \in Nat
  BY LimitsType DEF Thinned
<1>3. \A m, o \in 1..Len(kept) : m < o => at[kept[m]] < at[kept[o]]
  BY DEF Thinned
<1>4. \A m \in 1..Len(kept) : at[kept[m]] \in Nat
  BY DEF Thinned
<1>5. \A m, o \in 1..len : m # o => kept[m] # kept[o]
  <2> SUFFICES ASSUME NEW m \in 1..len, NEW o \in 1..len, m # o PROVE kept[m] # kept[o]
    OBVIOUS
  <2>1. m \in 1..Len(kept) /\ o \in 1..Len(kept) /\ (m < o \/ o < m)
    BY <1>1, <1>2
  <2>2. at[kept[m]] < at[kept[o]] \/ at[kept[o]] < at[kept[m]]
    BY <1>3, <2>1
  <2>3. at[kept[m]] \in Nat /\ at[kept[o]] \in Nat
    BY <1>4, <2>1
  <2> QED BY <2>2, <2>3
<1>6. PICK b \in 0..Len(kept) :
        /\ \A m \in 1..Len(kept) : at[kept[m]] < i <=> m <= b
        /\ \/ b < Len(kept) /\ kept[b + 1] = q[i]
           \/ \E m \in 1..b : Near(q[i], kept[m])
           \/ cap > 0 /\ ShareOf(kept, b, VideoOf[q[i]]) = cap
  BY DEF Thinned, Explained
<1>7. \A m \in 1..len : page[m] = kept[m] /\ m \in 1..Len(kept)
  BY <1>1, <1>2
<1>8. CASE len <= b /\ len = Limit
  <2>1. \A m \in 1..len : at[kept[m]] < i
    BY <1>1, <1>2, <1>6, <1>7, <1>8
  <2>2. better = At(kept, 1..len)
    BY <1>7, <2>1 DEF At
  <2>3. Cardinality(At(kept, 1..len)) = Cardinality(1..len)
    <3>1. 1..len \in SUBSET (1..len)
      OBVIOUS
    <3> QED BY <1>1, <1>5, <3>1, NumberedOnce
  <2>4. Cardinality(1..len) = len
    <3>1. len \in Nat
      BY <1>1
    <3> QED BY <3>1, FS_Interval
  <2> HIDE DEF better
  <2>5. Cardinality(better) = Limit
    BY <1>8, <2>2, <2>3, <2>4
  <2> QED BY <2>5 DEF better
<1>9. CASE ~ (len <= b /\ len = Limit)
  <2>1. b <= len /\ ~ (b < Len(kept) /\ kept[b + 1] = q[i])
    <3>1. b <= len
      BY <1>1, <1>2, <1>9
    <3>2. ASSUME b < Len(kept), kept[b + 1] = q[i] PROVE FALSE
      <4>1. b + 1 \in 1..len
        BY <1>1, <1>2, <1>9, <3>1, <3>2
      <4> QED BY <1>7, <3>2, <4>1
    <3> QED BY <3>1, <3>2
  <2>2. \A m \in 1..b : m \in 1..len /\ kept[m] = page[m] /\ at[kept[m]] < i
    BY <1>1, <1>2, <1>6, <1>7, <2>1
  <2>3. \A m \in 1..len : at[kept[m]] < i => m \in 1..b
    BY <1>6, <1>7
  <2>4. CASE \E m \in 1..b : Near(q[i], kept[m])
    <3>1. PICK m \in 1..b : Near(q[i], kept[m])
      BY <2>4
    <3>2. kept[m] \in better
      BY <2>2
    <3> QED BY <3>1, <3>2
  <2>5. CASE cap > 0 /\ ShareOf(kept, b, VideoOf[q[i]]) = cap
    <3> DEFINE B == {m \in 1..b : VideoOf[kept[m]] = VideoOf[q[i]]}
    <3>1. video = At(kept, B)
      <4>1. ASSUME NEW x \in video PROVE x \in At(kept, B)
        <5>1. PICK m \in 1..len : x = page[m]
          OBVIOUS
        <5>2. at[kept[m]] < i /\ x = kept[m]
          BY <1>7, <5>1
        <5>3. m \in B
          BY <2>3, <5>2
        <5> QED BY <5>2, <5>3 DEF At
      <4>2. ASSUME NEW m \in B PROVE kept[m] \in video
        BY <2>2
      <4>3. ASSUME NEW x \in At(kept, B) PROVE x \in video
        <5>1. PICK m \in B : x = kept[m]
          BY DEF At
        <5> HIDE DEF video
        <5> QED BY <4>2, <5>1
      <4> HIDE DEF video, B
      <4> QED BY <4>1, <4>3
    <3>2. B \in SUBSET (1..len)
      BY <2>2
    <3> HIDE DEF B, video
    <3>3. Cardinality(At(kept, B)) = Cardinality(B)
      <4>1. \A m, o \in B : m # o => kept[m] # kept[o]
        BY <1>5, <3>2
      <4> QED BY <1>1, <3>2, <4>1, NumberedOnce
    <3>4. Cardinality(video) = cap
      BY <2>5, <3>1, <3>3 DEF ShareOf, B
    <3> QED BY <2>5, <3>4 DEF video
  <2> QED BY <1>6, <2>1, <2>4, <2>5
<1> QED BY <1>8, <1>9

(* Where the answer puts a segment. *)
LEMMA AnswerPlaces ==
  ASSUME NEW answer, NEW n, NEW T, NEW R, NEW r, NEW rated, NEW lists,
         Answered(answer, n, T, R, r, rated, lists)
  PROVE  /\ n \in Nat /\ answer.order \in [1..n -> Segments] /\ ToSet(answer.order) = T
         /\ \A i \in 1..n : answer.order[i] \in T /\ RankOf(answer.order, answer.order[i]) = i
         /\ \A x \in T : RankOf(answer.order, x) \in 1..n /\ answer.order[RankOf(answer.order, x)] = x
         /\ \A x, y \in T :
              <<x, y>> \in R <=> RankOf(answer.order, x) < RankOf(answer.order, y)
<1> DEFINE order == answer.order
<1>1. n = Cardinality(T) /\ T \in SUBSET Segments /\ Decides(R, T) /\ InOrder(order, T, R)
  BY DEF Answered
<1>2. /\ n \in Nat /\ order \in [1..n -> T] /\ \A x \in T : \E i \in 1..n : order[i] = x
      /\ \A i, j \in 1..n : i < j <=> <<order[i], order[j]>> \in R
  BY <1>1 DEF InOrder
<1> HIDE DEF order
<1>3. Headed(order, n, T, R)
  BY <1>2 DEF Headed
<1>4. /\ \A i \in 1..n : order[i] \in ToSet(order) /\ RankOf(order, order[i]) = i
      /\ \A x \in ToSet(order) : RankOf(order, x) \in 1..n /\ order[RankOf(order, x)] = x
      /\ \A x, y \in ToSet(order) : <<x, y>> \in R <=> RankOf(order, x) < RankOf(order, y)
      /\ ToSet(order) \in SUBSET T
  BY <1>1, <1>3, HeadPlaces
<1>5. ToSet(order) = T
  BY <1>2, <1>4
<1>6. order \in [1..n -> Segments]
  BY <1>1, <1>2
<1> QED BY <1>2, <1>4, <1>5, <1>6 DEF order

(* The answer of the state, and one without the texts of a lane. *)
LEMMA PlannedAnswers ==
  ASSUME NEW r \in Requests, NEW ix \in Indexes, NEW texts \in [Segments -> SUBSET Texts],
         NEW there
  PROVE  LET w == Planned(r)
             lists == Lists(r, ix, w)
         IN  Answered(HitsFrom(r, w, lists, Rated(r, texts), there),
                      Cardinality(Loaded(r, w, lists, there)), Loaded(r, w, lists, there),
                      OrderOfSearch(r, w, lists, Rated(r, texts), there),
                      r, Rated(r, texts), lists)
  BY PlannedIsNumber, ListsAreBest, RatedIsScored, SearchAnswers

LEMMA TheAnswer ==
  ASSUME NEW r \in Requests, NEW ix \in Indexes, NEW there
  PROVE  LET w == Planned(r)
         IN  \E n, T, R : Answered(Answer(r, w, ix, TextOf, there), n, T, R,
                                   r, Rated(r, TextOf), Lists(r, ix, w))
  BY PlannedAnswers, TextsType DEF Answer

(* The lanes' agreement is kept from the candidates to the hits. *)
THEOREM AgreementIsKept == SearchSpec => []AgreementKept
<1>1. SearchInv => AgreementKept
  <2> DEFINE lists == Lists(request, index, weights)
  <2> SUFFICES ASSUME SearchInv, hits # NoPlan,
                      NEW a \in ToSet(hits.order), NEW b \in ToSet(hits.order),
                      Dominates(a, b),
                      request.rerank # <<>> => Rated(request, TextOf)[a] >= Rated(request, TextOf)[b]
               PROVE  RankOf(hits.order, a) < RankOf(hits.order, b)
    BY DEF AgreementKept
  <2>1. /\ request \in Requests /\ index \in Indexes /\ weights = Planned(request)
        /\ hits = Answer(request, weights, index, TextOf, present)
    BY DEF SearchInv
  <2> DEFINE rated == Rated(request, TextOf)
  <2>2. PICK n, T, R : Answered(hits, n, T, R, request, rated, lists)
    BY <2>1, TheAnswer
  <2>3. Agree(lists, a, b)
    BY DEF Dominates, Agree
  <2> HIDE DEF lists
  <2>4. /\ ToSet(hits.order) = T
        /\ \A x, y \in T : <<x, y>> \in R <=> RankOf(hits.order, x) < RankOf(hits.order, y)
    BY <2>2, AnswerPlaces
  <2>5. rated # <<>> => rated[a] >= rated[b]
    BY DEF Rated
  <2> HIDE DEF rated
  <2>6. <<a, b>> \in R
    BY <2>2, <2>3, <2>4, <2>5 DEF Answered
  <2> QED BY <2>4, <2>6
<1> QED BY <1>1, SearchInvHolds, PTL

(* Nothing that was loaded is left out of the hits without a reason. *)
THEOREM HitsAreExplained == SearchSpec => []HitsExplained
<1>1. SearchInv => HitsExplained
  <2> SUFFICES ASSUME SearchInv, hits # NoPlan PROVE HitsExplained
    BY DEF HitsExplained
  <2> DEFINE lists == Lists(request, index, weights)
             q == hits.order
             cap == Cap(request)
             kept == ThinOut(cap)[q]
             len == Min({Limit, Len(kept)})
             page == hits.hits
  <2>1. /\ request \in Requests /\ index \in Indexes /\ weights = Planned(request)
        /\ hits = Answer(request, weights, index, TextOf, present)
    BY DEF SearchInv
  <2> DEFINE rated == Rated(request, TextOf)
  <2>2. PICK n, T, R : Answered(hits, n, T, R, request, rated, lists)
    BY <2>1, TheAnswer
  <2> DEFINE at == [x \in Segments |-> IF x \in T THEN RankOf(q, x) ELSE 0]
  <2>3. /\ n \in Nat /\ q \in [1..n -> Segments] /\ ToSet(q) = T
        /\ \A i \in 1..n : q[i] \in T /\ RankOf(q, q[i]) = i
        /\ \A x \in T : RankOf(q, x) \in 1..n /\ q[RankOf(q, x)] = x
    BY <2>2, AnswerPlaces
  <2>4. \A i \in 1..n : at[q[i]] = i
    <3>1. \A i \in 1..n : q[i] \in Segments
      BY <2>3
    <3> QED BY <2>3, <3>1
  <2>5. cap \in Nat
    BY LimitsType DEF Cap
  <2>6. page = SubSeq(kept, 1, Min({Limit, Len(kept)}))
    BY <2>2 DEF Answered
  <2> HIDE DEF lists, rated, q, cap, page
  <2>7. Thinned(kept, q, at, n, cap)
    <3> HIDE DEF at
    <3> QED BY <2>3, <2>4, <2>5, ThinOutThins
  <2> HIDE DEF kept
  <2>8. /\ kept \in Seq(Segments)
        /\ \A m \in 1..Len(kept) : at[kept[m]] \in 1..n
        /\ \A m, o \in 1..Len(kept) : m < o => at[kept[m]] < at[kept[o]]
        /\ \A m, o \in 1..Len(kept) : m # o => ~ Near(kept[m], kept[o])
    BY <2>7 DEF Thinned
  <2>9. /\ len \in Nat /\ len <= Limit /\ len <= Len(kept) /\ (len = Limit \/ len = Len(kept))
        /\ page = [m \in 1..len |-> kept[m]] /\ Len(kept) \in Nat
    <3>1. Limit \in Nat /\ kept \in Seq(Segments)
      BY <2>8, LimitsType
    <3>2. Len(kept) \in Nat
      BY <3>1
    <3>3. /\ len \in Nat /\ len <= Limit /\ len <= Len(kept) /\ (len = Limit \/ len = Len(kept))
          /\ SubSeq(kept, 1, len) = [m \in 1..len |-> kept[m]]
      BY <3>1, FrontOf
    <3>4. page = SubSeq(kept, 1, len)
      BY <2>6
    <3> HIDE DEF len
    <3> QED BY <3>2, <3>3, <3>4
  <2> HIDE DEF len
  <2>10. DOMAIN page = 1..len /\ \A m \in 1..len : page[m] = kept[m] /\ m \in 1..Len(kept)
    BY <2>9
  <2>11. ToSet(page) = {page[m] : m \in 1..len}
    BY <2>10 DEF ToSet
  <2>12. \A i, j \in DOMAIN page : i # j => ~ Near(page[i], page[j])
    BY <2>8, <2>10
  <2>13. ASSUME NEW seg \in ToSet(q) \ ToSet(page)
         PROVE  LeftOut({h \in ToSet(page) : RankOf(q, h) < RankOf(q, seg)}, seg, cap)
    <3> DEFINE i == RankOf(q, seg)
    <3>1. i \in 1..n /\ q[i] = seg
      BY <2>3
    <3>2. \A m \in 1..len : page[m] # q[i]
      BY <2>11, <3>1
    <3>3. Paged(page, len, kept)
      BY <2>9 DEF Paged
    <3>4. LeftOut(Better(page, len, at, i), q[i], cap)
      <4> HIDE DEF i, at
      <4> QED BY <2>3, <2>4, <2>5, <2>7, <3>1, <3>2, <3>3, PageExplains
    <3>5. Better(page, len, at, i) = {h \in ToSet(page) : RankOf(q, h) < RankOf(q, seg)}
      <4>1. ASSUME NEW m \in 1..len PROVE page[m] \in T
        <5>1. page[m] \in Segments /\ at[page[m]] \in 1..n
          BY <2>8, <2>10, ElementOfSeq
        <5>2. 0 \notin 1..n
          OBVIOUS
        <5> QED BY <5>1, <5>2
      <4>2. \A x \in ToSet(page) : at[x] = RankOf(q, x)
        BY <2>3, <2>11, <4>1
      <4> HIDE DEF at, i
      <4> QED BY <2>11, <4>2 DEF Better, i
    <3> HIDE DEF i
    <3> QED BY <3>1, <3>4, <3>5 DEF i
  <2> QED BY <2>12, <2>13 DEF HitsExplained, LeftOut, q, cap, page
<1> QED BY <1>1, SearchInvHolds, PTL

-----------------------------------------------------------------------------
(* Lanes that are off *)

(* A text that the reranker is not shown does not change what it says. *)
LEMMA RatedAlike ==
  ASSUME NEW r, NEW l, NEW a \in Segments,
         r.rerank = <<>> \/ l \notin Passage(r, TextOf, a)
  PROVE  LET rated == Rated(r, TextOf)
             bare == Rated(r, [seg \in Segments |-> TextOf[seg] \ {l}])
         IN  (rated = <<>> <=> bare = <<>>) /\ rated[a] = bare[a]
<1> DEFINE texts == [seg \in Segments |-> TextOf[seg] \ {l}]
<1>1. CASE r.rerank = <<>>
  BY <1>1 DEF Rated
<1>2. CASE r.rerank # <<>>
  <2>1. Passage(r, texts, a) = Passage(r, TextOf, a)
    BY <1>2 DEF Passage
  <2>2. /\ DOMAIN Rated(r, TextOf) = Segments /\ DOMAIN Rated(r, texts) = Segments
        /\ Rated(r, TextOf)[a] = r.rerank[a][Passage(r, TextOf, a)]
        /\ Rated(r, texts)[a] = r.rerank[a][Passage(r, texts, a)]
    BY <1>2 DEF Rated
  <2>3. DOMAIN <<>> = {}
    OBVIOUS
  <2> HIDE DEF texts
  <2>4. Rated(r, TextOf) # <<>> /\ Rated(r, texts) # <<>>
    BY <2>2, <2>3
  <2> QED BY <2>1, <2>2, <2>4 DEF texts
<1> QED BY <1>1, <1>2

(* Two segments are compared by their own scores only. *)
LEMMA ComparedAlike ==
  ASSUME NEW r, NEW w, NEW lists, NEW there, NEW rated, NEW bare,
         NEW a \in Loaded(r, w, lists, there), NEW b \in Loaded(r, w, lists, there),
         rated = <<>> <=> bare = <<>>, rated[a] = bare[a], rated[b] = bare[b]
  PROVE  <<a, b>> \in OrderOfSearch(r, w, lists, rated, there)
           <=> <<a, b>> \in OrderOfSearch(r, w, lists, bare, there)
<1> DEFINE T == Loaded(r, w, lists, there)
           head == HeadOfSearch(r, w, lists)
           fused == Fused(r.fusion, w, lists)
           x == ScoresOfSearch(r, w, lists, rated, there)
           y == ScoresOfSearch(r, w, lists, bare, there)
<1>1. /\ x = [seg \in ToSet(head) |-> ScoreOf(rated, w, lists, fused, head, there, seg)]
      /\ y = [seg \in ToSet(head) |-> ScoreOf(bare, w, lists, fused, head, there, seg)]
  BY ScoresAre DEF ScoresOfSearch
<1>2. a \in ToSet(head) /\ b \in ToSet(head)
  BY DEF Loaded
<1> HIDE DEF x, y, head, fused
<1>3. ASSUME NEW seg \in {a, b}
      PROVE  ScoreOf(rated, w, lists, fused, head, there, seg)
               = ScoreOf(bare, w, lists, fused, head, there, seg)
  <2>1. rated[seg] = bare[seg]
    OBVIOUS
  <2> QED BY <2>1 DEF ScoreOf
<1>4. x[a] = y[a] /\ x[b] = y[b]
  BY <1>1, <1>2, <1>3
<1>5. ByScore(head, x, a, b) <=> ByScore(head, y, a, b)
  BY <1>4 DEF ByScore
<1>6. /\ ByScore(head, x, a, b) <=> <<a, b>> \in ScoreOrder(head, x, T)
      /\ ByScore(head, y, a, b) <=> <<a, b>> \in ScoreOrder(head, y, T)
  BY ByScoreIs
<1> QED BY <1>5, <1>6 DEF OrderOfSearch, x, y, head

(* No router turns on a lane that the configuration turned off, and a lane *)
(* that is off changes the answer in one way only: the reranker may be     *)
(* shown its text (_passage).                                              *)
THEOREM OffLanesAreOnlyReread == SearchSpec => []OffLaneOnlyReread
<1>1. SearchInv => OffLaneOnlyReread
  <2> SUFFICES ASSUME SearchInv, hits # NoPlan PROVE OffLaneOnlyReread
    BY DEF OffLaneOnlyReread
  <2>1. /\ request \in Requests /\ index \in Indexes /\ weights = Planned(request)
        /\ hits = Answer(request, weights, index, TextOf, present)
    BY DEF SearchInv
  <2>2. ASSUME NEW l \in Lane, request.base[l] = 0, l \notin DOMAIN request.over
        PROVE  weights[l] = 0
    BY <2>1, <2>2, LaneStaysOff DEF Planned
  <2>3. ASSUME NEW l \in Lane, weights[l] <= 0
        PROVE  LET bare == AnswerWithout(l)
               IN  /\ ToSet(bare.order) = ToSet(hits.order)
                   /\ \A a, b \in ToSet(hits.order) :
                        ~ShownToReranker(l, a) /\ ~ShownToReranker(l, b)
                          => (Outranks(bare.order, a, b) <=> Outranks(hits.order, a, b))
                   /\ request.rerank = <<>> => bare = hits
    <3> DEFINE texts == [seg \in Segments |-> TextOf[seg] \ {l}]
               lists == Lists(request, index, weights)
               bare == AnswerWithout(l)
               rated == Rated(request, TextOf)
               other == Rated(request, texts)
               T == Loaded(request, weights, lists, present)
               R == OrderOfSearch(request, weights, lists, rated, present)
               Q == OrderOfSearch(request, weights, lists, other, present)
    <3>1. weights[l] \in Int
      BY <2>1, PlannedIsNumber
    <3>2. Lists(request, [index EXCEPT ![l] = <<>>], weights) = lists
      <4>1. ~ (weights[l] > 0)
        BY <2>3, <3>1
      <4> QED BY <2>1, <4>1, OffLaneUnread
    <3>3. /\ hits = HitsFrom(request, weights, lists, rated, present)
          /\ bare = HitsFrom(request, weights, lists, other, present)
      BY <2>1, <3>2 DEF Answer, AnswerWithout
    <3>4. TextOf \in [Segments -> SUBSET Texts] /\ texts \in [Segments -> SUBSET Texts]
      BY TextsType
    <3> HIDE DEF texts
    <3>5. /\ Answered(hits, Cardinality(T), T, R, request, rated, lists)
          /\ Answered(bare, Cardinality(T), T, Q, request, other, lists)
      BY <2>1, <3>3, <3>4, PlannedAnswers
    <3>6. request.rerank = <<>> => bare = hits
      BY <3>3 DEF Rated
    <3> HIDE DEF lists, bare, rated, other, T, R, Q
    <3>0. T \in SUBSET Segments
      BY <3>5 DEF Answered
    <3>7. /\ ToSet(hits.order) = T
          /\ \A a, b \in T : <<a, b>> \in R <=> RankOf(hits.order, a) < RankOf(hits.order, b)
      BY <3>5, AnswerPlaces
    <3>8. /\ ToSet(bare.order) = T
          /\ \A a, b \in T : <<a, b>> \in Q <=> RankOf(bare.order, a) < RankOf(bare.order, b)
      BY <3>5, AnswerPlaces
    <3>9. ASSUME NEW a \in T, NEW b \in T, ~ShownToReranker(l, a), ~ShownToReranker(l, b)
          PROVE  Outranks(bare.order, a, b) <=> Outranks(hits.order, a, b)
      <4> DEFINE unseen(s) == request.rerank = <<>> \/ l \notin Passage(request, TextOf, s)
      <4>0. a \in Segments /\ b \in Segments /\ unseen(a) /\ unseen(b)
        BY <3>0, <3>9 DEF ShownToReranker
      <4>3. ASSUME NEW s \in Segments, unseen(s)
            PROVE  (rated = <<>> <=> other = <<>>) /\ rated[s] = other[s]
        BY <4>3, RatedAlike DEF rated, other, texts
      <4> HIDE DEF unseen
      <4>1. /\ rated = <<>> <=> other = <<>>
            /\ rated[a] = other[a] /\ rated[b] = other[b]
        BY <4>0, <4>3
      <4>2. <<a, b>> \in R <=> <<a, b>> \in Q
        BY <4>1, ComparedAlike DEF R, Q, T
      <4> QED BY <3>7, <3>8, <4>2 DEF Outranks
    <3> QED BY <3>6, <3>7, <3>8, <3>9 DEF bare
  <2> QED BY <2>2, <2>3 DEF OffLaneOnlyReread
<1> QED BY <1>1, SearchInvHolds, PTL
=============================================================================
