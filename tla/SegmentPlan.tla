----------------------------- MODULE SegmentPlan -----------------------------
(***************************************************************************)
(* How a video is cut: pipeline/chunking.py plans its chunks, and for one   *)
(* chunk pipeline/segment.py runs the loop of plan_segments, one iteration  *)
(* per step.  The keyframes, the words and the temporal windows the         *)
(* handlers attach to the result are operators on the finished plan.        *)
(*                                                                          *)
(* Times are integers in an arbitrary unit; the frames of a chunk are one   *)
(* unit apart (frame_sample_fps).  Two pictures differ iff a scene change   *)
(* lies between them, and the ASR reports the ends of the utterances.       *)
(***************************************************************************)
EXTENDS Integers, SequencesExt, Rankings

CONSTANTS
  ChunkS, MinTail,      \* chunk_seconds; min_tail_s
  TargetS, MinS, MaxS,  \* segment_target_s, segment_min_s, segment_max_s
  Slack,                \* the 0.5 s at which the loop of plan_segments stops
  MaxGap,               \* max_gap_s of select_keyframes
  WindowS, StrideS,     \* temporal_window_s, temporal_stride_s
  NFrames,              \* n_frames of the temporal encoder
  PerSegment,           \* keyframes_per_segment
  Durations,            \* the lengths of the videos that are probed
  MaxEnds, MaxScenes    \* utterances that end in a chunk; scene changes in it

ASSUME ChunkBounds == ChunkS \in Nat \ {0} /\ MinTail \in 1..ChunkS
ASSUME SegmentBounds == /\ MinS \in Nat /\ TargetS \in Nat /\ MaxS \in Nat
                        /\ MinS <= TargetS /\ TargetS <= MaxS
                        /\ Slack \in Nat /\ Slack < MinS
ASSUME WindowBounds == /\ WindowS \in Nat \ {0} /\ StrideS \in 1..WindowS
                       /\ NFrames \in Nat \ {0} /\ MaxGap \in Nat \ {0}
                       /\ PerSegment \in Nat \ {0}
ASSUME DurationsType == Durations \subseteq Nat

VARIABLES
  duration,  \* of the probed video
  chunk,     \* the index of the chunk that is cut
  ends,      \* the bounds of plan_segments
  scenes,    \* where the picture changes
  segs,      \* the segments so far, records of start and end
  stage      \* of _index(): transcribe, segment (the loop runs), embed

segVars == <<duration, chunk, ends, scenes, segs, stage>>

-----------------------------------------------------------------------------
(* plan_chunks.  Mutant: the tail that is too short is a chunk of its own *)
ChunkCountAnyTail(d) == d \div ChunkS + (IF d % ChunkS > 0 THEN 1 ELSE 0)

ChunkCount(d) ==
  LET n == IF d \div ChunkS > 1 THEN d \div ChunkS ELSE 1
  IN  IF d <= 0 THEN 0
      ELSE IF d - n * ChunkS >= MinTail THEN n + 1 ELSE n

ChunkStart(d, i) == i * ChunkS
ChunkEnd(d, i)   == IF i = ChunkCount(d) - 1 THEN d ELSE (i + 1) * ChunkS

start == ChunkStart(duration, chunk)
stop  == ChunkEnd(duration, chunk)

-----------------------------------------------------------------------------
(* plan_segments: cur, the nearest boundary, and the end of the next one *)
cur == IF segs = <<>> THEN start ELSE segs[Len(segs)].e

Distance(a, b) == IF a > b THEN a - b ELSE b - a

InRange(c) == {b \in ends : c + MinS <= b /\ b <= c + MaxS}

Nearest(S, t) ==
  CHOOSE b \in S : \A o \in S : \/ Distance(b, t) < Distance(o, t)
                                \/ Distance(b, t) = Distance(o, t) /\ b <= o

(* Mutant: a short tail becomes a segment *)
NextEndNoAbsorb(c) ==
  LET e == IF InRange(c) # {} THEN Nearest(InRange(c), c + TargetS) ELSE c + TargetS
  IN  IF e > stop THEN stop ELSE e

NextEnd(c) ==
  LET wish == IF InRange(c) # {} THEN Nearest(InRange(c), c + TargetS)
                                 ELSE c + TargetS
      e    == IF wish > stop THEN stop ELSE wish
  IN  IF stop - e < MinS THEN stop ELSE e

AtMost(k, S) == {{}} \cup {{f[i] : i \in 1..k} : f \in [1..k -> S]}

SegInit ==
  /\ duration \in Durations
  /\ chunk \in 0..(ChunkCount(duration) - 1)
  /\ scenes \in AtMost(MaxScenes, (start + 1)..(stop - 1))
  /\ ends = {}
  /\ segs = <<>>
  /\ stage = "transcribe"

(* The last utterance may end behind the chunk it starts in *)
Transcribe ==
  /\ stage = "transcribe"
  /\ stage' = "segment"
  /\ ends' \in AtMost(MaxEnds, (start + 1)..(stop + 1))
  /\ UNCHANGED <<duration, chunk, scenes, segs>>

CutSegment ==
  /\ stage = "segment"
  /\ cur < stop - Slack
  /\ segs' = Append(segs, [s |-> cur, e |-> NextEnd(cur)])
  /\ UNCHANGED <<duration, chunk, ends, scenes, stage>>

(* The loop ends; a chunk too short for it is one segment *)
EndPlan ==
  /\ stage = "segment"
  /\ cur >= stop - Slack
  /\ segs' = IF segs = <<>> THEN <<[s |-> start, e |-> stop]>> ELSE segs
  /\ stage' = "embed"
  /\ UNCHANGED <<duration, chunk, ends, scenes>>

SegNext == Transcribe \/ CutSegment \/ EndPlan

SegSpec == SegInit /\ [][SegNext]_segVars

-----------------------------------------------------------------------------
(* An utterance that ends at b starts its last word one unit earlier, and  *)
(* the next one starts at b: the words that fall on a boundary.            *)
Words == {w \in {b - 1 : b \in ends} \cup ends : start <= w /\ w < stop}

(* Mutant: a word at the boundary stays in the segment that ends there *)
MoveOnLate(acc, w) ==
  LET ahead == {k \in acc.si..Len(segs) : k = Len(segs) \/ w <= segs[k].e}
      si == Min(ahead)
  IN  [si |-> si, at |-> Append(acc.at, si)]

(* The inner while of plan_segments, for the next word in order of time *)
MoveOn(acc, w) ==
  LET ahead == {k \in acc.si..Len(segs) : k = Len(segs) \/ w < segs[k].e}
      si == Min(ahead)
  IN  [si |-> si,
       at |-> IF segs[si].s <= w \/ si = 1 THEN Append(acc.at, si) ELSE acc.at]

(* The segments of the words in order of time *)
WordSegments ==
  FoldLeft(MoveOn, [si |-> 1, at |-> <<>>], Ranked(Words, <)).at

-----------------------------------------------------------------------------
(* select_keyframes over the samples of the chunk *)
Samples == [i \in 1..(stop - start) |-> start + i - 1]

Changed(from, to) == \E c \in scenes : from < c /\ c <= to

(* Mutant: a still picture is never kept again *)
KeepChanged(kept, t) ==
  IF kept = <<>> \/ Changed(kept[Len(kept)], t) THEN Append(kept, t) ELSE kept

Keep(kept, t) ==
  IF \/ kept = <<>>
     \/ Changed(kept[Len(kept)], t)
     \/ t - kept[Len(kept)] >= MaxGap
    THEN Append(kept, t) ELSE kept

Keyframes == ToSet(FoldLeft(Keep, <<>>, Samples))

(* The frames of the manifest _index() gives a segment: those inside it, or  *)
(* the one nearest to its centre.  pick_distinct() then thins them out.      *)
Inside(frames, g) == {t \in frames : g.s <= t /\ t < g.e}

NearestFrame(frames, g) ==
  CHOOSE t \in frames : \A o \in frames :
    Distance(2 * t, g.s + g.e) <= Distance(2 * o, g.s + g.e)

Pick(chosen, t) ==
  IF Len(chosen) < PerSegment /\ \A k \in DOMAIN chosen : Changed(chosen[k], t)
    THEN Append(chosen, t) ELSE chosen

FramesOf(frames, g) ==
  LET inside == IF Inside(frames, g) # {} THEN Inside(frames, g)
                                          ELSE {NearestFrame(frames, g)}
  IN  ToSet(FoldLeft(Pick, <<>>, Ranked(inside, <)))

-----------------------------------------------------------------------------
(* sample_windows over the dense frames of the chunk, the first at start;  *)
(* last is the time of the last one.                                       *)
last == stop - 1

(* Mutant: the loop goes on while a whole window fits *)
WholeWindowsOnly(k) == start + k * StrideS + WindowS <= last + 1

(* The k-th turn of the loop is reached iff the one before did not break *)
HasWindow(k) == k = 0 \/ start + (k - 1) * StrideS + WindowS < last + 1

Windows ==
  {[s |-> start + k * StrideS,
    e |-> IF start + k * StrideS + WindowS < last + 1
            THEN start + k * StrideS + WindowS ELSE last + 1]
     : k \in {n \in 0..(stop - start) : HasWindow(n)}}

(* Python's round(): half to even *)
Rounded(n, d) ==
  LET q == n \div d
      r == n % d
  IN  IF 2 * r > d \/ (2 * r = d /\ q % 2 = 1) THEN q + 1 ELSE q

(* The n_frames indices of a window, evenly spread over what is inside *)
FrameIndices(win) ==
  LET n == win.e - win.s
      d == IF NFrames > 2 THEN NFrames - 1 ELSE 1
  IN  [j \in 0..(NFrames - 1) |->
         win.s + LET i == Rounded(j * (n - 1), d) IN IF i < n - 1 THEN i ELSE n - 1]

(* encode_temporal: the segment a window is stored with *)
SegmentOfWindow(win) ==
  LET centred == {k \in DOMAIN segs : 2 * segs[k].s <= win.s + win.e
                                      /\ win.s + win.e < 2 * segs[k].e}
  IN  IF centred # {} THEN Min(centred)
      ELSE CHOOSE k \in DOMAIN segs : \A o \in DOMAIN segs :
             Distance(segs[k].s + segs[k].e, win.s + win.e)
               <= Distance(segs[o].s + segs[o].e, win.s + win.e)

-----------------------------------------------------------------------------
(* Every variable has its type. *)
SegTypeOK ==
  /\ duration \in Nat
  /\ chunk \in Nat
  /\ ends \subseteq Nat
  /\ segs \in Seq([s : Nat, e : Nat])
  /\ stage \in {"transcribe", "segment", "embed"}

(* The chunks plan_chunks makes cover the video without a gap or an overlap, *)
(* and none is shorter than the tail that is merged away, unless the video   *)
(* is.  (A chunk is a unit of work: a gap is video nobody indexes.)          *)
ChunksTile ==
  LET n == ChunkCount(duration)
  IN  /\ ChunkStart(duration, 0) = 0
      /\ ChunkEnd(duration, n - 1) = duration
      /\ \A i \in 0..(n - 1) :
           LET len == ChunkEnd(duration, i) - ChunkStart(duration, i)
           IN  /\ len > 0 /\ len < ChunkS + MinTail
               /\ len < MinTail => n = 1
               /\ i > 0 => ChunkStart(duration, i) = ChunkEnd(duration, i - 1)

(* At every iteration of plan_segments the segments made so far are          *)
(* contiguous from the start of the chunk, and when it returns they reach    *)
(* its end: no second of the video is left out of the search or shown twice. *)
(* Wherever the utterances end, a segment is at least the minimum long,      *)
(* unless the chunk is shorter, and less than a maximal one with a tail      *)
(* absorbed.                                                                 *)
SegmentsTile ==
  /\ segs # <<>> => segs[1].s = start
  /\ \A k \in 1..(Len(segs) - 1) : segs[k].e = segs[k + 1].s
  /\ stage = "embed" => segs # <<>> /\ cur = stop
  /\ \A k \in DOMAIN segs :
       LET len == segs[k].e - segs[k].s
       IN  /\ len >= MinS \/ stop - start < MinS
           /\ len > 0 /\ len < MaxS + MinS

(* Every word the chunk owns is shown in exactly one segment, the one that   *)
(* is on screen when it is spoken: none is lost in the single pass that      *)
(* moves both the words and the segments forward.                            *)
WordsPlaced ==
  stage = "embed" =>
    LET order == Ranked(Words, <)
        at    == WordSegments
    IN  /\ Len(at) = Len(order)
        /\ \A k \in DOMAIN order :
             LET g == segs[at[k]] IN g.s <= order[k] /\ order[k] < g.e

(* Keyframes are chosen before the segments exist, and still a segment as    *)
(* long as the gap select_keyframes allows shows a frame of its own; no      *)
(* segment is described by a frame further than that gap from it, or by two  *)
(* of the same picture.                                                      *)
SegmentsHaveFrames ==
  stage = "embed" =>
    LET kept == Keyframes
    IN  \A k \in DOMAIN segs :
          LET shown == FramesOf(kept, segs[k])
          IN  /\ segs[k].e - segs[k].s >= MaxGap => Inside(kept, segs[k]) # {}
              /\ shown # {}
              /\ \A t \in shown :
                   /\ t > segs[k].s - MaxGap /\ t < segs[k].e + MaxGap
                   /\ \A u \in shown : u < t => Changed(u, t)

(* The temporal windows see every frame of the chunk, each has the number of *)
(* frames the encoder wants, in order and inside it, and each is stored with *)
(* a segment it overlaps: a hit of the temporal lane points at the right one.*)
WindowsCover ==
  stage = "embed" =>
    /\ \A t \in start..last : \E win \in Windows : win.s <= t /\ t < win.e
    /\ \A win \in Windows :
         /\ \A j \in 0..(NFrames - 1) :
              /\ win.s <= FrameIndices(win)[j] /\ FrameIndices(win)[j] < win.e
              /\ j > 0 => FrameIndices(win)[j - 1] <= FrameIndices(win)[j]
         /\ LET g == segs[SegmentOfWindow(win)] IN g.s < win.e /\ win.s < g.e
=============================================================================
