---------------------------- MODULE TimelinePlan ----------------------------
(***************************************************************************)
(* How build_timeline divides a video into topics (pipeline/timeline.py):   *)
(* heading_cuts() forces a cut where the title of the slides changes, then  *)
(* segment_topics() adds cuts at the deepest gaps between the embeddings,   *)
(* one candidate per step here.                                             *)
(*                                                                          *)
(* A cut b lies before segment b + 1 (segments are counted from 1 here, cut *)
(* positions from 0 as in the code).  The embeddings enter only through the *)
(* gaps that are deep enough to be tried and the order they are tried in:  *)
(* any.  There may be silence between the segments.                        *)
(***************************************************************************)
EXTENDS Integers, SequencesExt

CONSTANTS
  MinTopic,     \* MIN_TOPIC_S, the longest minimum a topic may have
  RelaxedTopic, \* the 10 s that are enough for a forced cut
  MaxTopics,    \* MAX_TOPICS
  Parts,        \* the sixth of the video a topic must have, at most
  Timelines,    \* lists of segments, records s and e, in order of start
  Titles,       \* slide titles
  NoTitle       \* a segment without a readable slide

ASSUME TopicBounds == /\ MinTopic \in Nat \ {0} /\ RelaxedTopic \in Nat \ {0}
                      /\ MaxTopics \in Nat \ {0} /\ Parts \in Nat \ {0}
ASSUME NoTitleIsNone == NoTitle \notin Titles
ASSUME TimelinesType ==
  \A t \in Timelines :
    /\ t \in Seq([s : Nat, e : Nat])
    /\ t # <<>>
    /\ \A k \in 1..Len(t) : t[k].s < t[k].e
    /\ \A k \in 1..(Len(t) - 1) : t[k].e <= t[k + 1].s

VARIABLES
  line,      \* the text segments of the video
  titles,    \* slide_heading() of each
  forced,    \* forced cuts not tried yet
  tried,     \* the gaps between embeddings that were tried
  topicCuts  \* the cuts made so far

topicVars == <<line, titles, forced, tried, topicCuts>>

Size == Len(line)

-----------------------------------------------------------------------------
(* heading_cuts: a segment without a slide keeps the title before it.      *)
Filled(hs) ==
  [k \in DOMAIN hs |->
     LET shown == {i \in 1..k : hs[i] # NoTitle}
     IN  IF shown = {} THEN NoTitle ELSE hs[Max(shown)]]

(* Mutant: the first heading is a change too *)
HeadingCutsFromStart(hs) ==
  {b \in 0..(Len(hs) - 1) : hs[b + 1] # NoTitle /\ (b > 0 => hs[b] # hs[b + 1])}

heading_cuts(hs) ==
  LET f == Filled(hs)
  IN  {b \in 1..(Len(hs) - 1) :
         /\ f[b] # NoTitle /\ f[b + 1] # NoTitle
         /\ f[b] # f[b + 1]
         /\ b + 1 < Len(hs) => f[b + 2] = f[b + 1]}

-----------------------------------------------------------------------------
(* The minimum build_timeline passes to segment_topics *)
sixth == (line[Size].e - line[1].s) \div Parts

min_topic_s ==
  LET wish == IF sixth > RelaxedTopic THEN sixth ELSE RelaxedTopic
  IN  IF wish < MinTopic THEN wish ELSE MinTopic

relaxed == IF min_topic_s < RelaxedTopic THEN min_topic_s ELSE RelaxedTopic

Bounds(C) == C \cup {0, Size}

(* The topic a cut at b would end, and the one it would begin *)
EndsTopicFrom(C, b, a) ==
  a <= b /\ \A o \in Bounds(C) : o <= a \/ b < o

BeginsTopicTo(C, b, c) ==
  b < c /\ \A o \in Bounds(C) : o <= b \/ c <= o

(* Mutant: only the topic in front of the cut is measured *)
LongEnoughBefore(C, b, least) ==
  \A a \in Bounds(C) :
    EndsTopicFrom(C, b, a) => line[b].e - line[a + 1].s >= least

_long_enough(C, b, least) ==
  /\ \A a \in Bounds(C) :
       EndsTopicFrom(C, b, a) => line[b].e - line[a + 1].s >= least
  /\ \A c \in Bounds(C) :
       BeginsTopicTo(C, b, c) => line[c].e - line[b + 1].s >= least

(* A list of one or two segments is one topic, whatever the titles *)
TopicInit ==
  /\ line \in Timelines
  /\ titles \in [1..Size -> Titles \cup {NoTitle}]
  /\ forced = heading_cuts(titles)
  /\ tried = {}
  /\ topicCuts = {}

(* Forced cuts are tried in order of time *)
TryForced(b) ==
  /\ Size > 2 /\ b \in forced
  /\ \A o \in forced : b <= o
  /\ topicCuts' = IF _long_enough(topicCuts, b, relaxed)
                    THEN topicCuts \cup {b} ELSE topicCuts
  /\ forced' = forced \ {b}
  /\ UNCHANGED <<line, titles, tried>>

TryDeep(b) ==
  /\ Size > 2 /\ forced = {} /\ b \notin tried
  /\ Cardinality(topicCuts) < MaxTopics - 1
  /\ topicCuts' = IF b \notin topicCuts /\ _long_enough(topicCuts, b, min_topic_s)
                    THEN topicCuts \cup {b} ELSE topicCuts
  /\ tried' = tried \cup {b}
  /\ UNCHANGED <<line, titles, forced>>

TopicNext == \E b \in 1..(Size - 1) : TryForced(b) \/ TryDeep(b)

TopicSpec == TopicInit /\ [][TopicNext]_topicVars

(* The spans of the topics, and their rows: the first is pulled to 0 and    *)
(* each of the others to the end of the one before it.                      *)
Consecutive(C, a, b) ==
  /\ a \in Bounds(C) /\ b \in Bounds(C) /\ a < b
  /\ \A c \in Bounds(C) : c <= a \/ b <= c

Topic(a, b) == [s |-> IF a = 0 THEN 0 ELSE line[a].e, e |-> line[b].e]

-----------------------------------------------------------------------------
(* Every variable has its type. *)
TopicTypeOK ==
  /\ line \in Timelines
  /\ titles \in [1..Size -> Titles \cup {NoTitle}]
  /\ forced \subseteq 1..(Size - 1)
  /\ tried \subseteq 1..(Size - 1)
  /\ topicCuts \subseteq 1..(Size - 1)

(* Whatever the order in which cuts are tried, and though a cut is measured  *)
(* only when it is made, every topic of a divided video has at least the     *)
(* relaxed minimum of speech in it: no later cut shortens an accepted topic. *)
(* Stretching the rows over the silence takes nothing from a topic.          *)
TopicsLongEnough ==
  \A a, b \in 0..Size :
    Consecutive(topicCuts, a, b) /\ topicCuts # {} =>
      /\ Topic(a, b).e - line[a + 1].s >= relaxed
      /\ Topic(a, b).s <= line[a + 1].s
=============================================================================
