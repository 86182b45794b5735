------------------------------- MODULE Curation -------------------------------
(***************************************************************************)
(* The candidate queries of eval/real: scanned from the videos (real.py),  *)
(* then approved into the dataset or rejected, in a terminal (review.py),  *)
(* on a page (web_review.py) or by rules (auto_review.py).  The tools are  *)
(* programs that read candidates.yaml and dataset.yaml as a whole, change  *)
(* what they read and write it back, without locks and one file after the  *)
(* other.  The two requests of the page may run at once.                   *)
(*                                                                         *)
(* Of a candidate only its status is kept, of the dataset how many queries *)
(* it has of each candidate; texts and times, which may be edited, and     *)
(* what the scan hears and sees in a video are left out.                   *)
(***************************************************************************)
EXTENDS Integers

CONSTANTS
  Candidates, Source,  \* ids a scan may generate, and the video of each
  MaxStarts            \* bound: how often tools are started

Tools == {"real-scan", "real-review", "real-auto-review", "request-1", "request-2"}

ASSUME CurationConstants ==
  Source \in [Candidates -> {Source[c] : c \in Candidates}] /\ MaxStarts \in Nat

VARIABLES
  candidates, \* candidates.yaml: status, "absent" if it is not in there
  dataset,    \* dataset.yaml: number of queries with the id of the candidate
  tools,      \* each tool: its place, its copies, what it has left to do
  starts,     \* how many were started
  mishaps     \* what happened that nobody should do, or that nobody can help

curationVars == <<candidates, dataset, tools, starts, mishaps>>

SourceVideos == {Source[c] : c \in Candidates}
Closed == [pc |-> "off", left |-> {}]
With(status) == {c \in Candidates : candidates[c] = status}

CurationTypeOK ==
  /\ candidates \in [Candidates -> {"absent", "pending", "approved", "rejected"}]
  /\ dataset \in [Candidates -> Nat]
  /\ \A t \in Tools : tools[t].pc \in {"off", "open", "save", "save-one", "half"}
  /\ starts \in 0..MaxStarts

CurationInit ==
  /\ candidates = [c \in Candidates |-> "absent"]
  /\ dataset = [c \in Candidates |-> 0]
  /\ tools = [t \in Tools |-> Closed]
  /\ starts = 0 /\ mishaps = {}

-----------------------------------------------------------------------------
(* A tool in memory: its copies of the files, with what it has changed *)
Start(t, place, copyOfCandidates, copyOfDataset, left, mishap) ==
  /\ tools[t].pc = "off" /\ starts < MaxStarts
  /\ starts' = starts + 1
  /\ tools' = [tools EXCEPT ![t] = [pc |-> place, candidates |-> copyOfCandidates,
                                    dataset |-> copyOfDataset, left |-> left]]
  /\ mishaps' = mishaps \cup mishap
       \cup IF \E o \in Tools : tools[o].pc # "off" THEN {"overlap"} ELSE {}
  /\ UNCHANGED <<candidates, dataset>>

(* scan_videos(): videos without candidates, or by force any *)
StartScan ==
  \/ LET todo == {v \in SourceVideos : \A c \in Candidates : Source[c] = v =>
                                          candidates[c] = "absent"}
     IN todo # {} /\ Start("real-scan", "open", candidates, dataset, todo, {})
  \/ \E todo \in (SUBSET SourceVideos) \ {{}} :
       LET wiped == [c \in Candidates |-> IF Source[c] \in todo THEN "absent" ELSE candidates[c]]
       IN Start("real-scan", "open", wiped, dataset, todo, {"force"})

(* The candidates of a video are added and saved *)
ScanVideo(v) ==
  LET scan == tools["real-scan"]
  IN  /\ scan.pc = "open" /\ v \in scan.left
      /\ \E new \in SUBSET {c \in Candidates : Source[c] = v} :
           candidates' = [c \in Candidates |-> IF c \in new THEN "pending"
                                                             ELSE scan.candidates[c]]
      /\ tools' = [tools EXCEPT !["real-scan"] =
           IF scan.left = {v} THEN Closed
           ELSE [scan EXCEPT !.left = @ \ {v}, !.candidates = candidates']]
      /\ UNCHANGED <<dataset, starts, mishaps>>

(* review(): the pending candidates, one after the other *)
StartReview ==
  /\ With("pending") # {}
  /\ Start("real-review", "open", candidates, dataset, With("pending"), {})

(* An approved candidate is added to the queries whatever is there already *)
Approved(copies, c) ==
  [copies EXCEPT !.candidates[c] = "approved", !.dataset[c] = @ + 1]

Decide(c) ==
  LET review == tools["real-review"]
      after  == [review EXCEPT !.pc = "save", !.left = @ \ {c}]
  IN  /\ review.pc = "open" /\ c \in review.left
      /\ \E next \in {after, [after EXCEPT !.left = {}],  \* skip, quit
                      [after EXCEPT !.candidates[c] = "rejected"], Approved(after, c)} :
           tools' = [tools EXCEPT !["real-review"] = next]
      /\ UNCHANGED <<candidates, dataset, starts, mishaps>>

(* approve(), reject() and update() of the page, meant for what is pending *)
Request(t, c) ==
  LET copies == [candidates |-> candidates, dataset |-> dataset]
      again  == IF candidates[c] = "pending" THEN {} ELSE {"again"}
      load(place, some) == Start(t, place, some.candidates, some.dataset, {}, again)
  IN  /\ candidates[c] # "absent"
      /\ \/ load("save", Approved(copies, c))
         \/ load("save-one", [copies EXCEPT !.candidates[c] = "rejected"])
         \/ load("save-one", copies)

(* Mutant: the queries are added to those of an earlier review *)
AddedTo(queries, kept)   == [c \in Candidates |-> queries[c] + IF c \in kept THEN 1 ELSE 0]
NewDataset(queries, kept) == [c \in Candidates |-> IF c \in kept THEN 1 ELSE 0]

(* auto_review() decides on all candidates again: should_keep() of each *)
StartAutoReview ==
  \E kept \in SUBSET (Candidates \ With("absent")) :
    Start("real-auto-review", "save",
          [c \in Candidates |-> IF candidates[c] = "absent" THEN "absent"
                                ELSE IF c \in kept THEN "approved" ELSE "rejected"],
          NewDataset(dataset, kept), {}, {})

(* _save_candidates(), then _save_dataset() *)
Saved(t, place) ==
  tools' = [tools EXCEPT ![t] = IF place = "off" THEN Closed ELSE [@ EXCEPT !.pc = place]]

SaveCandidates(t) ==
  /\ tools[t].pc \in {"save", "save-one"}
  /\ candidates' = tools[t].candidates
  /\ Saved(t, IF tools[t].pc = "save" THEN "half" ELSE "off")
  /\ UNCHANGED <<dataset, starts, mishaps>>

SaveDataset(t) ==
  /\ tools[t].pc = "half"
  /\ dataset' = tools[t].dataset
  /\ Saved(t, IF tools[t].left = {} THEN "off" ELSE "open")
  /\ UNCHANGED <<candidates, starts, mishaps>>

KillTool(t) ==
  /\ tools[t].pc # "off"
  /\ Saved(t, "off")
  /\ mishaps' = mishaps \cup {IF t = "real-auto-review" THEN "rules-cut-off" ELSE "cut-off"}
  /\ UNCHANGED <<candidates, dataset, starts>>

CurationNext ==
  \/ StartScan \/ StartReview \/ StartAutoReview
  \/ \E v \in SourceVideos : ScanVideo(v)
  \/ \E c \in Candidates : Decide(c) \/ Request("request-1", c) \/ Request("request-2", c)
  \/ \E t \in Tools : SaveCandidates(t) \/ SaveDataset(t) \/ KillTool(t)

CurationSpec == CurationInit /\ [][CurationNext]_curationVars

-----------------------------------------------------------------------------
(* Whoever reviews, in whatever mixture of the tools, the dataset is what   *)
(* was approved: each query once.  A tool that is cut off between its two   *)
(* files may lose an approved query, and never lets in one that was not     *)
(* approved.  (Two tools at once, a forced scan of videos that were         *)
(* reviewed, a second click on what was decided and auto_review() cut off   *)
(* break this; nothing in the code prevents them.)                          *)
DatasetFollowsReview ==
  (\A t \in Tools : tools[t].pc = "off") =>
    /\ mishaps = {} =>
         \A c \in Candidates : dataset[c] = IF candidates[c] = "approved" THEN 1 ELSE 0
    /\ mishaps \subseteq {"cut-off"} =>
         \A c \in Candidates : dataset[c] <= 1 /\ (dataset[c] = 1 => candidates[c] = "approved")
=============================================================================
