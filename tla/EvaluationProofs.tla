--------------------------- MODULE EvaluationProofs ---------------------------
(***************************************************************************)
(* Proofs about the tools of eval/: the review of the candidates           *)
(* (Curation), the hard negatives that are mined while the index changes,  *)
(* and the metrics of a ranking (Evaluation).                              *)
(***************************************************************************)
EXTENDS Curation, Evaluation, FiniteOrders

Statuses == {"absent", "pending", "approved", "rejected"}
Opened == [pc : {"open", "save", "save-one", "half"}, candidates : [Candidates -> Statuses],
           dataset : [Candidates -> Nat], left : SUBSET (Candidates \cup SourceVideos)]

CurationTyped ==
  /\ candidates \in [Candidates -> Statuses] /\ dataset \in [Candidates -> Nat]
  /\ DOMAIN tools = Tools
  /\ \A t \in Tools : tools[t] = Closed \/ tools[t] \in Opened

Off(t) == tools[t].pc = "off"
Calm   == mishaps \subseteq {"cut-off"}

(* The queries are those of the approved candidates; or some of them *)
Follows(cs, ds) == \A c \in Candidates : ds[c] = IF cs[c] = "approved" THEN 1 ELSE 0
Within(cs, ds)  == \A c \in Candidates : ds[c] <= 1 /\ (ds[c] = 1 => cs[c] = "approved")
Agree(cs, ds)   == Within(cs, ds) /\ (mishaps = {} => Follows(cs, ds))

(* A tool's copies agree with each other, and with the files as far as it *)
(* has not written them                                                    *)
Sound(t) ==
  /\ tools[t].pc = "open" => /\ t \in {"real-scan", "real-review"}
                             /\ tools[t].candidates = candidates
                             /\ tools[t].dataset = dataset
  /\ tools[t].pc = "save-one" => Agree(tools[t].candidates, dataset) /\ tools[t].left = {}
  /\ tools[t].pc \in {"save", "half"} => Agree(tools[t].candidates, tools[t].dataset)
  /\ tools[t].pc = "half" => candidates = tools[t].candidates
  /\ t = "real-auto-review" => tools[t].pc \in {"off", "save", "half"} /\ tools[t].left = {}
  /\ t # "real-auto-review" =>
       /\ tools[t].pc \in {"open", "save", "save-one"} => Agree(candidates, dataset)
       /\ tools[t].pc \in {"save", "half"} => Within(tools[t].candidates, dataset)
  /\ t = "real-scan" =>
       /\ tools[t].pc \in {"off", "open"}
       /\ \A c \in Candidates : tools[t].pc = "open" /\ Source[c] \in tools[t].left
                                   => candidates[c] = "absent"
  /\ t = "real-review" =>
       \A c \in tools[t].left : c \in Candidates /\ tools[t].candidates[c] = "pending"
  /\ t \in {"request-1", "request-2"} => tools[t].left = {}

(* As long as nothing happened that the tools do not cope with, one of them *)
(* is open at most, and what it has in memory is sound                       *)
Sane ==
  /\ \A t, o \in Tools : t # o => Off(t) \/ Off(o)
  /\ \A t \in Tools : Sound(t)
  /\ (\A t \in Tools : Off(t)) => Agree(candidates, dataset)

CurationInv == CurationTyped /\ (Calm => Sane)

-----------------------------------------------------------------------------
(* A tool is off exactly when it is closed *)
LEMMA ClosedOrOpen ==
  ASSUME CurationTyped, NEW t \in Tools
  PROVE  /\ Off(t) <=> tools[t] = Closed
         /\ ~Off(t) => tools[t] \in Opened
<1>1. Closed.pc = "off" /\ Closed.left = {}
  BY DEF Closed
<1>2. \A tool \in Opened : tool.pc # "off"
  BY DEF Opened
<1>3. tools[t] = Closed \/ tools[t] \in Opened
  BY DEF CurationTyped
<1> QED BY <1>1, <1>2, <1>3 DEF Off

(* What a tool finds when it is started, and that it disturbs nobody *)
LEMMA Starting ==
  ASSUME CurationTyped, NEW t \in Tools, NEW place \in {"open", "save", "save-one"},
         NEW cs \in [Candidates -> Statuses], NEW ds \in [Candidates -> Nat],
         NEW todo \in SUBSET (Candidates \cup SourceVideos), NEW mishap,
         Start(t, place, cs, ds, todo, mishap)
  PROVE  /\ CurationTyped'
         /\ Off(t)
         /\ \A o \in Tools \ {t} : tools'[o] = tools[o]
         /\ tools'[t] = [pc |-> place, candidates |-> cs, dataset |-> ds, left |-> todo]
         /\ mishaps \subseteq mishaps' /\ mishap \subseteq mishaps'
         /\ Calm' => \A o \in Tools : Off(o)
         /\ UNCHANGED <<candidates, dataset>>
<1> DEFINE open == [pc |-> place, candidates |-> cs, dataset |-> ds, left |-> todo]
<1>1. open \in Opened
  BY DEF Opened
<1>2. /\ tools' = [tools EXCEPT ![t] = open]
      /\ UNCHANGED <<candidates, dataset>> /\ Off(t)
  BY DEF Start, Off
<1>3. tools'[t] = open /\ \A o \in Tools \ {t} : tools'[o] = tools[o]
  BY <1>2 DEF CurationTyped
<1>4. CurationTyped'
  BY <1>1, <1>2, <1>3 DEF CurationTyped, Closed
<1>5. mishaps \subseteq mishaps' /\ mishap \subseteq mishaps'
  BY DEF Start
<1>6. ASSUME Calm', NEW o \in Tools, ~Off(o) PROVE FALSE
  <2>1. "overlap" \in mishaps'
    BY <1>6 DEF Start, Off
  <2> QED BY <2>1, <1>6 DEF Calm
<1> QED BY <1>2, <1>3, <1>4, <1>5, <1>6

(* One tool moves while the others are off: nothing but its own soundness *)
(* has to be shown                                                        *)
LEMMA OneMoves ==
  ASSUME CurationTyped, CurationTyped', NEW t \in Tools,
         \A o \in Tools \ {t} : tools'[o] = tools[o] /\ Off(o),
         Sound(t)', Off(t)' => Agree(candidates, dataset)'
  PROVE  Sane'
<1>1. ASSUME NEW o \in Tools \ {t} PROVE Off(o)' /\ Sound(o)'
  <2>1. tools'[o] = Closed
    BY <1>1, ClosedOrOpen
  <2>2. tools'[o].pc = "off" /\ tools'[o].left = {}
    BY <2>1 DEF Closed
  <2> QED BY <2>2 DEF Off, Sound
<1> QED BY <1>1 DEF Sane

LEMMA FollowersAreWithin ==
  ASSUME NEW cs, NEW ds, Follows(cs, ds) PROVE Within(cs, ds)
<1>1. ASSUME NEW c \in Candidates PROVE ds[c] <= 1 /\ (ds[c] = 1 => cs[c] = "approved")
  <2>1. CASE cs[c] = "approved"
    BY <2>1 DEF Follows
  <2>2. CASE cs[c] # "approved"
    BY <2>2 DEF Follows
  <2> QED BY <2>1, <2>2
<1> QED BY <1>1 DEF Within

(* Agreement survives more mishaps *)
LEMMA AgreesStill ==
  ASSUME NEW cs, NEW ds, Agree(cs, ds), mishaps \subseteq mishaps'
  PROVE  Within(cs, ds) /\ (mishaps' = {} => Follows(cs, ds))
  BY DEF Agree

-----------------------------------------------------------------------------
(* A start is sound if the tool is, given that the files agree *)
LEMMA StartKeeps ==
  ASSUME CurationInv, NEW t \in Tools, NEW place \in {"open", "save", "save-one"},
         NEW cs \in [Candidates -> Statuses], NEW ds \in [Candidates -> Nat],
         NEW todo \in SUBSET (Candidates \cup SourceVideos), NEW mishap,
         Start(t, place, cs, ds, todo, mishap),
         mishap = {} /\ Agree(candidates, dataset)
           /\ tools'[t] = [pc |-> place, candidates |-> cs, dataset |-> ds, left |-> todo]
           /\ Agree(candidates, dataset)'
           /\ mishaps \subseteq mishaps'
           /\ UNCHANGED <<candidates, dataset>>
           => Sound(t)',
         mishap = {} \/ mishap \cap {"force", "again"} # {}
  PROVE  CurationInv'
<1>1. /\ CurationTyped'
      /\ Off(t)
      /\ \A o \in Tools \ {t} : tools'[o] = tools[o]
      /\ tools'[t] = [pc |-> place, candidates |-> cs, dataset |-> ds, left |-> todo]
      /\ mishaps \subseteq mishaps' /\ mishap \subseteq mishaps'
      /\ Calm' => \A o \in Tools : Off(o)
      /\ UNCHANGED <<candidates, dataset>>
  BY Starting DEF CurationInv
<1>2. ASSUME Calm' PROVE Sane'
  <2>1. mishap = {}
    BY <1>1, <1>2 DEF Calm
  <2>2. Calm
    BY <1>1, <1>2 DEF Calm
  <2>3. Agree(candidates, dataset)
    BY <1>1, <1>2, <2>2 DEF CurationInv, Sane
  <2>4. Agree(candidates, dataset)'
    BY <2>3, <1>1 DEF Agree, Within, Follows
  <2>5. Sound(t)'
    BY <2>1, <2>3, <2>4, <1>1
  <2>6. ~Off(t)'
    <3>1. tools'[t] = [pc |-> place, candidates |-> cs, dataset |-> ds, left |-> todo]
      BY <1>1
    <3>2. tools'[t].pc = place
      BY <3>1
    <3> QED BY <3>2 DEF Off
  <2> QED BY <1>1, <1>2, <2>5, <2>6, OneMoves DEF CurationInv
<1> QED BY <1>1, <1>2 DEF CurationInv

LEMMA StartScanKeeps ==
  ASSUME CurationInv, StartScan PROVE CurationInv'
<1>1. /\ candidates \in [Candidates -> Statuses] /\ dataset \in [Candidates -> Nat]
      /\ "real-scan" \in Tools
  BY DEF CurationInv, CurationTyped, Tools
<1>2. ASSUME NEW todo \in SUBSET SourceVideos,
             \A c \in Candidates : Source[c] \in todo => candidates[c] = "absent",
             Start("real-scan", "open", candidates, dataset, todo, {})
      PROVE  CurationInv'
  <2> DEFINE open == [pc |-> "open", candidates |-> candidates, dataset |-> dataset,
                      left |-> todo]
  <2>1. ASSUME Agree(candidates, dataset)', tools'["real-scan"] = open,
               UNCHANGED <<candidates, dataset>>
        PROVE  Sound("real-scan")'
    <3>1. /\ tools'["real-scan"].pc = "open" /\ tools'["real-scan"].left = todo
          /\ tools'["real-scan"].candidates = candidates'
          /\ tools'["real-scan"].dataset = dataset'
      BY <2>1
    <3> QED BY <3>1, <2>1, <1>2 DEF Sound
  <2> QED BY <1>1, <1>2, <2>1, StartKeeps
<1>3. ASSUME NEW todo \in SUBSET SourceVideos,
             Start("real-scan", "open",
                   [c \in Candidates |-> IF Source[c] \in todo THEN "absent" ELSE candidates[c]],
                   dataset, todo, {"force"})
      PROVE  CurationInv'
  <2> DEFINE wiped == [c \in Candidates |-> IF Source[c] \in todo THEN "absent"
                                            ELSE candidates[c]]
  <2>1. wiped \in [Candidates -> Statuses]
    BY <1>1 DEF Statuses
  <2>2. Start("real-scan", "open", wiped, dataset, todo, {"force"})
    BY <1>3
  <2> HIDE DEF wiped
  <2> QED BY <1>1, <2>1, <2>2, StartKeeps
<1>4. CASE LET todo == {v \in SourceVideos : \A c \in Candidates : Source[c] = v =>
                                                candidates[c] = "absent"}
           IN todo # {} /\ Start("real-scan", "open", candidates, dataset, todo, {})
  BY <1>2, <1>4
<1> QED BY <1>3, <1>4 DEF StartScan

LEMMA StartReviewKeeps ==
  ASSUME CurationInv, StartReview PROVE CurationInv'
<1> DEFINE todo == With("pending")
           open == [pc |-> "open", candidates |-> candidates, dataset |-> dataset,
                    left |-> todo]
<1>1. /\ candidates \in [Candidates -> Statuses] /\ dataset \in [Candidates -> Nat]
      /\ "real-review" \in Tools
  BY DEF CurationInv, CurationTyped, Tools
<1>2. /\ todo \in SUBSET Candidates
      /\ \A c \in todo : candidates[c] = "pending"
      /\ Start("real-review", "open", candidates, dataset, todo, {})
  BY DEF With, StartReview
<1> HIDE DEF todo
<1>3. ASSUME Agree(candidates, dataset)', tools'["real-review"] = open,
             UNCHANGED <<candidates, dataset>>
      PROVE  Sound("real-review")'
  <2>1. /\ tools'["real-review"].pc = "open" /\ tools'["real-review"].left = todo
        /\ tools'["real-review"].candidates = candidates'
        /\ tools'["real-review"].dataset = dataset'
    BY <1>3
  <2> QED BY <1>2, <2>1, <1>3 DEF Sound
<1> QED BY <1>1, <1>2, <1>3, StartKeeps

(* auto_review() writes what it decided into both files *)
LEMMA StartAutoReviewKeeps ==
  ASSUME CurationInv, StartAutoReview PROVE CurationInv'
<1>1. /\ candidates \in [Candidates -> Statuses] /\ dataset \in [Candidates -> Nat]
      /\ "real-auto-review" \in Tools
  BY DEF CurationInv, CurationTyped, Tools
<1>2. PICK kept \in SUBSET (Candidates \ With("absent")) :
        Start("real-auto-review", "save",
              [c \in Candidates |-> IF candidates[c] = "absent" THEN "absent"
                                    ELSE IF c \in kept THEN "approved" ELSE "rejected"],
              NewDataset(dataset, kept), {}, {})
  BY DEF StartAutoReview
<1> DEFINE cs == [c \in Candidates |-> IF candidates[c] = "absent" THEN "absent"
                                       ELSE IF c \in kept THEN "approved" ELSE "rejected"]
           ds == NewDataset(dataset, kept)
           open == [pc |-> "save", candidates |-> cs, dataset |-> ds, left |-> {}]
<1>3. cs \in [Candidates -> Statuses] /\ ds \in [Candidates -> Nat]
  BY DEF Statuses, NewDataset
<1>4. Follows(cs, ds)
  BY DEF Follows, NewDataset, With
<1>5. Within(cs, ds)
  BY <1>4, FollowersAreWithin
<1>6. Start("real-auto-review", "save", cs, ds, {}, {})
  BY <1>2
<1> HIDE DEF cs, ds
<1>7. ASSUME tools'["real-auto-review"] = open
      PROVE  Sound("real-auto-review")'
  <2>1. /\ tools'["real-auto-review"].pc = "save" /\ tools'["real-auto-review"].left = {}
        /\ tools'["real-auto-review"].candidates = cs
        /\ tools'["real-auto-review"].dataset = ds
    BY <1>7
  <2>2. Agree(tools["real-auto-review"].candidates, tools["real-auto-review"].dataset)'
    BY <2>1, <1>4, <1>5 DEF Agree, Within, Follows
  <2> QED BY <2>1, <2>2 DEF Sound
<1> QED BY <1>1, <1>3, <1>6, <1>7, StartKeeps

(* Approving a candidate that is pending adds its query to copies that agree *)
LEMMA ApprovedAgrees ==
  ASSUME NEW cs0 \in [Candidates -> Statuses], NEW ds0 \in [Candidates -> Nat],
         NEW c \in Candidates, cs0[c] = "pending", Agree(cs0, ds0)
  PROVE  LET cs == [cs0 EXCEPT ![c] = "approved"]
             ds == [ds0 EXCEPT ![c] = @ + 1]
         IN  /\ cs \in [Candidates -> Statuses] /\ ds \in [Candidates -> Nat]
             /\ Agree(cs, ds)
             /\ \A old : Within(cs0, old) => Within(cs, old)
<1> DEFINE cs == [cs0 EXCEPT ![c] = "approved"]
           ds == [ds0 EXCEPT ![c] = @ + 1]
<1>1. cs \in [Candidates -> Statuses] /\ ds \in [Candidates -> Nat]
  BY DEF Statuses
<1>2. ds0[c] = 0
  <2>1. ds0[c] \in Nat
    OBVIOUS
  <2> QED BY <2>1 DEF Agree, Within
<1>3. ASSUME NEW d \in Candidates
      PROVE  ds[d] <= 1 /\ (ds[d] = 1 => cs[d] = "approved")
  <2>1. CASE d = c
    BY <1>2, <2>1
  <2>2. CASE d # c
    <3>1. ds[d] = ds0[d] /\ cs[d] = cs0[d]
      BY <2>2
    <3> HIDE DEF ds, cs
    <3> QED BY <3>1 DEF Agree, Within
  <2> QED BY <2>1, <2>2
<1>4. ASSUME mishaps = {}, NEW d \in Candidates
      PROVE  ds[d] = IF cs[d] = "approved" THEN 1 ELSE 0
  <2>1. Follows(cs0, ds0)
    BY <1>4 DEF Agree
  <2>2. CASE d = c
    BY <2>2, <1>2
  <2>3. CASE d # c
    <3>1. ds[d] = ds0[d] /\ cs[d] = cs0[d]
      BY <2>3
    <3> HIDE DEF ds, cs
    <3> QED BY <2>1, <3>1 DEF Follows
  <2> QED BY <2>2, <2>3
<1>5. ASSUME NEW old, Within(cs0, old) PROVE Within(cs, old)
  BY <1>5 DEF Within
<1>6. Within(cs, ds)
  BY <1>3 DEF Within
<1> QED BY <1>1, <1>4, <1>5, <1>6 DEF Agree, Follows

(* Rejecting it changes nothing the dataset is about *)
LEMMA RejectedAgrees ==
  ASSUME NEW cs \in [Candidates -> Statuses], NEW c \in Candidates, cs[c] = "pending"
  PROVE  LET new == [cs EXCEPT ![c] = "rejected"]
         IN  /\ new \in [Candidates -> Statuses]
             /\ \A old : Within(cs, old) => Within(new, old)
             /\ \A old : Agree(cs, old) => Agree(new, old)
<1> DEFINE new == [cs EXCEPT ![c] = "rejected"]
<1>1. new \in [Candidates -> Statuses]
  BY DEF Statuses
<1>2. ASSUME NEW old, Within(cs, old) PROVE Within(new, old)
  BY <1>2 DEF Within
<1>3. ASSUME NEW old, Follows(cs, old), NEW d \in Candidates
      PROVE  old[d] = IF new[d] = "approved" THEN 1 ELSE 0
  <2>1. CASE d = c
    <3>1. old[d] = 0
      BY <1>3, <2>1 DEF Follows
    <3> QED BY <3>1, <2>1
  <2>2. CASE d # c
    <3>1. new[d] = cs[d]
      BY <2>2
    <3> HIDE DEF new
    <3> QED BY <1>3, <3>1 DEF Follows
  <2> QED BY <2>1, <2>2
<1> QED BY <1>1, <1>2, <1>3 DEF Agree, Follows

(* A click on a candidate that is pending is sound; one on another is not *)
(* calm                                                                    *)
LEMMA RequestKeeps ==
  ASSUME CurationInv, NEW t \in {"request-1", "request-2"}, NEW c \in Candidates,
         Request(t, c)
  PROVE  CurationInv'
<1> DEFINE copies == [candidates |-> candidates, dataset |-> dataset]
           again  == IF candidates[c] = "pending" THEN {} ELSE {"again"}
           new    == Approved(copies, c)
           less   == [candidates EXCEPT ![c] = "rejected"]
<1>1. /\ candidates \in [Candidates -> Statuses] /\ dataset \in [Candidates -> Nat]
      /\ t \in Tools
  BY DEF CurationInv, CurationTyped, Tools
<1>2. /\ new.candidates = [candidates EXCEPT ![c] = "approved"]
      /\ new.dataset = [dataset EXCEPT ![c] = @ + 1]
      /\ [copies EXCEPT !.candidates[c] = "rejected"].candidates = less
      /\ [copies EXCEPT !.candidates[c] = "rejected"].dataset = dataset
      /\ copies.candidates = candidates /\ copies.dataset = dataset
  BY DEF Approved
<1>3. /\ [candidates EXCEPT ![c] = "approved"] \in [Candidates -> Statuses]
      /\ [dataset EXCEPT ![c] = @ + 1] \in [Candidates -> Nat]
      /\ less \in [Candidates -> Statuses]
  <2>1. "approved" \in Statuses /\ "rejected" \in Statuses /\ dataset[c] + 1 \in Nat
    BY <1>1 DEF Statuses
  <2> QED BY <1>1, <2>1, Zenon
<1>4. again = {} \/ again \cap {"force", "again"} # {}
  OBVIOUS
<1>5. ASSUME NEW place \in {"save", "save-one"}, NEW cs \in [Candidates -> Statuses],
             NEW ds \in [Candidates -> Nat],
             Start(t, place, cs, ds, {}, again),
             candidates[c] = "pending" /\ Agree(candidates, dataset) =>
               /\ place = "save-one" => Agree(cs, dataset)
               /\ place = "save" => Agree(cs, ds) /\ Within(cs, dataset)
      PROVE  CurationInv'
  <2>1. ASSUME again = {}, Agree(candidates, dataset), Agree(candidates, dataset)',
               tools'[t] = [pc |-> place, candidates |-> cs, dataset |-> ds, left |-> {}],
               mishaps \subseteq mishaps', UNCHANGED <<candidates, dataset>>
        PROVE  Sound(t)'
    <3>1. candidates[c] = "pending"
      BY <2>1
    <3>2. /\ tools'[t].pc = place /\ tools'[t].left = {}
          /\ tools'[t].candidates = cs /\ tools'[t].dataset = ds
      <4>1. tools'[t] = [pc |-> place, candidates |-> cs, dataset |-> ds, left |-> {}]
        BY <2>1
      <4> QED BY <4>1
    <3>3. CASE place = "save-one"
      <4>1. Agree(tools[t].candidates, dataset)'
        BY <1>5, <2>1, <3>1, <3>2, <3>3 DEF Agree, Within, Follows
      <4> QED BY <2>1, <3>2, <3>3, <4>1 DEF Sound
    <3>4. CASE place = "save"
      <4>1. Agree(tools[t].candidates, tools[t].dataset)' /\ Within(tools[t].candidates, dataset)'
        BY <1>5, <2>1, <3>1, <3>2, <3>4 DEF Agree, Within, Follows
      <4> QED BY <2>1, <3>2, <3>4, <4>1 DEF Sound
    <3> QED BY <3>3, <3>4
  <2> HIDE DEF again
  <2>2. Start(t, place, cs, ds, {}, again) /\ place \in {"open", "save", "save-one"}
        /\ {} \in SUBSET (Candidates \cup SourceVideos)
    BY <1>5
  <2> QED BY <1>1, <1>4, <2>1, <2>2, StartKeeps
<1>6. CASE Start(t, "save", new.candidates, new.dataset, {}, again)
  <2> DEFINE cs == [candidates EXCEPT ![c] = "approved"]
             ds == [dataset EXCEPT ![c] = @ + 1]
  <2>1. candidates[c] = "pending" /\ Agree(candidates, dataset) =>
          Agree(cs, ds) /\ Within(cs, dataset)
    BY <1>1, ApprovedAgrees DEF Agree
  <2>2. new.candidates = cs /\ new.dataset = ds /\ cs \in [Candidates -> Statuses]
        /\ ds \in [Candidates -> Nat]
    BY <1>2, <1>3
  <2> HIDE DEF new, again, cs, ds
  <2> QED BY <1>5, <1>6, <2>1, <2>2
<1>7. CASE Start(t, "save-one", less, dataset, {}, again)
  <2>1. candidates[c] = "pending" /\ Agree(candidates, dataset) => Agree(less, dataset)
    BY <1>1, RejectedAgrees
  <2> HIDE DEF less, again
  <2> QED BY <1>1, <1>3, <1>5, <1>7, <2>1
<1>8. CASE Start(t, "save-one", candidates, dataset, {}, again)
  <2> HIDE DEF again
  <2> QED BY <1>1, <1>5, <1>8
<1> QED BY <1>2, <1>6, <1>7, <1>8 DEF Request

-----------------------------------------------------------------------------
(* An open tool acts: only its own soundness, and the files once it closes *)
LEMMA ActionKeeps ==
  ASSUME CurationInv, NEW t \in Tools, ~Off(t), NEW tool,
         tool = Closed \/ tool \in Opened,
         tools' = [tools EXCEPT ![t] = tool], mishaps \subseteq mishaps',
         candidates' \in [Candidates -> Statuses], dataset' \in [Candidates -> Nat],
         Calm /\ Calm' /\ Sound(t) /\ tools'[t] = tool
           => Sound(t)' /\ (Off(t)' => Agree(candidates, dataset)')
  PROVE  CurationInv'
<1>1. tools'[t] = tool /\ \A o \in Tools \ {t} : tools'[o] = tools[o]
  BY DEF CurationInv, CurationTyped
<1>2. CurationTyped'
  BY <1>1 DEF CurationInv, CurationTyped, Closed, Opened
<1>3. ASSUME Calm' PROVE Sane'
  <2>1. Calm
    BY <1>3 DEF Calm
  <2>2. Sane
    BY <2>1 DEF CurationInv
  <2>3. \A o \in Tools \ {t} : tools'[o] = tools[o] /\ Off(o)
    BY <1>1, <2>2 DEF Sane
  <2>4. Sound(t)' /\ (Off(t)' => Agree(candidates, dataset)')
    BY <1>1, <1>3, <2>1, <2>2 DEF Sane
  <2> QED BY <1>2, <2>3, <2>4, OneMoves DEF CurationInv
<1> QED BY <1>2, <1>3 DEF CurationInv

LEMMA OpenFields ==
  ASSUME NEW tool \in Opened
  PROVE  /\ tool = [pc |-> tool.pc, candidates |-> tool.candidates, dataset |-> tool.dataset,
                    left |-> tool.left]
         /\ tool.pc \in {"open", "save", "save-one", "half"}
         /\ tool.candidates \in [Candidates -> Statuses]
         /\ tool.dataset \in [Candidates -> Nat]
         /\ tool.left \in SUBSET (Candidates \cup SourceVideos)
  BY DEF Opened

LEMMA Rewritten ==
  ASSUME NEW tool \in Opened, NEW cs, NEW todo
  PROVE  [tool EXCEPT !.left = todo, !.candidates = cs]
           = [pc |-> tool.pc, candidates |-> cs, dataset |-> tool.dataset, left |-> todo]
<1> DEFINE one == [pc |-> tool.pc, candidates |-> tool.candidates, dataset |-> tool.dataset,
                   left |-> todo]
           two == [pc |-> tool.pc, candidates |-> cs, dataset |-> tool.dataset, left |-> todo]
<1>1. [tool EXCEPT !.left = todo] = one
  BY DEF Opened
<1>2. [one EXCEPT !.candidates = cs] = two
  OBVIOUS
<1>3. [tool EXCEPT !.left = todo, !.candidates = cs]
        = [[tool EXCEPT !.left = todo] EXCEPT !.candidates = cs]
  BY Zenon
<1> HIDE DEF one, two
<1>4. [tool EXCEPT !.left = todo, !.candidates = cs] = two
  BY <1>1, <1>2, <1>3, Zenon
<1> QED BY <1>4 DEF two

LEMMA ClosedFields ==
  Closed.pc = "off" /\ Closed.left = {}
  BY DEF Closed

(* A closed tool is sound *)
LEMMA ClosedIsSound ==
  ASSUME NEW t \in Tools, tools'[t] = Closed PROVE Sound(t)'
<1>1. tools'[t].pc = "off" /\ tools'[t].left = {}
  BY ClosedFields
<1> QED BY <1>1 DEF Sound

LEMMA KillKeeps ==
  ASSUME CurationInv, NEW t \in Tools, KillTool(t) PROVE CurationInv'
<1>1. /\ ~Off(t) /\ tools' = [tools EXCEPT ![t] = Closed]
      /\ mishaps \subseteq mishaps' /\ UNCHANGED <<candidates, dataset>>
      /\ Calm' => t # "real-auto-review"
      /\ mishaps' # {}
      /\ candidates \in [Candidates -> Statuses] /\ dataset \in [Candidates -> Nat]
  BY DEF KillTool, Saved, Off, Calm, CurationInv, CurationTyped
<1>2. tools[t].pc \in {"open", "save", "save-one", "half"}
  BY <1>1, ClosedOrOpen, OpenFields DEF CurationInv
<1>3. ASSUME Calm', Sound(t), tools'[t] = Closed
      PROVE  Sound(t)' /\ (Off(t)' => Agree(candidates, dataset)')
  <2>1. Within(candidates, dataset)
    BY <1>1, <1>2, <1>3 DEF Sound, Agree
  <2>2. Agree(candidates, dataset)'
    BY <2>1, <1>1 DEF Agree, Within
  <2> QED BY <2>2, <1>3, ClosedIsSound
<1> QED BY <1>1, <1>3, ActionKeeps

LEMMA SaveCandidatesKeeps ==
  ASSUME CurationInv, NEW t \in Tools, SaveCandidates(t) PROVE CurationInv'
<1> DEFINE tool == tools[t]
           half == [pc |-> "half", candidates |-> tool.candidates, dataset |-> tool.dataset,
                    left |-> tool.left]
<1>1. /\ ~Off(t) /\ tool.pc \in {"save", "save-one"}
      /\ candidates' = tool.candidates /\ UNCHANGED <<dataset, mishaps>>
      /\ dataset \in [Candidates -> Nat]
  BY DEF SaveCandidates, Off, CurationInv, CurationTyped
<1>2. tool \in Opened
  BY <1>1, ClosedOrOpen DEF CurationInv
<1>3. /\ tool = [pc |-> tool.pc, candidates |-> tool.candidates, dataset |-> tool.dataset,
                 left |-> tool.left]
      /\ tool.candidates \in [Candidates -> Statuses]
  BY <1>2, OpenFields
<1>4. CASE tool.pc = "save"
  <2>1. tools' = [tools EXCEPT ![t].pc = "half"]
    BY <1>4 DEF SaveCandidates, Saved
  <2>2. half \in Opened /\ [tool EXCEPT !.pc = "half"] = half
    BY <1>2 DEF Opened
  <2>3. tools' = [tools EXCEPT ![t] = half]
    BY <2>1, <2>2
  <2>4. ASSUME Sound(t), tools'[t] = half
        PROVE  Sound(t)' /\ ~Off(t)'
    <3>1. /\ tools'[t].pc = "half" /\ tools'[t].candidates = tool.candidates
          /\ tools'[t].dataset = tool.dataset /\ tools'[t].left = tool.left
      BY <2>4
    <3>2. Agree(tools[t].candidates, tools[t].dataset)'
      BY <1>1, <1>4, <2>4, <3>1 DEF Sound, Agree, Within, Follows
    <3>3. t # "real-auto-review" => Within(tools[t].candidates, dataset)'
      BY <1>1, <1>4, <2>4, <3>1 DEF Sound, Within
    <3>4. t # "real-scan"
      BY <1>4, <2>4 DEF Sound
    <3>5. t = "real-review" =>
            \A c \in tools'[t].left : c \in Candidates /\ tools'[t].candidates[c] = "pending"
      BY <1>4, <2>4, <3>1 DEF Sound
    <3>6. (t \in {"request-1", "request-2"} \/ t = "real-auto-review") => tools'[t].left = {}
      BY <2>4, <3>1 DEF Sound
    <3> QED BY <1>1, <3>1, <3>2, <3>3, <3>4, <3>5, <3>6 DEF Sound, Off
  <2> HIDE DEF half
  <2> QED BY <1>1, <1>3, <2>2, <2>3, <2>4, ActionKeeps
<1>5. CASE tool.pc = "save-one"
  <2>1. tools' = [tools EXCEPT ![t] = Closed]
    BY <1>5 DEF SaveCandidates, Saved
  <2>2. ASSUME Sound(t), tools'[t] = Closed
        PROVE  Sound(t)' /\ Agree(candidates, dataset)'
    <3>1. Agree(tools[t].candidates, dataset)
      BY <1>5, <2>2 DEF Sound
    <3>2. Agree(candidates, dataset)'
      BY <3>1, <1>1 DEF Agree, Within, Follows
    <3> QED BY <3>2, <2>2, ClosedIsSound
  <2> QED BY <1>1, <1>3, <2>1, <2>2, ActionKeeps
<1> QED BY <1>1, <1>4, <1>5

(* With the dataset written the files agree, and a review goes on with them *)
LEMMA SaveDatasetKeeps ==
  ASSUME CurationInv, NEW t \in Tools, SaveDataset(t) PROVE CurationInv'
<1> DEFINE tool == tools[t]
           open == [pc |-> "open", candidates |-> tool.candidates, dataset |-> tool.dataset,
                    left |-> tool.left]
<1>1. /\ ~Off(t) /\ tool.pc = "half"
      /\ dataset' = tool.dataset /\ UNCHANGED <<candidates, mishaps>>
      /\ candidates \in [Candidates -> Statuses]
  BY DEF SaveDataset, Off, CurationInv, CurationTyped
<1>2. tool \in Opened
  BY <1>1, ClosedOrOpen DEF CurationInv
<1>3. /\ tool = [pc |-> tool.pc, candidates |-> tool.candidates, dataset |-> tool.dataset,
                 left |-> tool.left]
      /\ tool.dataset \in [Candidates -> Nat]
  BY <1>2, OpenFields
<1>4. ASSUME Sound(t) PROVE Agree(candidates, dataset)'
  <2>1. Agree(candidates, tool.dataset)
    BY <1>1, <1>4 DEF Sound
  <2> QED BY <2>1, <1>1 DEF Agree, Within, Follows
<1>5. CASE tool.left = {}
  <2>1. tools' = [tools EXCEPT ![t] = Closed]
    BY <1>5 DEF SaveDataset, Saved
  <2>2. ASSUME Sound(t), tools'[t] = Closed
        PROVE  Sound(t)' /\ Agree(candidates, dataset)'
    BY <2>2, <1>4, ClosedIsSound
  <2> QED BY <1>1, <1>3, <2>1, <2>2, ActionKeeps
<1>6. CASE tool.left # {}
  <2>1. tools' = [tools EXCEPT ![t].pc = "open"]
    BY <1>6 DEF SaveDataset, Saved
  <2>2. open \in Opened /\ [tool EXCEPT !.pc = "open"] = open
    BY <1>2 DEF Opened
  <2>3. tools' = [tools EXCEPT ![t] = open]
    BY <2>1, <2>2
  <2>4. ASSUME Sound(t), tools'[t] = open PROVE Sound(t)' /\ ~Off(t)'
    <3>1. /\ tools'[t].pc = "open" /\ tools'[t].candidates = tool.candidates
          /\ tools'[t].dataset = tool.dataset /\ tools'[t].left = tool.left
      BY <2>4
    <3>2. t = "real-review"
      BY <1>1, <1>6, <2>4 DEF Sound, Tools
    <3>3. candidates' = tools'[t].candidates /\ dataset' = tools'[t].dataset
      BY <1>1, <2>4, <3>1 DEF Sound
    <3>4. \A c \in tools'[t].left : c \in Candidates /\ tools'[t].candidates[c] = "pending"
      BY <2>4, <3>1, <3>2 DEF Sound
    <3>5. Agree(candidates, dataset)'
      BY <1>4, <2>4
    <3> QED BY <3>1, <3>2, <3>3, <3>4, <3>5 DEF Sound, Off
  <2> HIDE DEF open
  <2> QED BY <1>1, <1>3, <2>2, <2>3, <2>4, ActionKeeps
<1> QED BY <1>5, <1>6

(* What a scan adds is pending, and there was nothing of it before *)
LEMMA ScanKeeps ==
  ASSUME CurationInv, NEW v \in SourceVideos, ScanVideo(v) PROVE CurationInv'
<1> DEFINE t == "real-scan"
           tool == tools["real-scan"]
<1>1. /\ t \in Tools /\ ~Off(t) /\ tool.pc = "open" /\ v \in tool.left
      /\ UNCHANGED <<dataset, mishaps>> /\ dataset \in [Candidates -> Nat]
  BY DEF ScanVideo, Off, Tools, CurationInv, CurationTyped
<1>2. PICK new \in SUBSET {c \in Candidates : Source[c] = v} :
        candidates' = [c \in Candidates |-> IF c \in new THEN "pending"
                                                         ELSE tool.candidates[c]]
  BY DEF ScanVideo
<1>3. tool \in Opened
  BY <1>1, ClosedOrOpen DEF CurationInv
<1>4. /\ tool = [pc |-> tool.pc, candidates |-> tool.candidates, dataset |-> tool.dataset,
                 left |-> tool.left]
      /\ tool.candidates \in [Candidates -> Statuses] /\ tool.dataset \in [Candidates -> Nat]
      /\ tool.left \in SUBSET (Candidates \cup SourceVideos)
  BY <1>3, OpenFields
<1>5. candidates' \in [Candidates -> Statuses]
  BY <1>2, <1>4 DEF Statuses
<1> DEFINE open == [pc |-> "open", candidates |-> candidates', dataset |-> tool.dataset,
                    left |-> tool.left \ {v}]
<1>6. ASSUME Sound(t)
      PROVE  /\ Agree(candidates, dataset)' /\ tool.dataset = dataset'
             /\ \A c \in Candidates : Source[c] \in tool.left \ {v} => candidates'[c] = "absent"
  <2>1. /\ tool.candidates = candidates /\ tool.dataset = dataset
        /\ Agree(candidates, dataset)
        /\ \A c \in Candidates : Source[c] \in tool.left => candidates[c] = "absent"
    BY <1>1, <1>6 DEF Sound
  <2>2. ASSUME NEW c \in Candidates
        PROVE  \/ candidates'[c] = candidates[c]
               \/ /\ Source[c] = v
                  /\ candidates[c] = "absent" /\ candidates'[c] = "pending"
    BY <1>1, <1>2, <2>1
  <2>3. \A c \in Candidates : candidates'[c] = "approved" <=> candidates[c] = "approved"
    BY <2>2
  <2>4. Agree(candidates, dataset)'
    BY <1>1, <2>1, <2>3 DEF Agree, Within, Follows
  <2> QED BY <1>1, <2>1, <2>2, <2>4
<1>7. CASE tool.left = {v}
  <2>1. tools' = [tools EXCEPT ![t] = Closed]
    BY <1>7 DEF ScanVideo
  <2>2. ASSUME Sound(t), tools'[t] = Closed
        PROVE  Sound(t)' /\ Agree(candidates, dataset)'
    BY <1>1, <2>2, <1>6, ClosedIsSound
  <2> QED BY <1>1, <1>5, <2>1, <2>2, ActionKeeps
<1>8. CASE tool.left # {v}
  <2>1. tools' = [tools EXCEPT ![t] = [tool EXCEPT !.left = @ \ {v},
                                                   !.candidates = candidates']]
    BY <1>8 DEF ScanVideo
  <2>2. [tool EXCEPT !.left = @ \ {v}, !.candidates = candidates'] = open
    <3> DEFINE todo == tool.left \ {v}
    <3>1. [tool EXCEPT !.left = todo, !.candidates = candidates']
            = [pc |-> tool.pc, candidates |-> candidates', dataset |-> tool.dataset,
               left |-> todo]
      BY <1>3, Rewritten, Zenon
    <3> QED BY <1>1, <3>1, Zenon
  <2>3. tools' = [tools EXCEPT ![t] = open]
    BY <2>1, <2>2, Zenon
  <2>4. open \in Opened
    BY <1>4, <1>5 DEF Opened
  <2>5. ASSUME Sound(t), tools'[t] = open PROVE Sound(t)' /\ ~Off(t)'
    <3>1. /\ tools'[t].pc = "open" /\ tools'[t].candidates = candidates'
          /\ tools'[t].dataset = tool.dataset /\ tools'[t].left = tool.left \ {v}
      BY <2>5
    <3> QED BY <1>6, <2>5, <3>1 DEF Sound, Off
  <2> HIDE DEF open
  <2> QED BY <1>1, <1>5, <2>3, <2>4, <2>5, ActionKeeps
<1> QED BY <1>7, <1>8

LEMMA OneMoreQuery ==
  ASSUME NEW cs, NEW ds, NEW todo, NEW c
  PROVE  [[pc |-> "save", candidates |-> cs, dataset |-> ds, left |-> todo]
            EXCEPT !.dataset[c] = @ + 1]
         = [pc |-> "save", candidates |-> cs, dataset |-> [ds EXCEPT ![c] = @ + 1],
            left |-> todo]
  OBVIOUS

(* What a decision leaves in memory: still the candidates with the queries, *)
(* and what is left to decide is still pending                              *)
LEMMA DecideKeeps ==
  ASSUME CurationInv, NEW c \in Candidates, Decide(c) PROVE CurationInv'
<1> DEFINE t == "real-review"
           tool == tools["real-review"]
           rest == tool.left \ {c}
           Tool(cs, ds, todo) == [pc |-> "save", candidates |-> cs, dataset |-> ds, left |-> todo]
           less == [tool.candidates EXCEPT ![c] = "rejected"]
           more == [tool.candidates EXCEPT ![c] = "approved"]
           added == [tool.dataset EXCEPT ![c] = @ + 1]
<1>1. /\ t \in Tools /\ ~Off(t) /\ tool.pc = "open" /\ c \in tool.left
      /\ UNCHANGED <<candidates, dataset, mishaps>>
      /\ candidates \in [Candidates -> Statuses] /\ dataset \in [Candidates -> Nat]
  BY DEF Decide, Off, Tools, CurationInv, CurationTyped
<1>2. tool \in Opened
  BY <1>1, ClosedOrOpen DEF CurationInv
<1>3. /\ tool.candidates \in [Candidates -> Statuses] /\ tool.dataset \in [Candidates -> Nat]
      /\ tool.left \in SUBSET (Candidates \cup SourceVideos)
  BY <1>2, OpenFields
<1>4. /\ less \in [Candidates -> Statuses] /\ more \in [Candidates -> Statuses]
      /\ added \in [Candidates -> Nat]
  BY <1>3 DEF Statuses
<1>5. \/ tools' = [tools EXCEPT ![t] = Tool(tool.candidates, tool.dataset, rest)]
      \/ tools' = [tools EXCEPT ![t] = Tool(tool.candidates, tool.dataset, {})]
      \/ tools' = [tools EXCEPT ![t] = Tool(less, tool.dataset, rest)]
      \/ tools' = [tools EXCEPT ![t] = Tool(more, added, rest)]
  <2> DEFINE after == [tool EXCEPT !.pc = "save", !.left = @ \ {c}]
  <2>1. \E next \in {after, [after EXCEPT !.left = {}],
                     [after EXCEPT !.candidates[c] = "rejected"], Approved(after, c)} :
          tools' = [tools EXCEPT ![t] = next]
    BY DEF Decide
  <2>2. after = Tool(tool.candidates, tool.dataset, rest)
    <3> DEFINE one == Tool(tool.candidates, tool.dataset, tool.left)
               two == Tool(tool.candidates, tool.dataset, rest)
    <3>1. [tool EXCEPT !.pc = "save"] = one
      BY <1>2 DEF Opened
    <3>2. [one EXCEPT !.left = rest] = two
      OBVIOUS
    <3>3. after = [[tool EXCEPT !.pc = "save"] EXCEPT !.left = rest]
      BY Zenon
    <3> HIDE DEF one, two, after
    <3>4. after = two
      BY <3>1, <3>2, <3>3, Zenon
    <3> QED BY <3>4 DEF two
  <2> HIDE DEF after
  <2>3. [after EXCEPT !.left = {}] = Tool(tool.candidates, tool.dataset, {})
    BY <2>2
  <2>4. [after EXCEPT !.candidates[c] = "rejected"] = Tool(less, tool.dataset, rest)
    BY <2>2
  <2>5. Approved(after, c) = Tool(more, added, rest)
    <3>1. [after EXCEPT !.candidates[c] = "approved"] = Tool(more, tool.dataset, rest)
      BY <2>2
    <3>2. Approved(after, c) = [[after EXCEPT !.candidates[c] = "approved"]
                                  EXCEPT !.dataset[c] = @ + 1]
      BY Zenon DEF Approved
    <3> HIDE DEF rest, more
    <3>3. [Tool(more, tool.dataset, rest) EXCEPT !.dataset[c] = @ + 1]
            = Tool(more, added, rest)
      BY OneMoreQuery
    <3> QED BY <3>1, <3>2, <3>3
  <2> QED BY <2>1, <2>2, <2>3, <2>4, <2>5, Zenon
<1>6. ASSUME NEW cs \in [Candidates -> Statuses], NEW ds \in [Candidates -> Nat],
             NEW todo \in SUBSET rest, tools' = [tools EXCEPT ![t] = Tool(cs, ds, todo)],
             Sound(t) =>
               /\ Agree(cs, ds) /\ Within(cs, dataset)
               /\ \A d \in Candidates \ {c} : cs[d] = tool.candidates[d]
      PROVE  CurationInv'
  <2> DEFINE next == Tool(cs, ds, todo)
  <2>1. next \in Opened
    BY <1>3, <1>6 DEF Opened
  <2>2. ASSUME Sound(t), tools'[t] = next PROVE Sound(t)' /\ ~Off(t)'
    <3>1. /\ tools'[t].pc = "save" /\ tools'[t].candidates = cs
          /\ tools'[t].dataset = ds /\ tools'[t].left = todo
      BY <2>2
    <3>2. Agree(tools[t].candidates, tools[t].dataset)'
      BY <1>1, <1>6, <2>2, <3>1 DEF Agree, Within, Follows
    <3>3. Within(tools[t].candidates, dataset)'
      BY <1>1, <1>6, <2>2, <3>1 DEF Within
    <3>4. \A d \in tools'[t].left : d \in Candidates /\ tools'[t].candidates[d] = "pending"
      BY <1>6, <2>2, <3>1 DEF Sound
    <3>5. Agree(candidates, dataset)'
      BY <1>1, <2>2 DEF Sound, Agree, Within, Follows
    <3> QED BY <3>1, <3>2, <3>3, <3>4, <3>5 DEF Sound, Off
  <2>3. tools' = [tools EXCEPT ![t] = next]
    BY <1>6
  <2> HIDE DEF next
  <2> QED BY <1>1, <2>1, <2>2, <2>3, ActionKeeps
<1>7. Sound(t) => /\ tool.candidates = candidates /\ tool.dataset = dataset
                  /\ tool.candidates[c] = "pending" /\ Agree(tool.candidates, tool.dataset)
  BY <1>1 DEF Sound
<1>8. /\ tool.candidates \in [Candidates -> Statuses] /\ tool.dataset \in [Candidates -> Nat]
      /\ rest \in SUBSET rest /\ {} \in SUBSET rest
      /\ Sound(t) => Agree(tool.candidates, tool.dataset) /\ Within(tool.candidates, dataset)
  BY <1>3, <1>7 DEF Agree
<1>9. Sound(t) => /\ Agree(less, tool.dataset) /\ Within(less, dataset)
                  /\ \A d \in Candidates \ {c} : less[d] = tool.candidates[d]
  BY <1>3, <1>7, <1>8, RejectedAgrees
<1>10. Sound(t) => /\ Agree(more, added) /\ Within(more, dataset)
                   /\ \A d \in Candidates \ {c} : more[d] = tool.candidates[d]
  BY <1>3, <1>7, <1>8, ApprovedAgrees, Zenon
<1> HIDE DEF rest, less, more, added
<1>11. CASE tools' = [tools EXCEPT ![t] = Tool(tool.candidates, tool.dataset, rest)]
  BY <1>6, <1>8, <1>11
<1>12. CASE tools' = [tools EXCEPT ![t] = Tool(tool.candidates, tool.dataset, {})]
  BY <1>6, <1>8, <1>12
<1>13. CASE tools' = [tools EXCEPT ![t] = Tool(less, tool.dataset, rest)]
  BY <1>4, <1>6, <1>8, <1>9, <1>13
<1>14. CASE tools' = [tools EXCEPT ![t] = Tool(more, added, rest)]
  BY <1>4, <1>6, <1>8, <1>10, <1>14
<1> QED BY <1>5, <1>11, <1>12, <1>13, <1>14

-----------------------------------------------------------------------------
LEMMA CurationInitInv == CurationInit => CurationInv
<1> SUFFICES ASSUME CurationInit PROVE CurationInv
  OBVIOUS
<1>1. CurationTyped
  BY DEF CurationInit, CurationTyped, Statuses
<1>2. Agree(candidates, dataset)
  BY DEF CurationInit, Agree, Within, Follows
<1>3. \A t \in Tools : tools[t].pc = "off" /\ tools[t].left = {}
  BY ClosedFields DEF CurationInit
<1> QED BY <1>1, <1>2, <1>3 DEF CurationInv, Sane, Sound, Off

LEMMA CurationStepInv == CurationInv /\ [CurationNext]_curationVars => CurationInv'
<1> SUFFICES ASSUME CurationInv, [CurationNext]_curationVars PROVE CurationInv'
  OBVIOUS
<1>1. CASE UNCHANGED curationVars
  BY <1>1 DEF curationVars, CurationInv, CurationTyped, Sane, Sound, Calm, Off,
              Agree, Within, Follows
<1>2. ASSUME NEW c \in Candidates,
             Request("request-1", c) \/ Request("request-2", c) \/ Decide(c)
      PROVE  CurationInv'
  BY <1>2, RequestKeeps, DecideKeeps
<1>3. ASSUME NEW t \in Tools, SaveCandidates(t) \/ SaveDataset(t) \/ KillTool(t)
      PROVE  CurationInv'
  BY <1>3, SaveCandidatesKeeps, SaveDatasetKeeps, KillKeeps
<1> QED BY <1>1, <1>2, <1>3, StartScanKeeps, StartReviewKeeps, StartAutoReviewKeeps, ScanKeeps
        DEF CurationNext

LEMMA CurationAgrees == CurationInv => DatasetFollowsReview
<1> SUFFICES ASSUME CurationInv, \A t \in Tools : tools[t].pc = "off"
             PROVE  /\ mishaps = {} => Follows(candidates, dataset)
                    /\ mishaps \subseteq {"cut-off"} => Within(candidates, dataset)
  BY DEF DatasetFollowsReview, Follows, Within
<1> QED BY DEF CurationInv, Calm, Sane, Off, Agree

(* Whatever mixture of scans, terminal reviews, clicks and rules is run, and *)
(* for any candidates and any number of tools started: when all are closed,  *)
(* the dataset has each approved candidate once and no other; a tool cut off *)
(* between its two files loses approved queries at worst (review.py,         *)
(* web_review.py, auto_review.py, real.py).                                  *)
THEOREM DatasetIsWhatWasApproved == CurationSpec => []DatasetFollowsReview
BY CurationInitInv, CurationStepInv, CurationAgrees, PTL DEF CurationSpec

-----------------------------------------------------------------------------
(* The fractions that overlaps are *)
Fraction == [inter : Nat, union : Nat \ {0}]
Span(x) == x.s \in Int /\ x.e \in Int

LEMMA IouIsFraction ==
  ASSUME NEW hit, NEW rel, Span(hit), Span(rel) PROVE iou(hit, rel) \in Fraction
<1> DEFINE from  == IF hit.s > rel.s THEN hit.s ELSE rel.s
           to    == IF hit.e < rel.e THEN hit.e ELSE rel.e
           inter == IF from < to THEN to - from ELSE 0
           union == ((hit.e - hit.s) + (rel.e - rel.s)) - inter
<1>1. from \in Int /\ to \in Int
  BY DEF Span
<1>2. inter \in Nat
  BY <1>1
<1>3. union \in Int
  BY <1>2 DEF Span
<1>4. iou(hit, rel) = IF hit.video = rel.video /\ union > 0
                      THEN [inter |-> inter, union |-> union]
                      ELSE [inter |-> 0, union |-> 1]
  BY Zenon DEF iou
<1> HIDE DEF inter, union
<1> QED BY <1>2, <1>3, <1>4 DEF Fraction

(* Being above is an order of the fractions: from a/b > c/d and c/d > e/f   *)
(* follow (ad)f > (cb)f = (cf)b > (ed)b, and d is not 0                      *)
LEMMA AboveIsAnOrder ==
  /\ \A x \in Fraction : ~Above(x, x)
  /\ \A x, y, z \in Fraction : Above(x, y) /\ Above(y, z) => Above(x, z)
<1>1. ASSUME NEW x \in Fraction PROVE ~Above(x, x)
  BY <1>1 DEF Fraction, Above
<1>2. ASSUME NEW x \in Fraction, NEW y \in Fraction, NEW z \in Fraction,
             Above(x, y), Above(y, z), ~Above(x, z)
      PROVE  FALSE
  <2>1. ASSUME NEW a \in Nat, NEW b \in Nat \ {0}, NEW c \in Nat, NEW d \in Nat \ {0},
               NEW e \in Nat, NEW f \in Nat \ {0},
               a * d > c * b, c * f > e * d, a * f <= e * b
        PROVE  FALSE
    <3>1. (a * d) * f > (c * b) * f
      BY <2>1
    <3>2. (c * f) * b > (e * d) * b
      BY <2>1
    <3>3. (a * f) * d <= (e * b) * d
      BY <2>1
    <3>4. (a * d) * f = (a * f) * d /\ (c * b) * f = (c * f) * b /\ (e * d) * b = (e * b) * d
      BY <2>1
    <3> DEFINE m1 == (a * d) * f
               m2 == (c * f) * b
               m3 == (e * b) * d
    <3>5. m1 \in Int /\ m2 \in Int /\ m3 \in Int
      BY <2>1
    <3>6. m1 > m2 /\ m2 > m3 /\ m1 <= m3
      BY <3>1, <3>2, <3>3, <3>4
    <3> HIDE DEF m1, m2, m3
    <3> QED BY <3>5, <3>6
  <2>2. /\ x.inter \in Nat /\ x.union \in Nat \ {0} /\ y.inter \in Nat
        /\ y.union \in Nat \ {0} /\ z.inter \in Nat /\ z.union \in Nat \ {0}
    BY <1>2 DEF Fraction
  <2>3. /\ x.inter * y.union > y.inter * x.union
        /\ y.inter * z.union > z.inter * y.union
        /\ ~(x.inter * z.union > z.inter * x.union)
    BY <1>2 DEF Above
  <2>4. x.inter * z.union <= z.inter * x.union
    <3> DEFINE l == x.inter * z.union
               r == z.inter * x.union
    <3>1. l \in Int /\ r \in Int
      BY <2>2
    <3>2. ~(l > r)
      BY <2>3
    <3> HIDE DEF l, r
    <3>3. l <= r
      BY <3>1, <3>2
    <3> QED BY <3>3 DEF l, r
  <2> QED BY <2>1, <2>2, <2>3, <2>4
<1> QED BY <1>1, <1>2

(* A query has a best overlap with every span: its true ranges are finitely *)
(* many and at least one                                                    *)
LEMMA OverlapIsFraction ==
  ASSUME NEW span, Span(span), NEW q \in Queries
  PROVE  Overlap(span, q.relevant) \in Fraction
<1> DEFINE ranges == ToSet(q.relevant)
           all == {iou(span, r) : r \in ranges}
           f == [i \in 1..Len(q.relevant) |-> iou(span, q.relevant[i])]
<1>1. /\ q.relevant \in Seq([video : {q.video}, s : Int, e : Int])
      /\ q.relevant # <<>>
  BY EvaluationConstants
<1>2. /\ Len(q.relevant) \in Nat /\ Len(q.relevant) # 0
      /\ DOMAIN q.relevant = 1..Len(q.relevant)
      /\ \A i \in 1..Len(q.relevant) : Span(q.relevant[i])
  <2>1. ASSUME NEW T, NEW s \in Seq(T), s # <<>>
        PROVE  /\ Len(s) \in Nat /\ Len(s) # 0 /\ DOMAIN s = 1..Len(s)
               /\ \A i \in 1..Len(s) : s[i] \in T
    BY <2>1
  <2>2. \A r \in [video : {q.video}, s : Int, e : Int] : Span(r)
    BY DEF Span
  <2> QED BY <1>1, <2>1, <2>2
<1>3. ranges = {q.relevant[i] : i \in 1..Len(q.relevant)}
  BY <1>2, Zenon DEF ToSet
<1>4. \A r \in ranges : Span(r)
  BY <1>2, <1>3
<1>5. all \in SUBSET Fraction
  BY <1>4, IouIsFraction
<1>6. all # {}
  <2>1. 1 \in 1..Len(q.relevant)
    BY <1>2
  <2> QED BY <1>3, <2>1
<1>7. IsFiniteSet(all)
  <2>1. f \in Surjection(1..Len(q.relevant), all)
    BY <1>3, Zenon DEF Surjection
  <2>2. IsFiniteSet(1..Len(q.relevant))
    BY <1>2, FS_Interval
  <2> HIDE DEF f, all
  <2> QED BY <2>1, <2>2, FS_Surjection
<1> DEFINE R == {p \in all \X all : Above(p[2], p[1])}
<1>8. PICK m \in all : \A x \in all : <<m, x>> \notin R
  <2>1. \A x \in all : <<x, x>> \notin R
    BY <1>5, AboveIsAnOrder
  <2>2. \A x, y, z \in all : <<x, y>> \in R /\ <<y, z>> \in R => <<x, z>> \in R
    BY <1>5, AboveIsAnOrder
  <2> HIDE DEF R, all
  <2> QED BY <1>6, <1>7, <2>1, <2>2, MaximalElement
<1>9. \A x \in all : ~Above(x, m)
  BY <1>8
<1>10. \E x \in all : \A r \in ranges : ~Above(iou(span, r), x)
  BY <1>9
<1>11. Overlap(span, q.relevant) \in all
  BY <1>10 DEF Overlap
<1> QED BY <1>5, <1>11

(* Of those that have at most n up to them there are at most n: all of them *)
(* are up to the last                                                       *)
LEMMA FirstAreFew ==
  ASSUME NEW S \in SUBSET Nat, IsFiniteSet(S), NEW n \in Nat
  PROVE  LET first == {i \in S : Cardinality(Upto(S, i)) <= n}
         IN  IsFiniteSet(first) /\ Cardinality(first) <= n
<1> DEFINE first == {i \in S : Cardinality(Upto(S, i)) <= n}
           R == {p \in first \X first : p[1] < p[2]}
<1>1. IsFiniteSet(first) /\ first \in SUBSET S
  <2>1. first \in SUBSET S
    OBVIOUS
  <2> HIDE DEF first
  <2> QED BY <2>1, FS_Subset
<1>2. CASE first = {}
  <2>1. Cardinality(first) = 0
    BY <1>2, FS_EmptySet
  <2> QED BY <1>1, <2>1
<1>3. CASE first # {}
  <2>1. PICK m \in first : \A i \in first : <<m, i>> \notin R
    <3>1. /\ \A i \in first : <<i, i>> \notin R
          /\ \A i, j, k \in first : <<i, j>> \in R /\ <<j, k>> \in R => <<i, k>> \in R
      BY <1>1
    <3> HIDE DEF first, R
    <3> QED BY <1>1, <1>3, <3>1, MaximalElement
  <2>2. first \in SUBSET Upto(S, m)
    <3>1. ASSUME NEW i \in first PROVE i \in S /\ i <= m
      <4>1. ~(m < i) /\ m \in Nat /\ i \in Nat /\ i \in S
        BY <1>1, <2>1
      <4> QED BY <4>1
    <3> HIDE DEF first
    <3> QED BY <3>1 DEF Upto
  <2>3. Cardinality(Upto(S, m)) <= n
    OBVIOUS
  <2>4. IsFiniteSet(Upto(S, m))
    <3>1. Upto(S, m) \in SUBSET S
      BY DEF Upto
    <3> QED BY <3>1, FS_Subset
  <2> HIDE DEF first
  <2>5. Cardinality(first) <= Cardinality(Upto(S, m))
    BY <2>2, <2>4, FS_Subset
  <2>6. Cardinality(first) \in Nat /\ Cardinality(Upto(S, m)) \in Nat
    BY <1>1, <2>4, FS_CardinalityType
  <2>7. Cardinality(first) <= n
    BY <2>3, <2>5, <2>6
  <2> QED BY <1>1, <2>7 DEF first
<1> QED BY <1>2, <1>3

-----------------------------------------------------------------------------
(* How many of the ranks there are up to one: one more at each of them. *)
LEMMA CountSteps ==
  ASSUME NEW count \in Nat, NEW ranks \in SUBSET (1..count)
  PROVE  /\ \A k \in Nat : /\ Upto(ranks, k) \in SUBSET ranks /\ IsFiniteSet(Upto(ranks, k))
                           /\ Cardinality(Upto(ranks, k)) \in Nat
         /\ Cardinality(Upto(ranks, 0)) = 0
         /\ \A i \in 1..count :
              Cardinality(Upto(ranks, i)) = Cardinality(Upto(ranks, i - 1))
                                              + (IF i \in ranks THEN 1 ELSE 0)
         /\ IsFiniteSet(ranks)
<1>1. IsFiniteSet(ranks)
  <2>1. IsFiniteSet(1..count)
    BY FS_Interval
  <2> QED BY <2>1, FS_Subset
<1>0. \A i \in ranks : i \in Nat /\ 1 <= i /\ i <= count
  OBVIOUS
<1>2. ASSUME NEW k \in Nat
      PROVE  /\ Upto(ranks, k) \in SUBSET ranks /\ IsFiniteSet(Upto(ranks, k))
             /\ Cardinality(Upto(ranks, k)) \in Nat
  <2>1. Upto(ranks, k) \in SUBSET ranks
    BY DEF Upto
  <2>2. IsFiniteSet(Upto(ranks, k))
    BY <1>1, <2>1, FS_Subset
  <2> QED BY <2>1, <2>2, FS_CardinalityType
<1>3. Cardinality(Upto(ranks, 0)) = 0
  <2>1. \A j \in ranks : ~ (j <= 0)
    BY <1>0
  <2>2. Upto(ranks, 0) = {}
    BY <2>1 DEF Upto
  <2> QED BY <2>2, FS_EmptySet
<1>4. ASSUME NEW i \in 1..count
      PROVE  Cardinality(Upto(ranks, i)) = Cardinality(Upto(ranks, i - 1))
                                             + (IF i \in ranks THEN 1 ELSE 0)
  <2>1. /\ i \in Nat /\ i - 1 \in Nat
        /\ \A j \in ranks : (j <= i <=> j <= i - 1 \/ j = i) /\ ~ (i <= i - 1)
    BY <1>0
  <2>2. CASE i \in ranks
    <3>1. Upto(ranks, i) = Upto(ranks, i - 1) \cup {i} /\ i \notin Upto(ranks, i - 1)
      BY <2>1, <2>2 DEF Upto
    <3>2. Cardinality(Upto(ranks, i)) = Cardinality(Upto(ranks, i - 1)) + 1
      BY <1>2, <2>1, <3>1, FS_AddElement
    <3> QED BY <2>2, <3>2
  <2>3. CASE i \notin ranks
    <3>1. Upto(ranks, i) = Upto(ranks, i - 1)
      BY <2>1, <2>3 DEF Upto
    <3>2. Cardinality(Upto(ranks, i)) \in Nat
      BY <1>2, <2>1
    <3> QED BY <2>3, <3>1, <3>2
  <2> QED BY <2>2, <2>3
<1> QED BY <1>1, <1>2, <1>3, <1>4

Counted(c, ranks, count) == c = [i \in 0..count |-> Cardinality(Upto(ranks, i))]

CountsUp(c, ranks, count) ==
  /\ c \in [0..count -> Nat] /\ c[0] = 0
  /\ \A i \in 1..count : c[i] = c[i - 1] + (IF i \in ranks THEN 1 ELSE 0)
  /\ \A i \in 0..count : c[i] <= i
  /\ \A i, j \in 0..count : i <= j => c[i] <= c[j]
  /\ \A i, j \in ranks : i < j => c[i] < c[j]
  /\ \A i \in ranks : c[i] # 0

(* ... so at most as many as there are places, more at a later rank, and    *)
(* each number of them at one of the ranks.                                 *)
LEMMA CountIsBounded ==
  ASSUME NEW count \in Nat, NEW ranks \in SUBSET (1..count), NEW c, Counted(c, ranks, count)
  PROVE  CountsUp(c, ranks, count)
<1>1. c \in [0..count -> Nat] /\ c[0] = 0
  BY CountSteps DEF Counted
<1>2. ASSUME NEW i \in 1..count PROVE c[i] = c[i - 1] + (IF i \in ranks THEN 1 ELSE 0)
  <2>1. i \in 0..count /\ i - 1 \in 0..count
    OBVIOUS
  <2> QED BY <2>1, CountSteps DEF Counted
<1>3. ASSUME NEW i \in 1..count
      PROVE  c[i - 1] \in Nat /\ c[i] \in Nat /\ (c[i] = c[i - 1] \/ c[i] = c[i - 1] + 1)
             /\ (i \in ranks => c[i] = c[i - 1] + 1)
  <2>1. i \in 0..count /\ i - 1 \in 0..count
    OBVIOUS
  <2> QED BY <1>1, <1>2, <2>1
<1>4. \A i \in 0..count : c[i] <= i
  <2> DEFINE Good == {i \in 0..count : c[i] <= i}
  <2>1. 0 \in Good
    BY <1>1
  <2>2. \A i \in 1..count : i - 1 \in Good => i \in Good
    BY <1>3
  <2>3. \A i \in 0..count : i \in Good
    <3> HIDE DEF Good
    <3> QED BY <2>1, <2>2, StepByStep
  <2> QED BY <2>3
<1>5. ASSUME NEW i \in 0..count, NEW j \in 0..count, i <= j PROVE c[i] <= c[j]
  <2> DEFINE Good == {k \in 0..count : i <= k => c[i] <= c[k]}
  <2>1. 0 \in Good
    BY <1>1
  <2>2. ASSUME NEW k \in 1..count, k - 1 \in Good PROVE k \in Good
    <3>1. CASE i <= k - 1
      BY <1>1, <1>3, <2>2, <3>1
    <3>2. CASE i = k
      BY <1>1, <3>2
    <3>3. CASE i > k
      BY <3>3
    <3> QED BY <3>1, <3>2, <3>3
  <2>3. \A k \in 0..count : k \in Good
    <3> HIDE DEF Good
    <3> QED BY <2>1, <2>2, StepByStep
  <2> QED BY <1>5, <2>3
<1>6. ASSUME NEW i \in ranks, NEW j \in ranks, i < j PROVE c[i] < c[j]
  <2>1. i \in 0..count /\ j \in 1..count /\ j - 1 \in 0..count /\ i <= j - 1
    BY <1>6
  <2>2. c[i] <= c[j - 1] /\ c[i] \in Nat
    BY <1>1, <1>5, <2>1
  <2> QED BY <1>3, <2>1, <2>2
<1>7. ASSUME NEW i \in ranks PROVE c[i] # 0
  <2>1. i \in 1..count
    OBVIOUS
  <2> QED BY <1>3, <2>1
<1> QED BY <1>1, <1>2, <1>4, <1>5, <1>6, <1>7 DEF CountsUp

(* If there are always at least as many of some ranks as of others, each of *)
(* the others has one of them that is not later and counts the same.        *)
LEMMA SameCount ==
  ASSUME NEW count \in Nat, NEW ranks \in SUBSET (1..count), NEW c, Counted(c, ranks, count),
         NEW others \in SUBSET (1..count), NEW d, Counted(d, others, count),
         \A i \in 0..count : d[i] <= c[i],
         NEW i \in others
  PROVE  \E j \in ranks : j <= i /\ c[j] = d[i]
<1> DEFINE T == {k \in 0..count : d[i] <= c[k]}
<1> HIDE DEF T
<1>0. CountsUp(c, ranks, count) /\ CountsUp(d, others, count)
  BY CountIsBounded
<1>1. /\ c \in [0..count -> Nat] /\ c[0] = 0
      /\ \A k \in 1..count : c[k] = c[k - 1] + (IF k \in ranks THEN 1 ELSE 0)
  BY <1>0 DEF CountsUp
<1>2. d[i] \in Nat /\ d[i] # 0 /\ i \in 0..count
  <2>1. i \in 0..count
    OBVIOUS
  <2>2. d \in [0..count -> Nat] /\ d[i] # 0
    BY <1>0 DEF CountsUp
  <2> QED BY <2>1, <2>2
<1>3. i \in T /\ T \in SUBSET Nat /\ \A k \in 0..count : k \in T <=> d[i] <= c[k]
  BY <1>2 DEF T
<1>4. PICK j \in T : \A k \in T : j <= k
  BY <1>3, LeastElement
<1>5. j \in 1..count /\ j - 1 \in 0..count /\ j - 1 \notin T /\ j <= i /\ d[i] <= c[j]
  <2>1. j \in 0..count /\ d[i] <= c[j] /\ j <= i
    BY <1>3, <1>4 DEF T
  <2>2. j # 0
    BY <1>1, <1>2, <2>1
  <2>3. j \in 1..count /\ j - 1 \in 0..count /\ ~ (j <= j - 1)
    BY <2>1, <2>2
  <2> QED BY <1>4, <2>1, <2>3
<1>6. c[j - 1] < d[i] /\ c[j - 1] \in Nat
  BY <1>1, <1>2, <1>3, <1>5
<1>7. j \in ranks /\ c[j] = c[j - 1] + 1
  BY <1>1, <1>2, <1>5, <1>6
<1> QED BY <1>2, <1>5, <1>6, <1>7

-----------------------------------------------------------------------------
(* The ranges that are left after each of count hits: each takes one of the *)
(* n at most.                                                               *)
Taking(left, count, n) ==
  /\ left \in [0..count -> SUBSET (1..n)] /\ left[0] = 1..n
  /\ \A i \in 1..count : /\ left[i] \in SUBSET left[i - 1]
                         /\ \A r, o \in left[i - 1] \ left[i] : r = o

TakenAt(left, count) == {i \in 1..count : left[i] # left[i - 1]}

(* What was taken and what is left are the n ranges. *)
LEMMA TakenAndLeft ==
  ASSUME NEW n \in Nat, NEW count \in Nat, NEW left, Taking(left, count, n)
  PROVE  /\ TakenAt(left, count) \in SUBSET (1..count)
         /\ \A i \in 0..count : /\ Cardinality(left[i]) \in Nat
                                /\ Cardinality(Upto(TakenAt(left, count), i))
                                     + Cardinality(left[i]) = n
<1> DEFINE ranks == TakenAt(left, count)
           c == [i \in 0..count |-> Cardinality(Upto(ranks, i))]
           l == [i \in 0..count |-> Cardinality(left[i])]
           Good == {i \in 0..count : c[i] + l[i] = n}
<1>1. ranks \in SUBSET (1..count)
  BY DEF TakenAt
<1>2. \A i \in 1..count : i \in ranks <=> left[i] # left[i - 1]
  BY DEF TakenAt
<1> HIDE DEF ranks
<1>3. Counted(c, ranks, count)
  BY DEF Counted
<1>4. CountsUp(c, ranks, count)
  <2> HIDE DEF c
  <2> QED BY <1>1, <1>3, CountIsBounded
<1>5. ASSUME NEW i \in 0..count PROVE IsFiniteSet(left[i]) /\ l[i] \in Nat
  <2>1. left[i] \in SUBSET (1..n)
    BY DEF Taking
  <2>2. IsFiniteSet(1..n)
    BY FS_Interval
  <2>3. IsFiniteSet(left[i]) /\ Cardinality(left[i]) \in Nat
    BY <2>1, <2>2, FS_Subset, FS_CardinalityType
  <2> QED BY <2>3
<1>6. ASSUME NEW i \in 1..count PROVE l[i - 1] = l[i] + (IF i \in ranks THEN 1 ELSE 0)
  <2>1. i \in 0..count /\ i - 1 \in 0..count
    OBVIOUS
  <2>2. l[i] = Cardinality(left[i]) /\ l[i - 1] = Cardinality(left[i - 1])
    BY <2>1
  <2>3. CASE i \in ranks
    <3>1. left[i] \in SUBSET left[i - 1] /\ left[i] # left[i - 1]
          /\ \A r, o \in left[i - 1] \ left[i] : r = o
      BY <1>2, <2>3 DEF Taking
    <3>2. PICK r \in left[i - 1] : r \notin left[i]
      BY <3>1
    <3>3. left[i] = left[i - 1] \ {r}
      BY <3>1, <3>2
    <3>4. Cardinality(left[i]) = Cardinality(left[i - 1]) - 1
      BY <1>5, <2>1, <3>2, <3>3, FS_RemoveElement
    <3>5. l[i] \in Nat /\ l[i - 1] \in Nat
      BY <1>5, <2>1
    <3> HIDE DEF l
    <3> QED BY <2>2, <2>3, <3>4, <3>5
  <2>4. CASE i \notin ranks
    <3>1. l[i] \in Nat /\ left[i] = left[i - 1]
      BY <1>2, <1>5, <2>1, <2>4
    <3> HIDE DEF l
    <3> QED BY <2>2, <2>4, <3>1
  <2> QED BY <2>3, <2>4
<1>7. 0 \in Good
  <2>1. left[0] = 1..n /\ 0 \in 0..count
    BY DEF Taking
  <2>2. Cardinality(1..n) = n
    BY FS_Interval
  <2>3. c[0] = 0
    BY <1>4 DEF CountsUp
  <2>4. l[0] = n
    BY <2>1, <2>2
  <2> HIDE DEF c, l
  <2> QED BY <2>1, <2>3, <2>4
<1>8. ASSUME NEW i \in 1..count, i - 1 \in Good PROVE i \in Good
  <2>1. i \in 0..count /\ i - 1 \in 0..count
    OBVIOUS
  <2>2. c[i] = c[i - 1] + (IF i \in ranks THEN 1 ELSE 0) /\ c[i - 1] \in Nat
    <3> HIDE DEF c
    <3> QED BY <1>4, <2>1 DEF CountsUp
  <2>3. l[i] \in Nat /\ l[i - 1] = l[i] + (IF i \in ranks THEN 1 ELSE 0)
    BY <1>5, <1>6, <2>1
  <2>4. c[i - 1] + l[i - 1] = n
    BY <1>8
  <2> HIDE DEF c, l
  <2> QED BY <2>1, <2>2, <2>3, <2>4
<1>9. \A i \in 0..count : i \in Good
  <2> HIDE DEF Good
  <2> QED BY <1>7, <1>8, StepByStep
<1>10. ASSUME NEW i \in 0..count
       PROVE  Cardinality(left[i]) \in Nat /\ Cardinality(Upto(ranks, i)) + Cardinality(left[i]) = n
  <2>1. c[i] + l[i] = n /\ l[i] \in Nat
    BY <1>5, <1>9
  <2> QED BY <2>1
<1> QED BY <1>1, <1>10 DEF ranks

(* Among the ranges left a hit takes what match gives. *)
Loop(left, match, count, n) ==
  /\ left \in [0..count -> SUBSET (1..n)] /\ left[0] = 1..n
  /\ \A i \in 1..count : left[i] = left[i - 1] \ match[i, left[i - 1]]

LEMMA LoopEnds ==
  ASSUME NEW n \in Nat, NEW count \in Nat,
         NEW match \in [(1..count) \X SUBSET (1..n) -> SUBSET (1..n)]
  PROVE  \E left : Loop(left, match, count, n)
<1> DEFINE V == SUBSET (1..n)
           I == 1..count
           all == 1..n
           st == [p \in I \X V |-> p[2] \ match[p[1], p[2]]]
           last == [s \in SUBSET I |-> Max(s)]
<1>1. st \in [I \X V -> V] /\ all \in V
  OBVIOUS
<1>2. \A i \in I, s \in V : st[i, s] = s \ match[i, s]
  OBVIOUS
<1> HIDE DEF V, st, all
<1>3. PICK g \in [SUBSET I -> V] : Recurses(g, I, last, all, st)
  BY <1>1, FoldExists
<1>4. Steps(g, count, V, all, st)
  <2>1. g[{}] = all
    BY <1>3 DEF Recurses
  <2>2. ASSUME NEW d \in SUBSET I, d # {} PROVE g[d] = st[Max(d), g[d \ {Max(d)}]]
    BY <1>3, <2>2 DEF Recurses
  <2> HIDE DEF last
  <2> QED BY <2>1, <2>2 DEF Steps
<1>5. PICK h : Trace(h, g, count, V, all, st)
  BY <1>1, <1>4, FoldFollows
<1>6. h \in [0..count -> V] /\ h[0] = all /\ \A i \in 1..count : h[i] = st[i, h[i - 1]]
  BY <1>5 DEF Trace
<1>7. ASSUME NEW i \in 1..count PROVE h[i] = h[i - 1] \ match[i, h[i - 1]]
  <2>1. i - 1 \in 0..count
    OBVIOUS
  <2> QED BY <1>2, <1>6, <2>1
<1>8. h \in [0..count -> SUBSET (1..n)] /\ h[0] = 1..n
  BY <1>6 DEF V, all
<1> QED BY <1>7, <1>8 DEF Loop

(* A hit takes one range at most. *)
LEMMA FirstIsOne ==
  ASSUME NEW hit, NEW relevant, NEW left
  PROVE  LET one == FirstOverlap(hit, relevant, left)
         IN  one \in SUBSET left /\ \A r, o \in one : r \in Nat /\ o \in Nat => r = o
<1>1. \A r, o \in FirstOverlap(hit, relevant, left) : r \in left /\ ~ (r < o) /\ ~ (o < r)
  BY DEF FirstOverlap
<1> QED BY <1>1

LEMMA BestMeans ==
  ASSUME NEW hit, NEW relevant, NEW thr, NEW left, NEW r
  PROVE  LET quality == [x \in left |-> iou(hit, relevant[x])]
         IN  r \in BestOverlap(hit, relevant, thr, left)
               <=> r \in left /\ Best(quality, left, r) /\ AtLeast(iou(hit, relevant[r]), thr)
  BY DEF BestOverlap

LEMMA BestIsOne ==
  ASSUME NEW hit, NEW relevant, NEW thr, NEW left
  PROVE  LET one == BestOverlap(hit, relevant, thr, left)
         IN  one \in SUBSET left /\ \A r, o \in one : r \in Nat /\ o \in Nat => r = o
<1>1. \A r, o \in BestOverlap(hit, relevant, thr, left) :
         r \in left /\ ~ (r < o) /\ ~ (o < r)
  <2> SUFFICES ASSUME NEW r \in BestOverlap(hit, relevant, thr, left),
                      NEW o \in BestOverlap(hit, relevant, thr, left)
               PROVE  r \in left /\ ~ (r < o) /\ ~ (o < r)
    OBVIOUS
  <2> DEFINE quality == [x \in left |-> iou(hit, relevant[x])]
  <2>1. /\ r \in left /\ o \in left
        /\ Best(quality, left, r) /\ Best(quality, left, o)
    BY BestMeans
  <2> HIDE DEF quality
  <2> QED BY <2>1 DEF Best
<1> QED BY <1>1

(* The loop of relevance() ... *)
LEMMA RelevanceTakes ==
  ASSUME NEW hits, NEW relevant, Len(hits) \in Nat, Len(relevant) \in Nat
  PROVE  \E left : Taking(left, Len(hits), Len(relevant))
             /\ relevance(hits, relevant) = TakenAt(left, Len(hits))
<1> DEFINE count == Len(hits)
           n == Len(relevant)
           Match(i, s) == FirstOverlap(hits[i], relevant, s)
           match == [p \in (1..count) \X SUBSET (1..n) |-> Match(p[1], p[2])]
<1>0. count \in Nat /\ n \in Nat
  OBVIOUS
<1>1. \A i, s : /\ Match(i, s) \in SUBSET s
                /\ \A r, o \in Match(i, s) : r \in Nat /\ o \in Nat => r = o
  BY FirstIsOne
<1> HIDE DEF Match, count, n
<1>2. /\ match \in [(1..count) \X SUBSET (1..n) -> SUBSET (1..n)]
      /\ \A i \in 1..count, s \in SUBSET (1..n) : match[i, s] = Match(i, s)
  <2>1. \A p \in (1..count) \X SUBSET (1..n) : Match(p[1], p[2]) \in SUBSET (1..n)
    BY <1>1
  <2>2. \A i \in 1..count, s \in SUBSET (1..n) : match[i, s] = Match(i, s)
    OBVIOUS
  <2> QED BY <2>1, <2>2
<1> HIDE DEF match
<1>3. PICK h : Loop(h, match, count, n)
  BY <1>0, <1>2, LoopEnds
<1>4. ASSUME NEW i \in 1..count PROVE h[i] = h[i - 1] \ Match(i, h[i - 1])
  <2>1. i - 1 \in 0..count
    BY <1>0
  <2>2. match[i, h[i - 1]] = Match(i, h[i - 1])
    <3>1. h \in [0..count -> SUBSET (1..n)]
      BY <1>3 DEF Loop
    <3>2. h[i - 1] \in SUBSET (1..n)
      BY <2>1, <3>1
    <3> QED BY <1>2, <3>2
  <2> QED BY <1>3, <2>2 DEF Loop
<1>5. h = [i \in 0..count |-> IF i = 0 THEN 1..n ELSE h[i - 1] \ Match(i, h[i - 1])]
  <2>1. h \in [0..count -> SUBSET (1..n)] /\ h[0] = 1..n
    BY <1>3 DEF Loop
  <2>2. \A i \in 0..count : h[i] = IF i = 0 THEN 1..n ELSE h[i - 1] \ Match(i, h[i - 1])
    BY <1>4, <2>1
  <2> QED BY <2>1, <2>2
<1> DEFINE left == CHOOSE f : f = [i \in 0..count |-> IF i = 0 THEN 1..n
                                                       ELSE f[i - 1] \ Match(i, f[i - 1])]
<1>6. left = [i \in 0..count |-> IF i = 0 THEN 1..n ELSE left[i - 1] \ Match(i, left[i - 1])]
  BY <1>5, Zenon
<1>7. relevance(hits, relevant) = {i \in 1..count : left[i] # left[i - 1]}
  BY Zenon DEF relevance, Credited, Match, count, n
<1> HIDE DEF left
<1>8. ASSUME NEW i \in 1..count PROVE left[i] = left[i - 1] \ Match(i, left[i - 1])
  <2>1. i \in 0..count /\ i # 0
    OBVIOUS
  <2> QED BY <1>6, <2>1
<1>9. left[0] = 1..n /\ DOMAIN left = 0..count /\ left = [i \in 0..count |-> left[i]]
  BY <1>0, <1>6
<1>10. \A i \in 0..count : left[i] \in SUBSET (1..n)
  <2> DEFINE Good == {i \in 0..count : left[i] \in SUBSET (1..n)}
  <2>1. 0 \in Good
    BY <1>0, <1>9
  <2>2. ASSUME NEW i \in 1..count, i - 1 \in Good PROVE i \in Good
    <3>1. left[i] = left[i - 1] \ Match(i, left[i - 1]) /\ i \in 0..count
      BY <1>8
    <3> QED BY <2>2, <3>1
  <2>3. \A i \in 0..count : i \in Good
    <3> HIDE DEF Good
    <3> QED BY <1>0, <2>1, <2>2, StepByStep
  <2> QED BY <2>3
<1>11. ASSUME NEW i \in 1..count
       PROVE  /\ left[i] \in SUBSET left[i - 1]
              /\ \A r, o \in left[i - 1] \ left[i] : r = o
  <2>1. left[i] = left[i - 1] \ Match(i, left[i - 1])
    BY <1>8
  <2>2. \A r \in left[i - 1] : r \in Nat
    <3>1. i - 1 \in 0..count
      BY <1>0
    <3> QED BY <1>10, <3>1
  <2> QED BY <1>1, <2>1, <2>2
<1>12. Taking(left, count, n)
  BY <1>9, <1>10, <1>11 DEF Taking
<1>13. relevance(hits, relevant) = TakenAt(left, count)
  BY <1>7 DEF TakenAt
<1> QED BY <1>12, <1>13 DEF count, n

(* ... and that of average_precision_at_iou(). *)
BestTaken(left, hits, relevant, thr) ==
  /\ Taking(left, Len(hits), Len(relevant))
  /\ truePositives(hits, relevant, thr) = TakenAt(left, Len(hits))
  /\ \A i \in 1..Len(hits) :
       left[i] = left[i - 1] \ BestOverlap(hits[i], relevant, thr, left[i - 1])


LEMMA PositivesTake ==
  ASSUME NEW hits, NEW relevant, NEW thr, Len(hits) \in Nat, Len(relevant) \in Nat
  PROVE  \E left : BestTaken(left, hits, relevant, thr)
<1> DEFINE count == Len(hits)
           n == Len(relevant)
           Match(i, s) == BestOverlap(hits[i], relevant, thr, s)
           match == [p \in (1..count) \X SUBSET (1..n) |-> Match(p[1], p[2])]
<1>0. count \in Nat /\ n \in Nat
  OBVIOUS
<1>1. \A i, s : /\ Match(i, s) \in SUBSET s
                /\ \A r, o \in Match(i, s) : r \in Nat /\ o \in Nat => r = o
  BY BestIsOne
<1> HIDE DEF Match, count, n
<1>2. /\ match \in [(1..count) \X SUBSET (1..n) -> SUBSET (1..n)]
      /\ \A i \in 1..count, s \in SUBSET (1..n) : match[i, s] = Match(i, s)
  <2>1. \A p \in (1..count) \X SUBSET (1..n) : Match(p[1], p[2]) \in SUBSET (1..n)
    BY <1>1
  <2>2. \A i \in 1..count, s \in SUBSET (1..n) : match[i, s] = Match(i, s)
    OBVIOUS
  <2> QED BY <2>1, <2>2
<1> HIDE DEF match
<1>3. PICK h : Loop(h, match, count, n)
  BY <1>0, <1>2, LoopEnds
<1>4. ASSUME NEW i \in 1..count PROVE h[i] = h[i - 1] \ Match(i, h[i - 1])
  <2>1. i - 1 \in 0..count
    BY <1>0
  <2>2. match[i, h[i - 1]] = Match(i, h[i - 1])
    <3>1. h \in [0..count -> SUBSET (1..n)]
      BY <1>3 DEF Loop
    <3>2. h[i - 1] \in SUBSET (1..n)
      BY <2>1, <3>1
    <3> QED BY <1>2, <3>2
  <2> QED BY <1>3, <2>2 DEF Loop
<1>5. h = [i \in 0..count |-> IF i = 0 THEN 1..n ELSE h[i - 1] \ Match(i, h[i - 1])]
  <2>1. h \in [0..count -> SUBSET (1..n)] /\ h[0] = 1..n
    BY <1>3 DEF Loop
  <2>2. \A i \in 0..count : h[i] = IF i = 0 THEN 1..n ELSE h[i - 1] \ Match(i, h[i - 1])
    BY <1>4, <2>1
  <2> QED BY <2>1, <2>2
<1> DEFINE left == CHOOSE f : f = [i \in 0..count |-> IF i = 0 THEN 1..n
                                                       ELSE f[i - 1] \ Match(i, f[i - 1])]
<1>6. left = [i \in 0..count |-> IF i = 0 THEN 1..n ELSE left[i - 1] \ Match(i, left[i - 1])]
  BY <1>5, Zenon
<1>7. truePositives(hits, relevant, thr) = {i \in 1..count : left[i] # left[i - 1]}
  BY Zenon DEF truePositives, Credited, Match, count, n
<1> HIDE DEF left
<1>8. ASSUME NEW i \in 1..count PROVE left[i] = left[i - 1] \ Match(i, left[i - 1])
  <2>1. i \in 0..count /\ i # 0
    OBVIOUS
  <2> QED BY <1>6, <2>1
<1>9. left[0] = 1..n /\ DOMAIN left = 0..count /\ left = [i \in 0..count |-> left[i]]
  BY <1>0, <1>6
<1>10. \A i \in 0..count : left[i] \in SUBSET (1..n)
  <2> DEFINE Good == {i \in 0..count : left[i] \in SUBSET (1..n)}
  <2>1. 0 \in Good
    BY <1>0, <1>9
  <2>2. ASSUME NEW i \in 1..count, i - 1 \in Good PROVE i \in Good
    <3>1. left[i] = left[i - 1] \ Match(i, left[i - 1]) /\ i \in 0..count
      BY <1>8
    <3> QED BY <2>2, <3>1
  <2>3. \A i \in 0..count : i \in Good
    <3> HIDE DEF Good
    <3> QED BY <1>0, <2>1, <2>2, StepByStep
  <2> QED BY <2>3
<1>11. ASSUME NEW i \in 1..count
       PROVE  /\ left[i] \in SUBSET left[i - 1]
              /\ \A r, o \in left[i - 1] \ left[i] : r = o
  <2>1. left[i] = left[i - 1] \ Match(i, left[i - 1])
    BY <1>8
  <2>2. \A r \in left[i - 1] : r \in Nat
    <3>1. i - 1 \in 0..count
      BY <1>0
    <3> QED BY <1>10, <3>1
  <2> QED BY <1>1, <2>1, <2>2
<1>12. Taking(left, count, n)
  BY <1>9, <1>10, <1>11 DEF Taking
<1>13. truePositives(hits, relevant, thr) = TakenAt(left, count)
  BY <1>7 DEF TakenAt
<1> QED BY <1>8, <1>12, <1>13 DEF BestTaken, Match, count, n

-----------------------------------------------------------------------------
(* The sums that the scores are *)

(* ... of dcg() and ideal(), *)
LEMMA GainAdds ==
  ASSUME NEW S, IsFiniteSet(S), S \in SUBSET (1..10)
  PROVE  \E g : Sums(g, [x \in S |-> Discount[x]], S) /\ Gain(S) = g[S]
<1> DEFINE f == [x \in S |-> Discount[x]]
           Item(s) == CHOOSE x \in s : TRUE
<1>1. f \in [S -> Int]
  BY DEF Discount
<1>2. PICK g : Sums(g, f, S)
  <2> HIDE DEF f
  <2> QED BY <1>1, SumExists
<1>3. \A s \in SUBSET S : s # {} => Item(s) \in S
  OBVIOUS
<1>4. g = [s \in SUBSET S |-> IF s = {} THEN 0 ELSE f[Item(s)] + g[s \ {Item(s)}]]
  BY <1>2, Zenon DEF Sums
<1> HIDE DEF Item
<1>5. \A s \in SUBSET S : s # {} => f[Item(s)] = Discount[Item(s)]
  BY <1>3
<1> HIDE DEF f
<1>6. g = [s \in SUBSET S |-> IF s = {} THEN 0 ELSE Discount[Item(s)] + g[s \ {Item(s)}]]
  BY <1>4, <1>5
<1> DEFINE h == CHOOSE r : r = [s \in SUBSET S |-> IF s = {} THEN 0
                                  ELSE Discount[Item(s)] + r[s \ {Item(s)}]]
<1>7. h = [s \in SUBSET S |-> IF s = {} THEN 0 ELSE Discount[Item(s)] + h[s \ {Item(s)}]]
  BY <1>6, Zenon
<1>8. Gain(S) = h[S]
  BY Zenon DEF Gain, MapThenSumSet, MapThenFoldSet, Item
<1> HIDE DEF h
<1>9. h = [s \in SUBSET S |-> IF s = {} THEN 0 ELSE f[Item(s)] + h[s \ {Item(s)}]]
  BY <1>5, <1>7
<1>10. Sums(h, f, S)
  BY <1>9, Zenon DEF Sums, Item
<1> QED BY <1>8, <1>10 DEF f

Precision(S, i) == (Cardinality(Upto(S, i)) * Scale) \div i

(* ... of average_precision_at_iou(), whose ranks these are, *)
LEMMA PrecisionAdds ==
  ASSUME NEW hits, NEW relevant, NEW thr, NEW S,
         S = truePositives(hits, relevant, thr), IsFiniteSet(S), S \in SUBSET (Nat \ {0}),
         \A i \in S : Precision(S, i) \in Int
  PROVE  \E g : Sums(g, [i \in S |-> Precision(S, i)], S)
             /\ average_precision_at_iou(hits, relevant, thr) = g[S]
<1> DEFINE f == [i \in S |-> Precision(S, i)]
           Item(s) == CHOOSE x \in s : TRUE
<1>1. f \in [S -> Int]
  OBVIOUS
<1>2. PICK g : Sums(g, f, S)
  <2> HIDE DEF f
  <2> QED BY <1>1, SumExists
<1>3. \A s \in SUBSET S : s # {} => Item(s) \in S
  OBVIOUS
<1>4. g = [s \in SUBSET S |-> IF s = {} THEN 0 ELSE f[Item(s)] + g[s \ {Item(s)}]]
  BY <1>2, Zenon DEF Sums
<1> HIDE DEF Item
<1>5. \A s \in SUBSET S : s # {} => f[Item(s)] = Precision(S, Item(s))
  BY <1>3
<1> HIDE DEF f
<1>6. g = [s \in SUBSET S |-> IF s = {} THEN 0 ELSE Precision(S, Item(s)) + g[s \ {Item(s)}]]
  BY <1>4, <1>5
<1> DEFINE h == CHOOSE r : r = [s \in SUBSET S |-> IF s = {} THEN 0
                                  ELSE Precision(S, Item(s)) + r[s \ {Item(s)}]]
<1>7. h = [s \in SUBSET S |-> IF s = {} THEN 0 ELSE Precision(S, Item(s)) + h[s \ {Item(s)}]]
  BY <1>6, Zenon
<1>8. average_precision_at_iou(hits, relevant, thr) = h[S]
  BY Zenon DEF average_precision_at_iou, Precision, MapThenSumSet, MapThenFoldSet, Item
<1> HIDE DEF h
<1>9. h = [s \in SUBSET S |-> IF s = {} THEN 0 ELSE f[Item(s)] + h[s \ {Item(s)}]]
  BY <1>5, <1>7
<1>10. Sums(h, f, S)
  BY <1>9, Zenon DEF Sums, Item
<1> QED BY <1>8, <1>10 DEF f

(* ... and of mean_ap(). *)
LEMMA MapAdds ==
  ASSUME NEW hits, NEW relevant, IsFiniteSet(Thresholds),
         \A t \in Thresholds : average_precision_at_iou(hits, relevant, t) \in Int
  PROVE  \E g : Sums(g, [t \in Thresholds |-> average_precision_at_iou(hits, relevant, t)],
                  Thresholds) /\ mean_ap(hits, relevant) = g[Thresholds]
<1> DEFINE f == [t \in Thresholds |-> average_precision_at_iou(hits, relevant, t)]
           Item(s) == CHOOSE x \in s : TRUE
<1>1. f \in [Thresholds -> Int]
  OBVIOUS
<1>2. PICK g : Sums(g, f, Thresholds)
  <2> HIDE DEF f
  <2> QED BY <1>1, SumExists
<1>3. \A s \in SUBSET Thresholds : s # {} => Item(s) \in Thresholds
  OBVIOUS
<1>4. g = [s \in SUBSET Thresholds |-> IF s = {} THEN 0 ELSE f[Item(s)] + g[s \ {Item(s)}]]
  BY <1>2, Zenon DEF Sums
<1> HIDE DEF Item
<1>5. \A s \in SUBSET Thresholds : s # {} => f[Item(s)] = average_precision_at_iou(hits, relevant, Item(s))
  BY <1>3
<1> HIDE DEF f
<1>6. g = [s \in SUBSET Thresholds |-> IF s = {} THEN 0
          ELSE average_precision_at_iou(hits, relevant, Item(s)) + g[s \ {Item(s)}]]
  BY <1>4, <1>5
<1> DEFINE h == CHOOSE r : r = [s \in SUBSET Thresholds |-> IF s = {} THEN 0
                                  ELSE average_precision_at_iou(hits, relevant, Item(s)) + r[s \ {Item(s)}]]
<1>7. h = [s \in SUBSET Thresholds |-> IF s = {} THEN 0
          ELSE average_precision_at_iou(hits, relevant, Item(s)) + h[s \ {Item(s)}]]
  BY <1>6, Zenon
<1>8. mean_ap(hits, relevant) = h[Thresholds]
  BY Zenon DEF mean_ap, MapThenSumSet, MapThenFoldSet, Item
<1> HIDE DEF h
<1>9. h = [s \in SUBSET Thresholds |-> IF s = {} THEN 0 ELSE f[Item(s)] + h[s \ {Item(s)}]]
  BY <1>5, <1>7
<1>10. Sums(h, f, Thresholds)
  BY <1>9, Zenon DEF Sums, Item
<1> QED BY <1>8, <1>10 DEF f

-----------------------------------------------------------------------------
(* A ranking and the true ranges it is judged by *)
Judged(hits, relevant) ==
  /\ Len(hits) \in Nat /\ Len(hits) <= HitLimit /\ DOMAIN hits = 1..Len(hits)
  /\ Len(relevant) \in Nat /\ DOMAIN relevant = 1..Len(relevant)
  /\ \A i \in 1..Len(hits) : Span(hits[i])
  /\ \A r \in 1..Len(relevant) : Span(relevant[r])

(* No more are found than there are. *)
LEMMA FoundAreFew ==
  ASSUME NEW n \in Nat, NEW count \in Nat, NEW left, Taking(left, count, n), NEW k \in Nat
  PROVE  /\ Cardinality(Upto(TakenAt(left, count), k)) \in Nat
         /\ Cardinality(Upto(TakenAt(left, count), k)) <= n
<1> DEFINE ranks == TakenAt(left, count)
<1>1. /\ ranks \in SUBSET (1..count)
      /\ \A i \in 0..count : /\ Cardinality(left[i]) \in Nat
                             /\ Cardinality(Upto(ranks, i)) + Cardinality(left[i]) = n
  BY TakenAndLeft
<1> HIDE DEF ranks
<1>2. PICK i \in 0..count : Upto(ranks, k) = Upto(ranks, i)
  <2>1. CASE k <= count
    BY <2>1
  <2>2. CASE ~ (k <= count)
    <3>1. \A r \in ranks : r <= k /\ r <= count
      BY <1>1, <2>2
    <3>2. Upto(ranks, k) = Upto(ranks, count) /\ count \in 0..count
      BY <3>1 DEF Upto
    <3> QED BY <3>2
  <2> QED BY <2>1, <2>2
<1>3. Cardinality(Upto(ranks, i)) \in Nat
  BY <1>1, CountSteps
<1>4. Cardinality(Upto(ranks, i)) <= n
  BY <1>1, <1>3
<1> QED BY <1>2, <1>3, <1>4 DEF ranks

LEMMA MinOfTwo ==
  ASSUME NEW x \in Nat, NEW y \in Nat
  PROVE  Min({x, y}) \in Nat /\ Min({x, y}) = (IF x <= y THEN x ELSE y)
<1>1. {x, y} \in SUBSET Nat /\ {x, y} # {}
  OBVIOUS
<1>2. Min({x, y}) \in {x, y} /\ \A z \in {x, y} : Min({x, y}) <= z
  BY <1>1, LeastIsMin
<1> QED BY <1>2

LEMMA DiscountFalls ==
  /\ \A i \in 1..10 : Discount[i] \in Nat
  /\ \A i, j \in 1..10 : i <= j => Discount[j] <= Discount[i]
<1>1. /\ \A i \in 1..10 : Discount[i] \in Nat
      /\ \A i \in 1..9 : Discount[i + 1] <= Discount[i]
  BY DEF Discount
<1>2. ASSUME NEW i \in 1..10, NEW j \in 1..10, i <= j PROVE Discount[j] <= Discount[i]
  BY <1>2 DEF Discount
<1> QED BY <1>1, <1>2

(* The gain of the hits is at most the ideal: the m-th that takes a range   *)
(* comes m-th or later.                                                     *)
LEMMA GainIsIdeal ==
  ASSUME NEW n \in Nat, NEW count \in Nat, NEW left, Taking(left, count, n), NEW k \in 1..10
  PROVE  dcg(TakenAt(left, count), k) <= ideal(n, k)
<1> DEFINE ranks == TakenAt(left, count)
           c == [i \in 0..count |-> Cardinality(Upto(ranks, i))]
           m == Min({n, k})
           S == Upto(ranks, k)
           T == 1..m
           j == [i \in S |-> c[i]]
           f == [i \in S |-> Discount[i]]
           e == [i \in T |-> Discount[i]]
<1>1. /\ ranks \in SUBSET (1..count)
      /\ \A i \in Nat : Cardinality(Upto(ranks, i)) <= n
  BY TakenAndLeft, FoundAreFew
<1>2. CountsUp(c, ranks, count)
  <2>1. Counted(c, ranks, count)
    BY DEF Counted
  <2> HIDE DEF c, ranks
  <2> QED BY <1>1, <2>1, CountIsBounded
<1>3. m \in Nat /\ m = (IF n <= k THEN n ELSE k) /\ m <= 10
  <2>1. k \in Nat
    OBVIOUS
  <2>2. m \in Nat /\ m = (IF n <= k THEN n ELSE k)
    BY <2>1, MinOfTwo
  <2> HIDE DEF m
  <2> QED BY <2>2
<1> HIDE DEF ranks, m
<1>4. S \in SUBSET ranks /\ S \in SUBSET (1..10) /\ IsFiniteSet(S)
      /\ \A i \in S : i \in 1..count /\ i <= k
  <2>1. k \in Nat /\ \A i \in ranks : i <= k => i \in 1..10 /\ i \in 1..count
    BY <1>1
  <2>2. S \in SUBSET ranks /\ IsFiniteSet(S)
    BY <1>1, <2>1, CountSteps
  <2>3. \A i \in S : i \in ranks /\ i <= k
    BY DEF Upto
  <2> HIDE DEF S
  <2> QED BY <2>1, <2>2, <2>3
<1>5. T \in SUBSET (1..10) /\ IsFiniteSet(T)
  <2>1. IsFiniteSet(T)
    BY <1>3, FS_Interval
  <2>2. T \in SUBSET (1..10)
    BY <1>3
  <2> QED BY <2>1, <2>2
<1>6. ASSUME NEW i \in S PROVE c[i] \in T /\ c[i] <= i
  <2>1. i \in 0..count /\ i \in ranks /\ i \in Nat /\ i <= k
    BY <1>4
  <2>2. c[i] \in Nat /\ c[i] <= i /\ c[i] # 0
    <3> HIDE DEF c
    <3> QED BY <1>2, <2>1 DEF CountsUp
  <2>3. c[i] <= n
    BY <1>1, <2>1
  <2> HIDE DEF c
  <2> QED BY <1>3, <2>1, <2>2, <2>3
<1>7. \A x, y \in S : x # y => c[x] # c[y]
  <2>1. \A x, y \in S : x \in ranks /\ y \in ranks /\ x \in Nat /\ y \in Nat
                        /\ x \in 0..count /\ y \in 0..count
    BY <1>4
  <2> HIDE DEF c, S
  <2>2. \A x \in S : c[x] \in Nat
    BY <1>2, <2>1 DEF CountsUp
  <2>3. \A x, y \in S : x < y => c[x] < c[y]
    BY <1>2, <2>1 DEF CountsUp
  <2> QED BY <2>1, <2>2, <2>3
<1>8. /\ j \in [S -> T] /\ \A x, y \in S : x # y => j[x] # j[y]
      /\ \A i \in S : j[i] = c[i]
  <2> HIDE DEF c, S, T
  <2> QED BY <1>6, <1>7
<1>9. /\ f \in [S -> Int] /\ e \in [T -> Nat]
      /\ \A i \in S : f[i] <= e[j[i]]
  <2>1. f \in [S -> Int] /\ e \in [T -> Nat]
    <3> HIDE DEF S, T
    <3> QED BY <1>4, <1>5, DiscountFalls
  <2>2. ASSUME NEW i \in S PROVE f[i] <= e[j[i]]
    <3>1. f[i] = Discount[i] /\ i \in 1..10
      BY <1>4
    <3> DEFINE p == c[i]
    <3>2. j[i] = p /\ p \in T /\ p \in 1..10 /\ p <= i
      <4> HIDE DEF S, T, c, j
      <4> QED BY <1>5, <1>6, <1>8, <2>2
    <3> HIDE DEF p, T, j
    <3>3. e[j[i]] = Discount[p]
      BY <3>2
    <3>4. Discount[i] <= Discount[p]
      BY <3>1, <3>2, DiscountFalls
    <3> HIDE DEF f, e
    <3> QED BY <3>1, <3>3, <3>4
  <2> QED BY <2>1, <2>2
<1> HIDE DEF S, T, j
<1>10. PICK g : Sums(g, f, S) /\ Gain(S) = g[S]
  BY <1>4, GainAdds
<1>11. PICK h : Sums(h, e, T) /\ Gain(T) = h[T]
  BY <1>5, GainAdds
<1> HIDE DEF f, e
<1>12. g[S] <= h[T]
  BY <1>4, <1>5, <1>8, <1>9, <1>10, <1>11, SumInjects
<1>13. dcg(ranks, k) = Gain(S) /\ ideal(n, k) = Gain(T)
  BY DEF dcg, ideal, S, T, m
<1> QED BY <1>10, <1>11, <1>12, <1>13 DEF ranks

-----------------------------------------------------------------------------
LEMMA ExactQuotient ==
  ASSUME NEW d \in Nat \ {0}, NEW q \in Nat
  PROVE  (d * q) \div d = q
<1> DEFINE x == d * q
           p == x \div d
           r == x % d
<1>1. x \in Nat /\ x = d * q
  OBVIOUS
<1> HIDE DEF x
<1>2. p \in Nat /\ r \in 0..(d - 1) /\ x = d * p + r
  BY <1>1, Divided
<1> HIDE DEF p, r
<1>3. d * p \in Nat /\ 0 \in 0..(d - 1) /\ d * q + 0 = d * p + r
  BY <1>1, <1>2
<1>4. p <= q
  BY <1>2, <1>3, QuotientGrows
<1>5. q <= p
  BY <1>2, <1>3, QuotientGrows
<1>6. p = q
  BY <1>2, <1>4, <1>5
<1> QED BY <1>6 DEF p, x

(* 1.0 is shared out evenly over a rank. *)
LEMMA SharesOfScale ==
  ASSUME NEW i \in 1..HitLimit
  PROVE  Scale \div i \in Nat /\ Scale \div i # 0 /\ Scale = i * (Scale \div i)
<1>1. Scale \in Nat \ {0} /\ HitLimit \in Nat \ {0} /\ Scale % i = 0
  BY MetricsConstants, EvaluationConstants
<1>2. i \in Nat \ {0}
  BY <1>1
<1> DEFINE p == Scale \div i
<1>3. p \in Nat /\ Scale = i * p + (Scale % i)
  BY <1>1, <1>2, Divided
<1> HIDE DEF p
<1>4. i * p \in Nat
  BY <1>2, <1>3
<1>5. Scale = i * p
  BY <1>1, <1>3, <1>4
<1>6. p # 0
  BY <1>1, <1>2, <1>5
<1> QED BY <1>3, <1>5, <1>6 DEF p

(* Whether there is a hit among the first k can be told from mrr. *)
LEMMA HitIsMrr ==
  ASSUME NEW ranks \in SUBSET (1..HitLimit), NEW k \in Nat \ {0}
  PROVE  hit_at(ranks, k) = (mrr(ranks) >= Scale \div k /\ ranks # {})
<1>1. HitLimit \in Nat \ {0} /\ Scale \in Nat \ {0}
  BY MetricsConstants, EvaluationConstants
<1>2. CASE ranks = {}
  <2>1. Upto(ranks, k) = {}
    BY <1>2 DEF Upto
  <2> QED BY <1>2, <2>1 DEF hit_at
<1>3. CASE ranks # {}
  <2> DEFINE m == Min(ranks)
  <2>1. m \in ranks /\ \A i \in ranks : m <= i
    BY <1>1, <1>3, LeastIsMin
  <2>2. mrr(ranks) = Scale \div m
    BY <1>3 DEF mrr
  <2> HIDE DEF m
  <2>3. m \in Nat \ {0} /\ m \in 1..HitLimit
    BY <1>1, <2>1
  <2>4. hit_at(ranks, k) <=> m <= k
    <3>1. \A i \in ranks : i \in Nat
      BY <1>1
    <3>2. m \in Upto(ranks, k) <=> m <= k
      BY <2>1 DEF Upto
    <3>3. \A i \in Upto(ranks, k) : i \in ranks /\ i <= k
      BY DEF Upto
    <3>4. ASSUME NEW i \in Upto(ranks, k) PROVE m <= k
      <4>1. i \in ranks /\ i \in Nat /\ i <= k /\ m <= i
        BY <2>1, <3>1, <3>3
      <4> QED BY <2>3, <4>1
    <3> QED BY <3>2, <3>4 DEF hit_at
  <2> DEFINE a == Scale \div m
             b == Scale \div k
  <2>5. a \in Nat /\ b \in Nat
    BY <1>1, <2>3, QuotientFalls
  <2>6. ASSUME m <= k PROVE a >= b
    <3>1. b <= a
      BY <1>1, <2>3, <2>6, QuotientFalls
    <3> HIDE DEF a, b
    <3> QED BY <2>5, <3>1
  <2>7. ASSUME k < m PROVE ~ (a >= b)
    <3>1. k \in 1..HitLimit
      BY <1>1, <2>3, <2>7
    <3>2. b # 0 /\ Scale = k * b /\ Scale = m * a
      BY <2>3, <3>1, SharesOfScale
    <3> HIDE DEF a, b
    <3> SUFFICES ASSUME b <= a PROVE FALSE
      BY <2>5
    <3>3. m * b \in Nat /\ m * b <= m * a
      BY <2>3, <2>5, ProductGrows
    <3>4. k + 1 <= m /\ k + 1 \in Nat
      BY <2>3, <2>7
    <3>5. b * (k + 1) \in Nat /\ b * (k + 1) <= b * m /\ m * b = b * m
      BY <2>3, <2>5, <3>4, ProductGrows
    <3>6. b * (k + 1) = k * b + b /\ k * b \in Nat
      BY <2>5
    <3> QED BY <1>1, <2>5, <3>2, <3>3, <3>5, <3>6
  <2> HIDE DEF a, b
  <2>8. m <= k <=> a >= b
    BY <2>3, <2>6, <2>7
  <2>9. hit_at(ranks, k) <=> (mrr(ranks) >= Scale \div k /\ ranks # {})
    BY <1>3, <2>2, <2>4, <2>8 DEF a, b
  <2>10. hit_at(ranks, k) \in BOOLEAN
    BY DEF hit_at
  <2> QED BY <2>9, <2>10
<1> QED BY <1>2, <1>3

(* The precision at a rank is between nothing and 1.0. *)
LEMMA PrecisionIsShare ==
  ASSUME NEW count \in Nat, count <= HitLimit, NEW ranks \in SUBSET (1..count), NEW i \in ranks
  PROVE  Precision(ranks, i) \in Nat /\ 1 <= Precision(ranks, i) /\ Precision(ranks, i) <= Scale
<1> DEFINE c == [j \in 0..count |-> Cardinality(Upto(ranks, j))]
           m == Cardinality(Upto(ranks, i))
<1>1. HitLimit \in Nat \ {0} /\ Scale \in Nat \ {0}
  BY MetricsConstants, EvaluationConstants
<1>2. CountsUp(c, ranks, count)
  <2>1. Counted(c, ranks, count)
    BY DEF Counted
  <2> HIDE DEF c
  <2> QED BY <2>1, CountIsBounded
<1>3. i \in Nat \ {0} /\ i \in 0..count /\ i \in 1..HitLimit
  <2>1. i \in 1..count
    OBVIOUS
  <2> QED BY <1>1, <2>1
<1>4. m \in Nat /\ m # 0 /\ m <= i
  <2>1. c[i] = m
    BY <1>3
  <2> HIDE DEF c, m
  <2>2. c[i] \in Nat /\ c[i] <= i /\ c[i] # 0
    BY <1>2, <1>3 DEF CountsUp
  <2> QED BY <2>1, <2>2
<1>5. Precision(ranks, i) = (m * Scale) \div i
  BY DEF Precision
<1> HIDE DEF m, c
<1>6. Scale * m <= Scale * i /\ m * Scale = Scale * m /\ i * Scale = Scale * i
      /\ Scale * m \in Nat /\ Scale * i \in Nat
  BY <1>1, <1>3, <1>4, ProductGrows
<1>7. Scale <= m * Scale
  <2>1. Scale * 1 <= Scale * m
    BY <1>1, <1>4, ProductGrows
  <2> QED BY <1>1, <1>6, <2>1
<1> DEFINE x == m * Scale
           y == i * Scale
<1>8. x \in Nat /\ y \in Nat /\ Scale <= x /\ x <= y /\ y \div i = Scale
  <2>1. y \div i = Scale
    BY <1>1, <1>3, ExactQuotient
  <2> HIDE DEF y
  <2>2. y = i * Scale
    BY DEF y
  <2> QED BY <1>6, <1>7, <2>1, <2>2
<1> HIDE DEF x, y
<1>9. x \div i \in Nat /\ x \div i <= Scale
  <2>1. x \div i \in Nat /\ x \div i <= y \div i
    BY <1>3, <1>8, DividedGrows
  <2> QED BY <1>8, <2>1
<1>10. 1 <= x \div i
  <2>1. Scale \div i <= x \div i
    BY <1>1, <1>3, <1>8, DividedGrows
  <2>2. Scale \div i \in Nat /\ Scale \div i # 0
    BY <1>3, SharesOfScale
  <2> DEFINE p == Scale \div i
             q == x \div i
  <2>3. p \in Nat /\ p # 0 /\ q \in Nat /\ p <= q
    BY <1>9, <2>1, <2>2
  <2> HIDE DEF p, q
  <2>4. 1 <= q
    BY <2>3
  <2> QED BY <2>4 DEF q
<1> QED BY <1>5, <1>9, <1>10 DEF x

-----------------------------------------------------------------------------
(* Average precision is at most 1.0 for each true range, and is something   *)
(* if any hit takes one.                                                    *)
LEMMA AverageIsShare ==
  ASSUME NEW hits, NEW relevant, NEW thr, NEW n \in Nat, NEW count \in Nat, count <= HitLimit,
         NEW left, Taking(left, count, n),
         truePositives(hits, relevant, thr) = TakenAt(left, count)
  PROVE  /\ average_precision_at_iou(hits, relevant, thr) \in Nat
         /\ average_precision_at_iou(hits, relevant, thr) <= Scale * n
         /\ average_precision_at_iou(hits, relevant, thr) > 0 <=> TakenAt(left, count) # {}
<1> DEFINE ranks == TakenAt(left, count)
           f == [i \in ranks |-> Precision(ranks, i)]
           size == Cardinality(ranks)
           ap == average_precision_at_iou(hits, relevant, thr)
<1>1. /\ ranks \in SUBSET (1..count) /\ IsFiniteSet(ranks) /\ size \in Nat /\ size <= n
      /\ size = 0 <=> ranks = {}
  <2>1. ranks \in SUBSET (1..count) /\ IsFiniteSet(ranks)
    BY TakenAndLeft, CountSteps
  <2> HIDE DEF ranks
  <2>2. Upto(ranks, count) = ranks
    <3>1. \A i \in ranks : i <= count
      BY <2>1
    <3> QED BY <3>1 DEF Upto
  <2>3. Cardinality(Upto(ranks, count)) \in Nat /\ Cardinality(Upto(ranks, count)) <= n
    BY FoundAreFew DEF ranks
  <2>4. size = 0 <=> ranks = {}
    BY <2>1, FS_EmptySet
  <2> QED BY <2>1, <2>2, <2>3, <2>4
<1>2. \A i \in ranks : /\ Precision(ranks, i) \in Int /\ 1 <= Precision(ranks, i)
                       /\ Precision(ranks, i) <= Scale
  <2> HIDE DEF ranks
  <2> QED BY <1>1, PrecisionIsShare
<1>3. ranks = truePositives(hits, relevant, thr)
  OBVIOUS
<1> HIDE DEF ranks
<1>4. ranks \in SUBSET (Nat \ {0})
  BY <1>1
<1>5. PICK g : Sums(g, f, ranks) /\ ap = g[ranks]
  BY <1>1, <1>2, <1>3, <1>4, PrecisionAdds
<1>6. f \in [ranks -> Int] /\ \A i \in ranks : 1 <= f[i] /\ f[i] <= Scale
  BY <1>2
<1> HIDE DEF f, ap, size
<1>7. Scale \in Nat
  BY MetricsConstants
<1>8. ap \in Int /\ 1 * size <= ap /\ ap <= Scale * size
  <2>1. 1 \in Int /\ Scale \in Int
    BY <1>7
  <2>2. /\ g[ranks] \in Int
        /\ 1 * Cardinality(ranks) <= g[ranks] /\ g[ranks] <= Scale * Cardinality(ranks)
    BY <1>1, <1>5, <1>6, <2>1, SumBounds
  <2> QED BY <1>5, <2>2 DEF size
<1>9. Scale * size <= Scale * n /\ Scale * size \in Nat /\ Scale * n \in Nat
  BY <1>1, <1>7, ProductGrows
<1>10. size = 0 => ap <= 0
  <2>1. size = 0 => Scale * size = 0
    BY <1>7
  <2> QED BY <1>8, <2>1
<1>11. ap \in Nat /\ ap <= Scale * n /\ (ap > 0 <=> ranks # {})
  <2> DEFINE x == Scale * size
             y == Scale * n
  <2>1. /\ x \in Nat /\ y \in Nat /\ x <= y /\ ap <= x /\ ap \in Int /\ size <= ap
        /\ size = 0 => ap <= 0
    BY <1>1, <1>8, <1>9, <1>10
  <2> HIDE DEF x, y
  <2>2. ap \in Nat /\ ap <= y /\ (ap > 0 <=> size # 0)
    BY <1>1, <2>1
  <2> QED BY <1>1, <2>2 DEF y
<1> QED BY <1>11 DEF ap, ranks

(* If there are always as many ranges left or more, it is as much or less:  *)
(* the m-th that takes one comes not sooner.                                *)
LEMMA AverageFalls ==
  ASSUME NEW hits, NEW relevant, NEW lo, NEW hi, NEW n \in Nat, NEW count \in Nat,
         count <= HitLimit,
         NEW left, Taking(left, count, n), truePositives(hits, relevant, lo) = TakenAt(left, count),
         NEW more, Taking(more, count, n), truePositives(hits, relevant, hi) = TakenAt(more, count),
         \A i \in 0..count : left[i] \in SUBSET more[i]
  PROVE  average_precision_at_iou(hits, relevant, hi)
           <= average_precision_at_iou(hits, relevant, lo)
<1> DEFINE T == TakenAt(left, count)
           S == TakenAt(more, count)
           c == [i \in 0..count |-> Cardinality(Upto(T, i))]
           d == [i \in 0..count |-> Cardinality(Upto(S, i))]
           e == [i \in T |-> Precision(T, i)]
           f == [i \in S |-> Precision(S, i)]
           j == [i \in S |-> CHOOSE k \in T : k <= i /\ c[k] = d[i]]
<1>1. /\ T \in SUBSET (1..count) /\ S \in SUBSET (1..count)
      /\ IsFiniteSet(T) /\ IsFiniteSet(S)
      /\ T \in SUBSET (Nat \ {0}) /\ S \in SUBSET (Nat \ {0})
  <2>1. T \in SUBSET (1..count) /\ S \in SUBSET (1..count)
    BY TakenAndLeft
  <2> HIDE DEF T, S
  <2>2. IsFiniteSet(T) /\ IsFiniteSet(S)
    BY <2>1, CountSteps
  <2> QED BY <2>1, <2>2
<1>2. Counted(c, T, count) /\ Counted(d, S, count)
  BY DEF Counted
<1>3. \A i \in 0..count : d[i] <= c[i]
  <2> SUFFICES ASSUME NEW i \in 0..count PROVE d[i] <= c[i]
    OBVIOUS
  <2> DEFINE l == Cardinality(left[i])
             m == Cardinality(more[i])
  <2>1. c[i] + l = n /\ l \in Nat /\ d[i] + m = n /\ m \in Nat
    BY TakenAndLeft
  <2>2. c[i] \in Nat /\ d[i] \in Nat
    <3>1. i \in Nat
      OBVIOUS
    <3> HIDE DEF S, T
    <3> QED BY <1>1, <3>1, CountSteps
  <2>3. l <= m
    <3>1. left[i] \in SUBSET more[i] /\ more[i] \in SUBSET (1..n)
      BY DEF Taking
    <3>2. IsFiniteSet(1..n)
      BY FS_Interval
    <3>3. IsFiniteSet(more[i])
      BY <3>1, <3>2, FS_Subset
    <3> QED BY <3>1, <3>3, FS_Subset
  <2> HIDE DEF c, d, l, m
  <2> QED BY <2>1, <2>2, <2>3
<1>4. S = truePositives(hits, relevant, hi) /\ T = truePositives(hits, relevant, lo)
  OBVIOUS
<1> HIDE DEF T, S
<1>5. CountsUp(c, T, count) /\ CountsUp(d, S, count)
  <2> HIDE DEF c, d
  <2> QED BY <1>1, <1>2, CountIsBounded
<1>6. ASSUME NEW i \in S PROVE j[i] \in T /\ j[i] <= i /\ c[j[i]] = d[i]
  <2>1. \E k \in T : k <= i /\ c[k] = d[i]
    <3>1. T \in SUBSET (1..count) /\ S \in SUBSET (1..count)
      BY <1>1
    <3> HIDE DEF c, d, e, f, j
    <3> QED BY <3>1, <1>2, <1>3, <1>6, SameCount
  <2> HIDE DEF c, d
  <2> QED BY <2>1
<1>7. \A x, y \in S : x # y => j[x] # j[y]
  <2>1. \A x, y \in S : x < y => d[x] < d[y]
    <3> HIDE DEF c, d, j
    <3> QED BY <1>5 DEF CountsUp
  <2>2. \A x \in S : d[x] \in Nat /\ x \in Nat
    <3> HIDE DEF c, d, e, f, j
    <3>1. ASSUME NEW x \in S PROVE x \in Nat /\ x \in 0..count
      <4>1. x \in 1..count
        BY <1>1
      <4> QED BY <4>1
    <3> QED BY <1>5, <3>1 DEF CountsUp
  <2> HIDE DEF c, d, j
  <2>3. \A x, y \in S : x # y => d[x] # d[y]
    BY <2>1, <2>2
  <2> QED BY <1>6, <2>3
<1>8. /\ \A i \in T : Precision(T, i) \in Nat
      /\ \A i \in S : Precision(S, i) \in Nat
  BY <1>1, PrecisionIsShare
<1>9. e \in [T -> Nat] /\ f \in [S -> Int]
  BY <1>8
<1>10. ASSUME NEW i \in S PROVE f[i] <= e[j[i]]
  <2> DEFINE k == j[i]
             m == Cardinality(Upto(S, i))
             x == m * Scale
  <2>1. k \in T /\ k <= i /\ c[k] = d[i]
    BY <1>6
  <2> HIDE DEF k
  <2>2. k \in Nat \ {0} /\ i \in Nat \ {0} /\ k \in 0..count /\ i \in 0..count
    BY <1>1, <2>1
  <2>3. Cardinality(Upto(T, k)) = m /\ m \in Nat
    <3>1. c[k] = Cardinality(Upto(T, k)) /\ d[i] = m
      BY <2>2
    <3>2. m \in Nat
      BY <1>1, <2>2, CountSteps
    <3> HIDE DEF c, d, m
    <3> QED BY <2>1, <3>1, <3>2
  <2>4. f[i] = x \div i
    BY DEF Precision
  <2>5. e[k] = x \div k
    <3> HIDE DEF m
    <3>1. e[k] = (Cardinality(Upto(T, k)) * Scale) \div k
      BY <2>1 DEF Precision
    <3> QED BY <2>3, <3>1
  <2>6. x \in Nat
    <3> HIDE DEF m
    <3> QED BY <2>3, MetricsConstants
  <2> HIDE DEF x, e, f
  <2>7. x \div i <= x \div k
    BY <2>1, <2>2, <2>6, QuotientFalls
  <2> QED BY <2>4, <2>5, <2>7 DEF k
<1> DEFINE a == average_precision_at_iou(hits, relevant, hi)
           b == average_precision_at_iou(hits, relevant, lo)
<1>11. PICK g : Sums(g, f, S) /\ a = g[S]
  BY <1>1, <1>4, <1>8, PrecisionAdds
<1>12. PICK h : Sums(h, e, T) /\ b = h[T]
  BY <1>1, <1>4, <1>8, PrecisionAdds
<1>13. j \in [S -> T]
  <2> HIDE DEF c, d
  <2>1. \A i \in S : j[i] \in T
    BY <1>6
  <2> QED BY <2>1
<1> HIDE DEF c, d, e, f, j, a, b
<1>14. g[S] <= h[T]
  BY <1>1, <1>7, <1>9, <1>10, <1>11, <1>12, <1>13, SumInjects, Zenon
<1> QED BY <1>11, <1>12, <1>14 DEF a, b

-----------------------------------------------------------------------------
(* What is not below something is above what that is above, and as good as  *)
(* it: from a/b > c/d and a/b <= e/f follow c/d < e/f and, of a threshold,  *)
(* that e/f reaches what a/b does.                                          *)
LEMMA NotBelow ==
  ASSUME NEW x \in Fraction, NEW z \in Fraction, ~ Above(x, z)
  PROVE  /\ \A y \in Fraction : Above(x, y) => Above(z, y)
         /\ \A thr \in Nat : AtLeast(x, thr) => AtLeast(z, thr)
<1> DEFINE a == x.inter
           b == x.union
           e == z.inter
           f == z.union
<1>1. a \in Nat /\ b \in Nat \ {0} /\ e \in Nat /\ f \in Nat \ {0}
  BY DEF Fraction
<1>2. a * f <= e * b
  <2>1. ~ (a * f > e * b)
    BY DEF Above
  <2> HIDE DEF a, b, e, f
  <2>2. a * f \in Nat /\ e * b \in Nat
    BY <1>1
  <2> QED BY <2>1, <2>2
<1>3. ASSUME NEW y \in Fraction, Above(x, y) PROVE Above(z, y)
  <2> DEFINE c == y.inter
             d == y.union
  <2>1. c \in Nat /\ d \in Nat \ {0}
    BY DEF Fraction
  <2>2. a * d > c * b
    BY <1>3 DEF Above
  <2> HIDE DEF a, b, c, d, e, f
  <2>3. e * d > c * f
    <3> DEFINE l == e * d
               r == c * f
               p == a * d
               q == c * b
               u == a * f
               w == e * b
    <3>1. /\ l \in Nat /\ r \in Nat /\ p \in Nat /\ q \in Nat /\ u \in Nat /\ w \in Nat
          /\ p > q /\ u <= w
      BY <1>1, <1>2, <2>1, <2>2
    <3>2. p * f = u * d /\ w * d = l * b /\ q * f = r * b
      BY <1>1, <2>1
    <3> HIDE DEF l, r, p, q, u, w
    <3>3. p * f > q * f
      BY <1>1, <3>1
    <3>4. u * d <= w * d
      BY <2>1, <3>1
    <3>5. l * b > r * b
      <4> DEFINE k1 == p * f
                 k2 == q * f
                 k3 == w * d
      <4>1. k1 \in Nat /\ k2 \in Nat /\ k3 \in Nat /\ k1 > k2 /\ k1 <= k3
        BY <1>1, <2>1, <3>1, <3>2, <3>3, <3>4
      <4>2. k3 = l * b /\ k2 = r * b
        BY <3>2
      <4> HIDE DEF k1, k2, k3
      <4>3. k3 > k2
        BY <4>1
      <4> QED BY <4>2, <4>3
    <3>6. ASSUME l <= r PROVE FALSE
      <4>1. b * l <= b * r /\ l * b = b * l /\ r * b = b * r /\ b * l \in Nat /\ b * r \in Nat
        BY <1>1, <3>1, <3>6, ProductGrows
      <4> QED BY <3>5, <4>1
    <3>7. l > r
      BY <3>1, <3>6
    <3> QED BY <3>7 DEF l, r
  <2> QED BY <2>3 DEF Above, c, d, e, f
<1>4. ASSUME NEW thr \in Nat, AtLeast(x, thr) PROVE AtLeast(z, thr)
  <2>1. 100 * a >= thr * b
    BY <1>4 DEF AtLeast
  <2> HIDE DEF a, b, e, f
  <2>2. 100 * e >= thr * f
    <3> DEFINE l == 100 * e
               r == thr * f
               p == 100 * a
               q == thr * b
               u == a * f
               w == e * b
    <3>1. /\ l \in Nat /\ r \in Nat /\ p \in Nat /\ q \in Nat /\ u \in Nat /\ w \in Nat
          /\ q <= p /\ u <= w
      BY <1>1, <1>2, <2>1
    <3>2. f * p = 100 * u /\ 100 * w = b * l /\ f * q = b * r
      BY <1>1
    <3> HIDE DEF l, r, p, q, u, w
    <3>3. f * q <= f * p /\ f * q \in Nat /\ f * p \in Nat
      BY <1>1, <3>1, ProductGrows
    <3>4. 100 * u <= 100 * w
      BY <3>1
    <3>5. b * r <= b * l
      BY <3>1, <3>2, <3>3, <3>4
    <3>6. ASSUME l < r PROVE FALSE
      <4>1. l + 1 <= r /\ l + 1 \in Nat
        BY <3>1, <3>6
      <4>2. b * (l + 1) <= b * r /\ b * r \in Nat
        BY <1>1, <3>1, <4>1, ProductGrows
      <4>3. b * (l + 1) = b * l + b /\ b * l \in Nat
        BY <1>1, <3>1
      <4> QED BY <1>1, <3>5, <4>2, <4>3
    <3>7. l >= r
      BY <3>1, <3>6
    <3> QED BY <3>7 DEF l, r
  <2> QED BY <2>2 DEF AtLeast, e, f
<1> QED BY <1>3, <1>4

(* If one of the ranges is good enough, one is taken. *)
LEMMA BestIsThere ==
  ASSUME NEW hit, NEW relevant, NEW n \in Nat, Span(hit), \A r \in 1..n : Span(relevant[r]),
         NEW thr \in Nat, NEW any \in 1..n, AtLeast(iou(hit, relevant[any]), thr)
  PROVE  BestOverlap(hit, relevant, thr, 1..n) # {}
<1> DEFINE left == 1..n
           quality == [x \in left |-> iou(hit, relevant[x])]
           R == {p \in left \X left : Above(quality[p[2]], quality[p[1]])}
           B == {r \in left : \A o \in left : ~ Above(quality[o], quality[r])}
<1>1. quality \in [left -> Fraction]
  BY IouIsFraction
<1>2. IsFiniteSet(left) /\ left # {} /\ left \in SUBSET Nat
  <2>1. IsFiniteSet(left)
    BY FS_Interval
  <2> QED BY <2>1
<1> HIDE DEF quality
<1>3. \A o, r \in left : <<r, o>> \in R <=> Above(quality[o], quality[r])
  OBVIOUS
<1>4. PICK m \in left : \A o \in left : <<m, o>> \notin R
  <2>1. /\ \A r \in left : <<r, r>> \notin R
        /\ \A r, o, u \in left : <<r, o>> \in R /\ <<o, u>> \in R => <<r, u>> \in R
    <3> HIDE DEF R, left
    <3> QED BY <1>1, <1>3, AboveIsAnOrder
  <2> HIDE DEF R, left
  <2> QED BY <1>2, <2>1, MaximalElement
<1>5. m \in B
  BY <1>3, <1>4
<1> DEFINE b == Min(B)
<1>6. b \in B /\ \A o \in B : b <= o
  <2>1. B \in SUBSET Nat /\ B # {}
    BY <1>5
  <2> HIDE DEF B
  <2> QED BY <2>1, LeastIsMin
<1> HIDE DEF b
<1>7. b \in left /\ \A o \in left : ~ Above(quality[o], quality[b])
  BY <1>6
<1>8. ASSUME NEW o \in left, o < b PROVE Above(quality[b], quality[o])
  <2>1. o \notin B
    <3>1. o \in Nat /\ b \in Nat
      BY <1>7
    <3> HIDE DEF B
    <3> QED BY <1>6, <1>8, <3>1
  <2>2. PICK u \in left : Above(quality[u], quality[o])
    BY <2>1
  <2>3. ~ Above(quality[u], quality[b])
    BY <1>7
  <2>4. quality[u] \in Fraction /\ quality[b] \in Fraction /\ quality[o] \in Fraction
    <3> HIDE DEF left
    <3> QED BY <1>1, <1>7
  <2> QED BY <2>2, <2>3, <2>4, NotBelow
<1>9. Best(quality, left, b)
  BY <1>7, <1>8 DEF Best
<1>10. AtLeast(quality[b], thr)
  <2>1. AtLeast(quality[any], thr)
    BY DEF quality
  <2>2. ~ Above(quality[any], quality[b])
    BY <1>7
  <2>3. quality[any] \in Fraction /\ quality[b] \in Fraction
    BY <1>1, <1>7
  <2> QED BY <2>1, <2>2, <2>3, NotBelow
<1>11. b \in BestOverlap(hit, relevant, thr, left)
  <2>1. quality[b] = iou(hit, relevant[b])
    BY <1>7 DEF quality
  <2> HIDE DEF left
  <2> QED BY <1>7, <1>9, <1>10, <2>1, BestMeans DEF quality
<1> QED BY <1>11

(* What is taken of more ranges, because it overlaps enough, is taken of    *)
(* fewer as well if it is one of them.                                      *)
LEMMA BestStays ==
  ASSUME NEW hit, NEW relevant, NEW lo \in Nat, NEW hi \in Nat, lo <= hi,
         NEW more, NEW left \in SUBSET more, NEW r \in left,
         iou(hit, relevant[r]) \in Fraction, r \in BestOverlap(hit, relevant, hi, more)
  PROVE  r \in BestOverlap(hit, relevant, lo, left)
<1> DEFINE x == iou(hit, relevant[r])
           all == [o \in more |-> iou(hit, relevant[o])]
           some == [o \in left |-> iou(hit, relevant[o])]
<1>1. Best(all, more, r) /\ AtLeast(x, hi)
  BY BestMeans
<1>2. \A o \in left : o \in more /\ all[o] = some[o]
  OBVIOUS
<1>3. Best(some, left, r)
  <2> HIDE DEF all, some
  <2> QED BY <1>1, <1>2 DEF Best
<1>4. AtLeast(x, lo)
  <2> DEFINE a == x.inter
             b == x.union
  <2>1. a \in Nat /\ b \in Nat /\ 100 * a >= hi * b
    BY <1>1 DEF Fraction, AtLeast
  <2> HIDE DEF a, b, x
  <2>2. b * lo <= b * hi /\ b * lo = lo * b /\ b * hi = hi * b /\ b * lo \in Nat /\ b * hi \in Nat
    BY <2>1, ProductGrows
  <2>3. 100 * a >= lo * b
    BY <2>1, <2>2
  <2> QED BY <2>3 DEF a, b, AtLeast
<1> QED BY <1>3, <1>4, BestMeans

(* A higher threshold leaves as many ranges or more. *)
LEMMA MoreIsLeft ==
  ASSUME NEW hits, NEW relevant, NEW lo \in Nat, NEW hi \in Nat, lo <= hi,
         Judged(hits, relevant), NEW left, BestTaken(left, hits, relevant, lo),
         NEW more, BestTaken(more, hits, relevant, hi)
  PROVE  \A i \in 0..Len(hits) : left[i] \in SUBSET more[i]
<1> DEFINE count == Len(hits)
           n == Len(relevant)
           Good == {i \in 0..count : left[i] \in SUBSET more[i]}
<1>0. /\ count \in Nat /\ n \in Nat
      /\ \A i \in 1..count : Span(hits[i])
      /\ \A r \in 1..n : Span(relevant[r])
      /\ Taking(left, count, n) /\ Taking(more, count, n)
      /\ \A i \in 1..count :
           left[i] = left[i - 1] \ BestOverlap(hits[i], relevant, lo, left[i - 1])
      /\ \A i \in 1..count :
           more[i] = more[i - 1] \ BestOverlap(hits[i], relevant, hi, more[i - 1])
  BY DEF Judged, BestTaken
<1> HIDE DEF count, n
<1>1. 0 \in Good
  BY <1>0 DEF Taking
<1>2. ASSUME NEW i \in 1..count, i - 1 \in Good PROVE i \in Good
  <2>1. left[i - 1] \in SUBSET more[i - 1] /\ left[i - 1] \in SUBSET (1..n) /\ i \in 0..count
    BY <1>0, <1>2 DEF Taking
  <2>2. ASSUME NEW r \in left[i - 1], r \in BestOverlap(hits[i], relevant, hi, more[i - 1])
        PROVE  r \in BestOverlap(hits[i], relevant, lo, left[i - 1])
    <3>1. iou(hits[i], relevant[r]) \in Fraction
      BY <1>0, <2>1, IouIsFraction
    <3> HIDE DEF Good
    <3> QED BY <2>1, <2>2, <3>1, BestStays
  <2>3. left[i] \in SUBSET more[i]
    BY <1>0, <2>1, <2>2
  <2> QED BY <2>1, <2>3
<1>3. \A i \in 0..count : i \in Good
  <2> HIDE DEF Good
  <2> QED BY <1>0, <1>1, <1>2, StepByStep
<1> QED BY <1>3 DEF count

(* So average precision is less or equal at a higher threshold ... *)
LEMMA AverageFallsWithIou ==
  ASSUME NEW hits, NEW relevant, Judged(hits, relevant),
         NEW lo \in Nat, NEW hi \in Nat, lo <= hi
  PROVE  average_precision_at_iou(hits, relevant, hi)
           <= average_precision_at_iou(hits, relevant, lo)
<1> DEFINE count == Len(hits)
           n == Len(relevant)
<1>1. count \in Nat /\ n \in Nat /\ count <= HitLimit
  BY DEF Judged
<1>2. PICK left : BestTaken(left, hits, relevant, lo)
  BY <1>1, PositivesTake
<1>3. PICK more : BestTaken(more, hits, relevant, hi)
  BY <1>1, PositivesTake
<1>4. \A i \in 0..count : left[i] \in SUBSET more[i]
  BY <1>2, <1>3, MoreIsLeft
<1>5. /\ Taking(left, count, n) /\ truePositives(hits, relevant, lo) = TakenAt(left, count)
      /\ Taking(more, count, n) /\ truePositives(hits, relevant, hi) = TakenAt(more, count)
  BY <1>2, <1>3 DEF BestTaken
<1> HIDE DEF count, n
<1> QED BY <1>1, <1>4, <1>5, AverageFalls

(* ... and something exactly if any hit overlaps any range enough. *)
LEMMA ScoredIfFound ==
  ASSUME NEW hits, NEW relevant, Judged(hits, relevant), NEW thr \in Nat
  PROVE  /\ average_precision_at_iou(hits, relevant, thr) \in Nat
         /\ average_precision_at_iou(hits, relevant, thr) <= Scale * Len(relevant)
         /\ average_precision_at_iou(hits, relevant, thr) > 0
              <=> recall_at_iou(hits, relevant, HitLimit, thr)
<1> DEFINE count == Len(hits)
           n == Len(relevant)
           Near(i, r) == AtLeast(iou(hits[i], relevant[r]), thr)
<1>1. /\ count \in Nat /\ n \in Nat /\ count <= HitLimit
      /\ DOMAIN hits = 1..count /\ DOMAIN relevant = 1..n
      /\ \A i \in 1..count : Span(hits[i])
      /\ \A r \in 1..n : Span(relevant[r])
  BY DEF Judged
<1>2. PICK left : /\ Taking(left, count, n)
                  /\ truePositives(hits, relevant, thr) = TakenAt(left, count)
                  /\ \A i \in 1..count :
                       left[i] = left[i - 1] \ BestOverlap(hits[i], relevant, thr, left[i - 1])
  <2>1. \E left : BestTaken(left, hits, relevant, thr)
    BY <1>1, PositivesTake
  <2> QED BY <2>1 DEF BestTaken
<1>3. recall_at_iou(hits, relevant, HitLimit, thr) <=> \E i \in 1..count, r \in 1..n : Near(i, r)
  <2>1. Upto(DOMAIN hits, HitLimit) = 1..count
    <3>1. HitLimit \in Nat
      BY EvaluationConstants
    <3> HIDE DEF count
    <3>2. \A i \in 1..count : i <= HitLimit
      BY <1>1, <3>1
    <3> QED BY <1>1, <3>2 DEF Upto
  <2> HIDE DEF count, n
  <2> QED BY <1>1, <2>1 DEF recall_at_iou
<1> HIDE DEF count, n
<1>4. ASSUME NEW i \in TakenAt(left, count) PROVE \E j \in 1..count, r \in 1..n : Near(j, r)
  <2>1. i \in 1..count /\ left[i] # left[i - 1] /\ i - 1 \in 0..count
    BY <1>1 DEF TakenAt
  <2>2. PICK r \in left[i - 1] : r \in BestOverlap(hits[i], relevant, thr, left[i - 1])
    BY <1>2, <2>1
  <2>3. r \in 1..n
    BY <1>2, <2>1 DEF Taking
  <2>4. Near(i, r)
    BY <2>2, BestMeans
  <2> QED BY <2>1, <2>3, <2>4
<1>5. ASSUME TakenAt(left, count) = {}, NEW i \in 1..count, NEW r \in 1..n, Near(i, r)
      PROVE  FALSE
  <2> DEFINE Good == {j \in 0..count : left[j] = 1..n}
  <2>1. 0 \in Good
    BY <1>1, <1>2 DEF Taking
  <2>2. ASSUME NEW j \in 1..count PROVE left[j] = left[j - 1]
    BY <1>5 DEF TakenAt
  <2>3. ASSUME NEW j \in 1..count, j - 1 \in Good PROVE j \in Good
    <3>1. left[j] = left[j - 1] /\ left[j - 1] = 1..n /\ j \in 0..count
      BY <1>1, <2>2, <2>3
    <3> QED BY <3>1
  <2>4. \A j \in 0..count : j \in Good
    <3> HIDE DEF Good
    <3> QED BY <1>1, <2>1, <2>3, StepByStep
  <2>5. i - 1 \in 0..count /\ left[i - 1] = 1..n /\ left[i] = 1..n
    <3>1. i - 1 \in 0..count /\ i \in 0..count
      BY <1>1
    <3> QED BY <2>4, <3>1
  <2>6. BestOverlap(hits[i], relevant, thr, 1..n) # {}
    BY <1>1, <1>5, BestIsThere
  <2>7. BestOverlap(hits[i], relevant, thr, 1..n) \in SUBSET (1..n)
    BY BestIsOne
  <2>8. left[i] = (1..n) \ BestOverlap(hits[i], relevant, thr, 1..n)
    BY <1>2, <2>5
  <2> HIDE DEF Good
  <2> QED BY <2>5, <2>6, <2>7, <2>8
<1>6. /\ average_precision_at_iou(hits, relevant, thr) \in Nat
      /\ average_precision_at_iou(hits, relevant, thr) <= Scale * n
      /\ average_precision_at_iou(hits, relevant, thr) > 0 <=> TakenAt(left, count) # {}
  BY <1>1, <1>2, AverageIsShare
<1>7. TakenAt(left, count) # {} <=> \E i \in 1..count, r \in 1..n : Near(i, r)
  <2> HIDE DEF Near
  <2> QED BY <1>4, <1>5
<1> HIDE DEF Near
<1> QED BY <1>3, <1>6, <1>7 DEF n

(* There are ten thresholds ... *)
LEMMA TenThresholds ==
  /\ IsFiniteSet(Thresholds) /\ Cardinality(Thresholds) = 10
  /\ \A t \in Thresholds : t \in Nat /\ 50 <= t /\ t <= 95 /\ (t > 50 => t - 5 \in Thresholds)
  /\ 50 \in Thresholds /\ 95 \in Thresholds
<1> DEFINE f == [i \in 0..9 |-> 50 + 5 * i]
<1>1. f \in Bijection(0..9, Thresholds)
  <2>1. f \in [0..9 -> Thresholds]
    BY DEF Thresholds
  <2>2. \A t \in Thresholds : \E i \in 0..9 : f[i] = t
    BY DEF Thresholds
  <2>3. \A i, j \in 0..9 : f[i] = f[j] => i = j
    OBVIOUS
  <2> HIDE DEF f
  <2> QED BY <2>1, <2>2, <2>3 DEF Bijection, Injection, Surjection, IsInjective
<1>2. IsFiniteSet(0..9) /\ Cardinality(0..9) = 10
  <2>1. \A n \in Nat : IsFiniteSet(0..n) /\ Cardinality(0..n) = n + 1
    BY FS_Interval
  <2>2. 9 \in Nat /\ 9 + 1 = 10
    OBVIOUS
  <2>3. IsFiniteSet(0..9) /\ Cardinality(0..9) = 9 + 1
    BY <2>1, <2>2, Zenon
  <2> QED BY <2>2, <2>3
<1>3. IsFiniteSet(Thresholds) /\ Cardinality(Thresholds) = 10
  <2> HIDE DEF f
  <2>1. ExistsBijection(0..9, Thresholds) /\ IsFiniteSet(0..9)
    BY <1>1, <1>2 DEF ExistsBijection
  <2>2. IsFiniteSet(Thresholds) /\ Cardinality(0..9) = Cardinality(Thresholds)
    BY <2>1, FS_Bijection
  <2> QED BY <1>2, <2>2
<1>4. ASSUME NEW t \in Thresholds
      PROVE  t \in Nat /\ 50 <= t /\ t <= 95 /\ (t > 50 => t - 5 \in Thresholds)
  <2>1. PICK i \in 0..9 : t = 50 + 5 * i
    BY DEF Thresholds
  <2>2. t > 50 => i - 1 \in 0..9 /\ t - 5 = 50 + 5 * (i - 1)
    BY <2>1
  <2> QED BY <2>1, <2>2 DEF Thresholds
<1>5. 50 = 50 + 5 * 0 /\ 95 = 50 + 5 * 9
  OBVIOUS
<1> QED BY <1>3, <1>4, <1>5 DEF Thresholds

(* ... so their sum lies between ten times the least and the greatest. *)
LEMMA MapIsBetween ==
  ASSUME NEW hits, NEW relevant, Judged(hits, relevant)
  PROVE  /\ 10 * average_precision_at_iou(hits, relevant, 95) <= mean_ap(hits, relevant)
         /\ mean_ap(hits, relevant) <= 10 * average_precision_at_iou(hits, relevant, 50)
<1> DEFINE ap(t) == average_precision_at_iou(hits, relevant, t)
           f == [t \in Thresholds |-> ap(t)]
           lo == ap(95)
           hi == ap(50)
<1>1. \A t \in Thresholds : ap(t) \in Nat /\ lo <= ap(t) /\ ap(t) <= hi
  <2>1. ASSUME NEW t \in Thresholds PROVE ap(t) \in Nat /\ lo <= ap(t) /\ ap(t) <= hi
    <3>1. t \in Nat /\ 50 <= t /\ t <= 95 /\ 50 \in Nat /\ 95 \in Nat
      BY TenThresholds
    <3> QED BY <3>1, ScoredIfFound, AverageFallsWithIou
  <2> QED BY <2>1
<1>2. lo \in Int /\ hi \in Int
  BY <1>1, TenThresholds
<1>3. IsFiniteSet(Thresholds) /\ Cardinality(Thresholds) = 10
  BY TenThresholds
<1>4. PICK g : Sums(g, f, Thresholds) /\ mean_ap(hits, relevant) = g[Thresholds]
  <2>1. \A t \in Thresholds : ap(t) \in Int
    BY <1>1
  <2> QED BY <1>3, <2>1, MapAdds
<1>5. f \in [Thresholds -> Int] /\ \A t \in Thresholds : lo <= f[t] /\ f[t] <= hi
  BY <1>1
<1> HIDE DEF f, ap, lo, hi
<1>6. lo * Cardinality(Thresholds) <= g[Thresholds] /\ g[Thresholds] <= hi * Cardinality(Thresholds)
  BY <1>2, <1>3, <1>4, <1>5, SumBounds
<1>7. 10 * lo <= mean_ap(hits, relevant) /\ mean_ap(hits, relevant) <= 10 * hi
  <2>1. lo * Cardinality(Thresholds) = 10 * lo /\ hi * Cardinality(Thresholds) = 10 * hi
    BY <1>2, <1>3
  <2> QED BY <1>4, <1>6, <2>1
<1> QED BY <1>7 DEF lo, hi, ap

(* The scores of any ranking of at most HitLimit hits agree. *)
Consistent(hits, true) ==
  LET ranks == relevance(hits, true)
      ap    == [thr \in Thresholds |-> average_precision_at_iou(hits, true, thr)]
      map   == mean_ap(hits, true)
      full  == Scale * Len(true)
  IN  /\ \A k \in {1, 5, 10} :
           /\ Cardinality(Upto(ranks, k)) = recall_at(ranks, Len(true), k)
           /\ dcg(ranks, k) <= ideal(Len(true), k)
           /\ hit_at(ranks, k) = (mrr(ranks) >= Scale \div k /\ ranks # {})
      /\ \A thr \in Thresholds :
           /\ ap[thr] <= full
           /\ thr > 50 => ap[thr] <= ap[thr - 5]
           /\ ap[thr] > 0 <=> recall_at_iou(hits, true, HitLimit, thr)
      /\ 10 * ap[95] <= map /\ map <= 10 * ap[50]

LEMMA JudgedIsConsistent ==
  ASSUME NEW hits, NEW true, Judged(hits, true) PROVE Consistent(hits, true)
<1> DEFINE ranks == relevance(hits, true)
           ap == [thr \in Thresholds |-> average_precision_at_iou(hits, true, thr)]
           n == Len(true)
           count == Len(hits)
<1>1. count \in Nat /\ count <= HitLimit /\ n \in Nat /\ HitLimit \in Nat
  BY EvaluationConstants DEF Judged
<1>2. PICK left : Taking(left, count, n) /\ ranks = TakenAt(left, count)
  BY <1>1, RelevanceTakes
<1> HIDE DEF count, n
<1>3. ranks \in SUBSET (1..HitLimit)
  <2>1. ranks \in SUBSET (1..count)
    BY <1>1, <1>2, TakenAndLeft
  <2>2. 1..count \in SUBSET (1..HitLimit)
    BY <1>1
  <2> QED BY <2>1, <2>2
<1>4. ASSUME NEW k \in {1, 5, 10}
      PROVE  /\ Cardinality(Upto(ranks, k)) = recall_at(ranks, n, k)
             /\ dcg(ranks, k) <= ideal(n, k)
             /\ hit_at(ranks, k) = (mrr(ranks) >= Scale \div k /\ ranks # {})
  <2>1. k \in Nat /\ k \in Nat \ {0} /\ k \in 1..10
    BY <1>4
  <2>2. Cardinality(Upto(ranks, k)) \in Nat /\ Cardinality(Upto(ranks, k)) <= n
    <3>1. /\ Cardinality(Upto(TakenAt(left, count), k)) \in Nat
          /\ Cardinality(Upto(TakenAt(left, count), k)) <= n
      BY <1>1, <1>2, <2>1, FoundAreFew
    <3> HIDE DEF ranks
    <3> QED BY <1>2, <3>1
  <2> HIDE DEF ranks
  <2>3. Cardinality(Upto(ranks, k)) = recall_at(ranks, n, k)
    <3> DEFINE x == Cardinality(Upto(ranks, k))
    <3>1. x \in Nat /\ x <= n
      BY <2>2
    <3> HIDE DEF x
    <3>2. Min({n, x}) = x
      BY <1>1, <3>1, MinOfTwo
    <3> QED BY <3>2 DEF recall_at, x
  <2>4. dcg(ranks, k) <= ideal(n, k)
    BY <1>1, <1>2, <2>1, GainIsIdeal
  <2>5. hit_at(ranks, k) = (mrr(ranks) >= Scale \div k /\ ranks # {})
    BY <1>3, <2>1, HitIsMrr
  <2> QED BY <2>3, <2>4, <2>5
<1>5. ASSUME NEW thr \in Thresholds
      PROVE  /\ ap[thr] <= Scale * n
             /\ thr > 50 => ap[thr] <= ap[thr - 5]
             /\ ap[thr] > 0 <=> recall_at_iou(hits, true, HitLimit, thr)
  <2>1. thr \in Nat /\ (thr > 50 => thr - 5 \in Thresholds /\ thr - 5 \in Nat)
    BY TenThresholds
  <2>2. ap[thr] = average_precision_at_iou(hits, true, thr)
    OBVIOUS
  <2>3. ap[thr] <= Scale * n /\ (ap[thr] > 0 <=> recall_at_iou(hits, true, HitLimit, thr))
    <3> HIDE DEF ap
    <3> QED BY <2>1, <2>2, ScoredIfFound DEF n
  <2>4. ASSUME thr > 50 PROVE ap[thr] <= ap[thr - 5]
    <3>1. ap[thr - 5] = average_precision_at_iou(hits, true, thr - 5)
      BY <2>1, <2>4
    <3>2. thr - 5 \in Nat /\ thr - 5 <= thr
      BY <2>1, <2>4
    <3> HIDE DEF ap
    <3>3. average_precision_at_iou(hits, true, thr)
            <= average_precision_at_iou(hits, true, thr - 5)
      BY <2>1, <3>2, AverageFallsWithIou
    <3> QED BY <2>2, <3>1, <3>3
  <2> QED BY <2>3, <2>4
<1>6. 10 * ap[95] <= mean_ap(hits, true) /\ mean_ap(hits, true) <= 10 * ap[50]
  <2>1. ap[95] = average_precision_at_iou(hits, true, 95)
        /\ ap[50] = average_precision_at_iou(hits, true, 50)
    BY TenThresholds
  <2> HIDE DEF ap
  <2> QED BY <2>1, MapIsBetween
<1> HIDE DEF ranks, ap
<1>7. /\ \A k \in {1, 5, 10} :
           /\ Cardinality(Upto(ranks, k)) = recall_at(ranks, Len(true), k)
           /\ dcg(ranks, k) <= ideal(Len(true), k)
           /\ hit_at(ranks, k) = (mrr(ranks) >= Scale \div k /\ ranks # {})
      /\ \A thr \in Thresholds :
           /\ ap[thr] <= Scale * Len(true)
           /\ thr > 50 => ap[thr] <= ap[thr - 5]
           /\ ap[thr] > 0 <=> recall_at_iou(hits, true, HitLimit, thr)
      /\ 10 * ap[95] <= mean_ap(hits, true) /\ mean_ap(hits, true) <= 10 * ap[50]
  BY <1>4, <1>5, <1>6, Zenon DEF n
<1> QED BY <1>7, Zenon DEF Consistent, ranks, ap

-----------------------------------------------------------------------------
(* Recorded hits are segments, there now or not, of the video of the query, *)
(* no more than were asked for                                              *)
Answers(hits, q) ==
  /\ Len(hits) \in 0..HitLimit /\ DOMAIN hits = 1..Len(hits)
  /\ \A i \in 1..Len(hits) : Span(hits[i]) /\ hits[i].video = q.video

Recorded(results) ==
  /\ DOMAIN results \subseteq Queries
  /\ \A q \in DOMAIN results : Answers(results[q], q)

Shaped ==
  /\ DOMAIN built = Parts /\ DOMAIN exps = Exps /\ DOMAIN runs = Exps
  /\ \A p \in Parts : /\ built[p] = [build |-> built[p].build, cuts |-> built[p].cuts]
                      /\ built[p].cuts \subseteq Int \X Int
  /\ \A x \in Exps :
       /\ exps[x] = [status |-> exps[x].status, results |-> exps[x].results]
       /\ runs[x] = [pc |-> runs[x].pc, left |-> runs[x].left, hits |-> runs[x].hits]
  /\ \A row \in examples : row.exp \in Exps

(* What asks is not over, and only what is done has results *)
EvalInv ==
  /\ Shaped
  /\ \A x \in Exps :
       /\ Recorded(runs[x].hits) /\ Recorded(exps[x].results)
       /\ runs[x].pc = "asking" => exps[x].status = "running"
       /\ exps[x].status # "done" => DOMAIN exps[x].results = {}
  /\ NegativesAreWrong

LEMMA IndexedHasSpans ==
  ASSUME Shaped, NEW seg \in Indexed PROVE Span(seg)
<1>1. PICK p \in Parts : \E span \in built[p].cuts :
        seg = [video |-> PartOf[p], part |-> p, build |-> built[p].build,
               s |-> span[1], e |-> span[2]]
  BY DEF Indexed
<1>2. PICK span \in built[p].cuts :
        seg = [video |-> PartOf[p], part |-> p, build |-> built[p].build,
               s |-> span[1], e |-> span[2]]
  BY <1>1
<1>3. span \in Int \X Int
  BY <1>2 DEF Shaped
<1>4. span[1] \in Int /\ span[2] \in Int
  BY <1>3
<1> QED BY <1>2, <1>4 DEF Span

(* Who mined stays done, and the examples are what they were *)
LEMMA ExamplesKept ==
  ASSUME Shaped, NegativesAreWrong, UNCHANGED examples,
         \A x \in Exps : exps[x].status = "done" => exps'[x].status = "done"
  PROVE  NegativesAreWrong'
<1>1. ASSUME NEW row \in examples PROVE exps'[row.exp].status = "done"
  BY <1>1 DEF Shaped, NegativesAreWrong
<1> QED BY <1>1 DEF NegativesAreWrong

(* Only the experiments and their processes move *)
LEMMA ExperimentMoves ==
  ASSUME EvalInv, NEW x \in Exps,
         DOMAIN exps' = Exps, DOMAIN runs' = Exps,
         exps'[x] = [status |-> exps'[x].status, results |-> exps'[x].results],
         runs'[x] = [pc |-> runs'[x].pc, left |-> runs'[x].left, hits |-> runs'[x].hits],
         \A y \in Exps \ {x} : exps'[y] = exps[y] /\ runs'[y] = runs[y],
         UNCHANGED <<built, examples>>,
         Recorded(runs'[x].hits), Recorded(exps'[x].results),
         runs'[x].pc = "asking" => exps'[x].status = "running",
         exps'[x].status # "done" => DOMAIN exps'[x].results = {},
         exps[x].status = "done" => exps'[x].status = "done"
  PROVE  EvalInv'
<1>1. Shaped'
  BY DEF EvalInv, Shaped
<1>2. ASSUME NEW y \in Exps
      PROVE  /\ Recorded(runs'[y].hits) /\ Recorded(exps'[y].results)
             /\ runs'[y].pc = "asking" => exps'[y].status = "running"
             /\ exps'[y].status # "done" => DOMAIN exps'[y].results = {}
             /\ exps[y].status = "done" => exps'[y].status = "done"
  <2>1. CASE y = x
    BY <2>1
  <2>2. CASE y # x
    BY <2>2 DEF EvalInv
  <2> QED BY <2>1, <2>2
<1>3. NegativesAreWrong'
  BY <1>2, ExamplesKept DEF EvalInv
<1> QED BY <1>1, <1>2, <1>3 DEF EvalInv, Recorded

LEMMA WithStatus ==
  ASSUME NEW r, NEW a, NEW b, NEW v, r = [status |-> a, results |-> b]
  PROVE  [r EXCEPT !.status = v] = [status |-> v, results |-> b]
  OBVIOUS

LEMMA WithPlace ==
  ASSUME NEW r, NEW a, NEW b, NEW c, NEW v, r = [pc |-> a, left |-> b, hits |-> c]
  PROVE  [r EXCEPT !.pc = v] = [pc |-> v, left |-> b, hits |-> c]
  OBVIOUS

LEMMA NothingRecorded ==
  Recorded(<<>>) /\ DOMAIN <<>> = {}
  BY DEF Recorded

LEMMA StartKeepsEval ==
  ASSUME EvalInv, NEW x \in Exps, StartExperiment(x) PROVE EvalInv'
<1>1. PICK ids \in Subsets, place \in {"asking", "ended"} :
        runs' = [runs EXCEPT ![x] = [pc |-> place, left |-> ids \cap Evaluable, hits |-> <<>>]]
  BY DEF StartExperiment
<1>2. /\ exps[x].status = "none" /\ UNCHANGED <<built, examples>>
      /\ exps' = [exps EXCEPT ![x].status = "running"]
  BY DEF StartExperiment
<1>3. exps[x] = [status |-> exps[x].status, results |-> exps[x].results]
      /\ DOMAIN exps = Exps /\ DOMAIN runs = Exps
  BY DEF EvalInv, Shaped
<1>4. exps'[x] = [status |-> "running", results |-> exps[x].results]
  BY <1>2, <1>3, WithStatus
<1>5. /\ DOMAIN exps' = Exps /\ DOMAIN runs' = Exps
      /\ runs'[x] = [pc |-> place, left |-> ids \cap Evaluable, hits |-> <<>>]
      /\ \A y \in Exps \ {x} : exps'[y] = exps[y] /\ runs'[y] = runs[y]
  BY <1>1, <1>2, <1>3
<1>6. Recorded(exps[x].results) /\ DOMAIN exps[x].results = {}
  BY <1>2 DEF EvalInv
<1>7. /\ exps'[x].status = "running" /\ exps'[x].results = exps[x].results
      /\ runs'[x].pc = place /\ runs'[x].left = ids \cap Evaluable /\ runs'[x].hits = <<>>
  BY <1>4, <1>5
<1> QED BY <1>2, <1>4, <1>5, <1>6, <1>7, NothingRecorded, ExperimentMoves

LEMMA EndKeepsEval ==
  ASSUME EvalInv, NEW x \in Exps, EvaluateRaises(x) \/ KillExperiment(x) PROVE EvalInv'
<1>1. /\ exps[x] = [status |-> exps[x].status, results |-> exps[x].results]
      /\ runs[x] = [pc |-> runs[x].pc, left |-> runs[x].left, hits |-> runs[x].hits]
      /\ DOMAIN exps = Exps /\ DOMAIN runs = Exps
  BY DEF EvalInv, Shaped
<1>2. /\ runs[x].pc = "asking" /\ UNCHANGED <<built, examples>>
      /\ runs' = [runs EXCEPT ![x].pc = "ended"]
      /\ exps' = exps \/ exps' = [exps EXCEPT ![x].status = "failed"]
  BY DEF EvaluateRaises, KillExperiment
<1>3. /\ Recorded(exps[x].results) /\ Recorded(runs[x].hits)
      /\ DOMAIN exps[x].results = {} /\ exps[x].status = "running"
  BY <1>2 DEF EvalInv
<1>4. PICK status \in {"failed", "running"} :
        exps'[x] = [status |-> status, results |-> exps[x].results]
  BY <1>1, <1>2, <1>3, WithStatus
<1>5. runs'[x] = [pc |-> "ended", left |-> runs[x].left, hits |-> runs[x].hits]
  <2>1. runs'[x] = [runs[x] EXCEPT !.pc = "ended"]
    BY <1>1, <1>2
  <2> QED BY <1>1, <2>1, WithPlace
<1>6. /\ DOMAIN exps' = Exps /\ DOMAIN runs' = Exps
      /\ \A y \in Exps \ {x} : exps'[y] = exps[y] /\ runs'[y] = runs[y]
  BY <1>1, <1>2
<1>7. /\ exps'[x].status = status /\ exps'[x].results = exps[x].results
      /\ runs'[x].pc = "ended" /\ runs'[x].left = runs[x].left /\ runs'[x].hits = runs[x].hits
  BY <1>4, <1>5
<1> QED BY <1>2, <1>3, <1>4, <1>5, <1>6, <1>7, ExperimentMoves

(* The hits of a search are segments of the video it was restricted to *)
LEMMA AskKeepsEval ==
  ASSUME EvalInv, NEW x \in Exps, NEW q \in Queries, Ask(x, q) PROVE EvalInv'
<1>1. PICK n \in 0..HitLimit : \E found \in [1..n -> {seg \in Indexed : seg.video = q.video}] :
        runs' = [runs EXCEPT ![x] = [pc |-> "asking", left |-> runs[x].left \ {q},
                                     hits |-> WithHits(runs[x].hits, q, found)]]
  BY DEF Ask, EvalInv, Shaped
<1>2. PICK found \in [1..n -> {seg \in Indexed : seg.video = q.video}] :
        runs' = [runs EXCEPT ![x] = [pc |-> "asking", left |-> runs[x].left \ {q},
                                     hits |-> WithHits(runs[x].hits, q, found)]]
  BY <1>1
<1> DEFINE hits == WithHits(runs[x].hits, q, found)
<1>3. Answers(found, q)
  <2>1. n \in Nat /\ HitLimit \in Nat
    BY EvaluationConstants
  <2>2. \A seg \in {s \in Indexed : s.video = q.video} : Span(seg) /\ seg.video = q.video
    BY IndexedHasSpans DEF EvalInv
  <2>3. Len(found) = n /\ DOMAIN found = 1..n
    BY <1>2, <2>1
  <2>4. \A i \in 1..n : Span(found[i]) /\ found[i].video = q.video
    BY <1>2, <2>2
  <2> QED BY <1>1, <2>1, <2>3, <2>4 DEF Answers
<1>4. Recorded(hits)
  <2>1. Recorded(runs[x].hits)
    BY DEF EvalInv
  <2>2. /\ DOMAIN hits = DOMAIN runs[x].hits \cup {q} /\ hits[q] = found
        /\ \A r \in DOMAIN runs[x].hits \ {q} : hits[r] = runs[x].hits[r]
    BY DEF WithHits
  <2> HIDE DEF hits
  <2>3. ASSUME NEW r \in DOMAIN hits PROVE Answers(hits[r], r)
    <3>1. CASE r = q
      BY <3>1, <1>3, <2>2
    <3>2. CASE r # q
      BY <3>2, <2>1, <2>2, <2>3 DEF Recorded
    <3> QED BY <3>1, <3>2
  <2> QED BY <2>1, <2>2, <2>3 DEF Recorded
<1>5. /\ runs[x].pc = "asking" /\ UNCHANGED <<built, exps, examples>>
  BY DEF Ask
<1>6. /\ exps'[x] = [status |-> exps[x].status, results |-> exps[x].results]
      /\ DOMAIN exps' = Exps /\ DOMAIN runs' = Exps
      /\ runs'[x] = [pc |-> "asking", left |-> runs[x].left \ {q}, hits |-> hits]
      /\ \A y \in Exps \ {x} : exps'[y] = exps[y] /\ runs'[y] = runs[y]
  <2> HIDE DEF hits
  <2>1. /\ exps[x] = [status |-> exps[x].status, results |-> exps[x].results]
        /\ DOMAIN exps = Exps /\ DOMAIN runs = Exps
    BY DEF EvalInv, Shaped
  <2>2. runs' = [runs EXCEPT ![x] = [pc |-> "asking", left |-> runs[x].left \ {q},
                                     hits |-> hits]]
    BY <1>2 DEF hits
  <2> QED BY <1>5, <2>1, <2>2
<1>7. /\ exps[x].status = "running" /\ Recorded(exps[x].results)
      /\ DOMAIN exps[x].results = {}
  BY <1>5 DEF EvalInv
<1> HIDE DEF hits
<1>8. /\ exps'[x].status = exps[x].status /\ exps'[x].results = exps[x].results
      /\ runs'[x].pc = "asking" /\ runs'[x].left = runs[x].left \ {q} /\ runs'[x].hits = hits
  BY <1>6
<1> QED BY <1>4, <1>5, <1>6, <1>7, <1>8, ExperimentMoves

LEMMA RecordKeepsEval ==
  ASSUME EvalInv, NEW x \in Exps, Record(x) PROVE EvalInv'
<1>1. /\ exps' = [exps EXCEPT ![x] = [status |-> "done", results |-> runs[x].hits]]
      /\ runs' = [runs EXCEPT ![x].pc = "ended"] /\ UNCHANGED <<built, examples>>
  BY DEF Record
<1>2. /\ runs[x] = [pc |-> runs[x].pc, left |-> runs[x].left, hits |-> runs[x].hits]
      /\ DOMAIN exps = Exps /\ DOMAIN runs = Exps
  BY DEF EvalInv, Shaped
<1>3. runs'[x] = [pc |-> "ended", left |-> runs[x].left, hits |-> runs[x].hits]
  <2>1. runs'[x] = [runs[x] EXCEPT !.pc = "ended"]
    BY <1>1, <1>2
  <2> QED BY <1>2, <2>1, WithPlace
<1>4. /\ DOMAIN exps' = Exps /\ DOMAIN runs' = Exps
      /\ exps'[x] = [status |-> "done", results |-> runs[x].hits]
      /\ \A y \in Exps \ {x} : exps'[y] = exps[y] /\ runs'[y] = runs[y]
  BY <1>1, <1>2
<1>5. Recorded(runs[x].hits)
  BY DEF EvalInv
<1>6. /\ exps'[x].status = "done" /\ exps'[x].results = runs[x].hits
      /\ runs'[x].pc = "ended" /\ runs'[x].left = runs[x].left /\ runs'[x].hits = runs[x].hits
  BY <1>3, <1>4
<1> QED BY <1>1, <1>3, <1>4, <1>5, <1>6, ExperimentMoves

(* The index moves: segments are cut anew or gone, what was recorded stays *)
LEMMA IndexKeepsEval ==
  ASSUME EvalInv, UNCHANGED <<exps, runs, examples>>,
         DOMAIN built' = Parts,
         \A p \in Parts : /\ built'[p] = [build |-> built'[p].build, cuts |-> built'[p].cuts]
                          /\ built'[p].cuts \subseteq Int \X Int
  PROVE  EvalInv'
<1>1. Shaped'
  BY DEF EvalInv, Shaped
<1>2. NegativesAreWrong'
  BY ExamplesKept DEF EvalInv
<1> QED BY <1>1, <1>2 DEF EvalInv, Recorded

LEMMA ReindexKeeps ==
  ASSUME EvalInv, NEW p \in Parts, Reindex(p) PROVE EvalInv'
<1>1. PICK cuts \in Cuts[p] :
        built' = [built EXCEPT ![p] = [build |-> built[p].build + 1, cuts |-> cuts]]
  BY DEF Reindex, EvalInv, Shaped
<1>2. cuts \subseteq Int \X Int
  BY EvaluationConstants
<1>3. /\ DOMAIN built' = Parts
      /\ built'[p] = [build |-> built[p].build + 1, cuts |-> cuts]
      /\ \A o \in Parts \ {p} : built'[o] = built[o]
  BY <1>1 DEF EvalInv, Shaped
<1>4. ASSUME NEW o \in Parts
      PROVE  /\ built'[o] = [build |-> built'[o].build, cuts |-> built'[o].cuts]
             /\ built'[o].cuts \subseteq Int \X Int
  <2>1. CASE o = p
    BY <1>2, <1>3, <2>1
  <2>2. CASE o # p
    BY <1>3, <2>2 DEF EvalInv, Shaped
  <2> QED BY <2>1, <2>2
<1>5. UNCHANGED <<exps, runs, examples>>
  BY DEF Reindex
<1> QED BY <1>3, <1>4, <1>5, IndexKeepsEval

LEMMA RemoveKeeps ==
  ASSUME EvalInv, NEW v \in {PartOf[p] : p \in Parts}, RemoveVideo(v) PROVE EvalInv'
<1>1. built' = [p \in Parts |-> IF PartOf[p] = v THEN [built[p] EXCEPT !.cuts = {}] ELSE built[p]]
  BY DEF RemoveVideo
<1>2. ASSUME NEW o \in Parts
      PROVE  /\ built'[o] = [build |-> built'[o].build, cuts |-> built'[o].cuts]
             /\ built'[o].cuts \subseteq Int \X Int
  <2>1. CASE PartOf[o] = v
    <3>1. built'[o] = [build |-> built[o].build, cuts |-> {}]
      <4>1. built'[o] = [built[o] EXCEPT !.cuts = {}]
        BY <1>1, <2>1
      <4>2. built[o] = [build |-> built[o].build, cuts |-> built[o].cuts]
        BY DEF EvalInv, Shaped
      <4> QED BY <4>1, <4>2
    <3> QED BY <3>1
  <2>2. CASE PartOf[o] # v
    BY <1>1, <2>2 DEF EvalInv, Shaped
  <2> QED BY <2>1, <2>2
<1>3. UNCHANGED <<exps, runs, examples>> /\ DOMAIN built' = Parts
  BY <1>1 DEF RemoveVideo
<1> QED BY <1>2, <1>3, IndexKeepsEval

-----------------------------------------------------------------------------
(* What mine() makes of one query: negatives that are wrong, few, told apart *)
(* by their rank                                                             *)
LEMMA RowsAreNegatives ==
  ASSUME EvalInv, NEW x \in Exps, NEW q \in DOMAIN exps[x].results, NEW pos \in Positives(q)
  PROVE  /\ \A row \in Rows(x, q, pos) :
              /\ row.exp = x /\ row.query = q /\ row.pos = pos /\ row.neg # pos
              /\ ~Above(Overlap(row.neg, q.relevant), [inter |-> MaxIou, union |-> 100])
              /\ ~Above(Overlap(row.neg, q.relevant), Overlap(pos, q.relevant))
         /\ \A r1, r2 \in Rows(x, q, pos) : r1.rank = r2.rank => r1 = r2
         /\ Cardinality(Rows(x, q, pos)) <= PerQuery
<1> DEFINE hits  == exps[x].results[q]
           ranks == {i \in DOMAIN hits : Hard(hits[i], pos, q)}
           first == {i \in ranks : Cardinality(Upto(ranks, i)) <= PerQuery}
           Row(i) == [exp |-> x, query |-> q, pos |-> pos, neg |-> hits[i], rank |-> i]
           rows  == Rows(x, q, pos)
<1>1. rows = {Row(i) : i \in {j \in first : hits[j] \in Indexed}}
  BY Zenon DEF Rows
<1>2. q \in Queries /\ Answers(hits, q)
  BY DEF EvalInv, Recorded
<1>3. PICK n \in Nat : /\ DOMAIN hits = 1..n
                       /\ \A i \in 1..n : Span(hits[i]) /\ hits[i].video = q.video
  <2>1. HitLimit \in Nat
    BY EvaluationConstants
  <2> QED BY <1>2, <2>1 DEF Answers
<1>4. ASSUME NEW row \in rows
      PROVE  row.rank \in first /\ hits[row.rank] \in Indexed /\ row = Row(row.rank)
  <2>1. PICK i \in first : hits[i] \in Indexed /\ row = Row(i)
    BY <1>1, <1>4
  <2>2. row.rank = i
    BY <2>1
  <2> QED BY <2>1, <2>2
<1>5. ASSUME NEW row \in rows
      PROVE  /\ row.exp = x /\ row.query = q /\ row.pos = pos /\ row.neg # pos
             /\ ~Above(Overlap(row.neg, q.relevant), [inter |-> MaxIou, union |-> 100])
             /\ ~Above(Overlap(row.neg, q.relevant), Overlap(pos, q.relevant))
  <2> DEFINE neg == hits[row.rank]
  <2>1. /\ row.exp = x /\ row.query = q /\ row.pos = pos /\ row.neg = neg
    <3>1. row = Row(row.rank)
      BY <1>4, <1>5
    <3> QED BY <3>1
  <2>2. neg \in Indexed /\ row.rank \in DOMAIN hits /\ Hard(neg, pos, q)
    BY <1>4, <1>5
  <2>3. neg.video = q.video /\ Span(neg)
    BY <1>3, <2>2
  <2>4. Overlap(neg, q.relevant) \in Fraction
    BY <1>2, <2>3, OverlapIsFraction
  <2>5. /\ pos \in Indexed
        /\ \A other \in Indexed :
             other.video = q.video /\ Overlap(other, q.relevant).inter > 0
               => ~Above(Overlap(other, q.relevant), Overlap(pos, q.relevant))
    BY DEF Positives
  <2>6. Overlap(pos, q.relevant) \in Fraction
    BY <1>2, <2>5, IndexedHasSpans, OverlapIsFraction DEF EvalInv
  <2>7. ~Above(Overlap(neg, q.relevant), Overlap(pos, q.relevant))
    <3>1. CASE Overlap(neg, q.relevant).inter > 0
      BY <2>2, <2>3, <2>5, <3>1
    <3>2. CASE ~(Overlap(neg, q.relevant).inter > 0)
      <4>1. ASSUME NEW a \in Fraction, NEW b \in Fraction, ~(a.inter > 0) PROVE ~Above(a, b)
        <5>1. /\ a.inter = 0 /\ a.union \in Nat /\ b.inter \in Nat /\ b.union \in Nat
          BY <4>1 DEF Fraction
        <5>2. a.inter * b.union = 0 /\ b.inter * a.union >= 0
          BY <5>1
        <5> QED BY <5>1, <5>2 DEF Above
      <4> QED BY <2>4, <2>6, <3>2, <4>1
    <3> QED BY <3>1, <3>2
  <2> HIDE DEF neg
  <2> QED BY <2>1, <2>2, <2>7 DEF Hard
<1>6. \A r1, r2 \in rows : r1.rank = r2.rank => r1 = r2
  <2> HIDE DEF rows, Row
  <2> QED BY <1>4
<1>7. Cardinality(rows) <= PerQuery
  <2>1. PerQuery \in Nat
    BY EvaluationConstants
  <2>2. ranks \in SUBSET Nat /\ IsFiniteSet(ranks)
    <3>1. ranks \in SUBSET (1..n) /\ 1..n \in SUBSET Nat
      BY <1>3
    <3>2. IsFiniteSet(1..n)
      BY FS_Interval
    <3> HIDE DEF ranks
    <3> QED BY <3>1, <3>2, FS_Subset
  <2>3. IsFiniteSet(first) /\ Cardinality(first) <= PerQuery
    <3> HIDE DEF ranks
    <3> QED BY <2>1, <2>2, FirstAreFew
  <2> DEFINE f == [row \in rows |-> row.rank]
  <2>4. f \in Injection(rows, first)
    <3>1. f \in [rows -> first]
      <4> HIDE DEF rows, first
      <4> QED BY <1>4
    <3>2. \A a, b \in rows : f[a] = f[b] => a = b
      <4> HIDE DEF rows
      <4> QED BY <1>6
    <3> HIDE DEF f, rows, first
    <3> QED BY <3>1, <3>2 DEF Injection, IsInjective
  <2>5. IsFiniteSet(rows) /\ Cardinality(rows) <= Cardinality(first)
    <3> HIDE DEF f, rows, first
    <3> QED BY <2>3, <2>4, FS_Injection
  <2>6. Cardinality(rows) \in Nat /\ Cardinality(first) \in Nat
    <3> HIDE DEF rows, first
    <3> QED BY <2>3, <2>5, FS_CardinalityType
  <2> HIDE DEF rows, first
  <2> QED BY <2>1, <2>3, <2>5, <2>6
<1> HIDE DEF rows
<1>8. /\ \A row \in rows :
           /\ row.exp = x /\ row.query = q /\ row.pos = pos /\ row.neg # pos
           /\ ~Above(Overlap(row.neg, q.relevant), [inter |-> MaxIou, union |-> 100])
           /\ ~Above(Overlap(row.neg, q.relevant), Overlap(pos, q.relevant))
      /\ \A r1, r2 \in rows : r1.rank = r2.rank => r1 = r2
      /\ Cardinality(rows) <= PerQuery
  BY <1>5, <1>6, <1>7, Zenon
<1> QED BY <1>8, Zenon DEF rows

(* Mining anew takes away what was mined of the experiment before *)
LEMMA MineKeeps ==
  ASSUME EvalInv, NEW x \in Exps, Mine(x) PROVE EvalInv'
<1> DEFINE labelled == {q \in DOMAIN exps[x].results : Positives(q) # {}}
<1>1. PICK pos \in [labelled -> Indexed] :
        /\ \A q \in labelled : pos[q] \in Positives(q)
        /\ examples' = Replaced(x) \cup UNION {Rows(x, q, pos[q]) : q \in labelled}
  BY DEF Mine
<1>2. UNCHANGED <<built, gone, exps, runs>>
  BY DEF Mine
<1>3. labelled \in SUBSET DOMAIN exps[x].results /\ labelled \in SUBSET Queries
  BY DEF EvalInv, Recorded
<1>4. labelled # {} => exps[x].status = "done"
  BY <1>3 DEF EvalInv
<1> HIDE DEF labelled
<1>5. ASSUME NEW q \in labelled
      PROVE  /\ \A row \in Rows(x, q, pos[q]) :
                  /\ row.exp = x /\ row.query = q /\ row.pos = pos[q] /\ row.neg # pos[q]
                  /\ ~Above(Overlap(row.neg, q.relevant), [inter |-> MaxIou, union |-> 100])
                  /\ ~Above(Overlap(row.neg, q.relevant), Overlap(pos[q], q.relevant))
             /\ \A r1, r2 \in Rows(x, q, pos[q]) : r1.rank = r2.rank => r1 = r2
             /\ Cardinality(Rows(x, q, pos[q])) <= PerQuery
  <2>1. q \in DOMAIN exps[x].results /\ pos[q] \in Positives(q)
    BY <1>1, <1>3, <1>5
  <2> QED BY <2>1, RowsAreNegatives
<1>6. ASSUME NEW row \in examples'
      PROVE  \/ row \in examples /\ row.exp # x
             \/ row.exp = x /\ row.query \in labelled /\ row \in Rows(x, row.query, pos[row.query])
  <2>1. CASE row \in Replaced(x)
    BY <2>1 DEF Replaced
  <2>2. CASE row \in UNION {Rows(x, q, pos[q]) : q \in labelled}
    <3>1. PICK q \in labelled : row \in Rows(x, q, pos[q])
      BY <2>2
    <3>2. row.exp = x /\ row.query = q
      BY <1>5, <3>1
    <3> QED BY <3>1, <3>2
  <2> QED BY <1>1, <1>6, <2>1, <2>2
<1>7. Shaped'
  <2>1. \A row \in examples' : row.exp \in Exps
    BY <1>6 DEF EvalInv, Shaped
  <2> QED BY <1>2, <2>1 DEF EvalInv, Shaped
<1>8. ASSUME NEW row \in examples'
      PROVE  /\ exps'[row.exp].status = "done"
             /\ row.neg # row.pos
             /\ ~Above(Overlap(row.neg, row.query.relevant), [inter |-> MaxIou, union |-> 100])
             /\ ~Above(Overlap(row.neg, row.query.relevant), Overlap(row.pos, row.query.relevant))
  <2>1. CASE row \in examples /\ row.exp # x
    BY <1>2, <2>1 DEF EvalInv, NegativesAreWrong
  <2>2. CASE row.exp = x /\ row.query \in labelled /\ row \in Rows(x, row.query, pos[row.query])
    <3>1. exps'[row.exp].status = "done"
      BY <1>2, <1>4, <2>2
    <3>2. /\ row.pos = pos[row.query] /\ row.neg # pos[row.query]
          /\ ~Above(Overlap(row.neg, row.query.relevant), [inter |-> MaxIou, union |-> 100])
          /\ ~Above(Overlap(row.neg, row.query.relevant),
                    Overlap(pos[row.query], row.query.relevant))
      <4>1. PICK q \in labelled : q = row.query
        BY <2>2
      <4>2. /\ row.pos = pos[q] /\ row.neg # pos[q]
            /\ ~Above(Overlap(row.neg, q.relevant), [inter |-> MaxIou, union |-> 100])
            /\ ~Above(Overlap(row.neg, q.relevant), Overlap(pos[q], q.relevant))
        BY <1>5, <2>2, <4>1
      <4> QED BY <4>1, <4>2
    <3> QED BY <3>1, <3>2, Zenon
  <2> QED BY <1>6, <1>8, <2>1, <2>2
<1>9. ASSUME NEW y \in Exps, NEW q \in Queries
      PROVE  LET rows == {row \in examples' : row.exp = y /\ row.query = q}
             IN  /\ Cardinality(rows) <= PerQuery
                 /\ \A r1, r2 \in rows : r1.pos = r2.pos /\ (r1.rank = r2.rank => r1 = r2)
  <2> DEFINE rows == {row \in examples' : row.exp = y /\ row.query = q}
  <2>1. CASE y # x
    <3>1. rows = {row \in examples : row.exp = y /\ row.query = q}
      <4>1. \A row \in rows : row \in examples
        BY <1>6, <2>1
      <4>2. \A row \in examples : row.exp = y => row \in examples'
        BY <1>1, <2>1 DEF Replaced
      <4> QED BY <4>1, <4>2
    <3> QED BY <3>1 DEF EvalInv, NegativesAreWrong
  <2>2. CASE y = x /\ q \in labelled
    <3>1. rows = Rows(x, q, pos[q])
      <4>1. \A row \in rows : row \in Rows(x, q, pos[q])
        BY <1>6, <2>2
      <4>2. \A row \in Rows(x, q, pos[q]) : row \in rows
        BY <1>1, <1>5, <2>2
      <4> HIDE DEF rows
      <4> QED BY <4>1, <4>2
    <3>2. /\ Cardinality(rows) <= PerQuery
          /\ \A r1, r2 \in rows : r1.pos = r2.pos /\ (r1.rank = r2.rank => r1 = r2)
      <4> HIDE DEF rows
      <4> QED BY <1>5, <2>2, <3>1
    <3> QED BY <3>2
  <2>3. CASE y = x /\ q \notin labelled
    <3>1. rows = {}
      BY <1>6, <2>3
    <3>2. Cardinality(rows) = 0
      BY <3>1, FS_EmptySet
    <3>3. PerQuery \in Nat
      BY EvaluationConstants
    <3>4. Cardinality(rows) <= PerQuery
      <4> HIDE DEF rows
      <4> QED BY <3>2, <3>3
    <3> QED BY <3>1, <3>4
  <2> QED BY <2>1, <2>2, <2>3
<1>10. NegativesAreWrong'
  BY <1>8, <1>9 DEF NegativesAreWrong
<1> QED BY <1>2, <1>7, <1>10 DEF EvalInv, Recorded

-----------------------------------------------------------------------------
LEMMA EvalInitInv == EvalInit => EvalInv
<1> SUFFICES ASSUME EvalInit PROVE EvalInv
  OBVIOUS
<1>1. PICK cuts \in [Parts -> UNION {Cuts[p] : p \in Parts}] :
        /\ \A p \in Parts : cuts[p] \in Cuts[p]
        /\ built = [p \in Parts |-> [build |-> 1, cuts |-> cuts[p]]]
  BY DEF EvalInit
<1>2. \A p \in Parts : /\ built[p] = [build |-> built[p].build, cuts |-> built[p].cuts]
                       /\ built[p].cuts \subseteq Int \X Int
  BY <1>1, EvaluationConstants
<1>3. /\ exps = [x \in Exps |-> [status |-> "none", results |-> <<>>]]
      /\ runs = [x \in Exps |-> [pc |-> "idle", left |-> {}, hits |-> <<>>]]
      /\ examples = {} /\ DOMAIN built = Parts
  BY <1>1 DEF EvalInit
<1>4. Shaped
  BY <1>2, <1>3 DEF Shaped
<1>5. NegativesAreWrong
  <2>1. ASSUME NEW x \in Exps, NEW q \in Queries
        PROVE  Cardinality({row \in examples : row.exp = x /\ row.query = q}) <= PerQuery
    <3>1. {row \in examples : row.exp = x /\ row.query = q} = {}
      BY <1>3
    <3>2. PerQuery \in Nat
      BY EvaluationConstants
    <3>3. Cardinality({}) <= PerQuery
      BY <3>2, FS_EmptySet
    <3> QED BY <3>1, <3>3, Zenon
  <2> QED BY <1>3, <2>1 DEF NegativesAreWrong
<1>6. \A x \in Exps : /\ exps[x].status = "none" /\ exps[x].results = <<>>
                      /\ runs[x].pc = "idle" /\ runs[x].hits = <<>>
  BY <1>3
<1> QED BY <1>4, <1>5, <1>6, NothingRecorded DEF EvalInv

LEMMA EvalStepInv == EvalInv /\ [EvalNext]_evalVars => EvalInv'
<1> SUFFICES ASSUME EvalInv, [EvalNext]_evalVars PROVE EvalInv'
  OBVIOUS
<1>1. CASE UNCHANGED evalVars
  <2>1. UNCHANGED <<built, exps, runs, examples>>
    BY <1>1 DEF evalVars
  <2> QED BY <2>1, IndexKeepsEval DEF EvalInv, Shaped
<1>2. ASSUME NEW x \in Exps,
             \/ StartExperiment(x) \/ EvaluateRaises(x) \/ KillExperiment(x)
             \/ Record(x) \/ Mine(x) \/ \E q \in Queries : Ask(x, q)
      PROVE  EvalInv'
  BY <1>2, StartKeepsEval, EndKeepsEval, RecordKeepsEval, MineKeeps, AskKeepsEval
<1> QED BY <1>1, <1>2, ReindexKeeps, RemoveKeeps DEF EvalNext

(* For any index, queries, ways to cut a chunk and limits: a mined negative *)
(* is another segment than its positive and never the better answer, and a  *)
(* query has at most PerQuery of them with one positive, though the index   *)
(* changes between the search and the mining (eval/negatives.py).           *)
THEOREM MinedNegativesAreWrong == EvalSpec => []NegativesAreWrong
<1>1. EvalInv => NegativesAreWrong
  BY DEF EvalInv
<1> QED BY <1>1, EvalInitInv, EvalStepInv, PTL DEF EvalSpec

-----------------------------------------------------------------------------
(* What a search returned is judged by the true ranges of its query *)
LEMMA AnswersAreJudged ==
  ASSUME NEW q \in Queries, NEW hits, Answers(hits, q) PROVE Judged(hits, q.relevant)
<1>1. q.relevant \in Seq([video : {q.video}, s : Int, e : Int]) /\ HitLimit \in Nat
  BY EvaluationConstants
<1>2. /\ Len(q.relevant) \in Nat /\ DOMAIN q.relevant = 1..Len(q.relevant)
      /\ \A r \in 1..Len(q.relevant) : q.relevant[r] \in [video : {q.video}, s : Int, e : Int]
  <2>1. ASSUME NEW T, NEW s \in Seq(T)
        PROVE  Len(s) \in Nat /\ DOMAIN s = 1..Len(s) /\ \A i \in 1..Len(s) : s[i] \in T
    BY <2>1
  <2> QED BY <1>1, <2>1
<1>3. \A r \in 1..Len(q.relevant) : Span(q.relevant[r])
  BY <1>2 DEF Span
<1>4. /\ Len(hits) \in Nat /\ Len(hits) <= HitLimit /\ DOMAIN hits = 1..Len(hits)
      /\ \A i \in 1..Len(hits) : Span(hits[i])
  BY <1>1 DEF Answers
<1> QED BY <1>2, <1>3, <1>4 DEF Judged

LEMMA ScoresAgreeNow == EvalInv => ScoresConsistent
<1> SUFFICES ASSUME EvalInv PROVE ScoresConsistent
  OBVIOUS
<1>1. ASSUME NEW x \in {y \in Exps : runs[y].pc = "asking"}, NEW q \in DOMAIN runs[x].hits
      PROVE  Consistent(runs[x].hits[q], q.relevant)
  <2>1. q \in Queries /\ Answers(runs[x].hits[q], q)
    BY DEF EvalInv, Recorded
  <2> QED BY <2>1, AnswersAreJudged, JudgedIsConsistent
<1> QED BY <1>1, Zenon DEF ScoresConsistent, Consistent

(* For every index, every search and every set of true ranges, the metrics   *)
(* of one ranking agree: greedy matching counts no range twice, recall and   *)
(* ndcg stay below their ideals, hit@k is what mrr says, average precision   *)
(* is at most 1 and positive exactly where recall@iou is met, and it falls   *)
(* as the IoU rises, with map between its ends (eval/metrics.py).            *)
THEOREM ScoresAgree == EvalSpec => []ScoresConsistent
BY EvalInitInv, EvalStepInv, ScoresAgreeNow, PTL DEF EvalSpec
=============================================================================
