----------------------------- MODULE VideoLife -----------------------------
(***************************************************************************)
(* What a user sees of one uploaded video, with no jobs and no workers.    *)
(* The video is submitted, worked on, and its chunks become searchable one *)
(* at a time, for good.  It is declared ready when every chunk is          *)
(* searchable, and then stays ready; it is declared failed only while some *)
(* chunk is not, and then it may be taken up again.                        *)
(***************************************************************************)
CONSTANT Chunks

VARIABLES status, searchable

vars == <<status, searchable>>

Init == status = "uploading" /\ searchable = {}

Submit ==
  /\ status = "uploading"
  /\ status' = "uploaded"
  /\ UNCHANGED searchable

TakeUp ==
  /\ status \in {"uploaded", "failed"}
  /\ status' = "processing"
  /\ UNCHANGED searchable

(* A chunk may still arrive after the video was declared failed *)
Publish(c) ==
  /\ status \in {"processing", "failed"}
  /\ c \notin searchable
  /\ searchable' = searchable \cup {c}
  /\ UNCHANGED status

(* A worker that read the status before the failure may declare it late *)
DeclareReady ==
  /\ status \in {"processing", "failed"} /\ searchable = Chunks
  /\ status' = "ready"
  /\ UNCHANGED searchable

DeclareFailed ==
  /\ status = "processing" /\ searchable # Chunks
  /\ status' = "failed"
  /\ UNCHANGED searchable

Next ==
  \/ Submit \/ TakeUp \/ DeclareReady \/ DeclareFailed
  \/ \E c \in Chunks : Publish(c)

Spec == Init /\ [][Next]_vars
=============================================================================
