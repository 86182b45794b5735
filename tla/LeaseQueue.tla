----------------------------- MODULE LeaseQueue -----------------------------
(***************************************************************************)
(* What the job queue promises its clients, with no table, no clock and no *)
(* worker loop: a submitted job waits, is held by one worker at a time,    *)
(* and each time it is taken one of its attempts is spent.  Only its       *)
(* holder finishes it or kills it; a holder that gives up, or that is      *)
(* declared dead, puts it back while attempts are left.  A finished job    *)
(* stays finished; a dead one can be revived with all its attempts.        *)
(***************************************************************************)
EXTENDS Naturals

CONSTANTS Jobs, Workers, NoWorker, MaxAttempts

VARIABLES state, holder, tries

vars == <<state, holder, tries>>

Init ==
  /\ state = [j \in Jobs |-> "absent"]
  /\ holder = [j \in Jobs |-> NoWorker]
  /\ tries = [j \in Jobs |-> 0]

Submit(j) ==
  /\ state[j] = "absent"
  /\ state' = [state EXCEPT ![j] = "waiting"]
  /\ UNCHANGED <<holder, tries>>

Take(w, j) ==
  /\ state[j] = "waiting" /\ tries[j] < MaxAttempts
  /\ state' = [state EXCEPT ![j] = "held"]
  /\ holder' = [holder EXCEPT ![j] = w]
  /\ tries' = [tries EXCEPT ![j] = @ + 1]

End(w, j, how) ==
  /\ state[j] = "held" /\ holder[j] = w
  /\ state' = [state EXCEPT ![j] = how]
  /\ holder' = [holder EXCEPT ![j] = NoWorker]
  /\ UNCHANGED tries

Finish(w, j) == End(w, j, "done")
Kill(w, j)   == End(w, j, "dead")
GiveBack(w, j) ==
  End(w, j, IF tries[j] < MaxAttempts THEN "waiting" ELSE "dead")

(* The holders of the jobs S are declared dead, all at once *)
Revoke(S) ==
  /\ \A j \in S : state[j] = "held"
  /\ state' = [j \in Jobs |->
                 IF j \notin S THEN state[j]
                 ELSE IF tries[j] < MaxAttempts THEN "waiting" ELSE "dead"]
  /\ holder' = [j \in Jobs |-> IF j \in S THEN NoWorker ELSE holder[j]]
  /\ UNCHANGED tries

Revive(S) ==
  /\ \A j \in S : state[j] = "dead"
  /\ state' = [j \in Jobs |-> IF j \in S THEN "waiting" ELSE state[j]]
  /\ tries' = [j \in Jobs |-> IF j \in S THEN 0 ELSE tries[j]]
  /\ UNCHANGED holder

Next ==
  \/ \E j \in Jobs : Submit(j)
  \/ \E w \in Workers, j \in Jobs :
       Take(w, j) \/ Finish(w, j) \/ Kill(w, j) \/ GiveBack(w, j)
  \/ \E S \in SUBSET Jobs : Revoke(S) \/ Revive(S)

Spec == Init /\ [][Next]_vars
=============================================================================
