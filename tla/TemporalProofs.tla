--------------------------- MODULE TemporalProofs ---------------------------
(***************************************************************************)
(* Theorems about TemporalEncoding, for every set of workers, hosts,       *)
(* chunks and encoders and every mix of events.                            *)
(***************************************************************************)
EXTENDS TemporalEncoding, TLAPS

(* The statements that these jobs meet turn a row into a row, and only     *)
(* complete() makes one that has succeeded.                                *)
LEMMA RowStep ==
  ASSUME NEW row \in Row
  PROVE  /\ Enqueued(row) \in Row /\ Revived(row) \in Row /\ Completed(row) \in Row
         /\ \A w \in Workers : Leased(row, w) \in Row
         /\ \A n \in Nat : Failed(row, n, TRUE) \in Row
         /\ Reaped([row EXCEPT !.stale = TRUE]) \in Row
         /\ [row EXCEPT !.delayed = FALSE] \in Row
<1> USE DEF Row, JobStatus
<1>1. Enqueued(row) \in Row /\ Revived(row) \in Row /\ Completed(row) \in Row
  BY DEF Enqueued, Revived, Completed, QueuedRow, NoRow
<1>2. \A w \in Workers : Leased(row, w) \in Row
  BY DEF Leased
<1>3. Retried(row) \in Row /\ Died(row) \in Row
  BY DEF Retried, Died
<1>4. \A n \in Nat : Failed(row, n, TRUE) \in Row
  BY <1>3 DEF Failed
<1>5. Reaped([row EXCEPT !.stale = TRUE]) \in Row
  BY DEF Reaped, Reapable
<1>6. [row EXCEPT !.delayed = FALSE] \in Row
  OBVIOUS
<1> QED BY <1>1, <1>2, <1>4, <1>5, <1>6

LEMMA SucceededOnlyByComplete ==
  ASSUME NEW row \in Row
  PROVE  /\ Enqueued(row).status = "succeeded" => row.status = "succeeded"
         /\ Revived(row).status = "succeeded" => row.status = "succeeded"
         /\ \A w : Leased(row, w).status # "succeeded"
         /\ \A n \in Nat : Failed(row, n, TRUE).status # "succeeded"
         /\ Reaped([row EXCEPT !.stale = TRUE]).status = "succeeded" => row.status = "succeeded"
         /\ [row EXCEPT !.delayed = FALSE].status = row.status
<1> USE DEF Row, JobStatus
<1>1. /\ Enqueued(row).status = "succeeded" => row.status = "succeeded"
      /\ Revived(row).status = "succeeded" => row.status = "succeeded"
  BY DEF Enqueued, Revived, QueuedRow, NoRow
<1>2. \A w : Leased(row, w).status # "succeeded"
  BY DEF Leased
<1>3. \A n \in Nat : Failed(row, n, TRUE).status # "succeeded"
  BY DEF Failed, Retried, Died
<1>4. Reaped([row EXCEPT !.stale = TRUE]).status = "succeeded" => row.status = "succeeded"
  BY DEF Reaped, Reapable
<1> QED BY <1>1, <1>2, <1>3, <1>4

LEMMA JobParts ==
  ASSUME NEW j \in Jobs
  PROVE  ChunkOf(j) \in Chunks /\ NameOf(j) \in Names \cup {Unnamed}
  BY DEF Jobs, ChunkOf, NameOf

(* The key of a job that is not forced ends in no second. *)
LEMMA FirstSecond == 0 \in Seconds
<1>1. PICK b \in Budgets : b \in [Kinds -> Nat]
  BY TemporalConstants
<1>2. b["force"] \in Nat /\ 0 \in 0 .. b["force"]
  BY <1>1 DEF Kinds
<1> QED BY <1>2 DEF Seconds

LEMMA EncoderIsKey ==
  ASSUME configured \in Names, NEW n \in Names \cup {Unnamed}
  PROVE  Encoder(n) \in Keys /\ (n # Unnamed => Encoder(n) = KeyOf[n])
  BY DEF Encoder, Keys

-----------------------------------------------------------------------------
(* A worker past its first transaction knows its chunk and its encoder. *)
Working == Places \ {"idle", "start"}

KnowsItsWork(p) ==
  /\ p.pc # "idle" => p.job \in Jobs
  /\ p.pc \in Working => /\ p.enc \in Keys
                         /\ NameOf(p.job) # Unnamed => p.enc = KeyOf[NameOf(p.job)]

Typed == TypeOK /\ \A w \in Workers : KnowsItsWork(worker[w])

LEMMA SpendTyped ==
  ASSUME used \in [Kinds -> Nat], NEW k \in Kinds, Spend(k)
  PROVE  used' \in [Kinds -> Nat]
  BY DEF Spend

(* Going on to another place, and dropping or taking note of something. *)
LEMMA ProcessStep ==
  ASSUME NEW p \in Process, KnowsItsWork(p), p.pc \in Working,
         NEW place \in Places \ {"start"}, NEW b \in BOOLEAN, NEW S \in SUBSET WindowSet
  PROVE  /\ [p EXCEPT !.pc = place] \in Process
         /\ [p EXCEPT !.pc = place, !.whole = b] \in Process
         /\ [p EXCEPT !.pc = place, !.old = S] \in Process
         /\ KnowsItsWork([p EXCEPT !.pc = place])
         /\ KnowsItsWork([p EXCEPT !.pc = place, !.whole = b])
         /\ KnowsItsWork([p EXCEPT !.pc = place, !.old = S])
<1>1. p.pc # "idle" /\ p.pc # "start"
  BY DEF Working
<1>2. /\ [p EXCEPT !.pc = place] \in Process
      /\ [p EXCEPT !.pc = place, !.whole = b] \in Process
      /\ [p EXCEPT !.pc = place, !.old = S] \in Process
  BY DEF Process
<1>3. p.job \in Jobs /\ p.enc \in Keys
      /\ (NameOf(p.job) # Unnamed => p.enc = KeyOf[NameOf(p.job)])
  BY <1>1 DEF KnowsItsWork
<1>4. \A q : q.job = p.job /\ q.enc = p.enc => KnowsItsWork(q)
  BY <1>3 DEF KnowsItsWork
<1>5. /\ [p EXCEPT !.pc = place].job = p.job /\ [p EXCEPT !.pc = place].enc = p.enc
      /\ [p EXCEPT !.pc = place, !.whole = b].job = p.job
      /\ [p EXCEPT !.pc = place, !.whole = b].enc = p.enc
      /\ [p EXCEPT !.pc = place, !.old = S].job = p.job
      /\ [p EXCEPT !.pc = place, !.old = S].enc = p.enc
  BY DEF Process
<1> QED BY <1>2, <1>4, <1>5

LEMMA InitTyped == Init => Typed
  BY TemporalConstants DEF Init, Typed, TypeOK, KnowsItsWork, Working, Row, JobStatus,
     NoRow, Process, Places, Idle

LEMMA NextTyped == Typed /\ [Next]_vars => Typed'
<1> SUFFICES ASSUME Typed, [Next]_vars PROVE Typed'
  OBVIOUS
<1> USE DEF Typed, TypeOK
<1>a. \A j \in Jobs : jobs[j] \in Row
  OBVIOUS
(* Most steps of a handler change the process of one worker only. *)
<1>b. ASSUME NEW w \in Workers, NEW p \in Process, KnowsItsWork(p),
             worker' = [worker EXCEPT ![w] = p]
      PROVE  worker' \in [Workers -> Process] /\ \A v \in Workers : KnowsItsWork(worker'[v])
  BY <1>b
<1>d. ASSUME NEW w \in Workers, NEW place \in Places \ {"start"}, Goto(w, place),
             worker[w].pc \in Working
      PROVE  worker' \in [Workers -> Process] /\ \A v \in Workers : KnowsItsWork(worker'[v])
  <2>1. worker' = [worker EXCEPT ![w] = [worker[w] EXCEPT !.pc = place]]
    BY <1>d DEF Goto
  <2> DEFINE p == [worker[w] EXCEPT !.pc = place]
  <2>2. p \in Process /\ KnowsItsWork(p)
    BY <1>d, ProcessStep
  <2> QED BY <2>1, <2>2, <1>b
<1>e. Idle \in Process /\ KnowsItsWork(Idle)
  BY DEF Idle, Process, Places, KnowsItsWork, Working
<1>f. \A w \in Workers : worker[w].pc \in Working =>
        /\ Mine(w) \in Chunks /\ worker[w].enc \in Keys /\ worker[w].job \in Jobs
        /\ Dir(w) \in Hosts \X Chunks
  <2> SUFFICES ASSUME NEW w \in Workers, worker[w].pc \in Working
               PROVE  /\ Mine(w) \in Chunks /\ worker[w].enc \in Keys
                      /\ worker[w].job \in Jobs /\ Dir(w) \in Hosts \X Chunks
    OBVIOUS
  <2>0. KnowsItsWork(worker[w]) /\ worker[w].pc # "idle"
    BY DEF Working
  <2>1. worker[w].job \in Jobs /\ worker[w].enc \in Keys
    BY <2>0 DEF KnowsItsWork
  <2>2. host[w] \in Hosts
    BY TemporalConstants
  <2> QED BY <2>1, <2>2, JobParts DEF Mine, Dir
<1>1. ASSUME NEW c \in Chunks, IndexChunk(c) PROVE Typed'
  BY <1>1 DEF IndexChunk, files, setting
<1>2. ASSUME NEW c \in Chunks, HandOver(c) PROVE Typed'
  <2>1. jobs' \in [Jobs -> Row]
    <3>1. <<c, Unnamed, 0>> \in Jobs
      BY FirstSecond DEF Jobs
    <3>2. Enqueued(jobs[<<c, Unnamed, 0>>]) \in Row
      BY <3>1, <1>a, RowStep
    <3> QED BY <1>2, <3>1, <3>2 DEF HandOver
  <2>2. used' \in [Kinds -> Nat]
    BY <1>2, SpendTyped DEF HandOver, Kinds
  <2> QED BY <1>2, <2>1, <2>2 DEF HandOver, files, setting
<1>3. ASSUME NEW n \in Names \cup {Unnamed}, NEW targets \in SUBSET Chunks,
             NEW second \in Seconds, Ask(targets, n, second), used' \in [Kinds -> Nat]
      PROVE  Typed'
  <2>1. jobs' \in [Jobs -> Row]
    BY <1>3, <1>a, RowStep DEF Ask
  <2>2. wanted' \subseteq Wish
    BY <1>3, EncoderIsKey DEF Ask, Wish, Jobs
  <2> QED BY <1>3, <2>1, <2>2 DEF Ask, library, files, setting
<1>3a. ASSUME NEW n \in Names \cup {Unnamed}, Backfill(n) PROVE Typed'
  <2>1. used' \in [Kinds -> Nat]
    BY <1>3a, SpendTyped DEF Backfill, Kinds
  <2>3. Missing(n) \in SUBSET Chunks
    BY DEF Missing
  <2> QED BY <1>3a, <2>1, <2>3, <1>3, FirstSecond DEF Backfill
<1>3b. ASSUME NEW n \in Names \cup {Unnamed}, BackfillForce(n) PROVE Typed'
  <2>1. used' \in [Kinds -> Nat]
    BY <1>3b, SpendTyped DEF BackfillForce, Kinds
  <2>2. used'["force"] \in Seconds
    <3>1. PICK b \in Budgets : used["force"] < b["force"]
      BY <1>3b DEF BackfillForce, Spend
    <3>2. b \in [Kinds -> Nat] /\ b["force"] \in Nat /\ used["force"] \in Nat
      BY TemporalConstants DEF Kinds
    <3>3. used'["force"] = used["force"] + 1
      BY <1>3b DEF BackfillForce, Spend, Kinds
    <3>4. used'["force"] \in 0 .. b["force"]
      BY <3>1, <3>2, <3>3
    <3> QED BY <3>4 DEF Seconds
  <2> QED BY <1>3b, <2>1, <2>2, <1>3 DEF BackfillForce
<1>4. ASSUME NEW k \in Keys, Retire(k) PROVE Typed'
  BY <1>4, SpendTyped DEF Retire, Kinds, files, setting
<1>5. ASSUME RetryVideo PROVE Typed'
  <2>1. jobs' \in [Jobs -> Row]
    BY <1>5, <1>a, RowStep DEF RetryVideo
  <2>2. used' \in [Kinds -> Nat]
    BY <1>5, SpendTyped DEF RetryVideo, Kinds
  <2> QED BY <1>5, <2>1, <2>2 DEF RetryVideo, library, files, setting
<1>6. ASSUME NEW n \in Names, Reconfigure(n) PROVE Typed'
  BY <1>6, SpendTyped DEF Reconfigure, Kinds, library, files
<1>7. ASSUME NEW w \in Workers, Lease(w) PROVE Typed'
  <2>1. PICK j \in Jobs :
          /\ jobs' = [jobs EXCEPT ![j] = Leased(@, w)]
          /\ worker' = [worker EXCEPT ![w] = [Idle EXCEPT !.pc = "start", !.job = j,
                                                          !.seen = jobs[j].attempts + 1]]
    BY <1>7 DEF Lease, MostUrgent, Leasable
  <2>2. jobs' \in [Jobs -> Row]
    BY <2>1, <1>a, RowStep
  <2>3. jobs[j].attempts + 1 \in Nat
    BY <1>a DEF Row
  <2>4. [Idle EXCEPT !.pc = "start", !.job = j, !.seen = jobs[j].attempts + 1] \in Process
    BY <2>3 DEF Idle, Process, Places
  <2>5. KnowsItsWork([Idle EXCEPT !.pc = "start", !.job = j, !.seen = jobs[j].attempts + 1])
    BY DEF KnowsItsWork, Working, Idle
  <2> QED BY <1>7, <2>1, <2>2, <2>4, <2>5, <1>b DEF Lease, library, files, setting
<1>8. ASSUME NEW w \in Workers, Complete(w) PROVE Typed'
  <2>1. jobs' \in [Jobs -> Row]
    BY <1>8, <1>a, <1>f, RowStep DEF Complete, At, Working, Places
  <2> QED BY <1>8, <2>1, <1>b, <1>e DEF Complete, library, files, setting
<1>9. ASSUME NEW w \in Workers, Fail(w) PROVE Typed'
  <2>1. worker[w].job \in Jobs /\ worker[w].seen \in Nat
    BY <1>9, <1>f DEF Fail, At, Working, Places, Process
  <2>2. jobs' \in [Jobs -> Row]
    BY <1>9, <2>1, <1>a, RowStep DEF Fail
  <2> QED BY <1>9, <2>2, <1>b, <1>e DEF Fail, library, files, setting
<1>10. ASSUME NEW w \in Workers, Crash(w) PROVE Typed'
  BY <1>10, <1>b, <1>e, SpendTyped DEF Crash, Kinds, library, files, setting
<1>11. ASSUME Reap PROVE Typed'
  <2>1. jobs' \in [Jobs -> Row]
    BY <1>11, <1>a, RowStep DEF Reap
  <2> QED BY <1>11, <2>1 DEF Reap, library, files, setting
<1>12. ASSUME NEW j \in Jobs, BackoffElapsed(j) PROVE Typed'
  <2>1. [jobs[j] EXCEPT !.delayed = FALSE] \in Row
    BY <1>a, RowStep
  <2>2. jobs' \in [Jobs -> Row]
    BY <1>12, <2>1 DEF BackoffElapsed
  <2> QED BY <1>12, <2>2 DEF BackoffElapsed, library, files, setting
<1>13. ASSUME NEW w \in Workers, Start(w) PROVE Typed'
  <2>1. worker[w].job \in Jobs
    BY <1>13 DEF Start, At, KnowsItsWork
  <2>2. PICK place \in {"ok", "fetch"} : worker' =
          [worker EXCEPT ![w] = [worker[w] EXCEPT !.enc = Encoder(NameOf(worker[w].job)),
                                                  !.pc = place]]
    BY <1>13 DEF Start
  <2> DEFINE p == [worker[w] EXCEPT !.enc = Encoder(NameOf(worker[w].job)), !.pc = place]
  <2>4. /\ Encoder(NameOf(worker[w].job)) \in Keys
        /\ NameOf(worker[w].job) # Unnamed =>
             Encoder(NameOf(worker[w].job)) = KeyOf[NameOf(worker[w].job)]
    BY <2>1, JobParts, EncoderIsKey
  <2>5. p \in Process
    <3>1. worker[w] \in Process /\ place \in Places
      BY DEF Places
    <3> QED BY <2>4, <3>1 DEF Process
  <2>6. p.job = worker[w].job /\ p.enc = Encoder(NameOf(worker[w].job))
    BY DEF Process
  <2>3. p \in Process /\ KnowsItsWork(p)
    BY <2>1, <2>4, <2>5, <2>6 DEF KnowsItsWork
  <2> QED BY <1>13, <2>2, <2>3, <1>b DEF Start, library, files, setting
<1>14. ASSUME NEW w \in Workers, Fetch(w) PROVE Typed'
  <2>1. host[w] \in Hosts
    BY TemporalConstants
  <2> QED BY <1>14, <2>1, <1>d DEF Fetch, At, Working, Places, library, setting
<1>15. ASSUME NEW w \in Workers, Cut(w) PROVE Typed'
  BY <1>15, <1>d DEF Cut, At, Working, Places, library, setting
<1>16. ASSUME NEW w \in Workers, CutEnds(w) PROVE Typed'
  <2>1. worker[w].pc \in Working
    BY <1>16 DEF CutEnds, At, Working, Places
  <2>2. frames' \in [Hosts \X Chunks -> {"gone", "full"} \cup Workers]
    BY <1>16 DEF CutEnds
  <2>3. Goto(w, "error") \/ Goto(w, "open")
    BY <1>16 DEF CutEnds
  <2>4. worker' \in [Workers -> Process] /\ \A v \in Workers : KnowsItsWork(worker'[v])
    BY <2>1, <2>3, <1>d DEF Places
  <2> QED BY <1>16, <2>2, <2>4 DEF CutEnds, library, setting
<1>17. ASSUME NEW w \in Workers, Open(w) PROVE Typed'
  <2>1. worker[w].pc \in Working
    BY <1>17 DEF Open, At, Working, Places
  <2>2. frames' \in [Hosts \X Chunks -> {"gone", "full"} \cup Workers]
    BY <1>17 DEF Open
  <2> DEFINE p == [worker[w] EXCEPT !.pc = "embed", !.whole = frames[Dir(w)] = "full"]
  <2>3. p \in Process /\ KnowsItsWork(p)
    BY <2>1, ProcessStep DEF Places
  <2>4. worker' = [worker EXCEPT ![w] = p] \/ Goto(w, "ok") \/ Goto(w, "error")
    BY <1>17 DEF Open
  <2>5. worker' \in [Workers -> Process] /\ \A v \in Workers : KnowsItsWork(worker'[v])
    BY <2>1, <2>3, <2>4, <1>b, <1>d DEF Places
  <2> QED BY <1>17, <2>2, <2>5 DEF Open, library, setting
<1>18. ASSUME NEW w \in Workers, Embed(w) PROVE Typed'
  BY <1>18, <1>d DEF Embed, At, Working, Places, library, setting
<1>19. ASSUME NEW w \in Workers, WorkRaises(w) PROVE Typed'
  <2>1. worker[w].pc \in Places
    BY <1>b DEF Process
  <2>2. worker[w].pc \in Working
    BY <1>19, <2>1 DEF WorkRaises, Working
  <2>3. used' \in [Kinds -> Nat]
    BY <1>19, SpendTyped DEF WorkRaises, Kinds
  <2> QED BY <1>19, <1>d, <2>2, <2>3 DEF WorkRaises, Working, Places, library, files, setting
<1>20. ASSUME NEW w \in Workers, DeleteOld(w) PROVE Typed'
  <2>1. worker[w].pc \in Working
    BY <1>20 DEF DeleteOld, At, Working, Places
  <2> DEFINE p == [worker[w] EXCEPT !.pc = "insert", !.old = rows[Mine(w)][worker[w].enc]]
  <2>2. rows[Mine(w)][worker[w].enc] \subseteq WindowSet
    BY <2>1, <1>f
  <2>3. p \in Process /\ KnowsItsWork(p)
    BY <2>1, <2>2, ProcessStep DEF Places
  <2> QED BY <1>20, <2>3, <1>b DEF DeleteOld, library, files, setting
<1>21. ASSUME NEW w \in Workers, InsertNew(w) PROVE Typed'
  <2>1. worker[w].pc \in Working
    BY <1>21 DEF InsertNew, At, Working, Places
  <2> DEFINE p == [worker[w] EXCEPT !.pc = "register", !.old = {}]
             x == [by |-> w, for |-> worker[w].job, whole |-> worker[w].whole]
  <2>2. x \in WindowSet /\ Mine(w) \in Chunks /\ worker[w].enc \in Keys
    BY <2>1, <1>f DEF WindowSet, Process
  <2>3. p \in Process /\ KnowsItsWork(p)
    BY <2>1, ProcessStep DEF Places
  <2>4. rows' = [rows EXCEPT ![Mine(w)] = [rows[Mine(w)] EXCEPT
                   ![worker[w].enc] = (@ \ worker[w].old) \cup {x}]]
    BY <1>21 DEF InsertNew
  <2>5. rows' \in [Chunks -> [Keys -> SUBSET WindowSet]]
    BY <2>2, <2>4
  <2>6. encoded' \subseteq Chunks
    BY <1>21, <2>2 DEF InsertNew
  <2> QED BY <1>21, <2>3, <2>5, <2>6, <1>b DEF InsertNew, files, setting
<1>22. ASSUME NEW w \in Workers, Register(w) PROVE Typed'
  BY <1>22, <1>d DEF Register, At, Working, Places, library, files, setting
<1>23. ASSUME NEW w \in Workers, Build(w) PROVE Typed'
  BY <1>23, <1>d DEF Build, At, Working, Places, files, setting
<1>24. ASSUME NEW w \in Workers, Drop(w) PROVE Typed'
  BY <1>24, <1>d DEF Drop, At, Working, Places, files, library, setting
<1>25. CASE UNCHANGED vars
  BY <1>25 DEF vars, library, files, setting
<1> QED
  BY <1>1, <1>2, <1>3a, <1>3b, <1>4, <1>5, <1>6, <1>7, <1>8, <1>9, <1>10, <1>11, <1>12, <1>13,
     <1>14, <1>15, <1>16, <1>17, <1>18, <1>19, <1>20, <1>21, <1>22, <1>23, <1>24, <1>25
  DEF Next, Handler, Command

(* The variables of the encoder keep their types in every behaviour, and   *)
(* each worker knows the chunk and the encoder it works for.               *)
THEOREM EncodingTypeCorrect == Spec => []TypeOK
<1>1. Spec => []Typed
  BY InitTyped, NextTyped, PTL DEF Spec
<1>2. Typed => TypeOK
  BY DEF Typed
<1> QED BY <1>1, <1>2, PTL

-----------------------------------------------------------------------------
(* Only the commit of encode_temporal touches the rows, in one cell. *)
LEMMA RowsChange == [Next]_vars => rows' = rows \/ \E w \in Workers : InsertNew(w)
<1> SUFFICES ASSUME [Next]_vars, rows' # rows PROVE \E w \in Workers : InsertNew(w)
  OBVIOUS
<1>1. CASE UNCHANGED vars
  BY <1>1 DEF vars, library
<1>2. CASE Command
  BY <1>2 DEF Command, library, Backfill, BackfillForce, Ask, Retire, RetryVideo, Reconfigure
<1>3. CASE \E c \in Chunks : IndexChunk(c) \/ HandOver(c)
  BY <1>3 DEF IndexChunk, HandOver
<1>4. CASE Reap \/ \E j \in Jobs : BackoffElapsed(j)
  BY <1>4 DEF Reap, BackoffElapsed, library
<1>5. CASE \E w \in Workers : Lease(w) \/ Complete(w) \/ Fail(w) \/ Crash(w)
  <2> SUFFICES ASSUME NEW w \in Workers, Lease(w) \/ Complete(w) \/ Fail(w) \/ Crash(w)
               PROVE  rows' = rows
    BY <1>5
  <2>1. library' = library
    BY DEF Lease, Complete, Fail, Crash
  <2> QED BY <2>1 DEF library
<1>6. CASE \E w \in Workers : Handler(w)
  <2> SUFFICES ASSUME NEW w \in Workers, Handler(w), ~InsertNew(w) PROVE rows' = rows
    BY <1>6
  <2>1. CASE Start(w) \/ Fetch(w) \/ Cut(w) \/ CutEnds(w) \/ Open(w) \/ Embed(w)
    BY <2>1 DEF Start, Fetch, Cut, CutEnds, Open, Embed, library
  <2>2. CASE WorkRaises(w) \/ DeleteOld(w) \/ Register(w) \/ Build(w) \/ Drop(w)
    BY <2>2 DEF WorkRaises, DeleteOld, Register, Build, Drop, library
  <2> QED BY <2>1, <2>2 DEF Handler
<1> QED BY <1>1, <1>2, <1>3, <1>4, <1>5, <1>6 DEF Next

NewSet(w) == [by |-> w, for |-> worker[w].job, whole |-> worker[w].whole]

LEMMA RowsInserted ==
  ASSUME Typed, NEW w \in Workers, InsertNew(w), NEW c \in Chunks, NEW k \in Keys
  PROVE  rows'[c][k] = IF c = Mine(w) /\ k = worker[w].enc
                         THEN (rows[c][k] \ worker[w].old) \cup {NewSet(w)}
                         ELSE rows[c][k]
<1>1. rows \in [Chunks -> [Keys -> SUBSET WindowSet]]
  BY DEF Typed, TypeOK
<1>2. rows' = [rows EXCEPT ![Mine(w)] = [rows[Mine(w)] EXCEPT
                 ![worker[w].enc] = (@ \ worker[w].old) \cup {NewSet(w)}]]
  BY DEF InsertNew, NewSet
<1> QED BY <1>1, <1>2

LEMMA RowsGrow ==
  ASSUME Typed, [Next]_vars, NEW c \in Chunks, NEW k \in Keys, rows[c][k] # {}
  PROVE  rows'[c][k] # {}
<1>1. CASE rows' = rows
  BY <1>1
<1>2. ASSUME NEW w \in Workers, InsertNew(w) PROVE rows'[c][k] # {}
  BY <1>2, RowsInserted
<1> QED BY <1>1, <1>2, RowsChange

(* A chunk never leaves the temporal lane of an encoder: DELETE and INSERT *)
(* are one transaction.                                                    *)
THEOREM RowsNeverVanish == Spec => RowsStay
<1>1. Typed /\ [Next]_vars =>
        [\A c \in Chunks, k \in Keys : rows[c][k] # {} => rows'[c][k] # {}]_vars
  BY RowsGrow
<1> QED BY <1>1, InitTyped, NextTyped, PTL DEF Spec, RowsStay

-----------------------------------------------------------------------------
(***************************************************************************)
(* Why sets do not pile up: between DELETE and commit nobody else writes   *)
(* in a worker's name, so what it wrote earlier is among what it deletes.  *)
(***************************************************************************)
ReplacesItsOwn ==
  \A w \in Workers : At(w, "insert") =>
    \A x \in rows[Mine(w)][worker[w].enc] : x.by = w => x \in worker[w].old

PileInv == Typed /\ OneSetPerWriter /\ ReplacesItsOwn

LEMMA InitPileInv == Init => PileInv
<1> SUFFICES ASSUME Init PROVE OneSetPerWriter /\ ReplacesItsOwn
  BY InitTyped DEF PileInv
<1>1. OneSetPerWriter
  BY DEF Init, OneSetPerWriter
<1>2. ReplacesItsOwn
  BY DEF Init, ReplacesItsOwn, At, Idle
<1> QED BY <1>1, <1>2

(* A process moves by its own step only. *)
Moves(w) == Lease(w) \/ Handler(w) \/ Complete(w) \/ Fail(w) \/ Crash(w)

LEMMA OnlyWorkersMove ==
  [Next]_vars => \/ worker' = worker /\ web' = web /\ frames' = frames
                 \/ \E w \in Workers : Moves(w)
  BY DEF Next, Command, Moves, vars, files, IndexChunk, HandOver, Backfill, BackfillForce,
     Ask, Retire, RetryVideo, Reconfigure, Reap, BackoffElapsed

LEMMA OthersStay ==
  ASSUME Typed, NEW w \in Workers, NEW v \in Workers, w # v, Moves(w)
  PROVE  worker'[v] = worker[v]
<1>1. worker \in [Workers -> Process]
  BY DEF Typed, TypeOK
<1>2. ASSUME NEW r, worker' = [worker EXCEPT ![w] = r]
      PROVE  worker'[v] = worker[v]
  BY <1>1, <1>2
<1>3. CASE Lease(w)
  <2>1. PICK j : worker' = [worker EXCEPT ![w] = [Idle EXCEPT !.pc = "start", !.job = j,
                                                               !.seen = jobs[j].attempts + 1]]
    BY <1>3 DEF Lease
  <2> QED BY <2>1, <1>2
<1>4. CASE Complete(w) \/ Fail(w) \/ Crash(w)
  BY <1>4, <1>2 DEF Complete, Fail, Crash
<1>5. CASE Fetch(w) \/ Cut(w) \/ CutEnds(w) \/ Embed(w) \/ WorkRaises(w)
           \/ Register(w) \/ Build(w) \/ Drop(w)
  BY <1>5, <1>1 DEF Goto, Fetch, Cut, CutEnds, Embed, WorkRaises, Register, Build, Drop
<1>6. CASE Start(w)
  BY <1>6, <1>1 DEF Start
<1>7. CASE Open(w)
  BY <1>7, <1>1 DEF Open, Goto
<1>8. CASE DeleteOld(w) \/ InsertNew(w)
  BY <1>8, <1>1 DEF DeleteOld, InsertNew
<1> QED BY <1>3, <1>4, <1>5, <1>6, <1>7, <1>8 DEF Moves, Handler

(* Who is about to commit was so before, or has just done its DELETE. *)
LEMMA InsertComesFromDelete ==
  ASSUME Typed, [Next]_vars, NEW v \in Workers, At(v, "insert")'
  PROVE  worker'[v] = worker[v] \/ DeleteOld(v)
<1>1. worker \in [Workers -> Process] /\ worker[v] \in Process
  BY DEF Typed, TypeOK
<1> USE <1>1 DEF At, Goto, Process
<1>2. CASE worker' = worker
  BY <1>2
<1>3. ASSUME NEW w \in Workers, Lease(w) PROVE worker'[v] = worker[v]
  BY <1>3 DEF Lease, Idle
<1>4. ASSUME NEW w \in Workers, Complete(w) \/ Fail(w) \/ Crash(w)
      PROVE  worker'[v] = worker[v]
  <2>1. worker' = [worker EXCEPT ![w] = Idle]
    BY <1>4 DEF Complete, Fail, Crash
  <2>2. Idle.pc # "insert"
    BY DEF Idle
  <2> QED BY <2>1, <2>2
<1>5. ASSUME NEW w \in Workers, Start(w) PROVE worker'[v] = worker[v]
  BY <1>5 DEF Start
<1>6. ASSUME NEW w \in Workers,
             Fetch(w) \/ Cut(w) \/ CutEnds(w) \/ Embed(w) \/ WorkRaises(w)
               \/ Register(w) \/ Build(w) \/ Drop(w)
      PROVE  worker'[v] = worker[v]
  BY <1>6 DEF Fetch, Cut, CutEnds, Embed, WorkRaises, Register, Build, Drop
<1>7. ASSUME NEW w \in Workers, Open(w) PROVE worker'[v] = worker[v]
  BY <1>7 DEF Open
<1>8. ASSUME NEW w \in Workers, InsertNew(w) PROVE worker'[v] = worker[v]
  BY <1>8 DEF InsertNew
<1>9. ASSUME NEW w \in Workers, DeleteOld(w)
      PROVE  worker'[v] = worker[v] \/ DeleteOld(v)
  <2>1. CASE w = v
    BY <1>9, <2>1
  <2>2. CASE w # v
    BY <1>9, <2>2 DEF DeleteOld
  <2> QED BY <2>1, <2>2
<1> QED
  BY <1>2, <1>3, <1>4, <1>5, <1>6, <1>7, <1>8, <1>9, OnlyWorkersMove DEF Handler, Moves

LEMMA NextPileInv == PileInv /\ [Next]_vars => PileInv'
<1> SUFFICES ASSUME PileInv, [Next]_vars PROVE OneSetPerWriter' /\ ReplacesItsOwn'
  BY NextTyped DEF PileInv
<1>1. Typed /\ OneSetPerWriter /\ ReplacesItsOwn
  BY DEF PileInv
<1>2. \A v \in Workers : worker[v].pc \in Working =>
        Mine(v) \in Chunks /\ worker[v].enc \in Keys
  BY <1>1, JobParts DEF Typed, KnowsItsWork, Working, Mine
<1>3. CASE rows' = rows
  <2>1. OneSetPerWriter'
    BY <1>1, <1>3 DEF OneSetPerWriter
  <2>2. ASSUME NEW v \in Workers, At(v, "insert")',
               NEW x \in rows'[Mine(v)'][worker'[v].enc], x.by = v
        PROVE  x \in worker'[v].old
    <3>1. CASE worker'[v] = worker[v]
      <4>1. At(v, "insert") /\ Mine(v)' = Mine(v)
        BY <2>2, <3>1 DEF At, Mine
      <4>2. x \in rows[Mine(v)][worker[v].enc]
        BY <2>2, <3>1, <4>1, <1>3
      <4> QED BY <1>1, <2>2, <3>1, <4>1, <4>2 DEF ReplacesItsOwn
    <3>2. CASE DeleteOld(v)
      <4>1. /\ worker'[v].old = rows[Mine(v)][worker[v].enc]
            /\ worker'[v].job = worker[v].job /\ worker'[v].enc = worker[v].enc
        BY <1>1, <3>2 DEF DeleteOld, Typed, TypeOK, Process
      <4>2. Mine(v)' = Mine(v)
        BY <4>1 DEF Mine
      <4> QED BY <2>2, <4>1, <4>2, <1>3
    <3> QED BY <1>1, <2>2, <3>1, <3>2, InsertComesFromDelete
  <2>3. ReplacesItsOwn'
    BY <2>2 DEF ReplacesItsOwn
  <2> QED BY <2>1, <2>3
<1>4. ASSUME NEW w \in Workers, InsertNew(w) PROVE OneSetPerWriter' /\ ReplacesItsOwn'
  <2>1. At(w, "insert") /\ worker[w].pc \in Working
    BY <1>4 DEF InsertNew, At, Working, Places
  <2>2. \A x \in rows[Mine(w)][worker[w].enc] : x.by = w => x \in worker[w].old
    BY <1>1, <2>1 DEF ReplacesItsOwn
  <2>3. NewSet(w).by = w
    BY DEF NewSet
  <2>a. \A c \in Chunks, k \in Keys : rows'[c][k] =
          IF c = Mine(w) /\ k = worker[w].enc
            THEN (rows[c][k] \ worker[w].old) \cup {NewSet(w)} ELSE rows[c][k]
    BY <1>1, <1>4, RowsInserted
  <2>4. \A c \in Chunks, k \in Keys : \A x \in rows'[c][k] : x.by # w => x \in rows[c][k]
    <3> SUFFICES ASSUME NEW c \in Chunks, NEW k \in Keys, NEW x \in rows'[c][k], x.by # w
                 PROVE  x \in rows[c][k]
      OBVIOUS
    <3>1. x # NewSet(w)
      BY <2>3
    <3>2. CASE c = Mine(w) /\ k = worker[w].enc
      <4>1. rows'[c][k] = (rows[c][k] \ worker[w].old) \cup {NewSet(w)}
        BY <2>a, <3>2
      <4> QED BY <3>1, <4>1
    <3>3. CASE ~(c = Mine(w) /\ k = worker[w].enc)
      <4>1. rows'[c][k] = rows[c][k]
        BY <2>a, <3>3
      <4> QED BY <4>1
    <3> QED BY <3>2, <3>3
  <2>5. \A c \in Chunks, k \in Keys : \A x \in rows'[c][k] : x.by = w =>
          IF c = Mine(w) /\ k = worker[w].enc THEN x = NewSet(w) ELSE x \in rows[c][k]
    <3> SUFFICES ASSUME NEW c \in Chunks, NEW k \in Keys, NEW x \in rows'[c][k], x.by = w
                 PROVE  IF c = Mine(w) /\ k = worker[w].enc THEN x = NewSet(w)
                                                           ELSE x \in rows[c][k]
      OBVIOUS
    <3>1. CASE c = Mine(w) /\ k = worker[w].enc
      <4>1. rows'[c][k] = (rows[c][k] \ worker[w].old) \cup {NewSet(w)}
        BY <2>a, <3>1
      <4>2. x \in rows[c][k] => x \in worker[w].old
        BY <2>2, <3>1
      <4> QED BY <3>1, <4>1, <4>2
    <3>2. CASE ~(c = Mine(w) /\ k = worker[w].enc)
      <4>1. rows'[c][k] = rows[c][k]
        BY <2>a, <3>2
      <4> QED BY <3>2, <4>1
    <3> QED BY <3>1, <3>2
  <2>6. OneSetPerWriter'
    <3> SUFFICES ASSUME NEW c \in Chunks, NEW k \in Keys,
                        NEW x \in rows'[c][k], NEW y \in rows'[c][k], x.by = y.by
                 PROVE  x = y
      BY DEF OneSetPerWriter
    <3>1. CASE x.by = w
      <4>1. y.by = w
        BY <3>1
      <4>2. CASE c = Mine(w) /\ k = worker[w].enc
        BY <2>5, <3>1, <4>1, <4>2
      <4>3. CASE ~(c = Mine(w) /\ k = worker[w].enc)
        <5>1. x \in rows[c][k] /\ y \in rows[c][k]
          BY <2>5, <3>1, <4>1, <4>3
        <5> QED BY <1>1, <5>1 DEF OneSetPerWriter
      <4> QED BY <4>2, <4>3
    <3>2. CASE x.by # w
      BY <1>1, <2>4, <3>2 DEF OneSetPerWriter
    <3> QED BY <3>1, <3>2
  <2>7. \A v \in Workers \ {w} : worker'[v] = worker[v]
    BY <1>1, <1>4 DEF InsertNew, Typed, TypeOK
  <2>8. ~At(w, "insert")'
    BY <1>1, <1>4 DEF InsertNew, Typed, TypeOK, At, Process
  <2>9. ASSUME NEW v \in Workers \ {w}, At(v, "insert")',
               NEW x \in rows'[Mine(v)'][worker'[v].enc], x.by = v
        PROVE  x \in worker'[v].old
    <3>1. At(v, "insert") /\ Mine(v)' = Mine(v) /\ worker[v].pc \in Working
      BY <2>7, <2>9 DEF At, Mine, Working, Places
    <3>2. x \in rows[Mine(v)][worker[v].enc]
      BY <1>2, <2>4, <2>7, <2>9, <3>1
    <3> QED BY <1>1, <2>7, <2>9, <3>1, <3>2 DEF ReplacesItsOwn
  <2>10. ReplacesItsOwn'
    BY <2>8, <2>9 DEF ReplacesItsOwn
  <2> QED BY <2>6, <2>10
<1> QED BY <1>3, <1>4, RowsChange

(* However many jobs race for a chunk and an encoder, no worker leaves two *)
(* window sets there.                                                      *)
THEOREM WritersReplaceTheirOwn == Spec => []OneSetPerWriter
<1>1. PileInv => OneSetPerWriter
  BY DEF PileInv
<1> QED BY <1>1, InitPileInv, NextPileInv, PTL DEF Spec

-----------------------------------------------------------------------------
(***************************************************************************)
(* What a worker that shares its host with nobody may rely on at each      *)
(* place: the video is in the cache when ffmpeg starts, the frames are     *)
(* there when they are opened if the chunk has any, and then the rows are  *)
(* there when the job is done.                                             *)
(***************************************************************************)
Reliable(w) ==
  /\ At(w, "cut")     => host[w] \in web
  /\ At(w, "cutting") => frames[Dir(w)] = w
  /\ At(w, "open")    => frames[Dir(w)] = "full"
  /\ worker[w].pc \in {"embed", "delete", "insert"} => worker[w].whole
  /\ worker[w].pc \in {"register", "build", "drop", "ok"} /\ HasPicture(w) =>
       rows[Mine(w)][worker[w].enc] # {}

AllWhole == \A c \in Chunks, k \in Keys : \A x \in rows[c][k] : x.whole

StoredInv ==
  Typed /\ (Apart => (\A w \in Workers : Reliable(w)) /\ AllWhole /\ SuccessIsStored)

LEMMA InitStoredInv == Init => StoredInv
<1> SUFFICES ASSUME Init PROVE (\A w \in Workers : Reliable(w)) /\ AllWhole /\ SuccessIsStored
  BY InitTyped DEF StoredInv
<1>1. \A w \in Workers : Reliable(w)
  BY DEF Init, Reliable, At, Idle
<1>2. AllWhole
  BY DEF Init, AllWhole
<1>3. SuccessIsStored
  BY DEF Init, SuccessIsStored, NoRow
<1> QED BY <1>1, <1>2, <1>3

(* The statements that write the jobs table. *)
LEMMA WhoWritesJobs ==
  ASSUME [Next]_vars
  PROVE  \/ jobs' = jobs
         \/ \E c \in Chunks : HandOver(c)
         \/ \E n \in Names \cup {Unnamed} : Backfill(n) \/ BackfillForce(n)
         \/ RetryVideo \/ Reap
         \/ \E w \in Workers : Lease(w) \/ Complete(w) \/ Fail(w)
         \/ \E i \in Jobs : BackoffElapsed(i)
<1>1. CASE UNCHANGED vars
  BY <1>1 DEF vars
<1>2. ASSUME NEW w \in Workers, Handler(w) \/ Crash(w) PROVE jobs' = jobs
  BY <1>2 DEF Handler, Crash, Start, Fetch, Cut, CutEnds, Open, Embed, WorkRaises,
     DeleteOld, InsertNew, Register, Build, Drop
<1>3. ASSUME NEW c \in Chunks, IndexChunk(c) PROVE jobs' = jobs
  BY <1>3 DEF IndexChunk
<1>4. CASE Command
  BY <1>4 DEF Command, Retire, Reconfigure
<1> QED BY <1>1, <1>2, <1>3, <1>4 DEF Next

(* Nothing but complete() makes a job succeed. *)
LEMMA NewSuccess ==
  ASSUME Typed, [Next]_vars, NEW j \in Jobs, jobs'[j].status = "succeeded"
  PROVE  \/ jobs[j].status = "succeeded"
         \/ \E w \in Workers : Complete(w) /\ worker[w].job = j
<1>1. jobs \in [Jobs -> Row] /\ jobs[j] \in Row
  BY DEF Typed, TypeOK
<1>2. CASE jobs' = jobs
  BY <1>2
<1>3. ASSUME NEW c \in Chunks, HandOver(c) PROVE jobs[j].status = "succeeded"
  BY <1>1, <1>3, SucceededOnlyByComplete DEF HandOver
<1>4. ASSUME NEW targets, NEW n, NEW second, Ask(targets, n, second)
      PROVE  jobs[j].status = "succeeded"
  BY <1>1, <1>4, SucceededOnlyByComplete DEF Ask
<1>5. ASSUME RetryVideo PROVE jobs[j].status = "succeeded"
  BY <1>1, <1>5, SucceededOnlyByComplete DEF RetryVideo
<1>6. ASSUME NEW w \in Workers, Lease(w) PROVE jobs[j].status = "succeeded"
  <2>1. PICK i : jobs' = [jobs EXCEPT ![i] = Leased(jobs[i], w)]
    BY <1>6 DEF Lease
  <2>2. CASE i = j
    BY <1>1, <2>1, <2>2, SucceededOnlyByComplete
  <2>3. CASE i # j
    BY <1>1, <2>1, <2>3
  <2> QED BY <2>2, <2>3
<1>7. ASSUME NEW w \in Workers, Complete(w)
      PROVE  jobs[j].status = "succeeded" \/ worker[w].job = j
  BY <1>1, <1>7 DEF Complete
<1>8. ASSUME NEW w \in Workers, Fail(w) PROVE jobs[j].status = "succeeded"
  <2>1. worker[w].seen \in Nat
    BY DEF Typed, TypeOK, Process
  <2> QED BY <1>1, <1>8, <2>1, SucceededOnlyByComplete DEF Fail
<1>9. ASSUME Reap PROVE jobs[j].status = "succeeded"
  BY <1>1, <1>9, SucceededOnlyByComplete DEF Reap
<1>10. ASSUME NEW i \in Jobs, BackoffElapsed(i) PROVE jobs[j].status = "succeeded"
  BY <1>1, <1>10, SucceededOnlyByComplete DEF BackoffElapsed
<1> QED
  BY <1>2, <1>3, <1>4, <1>5, <1>6, <1>7, <1>8, <1>9, <1>10, WhoWritesJobs
  DEF Backfill, BackfillForce

(* A worker past its first transaction has a chunk, a key and a directory. *)
LEMMA WorkPlace ==
  ASSUME Typed, NEW v \in Workers, worker[v].pc \in Working
  PROVE  Mine(v) \in Chunks /\ worker[v].enc \in Keys /\ Dir(v) \in Hosts \X Chunks
<1>1. host[v] \in Hosts
  BY TemporalConstants DEF Typed, TypeOK
<1>2. worker[v].job \in Jobs /\ worker[v].enc \in Keys
  BY DEF Typed, KnowsItsWork, Working
<1> QED BY <1>1, <1>2, JobParts DEF Mine, Dir

(* A worker that does not move stays reliable while its host's files stay. *)
LEMMA OthersReliable ==
  ASSUME Typed, [Next]_vars, host' = host, filmed' = filmed, NEW v \in Workers, Reliable(v),
         worker'[v] = worker[v],
         host[v] \in web => host[v] \in web',
         \A d \in Hosts \X Chunks : d[1] = host[v] => frames'[d] = frames[d]
  PROVE  Reliable(v)'
<1>1. /\ Dir(v)' = Dir(v) /\ Mine(v)' = Mine(v) /\ host'[v] = host[v]
      /\ HasPicture(v)' <=> HasPicture(v)
  BY DEF Dir, Mine, HasPicture
<1>2. worker[v].pc \in Working =>
        Mine(v) \in Chunks /\ worker[v].enc \in Keys /\ Dir(v) \in Hosts \X Chunks
  BY WorkPlace
<1>3. Dir(v)[1] = host[v]
  BY DEF Dir
<1>4. worker[v].pc \in Working => frames'[Dir(v)] = frames[Dir(v)]
  BY <1>2, <1>3
<1>5. worker[v].pc \in Working /\ rows[Mine(v)][worker[v].enc] # {} =>
        rows'[Mine(v)][worker[v].enc] # {}
  BY <1>2, RowsGrow
<1>6. \A place \in {"cut", "cutting", "open", "register", "build", "drop", "ok"} :
        place \in Working
  BY DEF Working, Places
<1>7. (At(v, "cut") => host[v] \in web)'
  BY <1>1 DEF Reliable, At
<1>8. (At(v, "cutting") => frames[Dir(v)] = v)'
  BY <1>1, <1>4, <1>6 DEF Reliable, At
<1>9. (At(v, "open") => frames[Dir(v)] = "full")'
  BY <1>1, <1>4, <1>6 DEF Reliable, At
<1>10. (worker[v].pc \in {"embed", "delete", "insert"} => worker[v].whole)'
  BY DEF Reliable
<1>11. (worker[v].pc \in {"register", "build", "drop", "ok"} /\ HasPicture(v) =>
         rows[Mine(v)][worker[v].enc] # {})'
  BY <1>1, <1>5, <1>6 DEF Reliable
<1> QED BY <1>7, <1>8, <1>9, <1>10, <1>11 DEF Reliable

(* A worker keeps what it relies on through its own steps. *)
LEMMA OwnReliable ==
  ASSUME Typed, Apart, [Next]_vars, NEW w \in Workers, Reliable(w), host' = host,
         filmed' = filmed, Moves(w)
  PROVE  Reliable(w)'
<1> DEFINE Here == rows[Mine(w)][worker[w].enc]
<1>1. /\ worker \in [Workers -> Process] /\ worker[w] \in Process
      /\ frames \in [Hosts \X Chunks -> {"gone", "full"} \cup Workers]
  BY DEF Typed, TypeOK
<1>2. worker[w].pc \in Working =>
        Mine(w) \in Chunks /\ worker[w].enc \in Keys /\ Dir(w) \in Hosts \X Chunks
  BY WorkPlace
(* Most places ask for nothing, and the job and the encoder rarely change. *)
<1>3. ASSUME worker'[w].pc \notin {"cut", "cutting", "open", "embed", "delete", "insert",
                                   "register", "build", "drop", "ok"}
      PROVE  Reliable(w)'
  BY <1>3 DEF Reliable, At
<1>4. ASSUME NEW place \in Places, Goto(w, place)
      PROVE  /\ worker'[w].pc = place /\ Mine(w)' = Mine(w) /\ Dir(w)' = Dir(w)
             /\ worker'[w].enc = worker[w].enc /\ worker'[w].whole = worker[w].whole
  BY <1>1, <1>4 DEF Goto, Mine, Dir, Process
<1>5. CASE Lease(w)
  <2>1. PICK j : worker' = [worker EXCEPT ![w] = [Idle EXCEPT !.pc = "start", !.job = j,
                              !.seen = jobs[j].attempts + 1]]
    BY <1>5 DEF Lease
  <2>2. worker'[w] = [Idle EXCEPT !.pc = "start", !.job = j, !.seen = jobs[j].attempts + 1]
    BY <1>1, <2>1
  <2>3. worker'[w].pc = "start"
    BY <2>2 DEF Idle
  <2> QED BY <2>3, <1>3
<1>6. CASE Complete(w) \/ Fail(w) \/ Crash(w)
  <2>1. worker' = [worker EXCEPT ![w] = Idle]
    BY <1>6 DEF Complete, Fail, Crash
  <2>2. worker'[w].pc = "idle"
    BY <1>1, <2>1 DEF Idle
  <2> QED BY <2>2, <1>3
<1>7. CASE Start(w)
  <2>1. /\ worker'[w].job = worker[w].job
        /\ worker'[w].pc \in {"ok", "fetch"}
        /\ worker'[w].pc = "ok" => Has(Mine(w), worker'[w].enc)
        /\ rows' = rows
    BY <1>1, <1>7 DEF Start, Process, library
  <2>2. Mine(w)' = Mine(w)
    BY <2>1 DEF Mine
  <2> QED BY <2>1, <2>2 DEF Reliable, At, Has
<1>8. CASE Fetch(w)
  <2>1. worker'[w].pc = "cut" /\ host[w] \in web'
    BY <1>4, <1>8 DEF Fetch, Places
  <2> QED BY <2>1 DEF Reliable, At
<1>9. CASE Cut(w)
  <2>1. Dir(w) \in Hosts \X Chunks
    BY <1>2, <1>9 DEF Cut, At, Working, Places
  <2>2. frames'[Dir(w)] = w
    BY <1>1, <1>9, <2>1 DEF Cut
  <2>3. worker'[w].pc \in {"cutting", "error"} /\ Dir(w)' = Dir(w)
    BY <1>4, <1>9 DEF Cut, Places
  <2> QED BY <2>2, <2>3 DEF Reliable, At
<1>10. CASE CutEnds(w)
  <2>1. Dir(w) \in Hosts \X Chunks
    BY <1>2, <1>10 DEF CutEnds, At, Working, Places
  <2>2. frames[Dir(w)] = w /\ w # "gone"
    BY <1>10, TemporalConstants DEF CutEnds, Reliable
  <2>3. Goto(w, "open") /\ frames' = [frames EXCEPT ![Dir(w)] = "full"]
    BY <1>10, <2>2 DEF CutEnds
  <2>4. worker'[w].pc = "open" /\ Dir(w)' = Dir(w)
    BY <2>3, <1>4 DEF Places
  <2> QED BY <1>1, <2>1, <2>3, <2>4 DEF Reliable, At
<1>11. CASE Open(w)
  <2>1. frames[Dir(w)] = "full"
    BY <1>11 DEF Open, Reliable
  <2>2. CASE HasPicture(w)
    <3>1. worker' = [worker EXCEPT ![w].pc = "embed", ![w].whole = frames[Dir(w)] = "full"]
      BY <1>11, <2>1, <2>2 DEF Open
    <3>2. worker'[w].pc = "embed" /\ worker'[w].whole
      BY <1>1, <2>1, <3>1 DEF Process
    <3> QED BY <3>2 DEF Reliable, At
  <2>3. CASE ~HasPicture(w)
    <3>1. Goto(w, "ok")
      BY <1>11, <2>3 DEF Open
    <3>2. worker'[w].pc = "ok" /\ Mine(w)' = Mine(w)
      BY <3>1, <1>4 DEF Places
    <3>3. ~HasPicture(w)'
      BY <2>3, <3>2 DEF HasPicture
    <3> QED BY <3>2, <3>3 DEF Reliable, At
  <2> QED BY <2>2, <2>3
<1>12. CASE Embed(w)
  <2>1. worker'[w].pc = "delete" /\ worker'[w].whole = worker[w].whole
    BY <1>4, <1>12 DEF Embed, Places
  <2>2. worker[w].whole
    BY <1>12 DEF Embed, At, Reliable
  <2> QED BY <2>1, <2>2 DEF Reliable, At
<1>13. CASE WorkRaises(w)
  <2>1. worker'[w].pc = "error"
    BY <1>4, <1>13 DEF WorkRaises, Places
  <2> QED BY <2>1, <1>3
<1>14. CASE DeleteOld(w)
  <2>1. worker'[w].pc = "insert" /\ worker'[w].whole = worker[w].whole
    BY <1>1, <1>14 DEF DeleteOld, Process
  <2>2. worker[w].whole
    BY <1>14 DEF DeleteOld, At, Reliable
  <2> QED BY <2>1, <2>2 DEF Reliable, At
<1>15. CASE InsertNew(w)
  <2>1. /\ worker'[w].pc = "register" /\ worker'[w].job = worker[w].job
        /\ worker'[w].enc = worker[w].enc
    BY <1>1, <1>15 DEF InsertNew, Process
  <2>2. Mine(w)' = Mine(w)
    BY <2>1 DEF Mine
  <2>3. Mine(w) \in Chunks /\ worker[w].enc \in Keys
    BY <1>2, <1>15 DEF InsertNew, At, Working, Places
  <2>4. rows'[Mine(w)][worker[w].enc] # {}
    BY <1>15, <2>3, RowsInserted
  <2> QED BY <2>1, <2>2, <2>4 DEF Reliable, At
<1>16. CASE Register(w) \/ Build(w) \/ Drop(w)
  <2>1. HasPicture(w) => Here # {}
    BY <1>16 DEF Register, Build, Drop, At, Reliable
  <2>2. /\ worker'[w].pc \in {"drop", "build", "ok"} /\ Mine(w)' = Mine(w)
        /\ worker'[w].enc = worker[w].enc
    BY <1>4, <1>16 DEF Register, Build, Drop, Places
  <2>3. rows' = rows /\ (HasPicture(w)' => HasPicture(w))
    BY <1>16, <2>2 DEF Register, Build, Drop, library, HasPicture
  <2> QED BY <2>1, <2>2, <2>3 DEF Reliable, At
<1> QED
  BY <1>5, <1>6, <1>7, <1>8, <1>9, <1>10, <1>11, <1>12, <1>13, <1>14, <1>15, <1>16
  DEF Moves, Handler

(* No worker changes its machine, no chunk its content. *)
LEMMA HostStays == [Next]_vars => host' = host /\ filmed' = filmed
<1> SUFFICES ASSUME [Next]_vars PROVE host' = host /\ filmed' = filmed
  OBVIOUS
<1>1. CASE UNCHANGED vars
  BY <1>1 DEF vars, setting
<1>2. CASE Command
  BY <1>2 DEF Command, setting, Backfill, BackfillForce, Ask, Retire, RetryVideo, Reconfigure
<1>3. CASE \E w \in Workers : Handler(w)
  BY <1>3 DEF Handler, setting, Start, Fetch, Cut, CutEnds, Open, Embed, WorkRaises,
     DeleteOld, InsertNew, Register, Build, Drop
<1>4. CASE \E w \in Workers : Lease(w) \/ Complete(w) \/ Fail(w) \/ Crash(w)
  BY <1>4 DEF setting, Lease, Complete, Fail, Crash
<1>5. CASE Reap \/ (\E c \in Chunks : IndexChunk(c) \/ HandOver(c))
           \/ \E j \in Jobs : BackoffElapsed(j)
  BY <1>5 DEF setting, Reap, IndexChunk, HandOver, BackoffElapsed
<1> QED BY <1>1, <1>2, <1>3, <1>4, <1>5 DEF Next

LEMMA NextStoredInv == StoredInv /\ [Next]_vars => StoredInv'
<1> SUFFICES ASSUME StoredInv, [Next]_vars, Apart'
             PROVE  (\A v \in Workers : Reliable(v))' /\ AllWhole' /\ SuccessIsStored'
  BY NextTyped DEF StoredInv
<1>1. Typed /\ Typed'
  BY NextTyped DEF StoredInv
<1>2. host' = host /\ filmed' = filmed
  BY HostStays
<1>3. Apart /\ (\A v \in Workers : Reliable(v)) /\ AllWhole /\ SuccessIsStored
  BY <1>2 DEF StoredInv, Apart
<1>4. ASSUME NEW v \in Workers PROVE Reliable(v)'
  <2>1. CASE worker' = worker /\ web' = web /\ frames' = frames
    BY <2>1, <1>1, <1>2, <1>3, OthersReliable
  <2>2. ASSUME NEW w \in Workers, Moves(w)
        PROVE  Reliable(v)'
    <3>1. CASE w = v
      BY <2>2, <3>1, <1>1, <1>2, <1>3, OwnReliable
    <3>2. CASE w # v
      <4>1. host[w] # host[v]
        BY <1>3, <3>2 DEF Apart
      <4>2. worker'[v] = worker[v]
        BY <1>1, <2>2, <3>2, OthersStay
      <4>3. host[v] \in web => host[v] \in web'
        BY <2>2, <4>1 DEF Moves, Lease, Complete, Fail, Crash, Handler, files,
           Start, Fetch, Cut, CutEnds, Open, Embed, WorkRaises, DeleteOld, InsertNew,
           Register, Build, Drop
      <4>4. ASSUME NEW d \in Hosts \X Chunks, d[1] = host[v] PROVE frames'[d] = frames[d]
        <5>1. d # Dir(w) /\ d[1] # host[w]
          BY <4>1, <4>4 DEF Dir
        <5>2. frames \in [Hosts \X Chunks -> {"gone", "full"} \cup Workers]
          BY <1>1 DEF Typed, TypeOK
        <5>3. CASE Cut(w) \/ CutEnds(w) \/ Open(w) \/ Embed(w)
          BY <5>1, <5>2, <5>3 DEF Cut, CutEnds, Open, Embed
        <5>4. CASE Drop(w)
          BY <5>1, <5>4 DEF Drop, files
        <5>5. CASE Lease(w) \/ Complete(w) \/ Fail(w) \/ Crash(w) \/ Start(w) \/ Fetch(w)
                   \/ WorkRaises(w) \/ DeleteOld(w) \/ InsertNew(w) \/ Register(w) \/ Build(w)
          BY <5>5 DEF Lease, Complete, Fail, Crash, files, Start, Fetch, WorkRaises,
             DeleteOld, InsertNew, Register, Build
        <5> QED BY <2>2, <5>3, <5>4, <5>5 DEF Moves, Handler
      <4> QED BY <1>1, <1>2, <1>3, <4>2, <4>3, <4>4, OthersReliable
    <3> QED BY <3>1, <3>2
  <2> QED BY <2>1, <2>2, OnlyWorkersMove
<1>5. AllWhole'
  <2>1. CASE rows' = rows
    BY <2>1, <1>3 DEF AllWhole
  <2>2. ASSUME NEW w \in Workers, InsertNew(w) PROVE AllWhole'
    <3>1. worker[w].whole /\ NewSet(w).whole
      BY <2>2, <1>3 DEF InsertNew, At, Reliable, NewSet
    <3>2. ASSUME NEW c \in Chunks, NEW k \in Keys, NEW x \in rows'[c][k] PROVE x.whole
      <4>1. x \in rows[c][k] \/ x = NewSet(w)
        <5>0. rows'[c][k] = IF c = Mine(w) /\ k = worker[w].enc
                              THEN (rows[c][k] \ worker[w].old) \cup {NewSet(w)}
                              ELSE rows[c][k]
          BY <2>2, <1>1, RowsInserted
        <5>1. CASE c = Mine(w) /\ k = worker[w].enc
          BY <3>2, <5>0, <5>1
        <5>2. CASE ~(c = Mine(w) /\ k = worker[w].enc)
          BY <3>2, <5>0, <5>2
        <5> QED BY <5>1, <5>2
      <4> QED BY <4>1, <3>1, <1>3 DEF AllWhole
    <3> QED BY <3>2 DEF AllWhole
  <2> QED BY <2>1, <2>2, RowsChange
<1>6. SuccessIsStored'
  <2> SUFFICES ASSUME NEW j \in Jobs, jobs'[j].status = "succeeded", ChunkOf(j) \in filmed
               PROVE  \E k \in IF NameOf(j) = Unnamed THEN Keys ELSE {KeyOf[NameOf(j)]} :
                        k \in Keys /\ rows'[ChunkOf(j)][k] # {}
    BY <1>2, <1>5, JobParts DEF SuccessIsStored, AllWhole
  <2>1. ChunkOf(j) \in Chunks /\ (NameOf(j) # Unnamed => KeyOf[NameOf(j)] \in Keys)
    BY JobParts DEF Keys
  <2>2. PICK k \in IF NameOf(j) = Unnamed THEN Keys ELSE {KeyOf[NameOf(j)]} :
          k \in Keys /\ rows[ChunkOf(j)][k] # {}
    <3>1. CASE jobs[j].status = "succeeded"
      BY <2>1, <3>1, <1>3 DEF SuccessIsStored
    <3>2. ASSUME NEW w \in Workers, Complete(w), worker[w].job = j
          PROVE  \E k \in IF NameOf(j) = Unnamed THEN Keys ELSE {KeyOf[NameOf(j)]} :
                   k \in Keys /\ rows[ChunkOf(j)][k] # {}
      <4>1. worker[w].pc = "ok" /\ rows[ChunkOf(j)][worker[w].enc] # {}
        BY <3>2, <1>3 DEF Complete, At, Reliable, Mine, HasPicture
      <4>2. /\ worker[w].enc \in Keys
            /\ NameOf(j) # Unnamed => worker[w].enc = KeyOf[NameOf(j)]
        <5>1. KnowsItsWork(worker[w])
          BY <1>1 DEF Typed
        <5> QED BY <3>2, <4>1, <5>1 DEF KnowsItsWork, Working, Places
      <4> QED BY <4>1, <4>2
    <3> QED BY <3>1, <3>2, <1>1, NewSuccess
  <2>3. rows'[ChunkOf(j)][k] # {}
    BY <2>1, <2>2, <1>1, RowsGrow
  <2> QED BY <2>2, <2>3
<1> QED BY <1>4, <1>5, <1>6

(* With one worker per host, a job that succeeded for a chunk with a       *)
(* picture has left the windows of its encoder, made from all the frames   *)
(* (encode_temporal: the directory it reads is its own).                   *)
THEOREM SuccessLeavesRows == Spec => []SuccessIsStored
<1>1. StoredInv => SuccessIsStored
  BY DEF StoredInv, SuccessIsStored
<1> QED BY <1>1, InitStoredInv, NextStoredInv, PTL DEF Spec

-----------------------------------------------------------------------------
(***************************************************************************)
(* Why a version with rows is registered: rows appear at a commit, the     *)
(* worker that made it goes on to ensure_index, and only a failure keeps   *)
(* it from there.                                                          *)
(***************************************************************************)
Registering(w) == worker[w].pc \in {"register", "build"}

RegisteredOrSoon ==
  used["crash"] = 0 /\ used["error"] = 0 =>
    \A c \in Chunks, k \in Keys :
      rows[c][k] # {} /\ version[k] = "none" =>
        \E w \in Workers : Registering(w) /\ worker[w].enc = k

RegisterInv == Typed /\ RegisteredOrSoon

(* An event that happens is counted, and the counts never fall. *)
LEMMA SpendCounts ==
  ASSUME used \in [Kinds -> Nat], NEW k \in Kinds, Spend(k)
  PROVE  used'[k] # 0 /\ \A i \in Kinds : used'[i] = 0 => used[i] = 0
<1>1. used' = [used EXCEPT ![k] = used[k] + 1] /\ used[k] \in Nat
  BY DEF Spend
<1>2. used'[k] = used[k] + 1 /\ \A i \in Kinds \ {k} : used'[i] = used[i]
  BY <1>1
<1> QED BY <1>1, <1>2

LEMMA CountsStay ==
  ASSUME Typed, [Next]_vars, NEW i \in Kinds, used'[i] = 0
  PROVE  used[i] = 0
<1>1. used \in [Kinds -> Nat]
  BY DEF Typed, TypeOK
<1>2. ASSUME NEW k \in Kinds, Spend(k) PROVE used[i] = 0
  BY <1>1, <1>2, SpendCounts
<1>3. used' = used \/ \E k \in Kinds : Spend(k)
  <2>1. CASE UNCHANGED vars
    BY <2>1 DEF vars
  <2>2. CASE Command
    BY <2>2 DEF Command, Backfill, BackfillForce, Retire, RetryVideo, Reconfigure, Kinds
  <2>3. CASE \E c \in Chunks : IndexChunk(c) \/ HandOver(c)
    BY <2>3 DEF IndexChunk, HandOver, Kinds
  <2>4. CASE Reap \/ \E j \in Jobs : BackoffElapsed(j)
    BY <2>4 DEF Reap, BackoffElapsed
  <2>5. CASE \E w \in Workers : Lease(w) \/ Complete(w) \/ Fail(w) \/ Crash(w)
    BY <2>5 DEF Lease, Complete, Fail, Crash, Kinds
  <2>6. CASE \E w \in Workers : Handler(w)
    BY <2>6 DEF Handler, Start, Fetch, Cut, CutEnds, Open, Embed, WorkRaises, DeleteOld,
       InsertNew, Register, Build, Drop, Kinds
  <2> QED BY <2>1, <2>2, <2>3, <2>4, <2>5, <2>6 DEF Next
<1> QED BY <1>2, <1>3

(* A version that is in the registry stays there, retired or not. *)
LEMMA VersionsStay ==
  ASSUME Typed, [Next]_vars, NEW k \in Keys, version[k] # "none"
  PROVE  version'[k] # "none"
<1>1. version \in [Keys -> {"none", "ready", "retired"}]
  BY DEF Typed, TypeOK
<1>2. CASE version' = version
  BY <1>2
<1>3. ASSUME NEW m \in Keys, Retire(m) PROVE version'[k] # "none"
  BY <1>1, <1>3 DEF Retire
<1>4. ASSUME NEW w \in Workers, Build(w) PROVE version'[k] # "none"
  BY <1>1, <1>4 DEF Build
<1>5. \/ version' = version \/ (\E m \in Keys : Retire(m))
      \/ \E w \in Workers : Build(w)
  <2>1. CASE UNCHANGED vars
    BY <2>1 DEF vars, library
  <2>2. CASE Command
    BY <2>2 DEF Command, library, Backfill, BackfillForce, Ask, RetryVideo, Reconfigure
  <2>3. CASE Reap \/ (\E c \in Chunks : IndexChunk(c) \/ HandOver(c))
             \/ \E j \in Jobs : BackoffElapsed(j)
    BY <2>3 DEF Reap, IndexChunk, HandOver, BackoffElapsed, library
  <2>4. CASE \E w \in Workers : Lease(w) \/ Complete(w) \/ Fail(w) \/ Crash(w)
    BY <2>4 DEF Lease, Complete, Fail, Crash, library
  <2>5. CASE \E w \in Workers : Handler(w)
    BY <2>5 DEF Handler, library, Start, Fetch, Cut, CutEnds, Open, Embed, WorkRaises,
       DeleteOld, InsertNew, Register, Drop
  <2> QED BY <2>1, <2>2, <2>3, <2>4, <2>5 DEF Next
<1> QED BY <1>2, <1>3, <1>4, <1>5

(* Without failures, who is at ensure_index gets to the registry. *)
LEMMA RegisteringGoesOn ==
  ASSUME Typed, [Next]_vars, used'["crash"] = 0, used'["error"] = 0,
         NEW w \in Workers, Registering(w)
  PROVE  \/ Registering(w)' /\ worker'[w].enc = worker[w].enc
         \/ version'[worker[w].enc] # "none"
<1>1. /\ worker \in [Workers -> Process] /\ worker[w] \in Process
      /\ version \in [Keys -> {"none", "ready", "retired"}]
      /\ used \in [Kinds -> Nat]
  BY DEF Typed, TypeOK
<1>2. worker[w].enc \in Keys
  BY WorkPlace DEF Registering, Working, Places
<1>3. CASE worker' = worker
  BY <1>3 DEF Registering
<1>4. ASSUME NEW v \in Workers, v # w, Moves(v) PROVE worker'[w] = worker[w]
  BY <1>4, OthersStay
<1>5. ASSUME NEW place \in Places, Goto(w, place)
      PROVE  worker'[w].pc = place /\ worker'[w].enc = worker[w].enc
  BY <1>1, <1>5 DEF Goto, Process
<1>6. CASE Moves(w)
  <2>1. ~Crash(w) /\ ~WorkRaises(w)
    BY <1>1, SpendCounts DEF Crash, WorkRaises, Kinds
  <2>2. Register(w) \/ Build(w)
    BY <1>6, <2>1 DEF Moves, Handler, Registering, At, Lease, Complete, Fail, Start, Fetch,
       Cut, CutEnds, Open, Embed, DeleteOld, InsertNew, Drop
  <2>3. CASE Register(w)
    <3>1. CASE Registered(worker[w].enc)
      BY <2>3, <3>1, <1>2, VersionsStay DEF Registered
    <3>2. CASE ~Registered(worker[w].enc)
      BY <2>3, <3>2, <1>5 DEF Register, Registering, Places
    <3> QED BY <3>1, <3>2
  <2>4. CASE Build(w)
    BY <1>1, <1>2, <2>4 DEF Build
  <2> QED BY <2>2, <2>3, <2>4
<1> QED BY <1>3, <1>4, <1>6, OnlyWorkersMove DEF Registering

LEMMA InitRegisterInv == Init => RegisterInv
  BY InitTyped DEF Init, RegisterInv, RegisteredOrSoon

LEMMA NextRegisterInv == RegisterInv /\ [Next]_vars => RegisterInv'
<1> SUFFICES ASSUME RegisterInv, [Next]_vars, used'["crash"] = 0, used'["error"] = 0,
                    NEW c \in Chunks, NEW k \in Keys,
                    rows'[c][k] # {}, version'[k] = "none"
             PROVE  \E w \in Workers : Registering(w)' /\ worker'[w].enc = k
  BY NextTyped DEF RegisterInv, RegisteredOrSoon
<1>1. Typed /\ used["crash"] = 0 /\ used["error"] = 0
  BY CountsStay DEF RegisterInv, Kinds
<1>2. version[k] = "none"
  BY <1>1, VersionsStay
<1>3. CASE rows[c][k] # {}
  <2>1. PICK w \in Workers : Registering(w) /\ worker[w].enc = k
    BY <1>1, <1>2, <1>3 DEF RegisterInv, RegisteredOrSoon
  <2> QED BY <1>1, <2>1, RegisteringGoesOn
<1>4. CASE rows[c][k] = {}
  <2>1. PICK w \in Workers : InsertNew(w)
    BY <1>4, RowsChange
  <2>2. c = Mine(w) /\ k = worker[w].enc
    BY <1>1, <1>4, <2>1, RowsInserted
  <2>3. worker'[w].pc = "register" /\ worker'[w].enc = worker[w].enc
    BY <1>1, <2>1 DEF InsertNew, Typed, TypeOK, Process
  <2> QED BY <2>2, <2>3 DEF Registering
<1> QED BY <1>3, <1>4

(* Once the work is over, whatever has rows is in the registry of          *)
(* versions, unless a process failed between the commit of its rows and    *)
(* ensure_index.                                                           *)
THEOREM RowsAreRegistered == Spec => []QuietIsRegistered
<1>1. RegisterInv => QuietIsRegistered
  BY DEF RegisterInv, RegisteredOrSoon, QuietIsRegistered, Quiet, Registering, Idle
<1> QED BY <1>1, InitRegisterInv, NextRegisterInv, PTL DEF Spec

-----------------------------------------------------------------------------
(***************************************************************************)
(* Why a backfill is complete while the configured encoder stays the same: *)
(* every wish has a row in the jobs table, every worker encodes with what  *)
(* the name in its job means now, and so does every job that succeeded.    *)
(***************************************************************************)
WishesAsked ==
  \A x \in wanted : /\ x.chunk = ChunkOf(x.job) /\ x.key = Encoder(NameOf(x.job))
                    /\ jobs[x.job].status # "none"

EncodesAsNamed ==
  \A w \in Workers : worker[w].pc \in Working =>
    worker[w].enc = Encoder(NameOf(worker[w].job))

SuccessIsCurrent ==
  \A j \in Jobs : jobs[j].status = "succeeded" /\ ChunkOf(j) \in filmed =>
    rows[ChunkOf(j)][Encoder(NameOf(j))] # {}

SteadyInv ==
  /\ StoredInv
  /\ used["reconfigure"] = 0 =>
       WishesAsked /\ EncodesAsNamed /\ (Apart => SuccessIsCurrent)

(* No statement deletes a job. *)
LEMMA JobsStay ==
  ASSUME Typed, [Next]_vars, NEW j \in Jobs, jobs[j].status # "none"
  PROVE  jobs'[j].status # "none"
<1>1. jobs \in [Jobs -> Row] /\ jobs[j] \in Row
  BY DEF Typed, TypeOK
<1>2. ASSUME NEW row \in Row, row.status # "none"
      PROVE  /\ Enqueued(row).status # "none" /\ Revived(row).status # "none"
             /\ Completed(row).status # "none" /\ [row EXCEPT !.delayed = FALSE].status # "none"
             /\ \A w : Leased(row, w).status # "none"
             /\ \A n : Failed(row, n, TRUE).status # "none"
             /\ Reaped([row EXCEPT !.stale = TRUE]).status # "none"
  <2> USE <1>2 DEF Row, JobStatus
  <2>1. Enqueued(row).status # "none" /\ Revived(row).status # "none"
    BY DEF Enqueued, Revived, QueuedRow, NoRow
  <2>2. Completed(row).status # "none" /\ [row EXCEPT !.delayed = FALSE].status # "none"
    BY DEF Completed
  <2>3. \A w : Leased(row, w).status # "none"
    BY DEF Leased
  <2>4. \A n : Failed(row, n, TRUE).status # "none"
    BY DEF Failed, Retried, Died
  <2>5. Reaped([row EXCEPT !.stale = TRUE]).status # "none"
    BY DEF Reaped, Reapable
  <2> QED BY <2>1, <2>2, <2>3, <2>4, <2>5
<1>3. CASE jobs' = jobs
  BY <1>3
<1>4. ASSUME NEW c \in Chunks, HandOver(c) PROVE jobs'[j].status # "none"
  BY <1>1, <1>2, <1>4 DEF HandOver
<1>5. ASSUME NEW targets, NEW n, NEW second, Ask(targets, n, second)
      PROVE  jobs'[j].status # "none"
  BY <1>1, <1>2, <1>5 DEF Ask
<1>6. CASE RetryVideo
  BY <1>1, <1>2, <1>6 DEF RetryVideo
<1>7. ASSUME NEW w \in Workers, Lease(w) PROVE jobs'[j].status # "none"
  <2>1. PICK i : jobs' = [jobs EXCEPT ![i] = Leased(jobs[i], w)]
    BY <1>7 DEF Lease
  <2>2. CASE i = j
    BY <1>1, <1>2, <2>1, <2>2
  <2>3. CASE i # j
    BY <1>1, <2>1, <2>3
  <2> QED BY <2>2, <2>3
<1>8. ASSUME NEW w \in Workers, Complete(w) \/ Fail(w) PROVE jobs'[j].status # "none"
  <2>1. PICK row : /\ row = Completed(jobs[worker[w].job])
                       \/ row = Failed(jobs[worker[w].job], worker[w].seen, TRUE)
                   /\ jobs' = [jobs EXCEPT ![worker[w].job] = row]
    BY <1>8 DEF Complete, Fail
  <2>2. CASE worker[w].job = j
    BY <1>1, <1>2, <2>1, <2>2
  <2>3. CASE worker[w].job # j
    BY <1>1, <2>1, <2>3
  <2> QED BY <2>2, <2>3
<1>9. CASE Reap
  BY <1>1, <1>2, <1>9 DEF Reap
<1>10. ASSUME NEW i \in Jobs, BackoffElapsed(i) PROVE jobs'[j].status # "none"
  BY <1>1, <1>2, <1>10 DEF BackoffElapsed
<1> QED
  BY <1>3, <1>4, <1>5, <1>6, <1>7, <1>8, <1>9, <1>10, WhoWritesJobs
  DEF Backfill, BackfillForce

(* Until somebody changes the settings a name means the same encoder. *)
LEMMA NamesStay ==
  ASSUME Typed, [Next]_vars, used'["reconfigure"] = 0
  PROVE  used["reconfigure"] = 0 /\ \A n : Encoder(n)' = Encoder(n)
<1>1. used["reconfigure"] = 0
  BY CountsStay DEF Kinds
<1>2. \A n \in Names : ~Reconfigure(n)
  BY SpendCounts DEF Reconfigure, Kinds, Typed, TypeOK
<1>3. configured' = configured
  <2>1. CASE UNCHANGED vars
    BY <2>1 DEF vars, setting
  <2>2. CASE Command
    BY <1>2, <2>2 DEF Command, setting, Backfill, BackfillForce, Ask, Retire, RetryVideo
  <2>3. CASE \E w \in Workers : Handler(w)
    BY <2>3 DEF Handler, setting, Start, Fetch, Cut, CutEnds, Open, Embed, WorkRaises,
       DeleteOld, InsertNew, Register, Build, Drop
  <2>4. CASE \E w \in Workers : Lease(w) \/ Complete(w) \/ Fail(w) \/ Crash(w)
    BY <2>4 DEF setting, Lease, Complete, Fail, Crash
  <2>5. CASE Reap \/ (\E c \in Chunks : IndexChunk(c) \/ HandOver(c))
             \/ \E j \in Jobs : BackoffElapsed(j)
    BY <2>5 DEF setting, Reap, IndexChunk, HandOver, BackoffElapsed
  <2> QED BY <2>1, <2>2, <2>3, <2>4, <2>5 DEF Next
<1> QED BY <1>1, <1>3 DEF Encoder

(* Only backfill() has wishes. *)
LEMMA WishesGrow ==
  ASSUME [Next]_vars, NEW x \in wanted'
  PROVE  x \in wanted \/ \E n \in Names \cup {Unnamed} : Backfill(n) \/ BackfillForce(n)
<1>1. CASE UNCHANGED vars
  BY <1>1 DEF vars
<1>2. CASE Command
  BY <1>2 DEF Command, Retire, RetryVideo, Reconfigure
<1>3. CASE \E w \in Workers : Handler(w)
  BY <1>3 DEF Handler, Start, Fetch, Cut, CutEnds, Open, Embed, WorkRaises, DeleteOld,
     InsertNew, Register, Build, Drop
<1>4. CASE \E w \in Workers : Lease(w) \/ Complete(w) \/ Fail(w) \/ Crash(w)
  BY <1>4 DEF Lease, Complete, Fail, Crash
<1>5. CASE Reap \/ (\E c \in Chunks : IndexChunk(c) \/ HandOver(c))
           \/ \E j \in Jobs : BackoffElapsed(j)
  BY <1>5 DEF Reap, IndexChunk, HandOver, BackoffElapsed
<1> QED BY <1>1, <1>2, <1>3, <1>4, <1>5 DEF Next

(* A wish of this step comes with its job. *)
LEMMA NewWish ==
  ASSUME Typed, Typed', NEW targets \in SUBSET Chunks, NEW n, NEW second,
         Ask(targets, n, second), NEW x \in wanted', x \notin wanted
  PROVE  /\ x.chunk = ChunkOf(x.job) /\ x.key = Encoder(NameOf(x.job))
         /\ jobs'[x.job].status # "none"
<1>1. PICK c \in targets : x = [chunk |-> c, key |-> Encoder(n), job |-> <<c, n, second>>]
  BY DEF Ask
<1>2. x.chunk = c /\ x.key = Encoder(n) /\ x.job = <<c, n, second>>
  BY <1>1
<1>3. ChunkOf(x.job) = c /\ NameOf(x.job) = n /\ x.job[3] = second
  BY <1>2 DEF ChunkOf, NameOf
<1>4. x.job \in Jobs
  BY DEF Typed, TypeOK, Wish
<1>5. jobs'[x.job] = Enqueued(jobs[x.job])
  BY <1>3, <1>4 DEF Ask
<1>6. Enqueued(jobs[x.job]).status # "none"
  BY DEF Enqueued, QueuedRow, NoRow
<1> QED BY <1>2, <1>3, <1>5, <1>6

(* A process in the middle of encode_temporal has just read its encoder or *)
(* has had it before.                                                      *)
LEMMA WorkComesFrom ==
  ASSUME Typed, [Next]_vars, NEW w \in Workers, worker'[w].pc \in Working
  PROVE  /\ worker'[w].job = worker[w].job
         /\ \/ worker[w].pc \in Working /\ worker'[w].enc = worker[w].enc
            \/ worker[w].job \in Jobs /\ worker'[w].enc = Encoder(NameOf(worker[w].job))
<1>1. worker \in [Workers -> Process] /\ worker[w] \in Process /\ KnowsItsWork(worker[w])
  BY DEF Typed, TypeOK
<1>2. CASE worker'[w] = worker[w]
  BY <1>2
<1>3. CASE Lease(w)
  <2>1. PICK j : worker' = [worker EXCEPT ![w] = [Idle EXCEPT !.pc = "start", !.job = j,
                                                               !.seen = jobs[j].attempts + 1]]
    BY <1>3 DEF Lease
  <2>2. worker'[w].pc = "start"
    BY <1>1, <2>1 DEF Idle
  <2> QED BY <2>2 DEF Working
<1>4. CASE Complete(w) \/ Fail(w) \/ Crash(w)
  <2>1. worker'[w] = Idle
    BY <1>1, <1>4 DEF Complete, Fail, Crash
  <2> QED BY <2>1 DEF Idle, Working
<1>5. CASE Start(w)
  BY <1>1, <1>5 DEF Start, At, KnowsItsWork, Process
<1>6. CASE Handler(w) /\ ~Start(w)
  <2>1. worker[w].pc \in Working
    <3>1. worker[w].pc \notin {"idle", "start"}
      BY <1>6 DEF Handler, Fetch, Cut, CutEnds, Open, Embed, WorkRaises, DeleteOld,
         InsertNew, Register, Build, Drop, At
    <3> QED BY <1>1, <3>1 DEF Working, Process
  <2>2. worker'[w].job = worker[w].job /\ worker'[w].enc = worker[w].enc
    <3>1. CASE \E place : Goto(w, place)
      BY <1>1, <3>1 DEF Goto, Process
    <3>2. CASE Open(w) \/ DeleteOld(w) \/ InsertNew(w)
      BY <1>1, <3>1, <3>2 DEF Open, DeleteOld, InsertNew, Process
    <3>3. CASE Fetch(w) \/ Cut(w) \/ CutEnds(w) \/ Embed(w) \/ WorkRaises(w)
               \/ Register(w) \/ Build(w) \/ Drop(w)
      BY <3>1, <3>3 DEF Fetch, Cut, CutEnds, Embed, WorkRaises, Register, Build, Drop
    <3> QED BY <1>6, <3>2, <3>3 DEF Handler
  <2> QED BY <2>1, <2>2
<1>7. worker'[w] = worker[w] \/ Moves(w)
  BY OnlyWorkersMove, OthersStay
<1> QED BY <1>2, <1>3, <1>4, <1>5, <1>6, <1>7 DEF Moves

LEMMA InitSteadyInv == Init => SteadyInv
<1> SUFFICES ASSUME Init PROVE WishesAsked /\ EncodesAsNamed /\ SuccessIsCurrent
  BY InitStoredInv DEF SteadyInv
<1>1. WishesAsked
  BY DEF Init, WishesAsked
<1>2. EncodesAsNamed
  BY DEF Init, EncodesAsNamed, Working, Idle
<1>3. SuccessIsCurrent
  BY DEF Init, SuccessIsCurrent, NoRow
<1> QED BY <1>1, <1>2, <1>3

LEMMA NextSteadyInv == SteadyInv /\ [Next]_vars => SteadyInv'
<1> SUFFICES ASSUME SteadyInv, [Next]_vars, used'["reconfigure"] = 0
             PROVE  WishesAsked' /\ EncodesAsNamed' /\ (Apart' => SuccessIsCurrent')
  BY NextStoredInv DEF SteadyInv
<1>1. StoredInv /\ Typed /\ Typed'
  BY NextTyped DEF SteadyInv, StoredInv
<1>2. \A n : Encoder(n)' = Encoder(n)
  BY <1>1, NamesStay
<1>3. WishesAsked /\ EncodesAsNamed /\ (Apart => SuccessIsCurrent)
  BY <1>1, NamesStay DEF SteadyInv
<1>4. WishesAsked'
  <2> SUFFICES ASSUME NEW x \in wanted'
               PROVE  /\ x.chunk = ChunkOf(x.job) /\ x.key = Encoder(NameOf(x.job))
                      /\ jobs'[x.job].status # "none"
    BY <1>2 DEF WishesAsked
  <2>1. CASE x \in wanted
    <3>1. x.job \in Jobs
      BY <1>1, <2>1 DEF Typed, TypeOK, Wish
    <3> QED BY <1>1, <1>3, <2>1, <3>1, JobsStay DEF WishesAsked
  <2>2. CASE x \notin wanted
    <3>1. PICK n \in Names \cup {Unnamed} : Backfill(n) \/ BackfillForce(n)
      BY <2>2, WishesGrow
    <3>2. CASE Backfill(n)
      BY <1>1, <2>2, <3>2, NewWish DEF Backfill, Missing, Typed, TypeOK
    <3>3. CASE BackfillForce(n)
      BY <1>1, <2>2, <3>3, NewWish DEF BackfillForce, Typed, TypeOK
    <3> QED BY <3>1, <3>2, <3>3
  <2> QED BY <2>1, <2>2
<1>5. EncodesAsNamed'
  <2> SUFFICES ASSUME NEW w \in Workers, worker'[w].pc \in Working
               PROVE  worker'[w].enc = Encoder(NameOf(worker'[w].job))
    BY <1>2 DEF EncodesAsNamed
  <2> QED BY <1>1, <1>3, WorkComesFrom DEF EncodesAsNamed
<1>6. ASSUME Apart' PROVE SuccessIsCurrent'
  <2>1. Apart /\ filmed' = filmed
    BY <1>6, HostStays DEF Apart
  <2> SUFFICES ASSUME NEW j \in Jobs, jobs'[j].status = "succeeded", ChunkOf(j) \in filmed
               PROVE  rows'[ChunkOf(j)][Encoder(NameOf(j))] # {}
    BY <1>2, <2>1 DEF SuccessIsCurrent
  <2>2. ChunkOf(j) \in Chunks /\ Encoder(NameOf(j)) \in Keys
    BY <1>1, JobParts, EncoderIsKey DEF Typed, TypeOK
  <2>3. rows[ChunkOf(j)][Encoder(NameOf(j))] # {}
    <3>1. CASE jobs[j].status = "succeeded"
      BY <1>3, <2>1, <3>1 DEF SuccessIsCurrent
    <3>2. ASSUME NEW w \in Workers, Complete(w), worker[w].job = j
          PROVE  rows[ChunkOf(j)][Encoder(NameOf(j))] # {}
      <4>1. worker[w].pc = "ok" /\ Reliable(w)
        BY <1>1, <2>1, <3>2 DEF Complete, At, StoredInv
      <4>2. rows[Mine(w)][worker[w].enc] # {}
        BY <3>2, <4>1 DEF Reliable, HasPicture, Mine
      <4>3. worker[w].enc = Encoder(NameOf(j))
        BY <1>3, <3>2, <4>1 DEF EncodesAsNamed, Working, Places
      <4> QED BY <3>2, <4>2, <4>3 DEF Mine
    <3> QED BY <1>1, <3>1, <3>2, NewSuccess
  <2> QED BY <1>1, <2>2, <2>3, RowsGrow
<1> QED BY <1>4, <1>5, <1>6

(* With one worker per host and while the configured encoder stays, the    *)
(* chunks with a picture that backfill() selected have their rows when the *)
(* work is over, or a dead job.                                            *)
THEOREM SteadyBackfillCompletes == Spec => []SteadyBackfillIsComplete
<1>1. SteadyInv => SteadyBackfillIsComplete
  <2> SUFFICES ASSUME SteadyInv, Apart, used["reconfigure"] = 0, Quiet,
                      NEW x \in wanted, x.chunk \in filmed,
                      jobs[x.job].status # "dead"
               PROVE  rows[x.chunk][x.key] # {}
    BY DEF SteadyBackfillIsComplete, BackfillIsComplete
  <2>1. WishesAsked /\ SuccessIsCurrent /\ TypeOK
    BY DEF SteadyInv, StoredInv, Typed
  <2>2. x.job \in Jobs
    BY <2>1 DEF TypeOK, Wish
  <2>3. jobs[x.job].status \in JobStatus
    BY <2>1, <2>2 DEF TypeOK, Row
  <2>4. jobs[x.job].status = "succeeded"
    BY <2>1, <2>2, <2>3 DEF WishesAsked, Quiet, JobStatus
  <2> QED BY <2>1, <2>2, <2>4 DEF WishesAsked, SuccessIsCurrent
<1> QED BY <1>1, InitSteadyInv, NextSteadyInv, PTL DEF Spec
=============================================================================
