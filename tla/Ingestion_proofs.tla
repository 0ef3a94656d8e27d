-------------------------- MODULE Ingestion_proofs --------------------------
(***************************************************************************)
(* Proofs about Ingestion.  First the types, the identity of a claim, the  *)
(* exclusivity of a live lease, and that a worker whose claim was taken    *)
(* over never writes the document row: for every number of documents and   *)
(* workers, for every lease length, with leases that may run out at any    *)
(* time (Stalls) and a vector store that may fail (StoreFaults).  Then the *)
(* consistency of the index, and the refinement of FencedJob.              *)
(***************************************************************************)
EXTENDS Ingestion, TLAPS

LEMMA Ticks == 0 \in 0..TTL /\ TTL \in 0..TTL
BY IngestionAssumption

LEMMA IdleWorkerType == IdleWorker \in WorkerStates /\ IdleWorker.pc = "idle"
<1>1. (CHOOSE d \in Docs : TRUE) \in Docs
  BY IngestionAssumption
<1> QED
  BY <1>1 DEF IdleWorker, WorkerStates, PCs, Stages, Outcomes

LEMMA StageTypes ==
    ASSUME NEW s \in Stages
    PROVE  StatusOf(s) \in Statuses /\ After(s) \in PCs \ {"idle"}
BY DEF Stages, StatusOf, After, Statuses, Claimable, InProgress, PCs

\* finish closes the row whatever its verdict: no lease, the same version.
LEMMA VerdictType ==
    ASSUME NEW r \in Rows, NEW o \in Outcomes, NEW a \in Nat
    PROVE  /\ Verdict(r, o, a) \in Rows
           /\ Verdict(r, o, a).version = r.version
           /\ Verdict(r, o, a).lease = 0
<1> DEFINE closed == [r EXCEPT !.lease = 0, !.owner = NoWorker]
<1>1. closed \in Rows /\ closed.version = r.version /\ closed.lease = 0
  BY Ticks DEF Rows
<1> HIDE DEF closed
<1>2. CASE o = "ok"
  <2>1. Verdict(r, o, a) = [closed EXCEPT !.due = TRUE]
    BY <1>2 DEF Verdict, closed
  <2> QED
    BY <2>1, <1>1 DEF Rows
<1>3. CASE o = "transient" /\ a < MaxAttempts
  <2>1. Verdict(r, o, a) = [closed EXCEPT !.status = "pending", !.error = o, !.due = FALSE]
    BY <1>3 DEF Verdict, closed
  <2> QED
    BY <2>1, <1>1 DEF Rows, Statuses, Claimable
<1>4. CASE o # "ok" /\ ~ (o = "transient" /\ a < MaxAttempts)
  <2>1. Verdict(r, o, a) = [closed EXCEPT !.status = "failed", !.error = o, !.due = TRUE]
    BY <1>4 DEF Verdict, closed
  <2> QED
    BY <2>1, <1>1 DEF Rows, Statuses
<1> QED
  BY <1>2, <1>3, <1>4

-----------------------------------------------------------------------------
(* Type correctness: one lemma per variable that has structure.             *)

LEMMA RowType ==
    ASSUME TypeOK, [Next]_vars
    PROVE  row' \in [Docs -> Rows]
<1> USE DEF TypeOK
<1>1. ASSUME NEW d \in Docs, Upload(d) PROVE row' \in [Docs -> Rows]
  BY <1>1 DEF Upload, Rows, Statuses, Claimable
<1>2. ASSUME NEW d \in Docs, Enqueue(d) PROVE row' \in [Docs -> Rows]
  <2> DEFINE r == [row[d] EXCEPT !.status = "pending", !.error = "none", !.due = TRUE,
                                 !.owner = NoWorker, !.attempts = 0]
  <2>1. r \in Rows
    BY DEF Rows, Statuses, Claimable, Outcomes
  <2>2. row' = [row EXCEPT ![d] = r]
    BY <1>2 DEF Enqueue
  <2> QED
    BY <2>1, <2>2
<1>3. ASSUME NEW d \in Docs, EndDelete(d) PROVE row' \in [Docs -> Rows]
  <2> DEFINE r == [row[d] EXCEPT !.status = "deleted", !.lease = 0, !.owner = NoWorker]
  <2>1. r \in Rows
    BY Ticks DEF Rows, Statuses
  <2>2. row' = [row EXCEPT ![d] = r]
    BY <1>3 DEF EndDelete
  <2> QED
    BY <2>1, <2>2
<1>4. ASSUME NEW d \in Docs, Tick(d) PROVE row' \in [Docs -> Rows]
  <2>1. row[d].lease \in 0..TTL /\ row[d].lease > 0
    BY <1>4 DEF Tick, Rows
  <2>2. row[d].lease - 1 \in 0..TTL
    BY <2>1, IngestionAssumption
  <2> QED
    BY <1>4, <2>2 DEF Tick, Rows
<1>5. ASSUME NEW d \in Docs, RetryDue(d) PROVE row' \in [Docs -> Rows]
  BY <1>5 DEF RetryDue, Rows
<1>6. ASSUME NEW w \in Workers, NEW d \in Docs, Claim(w, d) PROVE row' \in [Docs -> Rows]
  <2> DEFINE r == [row[d] EXCEPT !.status = "parsing", !.lease = TTL, !.owner = w,
                                 !.attempts = row[d].attempts + 1,
                                 !.version = NextVersion(d)]
  <2>0. row[d] \in Rows /\ row[d].attempts + 1 \in Nat /\ NextVersion(d) \in Nat
    BY DEF Rows, NextVersion
  <2>1. r \in Rows
    BY <2>0, Ticks DEF Rows, Statuses, Claimable, InProgress
  <2>2. row' = [row EXCEPT ![d] = r]
    BY <1>6 DEF Claim
  <2> QED
    BY <2>1, <2>2
<1>7. ASSUME NEW w \in Workers, Renew(w) PROVE row' \in [Docs -> Rows]
  BY <1>7, Ticks DEF Renew, Rows
<1>8. ASSUME NEW w \in Workers, WriteProgress(w) PROVE row' \in [Docs -> Rows]
  <2>1. CASE Fenced(w)
    <3> DEFINE d == wk[w].doc
               r == [row[d] EXCEPT !.status = StatusOf(wk[w].pc),
                                   !.error = IF wk[w].pc = "parse" THEN "none" ELSE @]
    <3>1. d \in Docs
      BY DEF WorkerStates
    <3>2. r \in Rows
      BY <1>8, <3>1, StageTypes DEF WriteProgress, Rows, Outcomes
    <3>3. row' = [row EXCEPT ![d] = r]
      BY <1>8, <2>1, <3>1 DEF WriteProgress
    <3> QED
      BY <3>1, <3>2, <3>3
  <2> QED
    BY <1>8, <2>1 DEF WriteProgress
<1>9. ASSUME NEW w \in Workers, WriteIndexed(w) PROVE row' \in [Docs -> Rows]
  BY <1>9 DEF WriteIndexed, Rows, Statuses, Outcomes
<1>10. ASSUME NEW w \in Workers, WriteFailed(w) PROVE row' \in [Docs -> Rows]
  <2> DEFINE d == wk[w].doc
             r == [row[d] EXCEPT !.status = "failed", !.error = wk[w].outcome]
  <2>0. wk[w] \in WorkerStates
    OBVIOUS
  <2>1. d \in Docs /\ wk[w].outcome \in Outcomes
    BY <2>0 DEF WorkerStates
  <2>r. r \in Rows
    BY <2>1 DEF Rows, Statuses
  <2>2. CASE Fenced(w)
    <3>1. row' = [row EXCEPT ![d] = r]
      BY <1>10, <2>1, <2>2 DEF WriteFailed
    <3> QED
      BY <2>1, <2>r, <3>1
  <2> QED
    BY <1>10, <2>2 DEF WriteFailed
<1>11. ASSUME NEW w \in Workers, FinishWrite(w) PROVE row' \in [Docs -> Rows]
  <2>1. wk[w].outcome \in Outcomes /\ wk[w].attempts \in Nat /\ wk[w].doc \in Docs
    BY DEF WorkerStates
  <2>2. Verdict(row[wk[w].doc], wk[w].outcome, wk[w].attempts) \in Rows
    BY <2>1, VerdictType
  <2> QED
    BY <1>11, <2>1, <2>2 DEF FinishWrite
<1>12. CASE UNCHANGED row
  BY <1>12
<1> QED
  BY <1>1, <1>2, <1>3, <1>4, <1>5, <1>6, <1>7, <1>8, <1>9, <1>10, <1>11, <1>12
     DEF Next, Pipeline, vars, BeginDelete, Raise, Crash, ClearExisting, Upsert, FinishRead

LEMMA WkType ==
    ASSUME TypeOK, [Next]_vars
    PROVE  wk' \in [Workers -> WorkerStates]
<1> USE DEF TypeOK
<1>i. IdleWorker \in WorkerStates
  BY IdleWorkerType
<1>1. ASSUME NEW w \in Workers, NEW d \in Docs, Claim(w, d)
      PROVE  wk' \in [Workers -> WorkerStates]
  <2> DEFINE s == [IdleWorker EXCEPT !.pc = "parse", !.doc = d,
                                     !.version = NextVersion(d), !.beating = TRUE]
  <2>1. NextVersion(d) \in Nat
    BY DEF Rows, NextVersion
  <2>2. s \in WorkerStates
    BY <1>i, <2>1 DEF WorkerStates, PCs, Stages
  <2>3. wk' = [wk EXCEPT ![w] = s]
    BY <1>1 DEF Claim
  <2> QED
    BY <2>2, <2>3
<1>2. ASSUME NEW w \in Workers, Renew(w) PROVE wk' \in [Workers -> WorkerStates]
  <2> DEFINE s == [wk[w] EXCEPT !.beating = FALSE]
  <2>1. s \in WorkerStates
    BY DEF WorkerStates
  <2>2. wk' = wk \/ wk' = [wk EXCEPT ![w] = s]
    BY <1>2 DEF Renew
  <2> QED
    BY <2>1, <2>2
<1>3. ASSUME NEW w \in Workers, Raise(w) PROVE wk' \in [Workers -> WorkerStates]
  <2> DEFINE s(kind) == [wk[w] EXCEPT !.pc = "fail", !.outcome = kind]
             t == [wk[w] EXCEPT !.pc = "finish", !.outcome = "transient", !.open = FALSE]
  <2>1. t \in WorkerStates /\ \A kind \in {"transient", "permanent"} : s(kind) \in WorkerStates
    BY DEF WorkerStates, PCs, Outcomes
  <2>2. CASE wk' = [wk EXCEPT ![w] = t]
    BY <2>1, <2>2
  <2>3. CASE \E kind \in {"transient", "permanent"} : wk' = [wk EXCEPT ![w] = s(kind)]
    BY <2>1, <2>3
  <2> QED
    BY <1>3, <2>2, <2>3 DEF Raise
<1>4. ASSUME NEW w \in Workers, Crash(w) PROVE wk' \in [Workers -> WorkerStates]
  BY <1>4, <1>i DEF Crash
<1>l. ASSUME NEW w \in Workers, Lost(w) PROVE wk' \in [Workers -> WorkerStates]
  <2> DEFINE s == [wk[w] EXCEPT !.pc = "finish", !.outcome = "permanent", !.open = FALSE]
  <2>1. s \in WorkerStates
    BY DEF WorkerStates, PCs, Outcomes
  <2>2. wk' = [wk EXCEPT ![w] = s]
    BY <1>l DEF Lost
  <2> QED
    BY <2>1, <2>2
<1>5. ASSUME NEW w \in Workers, WriteProgress(w) PROVE wk' \in [Workers -> WorkerStates]
  <2>1. wk[w].pc \in Stages /\ After(wk[w].pc) \in PCs
    BY <1>5, StageTypes DEF WriteProgress
  <2>2. CASE Fenced(w)
    <3>1. wk' = [wk EXCEPT ![w].pc = After(wk[w].pc)]
      BY <1>5, <2>2 DEF WriteProgress
    <3> QED
      BY <2>1, <3>1 DEF WorkerStates
  <2> QED
    BY <1>5, <1>l, <2>2 DEF WriteProgress
<1>6. ASSUME NEW w \in Workers, ClearExisting(w) PROVE wk' \in [Workers -> WorkerStates]
  <2> DEFINE s == [wk[w] EXCEPT !.pc = "upsert", !.open = TRUE, !.deleted = chunks[wk[w].doc]]
  <2>1. wk[w] \in WorkerStates /\ chunks[wk[w].doc] \in SUBSET Nat
    BY DEF WorkerStates
  <2>2. s \in WorkerStates
    BY <2>1 DEF WorkerStates, PCs
  <2>3. wk' = [wk EXCEPT ![w] = s]
    BY <1>6 DEF ClearExisting
  <2> QED
    BY <2>2, <2>3
<1>7. ASSUME NEW w \in Workers, Upsert(w) PROVE wk' \in [Workers -> WorkerStates]
  BY <1>7 DEF Upsert, WorkerStates, PCs
<1>8. ASSUME NEW w \in Workers, WriteIndexed(w) PROVE wk' \in [Workers -> WorkerStates]
  <2> DEFINE s == [wk[w] EXCEPT !.pc = "finish", !.outcome = "ok", !.open = FALSE]
  <2>1. s \in WorkerStates
    BY DEF WorkerStates, PCs, Outcomes
  <2>2. CASE Fenced(w)
    <3>1. wk' = [wk EXCEPT ![w] = s]
      BY <1>8, <2>2 DEF WriteIndexed
    <3> QED
      BY <2>1, <3>1
  <2> QED
    BY <1>8, <1>l, <2>2 DEF WriteIndexed
<1>9. ASSUME NEW w \in Workers, WriteFailed(w) PROVE wk' \in [Workers -> WorkerStates]
  <2> DEFINE s == [wk[w] EXCEPT !.pc = "finish", !.open = FALSE]
  <2>1. s \in WorkerStates
    BY DEF WorkerStates, PCs
  <2>2. CASE Fenced(w)
    <3>1. wk' = [wk EXCEPT ![w] = s]
      BY <1>9, <2>2 DEF WriteFailed
    <3> QED
      BY <2>1, <3>1
  <2> QED
    BY <1>9, <1>l, <2>2 DEF WriteFailed
<1>10. ASSUME NEW w \in Workers, FinishRead(w) PROVE wk' \in [Workers -> WorkerStates]
  <2> DEFINE s == [wk[w] EXCEPT !.pc = "verdict", !.beating = FALSE,
                                !.attempts = row[wk[w].doc].attempts]
  <2>1. wk[w] \in WorkerStates /\ row[wk[w].doc].attempts \in Nat
    BY DEF WorkerStates, Rows
  <2>2. s \in WorkerStates
    BY <2>1 DEF WorkerStates, PCs
  <2>3. wk' = [wk EXCEPT ![w] = s] \/ wk' = [wk EXCEPT ![w] = IdleWorker]
    BY <1>10 DEF FinishRead
  <2> QED
    BY <1>i, <2>2, <2>3
<1>11. ASSUME NEW w \in Workers, FinishWrite(w) PROVE wk' \in [Workers -> WorkerStates]
  BY <1>11, <1>i DEF FinishWrite
<1>12. CASE UNCHANGED wk
  BY <1>12
<1> QED
  BY <1>1, <1>2, <1>3, <1>4, <1>5, <1>6, <1>7, <1>8, <1>9, <1>10, <1>11, <1>12
     DEF Next, Pipeline, vars, Upload, Enqueue, BeginDelete, EndDelete, Tick, RetryDue

LEMMA StoresType ==
    ASSUME TypeOK, [Next]_vars
    PROVE  /\ chunks' \in [Docs -> SUBSET Nat]
           /\ vectors' \in [Docs -> SUBSET Nat]
           /\ deleting' \subseteq Docs
           /\ requests' \in Nat
           /\ crashes' \in Nat
<1> USE DEF TypeOK
<1>1. ASSUME NEW w \in Workers, CommitChunks(w) PROVE chunks' \in [Docs -> SUBSET Nat]
  <2>1. wk[w].doc \in Docs /\ wk[w].version \in Nat
    BY DEF WorkerStates
  <2>2. (chunks[wk[w].doc] \ wk[w].deleted) \union {wk[w].version} \in SUBSET Nat
    BY <2>1
  <2> QED
    BY <1>1, <2>1, <2>2 DEF CommitChunks
<1>2. chunks' \in [Docs -> SUBSET Nat]
  BY <1>1 DEF Next, Pipeline, vars, Upload, Enqueue, BeginDelete, EndDelete, Tick, RetryDue,
     Claim, Renew, Raise, Crash, WriteProgress, ClearExisting, Upsert, WriteIndexed,
     WriteFailed, FinishRead, FinishWrite
<1>3. ASSUME NEW w \in Workers, Upsert(w) PROVE vectors' \in [Docs -> SUBSET Nat]
  <2>1. wk[w].doc \in Docs /\ wk[w].version \in Nat
    BY DEF WorkerStates
  <2> QED
    BY <1>3, <2>1 DEF Upsert
<1>a. ASSUME NEW w \in Workers, ClearExisting(w) PROVE vectors' \in [Docs -> SUBSET Nat]
  BY <1>a DEF ClearExisting
<1>b. ASSUME NEW d \in Docs, BeginDelete(d) PROVE vectors' \in [Docs -> SUBSET Nat]
  BY <1>b DEF BeginDelete
<1>4. vectors' \in [Docs -> SUBSET Nat]
  <2>1. \/ UNCHANGED vectors
        \/ \E w \in Workers : Upsert(w) \/ ClearExisting(w)
        \/ \E d \in Docs : BeginDelete(d)
    BY DEF Next, Pipeline, vars, Upload, Enqueue, EndDelete, Tick, RetryDue, Claim,
       Renew, Raise, Crash, WriteProgress, WriteIndexed, WriteFailed, FinishRead, FinishWrite
  <2> QED
    BY <1>3, <1>a, <1>b, <2>1
<1>5. deleting' \subseteq Docs
  BY DEF Next, Pipeline, vars, Upload, Enqueue, BeginDelete, EndDelete, Tick, RetryDue,
     Claim, Renew, Raise, Crash, WriteProgress, ClearExisting, Upsert, WriteIndexed,
     WriteFailed, FinishRead, FinishWrite
<1>6. requests' \in Nat
  <2>1. UNCHANGED requests \/ requests' = requests + 1
    BY DEF Next, Pipeline, vars, Upload, Enqueue, BeginDelete, EndDelete, Tick, RetryDue,
       Claim, Renew, Raise, Crash, WriteProgress, ClearExisting, Upsert, WriteIndexed,
       WriteFailed, FinishRead, FinishWrite
  <2> QED
    BY <2>1
<1>7. crashes' \in Nat
  <2>1. UNCHANGED crashes \/ crashes' = crashes + 1
    BY DEF Next, Pipeline, vars, Upload, Enqueue, BeginDelete, EndDelete, Tick, RetryDue,
       Claim, Renew, Raise, Crash, WriteProgress, ClearExisting, Upsert, WriteIndexed,
       WriteFailed, FinishRead, FinishWrite
  <2> QED
    BY <2>1
<1> QED
  BY <1>2, <1>4, <1>5, <1>6, <1>7

\* Every state reached has the types the columns of the Document row and the
\* locals of IngestionWorker.run_once and index_document have.
THEOREM TypeCorrect == Spec => []TypeOK
<1>1. Init => TypeOK
  <2> SUFFICES ASSUME Init PROVE TypeOK
    OBVIOUS
  <2>1. NewRow \in Rows
    BY Ticks DEF NewRow, Rows, Statuses, Outcomes
  <2> QED
    BY <2>1, IdleWorkerType DEF Init, TypeOK
<1>2. TypeOK /\ [Next]_vars => TypeOK'
  BY RowType, WkType, StoresType DEF TypeOK
<1> QED
  BY <1>1, <1>2, PTL DEF Spec

-----------------------------------------------------------------------------
(* The fencing.  Two lemmas say what one step may do to a row and to a      *)
(* worker; the inductive invariant below follows from them alone.           *)

\* Only a claim moves the version of a row, and a lease that is live after any
\* other step was live, with the same owner, before it.
LEMMA RowStep ==
    ASSUME TypeOK, [Next]_vars, NEW d \in Docs
    PROVE  \/ \E w \in Workers : Claim(w, d)
           \/ /\ row'[d].version = row[d].version
              /\ \/ row'[d].lease = 0
                 \/ row[d].lease > 0 /\ row'[d].owner = row[d].owner
<1> USE DEF TypeOK
<1> DEFINE Kept == /\ row'[d].version = row[d].version
                   /\ \/ row'[d].lease = 0
                      \/ row[d].lease > 0 /\ row'[d].owner = row[d].owner
<1>0. row[d] \in Rows /\ (row[d].lease = 0 \/ row[d].lease > 0)
  BY DEF Rows
<1>s. ASSUME row'[d] = row[d] PROVE Kept
  BY <1>s, <1>0
<1>1. ASSUME NEW e \in Docs, Upload(e) PROVE Kept
  BY <1>1, <1>0 DEF Upload, Rows
<1>2. ASSUME NEW e \in Docs, Enqueue(e) PROVE Kept
  <2> DEFINE r == [row[e] EXCEPT !.status = "pending", !.error = "none", !.due = TRUE,
                                 !.owner = NoWorker, !.attempts = 0]
  <2>1. row[e] \in Rows /\ row[e].lease = 0
    BY <1>2 DEF Enqueue
  <2>2. r.version = row[e].version /\ r.lease = 0
    BY <2>1 DEF Rows
  <2>3. row' = [row EXCEPT ![e] = r]
    BY <1>2 DEF Enqueue
  <2> QED
    BY <1>s, <2>2, <2>3
<1>3. ASSUME NEW e \in Docs, EndDelete(e) PROVE Kept
  <2> DEFINE r == [row[e] EXCEPT !.status = "deleted", !.lease = 0, !.owner = NoWorker]
  <2>1. row[e] \in Rows
    OBVIOUS
  <2>2. r.version = row[e].version /\ r.lease = 0
    BY <2>1 DEF Rows
  <2>3. row' = [row EXCEPT ![e] = r]
    BY <1>3 DEF EndDelete
  <2> QED
    BY <1>s, <2>2, <2>3
<1>4. ASSUME NEW e \in Docs, Tick(e) PROVE Kept
  BY <1>4, <1>0 DEF Tick, Rows
<1>5. ASSUME NEW e \in Docs, RetryDue(e) PROVE Kept
  BY <1>5, <1>0 DEF RetryDue, Rows
<1>6. ASSUME NEW w \in Workers, NEW e \in Docs, e # d, Claim(w, e) PROVE row'[d] = row[d]
  BY <1>6 DEF Claim
<1>7. ASSUME NEW w \in Workers, Renew(w) PROVE Kept
  <2>1. CASE HoldsLease(w)
    <3>1. row' = [row EXCEPT ![wk[w].doc].lease = TTL] /\ row[wk[w].doc].lease > 0
      BY <1>7, <2>1 DEF Renew, HoldsLease
    <3> QED
      BY <3>1, <1>0 DEF Rows
  <2>2. CASE ~ HoldsLease(w)
    BY <1>7, <1>s, <2>2 DEF Renew
  <2> QED
    BY <2>1, <2>2
<1>8. ASSUME NEW w \in Workers, WriteProgress(w) PROVE Kept
  <2>1. CASE Fenced(w)
    <3>1. row' = [row EXCEPT ![wk[w].doc].status = StatusOf(wk[w].pc),
                             ![wk[w].doc].error = IF wk[w].pc = "parse" THEN "none" ELSE @]
      BY <1>8, <2>1 DEF WriteProgress
    <3> QED
      BY <3>1, <1>0 DEF Rows
  <2> QED
    BY <1>8, <1>s, <2>1 DEF WriteProgress
<1>9. ASSUME NEW w \in Workers, WriteIndexed(w) PROVE Kept
  <2>1. CASE Fenced(w)
    <3>1. row' = [row EXCEPT ![wk[w].doc].status = "indexed", ![wk[w].doc].error = "none"]
      BY <1>9, <2>1 DEF WriteIndexed
    <3> QED
      BY <3>1, <1>0 DEF Rows
  <2> QED
    BY <1>9, <1>s, <2>1 DEF WriteIndexed
<1>10. ASSUME NEW w \in Workers, WriteFailed(w) PROVE Kept
  <2>1. CASE Fenced(w)
    <3>1. row' = [row EXCEPT ![wk[w].doc].status = "failed",
                             ![wk[w].doc].error = wk[w].outcome]
      BY <1>10, <2>1 DEF WriteFailed
    <3> QED
      BY <3>1, <1>0 DEF Rows
  <2> QED
    BY <1>10, <1>s, <2>1 DEF WriteFailed
<1>11. ASSUME NEW w \in Workers, FinishWrite(w) PROVE Kept
  <2> DEFINE e == wk[w].doc
             r == Verdict(row[e], wk[w].outcome, wk[w].attempts)
  <2>1. wk[w].outcome \in Outcomes /\ wk[w].attempts \in Nat /\ e \in Docs /\ row[e] \in Rows
    BY DEF WorkerStates
  <2>2. r.version = row[e].version /\ r.lease = 0
    BY <2>1, VerdictType
  <2>3. row' = row \/ row' = [row EXCEPT ![e] = r]
    BY <1>11 DEF FinishWrite
  <2> HIDE DEF r
  <2> QED
    BY <1>s, <2>1, <2>2, <2>3
<1>12. CASE UNCHANGED row
  BY <1>12, <1>s
<1> HIDE DEF Kept
<1> QED
  <2>1. (\E w \in Workers : Claim(w, d)) \/ Kept \/ row'[d] = row[d]
    BY <1>1, <1>2, <1>3, <1>4, <1>5, <1>6, <1>7, <1>8, <1>9, <1>10, <1>11, <1>12
       DEF Next, Pipeline, vars, BeginDelete, Raise, Crash, ClearExisting, Upsert, FinishRead
  <2> QED
    BY <2>1, <1>s DEF Kept

\* A worker becomes active by a claim; while active it keeps its document and
\* the version it claimed.
LEMMA WorkerStep ==
    ASSUME TypeOK, [Next]_vars, NEW w \in Workers
    PROVE  \/ \E d \in Docs : Claim(w, d)
           \/ wk'[w].pc = "idle"
           \/ /\ wk[w].pc # "idle"
              /\ wk'[w].doc = wk[w].doc /\ wk'[w].version = wk[w].version
<1> USE DEF TypeOK
<1> DEFINE Same == /\ wk[w].pc # "idle"
                   /\ wk'[w].doc = wk[w].doc /\ wk'[w].version = wk[w].version
<1>s. ASSUME wk'[w] = wk[w] PROVE wk'[w].pc = "idle" \/ Same
  BY <1>s
<1>i. IdleWorker.pc = "idle"
  BY IdleWorkerType
<1>0. \A v \in Workers : wk[v] \in WorkerStates
  OBVIOUS
<1>1. ASSUME NEW v \in Workers, v # w, NEW d \in Docs, Claim(v, d) PROVE wk'[w] = wk[w]
  BY <1>1 DEF Claim
<1>2. ASSUME NEW v \in Workers, Renew(v) PROVE wk'[w].pc = "idle" \/ Same
  BY <1>2, <1>0 DEF Renew, WorkerStates
<1>3. ASSUME NEW v \in Workers, Raise(v) PROVE wk'[w].pc = "idle" \/ Same
  <2>1. CASE \E kind \in {"transient", "permanent"} :
                wk' = [wk EXCEPT ![v].pc = "fail", ![v].outcome = kind]
    <3>1. PICK kind : wk' = [wk EXCEPT ![v].pc = "fail", ![v].outcome = kind]
      BY <2>1
    <3>2. wk[v].pc # "idle"
      BY <1>3 DEF Raise, Stages
    <3> QED BY <3>1, <3>2, <1>0 DEF WorkerStates
  <2>2. CASE wk' = [wk EXCEPT ![v].pc = "finish", ![v].outcome = "transient",
                              ![v].open = FALSE]
    BY <2>2, <1>3, <1>0 DEF Raise, WorkerStates
  <2> QED BY <1>3, <2>1, <2>2 DEF Raise
<1>4. ASSUME NEW v \in Workers, Crash(v) PROVE wk'[w].pc = "idle" \/ Same
  BY <1>4, <1>i, <1>0 DEF Crash
<1>l. ASSUME NEW v \in Workers, wk[v].pc # "idle", Lost(v) PROVE wk'[w].pc = "idle" \/ Same
  BY <1>l, <1>0 DEF Lost, WorkerStates
<1>5. ASSUME NEW v \in Workers, WriteProgress(v) PROVE wk'[w].pc = "idle" \/ Same
  BY <1>5, <1>l, <1>0 DEF WriteProgress, WorkerStates, Stages
<1>6. ASSUME NEW v \in Workers, ClearExisting(v) PROVE wk'[w].pc = "idle" \/ Same
  BY <1>6, <1>0 DEF ClearExisting, WorkerStates
<1>7. ASSUME NEW v \in Workers, Upsert(v) PROVE wk'[w].pc = "idle" \/ Same
  BY <1>7, <1>0 DEF Upsert, WorkerStates
<1>8. ASSUME NEW v \in Workers, WriteIndexed(v) PROVE wk'[w].pc = "idle" \/ Same
  <2>1. CASE Fenced(v)
    <3>1. /\ wk[v].pc # "idle"
          /\ wk' = [wk EXCEPT ![v] = [wk[v] EXCEPT !.pc = "finish", !.outcome = "ok",
                                                    !.open = FALSE]]
      BY <1>8, <2>1 DEF WriteIndexed
    <3> QED
      BY <3>1, <1>0 DEF WorkerStates
  <2>2. CASE ~ Fenced(v)
    BY <1>8, <1>l, <2>2 DEF WriteIndexed
  <2> QED
    BY <2>1, <2>2
<1>9. ASSUME NEW v \in Workers, WriteFailed(v) PROVE wk'[w].pc = "idle" \/ Same
  BY <1>9, <1>l, <1>0 DEF WriteFailed, WorkerStates
<1>10. ASSUME NEW v \in Workers, FinishRead(v) PROVE wk'[w].pc = "idle" \/ Same
  BY <1>10, <1>i, <1>0 DEF FinishRead, WorkerStates
<1>11. ASSUME NEW v \in Workers, FinishWrite(v) PROVE wk'[w].pc = "idle" \/ Same
  BY <1>11, <1>i, <1>0 DEF FinishWrite
<1>12. CASE UNCHANGED wk
  BY <1>12, <1>s
<1> HIDE DEF Same
<1> QED
  <2>1. (\E d \in Docs : Claim(w, d)) \/ wk'[w].pc = "idle" \/ Same
    BY <1>s, <1>1, <1>2, <1>3, <1>4, <1>5, <1>6, <1>7, <1>8, <1>9, <1>10, <1>11, <1>12
       DEF Next, Pipeline, vars, Upload, Enqueue, BeginDelete, EndDelete, Tick, RetryDue
  <2> QED
    BY <2>1 DEF Same

\* The inductive invariant: claim versions are identities, and a live lease
\* names the only active worker that quotes the row's version.
LeaseNamesHolder ==
    \A w \in Workers :
        LET d == wk[w].doc IN
        Active(w) /\ row[d].version = wk[w].version /\ row[d].lease > 0
           => row[d].owner = w

FenceInv == TypeOK /\ ClaimIdentity /\ LeaseNamesHolder

LEMMA ClaimEffect ==
    ASSUME TypeOK, NEW w \in Workers, NEW d \in Docs, Claim(w, d)
    PROVE  /\ wk[w].pc = "idle"
           /\ wk'[w].doc = d
           /\ wk'[w].version = row[d].version + 1
           /\ row'[d].version = row[d].version + 1
           /\ row'[d].owner = w
           /\ \A v \in Workers : v # w => wk'[v] = wk[v]
<1> USE DEF TypeOK
<1> DEFINE r == [row[d] EXCEPT !.status = "parsing", !.lease = TTL, !.owner = w,
                               !.attempts = row[d].attempts + 1, !.version = NextVersion(d)]
           s == [IdleWorker EXCEPT !.pc = "parse", !.doc = d,
                                   !.version = NextVersion(d), !.beating = TRUE]
<1>1. wk[w].pc = "idle" /\ row' = [row EXCEPT ![d] = r] /\ wk' = [wk EXCEPT ![w] = s]
  BY DEF Claim
<1>2. r.version = NextVersion(d) /\ r.owner = w
  BY DEF Rows
<1>3. s.doc = d /\ s.version = NextVersion(d)
  BY IdleWorkerType DEF WorkerStates
<1> HIDE DEF r, s
<1> QED
  BY <1>1, <1>2, <1>3 DEF NextVersion

LEMMA FenceInvStep == FenceInv /\ [Next]_vars => FenceInv'
<1> SUFFICES ASSUME FenceInv, [Next]_vars PROVE FenceInv'
  OBVIOUS
<1>t. TypeOK /\ TypeOK'
  BY RowType, WkType, StoresType DEF FenceInv, TypeOK
<1>n. /\ \A d \in Docs : row[d].version \in Nat /\ row'[d].version \in Nat
      /\ \A w \in Workers : wk[w].doc \in Docs /\ wk[w].version \in Nat
      /\ \A w \in Workers : wk'[w].doc \in Docs /\ wk'[w].version \in Nat
      /\ \A d \in Docs : row'[d].lease \in Nat
  BY <1>t, IngestionAssumption DEF TypeOK, Rows, WorkerStates
<1>g. \A d \in Docs : row'[d].version >= row[d].version
  BY <1>t, <1>n, RowStep, ClaimEffect
<1>1. ClaimIdentity'
  <2>1. ASSUME NEW w \in Workers, Active(w)' PROVE wk'[w].version \in 1..row'[wk'[w].doc].version
    <3>1. CASE \E d \in Docs : Claim(w, d)
      BY <1>t, <1>n, <3>1, ClaimEffect
    <3>2. CASE ~ \E d \in Docs : Claim(w, d)
      <4>1. Active(w) /\ wk'[w].doc = wk[w].doc /\ wk'[w].version = wk[w].version
        BY <1>t, <2>1, <3>2, WorkerStep DEF Active
      <4>2. wk[w].version \in 1..row[wk[w].doc].version
        BY <4>1 DEF FenceInv, ClaimIdentity
      <4> QED
        BY <1>g, <1>n, <4>1, <4>2
    <3> QED
      BY <3>1, <3>2
  <2>2. ASSUME NEW v \in Workers, NEW w \in Workers, NEW d \in Docs, Claim(w, d),
               Active(v)', v # w, wk'[v].doc = d
        PROVE  wk'[v].version < wk'[w].version
    <3>1. wk'[v] = wk[v] /\ wk'[w].version = row[d].version + 1
      BY <1>t, <2>2, ClaimEffect
    <3>2. wk[v].version \in 1..row[d].version
      BY <2>2, <3>1 DEF FenceInv, ClaimIdentity, Active
    <3> QED
      BY <1>n, <3>1, <3>2
  <2>3. ASSUME NEW v \in Workers, NEW w \in Workers, Active(v)', Active(w)', v # w,
               wk'[v].doc = wk'[w].doc
        PROVE  wk'[v].version # wk'[w].version
    <3>1. CASE \E d \in Docs : Claim(w, d)
      BY <1>t, <1>n, <2>2, <2>3, <3>1, ClaimEffect
    <3>2. CASE \E d \in Docs : Claim(v, d)
      BY <1>t, <1>n, <2>2, <2>3, <3>2, ClaimEffect
    <3>3. CASE ~ (\E d \in Docs : Claim(w, d)) /\ ~ (\E d \in Docs : Claim(v, d))
      <4>1. /\ Active(w) /\ wk'[w].doc = wk[w].doc /\ wk'[w].version = wk[w].version
            /\ Active(v) /\ wk'[v].doc = wk[v].doc /\ wk'[v].version = wk[v].version
        BY <1>t, <2>3, <3>3, WorkerStep DEF Active
      <4> QED
        BY <2>3, <4>1 DEF FenceInv, ClaimIdentity
    <3> QED
      BY <3>1, <3>2, <3>3
  <2> QED
    BY <2>1, <2>3 DEF ClaimIdentity
<1>2. LeaseNamesHolder'
  <2> SUFFICES ASSUME NEW w \in Workers, Active(w)',
                      row'[wk'[w].doc].version = wk'[w].version,
                      row'[wk'[w].doc].lease > 0
               PROVE  row'[wk'[w].doc].owner = w
    BY DEF LeaseNamesHolder
  <2>1. CASE \E d \in Docs : Claim(w, d)
    BY <1>t, <2>1, ClaimEffect
  <2>2. CASE ~ \E d \in Docs : Claim(w, d)
    <3> DEFINE d == wk[w].doc
    <3>1. Active(w) /\ wk'[w].doc = d /\ wk'[w].version = wk[w].version /\ d \in Docs
      BY <1>t, <1>n, <2>2, WorkerStep DEF Active
    <3>2. wk[w].version \in 1..row[d].version
      BY <3>1 DEF FenceInv, ClaimIdentity
    <3>3. ~ \E v \in Workers : Claim(v, d)
      BY <1>t, <1>n, <3>1, <3>2, ClaimEffect
    <3>4. row[d].version = wk[w].version /\ row[d].lease > 0 /\ row'[d].owner = row[d].owner
      BY <1>t, <1>n, <3>1, <3>3, RowStep
    <3> QED
      BY <3>1, <3>4 DEF FenceInv, LeaseNamesHolder
  <2> QED
    BY <2>1, <2>2
<1> QED
  BY <1>t, <1>1, <1>2 DEF FenceInv

THEOREM FenceInvariant == Spec => []FenceInv
<1>1. Init => FenceInv
  <2> SUFFICES ASSUME Init PROVE FenceInv
    OBVIOUS
  <2>1. NewRow \in Rows
    BY Ticks DEF NewRow, Rows, Statuses, Outcomes
  <2>2. \A w \in Workers : ~ Active(w)
    BY IdleWorkerType DEF Init, Active
  <2> QED
    BY <2>1, <2>2, IdleWorkerType DEF Init, FenceInv, TypeOK, ClaimIdentity, LeaseNamesHolder
<1> QED
  BY <1>1, FenceInvStep, PTL DEF Spec

\* The claim version is an identity: no two live runs of a document quote the
\* same one, and none quotes a version the row has not reached (claim_job).
THEOREM ClaimsAreIdentities == Spec => []ClaimIdentity
BY FenceInvariant, PTL DEF FenceInv

\* While a lease is live, only the worker it names can still write the row back
\* (claim_job, renew, finish, _write_progress).
THEOREM LeaseExcludes == Spec => []LiveLeaseExcludes
<1>1. FenceInv => LiveLeaseExcludes
  BY DEF FenceInv, LeaseNamesHolder, LiveLeaseExcludes, Fenced
<1> QED
  BY <1>1, FenceInvariant, PTL

\* Nothing but a claim moves the version of a row, and no step moves it back:
\* enqueue, finish and the progress writes leave it alone.
THEOREM VersionsGrow == Spec => VersionMonotone
<1>1. FenceInv /\ [Next]_vars => [\A d \in Docs : row'[d].version >= row[d].version]_vars
  <2> SUFFICES ASSUME FenceInv, [Next]_vars, NEW d \in Docs
               PROVE  row'[d].version >= row[d].version
    OBVIOUS
  <2>1. TypeOK /\ row[d].version \in Nat
    BY DEF FenceInv, TypeOK, Rows
  <2> QED
    BY <2>1, RowStep, ClaimEffect
<1> QED
  BY <1>1, FenceInvariant, PTL DEF Spec, VersionMonotone

\* A worker whose document has moved on to another claim writes nothing to the
\* document row: not its progress, not its verdict (_write_progress, finish).
THEOREM ZombiesWriteNothing == Spec => NoZombieWrite
<1> DEFINE Silent == \A w \in Workers :
              Active(w) /\ wk[w].version # row[wk[w].doc].version /\ wk'[w] # wk[w]
                 => row' = row
<1>1. FenceInv /\ [Next]_vars => [Silent]_vars
  <2> SUFFICES ASSUME FenceInv, [Next]_vars, NEW w \in Workers, Active(w),
                      wk[w].version # row[wk[w].doc].version, wk'[w] # wk[w]
               PROVE  row' = row
    OBVIOUS
  <2>t. wk \in [Workers -> WorkerStates]
    BY DEF FenceInv, TypeOK
  <2>f. ~ Fenced(w) /\ ~ HoldsLease(w)
    BY DEF Fenced, HoldsLease
  <2>1. ASSUME NEW v \in Workers, NEW d \in Docs, Claim(v, d) PROVE wk'[w] = wk[w]
    BY <2>1, <2>t DEF Claim, Active
  <2>2. ASSUME NEW v \in Workers, v # w, Renew(v) \/ Pipeline(v) \/ Raise(v) \/ Crash(v)
        PROVE  wk'[w] = wk[w]
    BY <2>2, <2>t DEF Renew, Pipeline, Raise, Crash, WriteProgress, ClearExisting, Upsert,
       WriteIndexed, WriteFailed, FinishRead, FinishWrite, Lost
  <2>3. ASSUME Renew(w) \/ Pipeline(w) \/ Raise(w) \/ Crash(w) PROVE row' = row
    BY <2>3, <2>f DEF Renew, Pipeline, Raise, Crash, WriteProgress, ClearExisting, Upsert,
       WriteIndexed, WriteFailed, FinishRead, FinishWrite
  <2> QED
    BY <2>1, <2>2, <2>3
       DEF Next, vars, Upload, Enqueue, BeginDelete, EndDelete, Tick, RetryDue
<1> QED
  BY <1>1, FenceInvariant, PTL DEF Spec, NoZombieWrite

-----------------------------------------------------------------------------
(***************************************************************************)
(* An indexed document has the chunks and vectors of exactly one claim,    *)
(* for every number of documents, workers, claims, crashes and requests,   *)
(* as long as a heartbeat comes in time (~ Stalls) and the vector store    *)
(* answers (~ StoreFaults).  Under these assumptions a worker that is      *)
(* active on an existing document holds its lease, so it is alone on it;   *)
(* what it has done to the stores is then a function of its program        *)
(* counter.                                                                *)
(***************************************************************************)


\* Worker w runs the pipeline on document d.
Works(w, d) == Active(w) /\ wk[w].doc = d

\* A document whose index matters: neither deleted nor about to be.
Lasting(d) == Exists(d) /\ d \notin deleting

OneGeneration(d, v) == chunks[d] = {v} /\ vectors[d] = {v}

\* The stores of a lasting document d, by the progress of the worker w on it.
Phase(w, d) ==
    /\ wk[w].pc \in {"upsert", "store"} => wk[w].open /\ wk[w].deleted = chunks[d]
    /\ wk[w].pc = "upsert" => vectors[d] = {}
    /\ wk[w].pc = "store" => vectors[d] = {wk[w].version}
    /\ row[d].status = "indexed" => /\ wk[w].pc \in {"finish", "verdict"}
                                    /\ OneGeneration(d, wk[w].version)

Consistent(d) == \E v \in 1..row[d].version : OneGeneration(d, v)

DocInv(d) ==
    /\ row[d].status = "none" => row[d].version = 0
    /\ Exists(d) => \A w \in Workers : Works(w, d) => HoldsLease(w)
    /\ Lasting(d) => \A w \in Workers : Works(w, d) => Phase(w, d)
    /\ Lasting(d) /\ row[d].status = "indexed" /\ (\A w \in Workers : ~ Works(w, d))
          => Consistent(d)

IndexInv == FenceInv /\ \A d \in Docs : DocInv(d)

-----------------------------------------------------------------------------
(* What is left to show of a step, by who works on the document after it.   *)

\* A document the step leaves alone.
LEMMA Untouched ==
    ASSUME NEW d \in Docs, DocInv(d),
           row'[d] = row[d], chunks'[d] = chunks[d], vectors'[d] = vectors[d],
           d \in deleting' <=> d \in deleting,
           \A w \in Workers : Works(w, d)' => wk'[w] = wk[w],
           \A w \in Workers : Works(w, d) => wk'[w] = wk[w]
    PROVE  DocInv(d)'
BY DEF DocInv, Works, Active, Lasting, Exists, HoldsLease, Fenced, Phase, Consistent,
       OneGeneration

\* A document that does not exist after the step.
LEMMA Absent ==
    ASSUME NEW d \in Docs, row'[d].status \in {"none", "deleted"},
           row'[d].status = "none" => row'[d].version = 0
    PROVE  DocInv(d)'
BY DEF DocInv, Exists, Lasting

\* Nobody works on the document after the step.
LEMMA Unattended ==
    ASSUME NEW d \in Docs, row'[d].status # "none",
           \A w \in Workers : ~ Works(w, d)',
           Lasting(d)' /\ row'[d].status = "indexed" => Consistent(d)'
    PROVE  DocInv(d)'
BY DEF DocInv

\* One worker works on it after the step.
LEMMA Attended ==
    ASSUME NEW d \in Docs, NEW v \in Workers, row'[d].status # "none",
           Works(v, d)', HoldsLease(v)',
           \A w \in Workers : w # v => ~ Works(w, d)',
           Lasting(d)' => Phase(v, d)'
    PROVE  DocInv(d)'
BY DEF DocInv

\* Two workers never work on the same existing document: both would own its lease.
LEMMA Alone ==
    ASSUME NEW d \in Docs, DocInv(d), Exists(d),
           NEW v \in Workers, NEW w \in Workers, Works(v, d), Works(w, d)
    PROVE  v = w
BY DEF DocInv, HoldsLease, Works

-----------------------------------------------------------------------------
(* The API and the clock.                                                   *)

LEMMA NobodyOnNew ==
    ASSUME IndexInv, NEW d \in Docs, row[d].status = "none", NEW w \in Workers
    PROVE  ~ Works(w, d)
<1>1. row[d].version = 0
  BY DEF IndexInv, DocInv
<1> QED
  BY <1>1 DEF IndexInv, FenceInv, ClaimIdentity, Works

LEMMA NobodyWithoutLease ==
    ASSUME IndexInv, NEW d \in Docs, Exists(d), row[d].lease = 0, NEW w \in Workers
    PROVE  ~ Works(w, d)
BY DEF IndexInv, DocInv, HoldsLease, Works

LEMMA UploadKeeps ==
    ASSUME IndexInv, NEW d \in Docs, NEW e \in Docs, Upload(e)
    PROVE  DocInv(d)'
<1>t. TypeOK /\ DocInv(d) /\ wk' = wk
  BY DEF IndexInv, FenceInv, Upload
<1>1. CASE d # e
  BY <1>1, <1>t, Untouched DEF Upload, TypeOK
<1>2. CASE d = e
  <2>1. row'[d].status = "pending"
    BY <1>2, <1>t DEF Upload, TypeOK, Rows
  <2>2. \A w \in Workers : ~ Works(w, d)'
    BY <1>2, <1>t, NobodyOnNew DEF Upload, Works, Active
  <2> QED
    BY <2>1, <2>2, Unattended
<1> QED
  BY <1>1, <1>2

LEMMA EnqueueKeeps ==
    ASSUME IndexInv, NEW d \in Docs, NEW e \in Docs, Enqueue(e)
    PROVE  DocInv(d)'
<1>t. TypeOK /\ DocInv(d) /\ wk' = wk
  BY DEF IndexInv, FenceInv, Enqueue
<1>1. CASE d # e
  BY <1>1, <1>t, Untouched DEF Enqueue, TypeOK
<1>2. CASE d = e
  <2>1. row'[d].status = "pending"
    BY <1>2, <1>t DEF Enqueue, TypeOK, Rows
  <2>2. \A w \in Workers : ~ Works(w, d)'
    BY <1>2, <1>t, NobodyWithoutLease DEF Enqueue, Works, Active
  <2> QED
    BY <2>1, <2>2, Unattended
<1> QED
  BY <1>1, <1>2

LEMMA BeginDeleteKeeps ==
    ASSUME IndexInv, NEW d \in Docs, NEW e \in Docs, BeginDelete(e)
    PROVE  DocInv(d)'
<1>t. TypeOK /\ DocInv(d) /\ wk' = wk /\ row' = row
  BY DEF IndexInv, FenceInv, BeginDelete
<1>1. CASE d # e
  BY <1>1, <1>t, Untouched DEF BeginDelete, TypeOK
<1>2. CASE d = e
  <2>1. ~ Lasting(d)'
    BY <1>2 DEF BeginDelete, Lasting
  <2>2. Exists(d)' => \A w \in Workers : Works(w, d)' => HoldsLease(w)'
    BY <1>t DEF DocInv, Exists, Works, Active, HoldsLease, Fenced
  <2> QED
    BY <1>t, <2>1, <2>2 DEF DocInv
<1> QED
  BY <1>1, <1>2

LEMMA EndDeleteKeeps ==
    ASSUME IndexInv, NEW d \in Docs, NEW e \in Docs, EndDelete(e)
    PROVE  DocInv(d)'
<1>t. TypeOK /\ DocInv(d) /\ wk' = wk
  BY DEF IndexInv, FenceInv, EndDelete
<1>1. CASE d # e
  BY <1>1, <1>t, Untouched DEF EndDelete, TypeOK
<1>2. CASE d = e
  <2>1. row'[d].status = "deleted"
    BY <1>2, <1>t DEF EndDelete, TypeOK, Rows
  <2> QED
    BY <2>1, Absent
<1> QED
  BY <1>1, <1>2

\* A step that changes nothing of a row but its schedule.
LEMMA Rescheduled ==
    ASSUME IndexInv, NEW d \in Docs, UNCHANGED <<chunks, vectors, wk, deleting>>,
           row'[d].status = row[d].status, row'[d].version = row[d].version,
           row'[d].owner = row[d].owner,
           \A w \in Workers : Works(w, d) /\ HoldsLease(w) => row'[d].lease > 0
    PROVE  DocInv(d)'
<1>t. DocInv(d)
  BY DEF IndexInv
<1>1. Exists(d)' => \A w \in Workers : Works(w, d)' => HoldsLease(w)'
  BY <1>t DEF DocInv, Exists, Works, Active, HoldsLease, Fenced
<1>2. \A w \in Workers : Phase(w, d)' <=> Phase(w, d)
  BY DEF Phase, OneGeneration
<1>3. (Lasting(d)' <=> Lasting(d)) /\ (Consistent(d)' <=> Consistent(d))
  BY DEF Lasting, Exists, Consistent, OneGeneration
<1>4. \A w \in Workers : Works(w, d)' <=> Works(w, d)
  BY DEF Works, Active
<1> QED
  BY <1>t, <1>1, <1>2, <1>3, <1>4 DEF DocInv

LEMMA TickKeeps ==
    ASSUME IndexInv, ~ Stalls, NEW d \in Docs, NEW e \in Docs, Tick(e)
    PROVE  DocInv(d)'
<1>t. TypeOK
  BY DEF IndexInv, FenceInv
<1>0. row[d].lease \in Nat
  BY <1>t, IngestionAssumption DEF TypeOK, Rows
<1>1. /\ row'[d].status = row[d].status /\ row'[d].version = row[d].version
      /\ row'[d].owner = row[d].owner
      /\ row'[d].lease = IF d = e THEN row[d].lease - 1 ELSE row[d].lease
  BY <1>t DEF Tick, TypeOK, Rows
<1>2. ASSUME NEW w \in Workers, Works(w, d), HoldsLease(w) PROVE row'[d].lease > 0
  <2>1. row[d].lease > 0
    BY <1>2 DEF Works, HoldsLease
  <2>2. CASE d = e
    <3>1. row[d].lease > 1
      BY <1>2, <2>2 DEF Tick, Works, Active
    <3> QED
      BY <1>0, <1>1, <3>1
  <2> QED
    BY <1>1, <2>1, <2>2
<1> QED
  BY <1>1, <1>2, Rescheduled DEF Tick

LEMMA RetryDueKeeps ==
    ASSUME IndexInv, NEW d \in Docs, NEW e \in Docs, RetryDue(e)
    PROVE  DocInv(d)'
<1>t. TypeOK
  BY DEF IndexInv, FenceInv
<1>1. /\ row'[d].status = row[d].status /\ row'[d].version = row[d].version
      /\ row'[d].owner = row[d].owner /\ row'[d].lease = row[d].lease
  BY <1>t DEF RetryDue, TypeOK, Rows
<1>2. ASSUME NEW w \in Workers, Works(w, d), HoldsLease(w) PROVE row'[d].lease > 0
  BY <1>1, <1>2 DEF Works, HoldsLease
<1> QED
  BY <1>1, <1>2, Rescheduled DEF RetryDue

-----------------------------------------------------------------------------
(* The workers.                                                             *)

\* What a step of an active worker v comes down to: v's document, if it exists, is
\* either left by v with a consistent index or held by v in the next phase.
Advances(v, d) ==
    /\ row'[d].status # "none"
    /\ \/ /\ wk'[v].pc = "idle"
          /\ Lasting(d)' /\ row'[d].status = "indexed" => Consistent(d)'
       \/ /\ wk'[v].pc # "idle" /\ wk'[v].doc = d
          /\ HoldsLease(v)'
          /\ Lasting(d)' => Phase(v, d)'

LEMMA WorkerStepKeeps ==
    ASSUME IndexInv, NEW d \in Docs, NEW v \in Workers, Active(v),
           \A w \in Workers : w # v => wk'[w] = wk[w],
           wk'[v].pc = "idle" \/ wk'[v].doc = wk[v].doc,
           deleting' = deleting,
           d # wk[v].doc => /\ row'[d] = row[d]
                            /\ chunks'[d] = chunks[d] /\ vectors'[d] = vectors[d],
           ~ Exists(wk[v].doc) => row' = row,
           d = wk[v].doc /\ Exists(d) => Advances(v, d)
    PROVE  DocInv(d)'
<1>t. DocInv(d)
  BY DEF IndexInv
<1>1. CASE d # wk[v].doc
  <2>1. ~ Works(v, d) /\ ~ Works(v, d)'
    BY <1>1 DEF Works, Active
  <2>2. \A w \in Workers : Works(w, d) \/ Works(w, d)' => wk'[w] = wk[w]
    BY <2>1
  <2> QED
    BY <1>1, <1>t, <2>2, Untouched
<1>2. CASE d = wk[v].doc /\ ~ Exists(d)
  BY <1>2, <1>t, Absent DEF Exists, DocInv
<1>3. CASE d = wk[v].doc /\ Exists(d)
  <2>1. ASSUME NEW w \in Workers, w # v PROVE ~ Works(w, d)'
    <3>1. ~ Works(w, d)
      BY <1>3, <1>t, <2>1, Alone DEF Works
    <3> QED
      BY <2>1, <3>1 DEF Works, Active
  <2>2. Advances(v, d)
    BY <1>3
  <2>3. CASE wk'[v].pc = "idle"
    <3>1. \A w \in Workers : ~ Works(w, d)'
      BY <2>1, <2>3 DEF Works, Active
    <3> QED
      BY <2>2, <2>3, <3>1, Unattended DEF Advances
  <2>4. CASE wk'[v].pc # "idle"
    <3>1. Works(v, d)'
      BY <2>2, <2>4 DEF Advances, Works, Active
    <3> QED
      BY <2>1, <2>2, <2>4, <3>1, Attended DEF Advances
  <2> QED
    BY <2>3, <2>4
<1> QED
  BY <1>1, <1>2, <1>3

\* The worker of an existing document: it holds the lease and is in its phase.
LEMMA OnExisting ==
    ASSUME IndexInv, NEW v \in Workers, Active(v), Exists(wk[v].doc)
    PROVE  /\ wk[v].doc \in Docs
           /\ HoldsLease(v) /\ Fenced(v)
           /\ Lasting(wk[v].doc) => Phase(v, wk[v].doc)
<1>1. wk[v].doc \in Docs
  BY DEF IndexInv, FenceInv, TypeOK, WorkerStates
<1> QED
  BY <1>1 DEF IndexInv, DocInv, Works, HoldsLease

LEMMA ClaimKeeps ==
    ASSUME IndexInv, NEW d \in Docs, NEW v \in Workers, NEW e \in Docs, Claim(v, e)
    PROVE  DocInv(d)'
<1> DEFINE r == [row[e] EXCEPT !.status = "parsing", !.lease = TTL, !.owner = v,
                               !.attempts = row[e].attempts + 1, !.version = NextVersion(e)]
           s == [IdleWorker EXCEPT !.pc = "parse", !.doc = e,
                                   !.version = NextVersion(e), !.beating = TRUE]
<1>t. TypeOK /\ DocInv(d)
  BY DEF IndexInv, FenceInv
<1>1. /\ wk[v].pc = "idle" /\ CanClaim(e)
      /\ row' = [row EXCEPT ![e] = r] /\ wk' = [wk EXCEPT ![v] = s]
      /\ UNCHANGED <<chunks, vectors, deleting>>
  BY DEF Claim
<1>2. r.status = "parsing" /\ r.version = NextVersion(e) /\ r.owner = v /\ r.lease = TTL
  BY <1>t DEF TypeOK, Rows
<1>3. s.pc = "parse" /\ s.doc = e /\ s.version = NextVersion(e)
  BY IdleWorkerType DEF WorkerStates
<1> HIDE DEF r, s
<1>4. row'[e] = r /\ wk'[v] = s /\ \A w \in Workers : w # v => wk'[w] = wk[w]
  BY <1>1, <1>t DEF TypeOK
<1>5. CASE d # e
  <2>1. ~ Works(v, d) /\ ~ Works(v, d)'
    BY <1>1, <1>3, <1>4, <1>5 DEF Works, Active
  <2>2. \A w \in Workers : Works(w, d) \/ Works(w, d)' => wk'[w] = wk[w]
    BY <1>4, <2>1
  <2>3. row'[d] = row[d]
    BY <1>1, <1>5, <1>t DEF TypeOK
  <2> QED
    BY <1>1, <1>t, <2>2, <2>3, Untouched
<1>6. CASE d = e
  <2>1. Exists(d) /\ row[d].lease = 0
    BY <1>1, <1>6 DEF CanClaim, Claimable, InProgress, Exists
  <2>2. \A w \in Workers : ~ Works(w, d)
    BY <2>1, NobodyWithoutLease
  <2>3. \A w \in Workers : w # v => ~ Works(w, d)'
    BY <1>4, <2>2 DEF Works, Active
  <2>4. Works(v, d)' /\ row'[d].status # "none"
    BY <1>2, <1>3, <1>4, <1>6 DEF Works, Active
  <2>5. HoldsLease(v)'
    BY <1>2, <1>3, <1>4, <1>6, IngestionAssumption DEF HoldsLease, Fenced, Exists
  <2>6. Phase(v, d)'
    BY <1>2, <1>3, <1>4, <1>6 DEF Phase
  <2> QED
    BY <2>3, <2>4, <2>5, <2>6, Attended
<1> QED
  BY <1>5, <1>6

LEMMA RenewKeeps ==
    ASSUME IndexInv, NEW d \in Docs, NEW v \in Workers, Renew(v)
    PROVE  DocInv(d)'
<1>t. TypeOK /\ DocInv(d)
  BY DEF IndexInv, FenceInv
<1>1. CASE HoldsLease(v)
  <2>1. row' = [row EXCEPT ![wk[v].doc].lease = TTL] /\ wk' = wk
    BY <1>1 DEF Renew
  <2>2. /\ row'[d].status = row[d].status /\ row'[d].version = row[d].version
        /\ row'[d].owner = row[d].owner
        /\ row'[d].lease = IF d = wk[v].doc THEN TTL ELSE row[d].lease
    BY <2>1, <1>t DEF TypeOK, Rows
  <2>3. ASSUME NEW w \in Workers, Works(w, d), HoldsLease(w) PROVE row'[d].lease > 0
    BY <2>2, <2>3, IngestionAssumption DEF Works, HoldsLease
  <2> QED
    BY <2>1, <2>2, <2>3, Rescheduled DEF Renew
<1>2. CASE ~ HoldsLease(v)
  <2>1. row' = row /\ wk' = [wk EXCEPT ![v].beating = FALSE]
        /\ UNCHANGED <<chunks, vectors, deleting>>
    BY <1>2 DEF Renew
  <2>2. \A w \in Workers : /\ wk'[w].pc = wk[w].pc /\ wk'[w].doc = wk[w].doc
                           /\ wk'[w].version = wk[w].version /\ wk'[w].open = wk[w].open
                           /\ wk'[w].deleted = wk[w].deleted
    BY <2>1, <1>t DEF TypeOK, WorkerStates
  <2>3. \A w \in Workers : (Works(w, d)' <=> Works(w, d)) /\ (HoldsLease(w)' <=> HoldsLease(w))
    BY <2>1, <2>2 DEF Works, Active, HoldsLease, Fenced, Exists
  <2>4. \A w \in Workers : Phase(w, d)' <=> Phase(w, d)
    BY <2>1, <2>2 DEF Phase, OneGeneration
  <2>5. /\ (Lasting(d)' <=> Lasting(d)) /\ (Consistent(d)' <=> Consistent(d))
        /\ (Exists(d)' <=> Exists(d))
    BY <2>1 DEF Lasting, Exists, Consistent, OneGeneration
  <2> QED
    BY <1>t, <2>1, <2>3, <2>4, <2>5 DEF DocInv
<1> QED
  BY <1>1, <1>2

-----------------------------------------------------------------------------
(* The pipeline, step by step.                                              *)

LEMMA WriteProgressKeeps ==
    ASSUME IndexInv, NEW d \in Docs, NEW v \in Workers, WriteProgress(v)
    PROVE  DocInv(d)'
<1>t. TypeOK /\ wk[v].doc \in Docs /\ wk[v] \in WorkerStates
  BY DEF IndexInv, FenceInv, TypeOK, WorkerStates
<1>a. Active(v) /\ wk[v].pc \in Stages
  BY DEF WriteProgress, Active, Stages
<1>1. CASE Fenced(v)
  <2> DEFINE e == wk[v].doc
             r == [row[e] EXCEPT !.status = StatusOf(wk[v].pc),
                                 !.error = IF wk[v].pc = "parse" THEN "none" ELSE @]
             s == [wk[v] EXCEPT !.pc = After(wk[v].pc)]
  <2>1. row' = [row EXCEPT ![e] = r] /\ wk' = [wk EXCEPT ![v] = s]
    BY <1>1, <1>t DEF WriteProgress
  <2>2. /\ r.status \in InProgress /\ r.version = row[e].version
        /\ r.owner = row[e].owner /\ r.lease = row[e].lease
    BY <1>a, <1>t DEF TypeOK, Rows, StatusOf, Stages, InProgress
  <2>3. s.pc \in {"split", "embed", "clear"} /\ s.doc = e /\ s.version = wk[v].version
    BY <1>a, <1>t DEF WorkerStates, After, Stages
  <2> HIDE DEF r, s
  <2>4. row'[e] = r /\ wk'[v] = s
    BY <2>1, <1>t DEF TypeOK
  <2>5. ASSUME d = e, Exists(d) PROVE Advances(v, d)
    <3>1. HoldsLease(v)'
      BY <2>2, <2>3, <2>4, <2>5, <1>a, OnExisting DEF HoldsLease, Fenced, Exists, InProgress
    <3>2. Phase(v, d)'
      BY <2>2, <2>3, <2>4, <2>5 DEF Phase, InProgress
    <3> QED
      BY <2>2, <2>3, <2>4, <2>5, <3>1, <3>2 DEF Advances, InProgress
  <2> QED
    BY <1>a, <1>1, <1>t, <2>1, <2>3, <2>4, <2>5, WorkerStepKeeps
       DEF WriteProgress, Fenced, TypeOK
<1>2. CASE ~ Fenced(v)
  <2>1. row' = row /\ wk' = [wk EXCEPT ![v] = [wk[v] EXCEPT !.pc = "finish",
                                        !.outcome = "permanent", !.open = FALSE]]
    BY <1>2 DEF WriteProgress, Lost
  <2>2. wk'[v].doc = wk[v].doc /\ \A w \in Workers : w # v => wk'[w] = wk[w]
    BY <2>1, <1>t DEF TypeOK, WorkerStates
  <2>3. ~ Exists(wk[v].doc)
    BY <1>2, <1>a, OnExisting
  <2> QED
    BY <1>a, <2>1, <2>2, <2>3, WorkerStepKeeps DEF WriteProgress
<1> QED
  BY <1>1, <1>2

LEMMA ClearExistingKeeps ==
    ASSUME IndexInv, ~ StoreFaults, NEW d \in Docs, NEW v \in Workers, ClearExisting(v)
    PROVE  DocInv(d)'
<1> DEFINE e == wk[v].doc
           s == [wk[v] EXCEPT !.pc = "upsert", !.open = TRUE, !.deleted = chunks[e]]
<1>t. TypeOK /\ e \in Docs /\ wk[v] \in WorkerStates
  BY DEF IndexInv, FenceInv, TypeOK, WorkerStates
<1>a. Active(v) /\ Exists(e) /\ wk[v].pc = "clear"
  BY DEF ClearExisting, Active
<1>1. /\ row' = row /\ chunks' = chunks /\ deleting' = deleting
      /\ vectors' = [vectors EXCEPT ![e] = {}] /\ wk' = [wk EXCEPT ![v] = s]
  BY DEF ClearExisting
<1>2. /\ s.pc = "upsert" /\ s.doc = e /\ s.version = wk[v].version
      /\ s.open = TRUE /\ s.deleted = chunks[e]
  BY <1>t DEF WorkerStates
<1> HIDE DEF s
<1>3. vectors'[e] = {} /\ wk'[v] = s
  BY <1>1, <1>t DEF TypeOK
<1>4. ASSUME d = e, Exists(d) PROVE Advances(v, d)
  <2>1. HoldsLease(v)'
    BY <1>1, <1>2, <1>3, <1>4, <1>a, OnExisting DEF HoldsLease, Fenced, Exists
  <2>2. ASSUME Lasting(d)' PROVE Phase(v, d)'
    <3>1. Phase(v, d)
      BY <1>1, <1>4, <1>a, <2>2, OnExisting DEF Lasting, Exists
    <3>2. row[d].status # "indexed"
      BY <1>a, <3>1 DEF Phase
    <3> QED
      BY <1>1, <1>2, <1>3, <1>4, <3>2 DEF Phase
  <2> QED
    BY <1>1, <1>2, <1>3, <1>4, <2>1, <2>2 DEF Advances, Exists
<1> QED
  BY <1>a, <1>t, <1>1, <1>2, <1>3, <1>4, WorkerStepKeeps DEF TypeOK

LEMMA UpsertKeeps ==
    ASSUME IndexInv, NEW d \in Docs, NEW v \in Workers, Upsert(v)
    PROVE  DocInv(d)'
<1> DEFINE e == wk[v].doc
           s == [wk[v] EXCEPT !.pc = "store"]
<1>t. TypeOK /\ e \in Docs /\ wk[v] \in WorkerStates
  BY DEF IndexInv, FenceInv, TypeOK, WorkerStates
<1>a. Active(v) /\ wk[v].pc = "upsert"
  BY DEF Upsert, Active
<1>1. /\ row' = row /\ chunks' = chunks /\ deleting' = deleting
      /\ vectors' = [vectors EXCEPT ![e] = vectors[e] \union {wk[v].version}]
      /\ wk' = [wk EXCEPT ![v] = s]
  BY DEF Upsert
<1>2. /\ s.pc = "store" /\ s.doc = e /\ s.version = wk[v].version
      /\ s.open = wk[v].open /\ s.deleted = wk[v].deleted
  BY <1>t DEF WorkerStates
<1> HIDE DEF s
<1>3. vectors'[e] = vectors[e] \union {wk[v].version} /\ wk'[v] = s
  BY <1>1, <1>t DEF TypeOK
<1>4. ASSUME d = e, Exists(d) PROVE Advances(v, d)
  <2>1. HoldsLease(v)'
    BY <1>1, <1>2, <1>3, <1>4, <1>a, OnExisting DEF HoldsLease, Fenced, Exists
  <2>2. ASSUME Lasting(d)' PROVE Phase(v, d)'
    <3>1. Phase(v, d)
      BY <1>1, <1>4, <1>a, <2>2, OnExisting DEF Lasting, Exists
    <3>2. row[d].status # "indexed" /\ vectors[d] = {} /\ wk[v].open
          /\ wk[v].deleted = chunks[d]
      BY <1>a, <3>1 DEF Phase
    <3> QED
      BY <1>1, <1>2, <1>3, <1>4, <3>2 DEF Phase
  <2> QED
    BY <1>1, <1>2, <1>3, <1>4, <2>1, <2>2 DEF Advances, Exists
<1> QED
  BY <1>a, <1>t, <1>1, <1>2, <1>3, <1>4, WorkerStepKeeps DEF TypeOK

LEMMA WriteIndexedKeeps ==
    ASSUME IndexInv, NEW d \in Docs, NEW v \in Workers, WriteIndexed(v)
    PROVE  DocInv(d)'
<1> DEFINE e == wk[v].doc
           r == [row[e] EXCEPT !.status = "indexed", !.error = "none"]
           s == [wk[v] EXCEPT !.pc = "finish", !.outcome = "ok", !.open = FALSE]
           l == [wk[v] EXCEPT !.pc = "finish", !.outcome = "permanent", !.open = FALSE]
<1>t. TypeOK /\ e \in Docs /\ wk[v] \in WorkerStates /\ row[e] \in Rows
  BY DEF IndexInv, FenceInv, TypeOK, WorkerStates
<1>a. Active(v) /\ wk[v].pc = "store" /\ CommitChunks(v)
      /\ UNCHANGED <<vectors, deleting>>
  BY DEF WriteIndexed, Active
<1>c. \A f \in Docs : f # e => chunks'[f] = chunks[f]
  BY <1>a, <1>t DEF CommitChunks, TypeOK
<1>1. CASE Fenced(v)
  <2>1. row' = [row EXCEPT ![e] = r] /\ wk' = [wk EXCEPT ![v] = s]
    BY <1>1, <1>t DEF WriteIndexed
  <2>2. /\ r.status = "indexed" /\ r.version = row[e].version
        /\ r.owner = row[e].owner /\ r.lease = row[e].lease
    BY <1>t DEF Rows
  <2>3. s.pc = "finish" /\ s.doc = e /\ s.version = wk[v].version
    BY <1>t DEF WorkerStates
  <2> HIDE DEF r, s
  <2>4. row'[e] = r /\ wk'[v] = s
    BY <2>1, <1>t DEF TypeOK
  <2>5. ASSUME d = e, Exists(d) PROVE Advances(v, d)
    <3>1. HoldsLease(v)'
      BY <2>2, <2>3, <2>4, <2>5, <1>a, OnExisting DEF HoldsLease, Fenced, Exists
    <3>2. ASSUME Lasting(d)' PROVE Phase(v, d)'
      <4>1. Phase(v, d)
        BY <1>a, <2>5, <3>2, OnExisting DEF Lasting
      <4>2. chunks'[d] = {wk[v].version} /\ vectors'[d] = {wk[v].version}
        BY <1>a, <1>t, <2>5, <4>1 DEF Phase, CommitChunks, TypeOK
      <4> QED
        BY <2>3, <2>4, <4>2 DEF Phase, OneGeneration
    <3> QED
      BY <2>2, <2>3, <2>4, <2>5, <3>1, <3>2 DEF Advances
  <2> QED
    BY <1>a, <1>c, <1>1, <1>t, <2>1, <2>3, <2>4, <2>5, WorkerStepKeeps DEF Fenced, TypeOK
<1>2. CASE ~ Fenced(v)
  <2>1. row' = row /\ wk' = [wk EXCEPT ![v] = l]
    BY <1>2 DEF WriteIndexed, Lost
  <2>2. wk'[v].doc = wk[v].doc /\ \A w \in Workers : w # v => wk'[w] = wk[w]
    BY <2>1, <1>t DEF TypeOK, WorkerStates
  <2>3. ~ Exists(e)
    BY <1>2, <1>a, OnExisting
  <2> QED
    BY <1>a, <1>c, <2>1, <2>2, <2>3, WorkerStepKeeps
<1> QED
  BY <1>1, <1>2

LEMMA RaiseKeeps ==
    ASSUME IndexInv, NEW d \in Docs, NEW v \in Workers, Raise(v)
    PROVE  DocInv(d)'
<1> DEFINE e == wk[v].doc
<1>t. TypeOK /\ e \in Docs /\ wk[v] \in WorkerStates
  BY DEF IndexInv, FenceInv, TypeOK, WorkerStates
<1>a. /\ Active(v) /\ wk[v].pc \notin {"finish", "verdict"}
      /\ UNCHANGED <<row, chunks, vectors, deleting>>
  BY DEF Raise, Active, Stages
<1>1. /\ wk'[v].pc \in {"fail", "finish"}
      /\ wk'[v].doc = e /\ wk'[v].version = wk[v].version
      /\ \A w \in Workers : w # v => wk'[w] = wk[w]
  <2>1. CASE \E kind \in {"transient", "permanent"} :
                wk' = [wk EXCEPT ![v].pc = "fail", ![v].outcome = kind]
    <3>1. PICK kind : wk' = [wk EXCEPT ![v].pc = "fail", ![v].outcome = kind]
      BY <2>1
    <3> QED
      BY <3>1, <1>t DEF TypeOK, WorkerStates
  <2>2. CASE wk' = [wk EXCEPT ![v].pc = "finish", ![v].outcome = "transient",
                              ![v].open = FALSE]
    BY <2>2, <1>t DEF TypeOK, WorkerStates
  <2> QED
    BY <2>1, <2>2 DEF Raise
<1>2. ASSUME d = e, Exists(d) PROVE Advances(v, d)
  <2>1. HoldsLease(v)'
    BY <1>1, <1>2, <1>a, OnExisting DEF HoldsLease, Fenced, Exists
  <2>2. ASSUME Lasting(d)' PROVE Phase(v, d)'
    <3>1. row[d].status # "indexed"
      BY <1>a, <1>2, <2>2, OnExisting DEF Lasting, Exists, Phase
    <3> QED
      BY <1>1, <1>2, <1>a, <3>1 DEF Phase
  <2> QED
    BY <1>1, <1>2, <1>a, <2>1, <2>2 DEF Advances, Exists
<1> QED
  BY <1>a, <1>1, <1>2, WorkerStepKeeps

LEMMA WriteFailedKeeps ==
    ASSUME IndexInv, NEW d \in Docs, NEW v \in Workers, WriteFailed(v)
    PROVE  DocInv(d)'
<1> DEFINE e == wk[v].doc
           r == [row[e] EXCEPT !.status = "failed", !.error = wk[v].outcome]
           s == [wk[v] EXCEPT !.pc = "finish", !.open = FALSE]
           l == [wk[v] EXCEPT !.pc = "finish", !.outcome = "permanent", !.open = FALSE]
<1>t. TypeOK /\ e \in Docs /\ wk[v] \in WorkerStates /\ row[e] \in Rows
  BY DEF IndexInv, FenceInv, TypeOK, WorkerStates
<1>a. Active(v) /\ CommitChunks(v) /\ UNCHANGED <<vectors, deleting>>
  BY DEF WriteFailed, Active
<1>c. \A f \in Docs : f # e => chunks'[f] = chunks[f]
  BY <1>a, <1>t DEF CommitChunks, TypeOK
<1>1. CASE Fenced(v)
  <2>1. row' = [row EXCEPT ![e] = r] /\ wk' = [wk EXCEPT ![v] = s]
    BY <1>1, <1>t DEF WriteFailed
  <2>2. /\ r.status = "failed" /\ r.version = row[e].version
        /\ r.owner = row[e].owner /\ r.lease = row[e].lease
    BY <1>t DEF Rows
  <2>3. s.pc = "finish" /\ s.doc = e /\ s.version = wk[v].version
    BY <1>t DEF WorkerStates
  <2> HIDE DEF r, s
  <2>4. row'[e] = r /\ wk'[v] = s
    BY <2>1, <1>t DEF TypeOK
  <2>5. ASSUME d = e, Exists(d) PROVE Advances(v, d)
    <3>1. HoldsLease(v)'
      BY <2>2, <2>3, <2>4, <2>5, <1>a, OnExisting DEF HoldsLease, Fenced, Exists
    <3>2. Phase(v, d)'
      BY <2>2, <2>3, <2>4, <2>5 DEF Phase
    <3> QED
      BY <2>2, <2>3, <2>4, <2>5, <3>1, <3>2 DEF Advances
  <2> QED
    BY <1>a, <1>c, <1>1, <1>t, <2>1, <2>3, <2>4, <2>5, WorkerStepKeeps DEF Fenced, TypeOK
<1>2. CASE ~ Fenced(v)
  <2>1. row' = row /\ wk' = [wk EXCEPT ![v] = l]
    BY <1>2 DEF WriteFailed, Lost
  <2>2. wk'[v].doc = wk[v].doc /\ \A w \in Workers : w # v => wk'[w] = wk[w]
    BY <2>1, <1>t DEF TypeOK, WorkerStates
  <2>3. ~ Exists(e)
    BY <1>2, <1>a, OnExisting
  <2> QED
    BY <1>a, <1>c, <2>1, <2>2, <2>3, WorkerStepKeeps
<1> QED
  BY <1>1, <1>2

LEMMA FinishReadKeeps ==
    ASSUME IndexInv, NEW d \in Docs, NEW v \in Workers, FinishRead(v)
    PROVE  DocInv(d)'
<1> DEFINE e == wk[v].doc
           s == [wk[v] EXCEPT !.pc = "verdict", !.beating = FALSE,
                              !.attempts = row[e].attempts]
<1>t. TypeOK /\ e \in Docs /\ wk[v] \in WorkerStates
  BY DEF IndexInv, FenceInv, TypeOK, WorkerStates
<1>a. Active(v) /\ wk[v].pc = "finish" /\ UNCHANGED <<row, chunks, vectors, deleting>>
  BY DEF FinishRead, Active
<1>1. CASE Fenced(v)
  <2>1. wk' = [wk EXCEPT ![v] = s]
    BY <1>1 DEF FinishRead
  <2>2. s.pc = "verdict" /\ s.doc = e /\ s.version = wk[v].version
    BY <1>t DEF WorkerStates
  <2> HIDE DEF s
  <2>3. wk'[v] = s /\ \A w \in Workers : w # v => wk'[w] = wk[w]
    BY <2>1, <1>t DEF TypeOK
  <2>4. ASSUME d = e, Exists(d) PROVE Advances(v, d)
    <3>1. HoldsLease(v)'
      BY <2>2, <2>3, <2>4, <1>a, OnExisting DEF HoldsLease, Fenced, Exists
    <3>2. ASSUME Lasting(d)' PROVE Phase(v, d)'
      <4>1. Phase(v, d)
        BY <1>a, <2>4, <3>2, OnExisting DEF Lasting, Exists
      <4> QED
        BY <1>a, <2>2, <2>3, <4>1 DEF Phase, OneGeneration
    <3> QED
      BY <1>a, <2>2, <2>3, <2>4, <3>1, <3>2 DEF Advances, Exists
  <2> QED
    BY <1>a, <2>2, <2>3, <2>4, WorkerStepKeeps
<1>2. CASE ~ Fenced(v)
  <2>1. wk'[v].pc = "idle" /\ \A w \in Workers : w # v => wk'[w] = wk[w]
    BY <1>2, <1>t, IdleWorkerType DEF FinishRead, TypeOK
  <2>2. ~ Exists(e)
    BY <1>2, <1>a, OnExisting
  <2> QED
    BY <1>a, <2>1, <2>2, WorkerStepKeeps
<1> QED
  BY <1>1, <1>2

\* finish only confirms an indexed status: every other verdict writes another one.
LEMMA VerdictStatus ==
    ASSUME NEW r \in Rows, NEW o \in Outcomes, NEW a \in Nat, r.status # "none"
    PROVE  /\ Verdict(r, o, a).status # "none"
           /\ Verdict(r, o, a).status = "indexed" => r.status = "indexed"
<1> DEFINE closed == [r EXCEPT !.lease = 0, !.owner = NoWorker]
<1>1. closed \in Rows /\ closed.status = r.status
  BY Ticks DEF Rows
<1> HIDE DEF closed
<1>2. CASE o = "ok"
  <2>1. Verdict(r, o, a) = [closed EXCEPT !.due = TRUE]
    BY <1>2 DEF Verdict, closed
  <2> QED
    BY <2>1, <1>1 DEF Rows
<1>3. CASE o = "transient" /\ a < MaxAttempts
  <2>1. Verdict(r, o, a) = [closed EXCEPT !.status = "pending", !.error = o, !.due = FALSE]
    BY <1>3 DEF Verdict, closed
  <2> QED
    BY <2>1, <1>1 DEF Rows
<1>4. CASE o # "ok" /\ ~ (o = "transient" /\ a < MaxAttempts)
  <2>1. Verdict(r, o, a) = [closed EXCEPT !.status = "failed", !.error = o, !.due = TRUE]
    BY <1>4 DEF Verdict, closed
  <2> QED
    BY <2>1, <1>1 DEF Rows
<1> QED
  BY <1>2, <1>3, <1>4

\* A worker may leave an indexed document: its own claim is the generation there.
LEMMA LeavesConsistent ==
    ASSUME IndexInv, NEW v \in Workers, Active(v), Lasting(wk[v].doc),
           row[wk[v].doc].status = "indexed"
    PROVE  Consistent(wk[v].doc)
<1>1. Phase(v, wk[v].doc)
  BY OnExisting DEF Lasting
<1>2. wk[v].version \in 1..row[wk[v].doc].version
  BY DEF IndexInv, FenceInv, ClaimIdentity
<1> QED
  BY <1>1, <1>2 DEF Phase, Consistent

LEMMA FinishWriteKeeps ==
    ASSUME IndexInv, NEW d \in Docs, NEW v \in Workers, FinishWrite(v)
    PROVE  DocInv(d)'
<1> DEFINE e == wk[v].doc
           r == Verdict(row[e], wk[v].outcome, wk[v].attempts)
<1>t. /\ TypeOK /\ e \in Docs /\ row[e] \in Rows
      /\ wk[v].outcome \in Outcomes /\ wk[v].attempts \in Nat
  BY DEF IndexInv, FenceInv, TypeOK, WorkerStates
<1>a. Active(v) /\ UNCHANGED <<chunks, vectors, deleting>>
  BY DEF FinishWrite, Active
<1>i. wk'[v].pc = "idle" /\ \A w \in Workers : w # v => wk'[w] = wk[w]
  BY <1>t, IdleWorkerType DEF FinishWrite, TypeOK
<1>1. CASE Fenced(v)
  <2>1. row' = [row EXCEPT ![e] = r] /\ row[e].status # "none"
    BY <1>1 DEF FinishWrite, Fenced, Exists
  <2>2. /\ r.status # "none" /\ r.version = row[e].version
        /\ r.status = "indexed" => row[e].status = "indexed"
    BY <1>t, <2>1, VerdictStatus, VerdictType
  <2> HIDE DEF r
  <2>3. row'[e] = r
    BY <2>1, <1>t DEF TypeOK
  <2>4. ASSUME d = e, Exists(d) PROVE Advances(v, d)
    <3>1. ASSUME Lasting(d)', row'[d].status = "indexed" PROVE Consistent(d)'
      <4>1. Lasting(e) /\ row[e].status = "indexed"
        BY <1>a, <2>2, <2>3, <2>4, <3>1 DEF Lasting
      <4>2. Consistent(e)
        BY <1>a, <4>1, LeavesConsistent
      <4> QED
        BY <1>a, <2>2, <2>3, <2>4, <4>2 DEF Consistent, OneGeneration
    <3> QED
      BY <1>i, <2>2, <2>3, <2>4, <3>1 DEF Advances
  <2> QED
    BY <1>a, <1>i, <1>1, <1>t, <2>1, <2>4, WorkerStepKeeps DEF Fenced, TypeOK
<1>2. CASE ~ Fenced(v)
  <2>1. row' = row
    BY <1>2 DEF FinishWrite
  <2>2. ~ Exists(e)
    BY <1>2, <1>a, OnExisting
  <2> QED
    BY <1>a, <1>i, <2>1, <2>2, WorkerStepKeeps
<1> QED
  BY <1>1, <1>2

LEMMA CrashKeeps ==
    ASSUME IndexInv, NEW d \in Docs, NEW v \in Workers, Crash(v)
    PROVE  DocInv(d)'
<1>t. TypeOK
  BY DEF IndexInv, FenceInv
<1>a. Active(v) /\ UNCHANGED <<row, chunks, vectors, deleting>>
  BY DEF Crash, Active
<1>i. wk'[v].pc = "idle" /\ \A w \in Workers : w # v => wk'[w] = wk[w]
  BY <1>t, IdleWorkerType DEF Crash, TypeOK
<1>1. ASSUME d = wk[v].doc, Exists(d) PROVE Advances(v, d)
  <2>1. ASSUME Lasting(d)', row'[d].status = "indexed" PROVE Consistent(d)'
    <3>1. Consistent(d)
      BY <1>a, <1>1, <2>1, LeavesConsistent DEF Lasting, Exists
    <3> QED
      BY <1>a, <3>1 DEF Consistent, OneGeneration
  <2> QED
    BY <1>a, <1>i, <1>1, <2>1 DEF Advances, Exists
<1> QED
  BY <1>a, <1>i, <1>1, WorkerStepKeeps

-----------------------------------------------------------------------------
LEMMA IndexInvStep ==
    ASSUME ~ Stalls, ~ StoreFaults
    PROVE  IndexInv /\ [Next]_vars => IndexInv'
<1> SUFFICES ASSUME IndexInv, [Next]_vars PROVE IndexInv'
  OBVIOUS
<1>1. FenceInv'
  BY FenceInvStep DEF IndexInv
<1> SUFFICES ASSUME NEW d \in Docs PROVE DocInv(d)'
  BY <1>1 DEF IndexInv
<1>2. ASSUME UNCHANGED vars PROVE DocInv(d)'
  <2>1. UNCHANGED <<row, chunks, vectors, wk, deleting>> /\ DocInv(d)
    BY <1>2 DEF vars, IndexInv
  <2> QED
    BY <2>1, Untouched
<1>3. ASSUME NEW e \in Docs, \/ Upload(e) \/ Enqueue(e) \/ BeginDelete(e) \/ EndDelete(e)
                              \/ Tick(e) \/ RetryDue(e)
      PROVE  DocInv(d)'
  BY <1>3, UploadKeeps, EnqueueKeeps, BeginDeleteKeeps, EndDeleteKeeps, TickKeeps, RetryDueKeeps
<1>4. ASSUME NEW v \in Workers, \/ \E e \in Docs : Claim(v, e)
                                 \/ Renew(v) \/ Raise(v) \/ Crash(v)
      PROVE  DocInv(d)'
  BY <1>4, ClaimKeeps, RenewKeeps, RaiseKeeps, CrashKeeps
<1>5. ASSUME NEW v \in Workers, Pipeline(v) PROVE DocInv(d)'
  BY <1>5, WriteProgressKeeps, ClearExistingKeeps, UpsertKeeps, WriteIndexedKeeps,
     WriteFailedKeeps, FinishReadKeeps, FinishWriteKeeps DEF Pipeline
<1> QED
  BY <1>2, <1>3, <1>4, <1>5 DEF Next

\* Crashes, failed attempts, requeues and deletions at any point leave an indexed
\* document with the chunk rows and the vectors of one claim (index_document,
\* _clear_existing), if no lease runs out under a live worker and no vector delete
\* is swallowed.
THEOREM IndexStaysConsistent ==
    ASSUME ~ Stalls, ~ StoreFaults
    PROVE  Spec => []IndexConsistent
<1>1. Init => IndexInv
  <2> SUFFICES ASSUME Init PROVE IndexInv
    OBVIOUS
  <2>1. NewRow \in Rows /\ NewRow.status = "none" /\ NewRow.version = 0
    BY Ticks DEF NewRow, Rows, Statuses, Outcomes
  <2>2. \A w \in Workers : ~ Active(w)
    BY IdleWorkerType DEF Init, Active
  <2>3. FenceInv
    BY <2>1, <2>2, IdleWorkerType DEF Init, FenceInv, TypeOK, ClaimIdentity, LeaseNamesHolder
  <2> QED
    BY <2>1, <2>3 DEF Init, IndexInv, DocInv, Exists, Lasting
<1>2. IndexInv => IndexConsistent
  BY DEF IndexInv, IndexConsistent, DocInv, Lasting, Exists, Works, Consistent, OneGeneration
<1> QED
  BY <1>1, <1>2, IndexInvStep, PTL DEF Spec

-----------------------------------------------------------------------------
(***************************************************************************)
(* Ingestion implements FencedJob: every step of the queue, the pipeline   *)
(* and the API is a step of the abstract queue or leaves it as it is, with *)
(* leases that may run out at any time and a vector store that may fail.   *)
(***************************************************************************)


(***************************************************************************)
(* What the mapping needs besides the fencing: a worker without a claim    *)
(* quotes no version, and a document under deletion still has its row.     *)
(***************************************************************************)
IdleQuotesNothing == \A w \in Workers : ~ Active(w) => wk[w].version = 0
DeletingExist     == \A d \in deleting : Exists(d)

QueueInv == FenceInv /\ IdleQuotesNothing /\ DeletingExist

\* The abstract state: the values the variables of FencedJob stand for.
PhaseMap == [d \in Docs |-> PhaseOf(row[d].status)]
EpochMap == [d \in Docs |-> row[d].version]
HeldMap  == [d \in Docs |-> row[d].lease > 0]
ClaimMap == [w \in Workers |-> [doc |-> wk[w].doc, epoch |-> wk[w].version]]

LEMMA IdleWorkerBlank ==
    /\ IdleWorker.version = 0
    /\ IdleWorker.doc = CHOOSE d \in Docs : TRUE
    /\ IdleWorker.pc = "idle"
BY DEF IdleWorker

LEMMA PhaseTypes ==
    /\ PhaseOf("none") = "absent" /\ PhaseOf("pending") = "queued"
    /\ PhaseOf("parsing") = "working" /\ PhaseOf("chunking") = "working"
    /\ PhaseOf("embedding") = "working" /\ PhaseOf("deleted") = "gone"
    /\ PhaseOf("indexed") = "indexed" /\ PhaseOf("failed") = "failed"
BY DEF PhaseOf, InProgress

-----------------------------------------------------------------------------
(* A write of one row, or of one worker, seen from the abstract queue.      *)

LEMMA RowWrite ==
    ASSUME TypeOK, NEW d \in Docs, NEW r, row' = [row EXCEPT ![d] = r]
    PROVE  /\ PhaseMap' = [PhaseMap EXCEPT ![d] = PhaseOf(r.status)]
           /\ PhaseOf(r.status) = PhaseOf(row[d].status) => PhaseMap' = PhaseMap
           /\ EpochMap' = [EpochMap EXCEPT ![d] = r.version]
           /\ r.version = row[d].version => EpochMap' = EpochMap
           /\ (r.lease > 0 <=> row[d].lease > 0) => HeldMap' = HeldMap
           /\ r.lease > 0 => HeldMap' = [HeldMap EXCEPT ![d] = TRUE]
           /\ ~ (r.lease > 0) => HeldMap' = [HeldMap EXCEPT ![d] = FALSE]
<1>1. row'[d] = r /\ \A e \in Docs : e # d => row'[e] = row[e]
  BY DEF TypeOK
<1>2. PhaseMap' = [e \in Docs |-> PhaseOf(row'[e].status)]
  BY DEF PhaseMap, PhaseOf
<1>3. \A e \in Docs : PhaseOf(row'[e].status) = IF e = d THEN PhaseOf(r.status)
                                                       ELSE PhaseOf(row[e].status)
  BY <1>1
<1>4. EpochMap' = [e \in Docs |-> row'[e].version]
  BY DEF EpochMap
<1>5. \A e \in Docs : row'[e].version = IF e = d THEN r.version ELSE row[e].version
  BY <1>1
<1>6. /\ PhaseMap' = [PhaseMap EXCEPT ![d] = PhaseOf(r.status)]
      /\ PhaseOf(r.status) = PhaseOf(row[d].status) => PhaseMap' = PhaseMap
  BY <1>2, <1>3 DEF PhaseMap
<1>7. /\ EpochMap' = [EpochMap EXCEPT ![d] = r.version]
      /\ r.version = row[d].version => EpochMap' = EpochMap
  BY <1>4, <1>5 DEF EpochMap
<1>8. \A e \in Docs : e # d => (row'[e].lease > 0) = (row[e].lease > 0)
  BY <1>1
<1>9. ASSUME r.lease > 0 <=> row[d].lease > 0 PROVE HeldMap' = HeldMap
  <2>1. \A e \in Docs : (row'[e].lease > 0) = (row[e].lease > 0)
    BY <1>1, <1>8, <1>9
  <2> QED
    BY <2>1, Zenon DEF HeldMap
<1>10. ASSUME r.lease > 0 PROVE HeldMap' = [HeldMap EXCEPT ![d] = TRUE]
  <2>1. \A e \in Docs : (row'[e].lease > 0) = IF e = d THEN TRUE ELSE row[e].lease > 0
    <3>1. (row'[d].lease > 0) = TRUE
      BY <1>1, <1>10, Zenon
    <3> QED
      BY <3>1, <1>8, Zenon
  <2> QED
    BY <2>1, ZenonT(20) DEF HeldMap
<1>11. ASSUME ~ (r.lease > 0) PROVE HeldMap' = [HeldMap EXCEPT ![d] = FALSE]
  <2>1. \A e \in Docs : (row'[e].lease > 0) = IF e = d THEN FALSE ELSE row[e].lease > 0
    <3>1. (row'[d].lease > 0) = FALSE
      BY <1>1, <1>11, SMT
    <3> QED
      BY <3>1, <1>8, Zenon
  <2> QED
    BY <2>1, ZenonT(20) DEF HeldMap
<1> QED
  BY <1>6, <1>7, <1>9, <1>10, <1>11

LEMMA RowKept ==
    ASSUME UNCHANGED row
    PROVE  PhaseMap' = PhaseMap /\ EpochMap' = EpochMap /\ HeldMap' = HeldMap
BY DEF PhaseMap, EpochMap, HeldMap, PhaseOf

LEMMA WorkerWrite ==
    ASSUME TypeOK, NEW w \in Workers, NEW s, wk' = [wk EXCEPT ![w] = s]
    PROVE  ClaimMap' = [ClaimMap EXCEPT ![w] = [doc |-> s.doc, epoch |-> s.version]]
<1>1. wk'[w] = s /\ \A v \in Workers : v # w => wk'[v] = wk[v]
  BY DEF TypeOK
<1> QED
  BY <1>1 DEF ClaimMap

LEMMA WorkerKept ==
    ASSUME UNCHANGED wk
    PROVE  ClaimMap' = ClaimMap
BY DEF ClaimMap

\* A worker that keeps its document and its version keeps its claim.
LEMMA WorkerMoves ==
    ASSUME TypeOK, NEW w \in Workers, NEW s, wk' = [wk EXCEPT ![w] = s],
           s.doc = wk[w].doc, s.version = wk[w].version
    PROVE  ClaimMap' = ClaimMap
BY WorkerWrite DEF ClaimMap

-----------------------------------------------------------------------------
(* The steps, one lemma per action.                                         *)

QueueStep == [Queue!Next]_(Queue!vars)

LEMMA Stutters ==
    ASSUME PhaseMap' = PhaseMap, EpochMap' = EpochMap, HeldMap' = HeldMap,
           ClaimMap' = ClaimMap
    PROVE  QueueStep
BY DEF QueueStep, Queue!vars, PhaseMap, EpochMap, HeldMap, ClaimMap

\* What a step needs to know of the state it starts from.
LEMMA Basics ==
    ASSUME QueueInv
    PROVE  /\ TypeOK
           /\ \A d \in Docs :
                 /\ PhaseMap[d] = PhaseOf(row[d].status)
                 /\ EpochMap[d] = row[d].version
                 /\ HeldMap[d] <=> row[d].lease > 0
                 /\ row[d].lease \in Nat /\ row[d].version \in Nat
                 /\ row[d].status \in Statuses
                 /\ Queue!Known(d) <=> Exists(d)
           /\ \A w \in Workers :
                 /\ wk[w].doc \in Docs
                 /\ ClaimMap[w].doc = wk[w].doc
                 /\ ClaimMap[w].epoch = wk[w].version
                 /\ Queue!Idle(w) <=> ~ Active(w)
                 /\ Active(w) /\ Fenced(w) => Queue!IsCurrent(w)
<1>1. TypeOK /\ row \in [Docs -> Rows] /\ wk \in [Workers -> WorkerStates]
  BY DEF QueueInv, FenceInv, TypeOK
<1>2. ASSUME NEW d \in Docs
      PROVE  /\ PhaseMap[d] = PhaseOf(row[d].status)
             /\ EpochMap[d] = row[d].version
             /\ row[d].lease \in Nat /\ row[d].version \in Nat
             /\ row[d].status \in Statuses
  BY <1>1, IngestionAssumption DEF PhaseMap, EpochMap, Rows
<1>3. ASSUME NEW d \in Docs PROVE HeldMap[d] <=> row[d].lease > 0
  BY Zenon DEF HeldMap
<1>4. ASSUME NEW d \in Docs PROVE Queue!Known(d) <=> Exists(d)
  <2>1. Queue!Known(d) <=> PhaseOf(row[d].status) \notin {"absent", "gone"}
    BY DEF Queue!Known
  <2> QED
    BY <2>1, <1>2 DEF Exists, PhaseOf, InProgress, Statuses, Claimable
<1>5. ASSUME NEW w \in Workers
      PROVE  /\ wk[w].doc \in Docs
             /\ ClaimMap[w].doc = wk[w].doc
             /\ ClaimMap[w].epoch = wk[w].version
  BY <1>1 DEF ClaimMap, WorkerStates
<1>6. ASSUME NEW w \in Workers PROVE Queue!Idle(w) <=> ~ Active(w)
  <2>1. Queue!Idle(w) <=> wk[w].version = 0
    BY DEF Queue!Idle
  <2>2. Active(w) => wk[w].version # 0
    BY <1>2, <1>5 DEF QueueInv, FenceInv, ClaimIdentity
  <2> QED
    BY <2>1, <2>2 DEF QueueInv, IdleQuotesNothing
<1>7. ASSUME NEW w \in Workers, Active(w), Fenced(w) PROVE Queue!IsCurrent(w)
  BY <1>4, <1>5, <1>6, <1>7 DEF Queue!IsCurrent, Fenced
<1> QED
  BY <1>1, <1>2, <1>3, <1>4, <1>5, <1>6, <1>7

LEMMA UploadRefines ==
    ASSUME QueueInv, NEW d \in Docs, Upload(d)
    PROVE  QueueStep
<1>1. row' = [row EXCEPT ![d] = [row[d] EXCEPT !.status = "pending"]] /\ UNCHANGED wk
  BY Basics DEF Upload, TypeOK
<1> DEFINE r == [row[d] EXCEPT !.status = "pending"]
<1>2. r.status = "pending" /\ r.version = row[d].version /\ r.lease = row[d].lease
  BY Basics DEF TypeOK, Rows
<1>3. row' = [row EXCEPT ![d] = r]
  BY <1>1
<1> HIDE DEF r
<1>4. PhaseMap' = [PhaseMap EXCEPT ![d] = "queued"] /\ EpochMap' = EpochMap
      /\ HeldMap' = HeldMap
  <2>1. TypeOK
    BY Basics
  <2>2. /\ PhaseMap' = [PhaseMap EXCEPT ![d] = PhaseOf(r.status)]
        /\ r.version = row[d].version => EpochMap' = EpochMap
        /\ (r.lease > 0 <=> row[d].lease > 0) => HeldMap' = HeldMap
    BY <2>1, <1>3, RowWrite
  <2> QED
    BY <2>2, <1>2, PhaseTypes
<1>5. PhaseMap[d] = "absent"
  BY PhaseTypes DEF Upload, PhaseMap
<1>7. Queue!Add(d)
  BY <1>1, <1>4, <1>5, WorkerKept DEF Queue!Add, PhaseMap, EpochMap, HeldMap, ClaimMap
<1> QED
  BY <1>7 DEF QueueStep, Queue!Next
LEMMA EnqueueRefines ==
    ASSUME QueueInv, NEW d \in Docs, Enqueue(d)
    PROVE  QueueStep
<1> DEFINE r == [row[d] EXCEPT !.status = "pending", !.error = "none", !.due = TRUE,
                               !.owner = NoWorker, !.attempts = 0]
<1>1. TypeOK /\ Queue!Known(d) /\ ~ HeldMap[d]
  BY Basics DEF Enqueue
<1>2. r.status = "pending" /\ r.version = row[d].version /\ r.lease = row[d].lease
  BY <1>1 DEF TypeOK, Rows
<1>3. row' = [row EXCEPT ![d] = r] /\ UNCHANGED wk
  BY DEF Enqueue
<1> HIDE DEF r
<1>4. /\ PhaseMap' = [PhaseMap EXCEPT ![d] = PhaseOf(r.status)]
      /\ r.version = row[d].version => EpochMap' = EpochMap
      /\ (r.lease > 0 <=> row[d].lease > 0) => HeldMap' = HeldMap
  BY <1>1, <1>3, RowWrite
<1>5. PhaseMap' = [PhaseMap EXCEPT ![d] = "queued"] /\ EpochMap' = EpochMap /\ HeldMap' = HeldMap
  BY <1>2, <1>4, PhaseTypes
<1>6. Queue!Request(d)
  BY <1>1, <1>3, <1>5, WorkerKept DEF Queue!Request, PhaseMap, EpochMap, HeldMap, ClaimMap
<1> QED
  BY <1>6 DEF QueueStep, Queue!Next

LEMMA EndDeleteRefines ==
    ASSUME QueueInv, NEW d \in Docs, EndDelete(d)
    PROVE  QueueStep
<1> DEFINE r == [row[d] EXCEPT !.status = "deleted", !.lease = 0, !.owner = NoWorker]
<1>1. TypeOK /\ Queue!Known(d)
  BY Basics DEF EndDelete, QueueInv, DeletingExist
<1>2. r.status = "deleted" /\ r.version = row[d].version /\ ~ (r.lease > 0)
  BY <1>1 DEF TypeOK, Rows
<1>3. row' = [row EXCEPT ![d] = r] /\ UNCHANGED wk
  BY DEF EndDelete
<1> HIDE DEF r
<1>4. /\ PhaseMap' = [PhaseMap EXCEPT ![d] = PhaseOf(r.status)]
      /\ r.version = row[d].version => EpochMap' = EpochMap
      /\ ~ (r.lease > 0) => HeldMap' = [HeldMap EXCEPT ![d] = FALSE]
  BY <1>1, <1>3, RowWrite
<1>5. /\ PhaseMap' = [PhaseMap EXCEPT ![d] = "gone"]
      /\ EpochMap' = EpochMap
      /\ HeldMap' = [HeldMap EXCEPT ![d] = FALSE]
  BY <1>2, <1>4, PhaseTypes, Zenon
<1>6. Queue!Remove(d)
  BY <1>1, <1>3, <1>5, WorkerKept DEF Queue!Remove, PhaseMap, EpochMap, HeldMap, ClaimMap
<1> QED
  BY <1>6 DEF QueueStep, Queue!Next

\* The last tick of a lease is the lapse of the hold.
LEMMA TickRefines ==
    ASSUME QueueInv, NEW d \in Docs, Tick(d)
    PROVE  QueueStep
<1> DEFINE r == [row[d] EXCEPT !.lease = row[d].lease - 1]
<1>1. TypeOK /\ HeldMap[d] /\ row[d].lease \in Nat /\ row[d].lease > 0
  BY Basics DEF Tick
<1>2. r.status = row[d].status /\ r.version = row[d].version /\ r.lease = row[d].lease - 1
  BY <1>1 DEF TypeOK, Rows
<1>3. row' = [row EXCEPT ![d] = r] /\ UNCHANGED wk
  BY <1>1 DEF Tick, TypeOK
<1> HIDE DEF r
<1>4. /\ PhaseOf(r.status) = PhaseOf(row[d].status) => PhaseMap' = PhaseMap
      /\ r.version = row[d].version => EpochMap' = EpochMap
      /\ (r.lease > 0 <=> row[d].lease > 0) => HeldMap' = HeldMap
      /\ ~ (r.lease > 0) => HeldMap' = [HeldMap EXCEPT ![d] = FALSE]
  BY <1>1, <1>3, RowWrite
<1>5. PhaseMap' = PhaseMap /\ EpochMap' = EpochMap /\ ClaimMap' = ClaimMap
  BY <1>2, <1>3, <1>4, WorkerKept
<1>6. CASE r.lease > 0
  BY <1>1, <1>4, <1>5, <1>6, Stutters
<1>7. CASE ~ (r.lease > 0)
  <2>1. Queue!Lapse(d)
    BY <1>1, <1>4, <1>5, <1>7 DEF Queue!Lapse, PhaseMap, EpochMap, HeldMap, ClaimMap
  <2> QED
    BY <2>1 DEF QueueStep, Queue!Next
<1> QED
  BY <1>6, <1>7

LEMMA RetryDueRefines ==
    ASSUME QueueInv, NEW d \in Docs, RetryDue(d)
    PROVE  QueueStep
<1> DEFINE r == [row[d] EXCEPT !.due = TRUE]
<1>1. TypeOK
  BY Basics
<1>2. r.status = row[d].status /\ r.version = row[d].version /\ r.lease = row[d].lease
  BY <1>1 DEF TypeOK, Rows
<1>3. row' = [row EXCEPT ![d] = r] /\ UNCHANGED wk
  BY <1>1 DEF RetryDue, TypeOK
<1> HIDE DEF r
<1>4. /\ PhaseOf(r.status) = PhaseOf(row[d].status) => PhaseMap' = PhaseMap
      /\ r.version = row[d].version => EpochMap' = EpochMap
      /\ (r.lease > 0 <=> row[d].lease > 0) => HeldMap' = HeldMap
  BY <1>1, <1>3, RowWrite
<1> QED
  BY <1>2, <1>3, <1>4, WorkerKept, Stutters
-----------------------------------------------------------------------------
(* What the steps of a worker have in common.                               *)

\* The newest claim reports a status: the row keeps its version and its lease.
LEMMA MoveRefines ==
    ASSUME QueueInv, NEW w \in Workers, Active(w), Fenced(w), NEW r,
           row' = [row EXCEPT ![wk[w].doc] = r],
           r.version = row[wk[w].doc].version, r.lease = row[wk[w].doc].lease,
           PhaseOf(r.status) \in {"working", "indexed", "failed"},
           ClaimMap' = ClaimMap
    PROVE  QueueStep
<1> DEFINE d == wk[w].doc
<1>1. TypeOK /\ d \in Docs /\ Queue!IsCurrent(w) /\ ClaimMap[w].doc = d
  BY Basics
<1>2. /\ PhaseMap' = [PhaseMap EXCEPT ![d] = PhaseOf(r.status)]
      /\ r.version = row[d].version => EpochMap' = EpochMap
      /\ (r.lease > 0 <=> row[d].lease > 0) => HeldMap' = HeldMap
  BY <1>1, RowWrite
<1>3. EpochMap' = EpochMap /\ HeldMap' = HeldMap
  BY <1>2
<1> HIDE DEF d
<1>4. Queue!Move(w)
  BY <1>1, <1>2, <1>3 DEF Queue!Move, PhaseMap, EpochMap, HeldMap, ClaimMap
<1> QED
  BY <1>4 DEF QueueStep, Queue!Next

\* A worker without a claim: it crashed, or found out that its claim is old.
LEMMA LeaveRefines ==
    ASSUME QueueInv, NEW w \in Workers, Active(w), UNCHANGED row,
           wk' = [wk EXCEPT ![w] = IdleWorker]
    PROVE  QueueStep
<1>1. TypeOK /\ ~ Queue!Idle(w)
  BY Basics
<1>2. ClaimMap' = [ClaimMap EXCEPT ![w] = Queue!NoClaim]
  BY <1>1, WorkerWrite, IdleWorkerBlank DEF Queue!NoClaim
<1>3. Queue!Leave(w)
  BY <1>1, <1>2, RowKept DEF Queue!Leave, PhaseMap, EpochMap, HeldMap, ClaimMap
<1> QED
  BY <1>3 DEF QueueStep, Queue!Next

\* Nothing is written and the worker goes on with its claim.
LEMMA WorkerGoesOn ==
    ASSUME QueueInv, NEW w \in Workers, UNCHANGED row, NEW s, wk' = [wk EXCEPT ![w] = s],
           s.doc = wk[w].doc, s.version = wk[w].version
    PROVE  QueueStep
BY Basics, RowKept, WorkerMoves, Stutters

LEMMA LostRefines ==
    ASSUME QueueInv, NEW w \in Workers, UNCHANGED row, Lost(w)
    PROVE  QueueStep
<1> DEFINE s == [wk[w] EXCEPT !.pc = "finish", !.outcome = "permanent", !.open = FALSE]
<1>1. s.doc = wk[w].doc /\ s.version = wk[w].version
  BY Basics DEF TypeOK, WorkerStates
<1>2. wk' = [wk EXCEPT ![w] = s]
  BY DEF Lost
<1> HIDE DEF s
<1> QED
  BY <1>1, <1>2, WorkerGoesOn

LEMMA ClaimRefines ==
    ASSUME QueueInv, NEW w \in Workers, NEW d \in Docs, Claim(w, d)
    PROVE  QueueStep
<1> DEFINE r == [row[d] EXCEPT !.status = "parsing", !.lease = TTL, !.owner = w,
                               !.attempts = row[d].attempts + 1,
                               !.version = NextVersion(d)]
           s == [IdleWorker EXCEPT !.pc = "parse", !.doc = d,
                                   !.version = NextVersion(d), !.beating = TRUE]
<1>1. TypeOK /\ Queue!Idle(w) /\ EpochMap[d] = row[d].version
  BY Basics DEF Claim, Active
<1>2. PhaseMap[d] \in {"queued", "working"} /\ ~ HeldMap[d]
  BY Basics, PhaseTypes DEF Claim, CanClaim, Claimable, InProgress
<1>3. r.status = "parsing" /\ r.lease > 0 /\ r.version = row[d].version + 1
  BY <1>1, IngestionAssumption DEF TypeOK, Rows, NextVersion
<1>4. s.doc = d /\ s.version = row[d].version + 1
  BY IdleWorkerType DEF WorkerStates, NextVersion
<1>5. row' = [row EXCEPT ![d] = r] /\ wk' = [wk EXCEPT ![w] = s]
  BY DEF Claim
<1> HIDE DEF r, s
<1>6. /\ PhaseMap' = [PhaseMap EXCEPT ![d] = PhaseOf(r.status)]
      /\ EpochMap' = [EpochMap EXCEPT ![d] = r.version]
      /\ HeldMap' = [HeldMap EXCEPT ![d] = TRUE]
  BY <1>1, <1>3, <1>5, RowWrite
<1>7. ClaimMap' = [ClaimMap EXCEPT ![w] = [doc |-> d, epoch |-> EpochMap[d] + 1]]
  BY <1>1, <1>4, <1>5, WorkerWrite
<1>8. /\ PhaseMap' = [PhaseMap EXCEPT ![d] = "working"]
      /\ EpochMap' = [EpochMap EXCEPT ![d] = EpochMap[d] + 1]
  BY <1>1, <1>3, <1>6, PhaseTypes
<1>9. Queue!Take(w, d)
  BY <1>1, <1>2, <1>6, <1>7, <1>8 DEF Queue!Take, PhaseMap, EpochMap, HeldMap, ClaimMap
<1> QED
  BY <1>9 DEF QueueStep, Queue!Next
-----------------------------------------------------------------------------
(* The steps of a worker.                                                   *)

\* Only a lease that is still live is renewed: the hold stays as it was.
LEMMA RenewRefines ==
    ASSUME QueueInv, NEW w \in Workers, Renew(w)
    PROVE  QueueStep
<1> DEFINE d == wk[w].doc
<1>1. TypeOK /\ d \in Docs
  BY Basics
<1>2. CASE HoldsLease(w)
  <2> DEFINE r == [row[d] EXCEPT !.lease = TTL]
  <2>1. r.status = row[d].status /\ r.version = row[d].version /\ r.lease = TTL
    BY <1>1 DEF TypeOK, Rows
  <2>2. TTL > 0 /\ row[d].lease > 0
    BY <1>2, IngestionAssumption DEF HoldsLease
  <2>3. row' = [row EXCEPT ![d] = r] /\ UNCHANGED wk
    BY <1>1, <1>2 DEF Renew, TypeOK
  <2> HIDE DEF r
  <2>4. /\ PhaseOf(r.status) = PhaseOf(row[d].status) => PhaseMap' = PhaseMap
        /\ r.version = row[d].version => EpochMap' = EpochMap
        /\ (r.lease > 0 <=> row[d].lease > 0) => HeldMap' = HeldMap
    BY <1>1, <2>3, RowWrite
  <2> QED
    BY <2>1, <2>2, <2>3, <2>4, WorkerKept, Stutters
<1>3. CASE ~ HoldsLease(w)
  <2> DEFINE s == [wk[w] EXCEPT !.beating = FALSE]
  <2>1. s.doc = wk[w].doc /\ s.version = wk[w].version
    BY <1>1 DEF TypeOK, WorkerStates
  <2>2. wk' = [wk EXCEPT ![w] = s] /\ UNCHANGED row
    BY <1>1, <1>3 DEF Renew, TypeOK
  <2> HIDE DEF s
  <2> QED
    BY <2>1, <2>2, WorkerGoesOn
<1> QED
  BY <1>2, <1>3

LEMMA WriteProgressRefines ==
    ASSUME QueueInv, NEW w \in Workers, WriteProgress(w)
    PROVE  QueueStep
<1> DEFINE d == wk[w].doc
           r == [row[d] EXCEPT !.status = StatusOf(wk[w].pc),
                               !.error = IF wk[w].pc = "parse" THEN "none" ELSE @]
           s == [wk[w] EXCEPT !.pc = After(@)]
<1>1. TypeOK /\ d \in Docs /\ Active(w)
  BY Basics DEF WriteProgress, Active, Stages
<1>2. CASE Fenced(w)
  <2>1. row' = [row EXCEPT ![d] = r] /\ wk' = [wk EXCEPT ![w] = s]
    BY <1>1, <1>2 DEF WriteProgress, TypeOK
  <2>2. /\ r.status = StatusOf(wk[w].pc)
        /\ r.version = row[d].version /\ r.lease = row[d].lease
    BY <1>1 DEF TypeOK, Rows
  <2>3. s.doc = d /\ s.version = wk[w].version
    BY <1>1 DEF TypeOK, WorkerStates
  <2>4. PhaseOf(StatusOf(wk[w].pc)) = "working"
    BY PhaseTypes DEF WriteProgress, Stages, StatusOf
  <2> HIDE DEF d, r, s
  <2>5. ClaimMap' = ClaimMap
    BY <1>1, <2>1, <2>3, WorkerMoves DEF d
  <2> QED
    BY <1>1, <1>2, <2>1, <2>2, <2>4, <2>5, MoveRefines DEF d
<1>3. CASE ~ Fenced(w)
  BY <1>3, LostRefines DEF WriteProgress
<1> QED
  BY <1>2, <1>3

LEMMA WriteIndexedRefines ==
    ASSUME QueueInv, NEW w \in Workers, WriteIndexed(w)
    PROVE  QueueStep
<1> DEFINE d == wk[w].doc
           r == [row[d] EXCEPT !.status = "indexed", !.error = "none"]
           s == [wk[w] EXCEPT !.pc = "finish", !.outcome = "ok", !.open = FALSE]
<1>1. TypeOK /\ d \in Docs /\ Active(w)
  BY Basics DEF WriteIndexed, Active
<1>2. CASE Fenced(w)
  <2>1. row' = [row EXCEPT ![d] = r] /\ wk' = [wk EXCEPT ![w] = s]
    BY <1>1, <1>2 DEF WriteIndexed, TypeOK
  <2>2. r.status = "indexed" /\ r.version = row[d].version /\ r.lease = row[d].lease
    BY <1>1 DEF TypeOK, Rows
  <2>3. s.doc = d /\ s.version = wk[w].version
    BY <1>1 DEF TypeOK, WorkerStates
  <2> HIDE DEF d, r, s
  <2>5. ClaimMap' = ClaimMap
    BY <1>1, <2>1, <2>3, WorkerMoves DEF d
  <2> QED
    BY <1>1, <1>2, <2>1, <2>2, <2>5, PhaseTypes, MoveRefines DEF d
<1>3. CASE ~ Fenced(w)
  BY <1>3, LostRefines DEF WriteIndexed
<1> QED
  BY <1>2, <1>3

LEMMA WriteFailedRefines ==
    ASSUME QueueInv, NEW w \in Workers, WriteFailed(w)
    PROVE  QueueStep
<1> DEFINE d == wk[w].doc
           r == [row[d] EXCEPT !.status = "failed", !.error = wk[w].outcome]
           s == [wk[w] EXCEPT !.pc = "finish", !.open = FALSE]
<1>1. TypeOK /\ d \in Docs /\ Active(w)
  BY Basics DEF WriteFailed, Active
<1>2. CASE Fenced(w)
  <2>1. row' = [row EXCEPT ![d] = r] /\ wk' = [wk EXCEPT ![w] = s]
    BY <1>1, <1>2 DEF WriteFailed, TypeOK
  <2>2. r.status = "failed" /\ r.version = row[d].version /\ r.lease = row[d].lease
    BY <1>1 DEF TypeOK, Rows
  <2>3. s.doc = d /\ s.version = wk[w].version
    BY <1>1 DEF TypeOK, WorkerStates
  <2> HIDE DEF d, r, s
  <2>5. ClaimMap' = ClaimMap
    BY <1>1, <2>1, <2>3, WorkerMoves DEF d
  <2> QED
    BY <1>1, <1>2, <2>1, <2>2, <2>5, PhaseTypes, MoveRefines DEF d
<1>3. CASE ~ Fenced(w)
  BY <1>3, LostRefines DEF WriteFailed
<1> QED
  BY <1>2, <1>3

\* The stores are not the abstract queue's: clearing and upserting stutter.
LEMMA StoreStepsStutter ==
    ASSUME QueueInv, NEW w \in Workers, ClearExisting(w) \/ Upsert(w)
    PROVE  QueueStep
<1> DEFINE d == wk[w].doc
           c == [wk[w] EXCEPT !.pc = "upsert", !.open = TRUE, !.deleted = chunks[d]]
           u == [wk[w] EXCEPT !.pc = "store"]
<1>1. TypeOK
  BY Basics
<1>2. /\ c.doc = wk[w].doc /\ c.version = wk[w].version
      /\ u.doc = wk[w].doc /\ u.version = wk[w].version
  BY <1>1 DEF TypeOK, WorkerStates
<1>3. UNCHANGED row /\ (wk' = [wk EXCEPT ![w] = c] \/ wk' = [wk EXCEPT ![w] = u])
  BY <1>1 DEF ClearExisting, Upsert, TypeOK
<1> HIDE DEF c, u
<1> QED
  BY <1>2, <1>3, WorkerGoesOn

LEMMA RaiseRefines ==
    ASSUME QueueInv, NEW w \in Workers, Raise(w)
    PROVE  QueueStep
<1>1. TypeOK /\ wk[w] \in WorkerStates
  BY Basics DEF TypeOK
<1>2. CASE \E kind \in {"transient", "permanent"} :
              wk' = [wk EXCEPT ![w].pc = "fail", ![w].outcome = kind]
  <2> PICK kind \in {"transient", "permanent"} :
              wk' = [wk EXCEPT ![w].pc = "fail", ![w].outcome = kind]
    BY <1>2
  <2> DEFINE s == [wk[w] EXCEPT !.pc = "fail", !.outcome = kind]
  <2>1. s.doc = wk[w].doc /\ s.version = wk[w].version
    BY <1>1 DEF WorkerStates
  <2>2. wk' = [wk EXCEPT ![w] = s] /\ UNCHANGED row
    BY <1>1 DEF Raise, TypeOK
  <2> HIDE DEF s
  <2> QED
    BY <2>1, <2>2, WorkerGoesOn
<1>3. CASE wk' = [wk EXCEPT ![w].pc = "finish", ![w].outcome = "transient",
                            ![w].open = FALSE]
  <2> DEFINE s == [wk[w] EXCEPT !.pc = "finish", !.outcome = "transient", !.open = FALSE]
  <2>1. s.doc = wk[w].doc /\ s.version = wk[w].version
    BY <1>1 DEF WorkerStates
  <2>2. wk' = [wk EXCEPT ![w] = s] /\ UNCHANGED row
    BY <1>1, <1>3 DEF Raise, TypeOK
  <2> HIDE DEF s
  <2> QED
    BY <2>1, <2>2, WorkerGoesOn
<1> QED
  BY <1>2, <1>3 DEF Raise

LEMMA FinishReadRefines ==
    ASSUME QueueInv, NEW w \in Workers, FinishRead(w)
    PROVE  QueueStep
<1> DEFINE s == [wk[w] EXCEPT !.pc = "verdict", !.beating = FALSE,
                              !.attempts = row[wk[w].doc].attempts]
<1>1. TypeOK /\ Active(w)
  BY Basics DEF FinishRead, Active
<1>2. CASE Fenced(w)
  <2>1. s.doc = wk[w].doc /\ s.version = wk[w].version
    BY <1>1 DEF TypeOK, WorkerStates
  <2>2. wk' = [wk EXCEPT ![w] = s] /\ UNCHANGED row
    BY <1>1, <1>2 DEF FinishRead, TypeOK
  <2> HIDE DEF s
  <2> QED
    BY <2>1, <2>2, WorkerGoesOn
<1>3. CASE ~ Fenced(w)
  BY <1>1, <1>3, LeaveRefines DEF FinishRead
<1> QED
  BY <1>2, <1>3

\* What finish makes of the status, seen from the abstract queue.
LEMMA VerdictPhase ==
    ASSUME NEW r \in Rows, NEW o \in Outcomes, NEW a \in Nat
    PROVE  PhaseOf(Verdict(r, o, a).status) \in {PhaseOf(r.status), "queued", "failed"}
<1> DEFINE closed == [r EXCEPT !.lease = 0, !.owner = NoWorker]
<1>1. closed \in Rows /\ closed.status = r.status
  BY Ticks DEF Rows
<1> HIDE DEF closed
<1>2. Verdict(r, o, a).status \in {closed.status, "pending", "failed"}
  <2>1. \/ Verdict(r, o, a) = [closed EXCEPT !.due = TRUE]
        \/ Verdict(r, o, a) = [closed EXCEPT !.status = "pending", !.error = o, !.due = FALSE]
        \/ Verdict(r, o, a) = [closed EXCEPT !.status = "failed", !.error = o, !.due = TRUE]
    BY DEF Verdict, closed
  <2> QED
    BY <1>1, <2>1 DEF Rows
<1> QED
  BY <1>1, <1>2, PhaseTypes

LEMMA FinishWriteRefines ==
    ASSUME QueueInv, NEW w \in Workers, FinishWrite(w)
    PROVE  QueueStep
<1> DEFINE d == wk[w].doc
           r == Verdict(row[d], wk[w].outcome, wk[w].attempts)
<1>1. TypeOK /\ Active(w) /\ d \in Docs /\ ClaimMap[w].doc = d /\ PhaseMap[d] = PhaseOf(row[d].status)
  BY Basics DEF FinishWrite, Active
<1>2. CASE Fenced(w)
  <2>1. row' = [row EXCEPT ![d] = r] /\ wk' = [wk EXCEPT ![w] = IdleWorker]
    BY <1>1, <1>2 DEF FinishWrite, TypeOK
  <2>2. row[d] \in Rows /\ wk[w].outcome \in Outcomes /\ wk[w].attempts \in Nat
    BY <1>1 DEF TypeOK, WorkerStates
  <2>3. r.version = row[d].version /\ r.lease = 0
    BY <2>2, VerdictType
  <2>4. ~ (r.lease > 0)
    BY <2>3
  <2>5. PhaseOf(r.status) \in {PhaseMap[d], "queued", "failed"}
    BY <1>1, <2>2, VerdictPhase
  <2>6. Queue!IsCurrent(w)
    BY <1>1, <1>2, Basics
  <2> HIDE DEF d, r
  <2>7. /\ PhaseMap' = [PhaseMap EXCEPT ![d] = PhaseOf(r.status)]
        /\ r.version = row[d].version => EpochMap' = EpochMap
        /\ ~ (r.lease > 0) => HeldMap' = [HeldMap EXCEPT ![d] = FALSE]
    BY <1>1, <2>1, RowWrite
  <2>8. EpochMap' = EpochMap /\ HeldMap' = [HeldMap EXCEPT ![d] = FALSE]
    BY <2>3, <2>4, <2>7, Zenon
  <2>9. ClaimMap' = [ClaimMap EXCEPT ![w] = Queue!NoClaim]
    BY <1>1, <2>1, WorkerWrite, IdleWorkerBlank DEF Queue!NoClaim
  <2>10. Queue!Close(w)
    BY <1>1, <2>5, <2>6, <2>7, <2>8, <2>9 DEF Queue!Close, PhaseMap, EpochMap, HeldMap, ClaimMap
  <2> QED
    BY <2>10 DEF QueueStep, Queue!Next
<1>3. CASE ~ Fenced(w)
  BY <1>1, <1>3, LeaveRefines DEF FinishWrite
<1> QED
  BY <1>2, <1>3
-----------------------------------------------------------------------------
(* The invariant, and the theorem.                                          *)

LEMMA IdleStep ==
    ASSUME QueueInv, [Next]_vars, NEW w \in Workers, ~ Active(w)'
    PROVE  wk'[w].version = 0
<1>1. TypeOK /\ wk \in [Workers -> WorkerStates]
  BY Basics DEF TypeOK
<1>2. IdleWorker.version = 0 /\ (~ Active(w) => wk[w].version = 0)
  BY IdleWorkerBlank DEF QueueInv, IdleQuotesNothing
<1>r. ASSUME NEW v \in Workers, Renew(v) PROVE wk'[w].version = 0
  <2>1. wk'[w].pc = wk[w].pc /\ wk'[w].version = wk[w].version
    BY <1>1, <1>r DEF Renew, WorkerStates
  <2> QED
    BY <1>2, <2>1 DEF Active
<1>3. CASE wk'[w] = wk[w]
  BY <1>2, <1>3 DEF Active
<1>4. CASE wk'[w] = IdleWorker
  BY <1>2, <1>4
<1>5. CASE wk'[w] # wk[w] /\ wk'[w] # IdleWorker /\ ~ \E v \in Workers : Renew(v)
  <2>a. wk'[w].pc = "idle" /\ wk[w] \in WorkerStates
    BY <1>1 DEF Active
  <2>s. ASSUME NEW v \in Workers, NEW s, wk' = [wk EXCEPT ![v] = s], s.pc # "idle" PROVE FALSE
    BY <1>1, <1>5, <2>a, <2>s
  <2>0. ASSUME NEW v \in Workers, wk' = [wk EXCEPT ![v] = IdleWorker] PROVE FALSE
    BY <1>1, <1>5, <2>0
  <2>l. ASSUME NEW v \in Workers, Lost(v) PROVE FALSE
    <3> DEFINE s == [wk[v] EXCEPT !.pc = "finish", !.outcome = "permanent", !.open = FALSE]
    <3>1. s.pc = "finish"
      BY <1>1 DEF WorkerStates
    <3> QED
      BY <2>l, <2>s, <3>1 DEF Lost
  <2>1. ASSUME NEW v \in Workers, NEW d \in Docs, Claim(v, d) PROVE FALSE
    <3> DEFINE s == [IdleWorker EXCEPT !.pc = "parse", !.doc = d,
                                       !.version = NextVersion(d), !.beating = TRUE]
    <3>1. s.pc = "parse"
      BY DEF IdleWorker
    <3> QED
      BY <2>1, <2>s, <3>1 DEF Claim
  <2>3. ASSUME NEW v \in Workers, WriteProgress(v) PROVE FALSE
    <3>1. After(wk[v].pc) # "idle"
      BY <2>3 DEF WriteProgress, Stages, After
    <3> QED
      BY <1>1, <1>5, <2>a, <2>l, <2>3, <3>1 DEF WriteProgress, WorkerStates
  <2>4. ASSUME NEW v \in Workers, ClearExisting(v) \/ Upsert(v) PROVE FALSE
    BY <1>1, <1>5, <2>a, <2>4 DEF ClearExisting, Upsert, WorkerStates
  <2>5. ASSUME NEW v \in Workers, WriteIndexed(v) \/ WriteFailed(v) PROVE FALSE
    BY <1>1, <1>5, <2>a, <2>l, <2>5 DEF WriteIndexed, WriteFailed, WorkerStates
  <2>6. ASSUME NEW v \in Workers, FinishRead(v) PROVE FALSE
    BY <1>1, <1>5, <2>0, <2>a, <2>6 DEF FinishRead, WorkerStates
  <2>7. ASSUME NEW v \in Workers, FinishWrite(v) \/ Crash(v) PROVE FALSE
    BY <2>0, <2>7 DEF FinishWrite, Crash
  <2>8. ASSUME NEW v \in Workers, Raise(v) PROVE FALSE
    BY <1>1, <1>5, <2>a, <2>8 DEF Raise, WorkerStates
  <2>9. ASSUME UNCHANGED wk PROVE FALSE
    BY <1>5, <2>9
  <2> QED
    BY <1>5, <2>1, <2>3, <2>4, <2>5, <2>6, <2>7, <2>8, <2>9
       DEF Next, Pipeline, vars, Upload, Enqueue, BeginDelete, EndDelete, Tick, RetryDue
<1> QED
  BY <1>3, <1>4, <1>5, <1>r
\* A row under deletion exists until EndDelete: no other step makes it vanish.
LEMMA DeletingStep ==
    ASSUME QueueInv, [Next]_vars, NEW d \in deleting'
    PROVE  Exists(d)'
<1>1. TypeOK /\ row \in [Docs -> Rows] /\ deleting \subseteq Docs
  BY Basics DEF TypeOK
<1>2. \A e \in deleting : Exists(e)
  BY DEF QueueInv, DeletingExist
<1>3. ASSUME NEW e \in Docs, BeginDelete(e) PROVE Exists(d)'
  BY <1>2, <1>3 DEF BeginDelete, Exists
<1>4. ASSUME NEW e \in Docs, EndDelete(e) PROVE Exists(d)'
  BY <1>1, <1>2, <1>4 DEF EndDelete, Exists
<1>5. ASSUME NEW e \in Docs, Upload(e) \/ Enqueue(e) \/ Tick(e) \/ RetryDue(e)
      PROVE  Exists(d)'
  <2>1. d \in deleting /\ d \in Docs
    BY <1>1, <1>5 DEF Upload, Enqueue, Tick, RetryDue
  <2>2. row'[d].status \in {row[d].status, "pending"}
    <3>1. CASE Upload(e) \/ Tick(e) \/ RetryDue(e)
      BY <1>1, <2>1, <3>1 DEF Upload, Tick, RetryDue, Rows
    <3>2. CASE Enqueue(e)
      <4> DEFINE r == [row[e] EXCEPT !.status = "pending", !.error = "none", !.due = TRUE,
                                     !.owner = NoWorker, !.attempts = 0]
      <4>1. r.status = "pending"
        BY <1>1 DEF Rows
      <4>2. row' = [row EXCEPT ![e] = r]
        BY <3>2 DEF Enqueue
      <4> HIDE DEF r
      <4> QED
        BY <1>1, <2>1, <4>1, <4>2
    <3> QED
      BY <1>5, <3>1, <3>2
  <2> QED
    BY <1>2, <2>1, <2>2 DEF Exists
<1>6. ASSUME NEW w \in Workers, NEW e \in Docs, Claim(w, e) PROVE Exists(d)'
  <2>1. d \in deleting /\ d \in Docs
    BY <1>1, <1>6 DEF Claim
  <2>2. row'[d].status \in {row[d].status, "parsing"}
    BY <1>1, <1>6, <2>1 DEF Claim, Rows
  <2> QED
    BY <1>2, <2>1, <2>2 DEF Exists
<1>7. ASSUME NEW w \in Workers, Renew(w) \/ Raise(w) \/ Crash(w) \/ ClearExisting(w)
                                \/ Upsert(w) \/ FinishRead(w)
      PROVE  Exists(d)'
  <2>1. d \in deleting /\ d \in Docs
    BY <1>1, <1>7 DEF Renew, Raise, Crash, ClearExisting, Upsert, FinishRead
  <2>2. row'[d].status = row[d].status
    BY <1>1, <1>7, <2>1 DEF Renew, Raise, Crash, ClearExisting, Upsert, FinishRead, Rows
  <2> QED
    BY <1>2, <2>1, <2>2 DEF Exists
<1>8. ASSUME NEW w \in Workers, WriteProgress(w) PROVE Exists(d)'
  <2>1. d \in deleting /\ d \in Docs /\ wk[w].doc \in Docs
    BY <1>1, <1>8, Basics DEF WriteProgress
  <2>2. row'[d].status \in {row[d].status} \union InProgress
    BY <1>1, <1>8, <2>1 DEF WriteProgress, Rows, Stages, StatusOf, InProgress
  <2> QED
    BY <1>2, <2>1, <2>2 DEF Exists, InProgress
<1>9. ASSUME NEW w \in Workers, WriteIndexed(w) \/ WriteFailed(w) PROVE Exists(d)'
  <2>1. d \in deleting /\ d \in Docs /\ wk[w].doc \in Docs
    BY <1>1, <1>9, Basics DEF WriteIndexed, WriteFailed
  <2>2. row'[d].status \in {row[d].status, "indexed", "failed"}
    BY <1>1, <1>9, <2>1 DEF WriteIndexed, WriteFailed, Rows
  <2> QED
    BY <1>2, <2>1, <2>2 DEF Exists
<1>10. ASSUME NEW w \in Workers, FinishWrite(w) PROVE Exists(d)'
  <2>1. d \in deleting /\ d \in Docs
    BY <1>1, <1>10 DEF FinishWrite
  <2>2. ASSUME NEW r \in Rows, NEW o, NEW a
        PROVE  Verdict(r, o, a).status \in {r.status, "pending", "failed"}
    BY DEF Verdict, Rows
  <2>3. row'[d].status \in {row[d].status, "pending", "failed"}
    BY <1>1, <1>10, <2>1, <2>2 DEF FinishWrite
  <2> QED
    BY <1>2, <2>1, <2>3 DEF Exists
<1>11. CASE UNCHANGED vars
  BY <1>2, <1>11 DEF vars, Exists
<1> QED
  BY <1>3, <1>4, <1>5, <1>6, <1>7, <1>8, <1>9, <1>10, <1>11 DEF Next, Pipeline

LEMMA QueueInvStep == QueueInv /\ [Next]_vars => QueueInv'
<1> SUFFICES ASSUME QueueInv, [Next]_vars PROVE QueueInv'
  OBVIOUS
<1>1. FenceInv'
  BY FenceInvStep DEF QueueInv
<1>2. IdleQuotesNothing'
  BY IdleStep DEF IdleQuotesNothing
<1>3. DeletingExist'
  BY DeletingStep DEF DeletingExist
<1> QED
  BY <1>1, <1>2, <1>3 DEF QueueInv

LEMMA StepRefines == QueueInv /\ [Next]_vars => [Queue!Next]_(Queue!vars)
<1> SUFFICES ASSUME QueueInv, [Next]_vars PROVE QueueStep
  BY DEF QueueStep
<1>1. ASSUME NEW d \in Docs, BeginDelete(d) PROVE QueueStep
  BY <1>1, RowKept, WorkerKept, Stutters DEF BeginDelete
<1>2. CASE UNCHANGED vars
  BY <1>2, RowKept, WorkerKept, Stutters DEF vars
<1> QED
  BY <1>1, <1>2, UploadRefines, EnqueueRefines, EndDeleteRefines, TickRefines,
     RetryDueRefines, ClaimRefines, RenewRefines, WriteProgressRefines,
     StoreStepsStutter, WriteIndexedRefines, WriteFailedRefines, RaiseRefines,
     FinishReadRefines, FinishWriteRefines, LeaveRefines DEF Next, Pipeline, Crash, Active

\* The queue implements the fenced job whatever the number of documents and
\* workers and however late a worker is (claim_job, renew, _write_progress, finish).
THEOREM QueueImplementsFencedJob == Spec => ImplementsFencedJob
<1>1. Init => QueueInv
  <2> SUFFICES ASSUME Init PROVE QueueInv
    OBVIOUS
  <2>1. NewRow \in Rows
    BY Ticks DEF NewRow, Rows, Statuses, Outcomes
  <2>2. \A w \in Workers : ~ Active(w) /\ wk[w].version = 0
    BY IdleWorkerBlank DEF Init, Active
  <2>3. FenceInv
    BY <2>1, <2>2, IdleWorkerType
       DEF Init, FenceInv, TypeOK, ClaimIdentity, LeaseNamesHolder
  <2> QED
    BY <2>2, <2>3 DEF Init, QueueInv, IdleQuotesNothing, DeletingExist
<1>2. Init => Queue!Init
  <2> SUFFICES ASSUME Init PROVE Queue!Init
    OBVIOUS
  <2>1. \A d \in Docs : row[d] = NewRow
    BY DEF Init
  <2>2. PhaseMap = [d \in Docs |-> "absent"] /\ EpochMap = [d \in Docs |-> 0]
    BY <2>1, PhaseTypes DEF PhaseMap, EpochMap, NewRow
  <2>3. \A d \in Docs : (row[d].lease > 0) = FALSE
    BY <2>1 DEF NewRow
  <2>4. HeldMap = [d \in Docs |-> FALSE]
    BY <2>3, Zenon DEF HeldMap
  <2>5. ClaimMap = [w \in Workers |-> Queue!NoClaim]
    BY IdleWorkerBlank DEF Init, ClaimMap, Queue!NoClaim
  <2> QED
    BY <2>2, <2>4, <2>5 DEF Queue!Init, PhaseMap, EpochMap, HeldMap, ClaimMap
<1> QED
  BY <1>1, <1>2, QueueInvStep, StepRefines, PTL DEF Spec, ImplementsFencedJob, Queue!Spec
=============================================================================
