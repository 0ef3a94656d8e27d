------------------------------ MODULE Ingestion ------------------------------
(***************************************************************************)
(* The durable ingestion queue of knowledge-base documents                 *)
(* (services/ingestion_queue.py) together with the indexing pipeline it    *)
(* runs (services/document_service.py).  The Document row is the job: its  *)
(* status is the state machine and the ingest_* columns schedule it.  A    *)
(* worker claims a row with one conditional UPDATE, renews a lease while   *)
(* the pipeline writes its progress, and closes the claim with a verdict.  *)
(* Ownership is proved by the claim version: a number bumped by the claim  *)
(* and quoted by every write-back.                                         *)
(*                                                                         *)
(* Time is the number of ticks a lease has left; 0 stands for both an      *)
(* expired lease and no lease, which no predicate of the code tells apart. *)
(* The chunk rows and the vector points of a document are represented by   *)
(* the claim versions that produced them.                                  *)
(***************************************************************************)
EXTENDS Integers, FiniteSets

CONSTANTS
    Docs,           \* documents
    Workers,        \* ingestion worker processes (IngestionWorker loops)
    NoWorker,       \* ingest_claimed_by IS NULL
    TTL,            \* INGEST_LEASE_TTL_SECONDS, in ticks
    MaxAttempts,    \* INGEST_MAX_ATTEMPTS
    Stalls,         \* may a lease run out under a live worker (wedged loop, DB outage)?
    StoreFaults,    \* may delete_by_filter fail (and be swallowed)?
    MaxRequests,    \* bound: (re)index requests
    MaxCrashes,     \* bound: worker crashes
    MaxVersion      \* bound: claims of one document

ASSUME IngestionAssumption ==
    /\ Docs # {}
    /\ NoWorker \notin Workers
    /\ TTL \in Nat \ {0}
    /\ MaxAttempts \in Nat \ {0}
    /\ Stalls \in BOOLEAN /\ StoreFaults \in BOOLEAN
    /\ MaxRequests \in Nat /\ MaxCrashes \in Nat /\ MaxVersion \in Nat

InProgress == {"parsing", "chunking", "embedding"}
Claimable  == {"pending"} \union InProgress
Statuses   == Claimable \union {"none", "indexed", "failed", "deleted"}
Outcomes   == {"none", "ok", "transient", "permanent"}

(***************************************************************************)
(* The status each step of the pipeline writes before it starts, and the   *)
(* step that follows: parse, split, embed.                                 *)
(***************************************************************************)
Stages == {"parse", "split", "embed"}
\* Seeded fault: the name of the stage instead of its status.
StageName(stage) == stage

StatusOf(stage) == CASE stage = "parse" -> "parsing"
                     [] stage = "split" -> "chunking"
                     [] stage = "embed" -> "embedding"
After(stage)    == CASE stage = "parse" -> "split"
                     [] stage = "split" -> "embed"
                     [] stage = "embed" -> "clear"

PCs == Stages \union {"idle", "clear", "upsert", "store", "fail", "finish", "verdict"}

VARIABLES
    row,        \* documents: status, error, lease, owner, attempts, version, due
    chunks,     \* claim versions whose DocumentChunk rows are committed
    vectors,    \* claim versions that have points in the vector store
    wk,         \* the IngestionWorker processes
    deleting,   \* documents whose delete has removed the vectors, not yet the row
    requests,   \* (re)index requests made so far
    crashes     \* worker crashes so far

vars == <<row, chunks, vectors, wk, deleting, requests, crashes>>

IdleWorker == [pc |-> "idle", doc |-> CHOOSE d \in Docs : TRUE, version |-> 0,
               outcome |-> "none", attempts |-> 0, beating |-> FALSE,
               open |-> FALSE, deleted |-> {}]

NewRow == [status |-> "none", error |-> "none", lease |-> 0, owner |-> NoWorker,
           attempts |-> 0, version |-> 0, due |-> TRUE]

Init ==
    /\ row = [d \in Docs |-> NewRow]
    /\ chunks = [d \in Docs |-> {}]
    /\ vectors = [d \in Docs |-> {}]
    /\ wk = [w \in Workers |-> IdleWorker]
    /\ deleting = {}
    /\ requests = 0
    /\ crashes = 0

Exists(d) == row[d].status \notin {"none", "deleted"}

(***************************************************************************)
(* A write-back matches its row only while the claim version it quotes is  *)
(* the current one: WHERE id = :id AND ingest_claim_version = :claimed.    *)
(***************************************************************************)
Fenced(w) == Exists(wk[w].doc) /\ row[wk[w].doc].version = wk[w].version

-----------------------------------------------------------------------------
(* The API: upload, reindex, delete.                                        *)

\* document_service.upload: the row is committed in status pending.
Upload(d) ==
    /\ row[d].status = "none"
    /\ row' = [row EXCEPT ![d].status = "pending"]
    /\ UNCHANGED <<chunks, vectors, wk, deleting, requests, crashes>>

\* Seeded fault: the lease of a running worker is ignored.
EnqueueStealsLease(d) ==
    /\ requests < MaxRequests
    /\ Exists(d)
    /\ row' = [row EXCEPT ![d] = [@ EXCEPT !.status = "pending", !.lease = 0,
                                           !.owner = NoWorker, !.attempts = 0]]
    /\ requests' = requests + 1
    /\ UNCHANGED <<chunks, vectors, wk, deleting, crashes>>

\* enqueue: refused while a worker holds a live lease; never touches the version.
Enqueue(d) ==
    /\ requests < MaxRequests
    /\ Exists(d)
    /\ row[d].lease = 0
    /\ row' = [row EXCEPT ![d] = [@ EXCEPT !.status = "pending", !.error = "none",
                                           !.due = TRUE, !.owner = NoWorker,
                                           !.attempts = 0]]
    /\ requests' = requests + 1
    /\ UNCHANGED <<chunks, vectors, wk, deleting, crashes>>

\* document_service.delete, first half: the vectors go (a failure is swallowed).
BeginDelete(d) ==
    /\ Exists(d) /\ d \notin deleting
    /\ requests < MaxRequests
    /\ \/ vectors' = [vectors EXCEPT ![d] = {}]
       \/ StoreFaults /\ UNCHANGED vectors
    /\ deleting' = deleting \union {d}
    /\ requests' = requests + 1
    /\ UNCHANGED <<row, chunks, wk, crashes>>

\* Second half, one transaction: chunk rows and document row.  It waits while an
\* uncommitted chunk insert holds the foreign-key lock on the document row.
EndDelete(d) ==
    /\ d \in deleting
    /\ ~ \E w \in Workers : wk[w].doc = d /\ wk[w].open
    /\ row' = [row EXCEPT ![d] = [@ EXCEPT !.status = "deleted", !.lease = 0,
                                           !.owner = NoWorker]]
    /\ chunks' = [chunks EXCEPT ![d] = {}]
    /\ deleting' = deleting \ {d}
    /\ UNCHANGED <<vectors, wk, requests, crashes>>

-----------------------------------------------------------------------------
(* The queue: claim_job, renew, finish.                                     *)

\* Seeded faults: only queued rows are claimable; the attempt is the identity.
CanClaimQueued(d) == row[d].status = "pending" /\ row[d].lease = 0 /\ row[d].due
AttemptAsVersion(d) == row[d].attempts + 1

\* _claimable_predicate, shared by the candidate SELECT and the claim UPDATE.
CanClaim(d) == row[d].status \in Claimable /\ row[d].lease = 0 /\ row[d].due

\* The version a claim takes.
NextVersion(d) == row[d].version + 1

\* claim_job: lease, owner, attempt and version in one conditional UPDATE.
Claim(w, d) ==
    /\ wk[w].pc = "idle"
    /\ CanClaim(d)
    /\ row[d].version < MaxVersion
    /\ row' = [row EXCEPT ![d] = [@ EXCEPT !.status = "parsing", !.lease = TTL,
                                           !.owner = w,
                                           !.attempts = row[d].attempts + 1,
                                           !.version = NextVersion(d)]]
    /\ wk' = [wk EXCEPT ![w] = [IdleWorker EXCEPT !.pc = "parse", !.doc = d,
                                                  !.version = NextVersion(d),
                                                  !.beating = TRUE]]
    /\ UNCHANGED <<chunks, vectors, deleting, requests, crashes>>

\* Seeded faults: renew checks neither the owner nor the expiry; only the owner.
MatchesVersion(w) == Fenced(w)
OwnsLease(w) == Fenced(w) /\ row[wk[w].doc].owner = w

\* _heartbeat / renew: extends our own unexpired lease, or stops renewing.
HoldsLease(w) == /\ Fenced(w)
                 /\ row[wk[w].doc].owner = w
                 /\ row[wk[w].doc].lease > 0

Renew(w) ==
    /\ wk[w].beating
    /\ IF HoldsLease(w)
       THEN /\ row[wk[w].doc].lease < TTL
            /\ row' = [row EXCEPT ![wk[w].doc].lease = TTL]
            /\ UNCHANGED wk
       ELSE /\ wk' = [wk EXCEPT ![w].beating = FALSE]
            /\ UNCHANGED row
    /\ UNCHANGED <<chunks, vectors, deleting, requests, crashes>>

\* finish, its SELECT: lost (taken over) or gone (deleted) end the claim here.
FinishRead(w) ==
    /\ wk[w].pc = "finish"
    /\ wk' = [wk EXCEPT ![w] =
                 IF Fenced(w)
                 THEN [@ EXCEPT !.pc = "verdict", !.beating = FALSE,
                                !.attempts = row[wk[w].doc].attempts]
                 ELSE IdleWorker]
    /\ UNCHANGED <<row, chunks, vectors, deleting, requests, crashes>>

\* The columns finish writes: done leaves the status to the pipeline, retry
\* puts the row back with a backoff, anything else is a permanent failure.
Verdict(r, outcome, attempts) ==
    LET closed == [r EXCEPT !.lease = 0, !.owner = NoWorker]
    IN  CASE outcome = "ok" -> [closed EXCEPT !.due = TRUE]
          [] outcome = "transient" /\ attempts < MaxAttempts ->
                [closed EXCEPT !.status = "pending", !.error = outcome, !.due = FALSE]
          [] OTHER ->
                [closed EXCEPT !.status = "failed", !.error = outcome, !.due = TRUE]

\* Seeded fault: finish trusts what it read.
FinishWriteUnguarded(w) ==
    /\ wk[w].pc = "verdict"
    /\ row' = [row EXCEPT ![wk[w].doc] = Verdict(@, wk[w].outcome, wk[w].attempts)]
    /\ wk' = [wk EXCEPT ![w] = IdleWorker]
    /\ UNCHANGED <<chunks, vectors, deleting, requests, crashes>>

\* finish, its guarded UPDATE: matches nothing if the claim was taken over since.
FinishWrite(w) ==
    /\ wk[w].pc = "verdict"
    /\ row' = IF Fenced(w)
              THEN [row EXCEPT ![wk[w].doc] = Verdict(@, wk[w].outcome, wk[w].attempts)]
              ELSE row
    /\ wk' = [wk EXCEPT ![w] = IdleWorker]
    /\ UNCHANGED <<chunks, vectors, deleting, requests, crashes>>

-----------------------------------------------------------------------------
(* The pipeline: index_document.                                            *)

\* _write_progress commits the session before it looks at the row count, so the
\* chunk statements pending in it are committed whether or not the row matched.
CommitChunks(w) ==
    chunks' = IF wk[w].open
              THEN [chunks EXCEPT ![wk[w].doc] = (@ \ wk[w].deleted) \union {wk[w].version}]
              ELSE chunks

\* What _ClaimLost turns into: a non-retryable outcome handed to finish.
Lost(w) == wk' = [wk EXCEPT ![w] = [@ EXCEPT !.pc = "finish", !.outcome = "permanent",
                                             !.open = FALSE]]

\* Steps 1-3 announce themselves with a fenced progress write.
WriteProgress(w) ==
    /\ wk[w].pc \in Stages
    /\ IF Fenced(w)
       THEN /\ row' = [row EXCEPT ![wk[w].doc].status = StatusOf(wk[w].pc),
                                  ![wk[w].doc].error =
                                      IF wk[w].pc = "parse" THEN "none" ELSE @]
            /\ wk' = [wk EXCEPT ![w].pc = After(@)]
       ELSE Lost(w) /\ UNCHANGED row
    /\ UNCHANGED <<chunks, vectors, deleting, requests, crashes>>

\* _clear_existing and the insert of the new chunk rows: the vector delete takes
\* effect at once (its failure is swallowed), the SQL is not committed yet.
ClearExisting(w) ==
    /\ wk[w].pc = "clear"
    /\ Exists(wk[w].doc)
    /\ \/ vectors' = [vectors EXCEPT ![wk[w].doc] = {}]
       \/ StoreFaults /\ UNCHANGED vectors
    /\ wk' = [wk EXCEPT ![w].pc = "upsert", ![w].open = TRUE,
                        ![w].deleted = chunks[wk[w].doc]]
    /\ UNCHANGED <<row, chunks, deleting, requests, crashes>>

\* Embedding and store.upsert: the points are visible immediately.
Upsert(w) ==
    /\ wk[w].pc = "upsert"
    /\ vectors' = [vectors EXCEPT ![wk[w].doc] = @ \union {wk[w].version}]
    /\ wk' = [wk EXCEPT ![w].pc = "store"]
    /\ UNCHANGED <<row, chunks, deleting, requests, crashes>>

\* The last progress write: indexed, in the transaction of the chunk rows.
WriteIndexed(w) ==
    /\ wk[w].pc = "store"
    /\ CommitChunks(w)
    /\ IF Fenced(w)
       THEN /\ row' = [row EXCEPT ![wk[w].doc].status = "indexed",
                                  ![wk[w].doc].error = "none"]
            /\ wk' = [wk EXCEPT ![w] = [@ EXCEPT !.pc = "finish", !.outcome = "ok",
                                                 !.open = FALSE]]
       ELSE Lost(w) /\ UNCHANGED row
    /\ UNCHANGED <<vectors, deleting, requests, crashes>>

\* Parsing, splitting, embedding, storing or a progress write raises.  ValueError
\* and OSError are permanent, the rest is transient; a chunk insert for a deleted
\* document violates the foreign key.  If the except branch raises in its turn,
\* _execute makes of it a retryable outcome and the session is rolled back.
Raise(w) ==
    /\ \/ /\ wk[w].pc \in Stages \union {"clear", "upsert", "store"}
          /\ \E kind \in {"transient", "permanent"} :
                wk' = [wk EXCEPT ![w].pc = "fail", ![w].outcome = kind]
       \/ /\ wk[w].pc = "fail"
          /\ wk' = [wk EXCEPT ![w].pc = "finish", ![w].outcome = "transient",
                              ![w].open = FALSE]
    /\ UNCHANGED <<row, chunks, vectors, deleting, requests, crashes>>

\* The except branch of index_document.
WriteFailed(w) ==
    /\ wk[w].pc = "fail"
    /\ CommitChunks(w)
    /\ IF Fenced(w)
       THEN /\ row' = [row EXCEPT ![wk[w].doc].status = "failed",
                                  ![wk[w].doc].error = wk[w].outcome]
            /\ wk' = [wk EXCEPT ![w].pc = "finish", ![w].open = FALSE]
       ELSE Lost(w) /\ UNCHANGED row
    /\ UNCHANGED <<vectors, deleting, requests, crashes>>

-----------------------------------------------------------------------------
(* The environment: crashes and the clock.                                  *)

\* The process dies: its open transaction is rolled back by the database.
Crash(w) ==
    /\ wk[w].pc # "idle"
    /\ crashes < MaxCrashes
    /\ crashes' = crashes + 1
    /\ wk' = [wk EXCEPT ![w] = IdleWorker]
    /\ UNCHANGED <<row, chunks, vectors, deleting, requests>>

\* A lease loses a tick.  Unless Stalls, a heartbeat always comes in time.
Tick(d) ==
    /\ row[d].lease > 0
    /\ Stalls \/ row[d].lease > 1
              \/ ~ \E w \in Workers : wk[w].pc # "idle" /\ wk[w].doc = d /\ HoldsLease(w)
    /\ row' = [row EXCEPT ![d].lease = @ - 1]
    /\ UNCHANGED <<chunks, vectors, wk, deleting, requests, crashes>>

\* The backoff of a retry is over.
RetryDue(d) ==
    /\ ~ row[d].due
    /\ row' = [row EXCEPT ![d].due = TRUE]
    /\ UNCHANGED <<chunks, vectors, wk, deleting, requests, crashes>>

Pipeline(w) == \/ WriteProgress(w) \/ ClearExisting(w) \/ Upsert(w)
               \/ WriteIndexed(w)  \/ WriteFailed(w)
               \/ FinishRead(w)    \/ FinishWrite(w)

Next ==
    \/ \E d \in Docs : Upload(d) \/ Enqueue(d) \/ BeginDelete(d) \/ EndDelete(d)
                       \/ Tick(d) \/ RetryDue(d)
    \/ \E w \in Workers :
          \/ \E d \in Docs : Claim(w, d)
          \/ Renew(w) \/ Pipeline(w) \/ Raise(w) \/ Crash(w)

Spec == Init /\ [][Next]_vars

(***************************************************************************)
(* The poll loop never stops claiming, a pipeline step always ends (every  *)
(* provider call has a timeout), and time passes.  Nothing makes a user    *)
(* ask or a worker crash.                                                  *)
(***************************************************************************)
Fairness ==
    /\ \A d \in Docs : WF_vars(Tick(d)) /\ WF_vars(RetryDue(d)) /\ WF_vars(EndDelete(d))
                       /\ WF_vars(\E w \in Workers : Claim(w, d))
    /\ \A w \in Workers : WF_vars(Pipeline(w) \/ Raise(w))

FairSpec == Spec /\ Fairness

-----------------------------------------------------------------------------
(* Properties.                                                              *)

Rows == [status : Statuses, error : Outcomes, lease : 0..TTL,
         owner : Workers \union {NoWorker}, attempts : Nat, version : Nat,
         due : BOOLEAN]

WorkerStates == [pc : PCs, doc : Docs, version : Nat, outcome : Outcomes,
                 attempts : Nat, beating : BOOLEAN, open : BOOLEAN,
                 deleted : SUBSET Nat]

\* The columns of the rows and the locals of the workers keep their types.
TypeOK ==
    /\ row \in [Docs -> Rows]
    /\ chunks \in [Docs -> SUBSET Nat]
    /\ vectors \in [Docs -> SUBSET Nat]
    /\ wk \in [Workers -> WorkerStates]
    /\ deleting \subseteq Docs
    /\ requests \in Nat
    /\ crashes \in Nat

Active(w) == wk[w].pc # "idle"

\* No active worker quotes a version its row has not reached, and no two active
\* workers quote the same version of one document: the claim version is an
\* identity, which is what claim_job's single UPDATE is for (a worker name or
\* an attempt count is not one).
ClaimIdentity ==
    /\ \A w \in Workers : Active(w) => wk[w].version \in 1..row[wk[w].doc].version
    /\ \A v, w \in Workers :
          Active(v) /\ Active(w) /\ v # w /\ wk[v].doc = wk[w].doc
             => wk[v].version # wk[w].version

\* While a lease is live, every active worker that can still write the row back
\* is the worker the lease names: nobody else's verdict can land on it.
LiveLeaseExcludes ==
    \A w \in Workers :
        Active(w) /\ Fenced(w) /\ row[wk[w].doc].lease > 0 => row[wk[w].doc].owner = w

\* The version of a row never goes back and only a claim moves it.
VersionMonotone ==
    [][\A d \in Docs : row'[d].version >= row[d].version]_vars

\* A row that has moved on to another claim is never written by a worker of an
\* earlier one: a status written while the version stays is written by the API
\* or by the worker whose claim it is.
NoZombieWrite ==
    [][\A w \in Workers :
          Active(w) /\ wk[w].version # row[wk[w].doc].version /\ wk'[w] # wk[w]
             => row' = row]_vars

\* An indexed document that nobody is working on has exactly the chunk rows and
\* the vectors of one claim: search neither misses a chunk nor finds it twice.
IndexConsistent ==
    \A d \in Docs :
        /\ row[d].status = "indexed"
        /\ d \notin deleting
        /\ ~ \E w \in Workers : Active(w) /\ wk[w].doc = d
        => \E v \in 1..row[d].version : chunks[d] = {v} /\ vectors[d] = {v}

\* A document in the queue is eventually indexed, failed or deleted.
EveryJobSettles ==
    \A d \in Docs : row[d].status \in Claimable
                       ~> row[d].status \in {"indexed", "failed", "deleted"}

-----------------------------------------------------------------------------
(* What the queue promises, without leases, stages and stores.              *)

\* Where a row stands for somebody who only asked for its document.
PhaseOf(status) == CASE status = "none"       -> "absent"
                     [] status = "pending"    -> "queued"
                     [] status \in InProgress -> "working"
                     [] status = "deleted"    -> "gone"
                     [] OTHER                 -> status

Queue == INSTANCE FencedJob WITH
    phase <- [d \in Docs |-> PhaseOf(row[d].status)],
    epoch <- [d \in Docs |-> row[d].version],
    held  <- [d \in Docs |-> row[d].lease > 0],
    claim <- [w \in Workers |-> [doc |-> wk[w].doc, epoch |-> wk[w].version]]

\* The queue implements the fenced job: a claim is made only while nobody holds
\* the job and under a number nobody had, a lease that ran out is never renewed,
\* and whatever a worker of an earlier claim still does (it may wake up after a
\* stall in any step of the pipeline) leaves the job where it is.
ImplementsFencedJob == Queue!Spec
=============================================================================
