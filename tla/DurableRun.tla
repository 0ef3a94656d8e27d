----------------------------- MODULE DurableRun -----------------------------
(***************************************************************************)
(* Durable execution of agent runs: the API commits a pending AgentRun and *)
(* publishes it on a Redis stream (services/chat_service.py,               *)
(* agents/workflow/queue.py); a worker takes the entry, acquires a lease,  *)
(* executes the turn and acknowledges the entry (agents/workflow/worker.py,*)
(* agents/orchestrator.py); a recovery scheduler requeues runs whose lease *)
(* expired and stream entries nobody acknowledged                          *)
(* (agents/workflow/recovery.py, app/recovery.py).                         *)
(*                                                                         *)
(* agent_runs.status is written by all of them, without a lock and without *)
(* a version: every read that a later write relies on is a step of its own *)
(* here, and the write is what the ORM sends, an UPDATE of the column only *)
(* if it differs from the value loaded.                                    *)
(***************************************************************************)
EXTENDS Integers, FiniteSets

CONSTANTS
    Runs,         \* agent runs
    Workers,      \* RunWorker processes
    Schedulers,   \* processes that run the recovery loop (one, if leader-gated)
    NoOwner,      \* no lease row
    MaxRetries,   \* RUN_MAX_RETRIES
    Faults,       \* kinds of faults that may happen, see FaultKinds
    MaxFaults     \* bound: faults in a behaviour

(***************************************************************************)
(* crash     a worker dies          sched    a scheduler dies mid-scan     *)
(* error     the database fails     redis    a Redis command fails         *)
(* renewal   a renewal raises, which ends the renewal loop                 *)
(* stall     a lease runs out under a worker that renews it too late       *)
(* long      a turn takes longer than RUN_STREAM_CLAIM_IDLE_SECONDS        *)
(* eventless the turn ends without a terminal event                        *)
(* reject    the turn is refused before it starts (no user, no model...)   *)
(* cancel    the user cancels the run (counted with the faults)            *)
(***************************************************************************)
FaultKinds == {"crash", "sched", "error", "redis", "renewal", "stall", "long",
               "eventless", "reject", "cancel"}

ASSUME DurableRunAssumption ==
    /\ Runs # {}
    /\ NoOwner \notin Workers
    /\ IsFiniteSet(Schedulers) /\ Schedulers # {}
    /\ MaxRetries \in Nat
    /\ Faults \subseteq FaultKinds
    /\ MaxFaults \in Nat

Terminal  == {"completed", "failed", "cancelled"}
Executing == {"running", "waiting_approval"}
Statuses  == Terminal \union Executing \union {"none", "pending"}

VARIABLES
    status,      \* agent_runs.status
    answer,      \* is the assistant message of the run final (and charged)?
    retries,     \* recovery.requeued events of the run
    lease,       \* the run_leases row: owner, id (rows are deleted), live
    stream,      \* entries of the run not yet delivered to a consumer
    pel,         \* entries delivered to a consumer and not acknowledged
    wk,          \* the workers
    sched,       \* the recovery schedulers
    submitting,  \* runs committed and not yet published by the API
    cancelling,  \* runs a cancel request has loaded and not yet written
    faults       \* faults so far

vars == <<status, answer, retries, lease, stream, pel, wk, sched, submitting,
          cancelling, faults>>

transport == <<stream, pel>>
api == <<submitting, cancelling>>

SomeRun == CHOOSE r \in Runs : TRUE
IdleWorker == [pc |-> "idle", run |-> SomeRun, seen |-> "none", outcome |-> "none",
               beating |-> FALSE, lost |-> FALSE, asked |-> FALSE]
IdleSched  == [pc |-> "idle", todo |-> {}, run |-> SomeRun, ref |-> 0,
               seen |-> "none", count |-> 0]
NoLease    == [owner |-> NoOwner, id |-> 0, live |-> FALSE]

Init ==
    /\ status = [r \in Runs |-> "none"]
    /\ answer = [r \in Runs |-> FALSE]
    /\ retries = [r \in Runs |-> 0]
    /\ lease = [r \in Runs |-> NoLease]
    /\ stream = [r \in Runs |-> 0]
    /\ pel = [r \in Runs |-> [w \in Workers |-> 0]]
    /\ wk = [w \in Workers |-> IdleWorker]
    /\ sched = [s \in Schedulers |-> IdleSched]
    /\ submitting = {}
    /\ cancelling = {}
    /\ faults = 0

Fault(kind) == kind \in Faults /\ faults < MaxFaults /\ faults' = faults + 1

HasLease(r) == lease[r].owner # NoOwner

(***************************************************************************)
(* An attribute assignment on a loaded ORM object: the UPDATE carries the  *)
(* column only if the value differs from the one loaded (seen).            *)
(***************************************************************************)
SetStatus(r, seen, new) == status' = IF seen = new THEN status
                                     ELSE [status EXCEPT ![r] = new]

\* XADD.
Publish(r) == stream' = [stream EXCEPT ![r] = @ + 1]

\* DELETE of the lease row with this id; the id stays, a later row gets the next.
DeleteLease(r) == lease' = [lease EXCEPT ![r].owner = NoOwner, ![r].live = FALSE]

-----------------------------------------------------------------------------
(* The API: create_and_enqueue_durable_run, cancel_run.                     *)

Submit(r) ==
    /\ status[r] = "none"
    /\ status' = [status EXCEPT ![r] = "pending"]
    /\ submitting' = submitting \union {r}
    /\ UNCHANGED <<answer, retries, lease, stream, pel, wk, sched, cancelling, faults>>

\* RedisStreamQueue.enqueue: nothing is published for a run with a live lease or
\* an unacknowledged entry; a Redis error is logged and swallowed.
Enqueue(r) ==
    /\ r \in submitting
    /\ submitting' = submitting \ {r}
    /\ \/ /\ stream' = IF lease[r].live \/ \E w \in Workers : pel[r][w] > 0
                       THEN stream ELSE [stream EXCEPT ![r] = @ + 1]
          /\ UNCHANGED faults
       \/ Fault("redis") /\ UNCHANGED stream
    /\ UNCHANGED <<status, answer, retries, lease, pel, wk, sched, cancelling>>

CancelRead(r) ==
    /\ status[r] \notin Terminal \union {"none"}
    /\ r \notin cancelling
    /\ Fault("cancel")
    /\ cancelling' = cancelling \union {r}
    /\ UNCHANGED <<status, answer, retries, lease, stream, pel, wk, sched, submitting>>

CancelWrite(r) ==
    /\ r \in cancelling
    /\ cancelling' = cancelling \ {r}
    /\ status' = [status EXCEPT ![r] = "cancelled"]
    /\ UNCHANGED <<answer, retries, lease, stream, pel, wk, sched, submitting, faults>>

-----------------------------------------------------------------------------
(* The worker: run_once and _process.                                       *)

Goto(w, pc) == wk' = [wk EXCEPT ![w].pc = pc]
Stop(w)     == wk' = [wk EXCEPT ![w] = IdleWorker]

\* XREADGROUP: the entry moves to the pending list of this consumer.
Deliver(w, r) == pel' = [pel EXCEPT ![r][w] = @ + 1]

Dequeue(w, r) ==
    /\ wk[w].pc = "idle"
    /\ stream[r] > 0
    /\ stream' = [stream EXCEPT ![r] = @ - 1]
    /\ Deliver(w, r)
    /\ wk' = [wk EXCEPT ![w] = [IdleWorker EXCEPT !.pc = "check", !.run = r]]
    /\ UNCHANGED <<status, answer, retries, lease, sched, api, faults>>

\* _process, step 1, the load: a run that is terminal is only acknowledged.
Check(w) ==
    /\ wk[w].pc = "check"
    /\ wk' = [wk EXCEPT ![w].seen = status[wk[w].run],
                        ![w].pc = IF status[wk[w].run] \in Terminal
                                  THEN "ack" ELSE "acquire"]
    /\ UNCHANGED <<status, answer, retries, lease, transport, sched, api, faults>>

\* Step 1, the commit: LeaseStore.acquire takes over whatever lease there is.
Acquire(w) ==
    LET r == wk[w].run IN
    /\ wk[w].pc = "acquire"
    /\ lease' = [lease EXCEPT ![r] =
                    [owner |-> w, live |-> TRUE,
                     id |-> IF HasLease(r) THEN lease[r].id ELSE lease[r].id + 1]]
    /\ SetStatus(r, wk[w].seen, "running")
    /\ wk' = [wk EXCEPT ![w].pc = "load", ![w].beating = TRUE]
    /\ UNCHANGED <<answer, retries, transport, sched, api, faults>>

\* run_durable_turn loads the run; a run whose conversation, user, message or
\* model is missing yields an error event and ends here.
Load(w) ==
    /\ wk[w].pc = "load"
    /\ \/ /\ wk' = [wk EXCEPT ![w].pc = "start", ![w].seen = status[wk[w].run]]
          /\ UNCHANGED faults
       \/ /\ Fault("reject")
          /\ wk' = [wk EXCEPT ![w].pc = "close", ![w].outcome = "error"]
    /\ UNCHANGED <<status, answer, retries, lease, transport, sched, api>>

\* ChatOrchestrator.stream: status running, on the object loaded before.
Start(w) ==
    /\ wk[w].pc = "start"
    /\ SetStatus(wk[w].run, wk[w].seen, "running")
    /\ Goto(w, "exec")
    /\ UNCHANGED <<answer, retries, lease, transport, sched, api, faults>>

\* A dangerous tool waits for an approval (_set_run_status, on the same object).
AskApproval(w) ==
    /\ wk[w].pc = "exec" /\ ~ wk[w].asked
    /\ status' = [status EXCEPT ![wk[w].run] = "waiting_approval"]
    /\ wk' = [wk EXCEPT ![w].pc = "wait", ![w].asked = TRUE]
    /\ UNCHANGED <<answer, retries, lease, transport, sched, api, faults>>

\* The wait is over: approved, rejected or timed out.  When the budget of the turn
\* is used up, or the update fails, the status stays.
ApprovalOver(w) ==
    /\ wk[w].pc = "wait"
    /\ \/ status' = [status EXCEPT ![wk[w].run] = "running"]
       \/ UNCHANGED status
    /\ Goto(w, "exec")
    /\ UNCHANGED <<answer, retries, lease, transport, sched, api, faults>>

\* The turn ends: persist_terminal_run reads the status it will write over.
Finish(w) ==
    /\ wk[w].pc = "exec"
    /\ \E outcome \in {"done", "error"} :
          wk' = [wk EXCEPT ![w].pc = "final", ![w].outcome = outcome,
                           ![w].seen = status[wk[w].run]]
    /\ UNCHANGED <<status, answer, retries, lease, transport, sched, api, faults>>

\* A multi-agent turn takes the cancel command out of the database: CancelledError
\* leaves the engine, and the turn is closed as done with the reason cancelled.
CancelSeen(w) ==
    /\ wk[w].pc = "exec"
    /\ status[wk[w].run] = "cancelled"
    /\ wk' = [wk EXCEPT ![w].pc = "final", ![w].outcome = "cancelled",
                        ![w].seen = "cancelled"]
    /\ UNCHANGED <<status, answer, retries, lease, transport, sched, api, faults>>

\* Seeded fault: the event kind as the status.
VerdictAsEvent(outcome, seen) == outcome

\* What persist_terminal_run writes: a cancel survives, its own or one it has seen,
\* if the turn did not end in an error.
Verdict(outcome, seen) == CASE outcome = "error"                -> "failed"
                            [] "cancelled" \in {outcome, seen} -> "cancelled"
                            [] OTHER                            -> "completed"

\* persist_terminal_run, the write; a failure is logged and swallowed.
PersistTerminal(w) ==
    /\ wk[w].pc = "final"
    /\ \/ /\ status' = [status EXCEPT ![wk[w].run] = Verdict(wk[w].outcome, wk[w].seen)]
          /\ UNCHANGED faults
       \/ Fault("error") /\ UNCHANGED status
    /\ Goto(w, "settle")
    /\ UNCHANGED <<answer, retries, lease, transport, sched, api>>

\* run_durable_turn, the done and error branches: the assistant message becomes
\* final and the turn is charged, in a commit of its own.  The CancelledError of a
\* cancelled turn goes on through _process and run_once, which catch Exception
\* only, and ends the process with its lease and its entry.
Settle(w) ==
    /\ wk[w].pc = "settle"
    /\ answer' = [answer EXCEPT ![wk[w].run] = TRUE]
    /\ IF wk[w].outcome = "cancelled" THEN Stop(w) ELSE Goto(w, "close")
    /\ UNCHANGED <<status, retries, lease, transport, sched, api, faults>>

\* The generator is exhausted without a terminal event.
EventlessExit(w) ==
    /\ wk[w].pc = "exec"
    /\ Fault("eventless")
    /\ wk' = [wk EXCEPT ![w].pc = "close", ![w].outcome = "none"]
    /\ UNCHANGED <<status, answer, retries, lease, transport, sched, api>>

\* The fence of _process: an event that arrives after the renewal loop found the
\* lease gone ends the run here, without finalizing and without an ack.
LeaseFence(w) ==
    /\ wk[w].lost
    /\ wk[w].pc \in {"exec", "close"}
    /\ wk[w].pc = "close" => wk[w].outcome # "none"
    /\ Stop(w)
    /\ UNCHANGED <<status, answer, retries, lease, transport, sched, api, faults>>

ReleaseLease(w) ==
    IF lease[wk[w].run].owner = w THEN DeleteLease(wk[w].run) ELSE UNCHANGED lease

\* _finalize_success, the load of the run.
Close(w) ==
    /\ wk[w].pc = "close"
    /\ ~ wk[w].lost \/ wk[w].outcome = "none"
    /\ wk' = [wk EXCEPT ![w].pc = "release", ![w].seen = status[wk[w].run]]
    /\ UNCHANGED <<status, answer, retries, lease, transport, sched, api, faults>>

\* _finalize_success, the commit: release the lease, complete a run that the turn
\* left open although it did end in a terminal event.
CloseCommit(w) ==
    /\ wk[w].pc = "release"
    /\ ReleaseLease(w)
    /\ IF wk[w].outcome # "none" /\ wk[w].seen \notin Terminal
       THEN SetStatus(wk[w].run, wk[w].seen, "completed") ELSE UNCHANGED status
    /\ Goto(w, "ack")
    /\ UNCHANGED <<answer, retries, transport, sched, api, faults>>

\* ack: every unacknowledged entry of the run, whoever it was delivered to.
Ack(w) ==
    /\ wk[w].pc = "ack"
    /\ \/ /\ pel' = [pel EXCEPT ![wk[w].run] = [v \in Workers |-> 0]]
          /\ UNCHANGED faults
       \/ Fault("redis") /\ UNCHANGED pel
    /\ Stop(w)
    /\ UNCHANGED <<status, answer, retries, lease, stream, sched, api>>

\* An exception reaches the worker.  Before the lease it is only logged; after,
\* _abandon_to_recovery releases the lease and leaves the entry pending.
Raise(w) ==
    /\ wk[w].pc # "idle" /\ wk[w].pc # "ack"
    /\ Fault("error")
    /\ IF wk[w].pc \in {"check", "acquire", "close", "release"} THEN UNCHANGED lease
                                                                ELSE ReleaseLease(w)
    /\ Stop(w)
    /\ UNCHANGED <<status, answer, retries, transport, sched, api>>

Crash(w) ==
    /\ wk[w].pc # "idle"
    /\ Fault("crash")
    /\ Stop(w)
    /\ UNCHANGED <<status, answer, retries, lease, transport, sched, api>>

-----------------------------------------------------------------------------
(* Leases: the renewal loop and the clock.                                  *)

\* _renewal_loop: renew extends our own lease, expired or not.
Renew(w) ==
    LET r == wk[w].run IN
    /\ wk[w].beating
    /\ wk[w].pc \notin {"close", "release", "ack"}
    /\ \/ /\ lease[r].owner = w /\ ~ lease[r].live
          /\ lease' = [lease EXCEPT ![r].live = TRUE]
          /\ UNCHANGED wk
       \/ /\ lease[r].owner # w
          /\ wk' = [wk EXCEPT ![w].beating = FALSE, ![w].lost = TRUE]
          /\ UNCHANGED lease
    /\ UNCHANGED <<status, answer, retries, transport, sched, api, faults>>

\* An exception in the renewal loop ends it; nobody is told.
RenewalDies(w) ==
    /\ wk[w].beating
    /\ Fault("renewal")
    /\ wk' = [wk EXCEPT ![w].beating = FALSE]
    /\ UNCHANGED <<status, answer, retries, lease, transport, sched, api>>

Expire(r) ==
    /\ lease[r].live
    /\ \/ /\ ~ \E w \in Workers : wk[w].beating /\ wk[w].run = r /\ lease[r].owner = w
          /\ UNCHANGED faults
       \/ Fault("stall")
    /\ lease' = [lease EXCEPT ![r].live = FALSE]
    /\ UNCHANGED <<status, answer, retries, transport, wk, sched, api>>

-----------------------------------------------------------------------------
(* Recovery: RecoveryScheduler.scan and reclaim_stale.                      *)

\* Seeded faults: orphans without a lease row are not looked for; the budget is one
\* too large.
StaleLeasesOnly(r) == HasLease(r) /\ ~ lease[r].live /\ status[r] \notin Terminal \union {"none"}
HasBudgetOffByOne(count) == count <= MaxRetries

\* _find_expired_leases and _find_stale_running_no_lease.
Stale(r) == \/ HasLease(r) /\ ~ lease[r].live /\ status[r] \notin Terminal \union {"none"}
            \/ ~ HasLease(r) /\ status[r] \in Executing

\* The snapshot a scan works from; ref 0 stands for "no lease row".
Scan(s) ==
    /\ sched[s].pc = "idle"
    /\ \E r \in Runs : Stale(r)
    /\ sched' = [sched EXCEPT ![s].pc = "next",
                    ![s].todo = {<<r, IF HasLease(r) THEN lease[r].id ELSE 0>> :
                                    r \in {q \in Runs : Stale(q)}}]
    /\ UNCHANGED <<status, answer, retries, lease, transport, wk, api, faults>>

\* _reconcile, the reads: somebody may have finalized the run meanwhile.
ReconcileRead(s) ==
    /\ sched[s].pc = "next"
    /\ \E c \in sched[s].todo :
          sched' = [sched EXCEPT ![s] =
                       [@ EXCEPT !.todo = sched[s].todo \ {c}, !.run = c[1], !.ref = c[2],
                                 !.seen = status[c[1]], !.count = retries[c[1]],
                                 !.pc = IF status[c[1]] \in Terminal
                                        THEN "next" ELSE "commit"]]
    /\ UNCHANGED <<status, answer, retries, lease, transport, wk, api, faults>>

\* The old lease row goes, if it is still the one the scan saw; a renewal or a
\* takeover since the scan has kept the row and its id.
DropLease(s) ==
    IF HasLease(sched[s].run) /\ lease[sched[s].run].id = sched[s].ref
    THEN DeleteLease(sched[s].run) ELSE UNCHANGED lease

\* Another retry is allowed: retry_count < self._max_retries.
HasBudget(count) == count < MaxRetries

\* _reconcile, the commit: a counted retry, or the end of the run.
ReconcileCommit(s) ==
    LET r == sched[s].run IN
    /\ sched[s].pc = "commit"
    /\ DropLease(s)
    /\ IF HasBudget(sched[s].count)
       THEN /\ retries' = [retries EXCEPT ![r] = @ + 1]
            /\ SetStatus(r, sched[s].seen, "pending")
            /\ sched' = [sched EXCEPT ![s].pc = "requeue"]
       ELSE /\ status' = [status EXCEPT ![r] = "failed"]
            /\ sched' = [sched EXCEPT ![s].pc = "next"]
            /\ UNCHANGED retries
    /\ UNCHANGED <<answer, transport, wk, api, faults>>

\* queue.requeue: a Redis error is logged and swallowed.
Requeue(s) ==
    /\ sched[s].pc = "requeue"
    /\ \/ Publish(sched[s].run) /\ UNCHANGED faults
       \/ Fault("redis") /\ UNCHANGED stream
    /\ sched' = [sched EXCEPT ![s].pc = "next"]
    /\ UNCHANGED <<status, answer, retries, lease, pel, wk, api>>

ScanEnd(s) ==
    /\ sched[s].pc = "next" /\ sched[s].todo = {}
    /\ sched' = [sched EXCEPT ![s] = IdleSched]
    /\ UNCHANGED <<status, answer, retries, lease, transport, wk, api, faults>>

\* The entry a live worker is processing is idle only if the turn is long.
Busy(w, r) == wk[w].pc # "idle" /\ wk[w].run = r

\* Seeded fault: the entry is published again through enqueue, whose check for an
\* unacknowledged entry finds the one that is being reclaimed.
ReclaimThroughEnqueue(s, r, w) ==
    /\ sched[s].pc = "idle"
    /\ pel[r][w] > 0
    /\ ~ Busy(w, r)
    /\ pel' = [pel EXCEPT ![r][w] = @ - 1]
    /\ UNCHANGED <<status, answer, retries, lease, stream, wk, sched, api, faults>>

\* reclaim_stale: XAUTOCLAIM, XADD, XACK of an entry idle for too long; it looks
\* at the stream alone.  A crash after the XADD leaves the old entry pending.
Reclaim(s, r, w) ==
    /\ sched[s].pc = "idle"
    /\ pel[r][w] > 0
    /\ Publish(r)
    /\ \/ /\ pel[r][w] > 1 \/ ~ Busy(w, r)
          /\ pel' = [pel EXCEPT ![r][w] = @ - 1]
          /\ UNCHANGED faults
       \/ /\ Busy(w, r)
          /\ Fault("long")
          /\ pel' = [pel EXCEPT ![r][w] = @ - 1]
       \/ /\ ~ Busy(w, r)
          /\ Fault("sched")
          /\ UNCHANGED pel
    /\ UNCHANGED <<status, answer, retries, lease, wk, sched, api>>

SchedCrash(s) ==
    /\ sched[s].pc # "idle"
    /\ Fault("sched")
    /\ sched' = [sched EXCEPT ![s] = IdleSched]
    /\ UNCHANGED <<status, answer, retries, lease, transport, wk, api>>

-----------------------------------------------------------------------------
Turn(w) == \/ Check(w) \/ Acquire(w) \/ Load(w) \/ Start(w) \/ AskApproval(w)
           \/ ApprovalOver(w) \/ CancelSeen(w) \/ Finish(w) \/ PersistTerminal(w) \/ Settle(w)
           \/ EventlessExit(w) \/ LeaseFence(w) \/ Close(w) \/ CloseCommit(w)
           \/ Ack(w)

Recover(s) == Scan(s) \/ ReconcileRead(s) \/ ReconcileCommit(s) \/ Requeue(s) \/ ScanEnd(s)

Next ==
    \/ \E r \in Runs : \/ Submit(r) \/ Enqueue(r) \/ CancelRead(r) \/ CancelWrite(r)
                       \/ Expire(r)
    \/ \E w \in Workers : \/ \E r \in Runs : Dequeue(w, r)
                          \/ Turn(w) \/ Renew(w) \/ RenewalDies(w) \/ Raise(w) \/ Crash(w)
    \/ \E s \in Schedulers : \/ \E r \in Runs, w \in Workers : Reclaim(s, r, w)
                             \/ Recover(s) \/ SchedCrash(s)

Spec == Init /\ [][Next]_vars

(***************************************************************************)
(* Worker and scheduler loops keep polling, a turn ends (it has a budget), *)
(* the renewal task runs, a lease nobody renews expires.                   *)
(***************************************************************************)
Fairness ==
    /\ \A r \in Runs : /\ WF_vars(Enqueue(r)) /\ WF_vars(CancelWrite(r)) /\ WF_vars(Expire(r))
                       /\ WF_vars(\E w \in Workers : Dequeue(w, r))
    /\ \A w \in Workers : WF_vars(Turn(w)) /\ WF_vars(Renew(w))
    /\ \A s \in Schedulers : WF_vars(Recover(s))
    /\ \A s \in Schedulers, r \in Runs, w \in Workers : SF_vars(Reclaim(s, r, w))

FairSpec == Spec /\ Fairness

-----------------------------------------------------------------------------
(* Properties.                                                              *)

WorkerStates == [pc : {"idle", "check", "acquire", "load", "start", "exec", "wait",
                       "final", "settle", "close", "release", "ack"},
                 run : Runs, seen : Statuses,
                 outcome : {"none", "done", "error", "cancelled"},
                 beating : BOOLEAN, lost : BOOLEAN, asked : BOOLEAN]

SchedStates == [pc : {"idle", "next", "commit", "requeue"},
                todo : SUBSET (Runs \X Nat), run : Runs, ref : Nat,
                seen : Statuses, count : Nat]

\* The rows, the stream and the locals of the processes keep their types.
TypeOK ==
    /\ status \in [Runs -> Statuses]
    /\ answer \in [Runs -> BOOLEAN]
    /\ retries \in [Runs -> Nat]
    /\ lease \in [Runs -> [owner : Workers \union {NoOwner}, id : Nat, live : BOOLEAN]]
    /\ stream \in [Runs -> Nat]
    /\ pel \in [Runs -> [Workers -> Nat]]
    /\ wk \in [Workers -> WorkerStates]
    /\ sched \in [Schedulers -> SchedStates]
    /\ submitting \subseteq Runs
    /\ cancelling \subseteq Runs
    /\ faults \in Nat

\* The retry counter is the number of recovery.requeued events, read before it is
\* written: the budget holds for one scheduler and is overrun by at most one
\* retry for every scheduler that races with it.
RetryBudget ==
    \A r \in Runs : retries[r] < MaxRetries + Cardinality(Schedulers)

\* A pending run is never forgotten: somebody is about to publish it, an entry of
\* the stream or of a pending list names it, or it has a lease row that recovery
\* will find expired.  Recovery itself does not look for pending runs.
NoLostRun ==
    \A r \in Runs : status[r] = "pending" =>
        \/ r \in submitting \/ stream[r] > 0 \/ HasLease(r)
        \/ \E w \in Workers : pel[r][w] > 0
        \/ \E w \in Workers : wk[w].pc \in {"check", "acquire"} /\ wk[w].run = r
        \/ \E s \in Schedulers : sched[s].pc = "requeue" /\ sched[s].run = r

\* Every submitted run is eventually completed, failed or cancelled, whatever
\* dies on the way.
EveryRunSettles == \A r \in Runs : status[r] = "pending" ~> status[r] \in Terminal

=============================================================================
