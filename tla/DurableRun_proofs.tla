-------------------------- MODULE DurableRun_proofs --------------------------
(***************************************************************************)
(* Proofs about DurableRun: the types and the retry budget of a run, for   *)
(* any number of runs, workers and schedulers and any faults; and that no  *)
(* pending run is forgotten, for one worker.                               *)
(***************************************************************************)
EXTENDS DurableRun, FiniteSetTheorems, TLAPS

-----------------------------------------------------------------------------
(* What the steps do to each variable.                                      *)

Leases == [owner : Workers \union {NoOwner}, id : Nat, live : BOOLEAN]

LEMMA IdleTypes == IdleWorker \in WorkerStates /\ IdleSched \in SchedStates
  BY DurableRunAssumption DEF IdleWorker, IdleSched, WorkerStates, SchedStates, SomeRun, Statuses

LEMMA WorkerTypes ==
    ASSUME TypeOK, NEW w \in Workers
    PROVE  /\ wk[w] \in WorkerStates
           /\ wk[w].run \in Runs /\ wk[w].seen \in Statuses
           /\ status[wk[w].run] \in Statuses
  BY DEF TypeOK, WorkerStates

LEMMA SchedTypes ==
    ASSUME TypeOK, NEW s \in Schedulers
    PROVE  /\ sched[s] \in SchedStates
           /\ sched[s].run \in Runs /\ sched[s].seen \in Statuses
           /\ sched[s].count \in Nat /\ sched[s].todo \subseteq Runs \X Nat
  BY DEF TypeOK, SchedStates

LEMMA StatusNames ==
    {"none", "pending", "running", "waiting_approval", "completed", "failed",
     "cancelled"} = Statuses
  BY DEF Statuses, Terminal, Executing

LEMMA WorkerStep ==
    ASSUME TypeOK, NEW w \in Workers, NEW x \in WorkerStates,
           wk' = [wk EXCEPT ![w] = x]
    PROVE  wk' \in [Workers -> WorkerStates]
  BY DEF TypeOK

LEMMA SchedStep ==
    ASSUME TypeOK, NEW s \in Schedulers, NEW x \in SchedStates,
           sched' = [sched EXCEPT ![s] = x]
    PROVE  sched' \in [Schedulers -> SchedStates]
  BY DEF TypeOK

LEMMA StatusStep ==
    ASSUME TypeOK, NEW r \in Runs, NEW x \in Statuses,
           status' = [status EXCEPT ![r] = x]
    PROVE  status' \in [Runs -> Statuses]
  BY DEF TypeOK

LEMMA SetStatusStep ==
    ASSUME TypeOK, NEW r \in Runs, NEW seen, NEW x \in Statuses, SetStatus(r, seen, x)
    PROVE  status' \in [Runs -> Statuses]
  BY DEF TypeOK, SetStatus

LEMMA LeaseStep ==
    ASSUME TypeOK, NEW r \in Runs, NEW x \in Leases, lease' = [lease EXCEPT ![r] = x]
    PROVE  lease' \in [Runs -> Leases]
  BY DEF TypeOK, Leases

LEMMA DeleteLeaseStep ==
    ASSUME TypeOK, NEW r \in Runs, DeleteLease(r)
    PROVE  lease' \in [Runs -> Leases]
  BY DEF TypeOK, DeleteLease, Leases

LEMMA ReleaseLeaseStep ==
    ASSUME TypeOK, NEW w \in Workers, ReleaseLease(w)
    PROVE  lease' \in [Runs -> Leases]
  BY DeleteLeaseStep, WorkerTypes DEF ReleaseLease, TypeOK, Leases

LEMMA DropLeaseStep ==
    ASSUME TypeOK, NEW s \in Schedulers, DropLease(s)
    PROVE  lease' \in [Runs -> Leases]
  BY DeleteLeaseStep, SchedTypes DEF DropLease, TypeOK, Leases

LEMMA GotoStep ==
    ASSUME TypeOK, NEW w \in Workers,
           NEW pc \in {"exec", "wait", "settle", "close", "ack"}, Goto(w, pc)
    PROVE  wk' \in [Workers -> WorkerStates]
  <1> DEFINE x == [wk[w] EXCEPT !.pc = pc]
  <1>1. x \in WorkerStates
    BY WorkerTypes DEF WorkerStates
  <1>2. wk' = [wk EXCEPT ![w] = x]
    BY DEF Goto
  <1> QED BY <1>1, <1>2, WorkerStep

LEMMA StopStep ==
    ASSUME TypeOK, NEW w \in Workers, Stop(w)
    PROVE  wk' \in [Workers -> WorkerStates]
  BY IdleTypes, WorkerStep DEF Stop

LEMMA FaultStep == ASSUME TypeOK, NEW kind, Fault(kind) PROVE faults' \in Nat
  BY DEF TypeOK, Fault

LEMMA PublishStep == ASSUME TypeOK, NEW r \in Runs, Publish(r) PROVE stream' \in [Runs -> Nat]
  BY DEF TypeOK, Publish

-----------------------------------------------------------------------------
(* Every action keeps the types.                                            *)

LEMMA TypeInit == ASSUME Init PROVE TypeOK
  BY IdleTypes DEF Init, TypeOK, NoLease, Statuses

LEMMA SubmitType ==
    ASSUME TypeOK, NEW r \in Runs, Submit(r)
    PROVE  TypeOK'
  BY StatusStep, StatusNames DEF TypeOK, Submit

LEMMA EnqueueType ==
    ASSUME TypeOK, NEW r \in Runs, Enqueue(r)
    PROVE  TypeOK'
  <1>1. stream' = [stream EXCEPT ![r] = @ + 1] \/ stream' = stream
    BY DEF Enqueue
  <1>2. stream' \in [Runs -> Nat]
    BY <1>1 DEF TypeOK
  <1>3. faults' \in Nat
    BY FaultStep DEF Enqueue, TypeOK
  <1> QED BY <1>2, <1>3 DEF TypeOK, Enqueue

LEMMA CancelReadType ==
    ASSUME TypeOK, NEW r \in Runs, CancelRead(r)
    PROVE  TypeOK'
  BY FaultStep DEF TypeOK, CancelRead

LEMMA CancelWriteType ==
    ASSUME TypeOK, NEW r \in Runs, CancelWrite(r)
    PROVE  TypeOK'
  BY StatusStep, StatusNames DEF TypeOK, CancelWrite

LEMMA ExpireType ==
    ASSUME TypeOK, NEW r \in Runs, Expire(r)
    PROVE  TypeOK'
  <1> DEFINE l == [lease[r] EXCEPT !.live = FALSE]
  <1>1. lease[r] \in Leases
    BY DEF TypeOK, Leases
  <1>2. l \in Leases
    BY <1>1 DEF Leases
  <1>3. lease' = [lease EXCEPT ![r] = l]
    BY DEF Expire
  <1>4. lease' \in [Runs -> Leases]
    BY <1>2, <1>3, LeaseStep
  <1>5. faults' \in Nat
    BY FaultStep DEF Expire, TypeOK
  <1> HIDE DEF l
  <1> QED BY <1>4, <1>5 DEF TypeOK, Expire, Leases, transport, api

LEMMA DequeueType ==
    ASSUME TypeOK, NEW w \in Workers, NEW r \in Runs, Dequeue(w, r)
    PROVE  TypeOK'
  <1> DEFINE x == [IdleWorker EXCEPT !.pc = "check", !.run = r]
  <1>1. x \in WorkerStates
    BY IdleTypes DEF WorkerStates
  <1>2. wk' = [wk EXCEPT ![w] = x]
    BY DEF Dequeue
  <1>3. wk' \in [Workers -> WorkerStates]
    BY <1>1, <1>2, WorkerStep
  <1>4. stream' \in [Runs -> Nat]
    BY DEF Dequeue, TypeOK
  <1>5. pel' \in [Runs -> [Workers -> Nat]]
    BY DEF Dequeue, Deliver, TypeOK
  <1> HIDE DEF x
  <1> QED BY <1>3, <1>4, <1>5 DEF TypeOK, Dequeue, api

LEMMA CheckType ==
    ASSUME TypeOK, NEW w \in Workers, Check(w)
    PROVE  TypeOK'
  <1> DEFINE x == [wk[w] EXCEPT !.seen = status[wk[w].run],
                             !.pc = IF status[wk[w].run] \in Terminal
                                    THEN "ack" ELSE "acquire"]
  <1>1. x \in WorkerStates
    BY WorkerTypes, StatusNames DEF WorkerStates, Check
  <1>2. wk' = [wk EXCEPT ![w] = x]
    BY DEF Check
  <1>3. wk' \in [Workers -> WorkerStates]
    BY <1>1, <1>2, WorkerStep
  <1> HIDE DEF x
  <1> QED BY <1>3, WorkerTypes, StatusNames DEF TypeOK, Check, transport, api

LEMMA AcquireType ==
    ASSUME TypeOK, NEW w \in Workers, Acquire(w)
    PROVE  TypeOK'
  <1> DEFINE r == wk[w].run
             x == [wk[w] EXCEPT !.pc = "load", !.beating = TRUE]
             l == [owner |-> w, live |-> TRUE,
                   id |-> IF HasLease(r) THEN lease[r].id ELSE lease[r].id + 1]
  <1>1. r \in Runs
    BY WorkerTypes
  <1>2. x \in WorkerStates
    BY WorkerTypes DEF WorkerStates
  <1>3. l \in Leases
    BY <1>1 DEF Leases, TypeOK
  <1>4. wk' = [wk EXCEPT ![w] = x] /\ lease' = [lease EXCEPT ![r] = l]
    BY DEF Acquire
  <1>5. wk' \in [Workers -> WorkerStates]
    BY <1>2, <1>4, WorkerStep
  <1>6. lease' \in [Runs -> Leases]
    BY <1>1, <1>3, <1>4, LeaseStep
  <1>7. status' \in [Runs -> Statuses]
    BY <1>1, SetStatusStep, StatusNames DEF Acquire
  <1> HIDE DEF x, l, r
  <1> QED BY <1>5, <1>6, <1>7 DEF TypeOK, Acquire, Leases, transport, api

LEMMA LoadType ==
    ASSUME TypeOK, NEW w \in Workers, Load(w)
    PROVE  TypeOK'
  <1> DEFINE x == [wk[w] EXCEPT !.pc = "start", !.seen = status[wk[w].run]]
             y == [wk[w] EXCEPT !.pc = "close", !.outcome = "error"]
  <1>1. x \in WorkerStates /\ y \in WorkerStates
    BY WorkerTypes DEF WorkerStates
  <1>2. wk' = [wk EXCEPT ![w] = x] \/ wk' = [wk EXCEPT ![w] = y]
    BY DEF Load
  <1>3. wk' \in [Workers -> WorkerStates]
    BY <1>1, <1>2, WorkerStep
  <1>4. faults' \in Nat
    BY FaultStep DEF Load, TypeOK
  <1> HIDE DEF x, y
  <1> QED BY <1>3, <1>4 DEF TypeOK, Load, transport, api

LEMMA StartType ==
    ASSUME TypeOK, NEW w \in Workers, Start(w)
    PROVE  TypeOK'
  BY WorkerTypes, GotoStep, SetStatusStep, StatusNames DEF TypeOK, Start, transport, api

LEMMA AskApprovalType ==
    ASSUME TypeOK, NEW w \in Workers, AskApproval(w)
    PROVE  TypeOK'
  <1> DEFINE x == [wk[w] EXCEPT !.pc = "wait", !.asked = TRUE]
  <1>1. x \in WorkerStates
    BY WorkerTypes, StatusNames DEF WorkerStates, AskApproval
  <1>2. wk' = [wk EXCEPT ![w] = x]
    BY DEF AskApproval
  <1>3. wk' \in [Workers -> WorkerStates]
    BY <1>1, <1>2, WorkerStep
  <1> HIDE DEF x
  <1> QED BY <1>3, WorkerTypes, StatusStep, StatusNames DEF TypeOK, AskApproval, transport, api

LEMMA ApprovalOverType ==
    ASSUME TypeOK, NEW w \in Workers, ApprovalOver(w)
    PROVE  TypeOK'
  BY WorkerTypes, GotoStep, StatusStep, StatusNames DEF TypeOK, ApprovalOver, transport, api

LEMMA FinishType ==
    ASSUME TypeOK, NEW w \in Workers, Finish(w)
    PROVE  TypeOK'
  <1>1. PICK outcome \in {"done", "error"} :
           wk' = [wk EXCEPT ![w].pc = "final", ![w].outcome = outcome,
                            ![w].seen = status[wk[w].run]]
    BY DEF Finish
  <1> DEFINE x == [wk[w] EXCEPT !.pc = "final", !.outcome = outcome,
                                !.seen = status[wk[w].run]]
  <1>2. x \in WorkerStates
    BY WorkerTypes DEF WorkerStates
  <1>3. wk' = [wk EXCEPT ![w] = x]
    BY <1>1
  <1>4. wk' \in [Workers -> WorkerStates]
    BY <1>2, <1>3, WorkerStep
  <1> HIDE DEF x
  <1> QED BY <1>4 DEF TypeOK, Finish, transport, api

LEMMA CancelSeenType ==
    ASSUME TypeOK, NEW w \in Workers, CancelSeen(w)
    PROVE  TypeOK'
  <1> DEFINE x == [wk[w] EXCEPT !.pc = "final", !.outcome = "cancelled", !.seen = "cancelled"]
  <1>1. x \in WorkerStates
    BY WorkerTypes, StatusNames DEF WorkerStates
  <1>2. wk' = [wk EXCEPT ![w] = x]
    BY DEF CancelSeen
  <1>3. wk' \in [Workers -> WorkerStates]
    BY <1>1, <1>2, WorkerStep
  <1> HIDE DEF x
  <1> QED BY <1>3 DEF TypeOK, CancelSeen, transport, api

LEMMA PersistTerminalType ==
    ASSUME TypeOK, NEW w \in Workers, PersistTerminal(w)
    PROVE  TypeOK'
  <1>1. Verdict(wk[w].outcome, wk[w].seen) \in Statuses
    BY StatusNames DEF Verdict
  <1>2. status' \in [Runs -> Statuses]
    BY <1>1, StatusStep, WorkerTypes DEF PersistTerminal, TypeOK
  <1>3. faults' \in Nat
    BY FaultStep DEF PersistTerminal, TypeOK
  <1>4. wk' \in [Workers -> WorkerStates]
    BY GotoStep DEF PersistTerminal
  <1> QED BY <1>2, <1>3, <1>4 DEF TypeOK, PersistTerminal, transport, api

LEMMA SettleType ==
    ASSUME TypeOK, NEW w \in Workers, Settle(w)
    PROVE  TypeOK'
  BY WorkerTypes, GotoStep, StopStep DEF TypeOK, Settle, transport, api

LEMMA EventlessExitType ==
    ASSUME TypeOK, NEW w \in Workers, EventlessExit(w)
    PROVE  TypeOK'
  <1> DEFINE x == [wk[w] EXCEPT !.pc = "close", !.outcome = "none"]
  <1>1. x \in WorkerStates
    BY WorkerTypes, StatusNames DEF WorkerStates, EventlessExit
  <1>2. wk' = [wk EXCEPT ![w] = x]
    BY DEF EventlessExit
  <1>3. wk' \in [Workers -> WorkerStates]
    BY <1>1, <1>2, WorkerStep
  <1> HIDE DEF x
  <1> QED BY <1>3, WorkerTypes, FaultStep DEF TypeOK, EventlessExit, transport, api

LEMMA LeaseFenceType ==
    ASSUME TypeOK, NEW w \in Workers, LeaseFence(w)
    PROVE  TypeOK'
  BY StopStep DEF TypeOK, LeaseFence, transport, api

LEMMA CloseType ==
    ASSUME TypeOK, NEW w \in Workers, Close(w)
    PROVE  TypeOK'
  <1> DEFINE x == [wk[w] EXCEPT !.pc = "release", !.seen = status[wk[w].run]]
  <1>1. x \in WorkerStates
    BY WorkerTypes DEF WorkerStates
  <1>2. wk' = [wk EXCEPT ![w] = x]
    BY DEF Close
  <1>3. wk' \in [Workers -> WorkerStates]
    BY <1>1, <1>2, WorkerStep
  <1> QED BY <1>3 DEF TypeOK, Close, transport, api

LEMMA CloseCommitType ==
    ASSUME TypeOK, NEW w \in Workers, CloseCommit(w)
    PROVE  TypeOK'
  <1>1. status' \in [Runs -> Statuses]
    <2>1. CASE SetStatus(wk[w].run, wk[w].seen, "completed")
      BY <2>1, WorkerTypes, SetStatusStep, StatusNames
    <2>2. CASE UNCHANGED status
      BY <2>2 DEF TypeOK
    <2> QED BY <2>1, <2>2 DEF CloseCommit
  <1>2. lease' \in [Runs -> Leases]
    BY ReleaseLeaseStep DEF CloseCommit
  <1>3. wk' \in [Workers -> WorkerStates]
    BY GotoStep DEF CloseCommit
  <1> QED BY <1>1, <1>2, <1>3 DEF TypeOK, CloseCommit, Leases, transport, api

LEMMA AckType ==
    ASSUME TypeOK, NEW w \in Workers, Ack(w)
    PROVE  TypeOK'
  <1>1. pel' \in [Runs -> [Workers -> Nat]]
    BY WorkerTypes DEF Ack, TypeOK
  <1>2. faults' \in Nat
    BY FaultStep DEF Ack, TypeOK
  <1>3. wk' \in [Workers -> WorkerStates]
    BY StopStep DEF Ack
  <1> QED BY <1>1, <1>2, <1>3 DEF TypeOK, Ack, api

LEMMA RenewType ==
    ASSUME TypeOK, NEW w \in Workers, Renew(w)
    PROVE  TypeOK'
  <1> DEFINE x == [wk[w] EXCEPT !.beating = FALSE, !.lost = TRUE]
             l == [lease[wk[w].run] EXCEPT !.live = TRUE]
  <1>1. x \in WorkerStates
    BY WorkerTypes DEF WorkerStates
  <1>2. l \in Leases
    <2>1. lease[wk[w].run] \in Leases
      BY WorkerTypes DEF Leases, TypeOK
    <2> QED BY <2>1 DEF Leases
  <1>3. \/ lease' = [lease EXCEPT ![wk[w].run] = l] /\ UNCHANGED wk
        \/ wk' = [wk EXCEPT ![w] = x] /\ UNCHANGED lease
    BY DEF Renew
  <1>4. wk' \in [Workers -> WorkerStates]
    BY <1>1, <1>3, WorkerStep DEF TypeOK
  <1>5. lease' \in [Runs -> Leases]
    BY <1>2, <1>3, LeaseStep, WorkerTypes DEF TypeOK, Leases
  <1> HIDE DEF x, l
  <1> QED BY <1>4, <1>5 DEF TypeOK, Renew, Leases, transport, api

LEMMA RenewalDiesType ==
    ASSUME TypeOK, NEW w \in Workers, RenewalDies(w)
    PROVE  TypeOK'
  <1> DEFINE x == [wk[w] EXCEPT !.beating = FALSE]
  <1>1. x \in WorkerStates
    BY WorkerTypes, StatusNames DEF WorkerStates, RenewalDies
  <1>2. wk' = [wk EXCEPT ![w] = x]
    BY DEF RenewalDies
  <1>3. wk' \in [Workers -> WorkerStates]
    BY <1>1, <1>2, WorkerStep
  <1> HIDE DEF x
  <1> QED BY <1>3, WorkerTypes, FaultStep DEF TypeOK, RenewalDies, transport, api

LEMMA RaiseType ==
    ASSUME TypeOK, NEW w \in Workers, Raise(w)
    PROVE  TypeOK'
  <1>1. lease' \in [Runs -> Leases]
    BY ReleaseLeaseStep DEF Raise, TypeOK, Leases
  <1>2. faults' \in Nat
    BY FaultStep DEF Raise
  <1>3. wk' \in [Workers -> WorkerStates]
    BY StopStep DEF Raise
  <1> QED BY <1>1, <1>2, <1>3 DEF TypeOK, Raise, Leases, transport, api

LEMMA CrashType ==
    ASSUME TypeOK, NEW w \in Workers, Crash(w)
    PROVE  TypeOK'
  BY StopStep, FaultStep DEF TypeOK, Crash, transport, api

LEMMA ScanType ==
    ASSUME TypeOK, NEW s \in Schedulers, Scan(s)
    PROVE  TypeOK'
  <1> DEFINE t == {<<r, IF HasLease(r) THEN lease[r].id ELSE 0>> :
                      r \in {q \in Runs : Stale(q)}}
             x == [sched[s] EXCEPT !.pc = "next", !.todo = t]
  <1>1. \A r \in Runs : lease[r].id \in Nat
    BY DEF TypeOK
  <1>2. t \subseteq Runs \X Nat
    BY <1>1
  <1> HIDE DEF t
  <1>3. x \in SchedStates
    BY <1>2, SchedTypes DEF SchedStates
  <1>4. sched' = [sched EXCEPT ![s] = x]
    BY DEF Scan, t
  <1>5. sched' \in [Schedulers -> SchedStates]
    BY <1>3, <1>4, SchedStep
  <1> HIDE DEF x
  <1> QED BY <1>5 DEF TypeOK, Scan, transport, api

LEMMA ReconcileReadType ==
    ASSUME TypeOK, NEW s \in Schedulers, ReconcileRead(s)
    PROVE  TypeOK'
  <1> DEFINE x(c) == [sched[s] EXCEPT
                        !.todo = sched[s].todo \ {c}, !.run = c[1], !.ref = c[2],
                        !.seen = status[c[1]], !.count = retries[c[1]],
                        !.pc = IF status[c[1]] \in Terminal THEN "next" ELSE "commit"]
  <1>1. PICK c \in sched[s].todo : sched' = [sched EXCEPT ![s] = x(c)]
    BY DEF ReconcileRead
  <1>2. c \in Runs \X Nat
    BY SchedTypes
  <1>3. c[1] \in Runs /\ c[2] \in Nat
    BY <1>2
  <1>4. status[c[1]] \in Statuses /\ retries[c[1]] \in Nat
    BY <1>3 DEF TypeOK
  <1>5. x(c) \in SchedStates
    BY <1>3, <1>4, SchedTypes DEF SchedStates
  <1>6. sched' \in [Schedulers -> SchedStates]
    BY <1>1, <1>5, SchedStep
  <1> HIDE DEF x
  <1> QED BY <1>6 DEF TypeOK, ReconcileRead, transport, api

LEMMA ReconcileCommitType ==
    ASSUME TypeOK, NEW s \in Schedulers, ReconcileCommit(s)
    PROVE  TypeOK'
  <1> DEFINE x == [sched[s] EXCEPT !.pc = "requeue"]
             y == [sched[s] EXCEPT !.pc = "next"]
  <1>1. x \in SchedStates /\ y \in SchedStates
    BY SchedTypes DEF SchedStates
  <1>2. sched' = [sched EXCEPT ![s] = x] \/ sched' = [sched EXCEPT ![s] = y]
    BY DEF ReconcileCommit
  <1>3. sched' \in [Schedulers -> SchedStates]
    BY <1>1, <1>2, SchedStep
  <1>4. lease' \in [Runs -> Leases]
    BY DropLeaseStep DEF ReconcileCommit
  <1>5. status' \in [Runs -> Statuses]
    BY SchedTypes, SetStatusStep, StatusStep, StatusNames DEF ReconcileCommit
  <1>6. retries' \in [Runs -> Nat]
    BY SchedTypes DEF ReconcileCommit, TypeOK
  <1> HIDE DEF x, y
  <1> QED BY <1>3, <1>4, <1>5, <1>6 DEF TypeOK, ReconcileCommit, Leases, transport, api

LEMMA RequeueType ==
    ASSUME TypeOK, NEW s \in Schedulers, Requeue(s)
    PROVE  TypeOK'
  <1> DEFINE x == [sched[s] EXCEPT !.pc = "next"]
  <1>1. x \in SchedStates
    BY SchedTypes DEF SchedStates
  <1>2. sched' = [sched EXCEPT ![s] = x]
    BY DEF Requeue
  <1>3. sched' \in [Schedulers -> SchedStates]
    BY <1>1, <1>2, SchedStep
  <1>4. stream' \in [Runs -> Nat]
    BY PublishStep, SchedTypes DEF Requeue, TypeOK
  <1>5. faults' \in Nat
    BY FaultStep DEF Requeue, TypeOK
  <1> HIDE DEF x
  <1> QED BY <1>3, <1>4, <1>5 DEF TypeOK, Requeue, api

LEMMA ScanEndType ==
    ASSUME TypeOK, NEW s \in Schedulers, ScanEnd(s) \/ SchedCrash(s)
    PROVE  TypeOK'
  <1>1. sched' \in [Schedulers -> SchedStates]
    BY IdleTypes, SchedStep DEF ScanEnd, SchedCrash
  <1>2. faults' \in Nat
    BY FaultStep DEF ScanEnd, SchedCrash, TypeOK
  <1> QED BY <1>1, <1>2 DEF TypeOK, ScanEnd, SchedCrash, transport, api

LEMMA ReclaimType ==
    ASSUME TypeOK, NEW s \in Schedulers, NEW r \in Runs, NEW w \in Workers,
           Reclaim(s, r, w)
    PROVE  TypeOK'
  <1>1. stream' \in [Runs -> Nat]
    BY PublishStep DEF Reclaim
  <1>2. pel' \in [Runs -> [Workers -> Nat]]
    <2> DEFINE n == pel[r][w] - 1
    <2>1. pel[r][w] \in Nat
      BY DEF TypeOK
    <2>2. n \in Nat
      BY <2>1 DEF Reclaim
    <2>3. pel' = [pel EXCEPT ![r][w] = n] \/ pel' = pel
      BY DEF Reclaim
    <2> HIDE DEF n
    <2>4. [pel[r] EXCEPT ![w] = n] \in [Workers -> Nat]
      BY <2>2 DEF TypeOK
    <2>5. [pel EXCEPT ![r][w] = n] = [pel EXCEPT ![r] = [pel[r] EXCEPT ![w] = n]]
      OBVIOUS
    <2> QED BY <2>3, <2>4, <2>5 DEF TypeOK
  <1>3. faults' \in Nat
    BY FaultStep DEF Reclaim, TypeOK
  <1> QED BY <1>1, <1>2, <1>3 DEF TypeOK, Reclaim, api

LEMMA TypeStep == ASSUME TypeOK, [Next]_vars PROVE TypeOK'
  <1>1. CASE \E r \in Runs : \/ Submit(r) \/ Enqueue(r) \/ CancelRead(r)
                             \/ CancelWrite(r) \/ Expire(r)
    BY <1>1, SubmitType, EnqueueType, CancelReadType, CancelWriteType, ExpireType
  <1>2. CASE \E w \in Workers : \E r \in Runs : Dequeue(w, r)
    BY <1>2, DequeueType
  <1>3. CASE \E w \in Workers : Turn(w)
    BY <1>3, CheckType, AcquireType, LoadType, StartType, AskApprovalType,
       ApprovalOverType, CancelSeenType, FinishType, PersistTerminalType, SettleType,
       EventlessExitType, LeaseFenceType, CloseType, CloseCommitType, AckType DEF Turn
  <1>4. CASE \E w \in Workers : Renew(w) \/ RenewalDies(w) \/ Raise(w) \/ Crash(w)
    BY <1>4, RenewType, RenewalDiesType, RaiseType, CrashType
  <1>5. CASE \E s \in Schedulers : \E r \in Runs, w \in Workers : Reclaim(s, r, w)
    BY <1>5, ReclaimType
  <1>6. CASE \E s \in Schedulers : Recover(s) \/ SchedCrash(s)
    BY <1>6, ScanType, ReconcileReadType, ReconcileCommitType, RequeueType,
       ScanEndType DEF Recover
  <1>7. CASE UNCHANGED vars
    BY <1>7 DEF vars, TypeOK
  <1> QED BY <1>1, <1>2, <1>3, <1>4, <1>5, <1>6, <1>7 DEF Next

\* The types of the whole module hold in every behaviour.
THEOREM TypeCorrect == Spec => []TypeOK
  <1>1. Init => TypeOK
    BY TypeInit
  <1>2. TypeOK /\ [Next]_vars => TypeOK'
    BY TypeStep
  <1> QED BY <1>1, <1>2, PTL DEF Spec

-----------------------------------------------------------------------------
(* The retry budget.                                                        *)

\* The schedulers that have read a count below the budget and not committed yet.
Spending(r) == {s \in Schedulers : /\ sched[s].pc = "commit" /\ sched[s].run = r
                                  /\ HasBudget(sched[s].count)}

\* Every retry already granted is counted before it is written.
BudgetInv ==
    \A r \in Runs :
        retries[r] + Cardinality(Spending(r)) < MaxRetries + Cardinality(Schedulers)

LEMMA SpendingFinite ==
    \A r : /\ IsFiniteSet(Spending(r)) /\ Cardinality(Spending(r)) \in Nat
          /\ Cardinality(Spending(r)) <= Cardinality(Schedulers)
          /\ Cardinality(Schedulers) \in Nat \ {0}
  <1> TAKE r
  <1>1. Spending(r) \subseteq Schedulers
    BY DEF Spending
  <1>2. IsFiniteSet(Schedulers) /\ Schedulers # {}
    BY DurableRunAssumption
  <1>3. /\ IsFiniteSet(Spending(r))
        /\ Cardinality(Spending(r)) <= Cardinality(Schedulers)
    BY <1>1, <1>2, FS_Subset
  <1> QED BY <1>2, <1>3, FS_CardinalityType, FS_EmptySet

\* The scheduler s moves, alone, to a place where it spends nothing.
LeavesCommit(s) ==
    /\ sched'[s].pc # "commit"
    /\ \A q \in Schedulers \ {s} : sched'[q] = sched[q]

LEMMA LeavesCommitSpends ==
    ASSUME NEW s \in Schedulers, LeavesCommit(s), NEW r
    PROVE  Spending(r)' \subseteq Spending(r) \ {s}
  BY DEF Spending, LeavesCommit

LEMMA ScanLeaves == ASSUME TypeOK, NEW s \in Schedulers, Scan(s) PROVE LeavesCommit(s)
  <1>1. \A q \in Schedulers \ {s} : sched'[q] = sched[q]
    BY DEF Scan, TypeOK
  <1>2. sched'[s].pc = "next"
    BY SchedTypes DEF Scan, TypeOK, SchedStates
  <1> QED BY <1>1, <1>2 DEF LeavesCommit

LEMMA CommitLeaves ==
    ASSUME TypeOK, NEW s \in Schedulers, ReconcileCommit(s) \/ Requeue(s)
    PROVE  LeavesCommit(s)
  <1> DEFINE x(pc) == [sched[s] EXCEPT !.pc = pc]
  <1>1. PICK pc \in {"next", "requeue"} : sched' = [sched EXCEPT ![s] = x(pc)]
    BY DEF ReconcileCommit, Requeue
  <1>2. x(pc).pc = pc
    BY SchedTypes DEF SchedStates
  <1>3. sched'[s] = x(pc)
    BY <1>1 DEF TypeOK
  <1>4. \A q \in Schedulers \ {s} : sched'[q] = sched[q]
    BY <1>1 DEF TypeOK
  <1> QED BY <1>2, <1>3, <1>4 DEF LeavesCommit

LEMMA StopLeaves ==
    ASSUME TypeOK, NEW s \in Schedulers, ScanEnd(s) \/ SchedCrash(s)
    PROVE  LeavesCommit(s)
  <1>1. sched' = [sched EXCEPT ![s] = IdleSched]
    BY DEF ScanEnd, SchedCrash
  <1> QED BY <1>1 DEF LeavesCommit, IdleSched, TypeOK

\* Steps that spend nothing and put nobody in a position to spend keep BudgetInv.
LEMMA BudgetKept ==
    ASSUME TypeOK, BudgetInv, UNCHANGED retries,
           \A r \in Runs : Spending(r)' \subseteq Spending(r)
    PROVE  BudgetInv'
  <1> SUFFICES ASSUME NEW r \in Runs
               PROVE  retries[r] + Cardinality(Spending(r)')
                         < MaxRetries + Cardinality(Schedulers)
    BY DEF BudgetInv
  <1>1. Cardinality(Spending(r)') <= Cardinality(Spending(r))
    BY SpendingFinite, FS_Subset
  <1>2. Cardinality(Spending(r)') \in Nat
    BY SpendingFinite, FS_Subset, FS_CardinalityType
  <1>3. retries[r] + Cardinality(Spending(r)) < MaxRetries + Cardinality(Schedulers)
    BY DEF BudgetInv
  <1>4. retries[r] \in Nat /\ MaxRetries \in Nat
    BY DurableRunAssumption DEF TypeOK
  <1> QED BY <1>1, <1>2, <1>3, <1>4, SpendingFinite

LEMMA BudgetInit == ASSUME Init PROVE BudgetInv
  <1> SUFFICES ASSUME NEW r \in Runs
               PROVE  retries[r] + Cardinality(Spending(r))
                         < MaxRetries + Cardinality(Schedulers)
    BY DEF BudgetInv
  <1>1. Spending(r) = {}
    BY DEF Init, Spending, IdleSched
  <1>2. Cardinality(Spending(r)) = 0
    BY <1>1, FS_EmptySet
  <1>3. retries[r] = 0
    BY DEF Init
  <1> QED BY <1>2, <1>3, SpendingFinite, DurableRunAssumption

\* Reading a count below the budget adds one scheduler to those that spend: still
\* at most all of them, and the count that was read is the current one.
LEMMA BudgetRead ==
    ASSUME TypeOK, BudgetInv, NEW s \in Schedulers, ReconcileRead(s)
    PROVE  BudgetInv'
  <1> DEFINE x(c) == [sched[s] EXCEPT
                        !.todo = sched[s].todo \ {c}, !.run = c[1], !.ref = c[2],
                        !.seen = status[c[1]], !.count = retries[c[1]],
                        !.pc = IF status[c[1]] \in Terminal THEN "next" ELSE "commit"]
  <1>1. PICK c \in sched[s].todo : sched' = [sched EXCEPT ![s] = x(c)]
    BY DEF ReconcileRead
  <1>2. UNCHANGED retries
    BY DEF ReconcileRead
  <1>3. /\ x(c).run = c[1] /\ x(c).count = retries[c[1]]
        /\ s \notin Spending(c[1])
    BY SchedTypes DEF SchedStates, ReconcileRead, Spending
  <1>4. sched'[s] = x(c)
    BY <1>1 DEF TypeOK
  <1> HIDE DEF x
  <1> SUFFICES ASSUME NEW r \in Runs
               PROVE  retries[r] + Cardinality(Spending(r)')
                         < MaxRetries + Cardinality(Schedulers)
    BY <1>2 DEF BudgetInv
  <1>5. retries[r] \in Nat /\ MaxRetries \in Nat
    BY DurableRunAssumption DEF TypeOK
  <1>6. CASE s \in Spending(r)'
    <2>1. retries[r] < MaxRetries
      BY <1>3, <1>4, <1>6 DEF Spending, HasBudget
    <2>2. Spending(r)' \subseteq Schedulers
      BY DEF Spending
    <2>3. /\ Cardinality(Spending(r)') \in Nat
          /\ Cardinality(Spending(r)') <= Cardinality(Schedulers)
      BY <2>2, FS_Subset, FS_CardinalityType, DurableRunAssumption
    <2>4. Cardinality(Schedulers) \in Nat
      BY SpendingFinite
    <2> QED BY <1>5, <2>1, <2>3, <2>4
  <1>7. CASE s \notin Spending(r)'
    <2>1. Spending(r)' \subseteq Spending(r)
      <3>1. \A q \in Schedulers \ {s} : sched'[q] = sched[q]
        BY <1>1 DEF TypeOK
      <3> QED BY <1>7, <3>1 DEF Spending
    <2>2. /\ Cardinality(Spending(r)') \in Nat
          /\ Cardinality(Spending(r)') <= Cardinality(Spending(r))
      BY <2>1, SpendingFinite, FS_Subset, FS_CardinalityType
    <2>3. retries[r] + Cardinality(Spending(r)) < MaxRetries + Cardinality(Schedulers)
      BY DEF BudgetInv
    <2> QED BY <1>5, <2>2, <2>3, SpendingFinite
  <1> QED BY <1>6, <1>7

\* A commit turns one scheduler that may spend into one retry spent.
LEMMA BudgetCommit ==
    ASSUME TypeOK, BudgetInv, NEW s \in Schedulers, ReconcileCommit(s)
    PROVE  BudgetInv'
  <1>3. \A r \in Runs : Spending(r)' \subseteq Spending(r) \ {s}
    BY CommitLeaves, LeavesCommitSpends
  <1>4. CASE ~ HasBudget(sched[s].count)
    <2>1. UNCHANGED retries
      BY <1>4 DEF ReconcileCommit
    <2> QED BY <1>3, <2>1, BudgetKept
  <1>5. CASE HasBudget(sched[s].count)
    <2> DEFINE r0 == sched[s].run
    <2>1. r0 \in Runs /\ s \in Spending(r0)
      BY <1>5, SchedTypes DEF ReconcileCommit, Spending
    <2>2. retries' = [retries EXCEPT ![r0] = @ + 1]
      BY <1>5 DEF ReconcileCommit
    <2> SUFFICES ASSUME NEW r \in Runs
                 PROVE  retries'[r] + Cardinality(Spending(r)')
                           < MaxRetries + Cardinality(Schedulers)
      BY DEF BudgetInv
    <2>3. /\ retries[r] \in Nat /\ MaxRetries \in Nat
          /\ retries[r] + Cardinality(Spending(r)) < MaxRetries + Cardinality(Schedulers)
      BY DurableRunAssumption DEF TypeOK, BudgetInv
    <2>4. IsFiniteSet(Spending(r) \ {s})
      BY SpendingFinite, FS_Subset
    <2>5. /\ Cardinality(Spending(r)') \in Nat
          /\ Cardinality(Spending(r)') <= Cardinality(Spending(r) \ {s})
      BY <1>3, <2>4, FS_Subset, FS_CardinalityType
    <2>6. CASE r = r0
      <3>1. Cardinality(Spending(r) \ {s}) = Cardinality(Spending(r)) - 1
        BY <2>1, <2>6, SpendingFinite, FS_RemoveElement
      <3>2. retries'[r] = retries[r] + 1
        BY <2>1, <2>2, <2>6 DEF TypeOK
      <3> QED BY <2>3, <2>5, <3>1, <3>2, SpendingFinite
    <2>7. CASE r # r0
      <3>1. retries'[r] = retries[r]
        BY <2>2, <2>7 DEF TypeOK
      <3>2. Cardinality(Spending(r) \ {s}) <= Cardinality(Spending(r))
        BY SpendingFinite, FS_Subset
      <3>3. Cardinality(Spending(r) \ {s}) \in Nat
        BY <2>4, FS_CardinalityType
      <3> QED BY <2>3, <2>5, <3>1, <3>2, <3>3, SpendingFinite
    <2> QED BY <2>6, <2>7
  <1> QED BY <1>4, <1>5

LEMMA BudgetStep == ASSUME TypeOK, BudgetInv, [Next]_vars PROVE BudgetInv'
  <1>1. ASSUME UNCHANGED <<retries, sched>> PROVE BudgetInv'
    BY <1>1, BudgetKept DEF Spending
  <1>2. CASE \E r \in Runs : \/ Submit(r) \/ Enqueue(r) \/ CancelRead(r)
                             \/ CancelWrite(r) \/ Expire(r)
    BY <1>1, <1>2 DEF Submit, Enqueue, CancelRead, CancelWrite, Expire
  <1>3. CASE \E w \in Workers : \/ \E r \in Runs : Dequeue(w, r)
                                \/ Renew(w) \/ RenewalDies(w) \/ Raise(w) \/ Crash(w)
    BY <1>1, <1>3 DEF Dequeue, Renew, RenewalDies, Raise, Crash, api
  <1>4. CASE \E w \in Workers : Turn(w)
    BY <1>1, <1>4 DEF Turn, Check, Acquire, Load, Start, AskApproval, ApprovalOver,
       CancelSeen, Finish, PersistTerminal, Settle, EventlessExit, LeaseFence, Close,
       CloseCommit, Ack
  <1>5. CASE \E s \in Schedulers : \E r \in Runs, w \in Workers : Reclaim(s, r, w)
    BY <1>1, <1>5 DEF Reclaim
  <1>6. ASSUME NEW s \in Schedulers, Scan(s) \/ Requeue(s) \/ ScanEnd(s) \/ SchedCrash(s)
        PROVE  BudgetInv'
    <2>3. \A r \in Runs : Spending(r)' \subseteq Spending(r)
      BY <1>6, ScanLeaves, CommitLeaves, StopLeaves, LeavesCommitSpends
    <2>4. UNCHANGED retries
      BY <1>6 DEF Scan, Requeue, ScanEnd, SchedCrash
    <2> QED BY <2>3, <2>4, BudgetKept
  <1>7. CASE \E s \in Schedulers : Recover(s) \/ SchedCrash(s)
    BY <1>6, <1>7, BudgetRead, BudgetCommit DEF Recover
  <1>8. CASE UNCHANGED vars
    BY <1>1, <1>8 DEF vars
  <1> QED BY <1>2, <1>3, <1>4, <1>5, <1>7, <1>8 DEF Next

\* However the schedulers interleave and die, no run gets more than
\* RUN_MAX_RETRIES retries, plus one for every scheduler but one.
THEOREM RetriesBounded == Spec => []RetryBudget
  <1>1. Init => BudgetInv
    BY BudgetInit
  <1>2. TypeOK /\ BudgetInv /\ [Next]_vars => BudgetInv'
    BY BudgetStep
  <1>3. TypeOK /\ BudgetInv => RetryBudget
    BY SpendingFinite, DurableRunAssumption DEF BudgetInv, RetryBudget, TypeOK
  <1> QED BY <1>1, <1>2, <1>3, TypeCorrect, PTL DEF Spec

-----------------------------------------------------------------------------
(***************************************************************************)
(* No pending run is forgotten, for one worker and any number of runs and  *)
(* schedulers, as long as publishing succeeds and no scheduler dies        *)
(* between its commit and its publication.  A pending run is on its way    *)
(* back to the stream, or, while the worker is on it, the worker has not   *)
(* acquired it yet and holds an unacknowledged entry.                      *)
(***************************************************************************)
OneWorker == \A v, w \in Workers : v = w
Published == Faults \cap {"redis", "sched"} = {}

Republished(r) == \/ stream[r] > 0
                  \/ \E s \in Schedulers : sched[s].pc = "requeue" /\ sched[s].run = r

\* The next step of this worker, if it is no fault, makes the run running.
Early(w) == \/ wk[w].pc = "check"
            \/ wk[w].pc = "acquire" /\ wk[w].seen = "pending"

Known(r) == r \in submitting \/ HasLease(r) \/ \E w \in Workers : pel[r][w] > 0

Expected(r) == /\ \A w \in Workers : Busy(w, r) => Early(w) /\ pel[r][w] > 0
               /\ Known(r) \/ \E w \in Workers : Busy(w, r)

NotLost == \A r \in Runs : status[r] = "pending" => Republished(r) \/ Expected(r)

\* Nothing names a run before it is submitted.
Unborn(r) == /\ stream[r] = 0 /\ r \notin submitting
             /\ \A w \in Workers : pel[r][w] = 0 /\ ~ Busy(w, r)
             /\ \A s \in Schedulers :
                   /\ sched[s].pc \in {"commit", "requeue"} => sched[s].run # r
                   /\ \A c \in sched[s].todo : c[1] # r
AllUnborn == \A r \in Runs : status[r] = "none" => Unborn(r)

LiveOwned == \A r \in Runs : lease[r].live => HasLease(r)

LostInv == NotLost /\ AllUnborn /\ LiveOwned

LEMMA LostInit == ASSUME Init PROVE LostInv
  BY DEF Init, LostInv, NotLost, AllUnborn, Unborn, LiveOwned, Busy, IdleWorker, IdleSched,
         NoLease

WorkerMove(w) == Turn(w) \/ Renew(w) \/ RenewalDies(w) \/ Raise(w) \/ Crash(w)

\* A worker that is on a run leaves the stream and the schedulers alone.
LEMMA MoveLeaves ==
    ASSUME NEW w \in Workers, WorkerMove(w)
    PROVE  UNCHANGED <<stream, submitting, sched>>
  BY DEF WorkerMove, Turn, Check, Acquire, Load, Start, AskApproval, ApprovalOver,
         CancelSeen, Finish, PersistTerminal, Settle, EventlessExit, LeaseFence, Close,
         CloseCommit, Ack, Renew,
         RenewalDies, Raise, Crash, transport, api

\* It stays on its run, or becomes idle.
LEMMA MoveBusy ==
    ASSUME TypeOK, NEW w \in Workers, WorkerMove(w), NEW v \in Workers, NEW r \in Runs,
           Busy(v, r)'
    PROVE  Busy(v, r)
  <1>1. wk \in [Workers -> WorkerStates]
    BY DEF TypeOK
  <1>2. CASE Stop(w) \/ UNCHANGED wk
    BY <1>1, <1>2 DEF Stop, Busy, IdleWorker
  <1>3. ASSUME wk'[w].run = wk[w].run, wk[w].pc = "idle" => wk'[w].pc = "idle",
               \A u \in Workers \ {w} : wk'[u] = wk[u]
        PROVE  Busy(v, r)
    BY <1>3 DEF Busy
  <1>4. CASE Check(w) \/ Acquire(w) \/ Load(w) \/ Start(w) \/ AskApproval(w) \/ ApprovalOver(w)
    BY <1>1, <1>3, <1>4 DEF Check, Acquire, Load, Start, AskApproval, ApprovalOver, Goto,
       WorkerStates
  <1>5. CASE Finish(w) \/ CancelSeen(w) \/ PersistTerminal(w) \/ EventlessExit(w)
    BY <1>1, <1>3, <1>5 DEF Finish, CancelSeen, PersistTerminal, EventlessExit, Goto,
       WorkerStates
  <1>9. CASE Settle(w)
    <2>1. CASE Goto(w, "close")
      BY <1>1, <1>3, <1>9, <2>1 DEF Settle, Goto, WorkerStates
    <2> QED BY <1>2, <1>9, <2>1 DEF Settle
  <1>6. CASE Close(w) \/ CloseCommit(w) \/ RenewalDies(w)
    BY <1>1, <1>3, <1>6 DEF Close, CloseCommit, RenewalDies, Goto, WorkerStates
  <1>7. CASE Renew(w)
    BY <1>1, <1>2, <1>3, <1>7 DEF Renew, WorkerStates
  <1>8. CASE LeaseFence(w) \/ Ack(w) \/ Raise(w) \/ Crash(w)
    BY <1>2, <1>8 DEF LeaseFence, Ack, Raise, Crash
  <1> QED BY <1>4, <1>5, <1>6, <1>7, <1>8, <1>9 DEF WorkerMove, Turn

\* No worker makes a run pending.
LEMMA MoveStatus ==
    ASSUME TypeOK, NEW w \in Workers, WorkerMove(w), NEW r \in Runs,
           status'[r] \in {"none", "pending"}
    PROVE  status'[r] = status[r]
  <1>1. status \in [Runs -> Statuses]
    BY DEF TypeOK
  <1>2. ASSUME NEW q \in Runs, NEW x, x \notin {"none", "pending"},
               status' = [status EXCEPT ![q] = x]
        PROVE  status'[r] = status[r]
    BY <1>1, <1>2
  <1>3. ASSUME NEW q \in Runs, NEW x, NEW seen, x \notin {"none", "pending"},
               SetStatus(q, seen, x)
        PROVE  status'[r] = status[r]
    BY <1>2, <1>3 DEF SetStatus
  <1>4. wk[w].run \in Runs
    BY WorkerTypes
  <1>5. CASE Acquire(w) \/ Start(w) \/ CloseCommit(w)
    BY <1>3, <1>4, <1>5 DEF Acquire, Start, CloseCommit
  <1>6. CASE AskApproval(w) \/ ApprovalOver(w)
    BY <1>2, <1>4, <1>6 DEF AskApproval, ApprovalOver
  <1>7. CASE PersistTerminal(w)
    <2>1. Verdict(wk[w].outcome, wk[w].seen) \notin {"none", "pending"}
      BY DEF Verdict
    <2> QED BY <1>2, <1>4, <1>7, <2>1 DEF PersistTerminal
  <1>8. CASE \/ Check(w) \/ Load(w) \/ CancelSeen(w) \/ Finish(w) \/ Settle(w)
             \/ EventlessExit(w) \/ LeaseFence(w) \/ Close(w) \/ Ack(w)
    BY <1>8 DEF Check, Load, CancelSeen, Finish, Settle, EventlessExit, LeaseFence, Close, Ack
  <1>9. CASE Renew(w) \/ RenewalDies(w) \/ Raise(w) \/ Crash(w)
    BY <1>9 DEF Renew, RenewalDies, Raise, Crash
  <1> QED BY <1>5, <1>6, <1>7, <1>8, <1>9 DEF WorkerMove, Turn

\* Entries are only acknowledged, all those of a run at once.
LEMMA MoveEntries ==
    ASSUME TypeOK, NEW w \in Workers, WorkerMove(w)
    PROVE  /\ \A r \in Runs, v \in Workers : pel'[r][v] \in {pel[r][v], 0}
           /\ \A r \in Runs : ~ Busy(w, r) => pel'[r] = pel[r]
           /\ wk[w].pc # "ack" => UNCHANGED pel
  <1>1. CASE Ack(w)
    <2>1. /\ pel \in [Runs -> [Workers -> Nat]]
          /\ wk[w].pc = "ack"
      BY <1>1 DEF TypeOK, Ack
    <2> QED BY <1>1, <2>1 DEF Ack, Busy
  <1>2. CASE ~ Ack(w)
    <2>1. UNCHANGED pel
      BY <1>2 DEF WorkerMove, Turn, Check, Acquire, Load, Start, AskApproval, ApprovalOver,
         CancelSeen, Finish, PersistTerminal, Settle, EventlessExit, LeaseFence, Close,
         CloseCommit, Renew,
         RenewalDies, Raise, Crash, transport
    <2> QED BY <2>1
  <1> QED BY <1>1, <1>2

\* A worker keeps the leases of the runs it is not on, and a live lease has an owner.
LEMMA MoveLeases ==
    ASSUME TypeOK, LiveOwned, NEW w \in Workers, WorkerMove(w)
    PROVE  /\ LiveOwned'
           /\ \A r \in Runs : HasLease(r) /\ ~ Busy(w, r) => HasLease(r)'
  <1>1. lease \in [Runs -> Leases] /\ wk[w].run \in Runs
    BY WorkerTypes DEF TypeOK, Leases
  <1>2. ASSUME UNCHANGED lease
        PROVE  LiveOwned' /\ \A r \in Runs : HasLease(r) => HasLease(r)'
    BY <1>2 DEF LiveOwned, HasLease
  <1>3. ASSUME wk[w].pc # "idle", DeleteLease(wk[w].run)
        PROVE  LiveOwned' /\ \A r \in Runs : HasLease(r) /\ ~ Busy(w, r) => HasLease(r)'
    BY <1>1, <1>3 DEF DeleteLease, LiveOwned, HasLease, Busy, Leases
  <1>4. CASE Acquire(w)
    <2> DEFINE q == wk[w].run
               l == [owner |-> w, live |-> TRUE,
                     id |-> IF HasLease(q) THEN lease[q].id ELSE lease[q].id + 1]
    <2>1. lease' = [lease EXCEPT ![q] = l] /\ l.owner = w
      BY <1>4 DEF Acquire
    <2> HIDE DEF l
    <2> QED BY <1>1, <2>1, DurableRunAssumption DEF LiveOwned, HasLease
  <1>5. CASE Renew(w)
    <2>1. CASE UNCHANGED lease
      BY <1>2, <2>1
    <2>2. CASE lease[wk[w].run].owner = w /\ lease' = [lease EXCEPT ![wk[w].run].live = TRUE]
      BY <1>1, <2>2, DurableRunAssumption DEF LiveOwned, HasLease, Leases
    <2> QED BY <1>5, <2>1, <2>2 DEF Renew
  <1>6. CASE CloseCommit(w) \/ Raise(w)
    BY <1>2, <1>3, <1>6 DEF CloseCommit, Raise, ReleaseLease
  <1>7. CASE ~ (Acquire(w) \/ Renew(w) \/ CloseCommit(w) \/ Raise(w))
    <2>1. UNCHANGED lease
      BY <1>7 DEF WorkerMove, Turn, Check, Load, Start, AskApproval, ApprovalOver, CancelSeen,
         Finish, PersistTerminal, Settle, EventlessExit, LeaseFence, Close, Ack, RenewalDies,
         Crash
    <2> QED BY <1>2, <2>1
  <1> QED BY <1>4, <1>5, <1>6, <1>7

\* A worker that has not acquired its pending run checks it, acquires it or gives
\* up, and the entry stays.
LEMMA MoveEarly ==
    ASSUME TypeOK, NEW w \in Workers, WorkerMove(w), Early(w),
           status[wk[w].run] = "pending", status'[wk[w].run] = "pending"
    PROVE  (wk'[w].pc # "idle" => Early(w)') /\ UNCHANGED pel
  <1>1. /\ wk \in [Workers -> WorkerStates]
        /\ status \in [Runs -> Statuses]
        /\ wk[w].run \in Runs
    BY WorkerTypes DEF TypeOK
  <1>2. wk[w].pc \in {"check", "acquire"} /\ UNCHANGED pel
    BY MoveEntries DEF Early
  <1>3. CASE Check(w)
    BY <1>1, <1>3 DEF Check, Early, Terminal, WorkerStates
  <1>4. CASE Acquire(w)
    <2>1. wk[w].seen = "pending"
      BY <1>4 DEF Acquire, Early
    <2>2. status' = [status EXCEPT ![wk[w].run] = "running"]
      BY <1>4, <2>1 DEF Acquire, SetStatus
    <2> QED BY <1>1, <2>2
  <1>5. CASE Renew(w) \/ RenewalDies(w)
    BY <1>1, <1>2, <1>5 DEF Renew, RenewalDies, Early, WorkerStates
  <1>6. CASE Raise(w) \/ Crash(w) \/ LeaseFence(w) \/ Ack(w)
    BY <1>1, <1>2, <1>6 DEF Raise, Crash, LeaseFence, Ack, Stop, IdleWorker
  <1>7. CASE \/ Load(w) \/ Start(w) \/ AskApproval(w) \/ ApprovalOver(w) \/ CancelSeen(w)
             \/ Finish(w) \/ PersistTerminal(w) \/ Settle(w) \/ EventlessExit(w) \/ Close(w)
             \/ CloseCommit(w)
    BY <1>2, <1>7 DEF Load, Start, AskApproval, ApprovalOver, CancelSeen, Finish, PersistTerminal, Settle,
       EventlessExit, Close, CloseCommit
  <1> QED BY <1>2, <1>3, <1>4, <1>5, <1>6, <1>7 DEF WorkerMove, Turn

\* Whatever the only worker does, and wherever it dies, the invariant holds.
LEMMA LostMove ==
    ASSUME TypeOK, LostInv, OneWorker, NEW w \in Workers, WorkerMove(w)
    PROVE  LostInv'
  <1>1. UNCHANGED <<stream, submitting, sched>>
    BY MoveLeaves
  <1>2. ASSUME NEW r \in Runs, status'[r] = "none" PROVE Unborn(r)'
    <2>1. Unborn(r)
      BY <1>2, MoveStatus DEF LostInv, AllUnborn
    <2>2. \A v \in Workers : pel'[r][v] = 0 /\ ~ Busy(v, r)'
      BY <2>1, MoveBusy, MoveEntries DEF Unborn
    <2> QED BY <1>1, <2>1, <2>2 DEF Unborn
  <1>3. ASSUME NEW r \in Runs, status'[r] = "pending", ~ Republished(r)'
        PROVE  Expected(r)'
    <2>1. status[r] = "pending" /\ ~ Republished(r)
      BY <1>1, <1>3, MoveStatus DEF Republished
    <2>2. Expected(r)
      BY <2>1 DEF LostInv, NotLost
    <2>3. CASE Busy(w, r)
      <3>1. wk[w].run = r /\ Early(w) /\ pel[r][w] > 0
        BY <2>2, <2>3 DEF Expected, Busy
      <3>2. (wk'[w].pc # "idle" => Early(w)') /\ UNCHANGED pel
        BY <1>3, <2>1, <3>1, MoveEarly
      <3>3. \A v \in Workers : Busy(v, r)' => Early(v)' /\ pel'[r][v] > 0
        BY <3>1, <3>2 DEF OneWorker, Busy
      <3>4. Known(r)'
        BY <3>1, <3>2 DEF Known
      <3> QED BY <3>3, <3>4 DEF Expected
    <2>4. CASE ~ Busy(w, r)
      <3>1. \A v \in Workers : ~ Busy(v, r)
        BY <2>4 DEF OneWorker
      <3>2. \A v \in Workers : ~ Busy(v, r)'
        BY <3>1, MoveBusy
      <3>3. Known(r)
        BY <2>2, <3>1 DEF Expected
      <3>4. Known(r)'
        BY <1>1, <2>4, <3>3, MoveEntries, MoveLeases DEF Known, LostInv
      <3> QED BY <3>2, <3>4 DEF Expected
    <2> QED BY <2>3, <2>4
  <1>4. LiveOwned'
    BY MoveLeases DEF LostInv
  <1> QED BY <1>2, <1>3, <1>4 DEF LostInv, NotLost, AllUnborn

-----------------------------------------------------------------------------
\* What a step that leaves the workers alone may do to a run without losing it.
LEMMA LostKept ==
    ASSUME TypeOK, LostInv, NEW r \in Runs, UNCHANGED <<wk, pel>>,
           status'[r] = "pending" => status[r] = "pending",
           Republished(r) => Republished(r)',
           Known(r) => Known(r)' \/ Republished(r)'
    PROVE  status'[r] = "pending" => Republished(r)' \/ Expected(r)'
  BY DEF LostInv, NotLost, Expected, Busy, Early

LEMMA LostSubmit ==
    ASSUME TypeOK, LostInv, NEW q \in Runs, Submit(q)
    PROVE  LostInv'
  <1>1. /\ UNCHANGED <<lease, stream, pel, wk, sched>>
        /\ submitting' = submitting \union {q}
        /\ status \in [Runs -> Statuses]
        /\ status' = [status EXCEPT ![q] = "pending"]
        /\ status[q] = "none"
    BY DEF Submit, TypeOK
  <1>2. Unborn(q)
    BY <1>1 DEF LostInv, AllUnborn
  <1>3. Expected(q)'
    BY <1>1, <1>2 DEF Expected, Known, Unborn, Busy
  <1>4. ASSUME NEW r \in Runs \ {q}, status'[r] = "pending"
        PROVE  Republished(r)' \/ Expected(r)'
    BY <1>1, <1>4, LostKept DEF Republished, Known, HasLease
  <1>5. \A r \in Runs : status'[r] = "none" => Unborn(r)'
    <2> SUFFICES ASSUME NEW r \in Runs, status'[r] = "none" PROVE Unborn(r)'
      OBVIOUS
    <2>1. r # q /\ status[r] = "none"
      BY <1>1
    <2>2. Unborn(r)
      BY <2>1 DEF LostInv, AllUnborn
    <2> QED BY <1>1, <2>1, <2>2 DEF Unborn, Busy
  <1>6. LiveOwned'
    BY <1>1 DEF LostInv, LiveOwned, HasLease
  <1> QED BY <1>3, <1>4, <1>5, <1>6 DEF LostInv, NotLost, AllUnborn

LEMMA LostEnqueue ==
    ASSUME TypeOK, LostInv, Published, NEW q \in Runs, Enqueue(q)
    PROVE  LostInv'
  <1>1. /\ UNCHANGED <<status, lease, pel, wk, sched>>
        /\ q \in submitting /\ submitting' = submitting \ {q}
        /\ stream \in [Runs -> Nat]
        /\ \/ stream' = [stream EXCEPT ![q] = @ + 1]
           \/ /\ UNCHANGED stream
              /\ lease[q].live \/ \E w \in Workers : pel[q][w] > 0
    BY DEF Enqueue, TypeOK, Published, Fault
  <1>2. \A r \in Runs : Republished(r) => Republished(r)'
    BY <1>1 DEF Republished
  <1>3. \A r \in Runs : Known(r) => Known(r)' \/ Republished(r)'
    <2>1. Known(q)' \/ Republished(q)'
      BY <1>1 DEF Known, Republished, LostInv, LiveOwned, HasLease
    <2>2. \A r \in Runs \ {q} : Known(r) => Known(r)'
      BY <1>1 DEF Known, HasLease
    <2> QED BY <2>1, <2>2
  <1>4. \A r \in Runs : status'[r] = "pending" => Republished(r)' \/ Expected(r)'
    BY <1>1, <1>2, <1>3, LostKept
  <1>5. \A r \in Runs : status'[r] = "none" => Unborn(r)'
    <2> SUFFICES ASSUME NEW r \in Runs, status[r] = "none" PROVE Unborn(r)'
      BY <1>1
    <2>1. Unborn(r)
      BY DEF LostInv, AllUnborn
    <2>2. r # q
      BY <1>1, <2>1 DEF Unborn
    <2> QED BY <1>1, <2>1, <2>2 DEF Unborn, Busy
  <1>6. LiveOwned'
    BY <1>1 DEF LostInv, LiveOwned, HasLease
  <1> QED BY <1>4, <1>5, <1>6 DEF LostInv, NotLost, AllUnborn

\* The other steps of the API and the clock.
LEMMA LostApi ==
    ASSUME TypeOK, LostInv, NEW q \in Runs, CancelRead(q) \/ CancelWrite(q) \/ Expire(q)
    PROVE  LostInv'
  <1>1. /\ UNCHANGED <<stream, pel, wk, sched, submitting>>
        /\ status \in [Runs -> Statuses] /\ lease \in [Runs -> Leases]
        /\ UNCHANGED status \/ status' = [status EXCEPT ![q] = "cancelled"]
        /\ UNCHANGED lease \/ lease' = [lease EXCEPT ![q].live = FALSE]
    BY DEF CancelRead, CancelWrite, Expire, TypeOK, Leases, transport, api
  <1>2. \A r \in Runs : HasLease(r)' = HasLease(r)
    BY <1>1 DEF HasLease, Leases
  <1>3. \A r \in Runs : status'[r] \in {"none", "pending"} => status'[r] = status[r]
    BY <1>1
  <1>4. \A r \in Runs : status'[r] = "pending" => Republished(r)' \/ Expected(r)'
    BY <1>1, <1>2, <1>3, LostKept DEF Republished, Known
  <1>5. \A r \in Runs : status'[r] = "none" => Unborn(r)'
    BY <1>1, <1>3 DEF LostInv, AllUnborn, Unborn, Busy
  <1>6. LiveOwned'
    BY <1>1, <1>2 DEF LostInv, LiveOwned, Leases
  <1> QED BY <1>4, <1>5, <1>6 DEF LostInv, NotLost, AllUnborn

LEMMA LostDequeue ==
    ASSUME TypeOK, LostInv, OneWorker, NEW w \in Workers, NEW q \in Runs, Dequeue(w, q)
    PROVE  LostInv'
  <1> DEFINE x == [IdleWorker EXCEPT !.pc = "check", !.run = q]
  <1>1. /\ UNCHANGED <<status, lease, sched, submitting>>
        /\ wk[w].pc = "idle" /\ wk' = [wk EXCEPT ![w] = x]
        /\ stream[q] > 0 /\ stream' = [stream EXCEPT ![q] = @ - 1]
        /\ pel' = [pel EXCEPT ![q][w] = @ + 1]
        /\ stream \in [Runs -> Nat] /\ pel \in [Runs -> [Workers -> Nat]]
        /\ wk \in [Workers -> WorkerStates]
    BY DEF Dequeue, Deliver, TypeOK, api
  <1>2. x.pc = "check" /\ x.run = q
    BY DEF IdleWorker
  <1> HIDE DEF x
  <1>3. \A v \in Workers : v = w
    BY DEF OneWorker
  <1>4. Expected(q)'
    BY <1>1, <1>2, <1>3 DEF Expected, Early, Known
  <1>5. \A r \in Runs \ {q}, v \in Workers : ~ Busy(v, r) /\ ~ Busy(v, r)'
    BY <1>1, <1>2, <1>3 DEF Busy
  <1>6. ASSUME NEW r \in Runs \ {q}, status'[r] = "pending"
        PROVE  Republished(r)' \/ Expected(r)'
    <2>1. Republished(r) \/ Known(r)
      BY <1>1, <1>5, <1>6 DEF LostInv, NotLost, Expected
    <2>2. Republished(r) => Republished(r)'
      BY <1>1 DEF Republished
    <2>3. Known(r) => Known(r)'
      BY <1>1 DEF Known, HasLease
    <2> QED BY <1>5, <2>1, <2>2, <2>3 DEF Expected
  <1>7. ASSUME NEW r \in Runs, status'[r] = "none" PROVE Unborn(r)'
    <2>1. Unborn(r)
      BY <1>1, <1>7 DEF LostInv, AllUnborn
    <2>2. r # q
      BY <1>1, <2>1 DEF Unborn
    <2> QED BY <1>1, <1>5, <2>1, <2>2 DEF Unborn
  <1>8. LiveOwned'
    BY <1>1 DEF LostInv, LiveOwned, HasLease
  <1> QED BY <1>4, <1>6, <1>7, <1>8 DEF LostInv, NotLost, AllUnborn

-----------------------------------------------------------------------------
\* A scheduler that is not about to publish takes or drops a snapshot.
LEMMA LostScan ==
    ASSUME TypeOK, LostInv, NEW s \in Schedulers, Scan(s) \/ ReconcileRead(s) \/ ScanEnd(s)
    PROVE  LostInv'
  <1>1. /\ UNCHANGED <<status, lease, stream, pel, wk, submitting>>
        /\ sched \in [Schedulers -> SchedStates]
        /\ sched[s].pc \in {"idle", "next"}
        /\ \A t \in Schedulers \ {s} : sched'[t] = sched[t]
    BY DEF Scan, ReconcileRead, ScanEnd, TypeOK, transport, api
  <1>2. \A r \in Runs : Republished(r) => Republished(r)'
    BY <1>1 DEF Republished
  <1>3. \A r \in Runs : Known(r) => Known(r)'
    BY <1>1 DEF Known, HasLease
  <1>4. \A r \in Runs : status'[r] = "pending" => Republished(r)' \/ Expected(r)'
    BY <1>1, <1>2, <1>3, LostKept
  <1>5. ASSUME NEW r \in Runs, status[r] = "none", Unborn(r)
        PROVE  /\ sched'[s].pc \in {"commit", "requeue"} => sched'[s].run # r
               /\ \A c \in sched'[s].todo : c[1] # r
    <2>1. CASE Scan(s)
      <3> DEFINE todo == {<<p, IF HasLease(p) THEN lease[p].id ELSE 0>> :
                             p \in {q \in Runs : Stale(q)}}
      <3>1. sched' = [sched EXCEPT ![s].pc = "next", ![s].todo = todo]
        BY <2>1 DEF Scan
      <3>2. ~ Stale(r)
        BY <1>5 DEF Stale, Executing
      <3>3. \A c \in todo : c[1] # r
        BY <3>2
      <3> HIDE DEF todo
      <3> QED BY <1>1, <3>1, <3>3 DEF SchedStates
    <2>2. CASE ReconcileRead(s)
      <3>1. PICK c \in sched[s].todo :
               sched' = [sched EXCEPT ![s] =
                            [@ EXCEPT !.todo = sched[s].todo \ {c}, !.run = c[1],
                                      !.ref = c[2], !.seen = status[c[1]],
                                      !.count = retries[c[1]],
                                      !.pc = IF status[c[1]] \in Terminal
                                             THEN "next" ELSE "commit"]]
        BY <2>2 DEF ReconcileRead
      <3>2. sched'[s].run = c[1] /\ sched'[s].todo = sched[s].todo \ {c}
        BY <1>1, <3>1 DEF SchedStates
      <3> QED BY <1>5, <3>2 DEF Unborn
    <2>3. CASE ScanEnd(s)
      <3>1. sched'[s] = IdleSched
        BY <1>1, <2>3 DEF ScanEnd
      <3> QED BY <3>1 DEF IdleSched
    <2> QED BY <2>1, <2>2, <2>3
  <1>6. \A r \in Runs : status'[r] = "none" => Unborn(r)'
    BY <1>1, <1>5 DEF LostInv, AllUnborn, Unborn, Busy
  <1>7. LiveOwned'
    BY <1>1 DEF LostInv, LiveOwned, HasLease
  <1> QED BY <1>4, <1>6, <1>7 DEF LostInv, NotLost, AllUnborn

\* A run that recovery makes pending is about to be published by it.
LEMMA LostCommit ==
    ASSUME TypeOK, LostInv, NEW s \in Schedulers, ReconcileCommit(s)
    PROVE  LostInv'
  <1>0. PICK q \in Runs : sched[s].run = q
    BY SchedTypes
  <1>1. /\ UNCHANGED <<stream, pel, wk, submitting>>
        /\ sched \in [Schedulers -> SchedStates]
        /\ status \in [Runs -> Statuses] /\ lease \in [Runs -> Leases]
        /\ sched[s].pc = "commit"
        /\ \A t \in Schedulers \ {s} : sched'[t] = sched[t]
        /\ sched'[s].run = q /\ sched'[s].todo = sched[s].todo
    BY <1>0 DEF ReconcileCommit, TypeOK, Leases, SchedStates, transport, api
  <1>2. Republished(q)' \/ status'[q] = "failed"
    <2>1. CASE HasBudget(sched[s].count)
      <3>1. sched'[s].pc = "requeue"
        BY <1>1, <2>1 DEF ReconcileCommit, SchedStates
      <3> QED BY <1>1, <3>1 DEF Republished
    <2>2. CASE ~ HasBudget(sched[s].count)
      BY <1>0, <1>1, <2>2 DEF ReconcileCommit
    <2> QED BY <2>1, <2>2
  <1>3. \A r \in Runs \ {q} : status'[r] = status[r] /\ lease'[r] = lease[r]
    BY <1>0, <1>1 DEF ReconcileCommit, SetStatus, DropLease, DeleteLease
  <1>4. ASSUME NEW r \in Runs \ {q}, status'[r] = "pending"
        PROVE  Republished(r)' \/ Expected(r)'
    <2>1. Republished(r) => Republished(r)'
      BY <1>1 DEF Republished
    <2>2. Known(r) => Known(r)'
      BY <1>1, <1>3 DEF Known, HasLease
    <2> QED BY <1>1, <1>3, <1>4, <2>1, <2>2, LostKept
  <1>5. ASSUME NEW r \in Runs, status'[r] = "none" PROVE Unborn(r)'
    <2>1. status[r] = "none"
      BY <1>0, <1>1, <1>3, <1>5 DEF ReconcileCommit, SetStatus
    <2>2. Unborn(r)
      BY <2>1 DEF LostInv, AllUnborn
    <2>3. r # q
      BY <1>0, <1>1, <2>2 DEF Unborn
    <2> QED BY <1>1, <2>2, <2>3 DEF Unborn, Busy
  <1>6. LiveOwned'
    BY <1>1 DEF ReconcileCommit, DropLease, DeleteLease, LostInv, LiveOwned, HasLease, Leases
  <1>7. ASSUME NEW r \in Runs, status'[r] = "pending" PROVE Republished(r)' \/ Expected(r)'
    <2>1. CASE r = q
      <3>1. Republished(q)'
        BY <1>2, <1>7, <2>1
      <3> QED BY <2>1, <3>1
    <2>2. CASE r # q
      BY <1>4, <1>7, <2>2
    <2> QED BY <2>1, <2>2
  <1> QED BY <1>5, <1>6, <1>7 DEF LostInv, NotLost, AllUnborn

\* The XADD of requeue and of reclaim_stale.
LEMMA LostPublish ==
    ASSUME TypeOK, LostInv, Published, NEW s \in Schedulers, NEW q \in Runs,
           \/ Requeue(s) /\ sched[s].run = q
           \/ \E w \in Workers : Reclaim(s, q, w)
    PROVE  LostInv'
  <1>1. /\ UNCHANGED <<status, lease, wk, submitting>>
        /\ stream \in [Runs -> Nat] /\ stream' = [stream EXCEPT ![q] = @ + 1]
        /\ sched \in [Schedulers -> SchedStates] /\ pel \in [Runs -> [Workers -> Nat]]
        /\ \A r \in Runs \ {q} : pel'[r] = pel[r]
        /\ UNCHANGED sched \/ Requeue(s)
    BY DEF Requeue, Reclaim, Publish, TypeOK, Published, Fault, api
  <1>2. status[q] # "none"
    <2>1. ~ Unborn(q)
      BY DEF Unborn, Requeue, Reclaim
    <2> QED BY <2>1 DEF LostInv, AllUnborn
  <1>3. Republished(q)'
    BY <1>1 DEF Republished
  <1>4. \A t \in Schedulers : \/ sched'[t] = sched[t]
                              \/ /\ t = s /\ sched[t].run = q
                                 /\ sched'[t].pc = "next"
                                 /\ sched'[t].todo = sched[t].todo
    BY <1>1 DEF Requeue, Reclaim, SchedStates
  <1>5. ASSUME NEW r \in Runs \ {q}, status'[r] = "pending"
        PROVE  Republished(r)' \/ Expected(r)'
    <2>1. Republished(r) => Republished(r)'
      BY <1>1, <1>4 DEF Republished
    <2>2. Known(r) => Known(r)'
      BY <1>1 DEF Known, HasLease
    <2>3. Expected(r) => Expected(r)' \/ Republished(r)'
      BY <1>1, <2>2 DEF Expected, Busy, Early
    <2> QED BY <1>1, <1>5, <2>1, <2>3 DEF LostInv, NotLost
  <1>6. ASSUME NEW r \in Runs, status'[r] = "none" PROVE Unborn(r)'
    <2>1. r # q /\ Unborn(r)
      BY <1>1, <1>2, <1>6 DEF LostInv, AllUnborn
    <2> QED BY <1>1, <1>4, <2>1 DEF Unborn, Busy
  <1>7. LiveOwned'
    BY <1>1 DEF LostInv, LiveOwned, HasLease
  <1> QED BY <1>3, <1>5, <1>6, <1>7 DEF LostInv, NotLost, AllUnborn

LEMMA LostStep ==
    ASSUME TypeOK, LostInv, OneWorker, Published, [Next]_vars
    PROVE  LostInv'
  <1>1. CASE \E r \in Runs : \/ Submit(r) \/ Enqueue(r) \/ CancelRead(r) \/ CancelWrite(r)
                             \/ Expire(r)
    BY <1>1, LostSubmit, LostEnqueue, LostApi
  <1>2. CASE \E w \in Workers : WorkerMove(w) \/ \E r \in Runs : Dequeue(w, r)
    BY <1>2, LostMove, LostDequeue
  <1>3. CASE \E s \in Schedulers : \E r \in Runs, w \in Workers : Reclaim(s, r, w)
    BY <1>3, LostPublish
  <1>4. CASE \E s \in Schedulers : Recover(s)
    BY <1>4, LostScan, LostCommit, LostPublish, SchedTypes DEF Recover
  <1>5. ~ \E s \in Schedulers : SchedCrash(s)
    BY DEF SchedCrash, Fault, Published
  <1>6. CASE UNCHANGED vars
    BY <1>6 DEF vars, LostInv, NotLost, AllUnborn, LiveOwned, Republished, Expected, Known,
       Unborn, Busy, Early, HasLease
  <1> QED BY <1>1, <1>2, <1>3, <1>4, <1>5, <1>6 DEF Next, WorkerMove

\* With one worker, for any number of runs and of racing schedulers, any retry
\* budget and any number of crashes, failed commits, lost leases, long turns,
\* refusals and cancels, a pending run is never forgotten.  Recovery does not look
\* for pending runs, so a publication that fails, or that a dying scheduler never
\* makes, does lose one; and with a second worker an ack, which clears the entries
\* of every consumer (queue.py), may take the entry of a run the other is about to
\* acquire.
THEOREM RunNotLost ==
    ASSUME OneWorker, Published
    PROVE  Spec => []NoLostRun
  <1>1. Init => LostInv
    BY LostInit
  <1>2. TypeOK /\ LostInv /\ [Next]_vars => LostInv'
    BY LostStep
  <1>3. LostInv => NoLostRun
    BY DEF LostInv, NotLost, NoLostRun, Expected, Republished, Known, Busy, Early
  <1> QED BY <1>1, <1>2, <1>3, TypeCorrect, PTL DEF Spec
=============================================================================
