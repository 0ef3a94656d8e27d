----------------------------- MODULE RunStream ------------------------------
(***************************************************************************)
(* How a durable run reaches the screen: the workers that batch its events *)
(* into run_events (agents/events.py, agents/workflow/worker.py), the      *)
(* orchestrator's terminal writes, recovery's requeue, the tail that       *)
(* replays the log (api/agent_runs.py, api/chat.py) and one subscriber:    *)
(* the durable panel (hooks/useDurableAgentRun.ts), which reconnects from  *)
(* its cursor, or a chat turn (hooks/useChatStream.ts, lib/api-stream.ts), *)
(* which does not.  The tail only reads, so subscribers do not meet.       *)
(*                                                                         *)
(* Two workers write one log when a lease is lost; the tail reads events   *)
(* and status in two statements; the socket may break inside a frame.      *)
(***************************************************************************)
EXTENDS StreamView

CONSTANTS
    Workers,     \* worker processes, 1..n in the order they are first used
    Viewers,     \* subset of {"chat", "panel"}: the subscriber of a behaviour
    Scripts,     \* per subscriber: the events an execution may yield, with bounds on
                 \* the faults of workers and on the acts of users and network
    BatchSize,   \* WORKER event batch size
    MaxRetries,  \* RUN_MAX_RETRIES
    MaxPolls     \* consecutive failures after which the graph poll gives up

\* What a runtime yields before it is done, and the events others write.
Yields    == UNION { { s.events[i] : i \in DOMAIN s.events } : s \in UNION { Scripts[v] : v \in Viewers } }
Lifecycle == {"meta", "run.started", "run.completed", "run.cancelled", "recovery.requeued", "done", "error"}

ASSUME RunStreamAssumption ==
    /\ Viewers \subseteq {"chat", "panel"}
    /\ Workers \subseteq Nat \ {0} /\ BatchSize \in Nat \ {0}
    /\ {MaxRetries, MaxPolls} \subseteq Nat
    /\ \A v \in Viewers : \A s \in Scripts[v] :
          s.events \in Seq(Yields) /\ {s.faults, s.acts} \subseteq Nat
    /\ \A e \in Yields : e = Ev(e.kind, e.arg) /\ e.kind \notin Lifecycle

Nobody == 0

VARIABLES
    script,    \* what the run yields, chosen once: a retry repeats it
    log,       \* run_events of the run: the sequence is the index
    status,    \* agent_runs.status
    saved,     \* agent_runs.graph
    lease,     \* the owner of the lease, or Nobody
    worker,    \* per worker: pc, next event to yield, buffer, max(sequence) read
    viewer,    \* which subscriber this behaviour follows
    conn,      \* the tail of the subscriber, both ends
    panel,     \* DurableRunState, and the cursor it started from
    turn,      \* StreamState of the chat turn
    phase,     \* the chat hook: idle or streaming; how it was attached; is a cancel
               \* of the run on its way to the server?
    graph,     \* the agent graph of the store
    poll,      \* a graph poll under way, and the failures so far
    clean,     \* history: one execution, and every batch of it was stored
    left       \* faults and acts that may still happen

server == <<script, log, status, saved, lease, worker, clean>>
client == <<viewer, conn, panel, turn, phase, graph, poll>>
vars == <<server, client, left>>

IdleWorker == [pc |-> "idle", next |-> 1, batch |-> <<>>, seen |-> 0, finish |-> "stop"]
Closed == [open |-> FALSE, phase |-> "idle", hi |-> 0, sent |-> 0, got |-> 0, probe |-> FALSE]
Unattached == [st |-> "idle", how |-> "none", cancel |-> FALSE]
NoPoll == [under |-> <<>>, failures |-> 0]
TerminalEvents == {"run.completed", "run.failed", "run.cancelled", "done", "error"}
LastExec == Len(script)
Fault == left.faults > 0 /\ left' = [left EXCEPT !.faults = @ - 1]
Act   == left.acts > 0 /\ left' = [left EXCEPT !.acts = @ - 1]

-----------------------------------------------------------------------------
(***************************************************************************)
(* EventStore.append re-reads max(sequence) when another writer took its   *)
(* number, so one event lands at the end; append_many reads it once and a  *)
(* collision loses the whole batch.                                        *)
(***************************************************************************)
append(ev) == log' = Append(log, ev)
\* Seeded fault: the batch is written over the numbers it read.
Overwrite(seen, batch) ==
    log' = [i \in 1..(IF Len(log) > seen + Len(batch) THEN Len(log) ELSE seen + Len(batch)) |->
               IF i > seen /\ i <= seen + Len(batch) THEN batch[i - seen] ELSE log[i]]

append_many(seen, batch) == log' = IF Len(log) = seen THEN log \o batch ELSE log

\* _process: the lease, the status, run.started.
Acquire(w) ==
    /\ worker[w].pc = "idle" /\ \A v \in Workers : v < w => worker[v].pc # "idle"
    /\ status = "pending" /\ lease = Nobody
    /\ lease' = w /\ status' = "running" /\ append(Ev("run.started", 0))
    /\ worker' = [worker EXCEPT ![w].pc = "exec"]
    /\ clean' = (clean /\ \A v \in Workers : worker[v].pc = "idle")
    /\ UNCHANGED <<script, saved, client, left>>

\* The lease-loss fence: the renewal loop has noticed; the buffer is dropped.
LeaseFence(w) ==
    /\ worker[w].pc = "exec" /\ lease # w
    /\ worker' = [worker EXCEPT ![w] = [IdleWorker EXCEPT !.pc = "gone"]]
    /\ UNCHANGED <<script, log, status, saved, lease, clean, client, left>>

\* What the runtime persists itself before it yields a graph event.
SaveGraph(ev) ==
    saved' = CASE ev.kind = "agent_graph"  -> graphReducer(emptyGraph, ev)
               [] ev.kind = "agent_status" -> [saved EXCEPT !.node = ev.arg]
               [] ev.kind = "run_status"   -> [saved EXCEPT !.st = ev.arg]
               [] OTHER -> saved

\* _finalize_success.
Release(w) ==
    /\ lease' = IF lease = w THEN Nobody ELSE lease
    /\ status' = IF status \in TerminalRun THEN status ELSE "completed"
    /\ worker' = [worker EXCEPT ![w] = [IdleWorker EXCEPT !.pc = "gone"]]

\* _persist_event_batch, best effort, and what _process does after it.  The read
\* of max(sequence) and the insert are two statements: usually nothing comes
\* between them, but the worker may stall there (a fault).
Flushed(w, seen, next, batch) ==
    /\ append_many(seen, batch)
    /\ clean' = (clean /\ log' # log)
    /\ IF next > LastExec + 1 THEN Release(w)
       ELSE /\ worker' = [worker EXCEPT ![w].batch = <<>>, ![w].seen = 0, ![w].pc = "exec",
                                        ![w].next = next]
            /\ UNCHANGED <<lease, status>>

PersistBatch(w, next, batch) ==
    \/ Flushed(w, Len(log), next, batch) /\ UNCHANGED left
    \/ /\ Fault
       /\ worker' = [worker EXCEPT ![w].pc = "insert", ![w].seen = Len(log), ![w].next = next,
                                   ![w].batch = batch]
       /\ UNCHANGED <<log, lease, status, clean>>

FlushInsert(w) ==
    /\ worker[w].pc = "insert"
    /\ Flushed(w, worker[w].seen, worker[w].next, worker[w].batch)
    /\ UNCHANGED <<script, saved, client, left>>

\* One event of the turn is buffered, and the buffer is flushed when it is full
\* or the flush interval has passed.
Yield(w) ==
    /\ worker[w].pc = "exec" /\ worker[w].next <= LastExec
    /\ LET ev == script[worker[w].next]
           batch == Append(worker[w].batch, ev) IN
       /\ SaveGraph(ev)
       /\ \/ PersistBatch(w, worker[w].next + 1, batch)
          \/ /\ Len(batch) < BatchSize
             /\ worker' = [worker EXCEPT ![w].batch = batch, ![w].next = @ + 1]
             /\ UNCHANGED <<log, lease, status, clean, left>>
    /\ UNCHANGED <<script, client>>

\* A cancel that the runtime has seen ends the turn early.
EndsEarly(w) ==
    /\ worker[w].pc = "exec" /\ worker[w].next <= LastExec /\ status = "cancelled"
    /\ worker' = [worker EXCEPT ![w].next = LastExec + 1, ![w].finish = "cancelled"]
    /\ UNCHANGED <<script, log, status, saved, lease, clean, client, left>>

\* _finalize_run, before done leaves the runtime: the terminal status is
\* committed, then the terminal event is appended in a session of its own.  Only the
\* endings completed and cancelled are scripted here; a run that ends in an error
\* takes the same road.
PersistTerminal(w) ==
    /\ worker[w].pc = "exec" /\ worker[w].next = LastExec + 1
    /\ status' = IF worker[w].finish = "cancelled" \/ status = "cancelled"
                 THEN "cancelled" ELSE "completed"
    /\ worker' = [worker EXCEPT ![w].pc = "event"]
    /\ UNCHANGED <<script, log, saved, lease, clean, client, left>>

AppendTerminal(w) ==
    /\ worker[w].pc = "event"
    /\ append(Ev(IF worker[w].finish = "cancelled" THEN "run.cancelled" ELSE "run.completed", 0))
    /\ worker' = [worker EXCEPT ![w].pc = "done"]
    /\ UNCHANGED <<script, status, saved, lease, clean, client, left>>

\* Only now does done reach the worker, which flushes what it has and ends.
YieldDone(w) ==
    /\ worker[w].pc = "done"
    /\ PersistBatch(w, LastExec + 2, Append(worker[w].batch, Ev("done", worker[w].finish)))
    /\ UNCHANGED <<script, saved, client>>

\* The execution raised: the buffer is flushed if it can be, the lease released
\* and the run left to recovery.
AbandonToRecovery(w) ==
    /\ worker[w].pc = "exec" /\ Fault
    /\ \E stored \in {log, log \o worker[w].batch} : log' = stored
    /\ lease' = IF lease = w THEN Nobody ELSE lease
    /\ worker' = [worker EXCEPT ![w] = [IdleWorker EXCEPT !.pc = "gone"]]
    /\ clean' = FALSE
    /\ UNCHANGED <<script, status, saved, client>>

CrashWorker(w) ==
    /\ worker[w].pc \notin {"idle", "gone"} /\ Fault
    /\ worker' = [worker EXCEPT ![w] = [IdleWorker EXCEPT !.pc = "gone"]]
    /\ clean' = FALSE
    /\ UNCHANGED <<script, log, status, saved, lease, client>>

\* _reconcile of a run whose lease expired or is gone: it is requeued while the
\* log holds fewer requeues than the budget, failed (without an event) after.
Retries == Quantify(DOMAIN log, LAMBDA i : log[i].kind = "recovery.requeued")

\* The holder is gone, or stalls in the database past its renewals.
LeaseExpires == lease # Nobody => worker[lease].pc \in {"gone", "insert"}

Reconcile ==
    /\ status = "running" /\ LeaseExpires
    /\ lease' = Nobody
    /\ IF Retries < MaxRetries
       THEN append(Ev("recovery.requeued", 0)) /\ status' = "pending"
       ELSE status' = "failed" /\ UNCHANGED log
    /\ UNCHANGED <<script, saved, worker, clean, client, left>>

\* cancel_run.
CancelRun == status' = IF status \in TerminalRun THEN status ELSE "cancelled"

-----------------------------------------------------------------------------
(***************************************************************************)
(* tail_run_events.  The wire is log[got+1 .. sent]; the subscriber keeps  *)
(* up, so the next poll finds the wire empty.                              *)
(***************************************************************************)
Open(cursor) == [Closed EXCEPT !.open = TRUE, !.hi = cursor, !.sent = cursor, !.got = cursor,
                               !.probe = status \in TerminalRun]

PollEvents ==
    /\ conn.open /\ conn.phase = "idle" /\ conn.got = conn.sent
    /\ conn' = [conn EXCEPT !.phase = "status", !.hi = Len(log)]
    /\ UNCHANGED <<server, viewer, panel, turn, phase, graph, poll, left>>

\* Seeded fault: a run that ends without an event keeps its tail open.
EventsOnly(sent, hi, terminal) == \E i \in (sent + 1)..hi : log[i].kind \in TerminalEvents

\* The status is read after the events, in another statement.
EndOfTail(sent, hi, terminal) ==
    \/ \E i \in (sent + 1)..hi : log[i].kind \in TerminalEvents
    \/ hi = sent /\ (conn.probe \/ terminal)

PollStatus ==
    /\ conn.open /\ conn.phase = "status"
    /\ conn' = [conn EXCEPT !.sent = conn.hi,
                   !.phase = IF EndOfTail(conn.sent, conn.hi, status \in TerminalRun)
                             THEN "closed" ELSE "idle"]
    /\ UNCHANGED <<server, viewer, panel, turn, phase, graph, poll, left>>

-----------------------------------------------------------------------------
(***************************************************************************)
(* useDurableAgentRun: a panel that reconnects until its status is         *)
(* terminal, and whose cursor outlives a page refresh.                     *)
(***************************************************************************)
\* Seeded fault: a subscription that has ended is not opened again.
ConnectOnce ==
    /\ viewer = "panel" /\ ~conn.open /\ panel.stored = 0
    /\ conn' = Open(panel.stored)
    /\ UNCHANGED <<server, viewer, panel, turn, phase, graph, poll, left>>

Connect ==
    /\ viewer = "panel" /\ ~conn.open /\ ~reconnectionShouldStop(panel.state)
    /\ conn' = Open(panel.stored)
    /\ UNCHANGED <<server, viewer, panel, turn, phase, graph, poll, left>>

\* onEvent and writeCursor.
PanelApply(seq, ev) ==
    panel' = [panel EXCEPT !.state = applyEvent(@, seq, ev),
                           !.stored = IF seq > @ THEN seq ELSE @]

PanelReceive ==
    /\ viewer = "panel" /\ conn.open /\ conn.got < conn.sent
    /\ PanelApply(conn.got + 1, log[conn.got + 1])
    /\ conn' = [conn EXCEPT !.got = @ + 1]
    /\ UNCHANGED <<server, viewer, turn, phase, graph, poll, left>>

\* The server has ended the stream: onDisconnect.
PanelEnd ==
    /\ viewer = "panel" /\ conn.open /\ conn.phase = "closed" /\ conn.got = conn.sent
    /\ conn' = Closed
    /\ UNCHANGED <<server, viewer, panel, turn, phase, graph, poll, left>>

\* The socket breaks, perhaps inside a frame: an orderly close flushes what the
\* framer has, a read error does not.
PanelDrop ==
    /\ viewer = "panel" /\ conn.open /\ Act
    /\ \/ UNCHANGED panel
       \/ /\ conn.got < conn.sent
          /\ \E k \in 0..3, half \in BOOLEAN :
                LET out == CutFrame(conn.got + 1, log[conn.got + 1], k, half) IN
                IF out = <<>> THEN UNCHANGED panel
                ELSE PanelApply(out[1].id, Ev(out[1].event, out[1].data[1]))
    /\ conn' = Closed
    /\ UNCHANGED <<server, viewer, turn, phase, graph, poll>>

\* A page refresh: the cursor is read back, the state starts over.
PanelRefresh ==
    /\ viewer = "panel" /\ Act
    /\ panel' = [panel EXCEPT !.state = [emptyRunState EXCEPT !.cursor = panel.stored],
                              !.base = panel.stored]
    /\ conn' = Closed
    /\ UNCHANGED <<server, viewer, turn, phase, graph, poll>>

\* The user cancels the run from elsewhere.
PanelCancel ==
    /\ viewer = "panel" /\ Act /\ status \notin TerminalRun /\ CancelRun
    /\ UNCHANGED <<script, log, saved, lease, worker, clean, client>>

-----------------------------------------------------------------------------
(***************************************************************************)
(* useChatStream: a turn that was sent (streamChat) or adopted (reattach). *)
(***************************************************************************)
\* run: the request has created the run; the tail starts with a meta frame.
Send ==
    /\ viewer = "chat" /\ phase = Unattached
    /\ phase' = [phase EXCEPT !.st = "streaming", !.how = "send"]
    /\ turn' = reduce(initialStreamState(FALSE), Ev("meta", 0))
    /\ graph' = emptyGraph
    /\ conn' = Open(0)
    /\ UNCHANGED <<server, viewer, panel, poll, left>>

\* Seeded fault: the replay continues the text the view already has.
ReattachKeepsText ==
    /\ viewer = "chat" /\ phase.st = "idle" /\ phase.how # "none"
    /\ status \in {"pending", "running"}
    /\ phase' = [phase EXCEPT !.st = "streaming", !.how = "reattach"]
    /\ turn' = [SeedIds(initialStreamState(TRUE)) EXCEPT !.text = turn.text]
    /\ conn' = Open(0)
    /\ UNCHANGED <<server, viewer, panel, graph, poll, left>>

\* The page adopts a run that still executes whenever nothing streams, whatever
\* became of the turn before: after a lost socket or a stop the run is found again
\* and a second turn is rebuilt from sequence 0.  (reattachedRunsRef only keeps a
\* run whose adopted turn has ended, and findActiveConversationRun no longer
\* returns that one.)
Reattach ==
    /\ viewer = "chat" /\ phase.st = "idle" /\ phase.how # "none"
    /\ status \in {"pending", "running"}
    /\ phase' = [phase EXCEPT !.st = "streaming", !.how = "reattach"]
    /\ turn' = SeedIds(initialStreamState(TRUE))
    /\ conn' = Open(0)
    /\ UNCHANGED <<server, viewer, panel, graph, poll, left>>

\* The stream of a turn is over: the finally blocks of run and of reattach.
EndTurn(t) ==
    /\ turn' = t /\ phase' = [phase EXCEPT !.st = "idle"] /\ conn' = Closed

\* A sent turn that ends without done or error is a lost connection; an adopted
\* one is only forgotten, to be adopted again.
LostStream(t) ==
    IF phase.how = "reattach" THEN t
    ELSE OnStreamEnd(OnError(t, "stream_disconnected"), "socket_closed")

ChatReceive ==
    /\ viewer = "chat" /\ conn.open /\ conn.got < conn.sent
    /\ LET ev == log[conn.got + 1]
           t  == reduce(turn, ev) IN
       /\ graph' = graphReducer(graph, ev)
       /\ IF EndsChat(ev) /\ phase.how = "send" THEN EndTurn(t)
          ELSE turn' = t /\ conn' = [conn EXCEPT !.got = @ + 1] /\ UNCHANGED phase
    /\ UNCHANGED <<server, viewer, panel, poll, left>>

ChatEnd ==
    /\ viewer = "chat" /\ conn.open /\ conn.phase = "closed" /\ conn.got = conn.sent
    /\ EndTurn(LostStream(turn))
    /\ UNCHANGED <<server, viewer, panel, graph, poll, left>>

\* A read error: streamChat throws, reattach only ends.
ChatDrop ==
    /\ viewer = "chat" /\ conn.open /\ Act
    /\ EndTurn(IF phase.how = "reattach" THEN turn ELSE OnFetchFailed(turn))
    /\ UNCHANGED <<server, viewer, panel, graph, poll>>

\* stop: the abort ends the stream; a sent turn whose run id is known also asks
\* to cancel the run, and nobody waits for the answer: an adoption may come first.
ChatStop ==
    /\ viewer = "chat" /\ conn.open /\ Act
    /\ turn' = IF phase.how = "reattach" THEN turn ELSE OnStreamEnd(turn, "user_stop")
    /\ conn' = Closed
    /\ phase' = [phase EXCEPT !.st = "idle",
                   !.cancel = @ \/ (phase.how = "send" /\ ~turn.terminated /\ turn.run)]
    /\ UNCHANGED <<server, viewer, panel, graph, poll>>

\* api.cancelAgentRun reaches the server, if it ever does.
CancelArrives ==
    /\ phase.cancel /\ phase' = [phase EXCEPT !.cancel = FALSE]
    /\ CancelRun
    /\ UNCHANGED <<script, log, saved, lease, worker, clean, viewer, conn, panel, turn, graph, poll, left>>

\* The component unmounts: only the subscription closes.
ChatLeave ==
    /\ viewer = "chat" /\ conn.open /\ Act
    /\ EndTurn(IF phase.how = "reattach" THEN turn ELSE OnStreamEnd(turn, "unmount"))
    /\ UNCHANGED <<server, viewer, panel, graph, poll>>

-----------------------------------------------------------------------------
(***************************************************************************)
(* useAgentRunGraph: the fallback poll.  The answer is applied later than  *)
(* it was read.                                                            *)
(***************************************************************************)
GraphPoll ==
    /\ viewer = "chat" /\ needsPoll(graph) /\ poll.under = <<>>
    /\ ~shouldStopPolling(poll.failures, MaxPolls)
    /\ poll' = [poll EXCEPT !.under = <<saved>>]
    /\ UNCHANGED <<server, viewer, conn, panel, turn, phase, graph, left>>

GraphAnswer ==
    /\ poll.under # <<>>
    /\ graph' = Restored(poll.under[1])
    /\ poll' = NoPoll
    /\ UNCHANGED <<server, viewer, conn, panel, turn, phase, left>>

GraphPollFails ==
    /\ poll.under # <<>> /\ Act
    /\ poll' = [under |-> <<>>, failures |-> poll.failures + 1]
    /\ UNCHANGED <<server, viewer, conn, panel, turn, phase, graph>>

-----------------------------------------------------------------------------
Init ==
    /\ viewer \in Viewers
    /\ \E s \in Scripts[viewer] : script = s.events /\ left = [faults |-> s.faults, acts |-> s.acts]
    /\ log = <<>> /\ status = "pending" /\ saved = emptyGraph /\ lease = Nobody
    /\ worker = [w \in Workers |-> IdleWorker]
    /\ conn = Closed
    /\ panel = [state |-> emptyRunState, stored |-> 0, base |-> 0]
    /\ turn = initialStreamState(FALSE) /\ phase = Unattached
    /\ graph = emptyGraph /\ poll = NoPoll
    /\ clean = TRUE

WorkerStep(w) ==
    \/ Acquire(w) \/ LeaseFence(w) \/ Yield(w) \/ EndsEarly(w) \/ PersistTerminal(w)
    \/ AppendTerminal(w) \/ YieldDone(w) \/ FlushInsert(w)

TailStep == PollEvents \/ PollStatus
PanelStep == Connect \/ PanelReceive \/ PanelEnd
ChatStep == Send \/ ChatReceive \/ ChatEnd
GraphStep == GraphPoll \/ GraphAnswer

Next ==
    \/ \E w \in Workers : WorkerStep(w) \/ AbandonToRecovery(w) \/ CrashWorker(w)
    \/ Reconcile \/ TailStep \/ PanelStep \/ ChatStep \/ GraphStep \/ Reattach
    \/ PanelDrop \/ PanelRefresh \/ PanelCancel
    \/ ChatDrop \/ ChatStop \/ ChatLeave \/ CancelArrives \/ GraphPollFails

Spec == Init /\ [][Next]_vars

\* Workers, recovery, the tail and the browser's event loop keep running.
FairSpec ==
    /\ Spec
    /\ \A w \in Workers : WF_vars(WorkerStep(w))
    /\ WF_vars(Reconcile) /\ WF_vars(TailStep)
    /\ WF_vars(PanelStep \/ ChatStep) /\ WF_vars(GraphStep)

-----------------------------------------------------------------------------
\* The cursor of the panel hides nothing: whatever the reconnects, the cut frames
\* and the second writer, the events it has applied since the page was loaded are
\* the log from its starting cursor to its cursor, each once and in order.
CursorFaithful ==
    panel.state.events = SubSeq(log, panel.base + 1, panel.state.cursor)

\* The pieces of text among the first m events that nothing has withdrawn since,
\* neither a refusal nor a text in their place, and the texts that say each of them
\* once and in order.
Replaces(ev)  == ev.kind \in {"replace", "corrected"}
Withdraws(ev) == Replaces(ev) \/ (ev.kind = "validation" /\ ev.arg = "refused")
Kept(m) ==
    { i \in DOMAIN script : /\ i <= m /\ (script[i].kind = "token" \/ Replaces(script[i]))
                            /\ \A j \in DOMAIN script : i < j /\ j <= m => ~ Withdraws(script[j]) }
Says(text, kept) ==
    \E at \in [DOMAIN text -> kept] :
        /\ \A i, j \in DOMAIN text : i < j => at[i] < at[j]
        /\ \A k \in kept : \E i \in DOMAIN text : at[i] = k
        /\ \A i \in DOMAIN text : text[i] = script[at[i]].arg

\* A reply the chat shows as complete is the whole answer, when the run was
\* executed once and no batch of it was lost: no token is missing, doubled, out
\* of order or withdrawn, however often the turn was adopted again.
CompleteMeansWhole ==
    clean /\ turn.commit.finish = "stop" => Says(turn.commit.text, Kept(Len(script)))

\* A turn enters one assistant message and never rewrites it, whatever comes after
\* its end.  Only a new turn that adopts the run may enter a second one, after a
\* stop or a lost socket left a part; once the whole answer was entered, nothing
\* follows it: not a second done, and not an adoption by a page that finds the run
\* in execution again.
Adopts == phase.st = "idle" /\ phase'.st = "streaming"
OneMessagePerTurn ==
    [][turn.terminated =>
          \/ turn'.commit = turn.commit
          \/ Adopts /\ turn.commit.finish # "stop"]_vars

\* Nobody keeps a spinner: once the run is over, the chat stream ends.
ChatSettles == status \in TerminalRun /\ phase.how # "none" ~> phase.st = "idle"

\* A panel that was not reloaded learns how the run ended, once the log says so.
PanelLearns ==
    (viewer = "panel" /\ \E i \in DOMAIN log : log[i].kind \in TerminalEvents)
        ~> (reconnectionShouldStop(panel.state) \/ panel.base > 0)

\* The graph on the screen catches up with the one in the database: an answer
\* that was read early may undo a newer event, and the next poll repairs it,
\* unless the polls have failed too often.
GraphConverges ==
    []<>(graph.run /\ saved.st = "completed"
            => graph.st = "completed" \/ shouldStopPolling(poll.failures, MaxPolls))

=============================================================================
