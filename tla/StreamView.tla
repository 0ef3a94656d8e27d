----------------------------- MODULE StreamView -----------------------------
(***************************************************************************)
(* The pure cores of the web client: the server-sent-event framer          *)
(* (lib/sse-parser.ts), the reducer of a streaming chat turn               *)
(* (lib/chat-stream-state.ts), the replay reducer of a durable run         *)
(* (lib/run-events.ts), the agent graph (lib/agent-graph-reducer.ts) and   *)
(* the polling policy (lib/poll-policy.ts).                                *)
(*                                                                         *)
(* An event is [kind, arg]: arg is a token number, a node status, an       *)
(* approval, a tool call or a finish reason, whichever the kind carries.   *)
(* A token frame whose replace flag is set is an event of kind "replace",  *)
(* a validation frame with a corrected text one of kind "corrected": the   *)
(* arg is the text that takes the place of what was streamed.  Wording,    *)
(* citations, plan steps, timestamps and previews are left out.            *)
(***************************************************************************)
EXTENDS Naturals, Sequences, SequencesExt, FiniteSetsExt

Ev(k, a) == [kind |-> k, arg |-> a]

-----------------------------------------------------------------------------
(***************************************************************************)
(* SSEFrameDecoder.  A frame is three lines, id, event and data, and a     *)
(* blank one; a socket may close inside it.  A data line cut short is no   *)
(* JSON: the frame is marked cut.                                          *)
(***************************************************************************)
NoFrame == [id |-> 0, event |-> "", data |-> <<>>, cut |-> FALSE]

SseFrame(seq, ev) == << <<"id", seq>>, <<"event", ev.kind>>, <<"data", ev.arg>>, <<"blank", 0>> >>

\* processLine and emit: the accumulator and the frames emitted so far.
ProcessLine(acc, line) ==
    CASE line[1] = "id"    -> [acc EXCEPT !.cur.id = line[2]]
      [] line[1] = "event" -> [acc EXCEPT !.cur.event = line[2]]
      [] line[1] = "data"  -> [acc EXCEPT !.cur.data = <<line[2]>>]
      [] line[1] = "half"  -> [acc EXCEPT !.cur.cut = TRUE]
      [] line[1] = "blank" -> IF acc.cur.event = "" /\ acc.cur.data = <<>> THEN acc
                              ELSE [cur |-> NoFrame, out |-> Append(acc.out, acc.cur)]

\* push over the lines of a frame, at most four, then flush at the end of the stream.
Take(acc, lines, i) == IF i \in DOMAIN lines THEN ProcessLine(acc, lines[i]) ELSE acc
Push(lines) ==
    Take(Take(Take(Take([cur |-> NoFrame, out |-> <<>>], lines, 1), lines, 2), lines, 3), lines, 4)
Flush(acc) == ProcessLine(acc, <<"blank", 0>>)

\* The frames a consumer acts on: no data or malformed JSON drops the frame.
Usable(frame) == frame.data # <<>> /\ ~frame.cut

\* What a socket that closes k lines into a frame, and perhaps inside the next
\* line, leaves behind: the frame or nothing.
CutFrame(seq, ev, k, half) ==
    LET whole == SubSeq(SseFrame(seq, ev), 1, k)
        rest  == IF half /\ k = 2 THEN << <<"half", 0>> >> ELSE <<>>
        out   == Flush(Push(whole \o rest)).out
    IN  IF out # <<>> /\ Usable(out[1]) THEN out ELSE <<>>

-----------------------------------------------------------------------------
(***************************************************************************)
(* chat-stream-state.ts: one turn.  conv: is the conversation known?  run: *)
(* is the run id known?                                                    *)
(***************************************************************************)
NoCommit == [text |-> <<>>, finish |-> "none"]

initialStreamState(conv) ==
    [conv |-> conv, msg |-> FALSE, run |-> FALSE, text |-> <<>>, steps |-> <<>>, seq |-> 0,
     approvals |-> {}, finish |-> "none", refused |-> FALSE, terminated |-> FALSE,
     commit |-> NoCommit]

errorFinishReason(code) ==
    IF code \in {"provider_timeout", "stream_disconnected", "provider_error"} THEN code
    ELSE IF code = "agent_budget_exceeded" THEN "budget" ELSE "error"

\* commit: the only place a turn writes its assistant message.
Commit(s, reason) ==
    [s EXCEPT !.terminated = TRUE, !.finish = reason,
              !.commit = [text |-> s.text, finish |-> reason]]

\* The same terminal gate without a message, when there is nothing to keep.
Terminate(s, reason) == [s EXCEPT !.terminated = TRUE, !.finish = reason]

\* replaceStep: same id replaces, otherwise appended; sequence order is kept
\* because a step keeps the sequence it was given first.
replaceStep(steps, step) ==
    IF \E i \in DOMAIN steps : steps[i].id = step.id
    THEN [i \in DOMAIN steps |-> IF steps[i].id = step.id THEN step ELSE steps[i]]
    ELSE Append(steps, step)

withStep(s, id, st) ==
    [s EXCEPT !.seq = @ + 1, !.steps = replaceStep(s.steps, [id |-> id, st |-> st])]

\* step_completed and tool_result of a step that never started are dropped.
FinishStep(s, id, st) ==
    IF \E i \in DOMAIN s.steps : s.steps[i].id = id
    THEN [s EXCEPT !.steps = replaceStep(s.steps, [id |-> id, st |-> st])] ELSE s

SeedIds(s) == [s EXCEPT !.conv = TRUE, !.msg = TRUE]

\* Seeded fault: done does not ask whether the turn is over.
UngatedDone(s, reason) == IF s.conv THEN Commit(s, reason) ELSE Terminate(s, reason)

OnDone(s, reason) ==
    IF s.terminated THEN s ELSE IF s.conv THEN Commit(s, reason) ELSE Terminate(s, reason)

OnError(s, code) ==
    IF s.terminated THEN s
    ELSE IF s.conv THEN Commit(s, errorFinishReason(code))
    ELSE Terminate(s, errorFinishReason(code))

OnFetchFailed(s) ==
    IF s.terminated THEN s
    ELSE IF s.conv /\ s.text # <<>> THEN Commit(s, "error") ELSE Terminate(s, "error")

\* stream_end: an unmount keeps nothing, a stop commits what there is, a socket
\* that closed under an unfinished turn keeps the partial text.
OnStreamEnd(s, reason) ==
    CASE s.terminated \/ reason = "unmount" -> s
      [] ~s.terminated /\ reason = "user_stop" ->
            IF s.conv /\ s.text # <<>> THEN Commit(s, "cancelled") ELSE Terminate(s, "cancelled")
      [] ~s.terminated /\ reason = "socket_closed" ->
            IF s.conv /\ s.text # <<>> THEN Commit(s, "stream_disconnected") ELSE s

\* A validation frame with a refusal puts a notice, here the empty text, in the
\* place of what was streamed; one without a text of its own changes nothing.
OnValidation(s, verdict) ==
    IF verdict = "refused" THEN [s EXCEPT !.refused = TRUE, !.text = <<>>] ELSE s

\* reduce, and the names dispatchChatStreamEvent knows: any other is ignored.
reduce(s, ev) ==
    CASE ev.kind = "meta" -> SeedIds(s)
      [] ev.kind \in {"run_started", "runtime_selected", "agent_graph"} -> [s EXCEPT !.run = TRUE]
      [] ev.kind \in {"step_started", "tool_call"} -> withStep(s, ev.arg, "running")
      [] ev.kind \in {"step_completed", "tool_result"} -> FinishStep(s, ev.arg, "done")
      [] ev.kind = "token" -> [s EXCEPT !.text = Append(@, ev.arg)]
      [] ev.kind \in {"replace", "corrected"} -> [s EXCEPT !.text = <<ev.arg>>]
      [] ev.kind = "validation" -> OnValidation(s, ev.arg)
      [] ev.kind = "approval_required" -> [s EXCEPT !.approvals = @ \union {ev.arg}]
      [] ev.kind = "approval_resolved" -> [s EXCEPT !.approvals = @ \ {ev.arg}]
      [] ev.kind = "done" -> OnDone(s, ev.arg)
      [] ev.kind = "error" -> OnError(s, ev.arg)
      [] OTHER -> s

\* dispatchChatStreamEvent's result: may the caller stop reading?
EndsChat(ev) == ev.kind \in {"done", "error"}

-----------------------------------------------------------------------------
(***************************************************************************)
(* run-events.ts: the durable subscription.  The status survives a         *)
(* disconnect; the cursor is the highest sequence applied.                 *)
(***************************************************************************)
TerminalRun == {"completed", "failed", "cancelled"}

emptyRunState == [runStatus |-> "pending", cursor |-> 0, events |-> <<>>, blocked |-> FALSE]

transitionFromEvent(status, ev) ==
    CASE ev.kind \in {"run.started", "run.resumed", "run_started", "run_resumed"} -> "running"
      [] ev.kind = "run.completed" -> "completed"
      [] ev.kind \in {"run.failed", "error"} -> "failed"
      [] ev.kind = "run.cancelled" -> "cancelled"
      [] ev.kind \in {"run.paused", "run_paused"} -> "paused"
      [] ev.kind = "run_status" -> ev.arg
      [] ev.kind = "done" -> IF ev.arg = "cancelled" THEN "cancelled"
                             ELSE IF ev.arg \in {"error", "provider_error", "timeout"} THEN "failed"
                             ELSE "completed"
      [] OTHER -> status

applyEvent(s, seq, ev) ==
    IF seq <= s.cursor THEN s
    ELSE LET st == transitionFromEvent(s.runStatus, ev) IN
         [runStatus |-> st, cursor |-> seq, events |-> Append(s.events, ev),
          blocked |-> \/ ev.kind = "approval_required"
                      \/ s.blocked /\ transitionFromEvent("none", ev) # "running"]

reconnectionShouldStop(s) == s.runStatus \in TerminalRun

-----------------------------------------------------------------------------
(***************************************************************************)
(* agent-graph-reducer.ts and agent-run-store.ts: the graph shown for the  *)
(* active run.                                                             *)
(***************************************************************************)
STATUS_RANK == [pending |-> 0, queued |-> 1, waiting |-> 2, running |-> 3, failed |-> 4,
                cancelled |-> 5, completed |-> 6]

canTransitionTo(from, to) ==
    \/ from = "failed" /\ to \notin {"pending", "queued"}
    \/ /\ from \notin TerminalRun
       /\ \/ "waiting" \in {from, to}
          \/ STATUS_RANK[to] >= STATUS_RANK[from]

emptyGraph == [run |-> FALSE, st |-> "pending", node |-> "none"]

\* AGENT_STATUS, RUN_STATUS, GRAPH_INITIALIZED and RUN_RESTORED.
AgentStatus(g, st) ==
    IF g.node # "none" /\ canTransitionTo(g.node, st) THEN [g EXCEPT !.node = st] ELSE g
RunStatus(g, st) == IF g.st \in TerminalRun THEN g ELSE [g EXCEPT !.st = st]
Restored(saved) == [run |-> TRUE, st |-> saved.st, node |-> saved.node]

\* The handlers of useChatStream that dispatch to the store.
graphReducer(g, ev) ==
    CASE ev.kind = "agent_graph"  -> [run |-> TRUE, st |-> "running", node |-> "pending"]
      [] ev.kind = "agent_status" -> AgentStatus(g, ev.arg)
      [] ev.kind = "run_status"   -> RunStatus(g, ev.arg)
      [] ev.kind = "run_paused"   -> RunStatus(g, "waiting_approval")
      [] ev.kind = "run_resumed"  -> RunStatus(g, "running")
      [] OTHER -> g

\* Seeded fault: only a run that waits for a person is polled.
PollsPaused(g) == g.run /\ g.st = "waiting_approval"

needsPoll(g) == g.run /\ g.st \in {"running", "waiting_approval", "pending"}
shouldStopPolling(failures, limit) == limit > 0 /\ failures >= limit
=============================================================================
