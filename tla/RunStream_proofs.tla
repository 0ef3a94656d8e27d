-------------------------- MODULE RunStream_proofs --------------------------
(***************************************************************************)
(* Proofs about RunStream, for any number of workers, any scripts, batch   *)
(* size and retry budget, and any faults of workers and sockets: the       *)
(* cursor of the panel hides nothing, a reply shown as complete is the     *)
(* whole answer, and nothing follows an answer that was completed.         *)
(*                                                                         *)
(* The log is only appended to, so what a reader has applied stays a       *)
(* prefix of it.  As long as one execution has stored all its batches, the *)
(* events of the log that came out of the runtime, counted from the front, *)
(* are the script.                                                         *)
(***************************************************************************)
EXTENDS RunStream, SequenceTheorems, FiniteSetTheorems, TLAPS

\* What the log holds, and the arguments of its events.
Events == Yields \union [kind : Lifecycle, arg : {0, "stop", "cancelled"}]
Args   == { e.arg : e \in Events }

WorkerStates == [pc : {"idle", "exec", "insert", "event", "done", "gone"}, next : Nat,
                 batch : Seq(Events), seen : Nat, finish : {"stop", "cancelled"}]

ConnStates == [open : BOOLEAN, phase : {"idle", "status", "closed"}, hi : Nat, sent : Nat,
               got : Nat, probe : BOOLEAN]

\* Records whose other fields are of no consequence here.
HasFields(r, fields) == DOMAIN r = fields /\ r = [f \in fields |-> r[f]]

TurnFields == {"conv", "msg", "run", "text", "steps", "seq", "approvals", "finish", "refused",
               "terminated", "commit"}
IsTurn(t) == HasFields(t, TurnFields) /\ t.text \in Seq(Args) /\ t.terminated \in BOOLEAN

PhaseFields == {"st", "how", "cancel"}
StateFields == {"runStatus", "cursor", "events", "blocked"}
PanelFields == {"state", "stored", "base"}
IsPanel(p) ==
    /\ HasFields(p, PanelFields) /\ HasFields(p.state, StateFields)
    /\ p.stored \in Nat /\ p.base \in Nat /\ p.state.events \in Seq(Events)

Types ==
    /\ script \in Seq(Yields)
    /\ log \in Seq(Events)
    /\ worker \in [Workers -> WorkerStates]
    /\ clean \in BOOLEAN
    /\ viewer \in {"chat", "panel"}
    /\ conn \in ConnStates
    /\ IsPanel(panel)
    /\ IsTurn(turn)
    /\ HasFields(phase, PhaseFields)

\* What the tail has sent is in the log.
WireInLog == conn.got <= conn.sent /\ conn.sent <= conn.hi /\ conn.hi <= Len(log)

-----------------------------------------------------------------------------
(* The panel.                                                               *)

\* The cursor that outlives a refresh is the one of the state, a subscription of
\* the panel goes on where it stands, and the log reaches that far.
CursorStands ==
    /\ panel.state.cursor = panel.stored
    /\ panel.base <= panel.stored /\ panel.stored <= Len(log)
    /\ conn.open /\ viewer = "panel" => conn.got = panel.stored

PanelInv == CursorStands /\ CursorFaithful

-----------------------------------------------------------------------------
(* The log and the chat.                                                    *)

\* Events that do not come out of the runtime, and how many of the first i did.
Silent    == {"run.started", "run.completed", "run.cancelled", "recovery.requeued"}
Loud(l, i) == { j \in 1..i : l[j].kind \notin Silent }
Count(l, i) == Cardinality(Loud(l, i))

\* Everything a whole execution yields, and the logs that follow it.
Stop == Ev("done", "stop")
Full == Append(script, Stop)
Straight(l, i) ==
    \A j \in Loud(l, i) : Count(l, j) \in DOMAIN Full /\ l[j] = Full[Count(l, j)]

\* A batch goes on where log l stops, and next is the event that follows it.
Follows(l, batch, next) ==
    LET m == Count(l, Len(l))
        n == Len(batch)
    IN  /\ Straight(l, Len(l))
        /\ m + n + 1 = next
        /\ m + n <= Len(Full)
        /\ \A k \in 1..n : batch[k] = Full[m + k]

\* A worker that executes; and one whose stalled insert will collide.
Active(wk)    == wk.pc \notin {"idle", "gone"}
Doomed(wk, n) == wk.pc = "insert" /\ wk.seen # n

\* A done event in a buffer says how its execution ends.
Own(batch, finish) ==
    \A k \in 1..Len(batch) : batch[k].kind = "done" => batch[k] = Ev("done", finish)

\* The program counter says how far the execution has come; n events are stored.
Placed(wk, n) ==
    /\ wk.pc = "idle" => wk = IdleWorker
    /\ wk.pc = "exec" => wk.next <= Len(script) + 1
    /\ wk.pc \in {"event", "done"} => wk.next = Len(script) + 1
    /\ wk.pc = "insert" => wk.seen <= n
    /\ Active(wk) => wk.next >= 1
    /\ wk.pc # "insert" \/ wk.next <= Len(script) + 1 =>
          \A k \in 1..Len(wk.batch) : wk.batch[k].kind # "done"

\* In a clean run one worker has started, and it has stored a part of the script.
OneWorker == \A v, w \in Workers : worker[v].pc # "idle" /\ worker[w].pc # "idle" => v = w
NotBegun  == (\A w \in Workers : worker[w].pc = "idle") => Loud(log, Len(log)) = {}

Goes(l, wk) ==
    Active(wk) =>
       /\ \A i \in DOMAIN l : l[i].kind # "done"
       /\ wk.finish = "stop" /\ ~ Doomed(wk, Len(l)) => Follows(l, wk.batch, wk.next)
Straightened(l) == \A i \in DOMAIN l : l[i] = Stop => Straight(l, i)

Working   == \A w \in Workers : Goes(log, worker[w])
DoneLast  == Straightened(log)
CleanRun  == clean => OneWorker /\ NotBegun /\ Working /\ DoneLast

WorkersInv ==
    \A w \in Workers : Own(worker[w].batch, worker[w].finish) /\ Placed(worker[w], Len(log))

\* The chat has read the log from its start; its text is what the log says so far.
ChatReads ==
    viewer = "chat" /\ conn.open /\ Straight(log, conn.got)
        => Says(turn.text, Kept(Count(log, conn.got)))

\* A turn that was completed was completed by a done event of the log.
Committed(t) ==
    t.commit.finish = "stop" =>
        \E i \in DOMAIN log : log[i] = Stop /\ (Straight(log, i) => Says(t.commit.text, Kept(Len(script))))
CommitFrom == Committed(turn)

\* A turn exists before it is read, and one that was not sent is not over.
Attached ==
    /\ viewer = "chat" /\ conn.open => phase.how # "none"
    /\ phase.how = "none" => ~ turn.terminated

ChatInv == CleanRun /\ WorkersInv /\ ChatReads /\ CommitFrom /\ Attached

IInv == Types /\ WireInLog /\ PanelInv /\ ChatInv

-----------------------------------------------------------------------------
(* The events.                                                              *)

LEMMA EventFacts ==
    /\ \A e \in Events : e = Ev(e.kind, e.arg) /\ e.arg \in Args
    /\ \A e \in Yields : e \in Events /\ e.kind \notin Lifecycle
    /\ \A k \in Lifecycle, a \in {0, "stop", "cancelled"} :
          Ev(k, a) \in Events /\ Ev(k, a).kind = k /\ Ev(k, a).arg = a
<1>1. \A k \in Lifecycle, a \in {0, "stop", "cancelled"} :
          Ev(k, a) \in Events /\ Ev(k, a).kind = k /\ Ev(k, a).arg = a
  BY DEF Events, Ev
<1>2. \A e \in Yields : e = Ev(e.kind, e.arg) /\ e \in Events /\ e.kind \notin Lifecycle
  BY RunStreamAssumption DEF Events
<1>3. \A e \in Events \ Yields : e = Ev(e.kind, e.arg)
  BY DEF Events, Ev
<1> QED
  BY <1>1, <1>2, <1>3 DEF Args

LEMMA ScriptFacts ==
    ASSUME script \in Seq(Yields)
    PROVE  /\ Len(script) \in Nat /\ DOMAIN script = 1..Len(script)
           /\ \A i \in DOMAIN script : script[i] \in Yields /\ script[i] \in Events
           /\ Full \in Seq(Events) /\ Len(Full) = Len(script) + 1
           /\ DOMAIN Full = 1..(Len(script) + 1)
           /\ \A i \in DOMAIN script : Full[i] = script[i]
           /\ Full[Len(script) + 1] = Stop
           /\ Stop \in Events /\ Stop.kind = "done" /\ Stop.arg = "stop"
<1>1. Stop \in Events /\ Stop.kind = "done" /\ Stop.arg = "stop"
  BY EventFacts DEF Lifecycle, Stop
<1>2. \A i \in DOMAIN script : script[i] \in Yields /\ script[i] \in Events
  BY EventFacts
<1>3. script \in Seq(Events)
  BY EventFacts, SeqMonotonic
<1> QED
  BY <1>1, <1>2, <1>3, AppendProperties DEF Full

-----------------------------------------------------------------------------
(* The reducers.                                                            *)

LEMMA InitialTurn ==
    ASSUME NEW b \in BOOLEAN
    PROVE  /\ IsTurn(initialStreamState(b)) /\ IsTurn(SeedIds(initialStreamState(b)))
           /\ initialStreamState(b).text = <<>> /\ SeedIds(initialStreamState(b)).text = <<>>
           /\ initialStreamState(b).commit.finish = "none"
           /\ SeedIds(initialStreamState(b)).commit.finish = "none"
           /\ ~ initialStreamState(b).terminated /\ ~ SeedIds(initialStreamState(b)).terminated
<1> DEFINE s == initialStreamState(b)
<1>1. /\ HasFields(s, TurnFields) /\ s.text = <<>> /\ ~ s.terminated /\ s.commit = NoCommit
  BY DEF initialStreamState, HasFields, TurnFields
<1>2. NoCommit.finish = "none" /\ <<>> \in Seq(Args)
  BY EmptySeq DEF NoCommit
<1>3. s.terminated = FALSE
  BY DEF initialStreamState
<1>4. IsTurn(s)
  BY <1>1, <1>2, <1>3 DEF IsTurn
<1>5. IsTurn(SeedIds(s)) /\ SeedIds(s).text = s.text /\ SeedIds(s).terminated = s.terminated
      /\ SeedIds(s).commit = s.commit
  BY <1>4 DEF SeedIds, IsTurn, HasFields, TurnFields
<1> QED
  BY <1>1, <1>2, <1>4, <1>5

\* What ends a turn: the message is written once, with the text there is.
Ends(s, t, reasons) ==
    /\ t.text = s.text
    /\ s.terminated => t.terminated /\ t.commit = s.commit
    /\ t.commit = s.commit \/ \E r \in reasons : t.commit = [text |-> s.text, finish |-> r]

LEMMA CommitTurn ==
    ASSUME NEW s, IsTurn(s), NEW reason, ~ s.terminated
    PROVE  /\ IsTurn(Commit(s, reason)) /\ Ends(s, Commit(s, reason), {reason})
           /\ IsTurn(Terminate(s, reason)) /\ Ends(s, Terminate(s, reason), {reason})
<1>1. IsTurn(Commit(s, reason)) /\ Commit(s, reason).text = s.text
      /\ Commit(s, reason).commit = [text |-> s.text, finish |-> reason]
  BY DEF Commit, IsTurn, HasFields, TurnFields
<1>2. IsTurn(Terminate(s, reason)) /\ Terminate(s, reason).text = s.text
      /\ Terminate(s, reason).commit = s.commit
  BY DEF Terminate, IsTurn, HasFields, TurnFields
<1> QED
  BY <1>1, <1>2 DEF Ends

LEMMA SameTurn == ASSUME NEW s, NEW reasons PROVE Ends(s, s, reasons)
  BY DEF Ends

ErrorReasons == {"provider_timeout", "stream_disconnected", "provider_error", "budget", "error"}

LEMMA OnDoneTurn ==
    ASSUME NEW s, IsTurn(s), NEW reason
    PROVE  IsTurn(OnDone(s, reason)) /\ Ends(s, OnDone(s, reason), {reason})
  BY CommitTurn, SameTurn DEF OnDone

LEMMA OnErrorTurn ==
    ASSUME NEW s, IsTurn(s), NEW code
    PROVE  IsTurn(OnError(s, code)) /\ Ends(s, OnError(s, code), ErrorReasons)
<1>1. errorFinishReason(code) \in ErrorReasons
  BY DEF errorFinishReason, ErrorReasons
<1>2. Ends(s, OnError(s, code), {errorFinishReason(code)}) /\ IsTurn(OnError(s, code))
  BY CommitTurn, SameTurn DEF OnError
<1> QED
  BY <1>1, <1>2 DEF Ends

LEMMA OnFetchFailedTurn ==
    ASSUME NEW s, IsTurn(s)
    PROVE  IsTurn(OnFetchFailed(s)) /\ Ends(s, OnFetchFailed(s), {"error"})
  BY CommitTurn, SameTurn DEF OnFetchFailed

EndReasons == {"cancelled", "stream_disconnected"}

LEMMA OnStreamEndTurn ==
    ASSUME NEW s, IsTurn(s), NEW reason \in {"unmount", "user_stop", "socket_closed"}
    PROVE  IsTurn(OnStreamEnd(s, reason)) /\ Ends(s, OnStreamEnd(s, reason), EndReasons)
<1>0. s.terminated \in BOOLEAN
  BY DEF IsTurn, HasFields, TurnFields
<1>1. CASE s.terminated \/ reason = "unmount"
  <2>1. OnStreamEnd(s, reason) = s
    BY <1>0, <1>1 DEF OnStreamEnd
  <2> QED BY <2>1, SameTurn
<1>2. CASE ~ s.terminated /\ reason = "user_stop"
  <2>1. OnStreamEnd(s, reason) \in {Commit(s, "cancelled"), Terminate(s, "cancelled")}
    BY <1>2 DEF OnStreamEnd
  <2> QED BY <2>1, <1>2, CommitTurn DEF Ends, EndReasons
<1>3. CASE ~ s.terminated /\ reason = "socket_closed"
  <2>1. OnStreamEnd(s, reason) \in {Commit(s, "stream_disconnected"), s}
    BY <1>3 DEF OnStreamEnd
  <2> QED BY <2>1, <1>3, CommitTurn, SameTurn DEF Ends, EndReasons
<1> QED
  BY <1>0, <1>1, <1>2, <1>3

\* reduce: only a token, a replacement, a withdrawal and the end of the turn touch
\* the text and the message.
NewText(text, ev) ==
    IF ev.kind = "token" THEN Append(text, ev.arg)
    ELSE IF Replaces(ev) THEN <<ev.arg>> ELSE IF Withdraws(ev) THEN <<>> ELSE text

Reasons(ev) == IF ev.kind = "done" THEN {ev.arg} ELSE IF ev.kind = "error" THEN ErrorReasons ELSE {}

LEMMA ReduceTurn ==
    ASSUME NEW s, IsTurn(s), NEW ev, ev.arg \in Args
    PROVE  LET t == reduce(s, ev) IN
           /\ IsTurn(t) /\ t.text = NewText(s.text, ev)
           /\ s.terminated => t.terminated /\ t.commit = s.commit
           /\ t.commit = s.commit \/ \E r \in Reasons(ev) : t.commit = [text |-> s.text, finish |-> r]
<1> DEFINE t == reduce(s, ev)
           Quiet(x) == IsTurn(x) /\ x.text = s.text /\ x.terminated = s.terminated /\ x.commit = s.commit
<1>1. CASE ev.kind = "meta"
  <2>1. t = SeedIds(s) BY <1>1 DEF reduce
  <2>2. Quiet(SeedIds(s)) BY DEF SeedIds, IsTurn, HasFields, TurnFields
  <2> QED BY <1>1, <2>1, <2>2 DEF NewText, Replaces, Withdraws
<1>2. CASE ev.kind \in {"run_started", "runtime_selected", "agent_graph"}
  <2>1. t = [s EXCEPT !.run = TRUE] BY <1>2 DEF reduce
  <2>2. Quiet([s EXCEPT !.run = TRUE]) BY DEF IsTurn, HasFields, TurnFields
  <2> QED BY <1>2, <2>1, <2>2 DEF NewText, Replaces, Withdraws
<1>3. CASE ev.kind \in {"step_started", "tool_call"}
  <2>1. t = withStep(s, ev.arg, "running") BY <1>3 DEF reduce
  <2>2. Quiet(withStep(s, ev.arg, "running")) BY DEF withStep, IsTurn, HasFields, TurnFields
  <2> QED BY <1>3, <2>1, <2>2 DEF NewText, Replaces, Withdraws
<1>4. CASE ev.kind \in {"step_completed", "tool_result"}
  <2>1. t = FinishStep(s, ev.arg, "done") BY <1>4 DEF reduce
  <2>2. Quiet(FinishStep(s, ev.arg, "done")) BY DEF FinishStep, IsTurn, HasFields, TurnFields
  <2> QED BY <1>4, <2>1, <2>2 DEF NewText, Replaces, Withdraws
<1>5. CASE ev.kind = "token"
  <2>1. t = [s EXCEPT !.text = Append(s.text, ev.arg)] BY <1>5 DEF reduce
  <2>2. Append(s.text, ev.arg) \in Seq(Args) BY AppendProperties DEF IsTurn, HasFields, TurnFields
  <2>3. IsTurn(t) /\ t.text = Append(s.text, ev.arg) /\ t.terminated = s.terminated /\ t.commit = s.commit
    BY <2>1, <2>2 DEF IsTurn, HasFields, TurnFields
  <2> QED BY <1>5, <2>3 DEF NewText
<1>11. CASE ev.kind \in {"replace", "corrected"}
  <2>1. t = [s EXCEPT !.text = <<ev.arg>>] BY <1>11 DEF reduce
  <2>2. <<ev.arg>> \in Seq(Args) OBVIOUS
  <2>3. IsTurn(t) /\ t.text = <<ev.arg>> /\ t.terminated = s.terminated /\ t.commit = s.commit
    BY <2>1, <2>2 DEF IsTurn, HasFields, TurnFields
  <2> QED BY <1>11, <2>3 DEF NewText, Replaces
<1>6. CASE ev.kind = "validation"
  <2>1. t = IF ev.arg = "refused" THEN [s EXCEPT !.refused = TRUE, !.text = <<>>] ELSE s
    BY <1>6 DEF reduce, OnValidation
  <2>2. /\ ev.arg = "refused" => IsTurn(t) /\ t.text = <<>>
        /\ ev.arg # "refused" => IsTurn(t) /\ t.text = s.text
        /\ t.terminated = s.terminated /\ t.commit = s.commit
    BY <2>1, EmptySeq DEF IsTurn, HasFields, TurnFields
  <2> QED BY <1>6, <2>2 DEF NewText, Replaces, Withdraws
<1>7. CASE ev.kind \in {"approval_required", "approval_resolved"}
  <2>1. \E as : t = [s EXCEPT !.approvals = as] BY <1>7 DEF reduce
  <2>2. \A as : Quiet([s EXCEPT !.approvals = as]) BY DEF IsTurn, HasFields, TurnFields
  <2>3. Quiet(t) BY <2>1, <2>2
  <2> QED BY <1>7, <2>3 DEF NewText, Replaces, Withdraws
<1>8. CASE ev.kind = "done"
  <2>1. t = OnDone(s, ev.arg) BY <1>8 DEF reduce
  <2> QED BY <1>8, <2>1, OnDoneTurn DEF NewText, Replaces, Withdraws, Ends, Reasons
<1>9. CASE ev.kind = "error"
  <2>1. t = OnError(s, ev.arg) BY <1>9 DEF reduce
  <2> QED BY <1>9, <2>1, OnErrorTurn DEF NewText, Replaces, Withdraws, Ends, Reasons
<1>10. CASE ev.kind \notin {"meta", "run_started", "runtime_selected", "agent_graph", "step_started",
            "tool_call", "step_completed", "tool_result", "token", "validation", "approval_required",
            "approval_resolved", "done", "error", "replace", "corrected"}
  <2>1. t = s BY <1>10 DEF reduce
  <2> QED BY <1>10, <2>1 DEF NewText, Replaces, Withdraws
<1> QED
  BY <1>1, <1>2, <1>3, <1>4, <1>5, <1>6, <1>7, <1>8, <1>9, <1>10, <1>11

\* applyEvent and writeCursor together.
LEMMA ApplyPanel ==
    ASSUME IsPanel(panel), CursorStands, NEW seq \in Nat, NEW ev \in Events, PanelApply(seq, ev)
    PROVE  /\ IsPanel(panel')
           /\ panel'.base = panel.base
           /\ panel'.state.cursor = panel'.stored
           /\ seq <= panel.stored => panel'.stored = panel.stored /\ panel'.state.events = panel.state.events
           /\ seq > panel.stored =>
                panel'.stored = seq /\ panel'.state.events = Append(panel.state.events, ev)
<1> DEFINE s == applyEvent(panel.state, seq, ev)
           n == IF seq > panel.stored THEN seq ELSE panel.stored
<1>1. panel' = [panel EXCEPT !.state = s, !.stored = n]
  BY DEF PanelApply
<1>2. DOMAIN panel = PanelFields /\ panel.state.cursor = panel.stored /\ panel.stored \in Nat
  BY DEF IsPanel, HasFields, CursorStands
<1>3. HasFields(panel', PanelFields) /\ panel'.state = s /\ panel'.stored = n /\ panel'.base = panel.base
  BY <1>1, <1>2 DEF HasFields, PanelFields
<1>4. CASE seq <= panel.stored
  <2>1. s = panel.state /\ n = panel.stored
    BY <1>2, <1>4 DEF applyEvent
  <2> QED BY <1>2, <1>3, <1>4, <2>1 DEF IsPanel
<1>5. CASE seq > panel.stored
  <2> DEFINE st == transitionFromEvent(panel.state.runStatus, ev)
             bl == \/ ev.kind = "approval_required"
                   \/ panel.state.blocked /\ transitionFromEvent("none", ev) # "running"
             r(x, y) == [runStatus |-> x, cursor |-> seq, events |-> Append(panel.state.events, ev),
                         blocked |-> y]
  <2>0. ~ (seq <= panel.state.cursor)
    BY <1>2, <1>5
  <2>1. s = r(st, bl)
    BY <2>0, Zenon DEF applyEvent
  <2>2. \A x, y : HasFields(r(x, y), StateFields) /\ r(x, y).cursor = seq
                  /\ r(x, y).events = Append(panel.state.events, ev)
    BY DEF HasFields, StateFields
  <2> HIDE DEF st, bl
  <2>4. HasFields(s, StateFields) /\ s.cursor = seq /\ s.events = Append(panel.state.events, ev)
    BY <2>1, <2>2
  <2>3. s.events \in Seq(Events)
    BY <2>4, AppendProperties DEF IsPanel
  <2> QED BY <1>2, <1>3, <1>5, <2>3, <2>4 DEF IsPanel
<1> QED
  BY <1>2, <1>4, <1>5

\* The framer over at most three lines.
Start == [cur |-> NoFrame, out |-> <<>>]

LEMMA PushLines ==
    ASSUME NEW S, NEW l \in Seq(S), Len(l) <= 3
    PROVE  /\ Len(l) = 0 => Push(l) = Start
           /\ Len(l) = 1 => Push(l) = ProcessLine(Start, l[1])
           /\ Len(l) = 2 => Push(l) = ProcessLine(ProcessLine(Start, l[1]), l[2])
           /\ Len(l) = 3 => Push(l) = ProcessLine(ProcessLine(ProcessLine(Start, l[1]), l[2]), l[3])
<1>1. Len(l) \in Nat /\ DOMAIN l = 1..Len(l)
  BY LenProperties
<1>2. \A i \in 1..4 : i \in DOMAIN l <=> i <= Len(l)
  BY <1>1
<1>3. CASE Len(l) = 0
  <2>1. 1 \notin DOMAIN l /\ 2 \notin DOMAIN l /\ 3 \notin DOMAIN l /\ 4 \notin DOMAIN l BY <1>2, <1>3
  <2>2. Push(l) = Start BY <2>1, Zenon DEF Push, Take, Start
  <2> QED BY <1>3, <2>2
<1>4. CASE Len(l) = 1
  <2>1. 1 \in DOMAIN l /\ 2 \notin DOMAIN l /\ 3 \notin DOMAIN l /\ 4 \notin DOMAIN l BY <1>2, <1>4
  <2>2. Push(l) = ProcessLine(Start, l[1]) BY <2>1, Zenon DEF Push, Take, Start
  <2> QED BY <1>4, <2>2
<1>5. CASE Len(l) = 2
  <2>1. 1 \in DOMAIN l /\ 2 \in DOMAIN l /\ 3 \notin DOMAIN l /\ 4 \notin DOMAIN l BY <1>2, <1>5
  <2>2. Push(l) = ProcessLine(ProcessLine(Start, l[1]), l[2]) BY <2>1, Zenon DEF Push, Take, Start
  <2> QED BY <1>5, <2>2
<1>6. CASE Len(l) = 3
  <2>1. 1 \in DOMAIN l /\ 2 \in DOMAIN l /\ 3 \in DOMAIN l /\ 4 \notin DOMAIN l BY <1>2, <1>6
  <2>2. Push(l) = ProcessLine(ProcessLine(ProcessLine(Start, l[1]), l[2]), l[3]) BY <2>1, Zenon DEF Push, Take, Start
  <2> QED BY <1>6, <2>2
<1> QED
  BY <1>1, <1>3, <1>4, <1>5, <1>6

\* A frame cut by the socket is the event or nothing: before its third line it
\* has no data.
LEMMA FrameCut ==
    ASSUME NEW seq, NEW ev, NEW k \in 0..3, NEW half \in BOOLEAN
    PROVE  LET out == CutFrame(seq, ev, k, half)
           IN  out = <<>> \/ (out[1].id = seq /\ out[1].event = ev.kind /\ out[1].data[1] = ev.arg)
<1> DEFINE id == <<"id", seq>>  name == <<"event", ev.kind>>  data == <<"data", ev.arg>>
           blank == <<"blank", 0>>  torn == <<"half", 0>>
           one   == [cur |-> [NoFrame EXCEPT !.id = seq], out |-> <<>>]
           two   == [cur |-> [one.cur EXCEPT !.event = ev.kind], out |-> <<>>]
           cut   == [cur |-> [two.cur EXCEPT !.cut = TRUE], out |-> <<>>]
           three == [cur |-> [two.cur EXCEPT !.data = <<ev.arg>>], out |-> <<>>]
           lines == SubSeq(<<id, name, data, blank>>, 1, k) \o (IF half /\ k = 2 THEN << torn >> ELSE <<>>)
           acc   == Push(lines)
           res   == Flush(acc).out
<1>1. ProcessLine(Start, id) = one
  BY DEF ProcessLine, Start
<1>2. ProcessLine(one, name) = two
  BY DEF ProcessLine
<1>3. ProcessLine(two, data) = three
  BY DEF ProcessLine
<1>4. ProcessLine(two, torn) = cut
  BY DEF ProcessLine
<1>5. /\ Start.cur.data = <<>> /\ one.cur.data = <<>> /\ two.cur.data = <<>> /\ cut.cur.data = <<>>
      /\ three.cur.id = seq /\ three.cur.event = ev.kind /\ three.cur.data = <<ev.arg>>
      /\ Start.out = <<>> /\ one.out = <<>> /\ two.out = <<>> /\ cut.out = <<>> /\ three.out = <<>>
  BY DEF NoFrame, Start
<1> HIDE DEF id, name, data, blank, torn, one, two, cut, three
<1>6. CutFrame(seq, ev, k, half) = IF res # <<>> /\ Usable(res[1]) THEN res ELSE <<>>
  BY DEF CutFrame, SseFrame, id, name, data, blank, torn
<1>7. /\ lines \in Seq({id, name, data, blank, torn})
      /\ Len(lines) \in 0..3
      /\ Len(lines) >= 1 => lines[1] = id
      /\ Len(lines) >= 2 => lines[2] = name
      /\ Len(lines) >= 3 => lines[3] \in {data, torn}
  <2> DEFINE S == {id, name, data, blank, torn}
             f == <<id, name, data, blank>>
             p == SubSeq(f, 1, k)
             q == IF half /\ k = 2 THEN << torn >> ELSE <<>>
  <2>1. f[1] = id /\ f[2] = name /\ f[3] = data /\ f[4] = blank
    OBVIOUS
  <2>2. \A i \in 1..k : f[i] \in S
    <3> TAKE i \in 1..k
    <3>1. i = 1 \/ i = 2 \/ i = 3 OBVIOUS
    <3> QED BY <2>1, <3>1
  <2>3. q \in Seq(S) /\ Len(q) = (IF q = <<>> THEN 0 ELSE 1) /\ (q # <<>> => q[1] = torn /\ k = 2)
    <3>1. << torn >> \in Seq(S) /\ Len(<< torn >>) = 1 /\ << torn >>[1] = torn /\ << torn >> # <<>>
      OBVIOUS
    <3>2. << >> \in Seq(S) /\ Len(<< >>) = 0
      BY EmptySeq
    <3>3. q = << >> \/ (q = << torn >> /\ k = 2)
      OBVIOUS
    <3> HIDE DEF q
    <3>4. CASE q = << >>
      BY <3>2, <3>4
    <3>5. CASE q = << torn >> /\ k = 2
      BY <3>1, <3>5
    <3> QED BY <3>3, <3>4, <3>5
  <2>4. lines = p \o q
    OBVIOUS
  <2> HIDE DEF f, S, q, lines
  <2>5. p \in Seq(S) /\ Len(p) = k /\ \A i \in 1..k : p[i] = f[i]
    <3>1. /\ p \in Seq(S) /\ Len(p) = (IF 1 <= k THEN k - 1 + 1 ELSE 0)
          /\ \A i \in 1..(k - 1 + 1) : p[i] = f[1 + i - 1]
      BY <2>2, SubSeqProperties
    <3> QED BY <3>1
  <2> HIDE DEF p
  <2>6. /\ lines \in Seq(S) /\ Len(lines) = k + Len(q)
        /\ \A i \in 1..(k + Len(q)) : lines[i] = IF i <= k THEN f[i] ELSE q[i - k]
    BY <2>3, <2>4, <2>5, ConcatProperties
  <2>7. \A i \in 1..k : lines[i] = f[i]
    BY <2>3, <2>6
  <2>8. q # <<>> => lines[3] = torn
    BY <2>3, <2>6
  <2>9. /\ Len(lines) \in 0..3
        /\ Len(lines) >= 1 => lines[1] = id
        /\ Len(lines) >= 2 => lines[2] = name
        /\ Len(lines) >= 3 => lines[3] \in {data, torn}
    BY <2>1, <2>3, <2>6, <2>7, <2>8
  <2> QED BY <2>6, <2>9 DEF S
<1> HIDE DEF lines
<1>8. acc \in {Start, one, two, cut, three}
  <2>0. \A n \in 0..3 : n <= 3
    OBVIOUS
  <2>1. Len(lines) \in 0..3 /\ Len(lines) <= 3
    BY <1>7, <2>0, Zenon
  <2>2. /\ Len(lines) = 0 => acc = Start
        /\ Len(lines) = 1 => acc = ProcessLine(Start, lines[1])
        /\ Len(lines) = 2 => acc = ProcessLine(ProcessLine(Start, lines[1]), lines[2])
        /\ Len(lines) = 3 => acc = ProcessLine(ProcessLine(ProcessLine(Start, lines[1]), lines[2]), lines[3])
    BY <1>7, <2>1, PushLines, Zenon
  <2> QED
    BY <1>1, <1>2, <1>3, <1>4, <1>7, <2>1, <2>2
<1> HIDE DEF acc
<1>9. res = <<>> \/ (res # <<>> /\ res[1] = acc.cur)
  <2>1. acc.out = <<>>
    BY <1>5, <1>8
  <2>2. Flush(acc) = acc \/ Flush(acc) = [cur |-> NoFrame, out |-> Append(acc.out, acc.cur)]
    BY DEF Flush, ProcessLine
  <2>3. Flush(acc).out \in {acc.out, Append(acc.out, acc.cur)}
    BY <2>2
  <2>4. \A x : Append(<<>>, x) = << x >>
    OBVIOUS
  <2> QED BY <2>1, <2>3, <2>4
<1> HIDE DEF res
<1>10. CASE res # <<>> /\ Usable(acc.cur)
  <2>1. acc.cur.data # <<>> BY <1>10 DEF Usable
  <2>2. acc = three BY <2>1, <1>5, <1>8
  <2>3. CutFrame(seq, ev, k, half) = res /\ res[1] = three.cur BY <2>2, <1>6, <1>9, <1>10
  <2>4. three.cur.data[1] = ev.arg BY <1>5
  <2> QED BY <2>3, <2>4, <1>5
<1> QED
  BY <1>6, <1>9, <1>10

-----------------------------------------------------------------------------
(* Counting the events of a log that came out of the runtime.               *)

LEMMA CountFacts ==
    ASSUME NEW l, NEW i \in Nat
    PROVE  /\ IsFiniteSet(Loud(l, i)) /\ Count(l, i) \in 0..i
           /\ Loud(l, 0) = {} /\ Count(l, 0) = 0
<1>1. IsFiniteSet(1..i) /\ Cardinality(1..i) = i
  BY FS_Interval
<1>2. Loud(l, i) \subseteq 1..i
  BY DEF Loud
<1>3. IsFiniteSet(Loud(l, i)) /\ Cardinality(Loud(l, i)) <= i
  BY <1>1, <1>2, FS_Subset
<1>4. Loud(l, 0) = {}
  BY DEF Loud
<1>5. Cardinality(Loud(l, i)) \in Nat
  BY <1>3, FS_CardinalityType
<1>6. Cardinality(Loud(l, 0)) = 0
  BY <1>4, FS_EmptySet
<1> QED
  BY <1>3, <1>4, <1>5, <1>6 DEF Count

LEMMA CountStep ==
    ASSUME NEW l, NEW i \in Nat
    PROVE  /\ l[i + 1].kind \in Silent => Loud(l, i + 1) = Loud(l, i) /\ Count(l, i + 1) = Count(l, i)
           /\ l[i + 1].kind \notin Silent =>
                Loud(l, i + 1) = Loud(l, i) \union {i + 1} /\ Count(l, i + 1) = Count(l, i) + 1
<1>1. 1..(i + 1) = (1..i) \union {i + 1} /\ i + 1 \notin 1..i
  OBVIOUS
<1>2. /\ l[i + 1].kind \in Silent => Loud(l, i + 1) = Loud(l, i)
      /\ l[i + 1].kind \notin Silent => Loud(l, i + 1) = Loud(l, i) \union {i + 1}
  BY <1>1 DEF Loud
<1>3. IsFiniteSet(Loud(l, i)) /\ i + 1 \notin Loud(l, i)
  BY <1>1, CountFacts DEF Loud
<1> QED
  BY <1>2, <1>3, FS_AddElement DEF Count

\* The prefix of a log that has grown counts as before.
LEMMA SamePrefix ==
    ASSUME NEW l, NEW k, NEW i \in Nat, \A j \in 1..i : k[j] = l[j]
    PROVE  /\ Loud(k, i) = Loud(l, i) /\ Count(k, i) = Count(l, i)
           /\ Straight(k, i) <=> Straight(l, i)
<1>1. \A j \in 1..i : Loud(k, j) = Loud(l, j)
  <2> TAKE j \in 1..i
  <2>1. 1..j \subseteq 1..i
    OBVIOUS
  <2> QED BY <2>1 DEF Loud
<1>2. Loud(k, i) = Loud(l, i)
  BY DEF Loud
<1>3. \A j \in 1..i : Count(k, j) = Count(l, j)
  BY <1>1 DEF Count
<1>4. Loud(l, i) \subseteq 1..i
  BY DEF Loud
<1>5. Straight(k, i) <=> Straight(l, i)
  BY <1>2, <1>3, <1>4 DEF Straight
<1> QED
  BY <1>2, <1>5 DEF Count

LEMMA StraightUpTo ==
    ASSUME NEW l, NEW i \in Nat, NEW j \in 0..i, Straight(l, i)
    PROVE  Straight(l, j)
<1>1. Loud(l, j) \subseteq Loud(l, i)
  BY DEF Loud
<1> QED
  BY <1>1 DEF Straight

LEMMA StraightStep ==
    ASSUME NEW l, NEW i \in Nat
    PROVE  Straight(l, i + 1) <=>
             /\ Straight(l, i)
             /\ l[i + 1].kind \notin Silent =>
                  Count(l, i) + 1 \in DOMAIN Full /\ l[i + 1] = Full[Count(l, i) + 1]
<1> DEFINE c == Count(l, i) + 1
           Next1 == c \in DOMAIN Full /\ l[i + 1] = Full[c]
<1>1. CASE l[i + 1].kind \in Silent
  <2>1. Loud(l, i + 1) = Loud(l, i) BY <1>1, CountStep
  <2> QED BY <1>1, <2>1 DEF Straight
<1>2. CASE l[i + 1].kind \notin Silent
  <2>1. Loud(l, i + 1) = Loud(l, i) \union {i + 1} /\ Count(l, i + 1) = c
    BY <1>2, CountStep
  <2>2. Straight(l, i + 1) <=> Straight(l, i) /\ Count(l, i + 1) \in DOMAIN Full /\ l[i + 1] = Full[Count(l, i + 1)]
    BY <2>1 DEF Straight
  <2> QED BY <1>2, <2>1, <2>2
<1> QED
  BY <1>1, <1>2

\* Loud events at the end of a log.
LEMMA CountAppend ==
    ASSUME NEW l, NEW i \in Nat, NEW n \in Nat, \A j \in (i + 1)..(i + n) : l[j].kind \notin Silent
    PROVE  Count(l, i + n) = Count(l, i) + n
<1>1. Loud(l, i + n) = Loud(l, i) \union ((i + 1)..(i + n)) /\ Loud(l, i) \intersect ((i + 1)..(i + n)) = {}
  BY DEF Loud
<1>2. IsFiniteSet((i + 1)..(i + n)) /\ Cardinality((i + 1)..(i + n)) = n
  BY FS_Interval
<1>3. IsFiniteSet(Loud(l, i)) /\ Count(l, i) \in Nat
  BY CountFacts
<1> DEFINE A == Loud(l, i)
           B == (i + 1)..(i + n)
<1>4. Cardinality(A \union B) = Cardinality(A) + Cardinality(B) - Cardinality(A \intersect B)
  BY <1>2, <1>3, FS_Union
<1>5. Cardinality(A \intersect B) = 0
  BY <1>1, FS_EmptySet
<1>6. Count(l, i + n) = Cardinality(A \union B) /\ Count(l, i) = Cardinality(A)
  BY <1>1 DEF Count
<1>7. Cardinality(B) = n
  BY <1>2
<1> HIDE DEF A, B
<1> QED
  BY <1>3, <1>4, <1>5, <1>6, <1>7

\* A batch that follows a log.
LEMMA FollowsConcat ==
    ASSUME script \in Seq(Yields), NEW l \in Seq(Events), NEW batch \in Seq(Events), NEW next \in Nat,
           Follows(l, batch, next)
    PROVE  LET k == l \o batch IN
           /\ Straight(k, Len(k)) /\ Count(k, Len(k)) + 1 = next
           /\ Follows(k, <<>>, next)
<1> DEFINE L == Len(l)
           n == Len(batch)
           m == Count(l, L)
           k == l \o batch
<1>1. /\ L \in Nat /\ n \in Nat /\ m \in 0..L /\ Straight(l, L)
      /\ m + n + 1 = next /\ m + n <= Len(Full) /\ \A j \in 1..n : batch[j] = Full[m + j]
  BY CountFacts DEF Follows
<1>2. /\ Len(k) = L + n
      /\ \A j \in 1..(L + n) : k[j] = IF j <= L THEN l[j] ELSE batch[j - L]
  BY ConcatProperties
<1>3. /\ Len(Full) \in Nat /\ DOMAIN Full = 1..Len(Full)
      /\ \A j \in 1..Len(Full) : Full[j].kind \notin Silent
  <2>1. \A j \in DOMAIN script : script[j].kind \notin Silent
    BY ScriptFacts, EventFacts DEF Lifecycle, Silent
  <2>2. Stop.kind \notin Silent
    BY ScriptFacts DEF Silent
  <2> QED BY <2>1, <2>2, ScriptFacts
<1> HIDE DEF k, L, n, m
<1>4. \A j \in 1..L : k[j] = l[j]
  BY <1>1, <1>2
<1>5. \A j \in 1..n : k[L + j] = Full[m + j] /\ m + j \in DOMAIN Full /\ k[L + j].kind \notin Silent
  <2> TAKE j \in 1..n
  <2>1. L + j \in 1..(L + n) /\ ~ (L + j <= L) /\ L + j - L = j
    BY <1>1
  <2>2. m + j \in 1..Len(Full)
    BY <1>1, <1>3
  <2> DEFINE i == L + j
  <2>5. i \in 1..(L + n) /\ ~ (i <= L) /\ i - L = j
    BY <1>1, <2>1
  <2> HIDE DEF i
  <2>6. k[i] = batch[i - L]
    BY <1>2, <2>5
  <2>3. k[L + j] = batch[j]
    BY <2>5, <2>6 DEF i
  <2>4. batch[j] = Full[m + j]
    BY <1>1
  <2> QED BY <1>3, <2>2, <2>3, <2>4
<1>6. Straight(k, L) /\ Count(k, L) = m
  BY <1>1, <1>4, SamePrefix DEF m, L
<1>7. \A j \in 0..n : Count(k, L + j) = m + j
  <2> TAKE j \in 0..n
  <2>1. \A i \in (L + 1)..(L + j) : k[i].kind \notin Silent
    <3> TAKE i \in (L + 1)..(L + j)
    <3>1. i - L \in 1..n /\ L + (i - L) = i BY <1>1
    <3> QED BY <1>5, <3>1
  <2>2. j \in Nat /\ L \in Nat
    BY <1>1
  <2>3. Count(k, L + j) = Count(k, L) + j
    BY <2>1, <2>2, CountAppend
  <2> QED BY <1>6, <2>3
<1>8. Straight(k, L + n)
  <2>1. \A j \in Loud(k, L + n) : Count(k, j) \in DOMAIN Full /\ k[j] = Full[Count(k, j)]
    <3> TAKE j \in Loud(k, L + n)
    <3>0. j \in 1..(L + n) /\ k[j].kind \notin Silent BY DEF Loud
    <3>1. CASE j <= L
      <4>1. j \in Loud(k, L) BY <1>1, <3>0, <3>1 DEF Loud
      <4> QED BY <1>6, <4>1 DEF Straight
    <3>2. CASE j > L
      <4>1. j - L \in 1..n /\ j - L \in 0..n /\ L + (j - L) = j BY <1>1, <3>0, <3>2
      <4>2. Count(k, j) = m + (j - L) BY <1>7, <4>1
      <4> QED BY <1>5, <4>1, <4>2
    <3> QED BY <1>1, <3>0, <3>1, <3>2
  <2> QED BY <2>1 DEF Straight
<1>9. Count(k, L + n) = m + n
  BY <1>1, <1>7
<1>10. Follows(k, <<>>, next)
  BY <1>1, <1>2, <1>8, <1>9 DEF Follows
<1> QED
  BY <1>1, <1>2, <1>8, <1>9, <1>10 DEF k, L, n, m

\* One more event that does not come out of the runtime.
LEMMA SilentAppend ==
    ASSUME NEW l \in Seq(Events), NEW ev \in Events, ev.kind \in Silent
    PROVE  LET k == Append(l, ev) IN
           /\ Loud(k, Len(k)) = Loud(l, Len(l))
           /\ \A batch, next : Follows(l, batch, next) => Follows(k, batch, next)
<1> DEFINE k == Append(l, ev)
           L == Len(l)
<1>1. L \in Nat /\ Len(k) = L + 1 /\ k[L + 1] = ev /\ \A j \in 1..L : k[j] = l[j]
  BY AppendProperties
<1> HIDE DEF k, L
<1>2. Loud(k, L) = Loud(l, L) /\ Count(k, L) = Count(l, L) /\ (Straight(k, L) <=> Straight(l, L))
  BY <1>1, SamePrefix
<1>3. Loud(k, L + 1) = Loud(k, L) /\ Count(k, L + 1) = Count(k, L)
  BY <1>1, CountStep
<1>4. Straight(k, L + 1) <=> Straight(k, L)
  BY <1>1, StraightStep
<1>5. \A batch, next : Follows(l, batch, next) => Follows(k, batch, next)
  BY <1>1, <1>2, <1>3, <1>4 DEF Follows, L
<1> QED
  BY <1>1, <1>2, <1>3, <1>5 DEF k, L

\* What came before is neither more nor less straight in a log that has grown.
LEMMA DoneGrows ==
    ASSUME NEW l \in Seq(Events), NEW k \in Seq(Events), Len(l) <= Len(k),
           \A j \in 1..Len(l) : k[j] = l[j]
    PROVE  \A i \in 1..Len(l) : Straight(k, i) <=> Straight(l, i)
<1> TAKE i \in 1..Len(l)
<1>1. i \in Nat /\ \A j \in 1..i : k[j] = l[j]
  BY LenProperties
<1> QED
  BY <1>1, SamePrefix

-----------------------------------------------------------------------------
(* What a text says.                                                        *)

LEMMA KeptStep ==
    ASSUME script \in Seq(Yields), NEW m \in Nat
    PROVE  /\ Kept(0) = {}
           /\ m >= Len(script) => Kept(m) = Kept(Len(script))
           /\ \A k \in Kept(m) : k \in 1..m
           /\ m + 1 \in DOMAIN script =>
                Kept(m + 1) = IF script[m + 1].kind = "token" THEN Kept(m) \union {m + 1}
                              ELSE IF Replaces(script[m + 1]) THEN {m + 1}
                              ELSE IF Withdraws(script[m + 1]) THEN {} ELSE Kept(m)
<1>1. Len(script) \in Nat /\ DOMAIN script = 1..Len(script)
  BY ScriptFacts
<1>2. Kept(0) = {} /\ \A k \in Kept(m) : k \in 1..m
  BY <1>1 DEF Kept
<1>3. m >= Len(script) => Kept(m) = Kept(Len(script))
  BY <1>1 DEF Kept
<1>4. ASSUME m + 1 \in DOMAIN script
      PROVE  Kept(m + 1) = IF script[m + 1].kind = "token" THEN Kept(m) \union {m + 1}
                           ELSE IF Replaces(script[m + 1]) THEN {m + 1}
                           ELSE IF Withdraws(script[m + 1]) THEN {} ELSE Kept(m)
  <2> DEFINE ev == script[m + 1]
             Brings(i) == script[i].kind = "token" \/ Replaces(script[i])
  <2>1. /\ \A i \in DOMAIN script : i <= m + 1 <=> i <= m \/ i = m + 1
        /\ \A i \in DOMAIN script : i <= m => i < m + 1
        /\ \A i, j \in DOMAIN script : ~ (m + 1 < j /\ j <= m + 1) /\ ~ (m + 1 <= m)
    BY <1>1, <1>4
  <2>2. \A i \in DOMAIN script : i \in Kept(m + 1) <=>
           \/ i = m + 1 /\ Brings(m + 1)
           \/ i \in Kept(m) /\ ~ Withdraws(ev)
    <3> TAKE i \in DOMAIN script
    <3>1. CASE i = m + 1
      BY <1>4, <2>1, <3>1 DEF Kept
    <3>2. CASE i # m + 1
      BY <1>4, <2>1, <3>2 DEF Kept
    <3> QED BY <3>1, <3>2
  <2>3. \A i : i \in Kept(m + 1) => i \in DOMAIN script
    BY DEF Kept
  <2>4. \A i : i \in Kept(m) => i \in DOMAIN script
    BY DEF Kept
  <2>5. CASE ev.kind = "token"
    <3>1. ~ Withdraws(ev) /\ Brings(m + 1) BY <2>5 DEF Withdraws, Replaces
    <3>2. \A i : i \in Kept(m + 1) <=> i \in Kept(m) \/ i = m + 1
      BY <1>4, <2>2, <2>3, <2>4, <3>1
    <3> QED BY <2>5, <3>2
  <2>6. CASE ev.kind # "token" /\ Replaces(ev)
    <3>1. Withdraws(ev) /\ Brings(m + 1) BY <2>6 DEF Withdraws
    <3>2. \A i : i \in Kept(m + 1) <=> i = m + 1
      BY <1>4, <2>2, <2>3, <3>1
    <3> QED BY <2>6, <3>2
  <2>7. CASE ev.kind # "token" /\ ~ Replaces(ev)
    <3>1. ~ Brings(m + 1) BY <2>7
    <3>2. \A i : i \in Kept(m + 1) <=> i \in Kept(m) /\ ~ Withdraws(ev)
      BY <1>4, <2>2, <2>3, <2>4, <3>1
    <3> QED BY <2>7, <3>2
  <2> QED BY <2>5, <2>6, <2>7
<1> QED
  BY <1>2, <1>3, <1>4

LEMMA SaysNothing == Says(<<>>, {})
<1> DEFINE at == [i \in {} |-> 0]
<1>1. DOMAIN <<>> = {}
  OBVIOUS
<1>2. at \in [DOMAIN <<>> -> {}]
  BY <1>1
<1> QED
  BY <1>1, <1>2 DEF Says

LEMMA SaysMore ==
    ASSUME NEW text \in Seq(Args), NEW m \in Nat, NEW kept, \A k \in kept : k \in 1..m,
           script[m + 1].arg \in Args, Says(text, kept)
    PROVE  Says(Append(text, script[m + 1].arg), kept \union {m + 1})
<1> DEFINE n == Len(text)
           more == Append(text, script[m + 1].arg)
<1>1. n \in Nat /\ DOMAIN text = 1..n
  BY LenProperties
<1>2. /\ DOMAIN more = 1..(n + 1) /\ more[n + 1] = script[m + 1].arg
      /\ \A i \in 1..n : more[i] = text[i]
  BY AppendProperties
<1>3. PICK at \in [DOMAIN text -> kept] :
        /\ \A i, j \in DOMAIN text : i < j => at[i] < at[j]
        /\ \A k \in kept : \E i \in DOMAIN text : at[i] = k
        /\ \A i \in DOMAIN text : text[i] = script[at[i]].arg
  BY DEF Says
<1> DEFINE pos == [i \in 1..(n + 1) |-> IF i <= n THEN at[i] ELSE m + 1]
<1> HIDE DEF n, more
<1>4. \A i \in 1..n : pos[i] = at[i] /\ at[i] \in kept /\ at[i] \in 1..m
  BY <1>1, <1>3
<1>5. pos[n + 1] = m + 1
  BY <1>1
<1>6. \A i \in 1..(n + 1) : i \in 1..n \/ i = n + 1
  BY <1>1
<1>7. pos \in [DOMAIN more -> kept \union {m + 1}]
  BY <1>2, <1>3, <1>1
<1> HIDE DEF pos
<1>8. \A i, j \in DOMAIN more : i < j => pos[i] < pos[j]
  <2> SUFFICES ASSUME NEW i \in 1..(n + 1), NEW j \in 1..(n + 1), i < j
               PROVE  pos[i] < pos[j]
    BY <1>2
  <2>1. i \in 1..n BY <1>1
  <2>2. CASE j \in 1..n
    BY <1>1, <1>3, <1>4, <2>1, <2>2
  <2>3. CASE j = n + 1
    BY <1>4, <1>5, <2>1, <2>3
  <2> QED BY <1>6, <2>2, <2>3
<1>9. \A k \in kept \union {m + 1} : \E i \in DOMAIN more : pos[i] = k
  <2>1. \A i \in 1..n : i \in 1..(n + 1) BY <1>1
  <2>2. n + 1 \in 1..(n + 1) BY <1>1
  <2> QED BY <1>1, <1>2, <1>3, <1>4, <1>5, <2>1, <2>2
<1>10. \A i \in DOMAIN more : more[i] = script[pos[i]].arg
  <2> SUFFICES ASSUME NEW i \in 1..(n + 1) PROVE more[i] = script[pos[i]].arg
    BY <1>2
  <2>1. CASE i \in 1..n BY <1>1, <1>2, <1>3, <1>4, <2>1
  <2>2. CASE i = n + 1 BY <1>2, <1>5, <2>2
  <2> QED BY <1>6, <2>1, <2>2
<1>11. Says(more, kept \union {m + 1})
  BY <1>7, <1>8, <1>9, <1>10 DEF Says
<1> QED
  BY <1>11 DEF more

LEMMA SaysOne ==
    ASSUME NEW m \in Nat, script[m + 1].arg \in Args
    PROVE  Says(<<script[m + 1].arg>>, {m + 1})
<1>1. <<>> \in Seq(Args) /\ Append(<<>>, script[m + 1].arg) = <<script[m + 1].arg>>
  OBVIOUS
<1>2. Says(Append(<<>>, script[m + 1].arg), {} \union {m + 1})
  BY <1>1, SaysNothing, SaysMore
<1>3. {} \union {m + 1} = {m + 1}
  OBVIOUS
<1> QED
  BY <1>1, <1>2, <1>3

\* Applying the next event of the script keeps the text true.
LEMMA SaysStep ==
    ASSUME script \in Seq(Yields), NEW text \in Seq(Args), NEW m \in Nat, m + 1 \in DOMAIN Full,
           Says(text, Kept(m))
    PROVE  Says(NewText(text, Full[m + 1]), Kept(m + 1))
<1>1. /\ Len(script) \in Nat /\ DOMAIN Full = 1..(Len(script) + 1) /\ DOMAIN script = 1..Len(script)
      /\ \A i \in DOMAIN script : Full[i] = script[i] /\ script[i].arg \in Args
      /\ Full[Len(script) + 1] = Stop /\ Stop.kind = "done"
  BY ScriptFacts, EventFacts
<1>2. CASE m = Len(script)
  <2>1. NewText(text, Full[m + 1]) = text
    BY <1>1, <1>2 DEF NewText, Replaces, Withdraws
  <2>2. Kept(m + 1) = Kept(m)
    <3>1. m + 1 \in Nat /\ m + 1 >= Len(script) BY <1>1, <1>2
    <3>2. Kept(m + 1) = Kept(Len(script)) BY <3>1, KeptStep
    <3> QED BY <1>2, <3>2
  <2> QED BY <2>1, <2>2
<1>3. CASE m + 1 \in DOMAIN script
  <2>1. Full[m + 1] = script[m + 1] /\ script[m + 1].arg \in Args
    BY <1>1, <1>3
  <2>2. \A k \in Kept(m) : k \in 1..m
    BY KeptStep
  <2>3. Kept(m + 1) = IF script[m + 1].kind = "token" THEN Kept(m) \union {m + 1}
                      ELSE IF Replaces(script[m + 1]) THEN {m + 1}
                      ELSE IF Withdraws(script[m + 1]) THEN {} ELSE Kept(m)
    BY <1>3, KeptStep
  <2>4. CASE script[m + 1].kind = "token"
    BY <2>1, <2>2, <2>3, <2>4, SaysMore DEF NewText
  <2>5. CASE script[m + 1].kind # "token" /\ Replaces(script[m + 1])
    BY <2>1, <2>3, <2>5, SaysOne DEF NewText
  <2>6. CASE script[m + 1].kind # "token" /\ ~ Replaces(script[m + 1]) /\ Withdraws(script[m + 1])
    BY <2>1, <2>3, <2>6, SaysNothing DEF NewText
  <2>7. CASE script[m + 1].kind # "token" /\ ~ Replaces(script[m + 1]) /\ ~ Withdraws(script[m + 1])
    BY <2>1, <2>3, <2>7 DEF NewText
  <2> QED BY <2>4, <2>5, <2>6, <2>7
<1>4. \A a, b \in Nat : a + 1 \in 1..(b + 1) => a = b \/ a + 1 \in 1..b
  OBVIOUS
<1>5. m = Len(script) \/ m + 1 \in DOMAIN script
  <2>1. m + 1 \in 1..(Len(script) + 1)
    BY <1>1
  <2> QED BY <1>1, <1>4, <2>1, Zenon
<1> QED
  BY <1>2, <1>3, <1>5

-----------------------------------------------------------------------------
(* Types, and a log that only grows.                                        *)

Grown ==
    log' \in Seq(Events) /\ Len(log) <= Len(log') /\ \A i \in 1..Len(log) : log'[i] = log[i]

LEMMA GrownBy ==
    ASSUME log \in Seq(Events)
    PROVE  /\ log' = log => Grown
           /\ \A ev \in Events : log' = Append(log, ev) => Grown
           /\ \A batch \in Seq(Events) : log' = log \o batch => Grown
<1>1. Len(log) \in Nat
  OBVIOUS
<1>2. log' = log => Grown
  BY <1>1 DEF Grown
<1>3. ASSUME NEW ev \in Events, log' = Append(log, ev) PROVE Grown
  BY <1>1, <1>3, AppendProperties DEF Grown
<1>4. ASSUME NEW batch \in Seq(Events), log' = log \o batch PROVE Grown
  <2>1. Len(batch) \in Nat OBVIOUS
  <2>2. /\ log \o batch \in Seq(Events) /\ Len(log \o batch) = Len(log) + Len(batch)
        /\ \A i \in 1..(Len(log) + Len(batch)) :
              (log \o batch)[i] = IF i <= Len(log) THEN log[i] ELSE batch[i - Len(log)]
    BY ConcatProperties
  <2>3. \A i \in 1..Len(log) : i \in 1..(Len(log) + Len(batch)) /\ i <= Len(log)
    BY <1>1, <2>1
  <2> QED BY <1>1, <1>4, <2>1, <2>2, <2>3 DEF Grown
<1> QED
  BY <1>2, <1>3, <1>4

ServerTypes == Grown /\ worker' \in [Workers -> WorkerStates] /\ clean' \in BOOLEAN

LEMMA GoneState == [IdleWorker EXCEPT !.pc = "gone"] \in WorkerStates /\ IdleWorker \in WorkerStates
  BY EmptySeq DEF IdleWorker, WorkerStates

LEMMA FlushedTypes ==
    ASSUME Types, NEW w \in Workers, NEW seen \in Nat, NEW next \in Nat, NEW batch \in Seq(Events),
           Flushed(w, seen, next, batch)
    PROVE  ServerTypes
<1>1. Grown
  BY GrownBy DEF Flushed, append_many, Types
<1>2. clean' \in BOOLEAN
  BY DEF Flushed, Types
<1>3. worker' \in [Workers -> WorkerStates]
  <2>0. worker \in [Workers -> WorkerStates]
    BY DEF Types
  <2>1. CASE Release(w)
    BY <2>0, <2>1, GoneState DEF Release
  <2>2. CASE worker' = [worker EXCEPT ![w].batch = <<>>, ![w].seen = 0, ![w].pc = "exec",
                                      ![w].next = next]
    <3>1. <<>> \in Seq(Events)
      BY EmptySeq
    <3>2. [worker[w] EXCEPT !.batch = <<>>, !.seen = 0, !.pc = "exec", !.next = next] \in WorkerStates
      BY <2>0, <3>1 DEF WorkerStates
    <3>3. worker' = [worker EXCEPT ![w] =
                       [worker[w] EXCEPT !.batch = <<>>, !.seen = 0, !.pc = "exec", !.next = next]]
      BY <2>0, <2>2
    <3> QED BY <2>0, <3>2, <3>3
  <2> QED BY <2>1, <2>2 DEF Flushed
<1> QED
  BY <1>1, <1>2, <1>3 DEF ServerTypes

LEMMA PersistTypes ==
    ASSUME Types, NEW w \in Workers, NEW next \in Nat, NEW batch \in Seq(Events),
           PersistBatch(w, next, batch)
    PROVE  ServerTypes
<1>1. Len(log) \in Nat
  BY DEF Types
<1>2. CASE Flushed(w, Len(log), next, batch)
  BY <1>1, <1>2, FlushedTypes
<1>3. CASE UNCHANGED <<log, clean>> /\
           worker' = [worker EXCEPT ![w].pc = "insert", ![w].seen = Len(log), ![w].next = next,
                                    ![w].batch = batch]
  <2> DEFINE new == [worker[w] EXCEPT !.pc = "insert", !.seen = Len(log), !.next = next, !.batch = batch]
  <2>0. worker \in [Workers -> WorkerStates]
    BY DEF Types
  <2>1. new \in WorkerStates
    BY <1>1, <2>0 DEF WorkerStates
  <2>2. worker' = [worker EXCEPT ![w] = new]
    BY <1>3, <2>0
  <2> HIDE DEF new
  <2>3. worker' \in [Workers -> WorkerStates]
    BY <2>0, <2>1, <2>2
  <2>4. Grown /\ clean' \in BOOLEAN
    BY <1>3, GrownBy DEF Types
  <2> QED BY <2>3, <2>4 DEF ServerTypes
<1> QED
  BY <1>2, <1>3 DEF PersistBatch

LEMMA YieldBatch ==
    ASSUME Types, NEW w \in Workers, worker[w].pc = "exec", worker[w].next <= LastExec,
           worker[w].next >= 1
    PROVE  /\ worker[w].next \in DOMAIN script /\ worker[w].next + 1 \in Nat
           /\ script[worker[w].next] \in Yields /\ script[worker[w].next] \in Events
           /\ Append(worker[w].batch, script[worker[w].next]) \in Seq(Events)
<1>1. worker[w].next \in Nat /\ worker[w].batch \in Seq(Events)
  BY DEF Types, WorkerStates
<1>2. worker[w].next \in DOMAIN script
  BY <1>1, ScriptFacts DEF Types, LastExec
<1>3. script[worker[w].next] \in Events /\ script[worker[w].next] \in Yields
  BY <1>2, ScriptFacts DEF Types
<1> QED
  BY <1>1, <1>2, <1>3, AppendProperties

LEMMA DoneBatch ==
    ASSUME Types, NEW w \in Workers
    PROVE  LET ev == Ev("done", worker[w].finish) IN
           /\ LastExec + 2 \in Nat /\ ev \in Events
           /\ Append(worker[w].batch, ev) \in Seq(Events)
<1>1. worker[w].finish \in {"stop", "cancelled"} /\ worker[w].batch \in Seq(Events)
  BY DEF Types, WorkerStates
<1>2. Ev("done", worker[w].finish) \in Events
  BY <1>1, EventFacts DEF Lifecycle
<1> QED
  BY <1>1, <1>2, AppendProperties DEF LastExec, Types

LEMMA WorkerTypes ==
    ASSUME Types, WorkersInv, NEW w \in Workers,
           WorkerStep(w) \/ AbandonToRecovery(w) \/ CrashWorker(w)
    PROVE  ServerTypes
<1>0. /\ log \in Seq(Events) /\ worker \in [Workers -> WorkerStates] /\ clean \in BOOLEAN
      /\ \A ev \in {Ev("run.started", 0), Ev("run.cancelled", 0), Ev("run.completed", 0)} : ev \in Events
      /\ Active(worker[w]) => worker[w].next >= 1
  BY EventFacts DEF Types, Lifecycle, WorkersInv, Placed
<1>1. CASE Acquire(w)
  BY <1>0, <1>1, GrownBy DEF Acquire, append, ServerTypes, WorkerStates
<1>2. CASE LeaseFence(w)
  BY <1>0, <1>2, GrownBy, GoneState DEF LeaseFence, ServerTypes
<1>3. CASE Yield(w)
  <2>1. worker[w].pc = "exec" /\ worker[w].next <= LastExec /\ worker[w].next >= 1
    BY <1>0, <1>3 DEF Yield, Active
  <2> DEFINE batch == Append(worker[w].batch, script[worker[w].next])
  <2>2. batch \in Seq(Events) /\ worker[w].next + 1 \in Nat
    BY <2>1, YieldBatch
  <2>3. CASE PersistBatch(w, worker[w].next + 1, batch)
    BY <2>2, <2>3, PersistTypes
  <2>4. CASE UNCHANGED <<log, clean>> /\
             worker' = [worker EXCEPT ![w].batch = batch, ![w].next = @ + 1]
    <3> DEFINE new == [worker[w] EXCEPT !.batch = batch, !.next = worker[w].next + 1]
    <3>1. new \in WorkerStates
      BY <1>0, <2>2 DEF WorkerStates
    <3>2. worker' = [worker EXCEPT ![w] = new]
      BY <1>0, <2>4
    <3> HIDE DEF new
    <3>3. worker' \in [Workers -> WorkerStates]
      BY <1>0, <3>1, <3>2
    <3>4. Grown /\ clean' \in BOOLEAN
      BY <1>0, <2>4, GrownBy
    <3> QED BY <3>3, <3>4 DEF ServerTypes
  <2> QED BY <1>3, <2>3, <2>4 DEF Yield
<1>4. CASE EndsEarly(w)
  <2>1. LastExec + 1 \in Nat BY DEF LastExec, Types
  <2> DEFINE new == [worker[w] EXCEPT !.next = LastExec + 1, !.finish = "cancelled"]
  <2>2. new \in WorkerStates
    BY <1>0, <2>1 DEF WorkerStates
  <2>3. worker' = [worker EXCEPT ![w] = new] /\ log' = log /\ clean' = clean
    BY <1>0, <1>4 DEF EndsEarly
  <2> HIDE DEF new
  <2>4. worker' \in [Workers -> WorkerStates]
    BY <1>0, <2>2, <2>3
  <2>5. Grown /\ clean' \in BOOLEAN
    BY <1>0, <2>3, GrownBy
  <2> QED BY <2>4, <2>5 DEF ServerTypes
<1>5. CASE PersistTerminal(w)
  BY <1>0, <1>5, GrownBy DEF PersistTerminal, ServerTypes, WorkerStates
<1>6. CASE AppendTerminal(w)
  BY <1>0, <1>6, GrownBy DEF AppendTerminal, append, ServerTypes, WorkerStates
<1>7. CASE YieldDone(w)
  BY <1>7, DoneBatch, PersistTypes DEF YieldDone
<1>8. CASE FlushInsert(w)
  <2>1. worker[w].seen \in Nat /\ worker[w].next \in Nat /\ worker[w].batch \in Seq(Events)
    BY <1>0 DEF WorkerStates
  <2> QED BY <1>8, <2>1, FlushedTypes DEF FlushInsert
<1>9. CASE AbandonToRecovery(w)
  <2>1. worker[w].batch \in Seq(Events)
    BY <1>0 DEF WorkerStates
  <2> QED BY <1>0, <1>9, <2>1, GrownBy, GoneState DEF AbandonToRecovery, ServerTypes
<1>10. CASE CrashWorker(w)
  BY <1>0, <1>10, GrownBy, GoneState DEF CrashWorker, ServerTypes
<1> QED
  BY <1>1, <1>2, <1>3, <1>4, <1>5, <1>6, <1>7, <1>8, <1>9, <1>10 DEF WorkerStep

LEMMA SameWindow ==
    ASSUME NEW l \in Seq(Events), NEW k \in Seq(Events), NEW a \in Nat, NEW b \in Nat,
           a <= b, b <= Len(l), Len(l) <= Len(k), \A i \in 1..Len(l) : k[i] = l[i]
    PROVE  SubSeq(k, a + 1, b) = SubSeq(l, a + 1, b)
<1>1. /\ Len(l) \in Nat /\ Len(k) \in Nat
      /\ \A i \in 1..Len(l) : l[i] \in Events
  BY LenProperties
<1>2. \A i \in (a + 1)..b : i \in 1..Len(l) /\ l[i] \in Events /\ k[i] \in Events
  BY <1>1
<1> DEFINE x == SubSeq(l, a + 1, b)
           y == SubSeq(k, a + 1, b)
           n == IF a + 1 <= b THEN b - (a + 1) + 1 ELSE 0
<1>3. /\ x \in Seq(Events) /\ Len(x) = n
      /\ \A i \in 1..(b - (a + 1) + 1) : x[i] = l[(a + 1) + i - 1]
  BY <1>2, SubSeqProperties
<1>4. /\ y \in Seq(Events) /\ Len(y) = n
      /\ \A i \in 1..(b - (a + 1) + 1) : y[i] = k[(a + 1) + i - 1]
  BY <1>2, SubSeqProperties
<1>5. \A i \in 1..n : i \in 1..(b - (a + 1) + 1) /\ (a + 1) + i - 1 \in 1..Len(l)
  BY <1>1
<1> HIDE DEF x, y, n
<1>6. \A i \in 1..Len(x) : x[i] = y[i]
  BY <1>3, <1>4, <1>5
<1>7. x = y
  BY <1>3, <1>4, <1>6, SeqEqual
<1> QED
  BY <1>7 DEF x, y

LEMMA NextInWindow ==
    ASSUME NEW l \in Seq(Events), NEW a \in Nat, NEW b \in Nat, a <= b, b + 1 <= Len(l)
    PROVE  SubSeq(l, a + 1, b + 1) = Append(SubSeq(l, a + 1, b), l[b + 1])
<1>1. Len(l) \in Nat /\ \A i \in 1..Len(l) : l[i] \in Events
  BY LenProperties
<1>2. a + 1 \in 1..Len(l) /\ b + 1 \in (a + 1)..Len(l) /\ (b + 1) - 1 = b
  BY <1>1
<1>3. SubSeq(l, a + 1, b + 1) = SubSeq(l, a + 1, b) \o << l[b + 1] >>
  BY <1>2, SubSeqRecursiveSecond
<1>4. \A i \in (a + 1)..b : l[i] \in Events
  BY <1>1
<1>5. SubSeq(l, a + 1, b) \in Seq(Events) /\ l[b + 1] \in Events
  BY <1>1, <1>2, <1>4, SubSeqProperties
<1> QED
  BY <1>3, <1>5, AppendIsConcat

\* A step of the server leaves what the subscribers know true.
LEMMA ServerStep ==
    ASSUME IInv, ServerTypes, UNCHANGED <<script, client>>
    PROVE  Types' /\ WireInLog' /\ PanelInv' /\ ChatReads' /\ CommitFrom' /\ Attached'
<1>0. /\ Grown /\ worker' \in [Workers -> WorkerStates] /\ clean' \in BOOLEAN
      /\ script' = script /\ viewer' = viewer /\ conn' = conn /\ panel' = panel /\ turn' = turn
      /\ phase' = phase
      /\ Types /\ WireInLog /\ PanelInv /\ ChatReads /\ CommitFrom /\ Attached
  BY DEF ServerTypes, client, IInv, ChatInv
<1>1. /\ log \in Seq(Events) /\ log' \in Seq(Events) /\ Len(log) \in Nat /\ Len(log') \in Nat
      /\ Len(log) <= Len(log') /\ \A i \in 1..Len(log) : log'[i] = log[i]
      /\ DOMAIN log = 1..Len(log) /\ DOMAIN log' = 1..Len(log')
      /\ conn.got \in Nat /\ conn.got <= Len(log) /\ conn.sent \in Nat /\ conn.hi \in Nat
      /\ panel.stored \in Nat /\ panel.base \in Nat
  BY <1>0, LenProperties DEF Grown, Types, IsPanel, ConnStates, WireInLog
<1>2. Types'
  <2>1. IsPanel(panel)' /\ IsTurn(turn)' /\ HasFields(phase, PhaseFields)'
    BY <1>0, Zenon DEF Types, IsPanel, IsTurn, HasFields
  <2> QED BY <1>0, <1>1, <2>1 DEF Types
<1>3. WireInLog'
  BY <1>0, <1>1 DEF WireInLog
<1>4. CursorStands'
  BY <1>0, <1>1 DEF CursorStands, PanelInv
<1>5. CursorFaithful'
  <2>1. /\ panel.state.cursor = panel.stored /\ panel.base <= panel.stored /\ panel.stored <= Len(log)
        /\ panel.state.events = SubSeq(log, panel.base + 1, panel.stored)
    BY <1>0 DEF PanelInv, CursorStands, CursorFaithful
  <2>2. SubSeq(log', panel.base + 1, panel.stored) = SubSeq(log, panel.base + 1, panel.stored)
    <3>1. /\ panel.base \in Nat /\ panel.stored \in Nat /\ panel.base <= panel.stored
          /\ panel.stored <= Len(log) /\ Len(log) <= Len(log')
          /\ log \in Seq(Events) /\ log' \in Seq(Events) /\ \A i \in 1..Len(log) : log'[i] = log[i]
      BY <1>1, <2>1
    <3> QED BY <3>1, SameWindow
  <2> QED BY <1>0, <2>1, <2>2 DEF CursorFaithful
<1>6. \A i \in 0..Len(log) : (Straight(log', i) <=> Straight(log, i)) /\ Count(log', i) = Count(log, i)
  <2> TAKE i \in 0..Len(log)
  <2>1. i \in Nat /\ \A j \in 1..i : log'[j] = log[j]
    BY <1>1
  <2> QED BY <2>1, SamePrefix
<1>8. ChatReads'
  <2> SUFFICES ASSUME viewer = "chat", conn.open, Straight(log', conn.got)
               PROVE  Says(turn.text, Kept(Count(log', conn.got)))
    <3>1. Straight(log, conn.got)' <=> Straight(log', conn.got)
      BY <1>0 DEF Straight, Loud, Count, Full
    <3>2. Says(turn.text, Kept(Count(log, conn.got)))' <=> Says(turn.text, Kept(Count(log', conn.got)))
      BY <1>0 DEF Says, Kept, Loud, Count
    <3> QED BY <1>0, <3>1, <3>2, Zenon DEF ChatReads
  <2>1. conn.got \in 0..Len(log)
    BY <1>1
  <2>2. Says(turn.text, Kept(Count(log, conn.got)))
    BY <1>0, <1>6, <2>1 DEF ChatReads
  <2> QED BY <1>6, <2>1, <2>2
<1>9. CommitFrom'
  <2> SUFFICES ASSUME turn.commit.finish = "stop"
               PROVE  \E i \in DOMAIN log' : log'[i] = Stop /\
                        (Straight(log', i) => Says(turn.commit.text, Kept(Len(script))))
    BY <1>0 DEF CommitFrom, Committed, Straight, Loud, Count, Full, Says, Kept
  <2>1. PICK i \in DOMAIN log : log[i] = Stop /\ (Straight(log, i) => Says(turn.commit.text, Kept(Len(script))))
    BY <1>0 DEF CommitFrom, Committed
  <2>2. i \in DOMAIN log' /\ log'[i] = Stop /\ i \in 0..Len(log)
    BY <1>1, <2>1
  <2>3. Straight(log', i) <=> Straight(log, i)
    BY <1>6, <2>2
  <2> QED BY <2>1, <2>2, <2>3
<1>10. Attached'
  BY <1>0 DEF Attached
<1> QED
  BY <1>2, <1>3, <1>4, <1>5, <1>8, <1>9, <1>10 DEF PanelInv

-----------------------------------------------------------------------------
(* The workers.                                                             *)

\* Later events of the log leave the worker as it was placed.
LEMMA PlacedGrows ==
    ASSUME NEW wk \in WorkerStates, NEW m \in Nat, NEW n \in Nat, m <= n, Placed(wk, m)
    PROVE  Placed(wk, n)
  BY DEF Placed, WorkerStates

LEMMA PrimedRun ==
    ASSUME script' = script
    PROVE  /\ CleanRun' <=>
                (clean' => /\ OneWorker' /\ NotBegun'
                           /\ \A w \in Workers : Goes(log', worker'[w])
                           /\ Straightened(log'))
           /\ WorkersInv' <=>
                \A w \in Workers : Own(worker'[w].batch, worker'[w].finish) /\ Placed(worker'[w], Len(log'))
<1>1. DoneLast' <=> Straightened(log')
  BY DEF DoneLast, Straightened, Straight, Loud, Count, Full
<1>2. Working' <=> \A w \in Workers : Goes(log', worker'[w])
  BY DEF Working, Goes, Follows, Straight, Loud, Count, Full
<1>3. WorkersInv' <=> \A w \in Workers : Own(worker'[w].batch, worker'[w].finish) /\ Placed(worker'[w], Len(log'))
  BY DEF WorkersInv, Own, Placed
<1> QED
  BY <1>1, <1>2, <1>3, Zenon DEF CleanRun

\* One worker moves; the others, in a clean run, have not begun.
LEMMA WorkerMoves ==
    ASSUME Types, WorkersInv, CleanRun, script' = script, Grown,
           NEW w \in Workers, Active(worker[w]), clean' => clean,
           NEW new \in WorkerStates, worker' = [worker EXCEPT ![w] = new], new.pc # "idle",
           Own(new.batch, new.finish), Placed(new, Len(log')),
           clean' => Goes(log', new) /\ Straightened(log')
    PROVE  CleanRun' /\ WorkersInv'
<1>1. /\ worker \in [Workers -> WorkerStates] /\ worker'[w] = new
      /\ \A v \in Workers : v # w => worker'[v] = worker[v]
      /\ Len(log) \in Nat /\ Len(log') \in Nat /\ Len(log) <= Len(log')
  BY DEF Types, Grown
<1>2. \A v \in Workers : Own(worker'[v].batch, worker'[v].finish) /\ Placed(worker'[v], Len(log'))
  <2> TAKE v \in Workers
  <2>1. CASE v = w
    BY <1>1, <2>1
  <2>2. CASE v # w
    BY <1>1, <2>2, PlacedGrows DEF WorkersInv
  <2> QED BY <2>1, <2>2
<1>3. ASSUME clean'
      PROVE  OneWorker' /\ NotBegun' /\ \A v \in Workers : Goes(log', worker'[v])
  <2>1. OneWorker /\ worker[w].pc # "idle"
    BY <1>3 DEF CleanRun, Active
  <2>2. \A v \in Workers : worker'[v].pc # "idle" <=> worker[v].pc # "idle"
    BY <1>1, <2>1
  <2>3. OneWorker' /\ NotBegun'
    BY <1>1, <2>1, <2>2 DEF OneWorker, NotBegun
  <2>4. \A v \in Workers : Active(worker'[v]) => v = w
    BY <1>1, <2>1, <2>2 DEF OneWorker, Active
  <2>5. \A v \in Workers : Goes(log', worker'[v])
    BY <1>1, <1>3, <2>4 DEF Goes
  <2> QED BY <2>3, <2>5
<1> QED
  BY <1>2, <1>3, PrimedRun

Gone == [IdleWorker EXCEPT !.pc = "gone"]

LEMMA GoneKeeps ==
    /\ Gone \in WorkerStates /\ Gone.pc = "gone" /\ Own(Gone.batch, Gone.finish)
    /\ \A n \in Nat : Placed(Gone, n)
    /\ \A l : Goes(l, Gone)
<1>1. Gone \in WorkerStates
  BY GoneState DEF Gone
<1>2. Gone.pc = "gone" /\ Gone.batch = <<>>
  BY DEF Gone, IdleWorker
<1>3. 1..Len(Gone.batch) = {}
  BY <1>2
<1> QED
  BY <1>1, <1>2, <1>3 DEF Own, Placed, Goes, Active

\* A worker that crashes, raises or has lost its lease.
LEMMA WorkerGoes ==
    ASSUME Types, WorkersInv, CleanRun, script' = script, Grown,
           NEW w \in Workers, Active(worker[w]), worker' = [worker EXCEPT ![w] = Gone],
           clean' => clean /\ log' = log
    PROVE  CleanRun' /\ WorkersInv'
<1>1. Len(log') \in Nat
  BY DEF Grown
<1>2. clean' => Straightened(log')
  BY DEF CleanRun, DoneLast
<1> QED
  BY <1>1, <1>2, GoneKeeps, WorkerMoves

\* The log of a clean run after a flush.
LEMMA FlushedLog ==
    ASSUME Types, CleanRun, NEW w \in Workers, Active(worker[w]),
           NEW seen \in Nat, NEW next \in Nat, NEW batch \in Seq(Events),
           Own(batch, worker[w].finish),
           clean /\ worker[w].finish = "stop" /\ seen = Len(log) => Follows(log, batch, next),
           Flushed(w, seen, next, batch), clean'
    PROVE  /\ clean /\ Straightened(log')
           /\ worker[w].finish = "stop" => Follows(log', <<>>, next)
           /\ (\A k \in 1..Len(batch) : batch[k].kind # "done") =>
                 \A i \in DOMAIN log' : log'[i].kind # "done"
<1>1. clean /\ seen = Len(log) /\ log' = log \o batch
  BY DEF Flushed, append_many
<1>2. /\ script \in Seq(Yields) /\ log \in Seq(Events) /\ Len(log) \in Nat /\ Len(batch) \in Nat
      /\ log' \in Seq(Events) /\ Len(log') = Len(log) + Len(batch) /\ DOMAIN log' = 1..(Len(log) + Len(batch))
      /\ \A i \in 1..(Len(log) + Len(batch)) : log'[i] = IF i <= Len(log) THEN log[i] ELSE batch[i - Len(log)]
  BY <1>1, ConcatProperties, LenProperties DEF Types
<1>3. \A i \in 1..Len(log) : log[i].kind # "done"
  <2>1. Goes(log, worker[w]) /\ DOMAIN log = 1..Len(log)
    BY <1>1, <1>2, LenProperties DEF CleanRun, Working
  <2> QED BY <2>1 DEF Goes
<1>4. ASSUME NEW i \in DOMAIN log', log'[i].kind = "done"
      PROVE  \E k \in 1..Len(batch) : log'[i] = batch[k]
  <2>1. ~ (i <= Len(log))
    BY <1>2, <1>3, <1>4
  <2>2. i - Len(log) \in 1..Len(batch) /\ log'[i] = batch[i - Len(log)]
    BY <1>2, <2>1
  <2> QED BY <2>2
<1>5. worker[w].finish = "stop" => Follows(log', <<>>, next) /\ Straight(log', Len(log'))
  BY <1>1, <1>2, FollowsConcat
<1>6. ASSUME NEW i \in DOMAIN log', log'[i] = Stop PROVE Straight(log', i)
  <2>1. Stop.kind = "done" /\ Stop.arg = "stop"
    BY <1>2, ScriptFacts
  <2>2. PICK k \in 1..Len(batch) : log'[i] = batch[k]
    BY <1>4, <1>6, <2>1
  <2>3. Stop = Ev("done", worker[w].finish)
    BY <1>6, <2>1, <2>2 DEF Own
  <2>4. worker[w].finish = "stop"
    BY <2>1, <2>3 DEF Ev
  <2>5. i \in 0..Len(log') /\ Len(log') \in Nat
    BY <1>2
  <2> QED BY <1>5, <2>4, <2>5, StraightUpTo
<1> QED
  BY <1>1, <1>4, <1>5, <1>6 DEF Straightened

LEMMA FlushKeeps ==
    ASSUME Types, WorkersInv, CleanRun, script' = script, NEW w \in Workers, Active(worker[w]),
           NEW seen \in Nat, NEW next \in Nat, next >= 1, NEW batch \in Seq(Events),
           Own(batch, worker[w].finish),
           next <= Len(script) + 1 => \A k \in 1..Len(batch) : batch[k].kind # "done",
           clean /\ worker[w].finish = "stop" /\ seen = Len(log) => Follows(log, batch, next),
           Flushed(w, seen, next, batch)
    PROVE  CleanRun' /\ WorkersInv'
<1>1. /\ Grown /\ Len(log') \in Nat
      /\ worker \in [Workers -> WorkerStates] /\ script \in Seq(Yields) /\ Len(script) \in Nat
  BY FlushedTypes, LenProperties DEF ServerTypes, Types, Grown
<1>2. clean' => /\ clean /\ Straightened(log')
                /\ worker[w].finish = "stop" => Follows(log', <<>>, next)
                /\ (\A k \in 1..Len(batch) : batch[k].kind # "done") =>
                      \A i \in DOMAIN log' : log'[i].kind # "done"
  BY FlushedLog
<1>3. CASE next > LastExec + 1
  <2>1. worker' = [worker EXCEPT ![w] = Gone]
    BY <1>3 DEF Flushed, Release, Gone
  <2> QED BY <1>1, <1>2, <2>1, GoneKeeps, WorkerMoves
<1>4. CASE ~ (next > LastExec + 1)
  <2> DEFINE new == [worker[w] EXCEPT !.batch = <<>>, !.seen = 0, !.pc = "exec", !.next = next]
  <2>1. worker' = [worker EXCEPT ![w] = new]
    BY <1>1, <1>4 DEF Flushed
  <2>2. new \in WorkerStates
    BY <1>1, EmptySeq DEF WorkerStates
  <2>3. new.pc = "exec" /\ new.batch = <<>> /\ new.next = next /\ new.finish = worker[w].finish
    BY <1>1 DEF WorkerStates
  <2> HIDE DEF new
  <2>4. next <= Len(script) + 1
    BY <1>1, <1>4 DEF LastExec
  <2>5. 1..Len(new.batch) = {}
    BY <2>3
  <2>6. Own(new.batch, new.finish) /\ Placed(new, Len(log')) /\ new.pc # "idle"
    BY <2>3, <2>4, <2>5 DEF Own, Placed
  <2>7. clean' => Goes(log', new)
    BY <1>2, <2>3, <2>4 DEF Goes
  <2> QED BY <1>1, <1>2, <2>1, <2>2, <2>6, <2>7, WorkerMoves
<1> QED
  BY <1>3, <1>4

\* A flush, or a worker that stalls between its read and its insert.
LEMMA PersistKeeps ==
    ASSUME Types, WorkersInv, CleanRun, script' = script, NEW w \in Workers, Active(worker[w]),
           NEW next \in Nat, next >= 1, next <= Len(script) + 2, NEW batch \in Seq(Events),
           Own(batch, worker[w].finish),
           next <= Len(script) + 1 => \A k \in 1..Len(batch) : batch[k].kind # "done",
           clean /\ worker[w].finish = "stop" => Follows(log, batch, next),
           PersistBatch(w, next, batch)
    PROVE  CleanRun' /\ WorkersInv'
<1>1. /\ log \in Seq(Events) /\ Len(log) \in Nat /\ worker \in [Workers -> WorkerStates]
  BY LenProperties DEF Types
<1>2. CASE Flushed(w, Len(log), next, batch)
  BY <1>1, <1>2, FlushKeeps
<1>3. CASE UNCHANGED <<log, clean>> /\
           worker' = [worker EXCEPT ![w].pc = "insert", ![w].seen = Len(log), ![w].next = next,
                                    ![w].batch = batch]
  <2> DEFINE new == [worker[w] EXCEPT !.pc = "insert", !.seen = Len(log), !.next = next, !.batch = batch]
  <2>1. worker' = [worker EXCEPT ![w] = new]
    BY <1>1, <1>3
  <2>2. new \in WorkerStates
    BY <1>1 DEF WorkerStates
  <2>3. /\ new.pc = "insert" /\ new.batch = batch /\ new.next = next /\ new.finish = worker[w].finish
        /\ new.seen = Len(log)
    BY <1>1 DEF WorkerStates
  <2> HIDE DEF new
  <2>4. Own(new.batch, new.finish) /\ Placed(new, Len(log')) /\ new.pc # "idle"
    BY <1>1, <1>3, <2>3 DEF Placed
  <2>5. clean' => Straightened(log') /\ \A i \in DOMAIN log' : log'[i].kind # "done"
    BY <1>3 DEF CleanRun, DoneLast, Working, Goes
  <2>6. clean' => Goes(log', new)
    BY <1>3, <2>3, <2>5 DEF Goes
  <2>7. Grown
    BY <1>1, <1>3, GrownBy
  <2>8. clean' => clean
    BY <1>3
  <2> QED BY <2>1, <2>2, <2>4, <2>5, <2>6, <2>7, <2>8, WorkerMoves
<1> QED
  BY <1>2, <1>3 DEF PersistBatch

\* A buffer that takes the next event of the script goes on following the log.
LEMMA FollowsMore ==
    ASSUME Types, NEW batch \in Seq(Events), NEW next \in Nat, next >= 1, next <= Len(script) + 1,
           Follows(log, batch, next), NEW ev \in Events, ev = Full[next]
    PROVE  Follows(log, Append(batch, ev), next + 1)
<1> DEFINE m == Count(log, Len(log))
           n == Len(batch)
           more == Append(batch, ev)
<1>1. /\ m \in Nat /\ n \in Nat /\ Len(Full) = Len(script) + 1 /\ Len(script) \in Nat
  BY CountFacts, ScriptFacts, LenProperties DEF Types
<1>2. Straight(log, Len(log)) /\ m + n + 1 = next /\ m + n <= Len(Full) /\ \A k \in 1..n : batch[k] = Full[m + k]
  BY DEF Follows
<1>3. Len(more) = n + 1 /\ more[n + 1] = ev /\ \A k \in 1..n : more[k] = batch[k]
  BY AppendProperties
<1> HIDE DEF m, n, more
<1>4. m + (n + 1) = next /\ m + (n + 1) <= Len(Full) /\ m + (n + 1) + 1 = next + 1
  BY <1>1, <1>2
<1>5. \A k \in 1..(n + 1) : more[k] = Full[m + k]
  <2> TAKE k \in 1..(n + 1)
  <2>1. k \in 1..n \/ k = n + 1
    BY <1>1
  <2> QED BY <1>2, <1>3, <1>4, <2>1
<1>6. Follows(log, more, next + 1)
  BY <1>2, <1>3, <1>4, <1>5 DEF Follows, m
<1> QED
  BY <1>6 DEF more

\* The buffer after it: only its last event may be a done.
LEMMA OwnMore ==
    ASSUME NEW batch \in Seq(Events), NEW ev \in Events, NEW finish
    PROVE  LET more == Append(batch, ev) IN
           /\ Own(batch, finish) /\ (ev.kind = "done" => ev = Ev("done", finish)) => Own(more, finish)
           /\ (\A k \in 1..Len(batch) : batch[k].kind # "done") /\ ev.kind # "done" =>
                 \A k \in 1..Len(more) : more[k].kind # "done"
<1> DEFINE more == Append(batch, ev)
           n == Len(batch)
<1>1. n \in Nat /\ Len(more) = n + 1 /\ more[n + 1] = ev /\ \A k \in 1..n : more[k] = batch[k]
  BY AppendProperties
<1>2. \A k \in 1..Len(more) : k \in 1..n \/ k = n + 1
  BY <1>1
<1> QED
  BY <1>1, <1>2 DEF Own

LEMMA YieldKeeps ==
    ASSUME Types, WorkersInv, CleanRun, Grown, NEW w \in Workers, Yield(w)
    PROVE  CleanRun' /\ WorkersInv'
<1> DEFINE next == worker[w].next
           ev == script[next]
           batch == Append(worker[w].batch, ev)
<1>1. /\ worker[w].pc = "exec" /\ next <= LastExec /\ Active(worker[w]) /\ next >= 1 /\ script' = script
      /\ worker[w].batch \in Seq(Events) /\ next \in Nat /\ worker \in [Workers -> WorkerStates]
      /\ Len(script) \in Nat /\ LastExec = Len(script) /\ clean \in BOOLEAN
      /\ Own(worker[w].batch, worker[w].finish) /\ \A k \in 1..Len(worker[w].batch) : worker[w].batch[k].kind # "done"
  BY LenProperties DEF Yield, Active, WorkersInv, Placed, Types, WorkerStates, LastExec
<1>2. next \in DOMAIN script /\ ev \in Yields /\ ev \in Events /\ batch \in Seq(Events)
  BY <1>1, YieldBatch
<1>3. ev = Full[next] /\ ev.kind # "done"
  BY <1>2, ScriptFacts, EventFacts DEF Types, Lifecycle
<1>4. Own(batch, worker[w].finish) /\ \A k \in 1..Len(batch) : batch[k].kind # "done"
  BY <1>1, <1>2, <1>3, OwnMore
<1>5. clean /\ worker[w].finish = "stop" => Follows(log, batch, next + 1)
  <2> SUFFICES ASSUME clean, worker[w].finish = "stop" PROVE Follows(log, batch, next + 1)
    OBVIOUS
  <2>1. Follows(log, worker[w].batch, next)
    BY <1>1 DEF CleanRun, Working, Goes, Doomed
  <2> QED BY <1>1, <1>2, <1>3, <2>1, FollowsMore
<1>6. next + 1 \in Nat /\ next + 1 >= 1 /\ next + 1 <= Len(script) + 1 /\ next + 1 <= Len(script) + 2
  BY <1>1
<1>7. CASE PersistBatch(w, next + 1, batch)
  <2> HIDE DEF next, ev, batch
  <2> QED BY <1>1, <1>2, <1>4, <1>5, <1>6, <1>7, PersistKeeps
<1>8. CASE UNCHANGED <<log, clean>> /\
           worker' = [worker EXCEPT ![w].batch = batch, ![w].next = @ + 1]
  <2> DEFINE new == [worker[w] EXCEPT !.batch = batch, !.next = next + 1]
  <2>1. worker' = [worker EXCEPT ![w] = new]
    BY <1>1, <1>8
  <2>2. new \in WorkerStates
    BY <1>1, <1>2, <1>6 DEF WorkerStates
  <2>3. new.pc = "exec" /\ new.batch = batch /\ new.next = next + 1 /\ new.finish = worker[w].finish
    BY <1>1 DEF WorkerStates
  <2> HIDE DEF new, next, batch
  <2>4. Own(new.batch, new.finish) /\ Placed(new, Len(log')) /\ new.pc # "idle"
    BY <1>4, <1>6, <2>3 DEF Placed
  <2>5. clean' => Straightened(log') /\ \A i \in DOMAIN log' : log'[i].kind # "done"
    BY <1>1, <1>8 DEF CleanRun, DoneLast, Working, Goes
  <2>6. clean' => Goes(log', new)
    BY <1>5, <1>8, <2>3, <2>5 DEF Goes
  <2>7. clean' => clean
    BY <1>8
  <2> QED BY <1>1, <2>1, <2>2, <2>4, <2>5, <2>6, <2>7, WorkerMoves
<1> QED
  BY <1>7, <1>8 DEF Yield

LEMMA YieldDoneKeeps ==
    ASSUME Types, WorkersInv, CleanRun, NEW w \in Workers, YieldDone(w)
    PROVE  CleanRun' /\ WorkersInv'
<1> DEFINE ev == Ev("done", worker[w].finish)
           batch == Append(worker[w].batch, ev)
           next == LastExec + 2
<1>1. /\ worker[w].pc = "done" /\ Active(worker[w]) /\ script' = script /\ worker[w].next = Len(script) + 1
      /\ worker[w].batch \in Seq(Events) /\ Len(script) \in Nat /\ LastExec = Len(script)
      /\ Own(worker[w].batch, worker[w].finish)
  BY LenProperties DEF YieldDone, Active, WorkersInv, Placed, Types, WorkerStates, LastExec
<1>2. ev \in Events /\ batch \in Seq(Events) /\ next \in Nat
  BY DoneBatch
<1>3. next >= 1 /\ next <= Len(script) + 2 /\ ~ (next <= Len(script) + 1) /\ next = (Len(script) + 1) + 1
  BY <1>1
<1>4. Own(batch, worker[w].finish)
  BY <1>1, <1>2, OwnMore
<1>5. clean /\ worker[w].finish = "stop" => Follows(log, batch, next)
  <2> SUFFICES ASSUME clean, worker[w].finish = "stop" PROVE Follows(log, batch, next)
    OBVIOUS
  <2>1. Follows(log, worker[w].batch, Len(script) + 1)
    BY <1>1 DEF CleanRun, Working, Goes, Doomed
  <2>2. ev = Full[Len(script) + 1]
    BY ScriptFacts DEF Stop, Types
  <2>3. Len(script) + 1 \in Nat /\ Len(script) + 1 >= 1 /\ Len(script) + 1 <= Len(script) + 1
    BY <1>1
  <2> HIDE DEF ev
  <2>4. Follows(log, Append(worker[w].batch, ev), (Len(script) + 1) + 1)
    BY <1>1, <1>2, <2>1, <2>2, <2>3, FollowsMore
  <2> QED BY <1>3, <2>4
<1>6. PersistBatch(w, next, batch)
  BY DEF YieldDone
<1> HIDE DEF next, ev, batch
<1> QED
  BY <1>1, <1>2, <1>3, <1>4, <1>5, <1>6, PersistKeeps

LEMMA FlushInsertKeeps ==
    ASSUME Types, WorkersInv, CleanRun, NEW w \in Workers, FlushInsert(w)
    PROVE  CleanRun' /\ WorkersInv'
<1> DEFINE seen == worker[w].seen  next == worker[w].next  batch == worker[w].batch
<1>1. /\ worker[w].pc = "insert" /\ Active(worker[w]) /\ script' = script /\ next >= 1
      /\ batch \in Seq(Events) /\ seen \in Nat /\ next \in Nat
      /\ Own(batch, worker[w].finish)
      /\ next <= Len(script) + 1 => \A k \in 1..Len(batch) : batch[k].kind # "done"
  BY DEF FlushInsert, Active, WorkersInv, Placed, Types, WorkerStates
<1>2. clean /\ worker[w].finish = "stop" /\ seen = Len(log) => Follows(log, batch, next)
  BY <1>1 DEF CleanRun, Working, Goes, Doomed
<1>3. Flushed(w, seen, next, batch)
  BY DEF FlushInsert
<1> HIDE DEF seen, next, batch
<1> QED
  BY <1>1, <1>2, <1>3, FlushKeeps

\* Steps of the worker that store at most one event that is not of the runtime.
LEMMA SilentMove ==
    ASSUME Types, WorkersInv, CleanRun, script' = script, clean' = clean, NEW w \in Workers, Active(worker[w]),
           NEW new \in WorkerStates, worker' = [worker EXCEPT ![w] = new], Active(new), new.pc # "insert",
           worker[w].pc # "insert",
           new.batch = worker[w].batch, Placed(new, Len(log)),
           Own(new.batch, new.finish),
           \/ new.finish = worker[w].finish /\ new.next = worker[w].next
           \/ new.finish = "cancelled",
           log' = log \/ \E ev \in Events : ev.kind \in Silent /\ log' = Append(log, ev)
    PROVE  CleanRun' /\ WorkersInv'
<1>1. log \in Seq(Events) /\ Len(log) \in Nat /\ DOMAIN log = 1..Len(log)
  BY LenProperties DEF Types
<1>2. Grown /\ Len(log') \in Nat /\ DOMAIN log' = 1..Len(log')
  BY <1>1, GrownBy, LenProperties DEF Grown
<1>3. /\ \A batch, next : Follows(log, batch, next) => Follows(log', batch, next)
      /\ \A i \in DOMAIN log' : log'[i].kind = "done" => i \in DOMAIN log
  <2>1. CASE log' = log
    BY <2>1
  <2>2. CASE \E ev \in Events : ev.kind \in Silent /\ log' = Append(log, ev)
    <3>1. PICK ev \in Events : ev.kind \in Silent /\ log' = Append(log, ev)
      BY <2>2
    <3>2. \A batch, next : Follows(log, batch, next) => Follows(log', batch, next)
      BY <1>1, <3>1, SilentAppend
    <3>6. /\ Len(Append(log, ev)) = Len(log) + 1 /\ Append(log, ev)[Len(log) + 1] = ev
      BY <1>1, AppendProperties
    <3>5. Len(log') = Len(log) + 1 /\ log'[Len(log) + 1] = ev
      BY <3>1, <3>6
    <3>3. Len(log') = Len(log) + 1 /\ log'[Len(log) + 1].kind \in Silent
      BY <3>1, <3>5
    <3>4. \A i \in 1..(Len(log) + 1) : i \in 1..Len(log) \/ i = Len(log) + 1
      BY <1>1
    <3> QED BY <1>1, <1>2, <3>2, <3>3, <3>4 DEF Silent
  <2> QED BY <2>1, <2>2
<1>4. clean' => \A i \in DOMAIN log' : log'[i].kind # "done"
  BY <1>1, <1>2, <1>3 DEF CleanRun, Working, Goes, Grown
<1>5. clean' => Straightened(log')
  BY <1>4, ScriptFacts DEF Straightened, Types
<1>6. clean' => Goes(log', new)
  <2> SUFFICES ASSUME clean', new.finish = "stop" PROVE Follows(log', new.batch, new.next)
    BY <1>4 DEF Goes
  <2>1. Follows(log, worker[w].batch, worker[w].next)
    BY DEF CleanRun, Working, Goes, Doomed
  <2> QED BY <1>3, <2>1
<1>7. Placed(new, Len(log')) /\ new.pc # "idle"
  BY <1>1, <1>2, PlacedGrows DEF Active, Grown
<1> QED
  BY <1>2, <1>5, <1>6, <1>7, WorkerMoves

\* The first lease of a run.
LEMMA AcquireKeeps ==
    ASSUME Types, WorkersInv, CleanRun, NEW w \in Workers, Acquire(w)
    PROVE  CleanRun' /\ WorkersInv'
<1> DEFINE ev == Ev("run.started", 0)
           new == [worker[w] EXCEPT !.pc = "exec"]
<1>1. /\ worker[w].pc = "idle" /\ worker \in [Workers -> WorkerStates] /\ script' = script
      /\ worker' = [worker EXCEPT ![w] = new] /\ log' = Append(log, ev)
      /\ log \in Seq(Events) /\ Len(log) \in Nat /\ Len(script) \in Nat
      /\ worker[w] = IdleWorker
      /\ clean' => clean /\ \A v \in Workers : worker[v].pc = "idle"
  BY LenProperties DEF Acquire, append, Types, WorkersInv, Placed
<1>2. ev \in Events /\ ev.kind \in Silent
  BY EventFacts DEF Lifecycle, Silent
<1>3. new.pc = "exec" /\ new.batch = <<>> /\ new.next = 1 /\ new.finish = "stop"
  BY <1>1 DEF IdleWorker
<1>4. worker'[w] = new /\ \A v \in Workers : v # w => worker'[v] = worker[v]
  BY <1>1
<1>5. Grown /\ Len(log') \in Nat /\ Len(log) <= Len(log') /\ DOMAIN log' = 1..Len(log')
  BY <1>1, <1>2, GrownBy, LenProperties DEF Grown
<1> HIDE DEF new
<1>6. \A v \in Workers : Own(worker'[v].batch, worker'[v].finish) /\ Placed(worker'[v], Len(log'))
  <2> TAKE v \in Workers
  <2>1. CASE v = w
    <3>1. 1..Len(new.batch) = {} BY <1>3
    <3> QED BY <1>1, <1>3, <1>4, <2>1, <3>1 DEF Own, Placed
  <2>2. CASE v # w
    BY <1>1, <1>4, <1>5, <2>2, PlacedGrows DEF WorkersInv
  <2> QED BY <2>1, <2>2
<1>7. ASSUME clean'
      PROVE  OneWorker' /\ NotBegun' /\ (\A v \in Workers : Goes(log', worker'[v])) /\ Straightened(log')
  <2>1. \A v \in Workers : worker'[v].pc # "idle" => v = w
    BY <1>1, <1>4, <1>7
  <2>2. OneWorker'
    BY <2>1 DEF OneWorker
  <2>3. NotBegun'
    BY <1>3, <1>4 DEF NotBegun
  <2>4. Loud(log', Len(log')) = {}
    <3>1. Loud(log, Len(log)) = {}
      BY <1>1, <1>7 DEF CleanRun, NotBegun
    <3> QED BY <1>1, <1>2, <3>1, SilentAppend
  <2>5. \A i \in DOMAIN log' : log'[i].kind \in Silent
    BY <1>5, <2>4 DEF Loud
  <2>6. Straight(log', Len(log')) /\ Count(log', Len(log')) = 0
    BY <2>4, FS_EmptySet DEF Straight, Count
  <2>7. Follows(log', new.batch, new.next)
    <3>1. Len(new.batch) = 0 /\ 1..Len(new.batch) = {} /\ Len(Full) \in Nat
      BY <1>3, ScriptFacts DEF Types
    <3> QED BY <1>3, <2>6, <3>1 DEF Follows
  <2>8. \A i \in DOMAIN log' : log'[i].kind # "done"
    BY <2>5 DEF Silent
  <2>9. Straightened(log')
    BY <2>8, ScriptFacts DEF Straightened, Types
  <2>10. \A v \in Workers : Goes(log', worker'[v])
    BY <1>4, <2>1, <2>7, <2>8 DEF Goes, Active
  <2> QED BY <2>2, <2>3, <2>9, <2>10
<1> QED
  BY <1>1, <1>6, <1>7, PrimedRun

LEMMA WorkerKeeps ==
    ASSUME Types, WorkersInv, CleanRun, NEW w \in Workers,
           WorkerStep(w) \/ AbandonToRecovery(w) \/ CrashWorker(w)
    PROVE  CleanRun' /\ WorkersInv'
<1>0. /\ log \in Seq(Events) /\ worker \in [Workers -> WorkerStates] /\ Len(script) \in Nat
      /\ clean \in BOOLEAN /\ LastExec = Len(script)
      /\ Grown
      /\ Own(worker[w].batch, worker[w].finish) /\ Placed(worker[w], Len(log))
  BY WorkerTypes, LenProperties DEF ServerTypes, Types, WorkersInv, LastExec
<1>1. CASE Acquire(w)
  BY <1>1, AcquireKeeps
<1>2. CASE LeaseFence(w)
  <2>1. /\ Active(worker[w]) /\ worker' = [worker EXCEPT ![w] = Gone] /\ script' = script
        /\ clean' => clean /\ log' = log
    BY <1>2 DEF LeaseFence, Active, Gone
  <2> QED BY <1>0, <2>1, WorkerGoes
<1>3. CASE Yield(w)
  BY <1>0, <1>3, YieldKeeps
<1>4. CASE EndsEarly(w)
  <2> DEFINE new == [worker[w] EXCEPT !.next = LastExec + 1, !.finish = "cancelled"]
  <2>1. /\ worker[w].pc = "exec" /\ Active(worker[w]) /\ script' = script /\ clean' = clean /\ log' = log
        /\ worker' = [worker EXCEPT ![w] = new]
    BY <1>0, <1>4 DEF EndsEarly, Active
  <2>4. LastExec + 1 \in Nat /\ LastExec + 1 = Len(script) + 1
    BY <1>0
  <2>5. new \in WorkerStates /\ new.next = LastExec + 1
    BY <1>0, <2>4 DEF WorkerStates
  <2>2. /\ new \in WorkerStates /\ new.pc = "exec" /\ new.batch = worker[w].batch
        /\ new.finish = "cancelled" /\ new.next = Len(script) + 1
    BY <1>0, <2>1, <2>4, <2>5 DEF WorkerStates
  <2> HIDE DEF new
  <2>3. Active(new) /\ Placed(new, Len(log)) /\ Own(new.batch, new.finish)
    BY <1>0, <2>1, <2>2 DEF Active, Placed, Own
  <2> QED BY <2>1, <2>2, <2>3, SilentMove
<1>5. CASE PersistTerminal(w)
  <2> DEFINE new == [worker[w] EXCEPT !.pc = "event"]
  <2>1. /\ worker[w].pc = "exec" /\ worker[w].next = Len(script) + 1 /\ Active(worker[w])
        /\ script' = script /\ clean' = clean /\ log' = log
        /\ worker' = [worker EXCEPT ![w] = new]
    BY <1>0, <1>5 DEF PersistTerminal, Active
  <2>2. /\ new \in WorkerStates /\ new.pc = "event" /\ new.batch = worker[w].batch
        /\ new.finish = worker[w].finish /\ new.next = worker[w].next
    BY <1>0, <2>1 DEF WorkerStates
  <2> HIDE DEF new
  <2>3. Active(new) /\ Placed(new, Len(log)) /\ Own(new.batch, new.finish)
    BY <1>0, <2>1, <2>2 DEF Active, Placed, Own
  <2> QED BY <2>1, <2>2, <2>3, SilentMove
<1>6. CASE AppendTerminal(w)
  <2> DEFINE new == [worker[w] EXCEPT !.pc = "done"]
  <2>1. /\ worker[w].pc = "event" /\ worker[w].next = Len(script) + 1 /\ Active(worker[w])
        /\ script' = script /\ clean' = clean
        /\ worker' = [worker EXCEPT ![w] = new]
    BY <1>0, <1>6 DEF AppendTerminal, Active, Placed
  <2>2. /\ new \in WorkerStates /\ new.pc = "done" /\ new.batch = worker[w].batch
        /\ new.finish = worker[w].finish /\ new.next = worker[w].next
    BY <1>0, <2>1 DEF WorkerStates
  <2> HIDE DEF new
  <2>3. Active(new) /\ Placed(new, Len(log)) /\ Own(new.batch, new.finish)
    BY <1>0, <2>1, <2>2 DEF Active, Placed, Own
  <2>4. \E ev \in Events : ev.kind \in Silent /\ log' = Append(log, ev)
    <3> DEFINE k == IF worker[w].finish = "cancelled" THEN "run.cancelled" ELSE "run.completed"
    <3>1. k \in Lifecycle /\ k \in Silent
      BY DEF Lifecycle, Silent
    <3>2. log' = Append(log, Ev(k, 0))
      BY <1>6 DEF AppendTerminal, append
    <3> HIDE DEF k
    <3>3. Ev(k, 0) \in Events /\ Ev(k, 0).kind = k
      BY <3>1, EventFacts
    <3> QED BY <3>1, <3>2, <3>3
  <2> QED BY <2>1, <2>2, <2>3, <2>4, SilentMove
<1>7. CASE YieldDone(w)
  BY <1>7, YieldDoneKeeps
<1>8. CASE FlushInsert(w)
  BY <1>8, FlushInsertKeeps
<1>9. CASE AbandonToRecovery(w)
  <2>1. /\ Active(worker[w]) /\ worker' = [worker EXCEPT ![w] = Gone] /\ script' = script
        /\ ~ clean'
    BY <1>9 DEF AbandonToRecovery, Active, Gone
  <2> QED BY <1>0, <2>1, WorkerGoes
<1>10. CASE CrashWorker(w)
  <2>1. /\ Active(worker[w]) /\ worker' = [worker EXCEPT ![w] = Gone] /\ script' = script
        /\ ~ clean'
    BY <1>10 DEF CrashWorker, Active, Gone
  <2> QED BY <1>0, <2>1, WorkerGoes
<1> QED
  BY <1>1, <1>2, <1>3, <1>4, <1>5, <1>6, <1>7, <1>8, <1>9, <1>10 DEF WorkerStep

\* Recovery and the users only add events that are not of the runtime.
LEMMA ReconcileKeeps ==
    ASSUME Types, WorkersInv, CleanRun, Reconcile
    PROVE  ServerTypes /\ CleanRun' /\ WorkersInv'
<1> DEFINE ev == Ev("recovery.requeued", 0)
<1>1. ev \in Events /\ ev.kind \in Silent /\ ev.kind # "done"
  BY EventFacts DEF Lifecycle, Silent
<1>2. /\ script' = script /\ worker' = worker /\ clean' = clean
      /\ log' = log \/ log' = Append(log, ev)
      /\ log \in Seq(Events) /\ Len(log) \in Nat /\ DOMAIN log = 1..Len(log)
      /\ worker \in [Workers -> WorkerStates] /\ clean \in BOOLEAN
  BY LenProperties DEF Reconcile, append, Types
<1> HIDE DEF ev
<1>3. Grown /\ Len(log') \in Nat /\ Len(log) <= Len(log') /\ DOMAIN log' = 1..Len(log')
  BY <1>1, <1>2, GrownBy, LenProperties DEF Grown
<1>4. \A v \in Workers : Own(worker'[v].batch, worker'[v].finish) /\ Placed(worker'[v], Len(log'))
  BY <1>2, <1>3, PlacedGrows DEF WorkersInv
<1>5. /\ \A batch, next : Follows(log, batch, next) => Follows(log', batch, next)
      /\ Loud(log', Len(log')) = Loud(log, Len(log))
  BY <1>1, <1>2, SilentAppend
<1>6. \A i \in DOMAIN log' : log'[i].kind = "done" => i \in DOMAIN log /\ log[i] = log'[i]
  <2>1. CASE log' = log
    BY <2>1
  <2>2. CASE log' = Append(log, ev)
    <3>1. Len(log') = Len(log) + 1 /\ log'[Len(log) + 1] = ev
      BY <1>1, <1>2, <2>2, AppendProperties
    <3>2. \A i \in 1..(Len(log) + 1) : i \in 1..Len(log) \/ i = Len(log) + 1
      BY <1>2
    <3> QED BY <1>1, <1>2, <1>3, <3>1, <3>2 DEF Grown
  <2> QED BY <1>2, <2>1, <2>2
<1>7. ASSUME clean'
      PROVE  OneWorker' /\ NotBegun' /\ (\A v \in Workers : Goes(log', worker'[v])) /\ Straightened(log')
  <2>1. OneWorker' /\ NotBegun'
    BY <1>2, <1>5, <1>7 DEF CleanRun, OneWorker, NotBegun, Loud
  <2>2. Straightened(log')
    <3> SUFFICES ASSUME NEW i \in DOMAIN log', log'[i] = Stop PROVE Straight(log', i)
      BY DEF Straightened
    <3>1. i \in DOMAIN log /\ log[i] = Stop
      BY <1>6, ScriptFacts DEF Types
    <3>2. Straight(log, i)
      BY <1>2, <1>7, <3>1 DEF CleanRun, DoneLast, Straightened
    <3>4. \A j \in 1..Len(log) : log'[j] = log[j]
      BY <1>3 DEF Grown
    <3>5. i \in 1..Len(log)
      BY <1>2, <3>1
    <3>3. i \in Nat /\ \A j \in 1..i : log'[j] = log[j]
      BY <1>2, <3>4, <3>5
    <3> QED BY <3>2, <3>3, SamePrefix
  <2>3. \A v \in Workers : Goes(log', worker'[v])
    <3> SUFFICES ASSUME NEW v \in Workers, Active(worker[v]) PROVE Goes(log', worker[v])
      BY <1>2 DEF Goes
    <3>1. Goes(log, worker[v]) /\ Placed(worker[v], Len(log))
      BY <1>2, <1>7 DEF CleanRun, Working, WorkersInv
    <3>2. \A i \in DOMAIN log' : log'[i].kind # "done"
      BY <1>6, <3>1 DEF Goes
    <3>3. Doomed(worker[v], Len(log)) => Doomed(worker[v], Len(log'))
      <4>1. worker[v].seen \in Nat /\ (worker[v].pc = "insert" => worker[v].seen <= Len(log))
        BY <1>2, <3>1 DEF Placed, WorkerStates
      <4>2. \A a, b, c \in Nat : a <= b /\ a # b /\ b <= c => a # c
        OBVIOUS
      <4>3. Len(log) \in Nat /\ Len(log') \in Nat /\ Len(log) <= Len(log')
        BY <1>2, <1>3
      <4> QED BY <4>1, <4>2, <4>3, Zenon DEF Doomed
    <3> QED BY <1>5, <3>1, <3>2, <3>3 DEF Goes
  <2> QED BY <2>1, <2>2, <2>3
<1> QED
  BY <1>2, <1>3, <1>4, <1>7, PrimedRun DEF ServerTypes

-----------------------------------------------------------------------------
(* The subscribers.                                                         *)

LEMMA ServerRests ==
    ASSUME IInv, UNCHANGED <<script, log, worker, clean>>
    PROVE  CleanRun' /\ WorkersInv'
<1>1. OneWorker' /\ NotBegun' <=> OneWorker /\ NotBegun
  BY DEF OneWorker, NotBegun, Loud
<1>2. CleanRun /\ WorkersInv
  BY DEF IInv, ChatInv
<1> QED
  BY <1>1, <1>2, PrimedRun DEF CleanRun, Working, DoneLast, WorkersInv

\* What a step of a subscriber has to show.
LEMMA ReaderStep ==
    ASSUME IInv, UNCHANGED <<script, log, worker, clean, viewer>>,
           conn' \in ConnStates, WireInLog', IsPanel(panel'), CursorStands', CursorFaithful',
           IsTurn(turn'), HasFields(phase', PhaseFields), Committed(turn'),
           viewer = "chat" /\ conn'.open /\ Straight(log, conn'.got)
              => Says(turn'.text, Kept(Count(log, conn'.got))),
           viewer = "chat" /\ conn'.open => phase'.how # "none",
           phase'.how = "none" => ~ turn'.terminated
    PROVE  IInv'
<1>1. CleanRun' /\ WorkersInv'
  BY ServerRests
<1>2. IsPanel(panel)' /\ IsTurn(turn)' /\ HasFields(phase, PhaseFields)'
  BY Zenon DEF IsPanel, IsTurn, HasFields
<1>3. Types'
  BY <1>2 DEF Types, IInv
<1>5. CommitFrom'
  BY DEF CommitFrom, Committed, Straight, Loud, Count, Full, Says, Kept
<1>6. ChatReads'
  <2>1. Straight(log, conn.got)' <=> Straight(log, conn'.got)
    BY DEF Straight, Loud, Count, Full
  <2>2. Says(turn.text, Kept(Count(log, conn.got)))' <=> Says(turn'.text, Kept(Count(log, conn'.got)))
    BY DEF Says, Kept, Loud, Count
  <2> QED BY <2>1, <2>2, Zenon DEF ChatReads
<1>7. Attached'
  BY Zenon DEF Attached
<1> QED
  BY <1>1, <1>3, <1>5, <1>6, <1>7, Zenon DEF IInv, ChatInv, PanelInv

LEMMA ClosedConn == Closed \in ConnStates /\ ~ Closed.open /\ Closed.got = 0 /\ Closed.sent = 0 /\ Closed.hi = 0
  BY DEF Closed, ConnStates

LEMMA OpenConn ==
    ASSUME NEW n \in Nat
    PROVE  /\ Open(n) \in ConnStates /\ Open(n).got = n /\ Open(n).sent = n /\ Open(n).hi = n
<1>1. (status \in TerminalRun) \in BOOLEAN
  OBVIOUS
<1> QED
  BY <1>1 DEF Open, Closed, ConnStates

LEMMA EndsTwice ==
    ASSUME NEW s, NEW t, NEW u, NEW R1, NEW R2, Ends(s, t, R1), Ends(t, u, R2)
    PROVE  Ends(s, u, R1 \union R2)
  BY DEF Ends

LEMMA LostTurn ==
    ASSUME NEW t, IsTurn(t)
    PROVE  IsTurn(LostStream(t)) /\ Ends(t, LostStream(t), ErrorReasons \union EndReasons)
<1> DEFINE e == OnError(t, "stream_disconnected")
           f == OnStreamEnd(e, "socket_closed")
<1>1. IsTurn(e) /\ Ends(t, e, ErrorReasons)
  BY OnErrorTurn
<1> HIDE DEF e
<1>2. IsTurn(f) /\ Ends(e, f, EndReasons)
  BY <1>1, OnStreamEndTurn
<1> HIDE DEF f
<1>3. Ends(t, f, ErrorReasons \union EndReasons)
  BY <1>1, <1>2, EndsTwice
<1>4. Ends(t, t, ErrorReasons \union EndReasons)
  BY SameTurn
<1>5. LostStream(t) = IF phase.how = "reattach" THEN t ELSE f
  BY DEF LostStream, e, f
<1> QED
  BY <1>2, <1>3, <1>4, <1>5

\* What holds of a subscriber before it moves.
LEMMA ReaderFacts ==
    ASSUME IInv
    PROVE  /\ script \in Seq(Yields) /\ log \in Seq(Events) /\ Len(log) \in Nat /\ DOMAIN log = 1..Len(log)
           /\ conn \in ConnStates /\ conn.got \in Nat /\ conn.sent \in Nat /\ conn.hi \in Nat
           /\ conn.got <= conn.sent /\ conn.sent <= conn.hi /\ conn.hi <= Len(log)
           /\ IsPanel(panel) /\ CursorStands /\ CursorFaithful
           /\ panel.stored \in Nat /\ panel.base \in Nat
           /\ IsTurn(turn) /\ turn.text \in Seq(Args) /\ HasFields(phase, PhaseFields) /\ Committed(turn)
           /\ ChatReads /\ Attached /\ viewer \in {"chat", "panel"}
  BY LenProperties DEF IInv, ChatInv, PanelInv, Types, WireInLog, ConnStates, IsPanel, IsTurn, CommitFrom

LEMMA TailKeeps ==
    ASSUME IInv, TailStep
    PROVE  IInv' /\ turn' = turn
<1>1. /\ UNCHANGED <<script, log, worker, clean, viewer, panel, turn, phase>>
      /\ conn.open /\ conn' \in ConnStates /\ conn'.got = conn.got /\ conn'.open = conn.open
      /\ conn'.got <= conn'.sent /\ conn'.sent <= conn'.hi /\ conn'.hi <= Len(log)
  <2>1. /\ UNCHANGED <<script, log, worker, clean, viewer, panel, turn, phase>> /\ conn.open
        /\ \/ conn' = [conn EXCEPT !.phase = "status", !.hi = Len(log)]
           \/ \E ph \in {"closed", "idle"} : conn' = [conn EXCEPT !.sent = conn.hi, !.phase = ph]
    BY DEF TailStep, PollEvents, PollStatus, server
  <2>2. CASE conn' = [conn EXCEPT !.phase = "status", !.hi = Len(log)]
    <3>1. /\ conn' \in ConnStates /\ conn'.got = conn.got /\ conn'.open = conn.open
          /\ conn'.sent = conn.sent /\ conn'.hi = Len(log)
      BY <2>2, ReaderFacts DEF ConnStates
    <3> QED BY <2>1, <3>1, ReaderFacts
  <2>3. ASSUME NEW ph \in {"closed", "idle"}, conn' = [conn EXCEPT !.sent = conn.hi, !.phase = ph]
        PROVE  /\ conn' \in ConnStates /\ conn'.got = conn.got /\ conn'.open = conn.open
               /\ conn'.sent = conn.hi /\ conn'.hi = conn.hi
    BY <2>3, ReaderFacts DEF ConnStates
  <2>4. CASE \E ph \in {"closed", "idle"} : conn' = [conn EXCEPT !.sent = conn.hi, !.phase = ph]
    <3>1. /\ conn' \in ConnStates /\ conn'.got = conn.got /\ conn'.open = conn.open
          /\ conn'.sent = conn.hi /\ conn'.hi = conn.hi
      BY <2>3, <2>4
    <3>2. conn.got <= conn.hi /\ conn.hi <= conn.hi /\ conn.hi <= Len(log)
      BY ReaderFacts
    <3> QED BY <2>1, <3>1, <3>2
  <2> QED BY <2>1, <2>2, <2>4
<1>2. WireInLog'
  BY <1>1 DEF WireInLog
<1>3. CursorStands' /\ CursorFaithful'
  BY <1>1, ReaderFacts, Zenon DEF CursorStands, CursorFaithful
<1>4. viewer = "chat" /\ conn'.open /\ Straight(log, conn'.got) => Says(turn.text, Kept(Count(log, conn'.got)))
  BY <1>1, ReaderFacts DEF ChatReads
<1>5. IsPanel(panel') /\ IsTurn(turn') /\ HasFields(phase', PhaseFields) /\ Committed(turn')
  BY <1>1, ReaderFacts
<1>6. /\ viewer = "chat" /\ conn'.open => phase'.how # "none"
      /\ phase'.how = "none" => ~ turn'.terminated
  BY <1>1, ReaderFacts DEF Attached
<1> QED
  BY <1>1, <1>2, <1>3, <1>4, <1>5, <1>6, ReaderStep

\* The panel applies the next event of the log, or nothing, as its socket closes.
LEMMA PanelApplied ==
    ASSUME IInv, viewer = "panel", conn.open, conn.got < conn.sent, log' = log,
           PanelApply(conn.got + 1, log[conn.got + 1])
    PROVE  /\ IsPanel(panel') /\ panel'.state.cursor = panel'.stored /\ panel'.stored = conn.got + 1
           /\ panel'.base <= panel'.stored /\ panel'.stored <= Len(log')
           /\ CursorFaithful'
<1> DEFINE ev == log[conn.got + 1]
<1>1. /\ conn.got = panel.stored /\ panel.base <= panel.stored /\ panel.state.cursor = panel.stored
      /\ panel.stored \in Nat /\ panel.base \in Nat /\ conn.got + 1 \in Nat /\ panel.stored + 1 <= Len(log)
      /\ log \in Seq(Events)
  BY ReaderFacts DEF CursorStands
<1>2. ev \in Events
  BY <1>1, ReaderFacts
<1>3. /\ IsPanel(panel') /\ panel'.base = panel.base /\ panel'.state.cursor = panel'.stored
      /\ panel'.stored = panel.stored + 1 /\ panel'.state.events = Append(panel.state.events, ev)
  BY <1>1, <1>2, ReaderFacts, ApplyPanel
<1>4. panel.state.events = SubSeq(log, panel.base + 1, panel.stored)
  BY <1>1, ReaderFacts DEF CursorFaithful
<1>5. SubSeq(log, panel.base + 1, panel.stored + 1)
        = Append(SubSeq(log, panel.base + 1, panel.stored), log[panel.stored + 1])
  BY <1>1, NextInWindow
<1>6. CursorFaithful'
  BY <1>1, <1>3, <1>4, <1>5 DEF CursorFaithful
<1> QED
  BY <1>1, <1>3, <1>6

LEMMA PanelKeeps ==
    ASSUME IInv, PanelStep \/ PanelDrop \/ PanelRefresh
    PROVE  IInv' /\ turn' = turn
<1>1. ASSUME UNCHANGED <<script, log, worker, clean, viewer, turn, phase>>, viewer = "panel",
             conn' \in ConnStates, conn'.got <= conn'.sent, conn'.sent <= conn'.hi, conn'.hi <= Len(log),
             IsPanel(panel'), CursorFaithful', panel'.state.cursor = panel'.stored,
             panel'.base <= panel'.stored, panel'.stored <= Len(log),
             conn'.open => conn'.got = panel'.stored
      PROVE  IInv'
  <2>1. WireInLog' /\ CursorStands'
    BY <1>1 DEF WireInLog, CursorStands
  <2>2. IsTurn(turn') /\ HasFields(phase', PhaseFields) /\ Committed(turn')
    BY <1>1, ReaderFacts
  <2>3. phase'.how = "none" => ~ turn'.terminated
    BY <1>1, ReaderFacts DEF Attached
  <2> QED BY <1>1, <2>1, <2>2, <2>3, ReaderStep
<1>2. ASSUME UNCHANGED <<log, panel>>
      PROVE  /\ IsPanel(panel') /\ CursorFaithful' /\ panel'.state.cursor = panel'.stored
             /\ panel'.base <= panel'.stored /\ panel'.stored <= Len(log)
  BY <1>2, ReaderFacts DEF CursorFaithful, CursorStands
<1>3. CASE Connect
  <2>1. Open(panel.stored) \in ConnStates /\ Open(panel.stored).got = panel.stored
        /\ Open(panel.stored).sent = panel.stored /\ Open(panel.stored).hi = panel.stored
    BY ReaderFacts, OpenConn
  <2>2. /\ UNCHANGED <<script, log, worker, clean, viewer, turn, phase, panel>> /\ viewer = "panel"
        /\ conn' = Open(panel.stored)
    BY <1>3 DEF Connect, server
  <2>3. panel.stored <= Len(log) /\ panel.stored <= panel.stored
    BY ReaderFacts DEF CursorStands
  <2> QED BY <1>1, <1>2, <2>1, <2>2, <2>3
<1>4. CASE PanelReceive
  <2>1. /\ UNCHANGED <<script, log, worker, clean, viewer, turn, phase>> /\ viewer = "panel"
        /\ conn.open /\ conn.got < conn.sent /\ PanelApply(conn.got + 1, log[conn.got + 1])
        /\ conn' = [conn EXCEPT !.got = @ + 1]
    BY <1>4 DEF PanelReceive, server
  <2>2. /\ conn' \in ConnStates /\ conn'.got = conn.got + 1 /\ conn'.sent = conn.sent /\ conn'.hi = conn.hi
        /\ conn'.got <= conn'.sent /\ conn'.sent <= conn'.hi /\ conn'.hi <= Len(log)
    <3>1. /\ conn' \in ConnStates /\ conn'.got = conn.got + 1 /\ conn'.sent = conn.sent
          /\ conn'.hi = conn.hi
      <4>1. conn \in ConnStates /\ conn.got \in Nat
        BY ReaderFacts
      <4> QED BY <2>1, <4>1 DEF ConnStates
    <3>2. conn.got + 1 <= conn.sent /\ conn.sent <= conn.hi /\ conn.hi <= Len(log)
      BY <2>1, ReaderFacts
    <3> QED BY <3>1, <3>2
  <2>3. /\ IsPanel(panel') /\ panel'.state.cursor = panel'.stored /\ panel'.stored = conn.got + 1
        /\ panel'.base <= panel'.stored /\ panel'.stored <= Len(log')
        /\ CursorFaithful'
    BY <2>1, PanelApplied
  <2> QED BY <1>1, <2>1, <2>2, <2>3
<1>5. ASSUME UNCHANGED <<script, log, worker, clean, viewer, turn, phase>>, viewer = "panel", conn' = Closed,
             /\ IsPanel(panel') /\ CursorFaithful' /\ panel'.state.cursor = panel'.stored
             /\ panel'.base <= panel'.stored /\ panel'.stored <= Len(log)
      PROVE  IInv'
  BY <1>1, <1>5, ClosedConn, ReaderFacts
<1>6. CASE PanelEnd
  BY <1>2, <1>5, <1>6 DEF PanelEnd, server
<1>7. CASE PanelDrop
  <2>1. /\ UNCHANGED <<script, log, worker, clean, viewer, turn, phase>> /\ viewer = "panel" /\ conn.open
        /\ conn' = Closed
    BY <1>7 DEF PanelDrop, server
  <2>2. CASE panel' = panel
    BY <1>2, <1>5, <2>1, <2>2
  <2>3. CASE /\ conn.got < conn.sent
             /\ \E k \in 0..3, half \in BOOLEAN :
                   LET out == CutFrame(conn.got + 1, log[conn.got + 1], k, half) IN
                   IF out = <<>> THEN UNCHANGED panel
                   ELSE PanelApply(out[1].id, Ev(out[1].event, out[1].data[1]))
    <3> DEFINE seq == conn.got + 1
               ev  == log[seq]
    <3>1. PICK k \in 0..3, half \in BOOLEAN :
             LET out == CutFrame(seq, ev, k, half) IN
             IF out = <<>> THEN UNCHANGED panel
             ELSE PanelApply(out[1].id, Ev(out[1].event, out[1].data[1]))
      BY <2>3
    <3> DEFINE out == CutFrame(seq, ev, k, half)
    <3>2. out = <<>> \/ (out[1].id = seq /\ out[1].event = ev.kind /\ out[1].data[1] = ev.arg)
      <4> HIDE DEF seq, ev
      <4>1. k \in 0..3 /\ half \in BOOLEAN
        BY <3>1
      <4> QED BY <4>1, FrameCut
    <3>3. ev = Ev(ev.kind, ev.arg)
      BY <2>3, ReaderFacts, EventFacts
    <3> HIDE DEF out
    <3>4. CASE out = <<>>
      BY <1>2, <1>5, <2>1, <3>1, <3>4 DEF out
    <3>5. CASE out # <<>>
      <4>1. PanelApply(out[1].id, Ev(out[1].event, out[1].data[1]))
        BY <3>1, <3>5 DEF out
      <4>2. PanelApply(seq, ev)
        BY <3>2, <3>3, <3>5, <4>1
      <4>3. /\ IsPanel(panel') /\ panel'.state.cursor = panel'.stored
            /\ panel'.base <= panel'.stored /\ panel'.stored <= Len(log')
            /\ CursorFaithful'
        BY <2>1, <2>3, <4>2, PanelApplied
      <4> QED BY <1>5, <2>1, <4>3
    <3> QED BY <3>4, <3>5
  <2> QED BY <1>7, <2>2, <2>3 DEF PanelDrop
<1>8. CASE PanelRefresh
  <2> DEFINE s == [emptyRunState EXCEPT !.cursor = panel.stored]
  <2>1. /\ UNCHANGED <<script, log, worker, clean, viewer, turn, phase>> /\ viewer = "panel"
        /\ conn' = Closed
        /\ panel' = [panel EXCEPT !.state = s, !.base = panel.stored]
    BY <1>8 DEF PanelRefresh, server
  <2>2. HasFields(s, StateFields) /\ s.cursor = panel.stored /\ s.events = <<>>
    BY DEF emptyRunState, HasFields, StateFields
  <2> HIDE DEF s
  <2>3. panel'.state = s /\ panel'.stored = panel.stored /\ panel'.base = panel.stored
        /\ HasFields(panel', PanelFields)
    BY <2>1, ReaderFacts DEF IsPanel, HasFields, PanelFields
  <2>4. IsPanel(panel')
    BY <2>2, <2>3, EmptySeq, ReaderFacts DEF IsPanel
  <2>5. SubSeq(log, panel.stored + 1, panel.stored) = <<>>
    <3>1. panel.stored + 1 \in Int /\ panel.stored \in Int /\ panel.stored < panel.stored + 1
      BY ReaderFacts
    <3> QED BY <3>1, SubSeqEmpty
  <2>6. CursorFaithful'
    BY <2>1, <2>2, <2>3, <2>5 DEF CursorFaithful
  <2>7. panel.stored <= panel.stored /\ panel.stored <= Len(log)
    BY ReaderFacts DEF CursorStands
  <2> QED BY <1>5, <2>1, <2>2, <2>3, <2>4, <2>6, <2>7
<1>9. turn' = turn
  BY DEF PanelStep, Connect, PanelReceive, PanelEnd, PanelDrop, PanelRefresh
<1> QED
  BY <1>3, <1>4, <1>6, <1>7, <1>8, <1>9 DEF PanelStep

\* The stop that a straight log ends with is the end of the script.
LEMMA StopIsLast ==
    ASSUME script \in Seq(Yields), NEW l, NEW i \in Nat, Straight(l, i + 1), l[i + 1] = Stop
    PROVE  Count(l, i) = Len(script) /\ Straight(l, i)
<1>1. /\ Len(script) \in Nat /\ DOMAIN Full = 1..(Len(script) + 1)
      /\ \A j \in DOMAIN script : Full[j] = script[j] /\ script[j].kind # "done"
      /\ DOMAIN script = 1..Len(script) /\ Stop.kind = "done"
  BY ScriptFacts, EventFacts DEF Lifecycle
<1>2. Straight(l, i) /\ Count(l, i) + 1 \in DOMAIN Full /\ Full[Count(l, i) + 1] = Stop
  BY <1>1, StraightStep DEF Silent
<1>3. Count(l, i) \in Nat
  BY CountFacts
<1>4. ~ (Count(l, i) + 1 \in 1..Len(script))
  BY <1>1, <1>2
<1>5. \A a, b \in Nat : a + 1 \in 1..(b + 1) /\ ~ (a + 1 \in 1..b) => a = b
  OBVIOUS
<1> QED
  BY <1>1, <1>2, <1>3, <1>4, <1>5

\* The chat applies the next event of the log.
LEMMA ChatApplied ==
    ASSUME IInv, viewer = "chat", conn.open, conn.got < conn.sent
    PROVE  LET t == reduce(turn, log[conn.got + 1]) IN
           /\ IsTurn(t) /\ Committed(t)
           /\ Straight(log, conn.got + 1) => Says(t.text, Kept(Count(log, conn.got + 1)))
           /\ turn.terminated => t.terminated /\ t.commit = turn.commit
<1> DEFINE g  == conn.got
           ev == log[g + 1]
           t  == reduce(turn, ev)
           m  == Count(log, g)
<1>1. /\ script \in Seq(Yields) /\ g \in Nat /\ g + 1 \in DOMAIN log /\ ev \in Events /\ IsTurn(turn)
      /\ turn.text \in Seq(Args) /\ Committed(turn)
      /\ Straight(log, g) => Says(turn.text, Kept(m))
  BY ReaderFacts DEF ChatReads
<1>2. ev = Ev(ev.kind, ev.arg) /\ ev.arg \in Args
  BY <1>1, EventFacts
<1>3. /\ IsTurn(t) /\ t.text = NewText(turn.text, ev)
      /\ turn.terminated => t.terminated /\ t.commit = turn.commit
      /\ t.commit = turn.commit \/ \E r \in Reasons(ev) : t.commit = [text |-> turn.text, finish |-> r]
  <2> HIDE DEF ev
  <2> QED BY <1>1, <1>2, ReduceTurn
<1>4. /\ m \in Nat
      /\ Straight(log, g + 1) <=>
           /\ Straight(log, g)
           /\ ev.kind \notin Silent => m + 1 \in DOMAIN Full /\ ev = Full[m + 1]
      /\ ev.kind \in Silent => Count(log, g + 1) = m
      /\ ev.kind \notin Silent => Count(log, g + 1) = m + 1
  <2>1. m \in Nat
    BY <1>1, CountFacts
  <2>2. /\ ev.kind \in Silent => Count(log, g + 1) = m
        /\ ev.kind \notin Silent => Count(log, g + 1) = m + 1
    BY <1>1, CountStep
  <2>3. Straight(log, g + 1) <=>
           /\ Straight(log, g)
           /\ ev.kind \notin Silent => m + 1 \in DOMAIN Full /\ ev = Full[m + 1]
    BY <1>1, StraightStep
  <2> QED BY <2>1, <2>2, <2>3
<1> HIDE DEF t, m
<1>5. ASSUME Straight(log, g + 1) PROVE Says(t.text, Kept(Count(log, g + 1)))
  <2>1. Says(turn.text, Kept(m))
    BY <1>1, <1>4, <1>5
  <2>2. CASE ev.kind \in Silent
    <3>1. t.text = turn.text
      BY <1>3, <2>2 DEF NewText, Replaces, Withdraws, Silent
    <3> QED BY <1>4, <2>1, <2>2, <3>1
  <2>3. CASE ev.kind \notin Silent
    <3>1. m + 1 \in DOMAIN Full /\ ev = Full[m + 1] /\ Count(log, g + 1) = m + 1
      BY <1>4, <1>5, <2>3
    <3>2. Says(NewText(turn.text, Full[m + 1]), Kept(m + 1))
      BY <1>1, <1>4, <2>1, <3>1, SaysStep
    <3> QED BY <1>3, <3>1, <3>2
  <2> QED BY <2>2, <2>3
<1>6. Committed(t)
  <2>1. CASE t.commit = turn.commit
    BY <1>1, <2>1 DEF Committed
  <2>2. ASSUME NEW r \in Reasons(ev), t.commit = [text |-> turn.text, finish |-> r]
        PROVE  Committed(t)
    <3>1. t.commit.text = turn.text /\ t.commit.finish = r
      BY <2>2
    <3>2. ASSUME r = "stop"
          PROVE  ev = Stop
      BY <1>2, <2>2, <3>2 DEF Reasons, ErrorReasons, Stop
    <3>3. ASSUME ev = Stop, Straight(log, g + 1)
          PROVE  Says(turn.text, Kept(Len(script)))
      <4>1. m = Len(script) /\ Straight(log, g)
        BY <1>1, <3>3, StopIsLast DEF m
      <4> QED BY <1>1, <4>1
    <3> QED BY <1>1, <3>1, <3>2, <3>3 DEF Committed
  <2> QED BY <1>3, <2>1, <2>2
<1> QED
  BY <1>3, <1>5, <1>6 DEF t

\* The turn of the chat once its stream is closed.
TurnOver(t) == turn' = t /\ conn' = Closed /\ HasFields(phase', PhaseFields) /\ phase'.how = phase.how

LEMMA TurnEnds ==
    ASSUME HasFields(phase, PhaseFields), NEW t, EndTurn(t)
    PROVE  TurnOver(t)
<1>1. turn' = t /\ conn' = Closed /\ phase' = [phase EXCEPT !.st = "idle"]
  BY DEF EndTurn
<1>2. HasFields(phase', PhaseFields) /\ phase'.how = phase.how
  BY <1>1 DEF HasFields, PhaseFields
<1> QED
  BY <1>1, <1>2 DEF TurnOver

LEMMA EndTurnKeeps ==
    ASSUME IInv, UNCHANGED <<script, log, worker, clean, viewer, panel>>, viewer = "chat", conn.open,
           NEW t, TurnOver(t), IsTurn(t), Committed(t), turn.terminated => t.commit = turn.commit
    PROVE  IInv' /\ (turn.terminated => turn'.commit = turn.commit)
<1>1. turn' = t /\ conn' = Closed
  BY DEF TurnOver
<1>2. HasFields(phase', PhaseFields) /\ phase'.how = phase.how /\ phase.how # "none"
  BY ReaderFacts DEF TurnOver, Attached
<1>3. WireInLog' /\ conn' \in ConnStates /\ ~ conn'.open
  BY <1>1, ClosedConn, ReaderFacts DEF WireInLog
<1>4. IsPanel(panel') /\ CursorStands' /\ CursorFaithful'
  BY <1>3, ReaderFacts DEF CursorStands, CursorFaithful
<1>5. IsTurn(turn') /\ Committed(turn')
  BY <1>1
<1> QED
  BY <1>1, <1>2, <1>3, <1>4, <1>5, ReaderStep

LEMMA EndedTurn ==
    ASSUME NEW t, NEW reasons, Ends(turn, t, reasons), "stop" \notin reasons, Committed(turn)
    PROVE  Committed(t) /\ (turn.terminated => t.commit = turn.commit)
<1>1. turn.terminated => t.commit = turn.commit
  BY DEF Ends
<1>2. CASE t.commit = turn.commit
  BY <1>1, <1>2 DEF Committed
<1>3. CASE \E r \in reasons : t.commit = [text |-> turn.text, finish |-> r]
  <2>1. t.commit.finish # "stop"
    BY <1>3
  <2> QED BY <1>1, <2>1 DEF Committed
<1> QED
  BY <1>2, <1>3 DEF Ends

\* A turn that is sent, or adopted and rebuilt from the first event.
LEMMA ChatOpens ==
    ASSUME IInv, Send \/ Reattach
    PROVE  IInv' /\ (turn.terminated => Reattach)
<1> DEFINE sent == reduce(initialStreamState(FALSE), Ev("meta", 0))
           adopted == SeedIds(initialStreamState(TRUE))
<1>1. sent = SeedIds(initialStreamState(FALSE))
  BY DEF reduce, Ev
<1>2. \A t \in {sent, adopted} : IsTurn(t) /\ t.text = <<>> /\ t.commit.finish = "none" /\ ~ t.terminated
  <2>1. TRUE \in BOOLEAN /\ FALSE \in BOOLEAN
    OBVIOUS
  <2> HIDE DEF sent
  <2> QED BY <1>1, <2>1, InitialTurn
<1> HIDE DEF sent, adopted
<1>3. /\ UNCHANGED <<script, log, worker, clean, viewer, panel>> /\ viewer = "chat" /\ conn' = Open(0)
      /\ turn' \in {sent, adopted} /\ (turn.terminated => Reattach)
      /\ \E how \in {"send", "reattach"} : phase' = [phase EXCEPT !.st = "streaming", !.how = how]
  <2>1. CASE Send
    <3>1. phase.how = "none"
      BY <2>1 DEF Send, Unattached
    <3>2. ~ turn.terminated
      BY <3>1, ReaderFacts DEF Attached
    <3> QED BY <2>1, <3>2 DEF Send, server, sent
  <2>2. CASE Reattach
    BY <2>2 DEF Reattach, server, adopted
  <2> QED BY <2>1, <2>2
<1>4. /\ conn' \in ConnStates /\ conn'.got = 0 /\ conn'.sent = 0 /\ conn'.hi = 0
  <2>1. 0 \in Nat
    OBVIOUS
  <2> QED BY <1>3, <2>1, OpenConn
<1>5. WireInLog'
  BY <1>3, <1>4, ReaderFacts DEF WireInLog
<1>6. IsPanel(panel') /\ CursorStands' /\ CursorFaithful'
  BY <1>3, ReaderFacts DEF CursorStands, CursorFaithful
<1>7. HasFields(phase', PhaseFields) /\ phase'.how # "none"
  BY <1>3, ReaderFacts DEF HasFields, PhaseFields
<1>8. IsTurn(turn') /\ turn'.text = <<>> /\ Committed(turn') /\ ~ turn'.terminated
  BY <1>2, <1>3 DEF Committed
<1>9. Says(turn'.text, Kept(Count(log, conn'.got)))
  <2>1. Count(log, 0) = 0 /\ Kept(0) = {}
    <3>1. 0 \in Nat
      OBVIOUS
    <3> QED BY <3>1, CountFacts, KeptStep, ReaderFacts
  <2> QED BY <1>4, <1>8, <2>1, SaysNothing
<1> QED
  BY <1>3, <1>4, <1>5, <1>6, <1>7, <1>8, <1>9, ReaderStep

LEMMA ChatReceiveKeeps ==
    ASSUME IInv, ChatReceive
    PROVE  IInv' /\ (turn.terminated => turn'.commit = turn.commit)
<1> DEFINE t == reduce(turn, log[conn.got + 1])
<1>1. /\ UNCHANGED <<script, log, worker, clean, viewer, panel>> /\ viewer = "chat" /\ conn.open
      /\ conn.got < conn.sent
      /\ \/ EndTurn(t)
         \/ turn' = t /\ conn' = [conn EXCEPT !.got = @ + 1] /\ UNCHANGED phase
  BY DEF ChatReceive, server
<1>2. /\ IsTurn(t) /\ Committed(t)
      /\ Straight(log, conn.got + 1) => Says(t.text, Kept(Count(log, conn.got + 1)))
      /\ turn.terminated => t.terminated /\ t.commit = turn.commit
  BY <1>1, ChatApplied
<1> HIDE DEF t
<1>3. CASE EndTurn(t)
  BY <1>1, <1>2, <1>3, ReaderFacts, TurnEnds, EndTurnKeeps
<1>4. CASE turn' = t /\ conn' = [conn EXCEPT !.got = @ + 1] /\ UNCHANGED phase
  <2>1. /\ conn' \in ConnStates /\ conn'.got = conn.got + 1 /\ conn'.sent = conn.sent /\ conn'.hi = conn.hi
        /\ conn'.got <= conn'.sent /\ conn'.sent <= conn'.hi /\ conn'.hi <= Len(log)
    <3>1. /\ conn' \in ConnStates /\ conn'.got = conn.got + 1 /\ conn'.sent = conn.sent
          /\ conn'.hi = conn.hi
      <4>1. conn \in ConnStates /\ conn.got \in Nat
        BY ReaderFacts
      <4> QED BY <1>4, <4>1 DEF ConnStates
    <3>2. conn.got + 1 <= conn.sent /\ conn.sent <= conn.hi /\ conn.hi <= Len(log)
      BY <1>1, ReaderFacts
    <3> QED BY <3>1, <3>2
  <2>2. WireInLog'
    BY <1>1, <2>1 DEF WireInLog
  <2>3. IsPanel(panel') /\ CursorStands' /\ CursorFaithful'
    BY <1>1, ReaderFacts DEF CursorStands, CursorFaithful
  <2>4. HasFields(phase', PhaseFields) /\ phase'.how # "none"
    BY <1>1, <1>4, ReaderFacts DEF Attached
  <2>5. Straight(log, conn'.got) => Says(turn'.text, Kept(Count(log, conn'.got)))
    BY <1>2, <1>4, <2>1
  <2>6. IsTurn(turn') /\ Committed(turn') /\ (turn.terminated => turn'.commit = turn.commit)
    BY <1>2, <1>4
  <2> QED BY <1>1, <2>1, <2>2, <2>3, <2>4, <2>5, <2>6, ReaderStep
<1> QED
  BY <1>1, <1>3, <1>4

\* The other ends of a stream: none of them completes the turn.
LEMMA ChatCloses ==
    ASSUME IInv, ChatEnd \/ ChatDrop \/ ChatStop \/ ChatLeave
    PROVE  IInv' /\ (turn.terminated => turn'.commit = turn.commit)
<1>0. IsTurn(turn) /\ Committed(turn) /\ HasFields(phase, PhaseFields)
  BY ReaderFacts
<1>1. ASSUME UNCHANGED <<script, log, worker, clean, viewer, panel>>, viewer = "chat", conn.open,
             NEW t, TurnOver(t), IsTurn(t), NEW reasons, Ends(turn, t, reasons), "stop" \notin reasons
      PROVE  IInv' /\ (turn.terminated => turn'.commit = turn.commit)
  BY <1>0, <1>1, EndedTurn, EndTurnKeeps
<1>2. "stop" \notin ErrorReasons /\ "stop" \notin EndReasons /\ "stop" \notin ErrorReasons \union EndReasons
      /\ "stop" \notin {"error"}
  BY DEF ErrorReasons, EndReasons
<1>3. CASE ChatEnd
  <2>1. /\ UNCHANGED <<script, log, worker, clean, viewer, panel>> /\ viewer = "chat" /\ conn.open
        /\ TurnOver(LostStream(turn))
    BY <1>0, <1>3, TurnEnds DEF ChatEnd, server
  <2>2. IsTurn(LostStream(turn)) /\ Ends(turn, LostStream(turn), ErrorReasons \union EndReasons)
    BY <1>0, LostTurn
  <2> QED BY <1>1, <1>2, <2>1, <2>2
<1>4. CASE ChatDrop
  <2> DEFINE t == IF phase.how = "reattach" THEN turn ELSE OnFetchFailed(turn)
  <2>1. /\ UNCHANGED <<script, log, worker, clean, viewer, panel>> /\ viewer = "chat" /\ conn.open
        /\ TurnOver(t)
    BY <1>0, <1>4, TurnEnds DEF ChatDrop, server
  <2>2. IsTurn(t) /\ Ends(turn, t, {"error"})
    BY <1>0, OnFetchFailedTurn, SameTurn
  <2> HIDE DEF t
  <2> QED BY <1>1, <1>2, <2>1, <2>2
<1>5. CASE ChatStop
  <2> DEFINE t == IF phase.how = "reattach" THEN turn ELSE OnStreamEnd(turn, "user_stop")
  <2>3. /\ UNCHANGED <<script, log, worker, clean, viewer, panel>> /\ viewer = "chat" /\ conn.open
        /\ turn' = t /\ conn' = Closed
        /\ \E c : phase' = [phase EXCEPT !.st = "idle", !.cancel = c]
    BY <1>5 DEF ChatStop, server
  <2>4. HasFields(phase', PhaseFields) /\ phase'.how = phase.how
    BY <1>0, <2>3 DEF HasFields, PhaseFields
  <2>1. /\ UNCHANGED <<script, log, worker, clean, viewer, panel>> /\ viewer = "chat" /\ conn.open
        /\ TurnOver(t)
    BY <2>3, <2>4 DEF TurnOver
  <2>2. IsTurn(t) /\ Ends(turn, t, EndReasons)
    BY <1>0, OnStreamEndTurn, SameTurn
  <2> HIDE DEF t
  <2> QED BY <1>1, <1>2, <2>1, <2>2
<1>6. CASE ChatLeave
  <2> DEFINE t == IF phase.how = "reattach" THEN turn ELSE OnStreamEnd(turn, "unmount")
  <2>1. /\ UNCHANGED <<script, log, worker, clean, viewer, panel>> /\ viewer = "chat" /\ conn.open
        /\ TurnOver(t)
    BY <1>0, <1>6, TurnEnds DEF ChatLeave, server
  <2>2. IsTurn(t) /\ Ends(turn, t, EndReasons)
    BY <1>0, OnStreamEndTurn, SameTurn
  <2> HIDE DEF t
  <2> QED BY <1>1, <1>2, <2>1, <2>2
<1> QED
  BY <1>3, <1>4, <1>5, <1>6

-----------------------------------------------------------------------------
(* The invariant.                                                           *)

LEMMA InitIInv == Init => IInv
<1> SUFFICES ASSUME Init PROVE IInv
  OBVIOUS
<1>1. /\ viewer \in {"chat", "panel"} /\ script \in Seq(Yields)
      /\ log = <<>> /\ worker = [w \in Workers |-> IdleWorker] /\ conn = Closed /\ clean = TRUE
      /\ panel = [state |-> emptyRunState, stored |-> 0, base |-> 0]
      /\ turn = initialStreamState(FALSE) /\ phase = Unattached
  BY RunStreamAssumption DEF Init
<1>2. log \in Seq(Events) /\ Len(log) = 0 /\ DOMAIN log = {}
  BY <1>1, EmptySeq
<1>3. IsTurn(turn) /\ turn.commit.finish = "none" /\ ~ turn.terminated
  <2>1. FALSE \in BOOLEAN
    OBVIOUS
  <2> QED BY <1>1, <2>1, InitialTurn
<1>4. /\ IsPanel(panel) /\ panel.state.cursor = 0 /\ panel.stored = 0 /\ panel.base = 0
      /\ panel.state.events = <<>>
  <2> DEFINE s == emptyRunState
  <2>1. HasFields(s, StateFields) /\ s.cursor = 0 /\ s.events = <<>>
    BY DEF emptyRunState, HasFields, StateFields
  <2> HIDE DEF s
  <2>2. /\ HasFields(panel, PanelFields) /\ panel.state = s /\ panel.stored = 0 /\ panel.base = 0
    BY <1>1 DEF HasFields, PanelFields, s
  <2>3. HasFields(panel.state, StateFields) /\ panel.state.cursor = 0 /\ panel.state.events = <<>>
    BY <2>1, <2>2
  <2>4. <<>> \in Seq(Events) /\ 0 \in Nat
    BY EmptySeq
  <2>5. IsPanel(panel)
    BY <2>2, <2>3, <2>4 DEF IsPanel
  <2> QED BY <2>2, <2>3, <2>5
<1>5. HasFields(phase, PhaseFields) /\ phase.how = "none"
  BY <1>1 DEF HasFields, PhaseFields, Unattached
<1>6. Types
  BY <1>1, <1>2, <1>3, <1>4, <1>5, GoneState, ClosedConn DEF Types
<1>7. WireInLog
  BY <1>1, <1>2, ClosedConn DEF WireInLog
<1>8. PanelInv
  <2>1. CursorStands
    BY <1>1, <1>2, <1>4, ClosedConn DEF CursorStands
  <2>2. SubSeq(log, 0 + 1, 0) = <<>>
    <3>1. 0 + 1 \in Int /\ 0 \in Int /\ 0 < 0 + 1
      OBVIOUS
    <3> QED BY <3>1, SubSeqEmpty
  <2>3. CursorFaithful
    BY <1>4, <2>2 DEF CursorFaithful
  <2> QED BY <2>1, <2>3 DEF PanelInv
<1>9. CleanRun /\ WorkersInv
  <2>1. \A w \in Workers : worker[w] = IdleWorker /\ worker[w].pc = "idle" /\ worker[w].batch = <<>>
    BY <1>1 DEF IdleWorker
  <2>2. 1..0 = {} /\ Len(<<>>) = 0
    OBVIOUS
  <2>3. WorkersInv
    BY <2>1, <2>2 DEF WorkersInv, Own, Placed, Active
  <2>4. Loud(log, Len(log)) = {}
    BY <1>2, <2>2 DEF Loud
  <2>5. CleanRun
    BY <1>2, <2>1, <2>4 DEF CleanRun, OneWorker, NotBegun, Working, Goes, Active, DoneLast, Straightened
  <2> QED BY <2>3, <2>5
<1>10. ChatReads /\ CommitFrom /\ Attached
  BY <1>1, <1>3, <1>5, ClosedConn DEF ChatReads, CommitFrom, Committed, Attached
<1> QED
  BY <1>6, <1>7, <1>8, <1>9, <1>10 DEF IInv, ChatInv

\* Every step keeps the invariant, and all but an adoption the message of a turn
\* that is over.
LEMMA StepIInv ==
    ASSUME IInv, [Next]_vars
    PROVE  IInv' /\ (turn.terminated => turn'.commit = turn.commit \/ Reattach)
<1>0. /\ Types /\ WorkersInv /\ CleanRun
  BY DEF IInv, ChatInv
<1>1. ASSUME ServerTypes, UNCHANGED <<script, client>>, CleanRun', WorkersInv'
      PROVE  IInv' /\ turn' = turn
  BY <1>1, ServerStep DEF IInv, ChatInv, client
<1>2. ASSUME UNCHANGED <<script, log, worker, clean, client>>
      PROVE  IInv' /\ turn' = turn
  <2>1. ServerTypes
    BY <1>0, <1>2, GrownBy DEF ServerTypes, Types
  <2>2. CleanRun' /\ WorkersInv'
    BY <1>2, ServerRests
  <2> QED BY <1>1, <1>2, <2>1, <2>2
<1>3. ASSUME NEW w \in Workers, WorkerStep(w) \/ AbandonToRecovery(w) \/ CrashWorker(w)
      PROVE  IInv' /\ turn' = turn
  <2>1. ServerTypes /\ CleanRun' /\ WorkersInv'
    BY <1>0, <1>3, WorkerTypes, WorkerKeeps
  <2>2. UNCHANGED <<script, client>>
    BY <1>3 DEF WorkerStep, Acquire, LeaseFence, Yield, EndsEarly, PersistTerminal, AppendTerminal,
                YieldDone, FlushInsert, AbandonToRecovery, CrashWorker
  <2> QED BY <1>1, <2>1, <2>2
<1>4. CASE Reconcile
  <2>1. UNCHANGED <<script, client>>
    BY <1>4 DEF Reconcile
  <2> QED BY <1>0, <1>1, <1>4, <2>1, ReconcileKeeps
<1>5. CASE TailStep
  BY <1>5, TailKeeps
<1>6. CASE PanelStep \/ PanelDrop \/ PanelRefresh
  BY <1>6, PanelKeeps
<1>7. CASE PanelCancel
  BY <1>2, <1>7 DEF PanelCancel
<1>8. CASE Send \/ Reattach
  BY <1>8, ChatOpens
<1>9. CASE ChatReceive
  BY <1>9, ChatReceiveKeeps
<1>10. CASE ChatEnd \/ ChatDrop \/ ChatStop \/ ChatLeave
  BY <1>10, ChatCloses
<1>11. ASSUME UNCHANGED <<script, log, worker, clean, viewer, conn, panel, turn>>,
              HasFields(phase', PhaseFields), phase'.how = phase.how
       PROVE  IInv' /\ turn' = turn
  <2>1. WireInLog' /\ CursorStands' /\ CursorFaithful' /\ conn' \in ConnStates /\ IsPanel(panel')
    BY <1>11, ReaderFacts DEF WireInLog, CursorStands, CursorFaithful
  <2>2. IsTurn(turn') /\ HasFields(phase', PhaseFields) /\ Committed(turn')
    BY <1>11, ReaderFacts
  <2>3. /\ viewer = "chat" /\ conn'.open /\ Straight(log, conn'.got)
              => Says(turn'.text, Kept(Count(log, conn'.got)))
        /\ viewer = "chat" /\ conn'.open => phase'.how # "none"
        /\ phase'.how = "none" => ~ turn'.terminated
    BY <1>11, ReaderFacts DEF ChatReads, Attached
  <2> QED BY <1>11, <2>1, <2>2, <2>3, ReaderStep
<1>12. CASE GraphStep \/ GraphPollFails
  <2>1. UNCHANGED <<script, log, worker, clean, viewer, conn, panel, turn, phase>>
    BY <1>12 DEF GraphStep, GraphPoll, GraphAnswer, GraphPollFails, server
  <2> QED BY <1>11, <2>1, ReaderFacts
<1>13. CASE UNCHANGED vars
  <2>1. UNCHANGED <<script, log, worker, clean, viewer, conn, panel, turn, phase>>
    BY <1>13 DEF vars, server, client
  <2> QED BY <1>11, <2>1, ReaderFacts
<1>14. CASE CancelArrives
  <2>1. /\ UNCHANGED <<script, log, worker, clean, viewer, conn, panel, turn>>
        /\ phase' = [phase EXCEPT !.cancel = FALSE]
    BY <1>14 DEF CancelArrives
  <2>2. HasFields(phase', PhaseFields) /\ phase'.how = phase.how
    BY <2>1, ReaderFacts DEF HasFields, PhaseFields
  <2> QED BY <1>11, <2>1, <2>2
<1> QED
  BY <1>3, <1>4, <1>5, <1>6, <1>7, <1>8, <1>9, <1>10, <1>12, <1>13, <1>14 DEF Next, ChatStep

LEMMA Invariance == Spec => []IInv
<1>1. IInv /\ [Next]_vars => IInv'
  BY StepIInv
<1> QED
  BY InitIInv, <1>1, PTL DEF Spec

\* A worker beyond its terminal commit; and a run that is not over has no done.
Late(wk) == wk.pc \in {"event", "done"} \/ (wk.pc = "insert" /\ wk.next > LastExec + 1)
Over ==
    status \notin TerminalRun =>
        /\ \A w \in Workers : ~ Late(worker[w])
        /\ \A i \in DOMAIN log : log[i].kind # "done"

LEMMA NoDoneGrows ==
    ASSUME log \in Seq(Events), \A i \in DOMAIN log : log[i].kind # "done"
    PROVE  /\ \A ev \in Events : ev.kind # "done" /\ log' = Append(log, ev)
                 => \A i \in DOMAIN log' : log'[i].kind # "done"
           /\ \A batch \in Seq(Events) :
                 (\A k \in 1..Len(batch) : batch[k].kind # "done") /\ log' = log \o batch
                 => \A i \in DOMAIN log' : log'[i].kind # "done"
<1>0. Len(log) \in Nat /\ DOMAIN log = 1..Len(log)
  OBVIOUS
<1>1. ASSUME NEW ev \in Events, ev.kind # "done", log' = Append(log, ev), NEW i \in DOMAIN log'
      PROVE  log'[i].kind # "done"
  <2>1. /\ DOMAIN log' = 1..(Len(log) + 1) /\ log'[Len(log) + 1] = ev
        /\ \A k \in 1..Len(log) : log'[k] = log[k]
    BY <1>0, <1>1, AppendProperties
  <2>2. i \in 1..Len(log) \/ i = Len(log) + 1
    BY <1>0, <1>1, <2>1
  <2> QED BY <1>0, <1>1, <2>1, <2>2
<1>2. ASSUME NEW batch \in Seq(Events), \A k \in 1..Len(batch) : batch[k].kind # "done",
             log' = log \o batch, NEW i \in DOMAIN log'
      PROVE  log'[i].kind # "done"
  <2>0. Len(batch) \in Nat
    BY LenProperties
  <2>1. /\ DOMAIN log' = 1..(Len(log) + Len(batch))
        /\ \A k \in 1..(Len(log) + Len(batch)) :
              log'[k] = IF k <= Len(log) THEN log[k] ELSE batch[k - Len(log)]
    BY <1>0, <1>2, <2>0, ConcatProperties, LenProperties
  <2>2. CASE i <= Len(log)
    BY <1>0, <2>0, <2>1, <2>2, <1>2
  <2>3. CASE ~ (i <= Len(log))
    <3>1. i - Len(log) \in 1..Len(batch) /\ log'[i] = batch[i - Len(log)]
      BY <1>0, <1>2, <2>0, <2>1, <2>3
    <3> QED BY <1>2, <3>1
  <2> QED BY <2>2, <2>3
<1> QED
  BY <1>1, <1>2

\* Storing what a worker yields before its end: neither done nor a late worker.
LEMMA FlushIsEarly ==
    ASSUME IInv, NEW w \in Workers, NEW seen, NEW next \in Nat, next <= LastExec + 1,
           NEW batch \in Seq(Events), \A k \in 1..Len(batch) : batch[k].kind # "done",
           \A i \in DOMAIN log : log[i].kind # "done", \A v \in Workers : ~ Late(worker[v]),
           Flushed(w, seen, next, batch), script' = script
    PROVE  /\ \A v \in Workers : ~ Late(worker[v])'
           /\ \A i \in DOMAIN log' : log'[i].kind # "done"
<1>1. /\ log \in Seq(Events) /\ worker \in [Workers -> WorkerStates] /\ LastExec \in Nat
      /\ LastExec' = LastExec
  BY LenProperties DEF IInv, Types, LastExec
<1>2. log' \in {log, log \o batch}
  BY DEF Flushed, append_many
<1>3. \A i \in DOMAIN log' : log'[i].kind # "done"
  BY <1>1, <1>2, NoDoneGrows
<1>4. ~ (next > LastExec + 1)
  BY <1>1
<1>5. worker' = [worker EXCEPT ![w].batch = <<>>, ![w].seen = 0, ![w].pc = "exec", ![w].next = next]
  BY <1>4 DEF Flushed
<1>6. \A v \in Workers : worker'[v].pc = "exec" \/ worker'[v] = worker[v]
  BY <1>1, <1>5 DEF WorkerStates
<1>7. \A v \in Workers : ~ Late(worker'[v])
  BY <1>6 DEF Late
<1> QED
  BY <1>1, <1>3, <1>7 DEF Late

LEMMA WorkerIsLate ==
    ASSUME IInv, Over, NEW w \in Workers, WorkerStep(w) \/ AbandonToRecovery(w) \/ CrashWorker(w)
    PROVE  Over'
<1> SUFFICES ASSUME status' \notin TerminalRun
             PROVE  /\ \A v \in Workers : ~ Late(worker[v])'
                    /\ \A i \in DOMAIN log' : log'[i].kind # "done"
  BY DEF Over
<1>0. /\ log \in Seq(Events) /\ worker \in [Workers -> WorkerStates] /\ LastExec \in Nat
      /\ Placed(worker[w], Len(log)) /\ LastExec = Len(script) /\ worker[w].next \in Nat
      /\ worker[w].batch \in Seq(Events) /\ IInv
      /\ Types /\ script \in Seq(Yields)
  BY LenProperties DEF IInv, ChatInv, Types, LastExec, WorkersInv, WorkerStates
<1>s. script' = script
  BY DEF WorkerStep, Acquire, LeaseFence, Yield, EndsEarly, PersistTerminal, AppendTerminal,
         YieldDone, FlushInsert, AbandonToRecovery, CrashWorker
<1>l. LastExec' = LastExec
  BY <1>s DEF LastExec
\* A step that leaves the log free of done, and the worker early.
<1>e. ASSUME \A v \in Workers : worker'[v] = worker[v] \/ worker'[v].pc \in {"exec", "gone"},
             \A v \in Workers : ~ Late(worker[v])
      PROVE  \A v \in Workers : ~ Late(worker[v])'
  <2>1. \A v \in Workers : ~ Late(worker'[v])
    BY <1>e DEF Late
  <2> QED BY <1>l, <2>1 DEF Late
<1>o. status \notin TerminalRun =>
        (\A v \in Workers : ~ Late(worker[v])) /\ \A i \in DOMAIN log : log[i].kind # "done"
  BY DEF Over
<1>t. "completed" \in TerminalRun /\ "cancelled" \in TerminalRun /\ "pending" \notin TerminalRun
  BY DEF TerminalRun
<1>1. CASE Acquire(w)
  <2>1. /\ status = "pending" /\ log' = Append(log, Ev("run.started", 0))
        /\ worker' = [worker EXCEPT ![w].pc = "exec"]
    BY <1>1 DEF Acquire, append
  <2>2. Ev("run.started", 0) \in Events /\ Ev("run.started", 0).kind # "done"
    BY EventFacts DEF Lifecycle
  <2>3. \A v \in Workers : worker'[v] = worker[v] \/ worker'[v].pc \in {"exec", "gone"}
    BY <1>0, <2>1 DEF WorkerStates
  <2> QED BY <1>0, <1>e, <1>o, <1>t, <2>1, <2>2, <2>3, NoDoneGrows
<1>2. CASE LeaseFence(w) \/ CrashWorker(w)
  <2>1. /\ status' = status /\ log' = log
        /\ worker' = [worker EXCEPT ![w] = [IdleWorker EXCEPT !.pc = "gone"]]
    BY <1>2 DEF LeaseFence, CrashWorker
  <2>2. \A v \in Workers : worker'[v] = worker[v] \/ worker'[v].pc \in {"exec", "gone"}
    BY <1>0, <2>1 DEF IdleWorker
  <2> QED BY <1>e, <1>o, <2>1, <2>2
<1>3. CASE Yield(w)
  <2>1. worker[w].pc = "exec" /\ worker[w].next <= LastExec /\ worker[w].next >= 1
    BY <1>0, <1>3 DEF Yield, Active, Placed
  <2> DEFINE batch == Append(worker[w].batch, script[worker[w].next])
             next  == worker[w].next + 1
  <2>2. /\ batch \in Seq(Events) /\ next \in Nat /\ next <= LastExec + 1
        /\ script[worker[w].next] \in Yields
    BY <1>0, <2>1, YieldBatch
  <2>3. \A k \in 1..Len(batch) : batch[k].kind # "done"
    <3>1. \A k \in 1..Len(worker[w].batch) : worker[w].batch[k].kind # "done"
      BY <1>0, <2>1 DEF Placed
    <3>2. script[worker[w].next].kind # "done" /\ script[worker[w].next] \in Events
      BY <2>2, EventFacts DEF Lifecycle
    <3>3. /\ Len(batch) = Len(worker[w].batch) + 1 /\ Len(worker[w].batch) \in Nat
          /\ batch[Len(worker[w].batch) + 1] = script[worker[w].next]
          /\ \A k \in 1..Len(worker[w].batch) : batch[k] = worker[w].batch[k]
      BY <1>0, <3>2, AppendProperties, LenProperties
    <3> HIDE DEF batch
    <3>4. \A k \in 1..Len(batch) : k \in 1..Len(worker[w].batch) \/ k = Len(worker[w].batch) + 1
      BY <3>3
    <3> QED BY <3>1, <3>2, <3>3, <3>4
  <2>4. PersistBatch(w, next, batch) \/
          (UNCHANGED <<log, status>> /\ worker' = [worker EXCEPT ![w].batch = batch, ![w].next = @ + 1])
    BY <1>3 DEF Yield
  <2> HIDE DEF batch, next
  <2>5. CASE Flushed(w, Len(log), next, batch)
    <3>1. ~ (next > LastExec + 1)
      BY <1>0, <2>2
    <3>2. status' = status
      BY <2>5, <3>1 DEF Flushed
    <3> QED BY <1>0, <1>o, <1>s, <2>2, <2>3, <2>5, <3>2, FlushIsEarly
  <2>6. CASE UNCHANGED <<log, status>> /\
             worker' = [worker EXCEPT ![w].pc = "insert", ![w].seen = Len(log), ![w].next = next,
                                      ![w].batch = batch]
    <3>1. /\ worker'[w].pc = "insert" /\ worker'[w].next = next
          /\ \A v \in Workers : v # w => worker'[v] = worker[v]
      BY <1>0, <2>6 DEF WorkerStates
    <3>2. ~ (next > LastExec + 1)
      BY <1>0, <2>2
    <3>3. \A v \in Workers : ~ Late(worker'[v])
      BY <1>o, <2>6, <3>1, <3>2 DEF Late
    <3> QED BY <1>l, <1>o, <2>6, <3>3 DEF Late
  <2>7. CASE UNCHANGED <<log, status>> /\ worker' = [worker EXCEPT ![w].batch = batch, ![w].next = @ + 1]
    <3>1. \A v \in Workers : worker'[v] = worker[v] \/ worker'[v].pc \in {"exec", "gone"}
      BY <1>0, <2>1, <2>7 DEF WorkerStates
    <3> QED BY <1>e, <1>o, <2>7, <3>1
  <2> QED BY <2>4, <2>5, <2>6, <2>7 DEF PersistBatch
<1>4. CASE EndsEarly(w)
  BY <1>4, <1>t DEF EndsEarly
<1>5. CASE PersistTerminal(w)
  BY <1>5, <1>t DEF PersistTerminal
<1>6. CASE AppendTerminal(w)
  <2>1. worker[w].pc = "event" /\ status' = status
    BY <1>6 DEF AppendTerminal
  <2> QED BY <1>o, <2>1 DEF Late
<1>7. CASE YieldDone(w)
  <2>1. worker[w].pc = "done"
    BY <1>7 DEF YieldDone
  <2>2. status \in TerminalRun
    BY <1>o, <2>1 DEF Late
  <2>3. LastExec + 2 > LastExec + 1
    BY <1>0
  <2>4. status' = status
    BY <1>7, <2>2, <2>3 DEF YieldDone, PersistBatch, Flushed, Release
  <2> QED BY <2>2, <2>4
<1>8. CASE FlushInsert(w)
  <2>1. worker[w].pc = "insert" /\ Flushed(w, worker[w].seen, worker[w].next, worker[w].batch)
    BY <1>8 DEF FlushInsert
  <2>2. CASE worker[w].next > LastExec + 1
    <3>1. status \in TerminalRun
      BY <1>o, <2>1, <2>2 DEF Late
    <3>2. status' = status
      BY <2>1, <2>2, <3>1 DEF Flushed, Release
    <3> QED BY <3>1, <3>2
  <2>3. CASE ~ (worker[w].next > LastExec + 1)
    <3>1. status' = status /\ worker[w].next <= LastExec + 1
      BY <1>0, <2>1, <2>3 DEF Flushed
    <3>2. \A k \in 1..Len(worker[w].batch) : worker[w].batch[k].kind # "done"
      BY <1>0, <3>1 DEF Placed
    <3> QED BY <1>0, <1>o, <1>s, <2>1, <3>1, <3>2, FlushIsEarly
  <2> QED BY <2>2, <2>3
<1>9. CASE AbandonToRecovery(w)
  <2>1. /\ worker[w].pc = "exec" /\ status' = status /\ log' \in {log, log \o worker[w].batch}
        /\ worker' = [worker EXCEPT ![w] = [IdleWorker EXCEPT !.pc = "gone"]]
    BY <1>9 DEF AbandonToRecovery
  <2>2. \A v \in Workers : worker'[v] = worker[v] \/ worker'[v].pc \in {"exec", "gone"}
    BY <1>0, <2>1 DEF IdleWorker
  <2>3. \A k \in 1..Len(worker[w].batch) : worker[w].batch[k].kind # "done"
    BY <1>0, <2>1 DEF Placed
  <2> QED BY <1>0, <1>e, <1>o, <2>1, <2>2, <2>3, NoDoneGrows
<1> QED
  BY <1>1, <1>2, <1>3, <1>4, <1>5, <1>6, <1>7, <1>8, <1>9 DEF WorkerStep

LEMMA OverStep == ASSUME IInv, Over, [Next]_vars PROVE Over'
<1>1. ASSUME UNCHANGED <<script, log, worker>>, status' = status \/ status' \in TerminalRun
      PROVE  Over'
  BY <1>1 DEF Over, Late, LastExec
<1>2. CASE \E w \in Workers : WorkerStep(w) \/ AbandonToRecovery(w) \/ CrashWorker(w)
  BY <1>2, WorkerIsLate
<1>3. CASE Reconcile
  <2> DEFINE ev == Ev("recovery.requeued", 0)
  <2>1. /\ status = "running" /\ log' \in {log, Append(log, ev)} /\ UNCHANGED <<script, worker>>
    BY <1>3 DEF Reconcile, append
  <2>2. ev \in Events /\ ev.kind # "done"
    BY EventFacts DEF Lifecycle
  <2> HIDE DEF ev
  <2>3. /\ \A w \in Workers : ~ Late(worker[w])
        /\ \A i \in DOMAIN log : log[i].kind # "done"
    BY <2>1 DEF Over, TerminalRun
  <2>4. \A i \in DOMAIN log' : log'[i].kind # "done"
    BY <2>1, <2>2, <2>3, NoDoneGrows DEF IInv, Types
  <2> QED BY <2>1, <2>3, <2>4 DEF Over, Late, LastExec
<1>4. CASE PanelCancel \/ CancelArrives
  BY <1>1, <1>4 DEF PanelCancel, CancelArrives, CancelRun, TerminalRun, client
<1>5. CASE TailStep \/ PanelStep \/ ChatStep \/ GraphStep \/ Reattach \/ PanelDrop \/ PanelRefresh
           \/ ChatDrop \/ ChatStop \/ ChatLeave \/ GraphPollFails
  <2>1. UNCHANGED <<script, log, worker, status>>
    BY <1>5 DEF TailStep, PollEvents, PollStatus, PanelStep, Connect, PanelReceive, PanelEnd, ChatStep,
                Send, ChatReceive, ChatEnd, GraphStep, GraphPoll, GraphAnswer, Reattach, PanelDrop,
                PanelRefresh, ChatDrop, ChatStop, ChatLeave, GraphPollFails, server
  <2> QED BY <1>1, <2>1
<1>6. CASE UNCHANGED vars
  BY <1>1, <1>6 DEF vars, server
<1> QED
  BY <1>2, <1>3, <1>4, <1>5, <1>6 DEF Next

LEMMA OverAlways == Spec => []Over
<1>1. Init => Over
  BY DEF Init, Over, Late, IdleWorker
<1>2. IInv /\ Over /\ [Next]_vars => Over'
  BY OverStep
<1> QED
  BY Invariance, <1>1, <1>2, PTL DEF Spec

\* The durable panel (hooks/useDurableAgentRun.ts) has applied exactly the events
\* of run_events from where the page was loaded to its cursor, each once and in
\* order: through reconnects, frames cut by the socket, refreshes, requeues and two
\* workers that write one log.
THEOREM CursorIsFaithful == Spec => []CursorFaithful
<1>1. IInv => CursorFaithful
  BY DEF IInv, PanelInv
<1> QED
  BY Invariance, <1>1, PTL

\* A reply that the chat (hooks/useChatStream.ts) has stored as finished is the
\* whole answer of the runtime, with what a refusal withdrew taken out, when one
\* execution of the run stored every batch (agents/workflow/worker.py): however
\* often the turn was adopted again, and wherever batches and the terminal event
\* of the orchestrator met.
THEOREM CompleteIsWhole == Spec => []CompleteMeansWhole
<1>1. ASSUME IInv PROVE CompleteMeansWhole
  <2> SUFFICES ASSUME clean, turn.commit.finish = "stop"
               PROVE  Says(turn.commit.text, Kept(Len(script)))
    BY DEF CompleteMeansWhole
  <2>1. PICK i \in DOMAIN log :
           log[i] = Stop /\ (Straight(log, i) => Says(turn.commit.text, Kept(Len(script))))
    BY <1>1, ReaderFacts DEF Committed
  <2>2. Straight(log, i)
    BY <1>1, <2>1 DEF IInv, ChatInv, CleanRun, DoneLast, Straightened
  <2> QED BY <2>1, <2>2
<1>2. IInv => CompleteMeansWhole
  BY <1>1
<1> QED
  BY Invariance, <1>2, PTL

\* A chat turn (lib/chat-stream-state.ts, hooks/useChatStream.ts) enters one
\* message, and no event, stop, lost socket or unmount changes it afterwards.  A page
\* that adopts the run begins another turn, but never after one that done completed:
\* done leaves a worker only after the terminal status is committed
\* (orchestrator._finalize_run), and a run that is over is not executed again.
THEOREM OneMessage == Spec => OneMessagePerTurn
<1>1. ASSUME IInv, Over, [Next]_vars, turn.terminated
      PROVE  turn'.commit = turn.commit \/ (Adopts /\ turn.commit.finish # "stop")
  <2>1. CASE Reattach
    <3>1. Adopts /\ status \notin TerminalRun
      BY <2>1 DEF Reattach, Adopts, TerminalRun
    <3>2. \A i \in DOMAIN log : log[i] # Stop
      BY <1>1, <3>1, EventFacts DEF Over, Stop, Lifecycle
    <3>3. Committed(turn)
      BY <1>1, ReaderFacts
    <3> QED BY <3>1, <3>2, <3>3 DEF Committed
  <2>2. CASE ~ Reattach
    BY <1>1, <2>2, StepIInv
  <2> QED BY <2>1, <2>2
<1>2. IInv /\ Over /\ [Next]_vars =>
        [turn.terminated => turn'.commit = turn.commit \/ (Adopts /\ turn.commit.finish # "stop")]_vars
  BY <1>1
<1> QED
  BY Invariance, OverAlways, <1>2, PTL DEF Spec, OneMessagePerTurn

=============================================================================
