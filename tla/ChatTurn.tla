------------------------------ MODULE ChatTurn ------------------------------
(***************************************************************************)
(* The inline turns of one conversation (ChatService.stream in             *)
(* services/chat_service.py) and what a user may do to its messages        *)
(* meanwhile (api/messages.py, api/message_versions.py,                    *)
(* api/conversations.py, services/message_versions.py, title_service.py).  *)
(*                                                                         *)
(* Two API replicas serve the conversation; the in-flight guard is a       *)
(* dictionary of one process.  Everything a turn writes before its prompt  *)
(* is admitted belongs to one transaction, except the early commit of      *)
(* maybe_autotitle.  Between two steps of a turn it awaits retrieval, a    *)
(* model or the database, and anything else may happen.                    *)
(*                                                                         *)
(* Credits and quota are in Credits, the model and its tools in ToolLoop,  *)
(* the durable dispatch in DurableRun.                                     *)
(***************************************************************************)
EXTENDS TurnRoute, AnswerGate

CONSTANTS
    Procs,            \* API replicas
    Turns,            \* slots for turns under way
    Requests,         \* what users send: [kind, mode, exec, profile, q, kbs, mentions, force]
    Intents,          \* what the classifier may answer, << >> included
    Answers,          \* what the model may write
    Histories,        \* initial messages: subset of {"new", "answered"}
    Chunks,           \* 1..n, the chunks of the knowledge base, best match first
    BufferHighRisk,   \* RAG_HIGH_RISK_BUFFER
    PerMessage,       \* MAX_VERSIONS_PER_MESSAGE
    PerConversation,  \* MAX_VERSIONS_PER_CONVERSATION
    MaxWork,          \* bound: turns begun, counted twice, and events
    MaxEvents,        \* bound: edits, truncations, switches, renames, deletions, faults
    MaxFaults         \* bound: failures, disconnects, crashes, changes of evidence

ASSUME ChatTurnAssumption ==
    /\ Histories \subseteq {"new", "answered"}
    /\ BufferHighRisk \in BOOLEAN
    /\ {PerMessage, PerConversation} \subseteq Nat \ {0} /\ PerMessage <= PerConversation
    /\ {MaxWork, MaxEvents, MaxFaults} \subseteq Nat /\ Chunks \subseteq Nat \ {0}
    /\ IsFiniteSet(Chunks)
    /\ Answers \subseteq [claims : SUBSET [cites : SUBSET Nat, pii : BOOLEAN], odd : Oddities, note : {""}]

User == "u"

VARIABLES
    msgs,      \* committed messages: [id, role, stamp, status, body]; ids follow created_at
    versions,  \* message_versions, oldest first: [msg, stamp, status, body]
    title,     \* conversation.title
    alive,     \* the conversation is not deleted
    guard,     \* per replica: _ConversationTurnGuard holds this conversation
    turns,     \* the turns under way
    differ,    \* per replica: the fragments WorldStateDiffer saw last
    chunks,    \* the evidence in the database
    edits,     \* requests that have read their rows and not committed: [no, rows, text]
    clock,     \* ids and stamps given out
    written,   \* history: every finished text a message ever held, less what was overrun
    snaps,     \* history: every snapshot ever taken
    spent      \* turns, ops and faults so far

conversation == <<msgs, versions, title, alive, edits, written, snaps>>
vars == <<conversation, guard, turns, differ, chunks, clock, spent>>

-----------------------------------------------------------------------------
NoReq == [kind |-> "none", mode |-> "auto", exec |-> "auto", profile |-> "", q |-> {},
          kbs |-> {}, mentions |-> {}, force |-> FALSE]
IdleTurn == [home |-> "", phase |-> "idle", req |-> NoReq, route |-> RouteDecision,
             tail |-> << >>, ask |-> << >>, pend |-> 0, gate |-> OpenGate({}, {}, FALSE, FALSE),
             prompt |-> {}, raw |-> NoText, shown |-> NoText]

Plain == Text({}, "none")
Row(id, role, status, body) == [id |-> id, role |-> role, stamp |-> id, status |-> status, body |-> body]

\* _is_generating, and the same test in _delete_last_assistant_message.
IsGenerating(m) == m.status = "pending"

LastOf(set) == { m \in set : \A o \in set : o.id <= m.id }
Before(m) == { o \in msgs : o.id < m.id }

\* Rows another transaction has deleted without having committed.
Locked == { turns[t].tail[1].id : t \in { x \in Turns : turns[x].phase \in {"asked", "grounded"}
                                                         /\ turns[x].tail # << >> } }
Events == spent.ops + spent.faults
Quiet == Events < MaxEvents /\ 2 * spent.turns + Events < MaxWork
Fault == Quiet /\ spent.faults < MaxFaults /\ spent' = [spent EXCEPT !.faults = @ + 1]
Op    == Quiet /\ alive /\ spent' = [spent EXCEPT !.ops = @ + 1]

-----------------------------------------------------------------------------
(***************************************************************************)
(* services/message_versions.py.                                           *)
(***************************************************************************)
\* The n-th smallest of the numbers of a set.
Nth(set, n) == CHOOSE i \in set : Cardinality({ j \in set : j <= i }) = n

\* prune_versions: the newest of each message, then the newest of all.
PruneVersions(vs) ==
    LET newer(i) == { j \in DOMAIN vs : j > i /\ vs[j].msg = vs[i].msg }
        kept == { i \in DOMAIN vs : Cardinality(newer(i)) < PerMessage /\ i > Len(vs) - PerConversation }
    IN  [ n \in 1..Cardinality(kept) |-> vs[Nth(kept, n)] ]

Version(m) == [msg |-> m.id, stamp |-> m.stamp, status |-> m.status, body |-> m.body]

\* snapshot_message, one message after the other.
SnapshotAll(vs, ms) ==
    LET after[i \in 0..Len(ms)] == IF i = 0 THEN vs ELSE PruneVersions(Append(after[i - 1], Version(ms[i])))
    IN  after[Len(ms)]
InOrder(set) ==
    LET ids == { m.id : m \in set }
    IN  [ n \in 1..Cardinality(ids) |-> CHOOSE m \in set : m.id = Nth(ids, n) ]

\* Seeded fault: a version is taken of nothing.
NoSnapshot(set) == UNCHANGED <<versions, snaps>>

Snapshot(set) ==
    /\ versions' = SnapshotAll(versions, InOrder(set))
    /\ snaps' = snaps \o [ i \in DOMAIN InOrder(set) |-> Version(InOrder(set)[i]) ]

-----------------------------------------------------------------------------
(***************************************************************************)
(* The user's other requests.  An edit, a switch and a truncation read     *)
(* their rows and check them; they await the flush of the versions, the    *)
(* prune and the locks of rows, and write what follows from what they      *)
(* read: no lock is taken at the read, and no version compared.  A version *)
(* takes its place when it is committed; the code numbers it at the flush, *)
(* so of two versions whose transactions overlap either may be the older.  *)
(***************************************************************************)
Stamps(rows) == { m.stamp : m \in { x \in rows : ~IsGenerating(x) } }
Ids(rows) == { m.id : m \in rows }

\* A text committed after rows were read and before they are written over or
\* deleted: the version holds the text that was read, and this one is gone unless
\* an earlier version holds it.
Overrun(rows) == { m.stamp : m \in { x \in msgs \ rows : x.id \in Ids(rows) } }
                     \ { v.stamp : v \in ToSet(snaps) }

\* The messages become new by a transaction that has read rows.
SetMsgs(new, rows) == msgs' = new /\ written' = (written \ Overrun(rows)) \cup Stamps(new)

Elsewhere == UNCHANGED <<guard, turns, differ, chunks>>

\* The read: of the rows a request will replace by the text, or delete.
Read(rows, text) ==
    /\ Op /\ edits' = edits \cup {[no |-> spent.ops, rows |-> rows, text |-> text]}
    /\ UNCHANGED <<msgs, versions, title, alive, written, snaps>> /\ Elsewhere

\* The versions and the rows, in one transaction that waits for the lock of a row
\* a regenerate has deleted.
Commit(e, new) ==
    /\ alive /\ Ids(e.rows) \cap Locked = {}
    /\ Snapshot(e.rows) /\ SetMsgs(new, e.rows) /\ edits' = edits \ {e}
    /\ UNCHANGED <<title, alive, clock, spent>> /\ Elsewhere

\* edit_message_content: the text changes, the later turns stay.
EditMessage(m) ==
    /\ ~IsGenerating(m)
    /\ clock' = clock + 1
    /\ Read({m}, << [stamp |-> clock + 1, status |-> m.status, body |-> Plain] >>)

\* activate_message_version: a version of this very message comes back; the
\* current text is kept as a version.  Nothing is written when they are equal.
ActivateVersion(m, v) ==
    /\ v.msg = m.id /\ Version(m) # v
    /\ Read({m}, << [stamp |-> v.stamp, status |-> v.status, body |-> v.body] >>)
    /\ UNCHANGED clock

\* truncate_after_message: refused while a later reply is generating.
Doomed(anchor) == { m \in msgs : m.id > anchor.id }
TruncateAfter(anchor) ==
    /\ Doomed(anchor) # {} /\ \A m \in Doomed(anchor) : ~IsGenerating(m)
    /\ Read(Doomed(anchor), << >>)
    /\ UNCHANGED clock

\* An edit or a switch replaces the text, whatever it is by now.
FinishEdit(e) ==
    /\ e.text # << >> /\ Ids(e.rows) \subseteq Ids(msgs)
    /\ Commit(e, { IF m.id \in Ids(e.rows)
                   THEN [m EXCEPT !.stamp = e.text[1].stamp, !.status = e.text[1].status, !.body = e.text[1].body]
                   ELSE m : m \in msgs })

\* A truncation deletes the rows it read, those that are left of them.
FinishTruncate(e) ==
    /\ e.text = << >>
    /\ Commit(e, { m \in msgs : m.id \notin Ids(e.rows) })

\* The row of an edit is gone, or the conversation: nothing is written.
FailEdit(e) ==
    /\ ~alive \/ (e.text # << >> /\ ~(Ids(e.rows) \subseteq Ids(msgs)))
    /\ edits' = edits \ {e}
    /\ UNCHANGED <<msgs, versions, title, alive, written, snaps, clock, spent>> /\ Elsewhere

\* update_conversation, the title.
Rename ==
    /\ \E t \in Turns : turns[t].phase = "titling"
    /\ Op /\ title # "renamed" /\ title' = "renamed"
    /\ UNCHANGED <<msgs, versions, alive, edits, written, snaps, clock>> /\ Elsewhere

\* delete_conversation: messages and versions go with it.
DeleteConversation ==
    /\ Op /\ Locked = {}
    /\ alive' = FALSE /\ msgs' = {} /\ versions' = << >>
    /\ UNCHANGED <<title, edits, written, snaps, clock>> /\ Elsewhere

-----------------------------------------------------------------------------
(***************************************************************************)
(* A turn.                                                                 *)
(***************************************************************************)
Step(t, from, to) == turns[t].phase = from /\ turns' = [turns EXCEPT ![t].phase = to]
Release(t) == guard' = [guard EXCEPT ![turns[t].home] = FALSE]

\* The turn is over and its transaction, if any, rolled back.
Abort(t) == turns' = [turns EXCEPT ![t] = IdleTurn] /\ Release(t)

\* stream, _get_or_create_conversation, the guard, the route.  A second turn of
\* the same process is refused (409) and leaves no trace.
Begin(t, p, req) ==
    /\ turns[t].phase = "idle" /\ alive
    /\ 2 * spent.turns + Events + 2 <= MaxWork /\ spent' = [spent EXCEPT !.turns = @ + 1]
    /\ ~guard[p] /\ guard' = [guard EXCEPT ![p] = TRUE]
    /\ turns' = [turns EXCEPT ![t] =
                    [IdleTurn EXCEPT !.home = p, !.phase = "begun", !.req = req,
                                     !.route = ResolveTurnRoute(req, req.kbs # {})]]
    /\ UNCHANGED <<conversation, differ, chunks, clock>>

\* The user message; maybe_autotitle titles an untitled conversation and commits.
IsDefaultTitle == title = "default" /\ alive
AskUser(t) ==
    /\ turns[t].req.kind = "send"
    /\ turns[t].phase = "begun"
    /\ clock' = clock + 1
    /\ LET row == Row(clock + 1, "user", "done", Plain)
       IN  /\ turns' = [turns EXCEPT ![t].phase = "asked",
                                     ![t].ask = IF IsDefaultTitle THEN << >> ELSE <<row>>]
           /\ IF IsDefaultTitle THEN SetMsgs(msgs \cup {row}, {}) /\ title' = "fallback"
              ELSE UNCHANGED <<msgs, title, written>>
    /\ UNCHANGED <<versions, alive, edits, snaps, guard, differ, chunks, spent>>

\* _delete_last_assistant_message, the read: nothing to replay, or a reply still
\* generating, ends the turn.
ReadTail(t) ==
    /\ turns[t].phase = "begun" /\ turns[t].req.kind = "regenerate"
    /\ LET last == LastOf(msgs)
           usable == \E m \in last :
                        \/ m.role = "user"
                        \/ ~IsGenerating(m) /\ \E o \in LastOf(Before(m)) : o.role = "user"
       IN  IF ~usable THEN Abort(t)
           ELSE /\ turns' = [turns EXCEPT
                     ![t].phase = "tail",
                     ![t].tail = InOrder({ m \in last : m.role = "assistant" })]
                /\ UNCHANGED guard
    /\ UNCHANGED <<conversation, differ, chunks, clock, spent>>

\* The delete waits for the row lock of another regenerate.
DropTail(t) ==
    /\ Step(t, "tail", "asked")
    /\ \A i \in DOMAIN turns[t].tail : turns[t].tail[i].id \notin Locked
    /\ UNCHANGED <<conversation, guard, differ, chunks, clock, spent>>

\* open_turn_gate and retrieval: skipped without a base or for chit-chat; a
\* failure leaves the turn without evidence.
Sound(text) == [there |-> TRUE, text |-> text, status |-> "indexed", owner |-> User]
Usable == { c \in Chunks : chunks[c] = Sound(chunks[c].text) }
Item(c) == [id |-> c, text |-> chunks[c].text]
Retrieve(t) ==
    LET req == turns[t].req
        gate == OpenGate(req.q, req.kbs, req.kbs # {} \/ req.mentions # {}, BufferHighRisk)
        found == LET s == InOrder({ [id |-> c] : c \in Usable }) IN [ i \in DOMAIN s |-> Item(s[i].id) ]
        Done(g) == turns' = [turns EXCEPT ![t].phase = "grounded", ![t].gate = g]
    IN  /\ turns[t].phase = "asked"
        /\ \/ (req.kbs = {} \/ IsCasual(req.q)) /\ Done(gate) /\ UNCHANGED spent
           \/ req.kbs # {} /\ ~IsCasual(req.q) /\ Done(RetrieveForGate(gate, found)) /\ UNCHANGED spent
           \/ req.kbs # {} /\ ~IsCasual(req.q) /\ Fault
              /\ (Done(RetrieveForGate(gate, << >>)) \/ Done(gate))
        /\ UNCHANGED <<conversation, guard, differ, chunks, clock>>

\* Intent, enrichment by what changed since the last turn of this replica, and
\* the admission of the prompt.
Fragments(route) == { <<"mode", route.mode>>, <<"project">>, <<"format">> }
Diff(p, frags) == frags \ differ[p]

Routed(t, intent) ==
    IF ClassifiesIntent(turns[t].req) /\ intent # << >>
    THEN DecideRouteWithIntent(turns[t].req.mode, turns[t].req.kbs # {}, turns[t].req.q, intent)
    ELSE turns[t].route

\* The pending reply, the question and the regenerate's delete are committed.
NewMessages(t) ==
    { m \in msgs : \A i \in DOMAIN turns[t].tail : turns[t].tail[i].id # m.id }
        \cup ToSet(turns[t].ask) \cup { Row(clock + 1, "assistant", "pending", NoText) }

Compose(t, intent) ==
    /\ turns[t].phase = "grounded" /\ alive
    /\ ClassifiesIntent(turns[t].req) \/ intent = << >>
    /\ LET route == Routed(t, intent)
           frags == Fragments(route)
       IN  /\ differ' = [differ EXCEPT ![turns[t].home] = frags]
           /\ turns' = [turns EXCEPT
                ![t].phase = IF PreGenerationRefusal(turns[t].gate) = "" THEN "generating" ELSE "refusing",
                ![t].route = route, ![t].pend = clock + 1, ![t].tail = << >>, ![t].ask = << >>,
                ![t].prompt = Diff(turns[t].home, frags)]
    /\ clock' = clock + 1
    /\ SetMsgs(NewMessages(t), ToSet(turns[t].tail))
    /\ Snapshot(ToSet(turns[t].tail))
    /\ UNCHANGED <<title, alive, edits, guard, chunks, spent>>

\* The prompt does not fit, or the client left, or the conversation is gone.
GiveUp(t) ==
    /\ turns[t].phase \in {"tail", "asked", "grounded"}
    /\ alive => Fault
    /\ ~alive => UNCHANGED spent
    /\ differ' = IF turns[t].phase = "grounded"
                 THEN [differ EXCEPT ![turns[t].home] = Fragments(turns[t].route)] ELSE differ
    /\ Abort(t)
    /\ UNCHANGED <<conversation, chunks, clock>>

\* The pending row of a turn, if it is still there.
Mine(t) == { m \in msgs : m.id = turns[t].pend }
Store(t, status, body) ==
    SetMsgs({ IF m \in Mine(t) THEN [m EXCEPT !.status = status, !.body = body] ELSE m : m \in msgs }, {})

EndWith(t, raw, shown) ==
    /\ turns' = [turns EXCEPT ![t] = [IdleTurn EXCEPT !.phase = "done", !.raw = raw, !.shown = shown]]
    /\ Release(t)

Rest(t) == UNCHANGED <<versions, alive, edits, snaps, differ, chunks, clock>>

\* _refuse_before_generation: the answer was never generated.
Refuse(t) ==
    LET text == Refusal(PreGenerationRefusal(turns[t].gate)) IN
    /\ turns[t].phase = "refusing" /\ Mine(t) # {}
    /\ Store(t, "complete", text) /\ EndWith(t, NoText, text)
    /\ UNCHANGED <<title, spent>> /\ Rest(t)

\* The model has written a, all of it streamed to the screen unless the turn is
\* buffered.  The gate rechecks the evidence as it is now; the gated text is stored.
Finish(t, a) ==
    LET gate == turns[t].gate
        result == FinalizeGate(gate, a, chunks, User)
        stored == StripMarkers(result.answer, Cardinality(DOMAIN gate.pack))
    IN  /\ turns[t].phase = "generating" /\ Mine(t) # {}
        /\ Store(t, "complete", stored)
        /\ EndWith(t, a, ShownAtDone(gate, result, a))
        /\ UNCHANGED <<title, spent>> /\ Rest(t)

\* An error event, or the client is gone: what was written so far is
\* kept, ungated; its content is of no consequence here.
FinalizeError(t) ==
    /\ turns[t].phase = "generating" /\ Mine(t) # {}
    /\ Fault
    /\ \E status \in {"error", "cancelled"} : Store(t, status, Plain)
    /\ Abort(t)
    /\ UNCHANGED title /\ Rest(t)

\* The stream ends without a final write: a client that leaves during a refusal,
\* a gate, settlement or commit that fails, a conversation deleted meanwhile.
Abandon(t) ==
    /\ turns[t].phase \in {"generating", "refusing"}
    /\ Mine(t) # {} => Fault
    /\ Mine(t) = {} => UNCHANGED spent
    /\ Abort(t)
    /\ UNCHANGED <<conversation, differ, chunks, clock>>

\* After done: the title is refined by a task of its own, which reads the title,
\* asks a model, and writes.
RefineRead(t) ==
    /\ turns[t].phase = "done" /\ turns[t].raw # NoText
    /\ turns' = IF title = "fallback" /\ alive THEN [turns EXCEPT ![t].phase = "titling"]
                ELSE [turns EXCEPT ![t] = IdleTurn]
    /\ UNCHANGED <<conversation, guard, differ, chunks, clock, spent>>

RefineWrite(t) ==
    /\ turns[t].phase = "titling"
    /\ turns' = [turns EXCEPT ![t] = IdleTurn]
    /\ title' \in (IF alive THEN {"refined", title} ELSE {title})
    /\ UNCHANGED <<msgs, versions, alive, edits, written, snaps, guard, differ, chunks, clock, spent>>

\* A refused turn starts no title task.
Retire(t) ==
    /\ turns[t].phase = "done" /\ turns[t].raw = NoText
    /\ turns' = [turns EXCEPT ![t] = IdleTurn]
    /\ UNCHANGED <<conversation, guard, differ, chunks, clock, spent>>

\* A replica dies: its guard and differ with it, rows stay as committed.
Crash(p) ==
    /\ Fault
    /\ \E t \in Turns : turns[t].home = p
    /\ turns' = [t \in Turns |-> IF turns[t].home = p THEN IdleTurn ELSE turns[t]]
    /\ guard' = [guard EXCEPT ![p] = FALSE] /\ differ' = [differ EXCEPT ![p] = {}]
    /\ UNCHANGED <<conversation, chunks, clock>>

\* The evidence changes before the answer is gated: deleted, indexed again, being
\* indexed, handed over.  Bound: afterwards only what is under way goes on.
EvidenceChanges(c) ==
    /\ Quiet /\ spent.faults < MaxFaults
    /\ spent' = [spent EXCEPT !.ops = MaxWork, !.faults = MaxFaults]
    /\ \E t \in Turns : turns[t].phase = "generating" /\ turns[t].gate.pack # << >>
    /\ \E row \in { [chunks[c] EXCEPT !.there = FALSE], [chunks[c] EXCEPT !.text = "v2"],
                    [chunks[c] EXCEPT !.status = "indexing"], [chunks[c] EXCEPT !.owner = "other"] } :
            row # chunks[c] /\ chunks' = [chunks EXCEPT ![c] = row]
    /\ UNCHANGED <<conversation, guard, turns, differ, clock>>

-----------------------------------------------------------------------------
First == {Row(1, "user", "done", Plain), Row(2, "assistant", "complete", Plain)}

Init ==
    /\ \E h \in Histories :
            /\ msgs = IF h = "new" THEN {} ELSE First
            /\ title = IF h = "new" THEN "default" ELSE "fallback"
            /\ written = IF h = "new" THEN {} ELSE {1, 2}
    /\ versions = << >> /\ snaps = << >> /\ edits = {} /\ alive = TRUE
    /\ guard = [p \in Procs |-> FALSE]
    /\ turns = [t \in Turns |-> IdleTurn]
    /\ differ = [p \in Procs |-> {}]
    /\ chunks = [c \in Chunks |-> Sound("v1")]
    /\ clock = 2
    /\ spent = [turns |-> 0, ops |-> 0, faults |-> 0]

TurnStep(t) ==
    \/ \E p \in Procs, req \in Requests : Begin(t, p, req)
    \/ AskUser(t) \/ ReadTail(t) \/ DropTail(t) \/ Retrieve(t)
    \/ \E i \in Intents : Compose(t, i)
    \/ GiveUp(t) \/ Refuse(t) \/ FinalizeError(t) \/ Abandon(t)
    \/ \E a \in Answers : Finish(t, a)
    \/ RefineRead(t) \/ RefineWrite(t) \/ Retire(t)

UserStep ==
    \/ \E m \in msgs : EditMessage(m) \/ TruncateAfter(m)
    \/ \E m \in msgs, i \in DOMAIN versions : ActivateVersion(m, versions[i])
    \/ \E e \in edits : FinishEdit(e) \/ FinishTruncate(e) \/ FailEdit(e)
    \/ Rename \/ DeleteConversation

Next ==
    \/ \E t \in Turns : TurnStep(t)
    \/ UserStep
    \/ \E p \in Procs : Crash(p)
    \/ \E c \in Chunks : EvidenceChanges(c)

Spec == Init /\ [][Next]_vars

-----------------------------------------------------------------------------
\* The reply a live turn is writing stays where the turn will write it, and
\* stays pending, whatever is edited, truncated, switched or regenerated by
\* other requests and replicas: the 409 of _is_generating and of
\* _delete_last_assistant_message, and versions that never hold a pending text.
GeneratingSafe ==
    /\ alive => \A t \in Turns : turns[t].phase \in {"generating", "refusing"} =>
                    \E m \in Mine(t) : m.status = "pending" /\ m.stamp = m.id
    /\ \A i \in DOMAIN versions : versions[i].status # "pending"

\* A finished text that is no longer a message is still a version, unless the
\* caps were full of newer ones: no edit, truncation, switch, regenerate, crash
\* or failed turn loses a text it has read (message_versions.py, the first
\* invariant).  What a request has not read it may write over: of two edits of one
\* message that overlap, the text the first commits may be lost (Overrun).
NothingLost ==
    alive => \A s \in written :
        \/ \E m \in msgs : m.stamp = s
        \/ \E i \in DOMAIN versions : versions[i].stamp = s
        \/ \E i \in DOMAIN snaps : /\ snaps[i].stamp = s
              /\ \/ Cardinality({ j \in DOMAIN snaps : j > i /\ snaps[j].msg = snaps[i].msg }) >= PerMessage
                 \/ Len(snaps) - i >= PerConversation

\* No reply is taken from the turn that writes it, and no text is replaced or
\* deleted by a request that has read it without a version of it being kept.
HistoryKept == GeneratingSafe /\ NothingLost

\* When a turn is done the text on the screen is the text a reload shows.  Of an
\* answer in legible form, every claim left cites only sources of this request
\* that hold at that moment and carries no personal data, and a high-risk answer
\* rests on at least one of them (gate_answer, stream_gated).
Holds(c, gate) ==
    /\ c.cites \subseteq DOMAIN gate.pack /\ ~c.pii
    /\ \A n \in c.cites : chunks[gate.pack[n].id] = Sound(gate.pack[n].text)
AnswerStands ==
    [][ \A t \in Turns : turns[t].phase = "generating" /\ turns'[t].phase = "done" =>
          LET text == (CHOOSE m \in msgs' : m.id = turns[t].pend).body
              gate == turns[t].gate
          IN  /\ turns'[t].shown = text
              /\ ~SchemaProblem(turns'[t].raw) => \A c \in text.claims : Holds(c, gate)
              /\ gate.high /\ text.note = "" /\ ~SchemaProblem(turns'[t].raw) =>
                    \E c \in text.claims : c.cites # {}
              /\ ~(gate.attempted /\ gate.insufficient /\ (gate.explicit \/ gate.high)) ]_vars

\* Every prompt sent to a model carries the instructions in force: the behaviour
\* of the mode, the project instructions and the answer format.
InstructionsReach ==
    \A t \in Turns : turns[t].phase = "generating" => turns[t].prompt = Fragments(turns[t].route)
=============================================================================
