---------------------------- MODULE ProviderStream ----------------------------
(***************************************************************************)
(* What the model providers make of a reply: the three wire formats folded *)
(* into one stream of deltas, the tries of a request, the admission of its *)
(* payload and the translation of a transcript for Anthropic.              *)
(*                                                                         *)
(* A wire line is a record of the format's fields; `junk' stands for every *)
(* line that is skipped (keep-alives, malformed JSON).  A text or an       *)
(* argument is the sequence of its fragments.  Usage is a function from    *)
(* the counters that were reported.                                        *)
(***************************************************************************)
EXTENDS Integers, Sequences, FiniteSets, SequencesExt

CONSTANT MaxTries  \* the tries of one request, 5

None == "none"
NoUsage == [c \in {} |-> 0]

\* ChatDelta; finish None and NoUsage are the fields left out.
Delta(text, calls, finish, usage) ==
    [text |-> text, calls |-> calls, finish |-> finish, usage |-> usage]
Emit(s, d) == [s EXCEPT !.out = Append(@, d)]

\* What a consumer of the stream ends up with.
Text(out) == FlattenSeq([i \in 1..Len(out) |-> out[i].text])
CallsOf(out) == FlattenSeq([i \in 1..Len(out) |-> out[i].calls])
Finish(out) == FoldLeft(LAMBDA f, d : IF d.finish = None THEN f ELSE d.finish, None, out)
UsageOf(out) == FoldLeft(LAMBDA u, d : IF d.usage = NoUsage THEN u ELSE d.usage, NoUsage, out)
-----------------------------------------------------------------------------
(* OpenAI chunks: [kind, text, frags, finish, usage] with a finish of      *)
(* None; a fragment [idx, id, args] extends the call of its index.         *)

NoSlots == [i \in {} |-> 0]
Opened == [out |-> <<>>, slots |-> NoSlots, finish |-> None, usage |-> NoUsage, over |-> FALSE]

Extend(slots, frag) ==
    LET old == IF frag.idx \in DOMAIN slots THEN slots[frag.idx] ELSE [id |-> None, args |-> <<>>]
    IN  [i \in DOMAIN slots \union {frag.idx} |->
            IF i # frag.idx THEN slots[i]
            ELSE [id |-> IF frag.id = None THEN old.id ELSE frag.id, args |-> old.args \o frag.args]]

InOrder(slots) == LET order == SetToSortSeq(DOMAIN slots, <)
                  IN  [i \in 1..Len(order) |-> slots[order[i]]]

\* _flush_tool_accum: the calls go out together, once.
Flush(s) ==
    IF s.slots = NoSlots THEN s
    ELSE [Emit(s, Delta(<<>>, InOrder(s.slots), "tool_calls", NoUsage)) EXCEPT !.slots = NoSlots]

\* [DONE] ends the stream; "stop" is only made up if no reason was seen.
Done(s) ==
    LET flushed == Flush(s)
        finish == IF s.slots # NoSlots THEN "tool_calls" ELSE s.finish
        closed == IF finish = None THEN Emit(flushed, Delta(<<>>, <<>>, "stop", NoUsage)) ELSE flushed
    IN  [closed EXCEPT !.over = TRUE]

\* A chunk with a choice: text at once, calls held back until a reason comes.
Chunk(s, l) ==
    LET held == [s EXCEPT !.slots = FoldLeft(Extend, s.slots, l.frags)]
        seen == [held EXCEPT !.finish = IF l.finish = None THEN @ ELSE l.finish]
    IN  IF l.text # <<>> THEN Emit(seen, Delta(l.text, <<>>, l.finish, NoUsage))
        ELSE IF l.finish # None THEN Emit(Flush(seen), Delta(<<>>, <<>>, l.finish, NoUsage))
        ELSE seen

ReadLine(s, l) ==
    IF s.over \/ l.kind = "junk" THEN s
    ELSE IF l.kind = "done" THEN Done(s)
    ELSE LET counted == [s EXCEPT !.usage = IF l.usage = NoUsage THEN @ ELSE l.usage]
         IN  IF l.kind = "usage" THEN counted ELSE Chunk(counted, l)

\* The usage goes last, also when the body ends without [DONE].
Close(s) == IF s.usage = NoUsage THEN s.out ELSE Append(s.out, Delta(<<>>, <<>>, None, s.usage))
OpenAiStream(lines) == Close(FoldLeft(ReadLine, Opened, lines))

\* Hermes runs its tools itself: call fragments are dropped, progress is news.
HermesLine(s, l) ==
    IF l.kind = "tool" THEN IF s.over THEN s ELSE Emit(s, Delta(<<>>, <<>>, None, NoUsage))
    ELSE ReadLine(s, [l EXCEPT !.frags = <<>>])
HermesStream(lines) == Close(FoldLeft(HermesLine, Opened, lines))
-----------------------------------------------------------------------------
(* Hermes runs: [kind, text, finish, usage].                               *)

RunLine(s, l) ==
    LET counted == [s EXCEPT !.usage = IF l.usage = NoUsage THEN @ ELSE l.usage] IN
    IF s.over THEN s
    ELSE CASE l.kind = "terminal" ->
                [Emit(counted, Delta(IF s.saw THEN <<>> ELSE l.text, <<>>, l.finish, counted.usage))
                 EXCEPT !.over = TRUE]
           [] l.kind = "token" /\ l.text # <<>> ->
                [Emit(counted, Delta(l.text, <<>>, None, NoUsage)) EXCEPT !.saw = TRUE]
           [] l.kind \in {"tool", "subagent"} -> Emit(counted, Delta(<<>>, <<>>, None, NoUsage))
           [] OTHER -> counted

\* A stream that ends without a terminal event is taken for complete.
RunStreamOf(lines) ==
    LET end == FoldLeft(RunLine, [out |-> <<>>, saw |-> FALSE, usage |-> NoUsage, over |-> FALSE], lines)
    IN  IF end.over THEN end.out ELSE Append(end.out, Delta(<<>>, <<>>, "stop", end.usage))

\* stream_chat: how often the server performs the turn.  A run whose events
\* fail before the first delta is not stopped, and the fallback starts afresh.
Performed(runs, submit, firstDelta) ==
    (IF runs /\ submit THEN 1 ELSE 0) + (IF runs /\ submit /\ firstDelta THEN 0 ELSE 1)
-----------------------------------------------------------------------------
(* Anthropic events: [kind, idx, id, text, whole, stop, usage]; a stop of  *)
(* None is no reason.  whole: the arguments gathered so far would parse.   *)

StopReason == [end_turn |-> "stop", stop_sequence |-> "stop", max_tokens |-> "length",
               tool_use |-> "tool_calls", refusal |-> "content_filter", pause_turn |-> "stop"]

\* _merge_stream_usage: the two snapshots, and a total that fits them.
MergeUsage(u, new) ==
    LET part(c) == IF c \in DOMAIN new THEN new[c] ELSE IF c \in DOMAIN u THEN u[c] ELSE 0
        told == (DOMAIN u \union DOMAIN new) \ {"total"}
    IN  [c \in told \union {"total"} |->
            IF c = "total" THEN part("prompt") + part("completion") ELSE part(c)]

Event(s, e) ==
    IF s.failed THEN s
    ELSE CASE e.kind = "tool_start" -> [s EXCEPT !.slots = Extend([i \in DOMAIN @ \ {e.idx} |-> @[i]],
                                                   [idx |-> e.idx, id |-> e.id, args |-> <<>>])]
           [] e.kind = "text" -> IF e.text = <<>> THEN s ELSE Emit(s, Delta(e.text, <<>>, None, NoUsage))
           [] e.kind = "json" -> IF e.idx \in DOMAIN s.slots
                                 THEN [s EXCEPT !.slots[e.idx].args = @ \o e.text] ELSE s
           [] e.kind = "tool_stop" -> IF e.whole THEN s
                                      ELSE [s EXCEPT !.slots = [i \in DOMAIN @ \ {e.idx} |-> @[i]]]
           [] e.kind = "message" -> [s EXCEPT !.finish = IF e.stop = None THEN @ ELSE StopReason[e.stop],
                                              !.usage = IF e.usage = NoUsage THEN @ ELSE MergeUsage(@, e.usage)]
           [] e.kind = "error" -> [s EXCEPT !.failed = TRUE]
           [] OTHER -> s

\* An error event raises: only what was yielded before it is kept.
AnthropicStream(events) ==
    LET end == FoldLeft(Event, [out |-> <<>>, slots |-> NoSlots, finish |-> None, usage |-> NoUsage,
                                failed |-> FALSE], events)
        calls == end.slots # NoSlots
        flushed == IF calls THEN Append(end.out, Delta(<<>>, InOrder(end.slots), "tool_calls", NoUsage))
                   ELSE end.out
        finish == IF calls THEN "tool_calls" ELSE IF end.finish = None THEN "stop" ELSE end.finish
    IN  IF end.failed THEN end.out ELSE Append(flushed, Delta(<<>>, <<>>, finish, end.usage))
-----------------------------------------------------------------------------
(* The tries of a request.  A try ends ok, refused (a 4xx), busy (a status *)
(* worth another try), dropped before the stream or cut in the middle.     *)

Try(s, outcome, allowed(_)) ==
    IF s.end # None THEN s
    ELSE IF outcome = "ok" THEN [s EXCEPT !.end = "streamed"]
    ELSE IF outcome \in {"refused", "cut"} \/ s.tries = MaxTries THEN [s EXCEPT !.end = "failed"]
    ELSE IF allowed(s.tries + 1) THEN [s EXCEPT !.tries = @ + 1]
    ELSE [s EXCEPT !.end = "timeout"]

\* _request and _request_with_retry never ask the gate of the run.
Stream(outcomes, allowed(_)) ==
    FoldLeft(LAMBDA s, o : Try(s, o, allowed), [tries |-> 1, end |-> None], outcomes)
Post(outcomes) == Stream(outcomes, LAMBDA n : TRUE)
-----------------------------------------------------------------------------
(* Admission and translation.                                              *)

\* admit_provider_payload: the output asked for, clamped, or 0 for a refusal.
Admitted(asked, cap, window, schema, messages) ==
    LET output == IF asked < cap THEN asked ELSE cap
        margin == IF window \div 20 > 256 THEN window \div 20 ELSE 256
        input == window - output - schema - margin
    IN  IF output <= 0 \/ input <= 0 \/ messages > input THEN 0 ELSE output

\* The modality a part needs; a part of no known kind is refused.
Needs == [text |-> None, file |-> None, image |-> "vision", audio |-> "audio_input"]
Routed(parts, caps) == \A p \in parts : p \in DOMAIN Needs /\ (Needs[p] = None \/ Needs[p] \in caps)

\* Which tool schemas a provider sends: Hermes runs its own.
SentTools(provider, tools) == IF provider = "hermes" THEN <<>> ELSE tools

\* One message [role, text, images, calls, answers] as content blocks; a tool
\* result becomes a user message, an empty message nothing.
Blocks(m) ==
    IF m.role = "tool" THEN <<[type |-> "tool_result", id |-> m.answers]>>
    ELSE (IF m.text THEN <<[type |-> "text", id |-> None]>> ELSE <<>>)
         \o [i \in 1..m.images |-> [type |-> "image", id |-> None]]
         \o (IF m.role # "assistant" THEN <<>>
             ELSE [i \in 1..Len(m.calls) |-> [type |-> "tool_use", id |-> m.calls[i]]])
Converted(transcript) ==
    LET turns == SelectSeq(transcript, LAMBDA m : m.role # "system" /\ Blocks(m) # <<>>)
    IN  [i \in 1..Len(turns) |->
            [role |-> IF turns[i].role = "assistant" THEN "assistant" ELSE "user",
             blocks |-> Blocks(turns[i])]]

\* embeddings: by index, an item without a vector is left out.
Embeddings(items) ==
    LET got == SelectSeq(items, LAMBDA x : x.vector)
        order == SortSeq(got, LAMBDA x, y : x.index < y.index)
    IN  [i \in 1..Len(order) |-> order[i].index]
-----------------------------------------------------------------------------
(* The calls that do not stream.                                           *)

\* The kinds of the registry; any other raises.
Providers == {"openai-compatible", "mock", "anthropic", "hermes"}

\* One choice [text, calls, finish] of a completed chat, a missing reason is
\* "stop"; Anthropic's blocks [type, text, id] and stop reason as the same.
Answer(choice) == Delta(choice.text, choice.calls, IF choice.finish = None THEN "stop" ELSE choice.finish, NoUsage)
AnthropicAnswer(blocks, stop) ==
    Delta(FlattenSeq([i \in 1..Len(blocks) |-> IF blocks[i].type = "text" THEN blocks[i].text ELSE <<>>]),
          [i \in 1..Len(SelectSeq(blocks, LAMBDA b : b.type = "tool_use")) |->
              SelectSeq(blocks, LAMBDA b : b.type = "tool_use")[i].id],
          IF stop \in DOMAIN StopReason THEN StopReason[stop] ELSE "stop", NoUsage)

\* transcribe, speak, generate_image and edit_image: nothing is sent to a
\* model that does not declare the ability.
MediaCall(flag, caps, outcomes) ==
    IF flag \notin caps THEN [tries |-> 0, end |-> "unsupported"] ELSE Post(outcomes)

\* The mock calls its tool once, then says its words one by one.
MockStream(words, tools, answered) ==
    IF tools /\ ~answered THEN <<Delta(<<>>, <<"call_mock_search">>, "tool_calls", NoUsage)>>
    ELSE Append([i \in 1..Len(words) |-> Delta(<<words[i]>>, <<>>, None, NoUsage)],
                Delta(<<>>, <<>>, "stop", [c \in {"completion"} |-> Len(words)]))

\* What a Hermes run is given: the last question and the last system text.
RunInput(transcript) ==
    LET LastBy(role) == SelectSeq(transcript, LAMBDA m : m.role = role)
        Of(s) == IF s = <<>> THEN <<>> ELSE <<Last(s)>>
    IN  [input |-> Of(LastBy("user")), instructions |-> Of(LastBy("system"))]

\* A file [absolute, here, size, reply] of the Hermes host, read directly on
\* the same machine and otherwise asked of the agent, which may say anything.
Decoded(f, cap) == f.reply = "b64" /\ f.size \in 1..cap
Fetched(f, cap) == f.absolute /\ IF f.here THEN f.size <= cap ELSE Decoded(f, cap)

\* The paths of an answer worth a card, once each and in order.
Deliverables(paths, safe, forbidden) ==
    FoldLeft(LAMBDA kept, p : IF p.ext \in safe /\ p.at \notin forbidden /\ ~Contains(kept, p)
                              THEN Append(kept, p) ELSE kept, <<>>, paths)
=============================================================================
