----------------------------- MODULE MCToolLoop -----------------------------
(***************************************************************************)
(* Model-checking instance of ToolLoop: a harmless tool and a dangerous    *)
(* one with two argument lists, a call the SQL guard refuses; a large      *)
(* result triggers compaction.  The operators around it (ProviderStream,   *)
(* ToolServers, Patches, CommandRules) are evaluated at start-up.          *)
(***************************************************************************)
EXTENDS ToolLoop, TLC, FiniteSets, Integers, Sequences, SequencesExt

CONSTANTS look, drop, rm1, rm2, reader, shell

MCToolOf == (look :> reader) @@ (drop :> reader) @@ (rm1 :> shell) @@ (rm2 :> shell)
MCFlaw == [a \in Args |-> IF a = drop THEN "sql" ELSE "none"]
MCBatches == {<<>>, <<look>>, <<drop>>, <<rm1>>, <<look, rm1>>, <<rm1, rm1>>,
              <<rm1, rm2>>}

(***************************************************************************)
(* ProviderStream checked over every short stream of each wire format.     *)
(* The module that checks a run extends it.                                *)
(***************************************************************************)
Wire == INSTANCE ProviderStream WITH MaxTries <- 5

Streams(lines, n) == UNION {[1..k -> lines] : k \in 0..n}
Where(s, Test(_)) == {i \in 1..Len(s) : Test(s[i])}
LastOf(S) == IF S = {} THEN 0 ELSE CHOOSE i \in S : \A j \in S : j <= i
FirstOf(S, n) == IF S = {} THEN n ELSE CHOOSE i \in S : \A j \in S : i <= j
Joined(s, n, Field(_)) == FlattenSeq([i \in 1..n |-> Field(s[i])])
Spent(p, c) == [k \in {"prompt", "completion"} |-> IF k = "prompt" THEN p ELSE c]

ChunkLine(text, frags, reason) ==
    [kind |-> "chunk", text |-> text, frags |-> frags, finish |-> reason, usage |-> Wire!NoUsage]
Frag(idx, id, arg) == <<[idx |-> idx, id |-> id, args |-> <<arg>>]>>
OpenAiLines ==
    {ChunkLine(<<"a">>, <<>>, Wire!None), ChunkLine(<<"b">>, <<>>, "length"),
     ChunkLine(<<>>, Frag(1, "x", "1"), Wire!None), ChunkLine(<<>>, Frag(0, "y", "2"), Wire!None),
     ChunkLine(<<>>, Frag(1, Wire!None, "3"), "tool_calls"), ChunkLine(<<>>, <<>>, "length"),
     [ChunkLine(<<>>, <<>>, Wire!None) EXCEPT !.kind = "usage", !.usage = Spent(1, 2)],
     [ChunkLine(<<>>, <<>>, Wire!None) EXCEPT !.kind = "done"],
     [ChunkLine(<<>>, <<>>, Wire!None) EXCEPT !.kind = "junk"]}

\* A reply keeps its text, its usage and its real reason; every fragment of a
\* tool call comes out once, in a call, unless the body is cut before any
\* reason or [DONE] (openai_compatible._iter_sse).
ASSUME RepliesKept ==
    \A s \in Streams(OpenAiLines, 4) :
        LET end == FirstOf(Where(s, LAMBDA l : l.kind = "done"), Len(s))
            out == Wire!OpenAiStream(s)
            calls == Wire!CallsOf(out)
            told == Where(SubSeq(s, 1, end), LAMBDA l : l.kind = "chunk" /\ l.finish # Wire!None)
            cut == LastOf({i \in 1..end : s[i].kind = "done" \/ (i \in told /\ s[i].text = <<>>)})
        IN  /\ Wire!Text(out) = Joined(s, end, LAMBDA l : l.text)
            /\ Wire!UsageOf(out) = Wire!NoUsage
                 <=> Where(SubSeq(s, 1, end), LAMBDA l : l.kind = "usage") = {}
            /\ Len(FlattenSeq([i \in 1..Len(calls) |-> calls[i].args]))
                 = Len(Joined(s, cut, LAMBDA l : l.frags))
            /\ told # {} => \/ Wire!Finish(out) = s[LastOf(told)].finish
                            \/ Wire!Finish(out) = "tool_calls" /\ calls # <<>>
            /\ Wire!Finish(out) = "stop" => told = {} /\ calls = <<>>

\* With tools that run on its own server, Hermes never asks for a local call
\* (hermes._iter_sse), and what it wrote arrives as from any other endpoint.
ASSUME HermesCallsNothing ==
    \A s \in Streams(OpenAiLines \union {[ChunkLine(<<>>, <<>>, Wire!None) EXCEPT !.kind = "tool"]}, 3) :
        /\ Wire!CallsOf(Wire!HermesStream(s)) = <<>>
        /\ Wire!Text(Wire!HermesStream(s))
             = Wire!Text(Wire!OpenAiStream(SelectSeq(s, LAMBDA l : l.kind # "tool")))

RunEvent(kind, text, reason, usage) == [kind |-> kind, text |-> text, finish |-> reason, usage |-> usage]
RunLines ==
    {RunEvent("token", <<"a">>, Wire!None, Wire!NoUsage), RunEvent("token", <<>>, Wire!None, Wire!NoUsage),
     RunEvent("tool", <<>>, Wire!None, Spent(1, 1)), RunEvent("subagent", <<>>, Wire!None, Wire!NoUsage),
     RunEvent("other", <<>>, Wire!None, Spent(2, 1)),
     RunEvent("terminal", <<"a", "a">>, "stop", Wire!NoUsage), RunEvent("terminal", <<>>, "error", Spent(3, 3))}

\* The final answer is not said twice: the full output of run.completed only
\* counts when no token was streamed (hermes._iter_run_events); one reason
\* ends the stream and the latest usage goes with it.
ASSUME SaidOnce ==
    \A s \in Streams(RunLines, 4) :
        LET end == FirstOf(Where(s, LAMBDA l : l.kind = "terminal"), Len(s))
            out == Wire!RunStreamOf(s)
            tokens == Joined(s, end, LAMBDA l : IF l.kind = "token" THEN l.text ELSE <<>>)
            counted == Where(SubSeq(s, 1, end), LAMBDA l : l.usage # Wire!NoUsage)
        IN  /\ Wire!Text(out) = IF tokens # <<>> THEN tokens
                                ELSE Joined(s, end, LAMBDA l : l.text)
            /\ Where(out, LAMBDA d : d.finish # Wire!None) = {Len(out)}
            /\ Wire!UsageOf(out) = IF counted = {} THEN Wire!NoUsage ELSE s[LastOf(counted)].usage

Ev(kind, idx, text, whole, stop, usage) ==
    [kind |-> kind, idx |-> idx, id |-> "c", text |-> text, whole |-> whole, stop |-> stop, usage |-> usage]
AnthropicLines ==
    {Ev("tool_start", i, <<>>, TRUE, Wire!None, Wire!NoUsage) : i \in {0, 1}}
    \union {Ev("json", i, <<IF i = 0 THEN "p" ELSE "q">>, TRUE, Wire!None, Wire!NoUsage) : i \in {0, 1}}
    \union {Ev("tool_stop", 0, <<>>, w, Wire!None, Wire!NoUsage) : w \in BOOLEAN}
    \union {Ev("text", 0, <<"a">>, TRUE, Wire!None, Wire!NoUsage),
            Ev("message", 0, <<>>, TRUE, Wire!None, [c \in {"prompt"} |-> 5]),
            Ev("message", 0, <<>>, TRUE, "max_tokens", [c \in {"completion"} |-> 2]),
            Ev("error", 0, <<>>, TRUE, Wire!None, Wire!NoUsage)}

\* The blocks of an Anthropic reply become whole calls: a call has the
\* fragments that followed its start, a malformed block is no call, the two
\* usage snapshots add up, and an error adds nothing (anthropic._iter_sse).
ASSUME BlocksAssembled ==
    \A s \in Streams(AnthropicLines, 4) :
        LET end == FirstOf(Where(s, LAMBDA e : e.kind = "error"), Len(s) + 1) - 1
            failed == end < Len(s)
            out == Wire!AnthropicStream(s)
            calls == Wire!CallsOf(out)
            opened(i) == LastOf({n \in 1..end : s[n].kind = "tool_start" /\ s[n].idx = i})
            refused(i) == \E n \in opened(i)..end : s[n].kind = "tool_stop" /\ s[n].idx = i /\ ~s[n].whole
            live == {i \in {0, 1} : opened(i) > 0 /\ ~refused(i)}
            args(i) == Joined(SubSeq(s, opened(i), end), end - opened(i) + 1,
                              LAMBDA e : IF e.kind = "json" /\ e.idx = i THEN e.text ELSE <<>>)
            u == Wire!UsageOf(out)
        IN  /\ Wire!Text(out) = Joined(s, end, LAMBDA e : IF e.kind = "text" THEN e.text ELSE <<>>)
            /\ IF failed THEN calls = <<>> /\ Wire!Finish(out) = Wire!None
               ELSE /\ Len(calls) = Cardinality(live)
                    /\ \A i \in live : calls[IF i = 1 /\ 0 \in live THEN 2 ELSE 1].args = args(i)
                    /\ Wire!Finish(out) # Wire!None
                    /\ Wire!Finish(out) = "stop"
                         => live = {} /\ Where(s, LAMBDA e : e.stop # Wire!None) = {}
                    /\ u # Wire!NoUsage
                         => u["total"] = (IF "prompt" \in DOMAIN u THEN 5 ELSE 0)
                                         + (IF "completion" \in DOMAIN u THEN 2 ELSE 0)

Outcomes == {"ok", "busy", "drop", "refused", "cut"}

\* Nothing is sent again once a reply began or was refused, five tries are
\* the most, and no try follows a refusal of the run's gate
\* (openai_compatible.stream_chat, _sleep_before_retry).
ASSUME TriesBounded ==
    \A s \in [1..6 -> Outcomes], last \in 1..6 :
        LET end == Wire!Stream(s, LAMBDA n : n <= last)
        IN  /\ end.tries <= 5 /\ end.tries <= last
            /\ \A i \in 1..end.tries - 1 : s[i] \in {"busy", "drop"}
            /\ end.end = "streamed" <=> s[end.tries] = "ok"
            /\ end.end = "timeout" <=> s[end.tries] \in {"busy", "drop"} /\ end.tries = last /\ last < 5
            /\ last = 6 => end = Wire!Post(s)

\* An admitted payload fits its window with the safety margin, and Hermes may
\* be asked to perform a turn twice only when its event stream failed.
ASSUME PayloadsFit ==
    /\ \A asked, cap \in {0, 100, 900}, window \in {500, 1000, 8000}, schema \in {0, 300}, messages \in {0, 100, 7000} :
           LET output == Wire!Admitted(asked, cap, window, schema, messages)
           IN  output > 0 => /\ output <= asked /\ output <= cap
                             /\ output + schema + messages + 256 <= window
    /\ \A runs, submit, delta \in BOOLEAN :
           Wire!Performed(runs, submit, delta) = 2 <=> runs /\ submit /\ ~delta
    /\ \A parts \in SUBSET {"text", "image", "audio", "video"}, caps \in SUBSET {"vision", "audio_input"} :
           Wire!Routed(parts, caps) => "video" \notin parts /\ ("image" \in parts => "vision" \in caps)
                                       /\ ("audio" \in parts => "audio_input" \in caps)

Said(role, text, calls, answers) ==
    [role |-> role, text |-> text, images |-> 0, calls |-> calls, answers |-> answers]
Transcript ==
    {Said("system", TRUE, <<>>, Wire!None), Said("user", TRUE, <<>>, Wire!None),
     Said("user", FALSE, <<>>, Wire!None), Said("assistant", FALSE, <<>>, Wire!None),
     Said("assistant", FALSE, <<"c1", "c2">>, Wire!None), Said("assistant", TRUE, <<"c1">>, Wire!None),
     Said("tool", TRUE, <<>>, "c1"), Said("tool", TRUE, <<>>, "c2")}

\* The translated transcript holds the same calls and answers in the same
\* order, no empty message and no system role (anthropic._convert_message);
\* a full set of vectors keeps the order of the texts (embeddings).
ASSUME TranslationKeeps ==
    /\ \A s \in Streams(Transcript, 4) :
           LET out == Wire!Converted(s)
               blocks == FlattenSeq([i \in 1..Len(out) |-> out[i].blocks])
               Kept(type) == SelectSeq(blocks, LAMBDA b : b.type = type)
           IN  /\ \A i \in 1..Len(out) : out[i].role \in {"user", "assistant"} /\ out[i].blocks # <<>>
               /\ [i \in 1..Len(Kept("tool_use")) |-> Kept("tool_use")[i].id]
                    = Joined(s, Len(s), LAMBDA m : m.calls)
               /\ [i \in 1..Len(Kept("tool_result")) |-> Kept("tool_result")[i].id]
                    = Joined(s, Len(s), LAMBDA m : IF m.role = "tool" THEN <<m.answers>> ELSE <<>>)
    /\ \A p \in {f \in [1..3 -> 1..3] : IsInjective(f)} :
           Wire!Embeddings([i \in 1..3 |-> [index |-> p[i], vector |-> TRUE]]) = <<1, 2, 3>>

Paths == {[ext |-> e, at |-> d] : e \in {".pdf", ".key"}, d \in {"/root", "/etc"}}

\* A reply that did not stream has a reason and calls what its blocks call; a
\* media route costs nothing without the ability; a file of the Hermes host is
\* only fetched within the cap, and cards repeat no path and show no host file.
ASSUME CallsHold ==
    /\ \A text \in {<<>>, <<"a">>}, stop \in {"end_turn", "tool_use", "new"} :
           LET out == Wire!AnthropicAnswer(<<[type |-> "text", text |-> text, id |-> "t"],
                                             [type |-> "tool_use", text |-> <<>>, id |-> "c"]>>, stop)
           IN  out.text = text /\ out.calls = <<"c">> /\ out.finish \in {"stop", "tool_calls"}
    /\ Wire!Answer([text |-> <<>>, calls |-> <<>>, finish |-> Wire!None]).finish = "stop"
    /\ \A caps \in SUBSET {"vision", "audio_input"}, o \in Outcomes :
           Wire!MediaCall("vision", caps, <<o>>).tries = 0 <=> "vision" \notin caps
    /\ \A words \in Streams({"a", "b"}, 2), tools, answered \in BOOLEAN :
           LET out == Wire!MockStream(words, tools, answered)
           IN  /\ Wire!CallsOf(out) = <<>> => Wire!Text(out) = words
               /\ answered => Wire!Finish(out) = "stop"
    /\ \A s \in Streams(Transcript, 3) :
           Wire!RunInput(s).input = <<>> <=> Where(s, LAMBDA m : m.role = "user") = {}
    /\ \A absolute, here \in BOOLEAN, size \in 0..3, reply \in {"b64", "error", "prose"} :
           Wire!Fetched([absolute |-> absolute, here |-> here, size |-> size, reply |-> reply], 2)
               => absolute /\ size <= 2 /\ (~here => reply = "b64" /\ size > 0)
    /\ \A s \in Streams(Paths, 3) :
           LET kept == Wire!Deliverables(s, {".pdf"}, {"/etc"})
           IN  ToSet(kept) = ToSet(s) \intersect {[ext |-> ".pdf", at |-> "/root"]} /\ IsInjective(kept)

(***************************************************************************)
(* What MCP sessions, the catalog and connectors owe a turn, over every    *)
(* short history.                                                          *)
(***************************************************************************)
Mcp == INSTANCE ToolServers WITH Required <- {"r"}, Cap <- 1

Incidents == {<<"start">>, <<"call", 0>>, <<"call", 1>>, <<"reply", 1>>, <<"reply", 2>>, <<"asks", 1>>,
              <<"error", 2>>, <<"odd">>, <<"exit">>, <<"timeout", 1>>, <<"cancel", 1>>, <<"close">>,
              <<"kill">>, <<"reconnect">>}
SessionsAfter(n) == {Mcp!Lived(<<<<"start">>, <<"call", 0>>>> \o h) : h \in [1..n -> Incidents]}

\* A request comes to exactly one end, which no later event changes, and it
\* still waits exactly as long as it is pending, over every exit, kill and
\* reconnect (McpSession, StdioTransport).
ASSUME AnsweredOnce ==
    \A s \in SessionsAfter(3), e \in Incidents :
        LET t == Mcp!Happens(s, e) IN
        /\ \A i \in 1..Len(s.got) : s.got[i][1] # "waits" => t.got[i] = s.got[i]
        /\ \A i \in 1..Len(t.got) : i \in t.pending <=> t.got[i][1] = "waits"

\* No request outlives what could answer it: whatever was pending when the
\* reader ended has failed, and closing, killing and reconnecting leave nobody
\* waiting.
ASSUME NobodyLeftWaiting ==
    \A s \in SessionsAfter(3) :
        /\ \A e \in {<<"odd">>, <<"exit">>} : s.reader => Mcp!Happens(s, e).pending = {}
        /\ \A e \in {<<"close">>, <<"kill">>, <<"reconnect">>} : Mcp!Happens(s, e).pending = {}
        /\ s.closed => s.pending = {}

\* A reader that ended is not replaced by anything but a new process: until
\* then every call fails or runs into its timeout.
ASSUME DeafUntilRestarted ==
    \A s \in {t \in SessionsAfter(2) : ~t.reader /\ ~t.closed}, e, f \in Incidents :
        LET t == Mcp!Happens(Mcp!Happens(s, e), f) IN
        t.made = s.made => \A i \in (Len(s.got) + 1)..Len(t.got) : t.got[i][1] \in {"waits", "failed", "timeout", "cancelled"}

\* Only a cancelled request is told to the server, and only an id the session
\* gave away; a request that timed out is left to run there.
ASSUME ToldWhenCancelled ==
    \A s \in SessionsAfter(3) : s.told = {i \in 1..Len(s.got) : s.got[i][1] = "cancelled"}

\* An HTTP answer never stands for another request; one that carries no id is
\* taken for the answer, a progress notice too (HttpTransport._parse_response).
ASSUME HttpAnswersItsOwn ==
    \A frames \in UNION {[1..n -> [id : 0..2, kind : {"result", "error", "note", "bad"}, of : {7}]] : n \in 0..2},
       status \in {"ok", "timeout", "failed"} :
        LET a == Mcp!HttpAnswer([status |-> status, frames |-> frames], 1)
            read == SelectSeq(frames, LAMBDA f : f.kind # "bad")
        IN  /\ a[1] = "by" => status = "ok" /\ read[1].id \in {0, 1}
            /\ a[1] = "nothing" => read[1].kind = "note"

\* A server that fails costs the others nothing, and a call goes to a server
\* that offers the tool, if servers' names are apart and no two spellings make
\* the same name (McpClientRegistry.connect_all, McpCatalog.register).
ToolNames == {<<>>, <<"x">>, <<"y">>}
ServersOf(name) == [name : {name}, reach : {"fails", "starts", "lists"}, tools : {<<a, b>> : a, b \in ToolNames}]
ASSUME CallsReachTheirServer ==
    \A v \in ServersOf(<<"s">>), w \in ServersOf(<<"t">>) :
        LET servers == <<v, w>> IN
        \A name \in DOMAIN Mcp!Catalog(servers) :
            LET i == Mcp!Routed(servers, name) IN
            /\ servers[i].reach = "lists" /\ i \notin Mcp!LeftOpen(servers)
            /\ \E j \in 1..2 : servers[i].tools[j] # <<>> /\ name = Mcp!Namespaced(servers[i].name, servers[i].tools[j])
            /\ name \in DOMAIN Mcp!Catalog(<<servers[i]>>)

\* Whatever the order of operations, an enabled connector covers the scopes
\* its manifest asks for, the counter is never below what is enabled, so that
\* the cap holds, and nothing of another owner's program is run; the counter
\* never comes down, so disabling makes no room (ConnectorService).
Operations ==
    [kind : {"create"}, name : {"c", "d"}, enabled : BOOLEAN, scopes : {{}, {"r"}}, transport : {"http", "stdio"}]
    \cup [kind : {"enable", "disable", "delete"}, name : {"c", "d"}]
    \cup [kind : {"update"}, name : {"c", "d"}, scopes : {{}, {"r"}}]
NewUser == [rows |-> [c \in {"c", "d"} |-> Mcp!NoConnector], used |-> 0]
ASSUME ConnectorsHold ==
    \A quotas, admin, later \in BOOLEAN : \A h \in [1..3 -> Operations] :
        LET u == FoldLeft(LAMBDA x, op : Mcp!Operate(x, op, quotas, admin), NewUser, h)
            on == {c \in {"c", "d"} : u.rows[c].enabled}
        IN  /\ \A c \in on : u.rows[c].there /\ "r" \in u.rows[c].scopes
            /\ quotas => Cardinality(on) <= u.used /\ u.used <= 1
            /\ \A c \in Mcp!OpenedFor(u, later) : c \in on /\ (u.rows[c].transport = "stdio" => admin /\ later)
            /\ Mcp!OpenedFor(u, later) \subseteq Mcp!StampedFor(u, later)

(***************************************************************************)
(* What a patch owes the workspace, over every short file and patch.       *)
(***************************************************************************)
\* "./f" is another spelling of "f".
RealPath(p) == IF p = "./f" THEN "f" ELSE p
Work == INSTANCE Patches WITH FileOf <- RealPath

Line(m, t) == [mark |-> m, text |-> t]
Lines(n) == UNION {[1..m -> {"x", "y"}] : m \in 0..n}
Bodies == UNION {[1..m -> [mark : {"+", "-", " "}, text : {"x", "y"}]] : m \in 0..3}

\* A hunk that fits changes nothing outside the place it names: the lines it
\* removes go, those it adds come, and where its place is the only one, the
\* hunk turned round undoes it (apply_patch._apply_hunk).
Turned(body) ==
    [i \in 1..Len(body) |-> [body[i] EXCEPT !.mark = IF @ = "+" THEN "-" ELSE IF @ = "-" THEN "+" ELSE @]]
ASSUME HunksAreExact ==
    \A file \in Lines(4), body \in Bodies :
        (Work!Fits(file, body) /\ Work!Texts(body, {" ", "-"}) # <<>>) =>
            LET new == Work!Spliced(file, body)
                after == Work!Texts(body, {" ", "+"})
            IN  /\ Len(new) = Len(file) + Len(Work!Texts(body, {"+"})) - Len(Work!Texts(body, {"-"}))
                /\ (after # <<>> /\ Cardinality(Work!Places(new, after)) = 1) =>
                       Work!Spliced(new, Turned(body)) = file

\* Sections of a patch: adds, deletes and updates of two files under three
\* spellings, with a move, and a header nobody knows.
Sections ==
    {<<Line("add", p), Line("+", "y")>> : p \in {"f", "g"}}
    \cup {<<Line("delete", p)>> : p \in {"f", "g"}}
    \cup {<<Line("update", p), Line("-", "x"), Line("+", "y")>> : p \in {"f", "./f", "g"}}
    \cup {<<Line("update", "f"), Line("move", "g"), Line(" ", "x")>>}
    \cup {<<Line("update", "f"), Line("+", "z"), Line("header", "-"), Line("-", "x")>>}
Patch(sections) == FlattenSeq(sections)
Disks == {[f |-> <<"x">>], [f |-> <<"x", "x">>, g |-> <<"x">>], [f |-> <<"y">>, g |-> <<"x", "y">>]}
Moves(sections) == \E i \in 1..Len(sections) : \E j \in 1..Len(sections[i]) : sections[i][j].mark = "move"
Spelled(sections) == {sections[i][1].text : i \in 1..Len(sections)}

\* A patch that does not apply writes nothing, whichever of its files fails;
\* one that does leaves on disk exactly what it came to in memory, unless it
\* moves a file (the old one stays) or spells one file in two ways (the last
\* spelling wins and the changes under the other are lost).
\* (WorkspaceApplyPatchTool.run.)
ASSUME AllOfAPatchOrNone ==
    \A sections \in UNION {[1..n -> Sections] : n \in 1..3}, disk \in Disks :
        LET ops == Work!ParsePatch(Patch(sections))
            made == Work!ApplyOps(ops, disk)
            out == Work!RunPatch(Patch(sections), disk, 9)
        IN  /\ ~out.ok => out.disk = disk
            /\ (~Moves(sections) /\ "./f" \notin Spelled(sections)) =>
                   /\ out.ok <=> made.ok
                   /\ out.ok => out.disk = made.files

\* A write that fails leaves each file as it was or as the whole patch leaves
\* it, but the files before it are not taken back.
ASSUME FilesAreWrittenWhole ==
    \A sections \in UNION {[1..n -> Sections] : n \in 1..3}, disk \in Disks, written \in 0..2 :
        LET part == Work!RunPatch(Patch(sections), disk, written)
            whole == Work!RunPatch(Patch(sections), disk, 9)
        IN  ("./f" \notin Spelled(sections) /\ Cardinality(Spelled(sections)) = Len(sections) /\ ~Moves(sections)) =>
                \A p \in {"f", "g"} :
                    \/ p \in DOMAIN part.disk /\ \/ p \in DOMAIN disk /\ part.disk[p] = disk[p]
                                                 \/ p \in DOMAIN whole.disk /\ part.disk[p] = whole.disk[p]
                    \/ p \notin DOMAIN part.disk /\ (p \notin DOMAIN disk \/ p \notin DOMAIN whole.disk)

\* What a header nobody knows cuts off is left out in silence: the patch counts
\* as applied with only the lines before it.
ASSUME CutPatchIsApplied ==
    Work!RunPatch(<<Line("update", "f"), Line("+", "z"), Line("header", "-"), Line("-", "x")>>, [f |-> <<"x">>], 9)
        = [ok |-> TRUE, disk |-> [f |-> <<"x", "z">>]]

(***************************************************************************)
(* What the rules for commands owe whoever wrote them, over every file of  *)
(* two rules, sound or spoilt by hand, and the commands of two words.      *)
(***************************************************************************)
Shell == INSTANCE CommandRules WITH Wildcards <- {"*"}

Patterns == {<<>>, <<"git">>, <<"git", "push">>, <<"*">>, <<"git", "*">>}
ByHand   == [pattern : Patterns, decision : {"allow", "forbidden", "alow"}]
Files    == [state : {"missing", "corrupt", "written"}, default : {"prompt", "allow", "alow"},
             rules : {<<>>} \cup [1..1 -> ByHand] \cup [1..2 -> ByHand]]
Commands == {<<"git">>, <<"git", "push">>, <<"git", "*">>, <<"ls">>}

\* A command is allowed only by a concrete rule that begins it or by a default
\* that says so; a file that is missing, corrupt or misspelt asks
\* (exec_policy.py:207).
ASSUME AllowedOnlyByRule ==
    \A f \in Files, c \in Commands :
        LET p == Shell!Active(f)
        IN  /\ Shell!Decide(p, c) \in Shell!Decisions
            /\ Shell!Decide(p, c) = "allow" =>
                   /\ f.state = "written"
                   /\ \/ f.default = "allow"
                      \/ \E i \in DOMAIN f.rules :
                            f.rules[i].decision = "allow" /\ Shell!Concrete(f.rules[i].pattern)
                                                          /\ IsPrefix(f.rules[i].pattern, c)

\* Remembering an approval decides the commands that no rule decided and changes
\* no other; what is forbidden stays forbidden.  Twice is once
\* (RuleStore.add_allow_prefix).
ASSUME RememberedRulesOnlyAdd ==
    \A f \in Files, q \in Patterns, c \in Commands :
        LET after == Shell!Remembered(f, q)
            d == Shell!Decide(Shell!Active(f), c)
            e == Shell!Decide(Shell!Active(after), c)
        IN  /\ e # d => e = "allow" /\ IsPrefix(q, c) /\ Shell!Concrete(q)
                        /\ \A i \in DOMAIN Shell!Active(f).rules :
                               ~IsPrefix(Shell!Active(f).rules[i].pattern, c)
            /\ Shell!Stopped(Shell!Active(f), c) => Shell!Stopped(Shell!Active(after), c)
            /\ Shell!Remembered(after, q) = after

\* An approval may be remembered to no effect, behind a rule that asks; and a
\* rule that forbids by a wildcard is dropped, so that it forbids nothing
\* (exec_policy.py:228).
ASSUME ShadowedAndDropped ==
    /\ \E f \in Files : Shell!Decide(Shell!Active(Shell!Remembered(f, <<"git", "push">>)), <<"git", "push">>)
                            = "prompt"
    /\ \E f \in Files :
           /\ f.state = "written" /\ \E i \in DOMAIN f.rules : f.rules[i] = [pattern |-> <<"git", "*">>, decision |-> "forbidden"]
           /\ \A c \in Commands : Shell!Decide(Shell!Active(f), c) = "allow"
=============================================================================
