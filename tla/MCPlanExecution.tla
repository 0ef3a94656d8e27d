-------------------------- MODULE MCPlanExecution --------------------------
(***************************************************************************)
(* Model-checking instance of PlanExecution.  Continuation, Writer and     *)
(* Metering are evaluated over small inputs at start-up.                   *)
(***************************************************************************)
EXTENDS PlanExecution, FiniteSets, FiniteSetsExt, Integers, Sequences, SequencesExt

\* A model's own plans, with ids of a template: two steps side by side, and a
\* cycle, which is refused.
MCProposals ==
    {[order |-> <<"drafter", "reviewer">>, retries |-> 0,
      deps |-> [drafter |-> {}, reviewer |-> {}]],
     [order |-> <<"drafter", "finalizer">>, retries |-> 0,
      deps |-> [drafter |-> {"finalizer"}, finalizer |-> {"drafter"}]]}

(***************************************************************************)
(* What the continued answers of a writer owe their reader, over every     *)
(* text of a few characters and every way a dispatch can end.              *)
(***************************************************************************)
Text == INSTANCE Continuation
Answer == INSTANCE Writer WITH MaxRounds <- 1, Window <- 2

\* The search of Knuth, Morris and Pratt finds the longest end of one text that
\* the other starts with (_suffix_prefix_length).
Longest(existing, prefix) ==
    Max({ k \in 0..Min({Len(existing), Len(prefix)}) :
            Text!Latest(existing, k) = Text!Earliest(prefix, k) })

ASSUME OverlapIsLongest ==
    \A existing \in SeqOf({"a", "b"}, 5), prefix \in SeqOf({"a", "b"}, 4) :
        Text!SuffixPrefixLength(existing, prefix) = Longest(existing, prefix)

\* What is cut off a follow-up has been said already, up to white space, and
\* the rest is kept to the letter (continuation_novel_text).
ASSUME OnlyRepeatsAreCut ==
    \A existing, text \in SeqOf({"a", "b", " ", "\n"}, 3), window \in 2..3 :
        LET novel == Text!NovelText(existing, text, window)
            cut   == Text!Earliest(text, Len(text) - Len(novel))
        IN  /\ IsSuffix(novel, text)
            /\ IsSuffix(Text!Collapsed(cut), Text!Collapsed(existing))

\* However a stream is cut into chunks, its buffer passes on the same text
\* (ContinuationBuffer).
Through(existing, chunks, window) ==
    LET step(acc, chunk) ==
            LET fed == Text!Feed(acc.buffer, chunk, existing, window)
            IN  [buffer |-> fed.buffer, out |-> acc.out \o fed.out]
        all == FoldLeft(step, [buffer |-> Text!NewBuffer, out |-> <<>>], chunks)
    IN  all.out \o Text!Flush(all.buffer, existing, window)

ASSUME ChunksDoNotMatter ==
    \A existing \in SeqOf({"a", "b", " "}, 3), chunks \in SeqOf(SeqOf({"a", " "}, 2), 2), window \in 2..3 :
        Through(existing, chunks, window) = Through(existing, <<FlattenSeq(chunks)>>, window)

\* A counter that is reported twice, flat and nested, counts once, and the sum
\* of rounds has the sum of their totals (aggregate_usage).
Reports == UNION { [K -> 1..2] : K \in SUBSET {"prompt_tokens", "completion_tokens", "total_tokens"} }
Nested  == UNION { [K -> 3..4] : K \in SUBSET {"cached_tokens", "reasoning_tokens"} }

ASSUME UsageAddsUp ==
    \A r1, r2 \in Reports, d \in Nested :
        LET first  == Text!Normalized(r1, d)
            second == Text!Normalized(r2, <<>>)
            total(r) == IF "total_tokens" \in DOMAIN r THEN r["total_tokens"] ELSE 0
            sum    == Text!AggregateUsage(<<first, second>>)
        IN  /\ total(sum) = total(first) + total(second)
            /\ \A k \in DOMAIN d : sum[k] = d[k]
            /\ "total_tokens" \notin DOMAIN r1 =>
                   total(first) = FoldFunction(+, 0, r1)

-----------------------------------------------------------------------------
Plain(chunks, finish) ==
    [chunks |-> chunks, finish |-> finish, usage |-> TRUE, stop |-> 9, fails |-> "no", saves |-> "yes"]

Chunks == {<<>>, << <<"a", "b">> >>, << <<"b">>, <<"c">> >>}
Usual  == { Plain(c, f) : c \in Chunks, f \in {"stop", "length"} }
Odd    == [chunks : Chunks, finish : {"stop", "length"}, usage : BOOLEAN, stop : {1, 2, 3, 4, 5, 9},
           fails : {"no", "refused", "broken", "killed", "over", "spent"}, saves : {"yes", "no", "killed"}]
Endings == { Append(before, last) : before \in SeqOf(Usual, 1), last \in Odd }
Stopped == { a \in Odd : /\ a.fails = "no" /\ a.saves = "yes"
                          /\ \/ a.stop <= Len(a.chunks) + 2
                             \/ a.stop = Len(a.chunks) + 3 /\ a.chunks # <<>> /\ a.finish = "length" }

\* Two rounds of two dispatches are all a writer asks for, and it ends by itself.
ASSUME AnswersEnd ==
    \A script \in TupleOf(Usual, 4) :
        LET w == Answer!Answered(script)
        IN  w.phase = "returned" /\ w.dispatches <= 4 /\ w.round <= 1

\* What was heard in the last dispatch is in the answer, without its repeats,
\* however the dispatch ended: stopped, killed, refused or out of budget.
ASSUME NothingHeardIsLost ==
    \A script \in Endings :
        LET before == Answer!Answered(Front(script))
            after  == Answer!Answered(script)
            prefix == Text!Earliest(after.raw, 2)
            rest   == SubSeq(after.raw, 3, Len(after.raw))
        IN  before.phase = "streaming" =>
                after.full = before.full \o (IF before.round = 0 THEN after.raw
                                             ELSE Text!NovelText(before.full, prefix, 2) \o rest)

\* A writer that returns leaves a final checkpoint of its last round, the one it
\* wrote last; only one that raises may leave "continuing" behind.
ASSUME CheckpointsAreFinal ==
    \A script \in Endings :
        LET w == Answer!Answered(script)
        IN  w.phase = "returned" =>
                /\ w.round > 0 \/ w.finish = "cancelled" \/ w.saved = <<>>
                /\ w.round > 0 => w.saved # <<>> /\ Last(w.saved).round = w.round
                /\ w.saved # <<>> => /\ Last(w.saved) = w.checkpoint
                                     /\ w.checkpoint.status = Answer!FinalStatus(w.finish)

\* Every dispatch that reported its usage is charged, whether the writer returns
\* or raises, and one that returns reports what was charged.
ASSUME UsageIsCharged ==
    \A script \in Endings :
        LET w == Answer!Answered(script)
            last == Last(script)
            heard(a) == a.usage /\ a.stop > Len(a.chunks) + 1 /\ a.fails \in {"no", "over", "spent"}
        IN  /\ w.usages \subseteq w.recorded
            /\ w.phase = "returned" => w.usages = w.recorded
            /\ w.dispatches = Len(script) => (heard(last) <=> Len(script) \in w.recorded)

\* After Stop the model is asked at most once more: for the second try of an
\* empty answer, which is broken off at its first delta.
ASSUME StopIsObeyed ==
    \A a \in Stopped, b, c \in Usual :
        LET w == Answer!Answered(<<a, b, c>>)
        IN  /\ w.phase = "returned"
            /\ w.dispatches <= 2
            /\ w.dispatches = 2 => a.chunks = <<>> /\ w.full = <<>>

(***************************************************************************)
(* What the budget of a run owes the run: over every order in which two    *)
(* steps that share a model begin, call it, end and fail.                  *)
(***************************************************************************)
Run == INSTANCE Metering WITH Steps <- {1, 2}

\* An override lowers a limit or is refused, and limits that were lowered twice
\* stay below the policy; only an authorized run raises one
\* (BudgetLimits.with_overrides).
Policy == [k \in Run!Limits |-> IF k = "max_tool_output_chars" THEN 17 ELSE 2]
Asked  == UNION { [K -> {-1, 0, 1, 3, 16, 18}] :
                    K \in {{}, {"max_total_tokens"}, {"max_tool_output_chars"}, {"max_replan_count"},
                           {"max_total_tokens", "max_tool_output_chars"}, {"max_wishes"}} }

ASSUME OverridesOnlyLower ==
    \A first, second \in Asked :
        LET once  == Run!WithOverrides(Policy, first, FALSE)
            twice == Run!WithOverrides(once, second, FALSE)
        IN  /\ once # Run!Refused =>
                   /\ Run!Valid(once)
                   /\ \A k \in DOMAIN Policy : once[k] <= Policy[k]
                   /\ twice # Run!Refused => \A k \in DOMAIN Policy : twice[k] <= Policy[k]
            /\ once = Run!Refused => \E k \in DOMAIN first :
                   \/ k \notin DOMAIN Policy \/ first[k] > Policy[k] \/ first[k] <= 0
                   \/ k = "max_tool_output_chars" /\ first[k] < 16

\* The guard never counts backwards: repeated ids, cumulative reports that fall
\* and negative counts change nothing, and a source that reports its running
\* total is charged its last total (BudgetGuard.add_usage).
Counts == { [total_tokens |-> n] : n \in -1..2 }
               \cup { [prompt_tokens |-> 1, completion_tokens |-> 2], [completion_tokens |-> 1] }
Given   == [report : Counts, id : {"", "x"}, source : {"", "m"}]

ASSUME UsageIsMonotone ==
    \A given \in SeqOf(Given, 2), last \in Given :
        LET take(g, u) == Run!AddUsage(g, u.report, u.id, u.source)
            before == FoldLeft(take, Run!NewGuard({"m"}), given)
            after  == take(before, last)
        IN  /\ after.tokens >= before.tokens
            /\ after.refused > before.refused => [after EXCEPT !.refused = before.refused] = before
            /\ take(after, last).tokens > after.tokens => last.id = "" /\ last.source = ""
            /\ (\A i \in DOMAIN given : given[i].source = "m") /\ last.source = "m" =>
                   after.tokens = after.seen["m"]

\* However often an adapter replays a call, an admitted one is counted once, and
\* no more are admitted than the limit (StageContext.emit).
ASSUME CallsAreCountedOnce ==
    \A keys \in SeqOf({"a", "b", "c"}, 5), limit \in 1..2 :
        LET c == FoldLeft(LAMBDA d, k : Run!EmitCall(d, k, limit), Run!NewCalls, keys)
        IN  /\ Cardinality(c.admitted) <= limit
            /\ c.count <= limit => c.count = Cardinality(Range(keys))

-----------------------------------------------------------------------------
\* Two steps on one model: a step may fail and, in the engine, be tried again.
Successors(m) ==
    LET running == { s \in {1, 2} : m.stages[s].phase = "running" }
        ready   == { s \in {1, 2} : \/ m.stages[s].phase = "idle"
                                    \/ m.engine /\ m.stages[s].phase = "failed" /\ m.stages[s].failures < 2 }
    IN  { Run!Begin(m, s) : s \in ready }
          \cup (IF m.used < 4 THEN { Run!Call(m, s, n) : s \in running, n \in 1..2 } ELSE {})
          \cup { Run!End(m, s) : s \in running }
          \cup { Run!Fail(m, s, r) : s \in running, r \in BOOLEAN }

States(first) ==
    FoldLeft(LAMBDA ms, i : ms \cup UNION { Successors(m) : m \in ms }, {first}, [i \in 1..6 |-> i])

Together(summary, engine) == Run!Begin(Run!Begin(Run!Shared(summary, engine), 1), 2)

Reported(m) == MapThenSumSet(LAMBDA s : MapThenSumSet(LAMBDA r : r.usage, m.results[s]), {1, 2})
Recorded(m) == MapThenSumSet(LAMBDA r : r.usage, m.records)
AllQuiet(m)    == \A s \in {1, 2} : m.stages[s].phase # "running"

\* The walker charges every token of stages that begin together once: as the call
\* is made where the model keeps a count, else when its stage completes or fails;
\* and no token is claimed by two stages (LLMUsageCoordinator.claim).
ASSUME WalkerChargesOnce ==
    /\ \A m \in States(Together(TRUE, FALSE)) :
           /\ m.guard.tokens = m.used
           /\ Reported(m) + Recorded(m) <= m.used
           /\ AllQuiet(m) => Run!Account(m) = m.used
    /\ \A m \in States(Run!Shared(FALSE, FALSE)) :
           /\ m.guard.tokens = Reported(m) + Recorded(m)
           /\ Run!Account(m) = m.guard.tokens /\ m.guard.tokens <= m.used

\* The engine charges the tokens of a completed step a second time where the
\* model keeps a count: the observation of a step does not say that its calls
\* were charged.  Its account is right.
ASSUME EngineChargesTwice ==
    /\ \A m \in States(Together(TRUE, TRUE)) :
           /\ m.guard.tokens >= m.used + Reported(m)
           /\ m.records = {} => m.guard.tokens = m.used + Reported(m)
           /\ AllQuiet(m) => Run!Account(m) = m.used
    /\ \A m \in States(Run!Shared(FALSE, TRUE)) : m.guard.tokens = Reported(m) + Recorded(m)

\* A stage that begins while another has called the model may end first: it then
\* claims tokens that were charged before it began, and charges them again.
ASSUME LateStageChargesAgain ==
    LET called == Run!Call(Run!Begin(Run!Shared(TRUE, FALSE), 1), 1, 1)
        ended  == Run!End(Run!Begin(called, 2), 2)
    IN  /\ ended.used = 1 /\ ended.guard.tokens = 2
        /\ \A m \in States(Run!Shared(TRUE, FALSE)) :
               m.used <= m.guard.tokens /\ m.guard.tokens <= 2 * m.used

\* A step that is revised is run again; its account then holds the second run only.
ASSUME RevisionReplacesUsage ==
    LET once  == Run!End(Run!Call(Run!Begin(Run!Shared(TRUE, TRUE), 1), 1, 1), 1)
        twice == Run!End(Run!Call(Run!Begin(once, 1), 1, 2), 1)
    IN  twice.used = 3 /\ Run!Account(twice) = 2

\* A crew of one is charged its tokens once, or not at all when nothing reports them.
ASSUME SingleChargesOnce ==
    \A summary, fails, reports \in BOOLEAN, tokens \in 0..2 :
        Run!Single(summary, tokens, fails, reports).tokens =
            (IF ~ summary /\ fails /\ ~ reports THEN 0 ELSE tokens)
=============================================================================
