---------------------------- MODULE Continuation ----------------------------
(***************************************************************************)
(* How an answer that was cut off is continued (agents/continuation.py):   *)
(* what a follow-up round repeats is found and taken out, while its text   *)
(* streams in chunks, and the usage of the rounds is added up.             *)
(*                                                                         *)
(* A text is a sequence of characters, " " and "\n" being the white space. *)
(***************************************************************************)
EXTENDS Naturals, SequencesExt

Spaces == {" ", "\n"}

\* should_continue: only a round cut off for its length, only so often, and not
\* while tool calls are pending or after Stop.
ShouldContinue(reason, round, maxRounds, pending, cancelled) ==
    reason = "length" /\ round < maxRounds /\ ~ pending /\ ~ cancelled

-----------------------------------------------------------------------------
(***************************************************************************)
(* _suffix_prefix_length, the failure function of Knuth, Morris and Pratt: *)
(* after k matched characters of p, c is the next one read.                *)
(***************************************************************************)
Matched(p, fail, k, c) ==
    LET fall[i \in 0..Len(fail)] == IF i = 0 \/ p[i + 1] = c THEN i ELSE fall[fail[i]]
        j == fall[k]
    IN  IF p[j + 1] = c THEN j + 1 ELSE j

Failure(p) == FoldLeft(LAMBDA fail, c : Append(fail, Matched(p, fail, Last(fail), c)), <<0>>, Tail(p))

\* A full match that is not the end of the text goes on from its longest border.
SuffixPrefixLength(existing, p) ==
    IF existing = <<>> \/ p = <<>> THEN 0
    ELSE LET fail == Failure(p)
         IN  FoldLeft(LAMBDA k, c : Matched(p, Front(fail), IF k = Len(p) THEN fail[k] ELSE k, c),
                      0, existing)

\* _normalise_whitespace: a run of white space is one blank; ends[k] is where the
\* k-th character ends in the text.
RunEnds(text) ==
    { i \in DOMAIN text : ~ (text[i] \in Spaces /\ i < Len(text) /\ text[i + 1] \in Spaces) }
Ends(text) == SetToSortSeq(RunEnds(text), <)
Collapsed(text) ==
    [ k \in DOMAIN Ends(text) |-> IF text[Ends(text)[k]] \in Spaces THEN " " ELSE text[Ends(text)[k]] ]

\* The characters of a collapsed text without a blank at either end.
Stripped(text) ==
    Cardinality({ k \in DOMAIN text : ~ (text[k] = " " /\ k \in {1, Len(text)}) })

Latest(text, n)   == SubSeq(text, Max({1, Len(text) - n + 1}), Len(text))
Earliest(text, n) == SubSeq(text, 1, Min({n, Len(text)}))

\* continuation_novel_text: the exact overlap, or a longer one up to white space
\* if it is worth more than one character.
NovelText(existing, text, window) ==
    IF text = <<>> \/ existing = <<>> THEN text
    ELSE IF IsSuffix(text, existing) THEN <<>>
    ELSE LET before == Latest(existing, window)
             prefix == Earliest(text, window)
             exact  == SuffixPrefixLength(before, prefix)
             loose  == SuffixPrefixLength(Collapsed(before), Collapsed(prefix))
             worth  == Stripped(Earliest(Collapsed(prefix), loose)) >= 2
             cut    == IF worth THEN Max({exact, Ends(prefix)[loose]}) ELSE exact
         IN  SubSeq(text, cut + 1, Len(text))

-----------------------------------------------------------------------------
(***************************************************************************)
(* ContinuationBuffer holds back the first window characters of a round    *)
(* and passes on what is new in them; what follows is passed on as it is.  *)
(***************************************************************************)
NewBuffer == [prefix |-> <<>>, resolved |-> FALSE]

Feed(buffer, chunk, existing, window) ==
    LET needed == window - Len(buffer.prefix)
        prefix == buffer.prefix \o Earliest(chunk, needed)
    IN  IF buffer.resolved THEN [buffer |-> buffer, out |-> chunk]
        ELSE IF Len(prefix) < window
        THEN [buffer |-> [buffer EXCEPT !.prefix = prefix], out |-> <<>>]
        ELSE [buffer |-> [prefix |-> prefix, resolved |-> TRUE],
              out |-> NovelText(existing, prefix, window) \o SubSeq(chunk, needed + 1, Len(chunk))]

Flush(buffer, existing, window) ==
    IF buffer.resolved THEN <<>> ELSE NovelText(existing, buffer.prefix, window)

-----------------------------------------------------------------------------
(***************************************************************************)
(* aggregate_usage.  A snapshot maps the counters it reports to numbers;   *)
(* details are the counters it reports nested.                             *)
(***************************************************************************)
Normalized(counters, details) ==
    LET nested == [ k \in (DOMAIN details \cap {"cached_tokens", "reasoning_tokens"}) \cup DOMAIN counters
                      |-> IF k \in DOMAIN counters THEN counters[k] ELSE details[k] ]
        of(k)  == IF k \in DOMAIN nested THEN nested[k] ELSE 0
        parts  == {"prompt_tokens", "completion_tokens"} \cap DOMAIN nested
    IN  IF "total_tokens" \in DOMAIN nested \/ parts = {} THEN nested
        ELSE [ k \in DOMAIN nested \cup {"total_tokens"} |->
                 IF k = "total_tokens" THEN of("prompt_tokens") + of("completion_tokens") ELSE nested[k] ]

AggregateUsage(rounds) ==
    LET added(sum, r) ==
            [ k \in DOMAIN sum \cup DOMAIN r |->
                (IF k \in DOMAIN sum THEN sum[k] ELSE 0) + (IF k \in DOMAIN r THEN r[k] ELSE 0) ]
    IN  FoldLeft(added, <<>>, rounds)
=============================================================================
