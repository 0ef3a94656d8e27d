----------------------------- MODULE Transcript -----------------------------
(***************************************************************************)
(* The prompt of a model call: mid-run compaction                          *)
(* (agents/context_compaction.py, agents/context_manager.py) and the       *)
(* admission with its trim of old history (services/chat_context.py,       *)
(* agents/token_budget.py).                                                *)
(*                                                                         *)
(* A message is a role, the ids of the tool calls it makes (assistant) or  *)
(* answers (tool), and its cost in tokens.  The two estimators of the code *)
(* are one cost here.                                                      *)
(***************************************************************************)
EXTENDS Naturals, Sequences, FiniteSets, SequencesExt

CONSTANTS
    Window,         \* context_window
    MaxOutput,      \* max_output_tokens, reserved for the answer
    SchemaTokens,   \* the tool schemas sent with every call
    Margin,         \* the safety margin
    AutoLimit,      \* the growth of the body that triggers compaction
    KeepRecent,     \* tokens of the recent tail that compaction keeps verbatim
    SummaryCost     \* tokens of a summary

ASSUME TranscriptAssumption ==
    /\ {Window, MaxOutput, SchemaTokens, Margin} \subseteq Nat
    /\ Window > MaxOutput + SchemaTokens + Margin
    /\ AutoLimit \in Nat /\ KeepRecent \in Nat \ {0} /\ SummaryCost \in Nat

Message == [role : {"system", "user", "assistant", "tool"},
            ids : SUBSET Nat, cost : Nat]

Msg(role, ids, cost) == [role |-> role, ids |-> ids, cost |-> cost]

\* The positions in m of messages of this role.
Of(m, role) == {i \in DOMAIN m : m[i].role = role}

\* The tokens of the messages first..last of m.
Tokens(m, first, last) == FoldLeft(LAMBDA n, x : n + x.cost, 0, SubSeq(m, first, last))

-----------------------------------------------------------------------------
\* calculate_prompt_budget: what is left of the window for the prompt.
InputBudget == Window - MaxOutput - SchemaTokens - Margin

\* should_compact with a baseline of 0: the body or the hard window is exceeded.
ShouldCompact(m) ==
    LET total == Tokens(m, 1, Len(m))
    IN  (AutoLimit > 0 /\ total >= AutoLimit) \/ total >= InputBudget

\* The body: everything behind the leading system messages.
Body(m) == {i \in DOMAIN m : \E j \in 1..i : m[j].role # "system"}

(***************************************************************************)
(* _split_for_compaction walks back from the newest message: it stops      *)
(* before one that no longer fits, unless it is the first one, and after   *)
(* the one that fills the allowance.  The tail is what it has taken.       *)
(***************************************************************************)
Taken(m, i) ==
    /\ Tokens(m, i + 1, Len(m)) < KeepRecent
    /\ i = Len(m) \/ Tokens(m, i, Len(m)) <= KeepRecent

RecentTail(m) == {s \in Body(m) : \A i \in s..Len(m) : Taken(m, i)}

\* Seeded fault: the tail is closed over callers only.
CallersOnly(m, tail) ==
    tail \union {i \in Of(m, "assistant") :
                   \E j \in tail : m[j].role = "tool" /\ m[j].ids \subseteq m[i].ids}

(***************************************************************************)
(* _enforce_tool_pair_atomicity: a call and all of its results travel      *)
(* together.  A result names one call, so two rounds reach the fixpoint.   *)
(***************************************************************************)
PairClosure(m, tail) ==
    LET callers == tail \union {i \in Of(m, "assistant") :
                       \E j \in tail : m[j].role = "tool" /\ m[j].ids \subseteq m[i].ids}
    IN  callers \union {j \in Of(m, "tool") :
                       \E i \in callers : m[i].role = "assistant" /\ m[j].ids \subseteq m[i].ids}

\* _assemble_compacted: the system messages, the summary, the tail in its order.
Pick(m, kept) == [k \in 1..Cardinality(kept) |->
                    m[CHOOSE i \in kept : Cardinality({j \in kept : j <= i}) = k]]

Assemble(m, kept) ==
    SubSeq(m, 1, Len(m) - Cardinality(Body(m)))
        \o <<Msg("system", {}, SummaryCost)>> \o Pick(m, kept)

\* compact_async: unchanged when nothing is older than the tail.
Compact(m) ==
    LET kept == PairClosure(m, RecentTail(m))
    IN  IF ~ ShouldCompact(m) \/ kept = Body(m) THEN m ELSE Assemble(m, kept)

-----------------------------------------------------------------------------
\* The newest user message behind the first message, position 2 without one.
LatestUser(m) ==
    LET users == Of(m, "user") \ {1}
    IN  IF users = {} THEN 2 ELSE CHOOSE i \in users : \A j \in users : j <= i

(***************************************************************************)
(* _trim_history removes, behind the first message, a user message with    *)
(* what follows it up to the next one, or a single message that no user    *)
(* message precedes.  What is kept starts at one of these boundaries.      *)
(***************************************************************************)
Boundaries(m) ==
    {q \in 2..LatestUser(m) : \/ m[q].role = "user"
                              \/ \A u \in 2..q - 1 : m[u].role # "user"}

From(m, q) == <<m[1]>> \o SubSeq(m, q, Len(m))

TrimHistory(m) ==
    LET fits == {q \in Boundaries(m) : Tokens(From(m, q), 1, Len(From(m, q))) <= InputBudget}
    IN  IF Len(m) <= 1 \/ Tokens(m, 1, Len(m)) <= InputBudget \/ LatestUser(m) > Len(m) THEN m
        ELSE From(m, IF fits = {} THEN LatestUser(m)
                     ELSE CHOOSE q \in fits : \A p \in fits : q <= p)

\* admit_latest_turn: the newest user message alone must fit.
AdmitLatest(m) ==
    LET users == Of(m, "user")
    IN  users = {} \/ \E i \in users : /\ \A j \in users : j <= i
                                       /\ m[i].cost <= InputBudget

\* _admit_and_trim_history raises PromptAdmissionError unless this holds.
Admitted(m) ==
    AdmitLatest(m) /\ Tokens(TrimHistory(m), 1, Len(TrimHistory(m))) <= InputBudget
=============================================================================
