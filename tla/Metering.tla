------------------------------ MODULE Metering ------------------------------
(***************************************************************************)
(* What a run is charged for: the limits of its budget                     *)
(* (agents/policies/budget_policy.py), the usage its guard counts, and the *)
(* three places that charge the tokens of a crew: each call of the model   *)
(* (adapters/llm_adapter.py), a stage that failed                          *)
(* (runtime/stage_executor.py), and a step that completed                  *)
(* (run_environment.py).                                                   *)
(*                                                                         *)
(* Tokens stand for all counters; the price of a token is left out.        *)
(***************************************************************************)
LOCAL INSTANCE Integers
LOCAL INSTANCE Sequences
LOCAL INSTANCE FiniteSets
LOCAL INSTANCE FiniteSetsExt

CONSTANT Steps   \* steps of a plan whose agents share one model

-----------------------------------------------------------------------------
(***************************************************************************)
(* Limits are validated, and what a run asks for may only lower them       *)
(* unless it is authorized.                                                *)
(***************************************************************************)
Counted == {"max_agent_steps", "max_tool_calls", "max_total_tokens", "max_runtime_seconds", "max_cost_usd"}
Limits  == Counted \cup {"max_replan_count", "max_tool_output_chars"}

Valid(limits) ==
    /\ \A k \in Counted : limits[k] > 0
    /\ limits["max_replan_count"] >= 0
    /\ limits["max_tool_output_chars"] >= 16

Refused == [refused |-> TRUE]

WithOverrides(limits, overrides, allowIncrease) ==
    LET candidate == [ k \in Limits |-> IF k \in DOMAIN overrides THEN overrides[k] ELSE limits[k] ]
    IN  IF /\ DOMAIN overrides \subseteq Limits
           /\ Valid(candidate)
           /\ allowIncrease \/ \A k \in DOMAIN overrides : candidate[k] <= limits[k]
        THEN candidate ELSE Refused

-----------------------------------------------------------------------------
(***************************************************************************)
(* The guard counts tokens.  A report with an id counts once; a cumulative *)
(* one counts what its source has added since; a report that is no count   *)
(* or runs backwards is refused and changes nothing.                       *)
(***************************************************************************)
NewGuard(sources) == [tokens |-> 0, ids |-> {}, seen |-> [s \in sources |-> 0], refused |-> 0]

\* total_tokens, or the sum of its parts, or nothing at all.
TokensOf(report) ==
    LET of(k) == IF k \in DOMAIN report THEN report[k] ELSE 0
    IN  IF "total_tokens" \in DOMAIN report THEN report["total_tokens"]
        ELSE of("prompt_tokens") + of("completion_tokens")

AddUsage(g, report, id, source) ==
    LET tokens == TokensOf(report)
        old    == IF source = "" THEN 0 ELSE g.seen[source]
        known  == [g EXCEPT !.tokens = @ + (tokens - old),
                            !.ids = IF id = "" THEN @ ELSE @ \cup {id}]
    IN  IF tokens < 0 THEN [g EXCEPT !.refused = @ + 1]
        ELSE IF id # "" /\ id \in g.ids THEN g
        ELSE IF tokens < old THEN [g EXCEPT !.refused = @ + 1]
        ELSE IF source = "" THEN known ELSE [known EXCEPT !.seen[source] = tokens]

\* emit: a tool call is admitted once, whatever its adapter replays; one that
\* the budget refuses is counted and refused again.
NewCalls == [count |-> 0, admitted |-> {}]
EmitCall(c, key, limit) ==
    IF key \in c.admitted THEN c
    ELSE [count |-> c.count + 1,
          admitted |-> IF c.count + 1 > limit \/ key = "" THEN c.admitted ELSE c.admitted \cup {key}]

-----------------------------------------------------------------------------
(***************************************************************************)
(* Steps that run side by side on one model.                               *)
(*   summary    whether the model keeps a count of its usage               *)
(*   engine     whether the workflow engine runs the plan, or the walker   *)
(*   used       the model's own count                                      *)
(*   guard      what the run was charged                                   *)
(*   generation how often a call was charged as it was made                *)
(*   slot       the count up to which stages have claimed usage            *)
(*   records    usage of failed attempts, kept for the final account       *)
(***************************************************************************)
Idle == [phase |-> "idle", since |-> 0, heard |-> 0, failures |-> 0]

Shared(summary, engine) ==
      [summary |-> summary, engine |-> engine, used |-> 0, guard |-> NewGuard({}), generation |-> 0, slot |-> [known |-> FALSE, last |-> 0],
       stages |-> [s \in Steps |-> Idle], records |-> {}, results |-> [s \in Steps |-> {}]]

\* begin: the first stage of a model sets the base line.
Begin(m, s) ==
    [m EXCEPT !.stages[s] = [@ EXCEPT !.phase = "running", !.since = m.generation, !.heard = 0],
              !.slot = IF m.summary /\ ~ @.known THEN [known |-> TRUE, last |-> m.used] ELSE @]

\* guarded_acall: one call at a time, charged by what the count grew.
Call(m, s, tokens) ==
    LET called == [m EXCEPT !.used = @ + tokens, !.stages[s].heard = @ + tokens]
    IN  IF m.summary
        THEN [called EXCEPT !.generation = @ + 1,
                            !.guard = AddUsage(@, [total_tokens |-> tokens], <<"call", m.generation>>, "")]
        ELSE called

\* claim: what no stage has claimed yet; without a count, what the output or the
\* error itself reports.
Claimed(m, s, reports) ==
    IF m.summary THEN m.used - m.slot.last ELSE IF reports THEN m.stages[s].heard ELSE 0
AfterClaim(m) == IF m.summary THEN [m EXCEPT !.slot.last = m.used] ELSE m

Realtime(m, s) == m.generation > m.stages[s].since

\* step_completed charges a stage that was not charged by its calls.  The engine
\* does not hand on that it was.
End(m, s) ==
    LET usage   == Claimed(m, s, TRUE)
        charged == ~ m.engine /\ Realtime(m, s)
        ended   == [AfterClaim(m) EXCEPT !.stages[s].phase = "done",
                                         !.results[s] = {[usage |-> usage, charged |-> charged]}]
    IN  IF usage > 0 /\ ~ charged
        THEN [ended EXCEPT !.guard = AddUsage(@, [total_tokens |-> usage], <<"stage", s>>, "")]
        ELSE ended

\* A failed stage records its usage, and charges it unless its calls were.
Fail(m, s, reports) ==
    LET usage  == Claimed(m, s, reports)
        key    == <<"model", s, m.stages[s].failures>>
        failed == [AfterClaim(m) EXCEPT !.stages[s] = [@ EXCEPT !.phase = "failed", !.failures = @ + 1],
                                        !.records = IF usage > 0 THEN @ \cup {[key |-> key, usage |-> usage]} ELSE @]
    IN  IF usage > 0 /\ ~ Realtime(m, s)
        THEN [failed EXCEPT !.guard = AddUsage(@, [total_tokens |-> usage], key, "")]
        ELSE failed

\* The account of the run: the results, and the records of steps whose result
\* does not already hold them.
Account(m) ==
    LET held == { s \in Steps : \E r \in m.results[s] : r.usage > 0 /\ r.charged }
    IN  MapThenSumSet(LAMBDA s : MapThenSumSet(LAMBDA r : r.usage, m.results[s]), Steps)
          + MapThenSumSet(LAMBDA r : r.usage, { r \in m.records : r.key[2] \notin held })

-----------------------------------------------------------------------------
(***************************************************************************)
(* A crew of one (runtime/crewai_runtime.py): the growth of the count, or  *)
(* what its output or its error reports, is charged unless the calls were. *)
(***************************************************************************)
Single(summary, tokens, fails, reports) ==
    LET called   == AddUsage(NewGuard({}), [total_tokens |-> tokens], "call", "")
        reported == AddUsage(NewGuard({}), [total_tokens |-> tokens], "single", "")
    IN  CASE tokens = 0            -> NewGuard({})
          [] tokens > 0 /\ summary -> called
          [] OTHER                 -> IF fails /\ ~ reports THEN NewGuard({}) ELSE reported
=============================================================================
