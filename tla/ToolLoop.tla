------------------------------ MODULE ToolLoop ------------------------------
(***************************************************************************)
(* One turn of the native runtime (agents/runtime/native_runtime.py): the  *)
(* model and tool loop under its budget, the tool gateway                  *)
(* (agents/gateway/tool_gateway.py), the human approval of dangerous tools *)
(* (approval_coordinator.py, approval_bus.py, api/agent_runs.py), and the  *)
(* user's cancel, pause and resume (run_controls.py).                      *)
(*                                                                         *)
(* The turn is a coroutine that waits for the provider, for a model slot,  *)
(* for a person; the requests of the API interleave with it.  A request    *)
(* reads a row, then writes it, and its signal travels by Redis and may be *)
(* lost.  Other turns share the slots and the breaker.                     *)
(***************************************************************************)
EXTENDS Transcript

CONSTANTS
    Args,         \* tool calls the model may ask for, as (tool, arguments)
    ToolOf,       \* the tool of a call
    Dangerous,    \* the tools that need approval
    Flaw,         \* what a gate will find wrong with a call, "none" if nothing
    Batches,      \* the batches of calls a model round may ask for
    ResultCosts,  \* the sizes a tool result may have
    MaxResult,    \* max_tool_output_chars
    RoundTokens,  \* the tokens a model round may report
    MaxSteps,     \* max_agent_steps
    MaxTools,     \* max_tool_calls
    MaxTokens,    \* max_total_tokens
    MaxDistinct,  \* max_tools_per_run
    MaxCont,      \* AUTO_CONTINUATION_MAX_ROUNDS
    MaxFailures,  \* MODEL_CIRCUIT_FAILURE_THRESHOLD
    Slots,        \* MAX_CONCURRENT_MODEL_CALLS
    MaxEvents     \* bound: requests of people and faults

ASSUME ToolLoopAssumption ==
    /\ {MaxSteps, MaxTools, MaxTokens, MaxFailures, Slots} \subseteq Nat \ {0}
    /\ {MaxDistinct, MaxCont, MaxEvents} \subseteq Nat
    /\ Flaw \in [Args -> {"none", "unknown", "no_user", "argv", "sql"}]
    /\ <<>> \in Batches /\ Batches \subseteq Seq(Args)
    /\ MaxResult \in Nat /\ ResultCosts \subseteq Nat /\ RoundTokens \subseteq Nat

VARIABLES
    pc,        \* where the turn is
    finish,    \* finish_reason
    working,   \* the transcript
    todo,      \* tool calls of this round not yet executed: [id, args]
    cont,      \* continuation rounds so far
    guard,     \* BudgetGuard: steps, tools, tokens, is the deadline past?
    used,      \* distinct tools of the run (check_tool)
    rows,      \* ToolApproval rows: args, status, expired?, committed?
    waiter,    \* the WaitingRun of the coordinator: row and decision
    ctl,       \* RunControl: cancel, paused, instructions not yet drained
    desk,      \* API decisions that have read their row: [row, decision]
    bus,       \* decisions published to Redis and not yet received
    disabled,  \* tools an administrator has switched off
    breaker,   \* failures recorded, open?
    free,      \* free model slots
    others,    \* model slots held by other turns
    ran,       \* history: calls executed, in order
    agreed,    \* history: calls some person has approved
    sent,      \* history: model calls made
    events     \* events so far

control == <<ctl, desk, bus, disabled, rows, agreed>>
shared  == <<breaker, free, others>>
vars == <<pc, finish, working, todo, cont, guard, used, waiter, ran, sent, events,
          control, shared>>

PCs == {"head", "admit", "acquire", "stream", "paused", "fold", "tools", "execute",
        "ask", "register", "wait", "again", "end", "done", "failed", "aborted"}
Over == {"done", "failed", "aborted"}
NoWaiter == [row |-> 0, decision |-> "none"]

TypeOK ==
    /\ pc \in PCs
    /\ finish \in {"stop", "tool_calls", "length", "cancelled", "budget"}
    /\ working \in Seq(Message)
    /\ todo \in Seq([id : Nat, args : Args])
    /\ cont \in 0..MaxCont
    /\ guard \in [steps : Nat, tools : Nat, tokens : Nat, late : BOOLEAN]
    /\ used \subseteq {ToolOf[a] : a \in Args}
    /\ rows \in Seq([args : Args, status : {"pending", "approved", "rejected"},
                     expired : BOOLEAN, committed : BOOLEAN])
    /\ waiter \in [row : Nat, decision : {"none", "pending", "approved", "rejected",
                                          "cancelled", "timed_out"}]
    /\ ctl \in [cancel : BOOLEAN, paused : BOOLEAN, notes : Nat]
    /\ desk \subseteq [row : Nat, decision : {"approved", "rejected"}]
    /\ bus \subseteq [row : Nat, decision : {"approved", "rejected", "cancelled"}]
    /\ breaker \in [failures : 0..MaxFailures, open : BOOLEAN]
    /\ free \in 0..Slots /\ others \in 0..Slots
    /\ sent \in Nat

-----------------------------------------------------------------------------
(***************************************************************************)
(* BudgetGuard: counted limits are exceeded above the limit, measured ones *)
(* at it.                                                                  *)
(***************************************************************************)
Exhausted(g) == \/ g.steps > MaxSteps \/ g.tools > MaxTools
                \/ g.late \/ g.tokens >= MaxTokens

\* enter_step and enter_tool_call count first and check afterwards.
EnterStep == guard' = [guard EXCEPT !.steps = @ + 1]
EnterTool == guard' = [guard EXCEPT !.tools = @ + 1]

Stop(reason) == finish' = reason /\ pc' = "end"

(***************************************************************************)
(* The head of the loop: a cancel, then the step budget.                   *)
(***************************************************************************)
LoopHead ==
    /\ pc = "head"
    /\ IF ctl.cancel THEN Stop("cancelled") /\ UNCHANGED guard
       ELSE /\ EnterStep
            /\ IF Exhausted(guard') THEN Stop("budget") ELSE pc' = "admit" /\ UNCHANGED finish
    /\ UNCHANGED <<working, todo, cont, used, waiter, ran, sent, control, shared, events>>

\* Compaction, which the summariser may fail, then admission.  The call of the
\* summariser is one provider call more, which no budget counts and no deadline of
\* the round bounds: the model takes it to answer or fail, as the read timeout of
\* the client makes it, and nothing that is read before it is used after it.
Admit ==
    /\ pc = "admit"
    /\ \E m \in {working, Compact(working)} :
          IF Admitted(m)
          THEN working' = TrimHistory(m) /\ pc' = "acquire" /\ UNCHANGED finish
          ELSE working' = m /\ pc' = "failed" /\ finish' = "budget"
    /\ UNCHANGED <<todo, cont, guard, used, waiter, ran, sent, control, shared, events>>

-----------------------------------------------------------------------------
(***************************************************************************)
(* CircuitBreaker: an open breaker refuses; once its cooldown is over the  *)
(* next call closes it, without forgetting the failures.                   *)
(***************************************************************************)
BreakerRefuses ==
    /\ pc = "acquire" /\ breaker.open
    /\ pc' = "failed"
    /\ UNCHANGED <<finish, working, todo, cont, guard, used, waiter, ran, sent, control,
                   shared, events>>

Cooldown ==
    /\ breaker.open
    /\ breaker' = [breaker EXCEPT !.open = FALSE]
    /\ UNCHANGED <<pc, finish, working, todo, cont, guard, used, waiter, ran, sent,
                   control, free, others>>

Success == breaker' = [failures |-> 0, open |-> FALSE]
Failure ==
    LET n == IF breaker.failures < MaxFailures THEN breaker.failures + 1 ELSE MaxFailures
    IN  breaker' = [failures |-> n, open |-> breaker.open \/ n = MaxFailures]

(***************************************************************************)
(* The dispatch: check the budget, wait for a slot, call the provider.     *)
(***************************************************************************)
Dispatch ==
    /\ pc = "acquire" /\ ~ breaker.open /\ ~ Exhausted(guard) /\ free > 0
    /\ free' = free - 1 /\ pc' = "stream"
    /\ sent' = sent + 1
    /\ UNCHANGED <<finish, working, todo, cont, guard, used, waiter, ran, control, breaker,
                   others, events>>

NoTimeForSlot ==
    /\ pc = "acquire" /\ ~ breaker.open /\ Exhausted(guard)
    /\ Stop("budget")
    /\ UNCHANGED <<working, todo, cont, guard, used, waiter, ran, sent, control, shared,
                   events>>

\* Seeded fault: the slot is given back where the call succeeded only.
ReleaseOnSuccess == free' = IF pc' = "fold" THEN free + 1 ELSE free

\* The finally of the dispatch, which only follows an acquired slot.
ReleaseSlot == free' = free + 1

\* Seeded fault: a transport retry is free.
FreeRetry == UNCHANGED guard

\* _gate_model_retry: a transport retry of the provider costs a step.
GateRetry == EnterStep

RetryCall ==
    /\ pc = "stream"
    /\ GateRetry
    /\ IF Exhausted(guard') THEN Stop("budget") /\ ReleaseSlot
       ELSE /\ UNCHANGED <<pc, finish, free>>
    /\ sent' = IF Exhausted(guard') THEN sent ELSE sent + 1
    /\ UNCHANGED <<working, todo, cont, used, waiter, ran, control, breaker, others>>

\* Every delta first looks at the cancel and at the pause.
SeeCancel ==
    /\ pc \in {"stream", "paused"} /\ ctl.cancel /\ ~ guard.late
    /\ finish' = "cancelled" /\ pc' = "fold"
    /\ todo' = <<>>
    /\ Success /\ ReleaseSlot
    /\ UNCHANGED <<working, cont, guard, used, waiter, ran, sent, control, others, events>>

SeePause ==
    /\ \/ pc = "stream" /\ ctl.paused /\ pc' = "paused"
       \/ pc = "paused" /\ ~ ctl.paused /\ pc' = "stream"
    /\ ~ ctl.cancel
    /\ UNCHANGED <<finish, working, todo, cont, guard, used, waiter, ran, sent, control,
                   shared, events>>

\* Seeded fault: the deadline is not looked at while the turn is paused.
LateInStream == pc = "stream" /\ guard.late

\* asyncio.timeout(remaining_seconds) around the provider stream.
StreamTimesOut == pc \in {"stream", "paused"} /\ guard.late

StreamLate ==
    /\ StreamTimesOut
    /\ Stop("budget") /\ ReleaseSlot
    /\ UNCHANGED <<working, todo, cont, guard, used, waiter, ran, sent, control, breaker,
                   others, events>>

\* add_usage, once per dispatch.
AddUsage(n) == guard' = [guard EXCEPT !.tokens = @ + n]

\* The provider has answered: text, text cut short, or a batch of tool calls.
Answer(reason, batch, tokens) ==
    /\ pc = "stream" /\ ~ ctl.cancel /\ ~ guard.late
    /\ reason = "tool_calls" \/ Len(batch) <= 1  \* otherwise only asked for emptiness
    /\ LET base == Max({0} \union UNION {working[i].ids : i \in DOMAIN working})
       IN  todo' = [i \in DOMAIN batch |-> [id |-> base + i, args |-> batch[i]]]
    /\ finish' = reason /\ pc' = "fold"
    /\ AddUsage(tokens)
    /\ Success /\ ReleaseSlot
    /\ UNCHANGED <<working, cont, used, waiter, ran, sent, control, others, events>>

\* A delta also takes the instructions of the user into the transcript.
Drain ==
    /\ pc = "stream" /\ ctl.notes > 0
    /\ working' = Append(working, Msg("user", {}, 1))
    /\ ctl' = [ctl EXCEPT !.notes = @ - 1]
    /\ UNCHANGED <<pc, finish, todo, cont, guard, used, waiter, ran, sent, desk, bus,
                   disabled, rows, agreed, shared, events>>

ProviderFails ==
    /\ pc = "stream"
    /\ pc' = "failed" /\ Failure /\ ReleaseSlot
    /\ UNCHANGED <<finish, working, todo, cont, guard, used, waiter, ran, sent, control, others>>

\* Seeded fault: the finally does not ask whether the slot was acquired.
Dispatching == pc \in {"acquire", "stream", "paused"}

\* limiter_acquired.
Acquired == pc \in {"stream", "paused"}

\* The client goes away: CancelledError at whatever the turn awaits.
Disconnect ==
    /\ pc \in {"acquire", "stream", "paused", "execute", "wait"}
    /\ pc' = "aborted"
    /\ IF Acquired THEN ReleaseSlot ELSE UNCHANGED free
    /\ waiter' = NoWaiter
    /\ UNCHANGED <<finish, working, todo, cont, guard, used, ran, sent, control, breaker, others>>

(***************************************************************************)
(* After a round: the budget, then tool calls, a continuation, or the end. *)
(***************************************************************************)
CallsTools == finish = "tool_calls" /\ todo # <<>>

\* ContinuationPolicy.should_continue.
Continues == finish = "length" /\ cont < MaxCont /\ todo = <<>>

Fold ==
    /\ pc = "fold"
    /\ \/ Exhausted(guard) /\ Stop("budget") /\ UNCHANGED <<working, cont>>
       \/ /\ ~ Exhausted(guard) /\ CallsTools
          /\ working' = Append(working, Msg("assistant", {todo[i].id : i \in DOMAIN todo}, 1))
          /\ pc' = "tools" /\ UNCHANGED <<finish, cont>>
       \/ /\ ~ Exhausted(guard) /\ Continues /\ ~ ctl.cancel
          /\ working' = working \o <<Msg("assistant", {}, 1), Msg("user", {}, 1)>>
          /\ cont' = cont + 1 /\ pc' = "head" /\ UNCHANGED finish
       \/ /\ ~ Exhausted(guard) /\ ~ CallsTools
          /\ ~ Continues \/ ctl.cancel
          /\ Stop(IF ctl.cancel /\ finish = "length" THEN "cancelled" ELSE finish)
          /\ UNCHANGED <<working, cont>>
    /\ UNCHANGED <<todo, guard, used, waiter, ran, sent, control, shared, events>>

-----------------------------------------------------------------------------
(***************************************************************************)
(* The tools of a round, one after the other.                              *)
(***************************************************************************)
RoundOver ==
    /\ pc = "tools" /\ todo = <<>>
    /\ finish' = "stop" /\ pc' = "head"
    /\ UNCHANGED <<working, todo, cont, guard, used, waiter, ran, sent, control, shared,
                   events>>

NextTool ==
    /\ pc = "tools" /\ todo # <<>>
    /\ EnterTool
    /\ IF Exhausted(guard') THEN Stop("budget") ELSE pc' = "execute" /\ UNCHANGED finish
    /\ UNCHANGED <<working, todo, cont, used, waiter, ran, sent, control, shared, events>>

\* The tool message that answers the first call of todo.
ToolMessage(cost) == working' = Append(working, Msg("tool", {Head(todo).id}, cost))

\* The result goes into the transcript and the budget is checked behind it.
Respond(cost) ==
    /\ ToolMessage(cost) /\ todo' = Tail(todo)
    /\ IF Exhausted(guard) THEN Stop("budget") ELSE pc' = "tools" /\ UNCHANGED finish

(***************************************************************************)
(* The gates of ToolGateway.execute before the approval: the quota of      *)
(* distinct tools, the tool switches, and the static policies.  The set of *)
(* tools used is the one in Redis; the set of a process that cannot reach  *)
(* it, which refuses later, is left out: no property rests on the quota.   *)
(***************************************************************************)
QuotaRefuses(a) == ToolOf[a] \notin used /\ Cardinality(used) >= MaxDistinct

\* The registry does not know the tool; the run has no user to scope it to.
UnknownTool(a) == Flaw[a] = "unknown"
Unscoped(a) == Flaw[a] = "no_user"

\* is_tool_allowed: an administrator may switch a tool off at any time.
IsToolAllowed(a) == ToolOf[a] \notin disabled

\* The argv rules of the exec policy, and the SQL guard of db_query.
Forbidden(a) == Flaw[a] = "argv"
UnsafeSql(a) == Flaw[a] = "sql"

PolicyRefuses(a) ==
    UnknownTool(a) \/ ~ IsToolAllowed(a) \/ Unscoped(a) \/ Forbidden(a) \/ UnsafeSql(a)

NeedsApproval(a) == ToolOf[a] \in Dangerous

\* Seeded fault: an approval of the same tool will do, whatever its arguments.
AnyApproval(a) ==
    \E i \in DOMAIN rows : /\ ToolOf[rows[i].args] = ToolOf[a]
                           /\ rows[i].status = "approved" /\ ~ rows[i].expired

FindValidApproval(a) ==
    \E i \in DOMAIN rows : /\ rows[i].args = a
                           /\ rows[i].status = "approved" /\ ~ rows[i].expired

CreatePendingApproval(a) ==
    rows' = Append(rows, [args |-> a, status |-> "pending", expired |-> FALSE,
                          committed |-> FALSE])

\* _stringify_and_truncate.
Truncated(cost) == Min({cost, MaxResult})

\* The tool has run: it succeeded, failed or timed out, and its result is capped.
RunTool(a) == \E cost \in ResultCosts : Respond(Truncated(cost)) /\ ran' = Append(ran, a)

\* What _execute_inner asks before it runs a tool.
Allowed(a) == ~ QuotaRefuses(a) /\ ~ PolicyRefuses(a) /\ (NeedsApproval(a) => FindValidApproval(a))

Execute ==
    LET a == Head(todo).args
    IN  /\ pc = "execute" /\ ~ guard.late
        /\ used' = IF QuotaRefuses(a) THEN used ELSE used \union {ToolOf[a]}
        /\ \/ /\ QuotaRefuses(a) \/ PolicyRefuses(a)
              /\ Respond(1) /\ UNCHANGED <<ran, rows>>
           \/ Allowed(a) /\ RunTool(a) /\ UNCHANGED rows
           \/ /\ ~ QuotaRefuses(a) /\ ~ PolicyRefuses(a)
              /\ NeedsApproval(a) /\ ~ FindValidApproval(a)
              /\ CreatePendingApproval(a)
              /\ pc' = "ask" /\ UNCHANGED <<finish, working, todo, ran>>
        /\ UNCHANGED <<cont, guard, waiter, sent, ctl, desk, bus, disabled, agreed, shared, events>>

\* The deadline passes before the call or while the tool runs: the turn gives up on it.
ExecuteLate ==
    /\ pc \in {"execute", "again"} /\ guard.late
    /\ Stop("budget")
    /\ ran' \in {ran} \union {Append(ran, a) : a \in {b \in {Head(todo).args} : Allowed(b)}}
    /\ UNCHANGED <<working, todo, cont, guard, used, waiter, sent, control, shared, events>>

(***************************************************************************)
(* The approval: the status commit makes the row visible, then the turn    *)
(* registers with the coordinator and waits.                               *)
(***************************************************************************)
Ask ==
    /\ pc = "ask"
    /\ rows' = [i \in DOMAIN rows |-> [rows[i] EXCEPT !.committed = TRUE]]
    /\ pc' = "register"
    /\ UNCHANGED <<finish, working, todo, cont, guard, used, waiter, ran, sent, ctl, desk,
                   bus, disabled, agreed, shared, events>>

Register ==
    /\ pc = "register"
    /\ IF guard.late THEN Stop("budget") /\ UNCHANGED waiter
       ELSE /\ waiter' = [row |-> Len(rows), decision |-> "pending"]
            /\ pc' = "wait" /\ UNCHANGED finish
    /\ UNCHANGED <<working, todo, cont, guard, used, ran, sent, control, shared, events>>

\* Nobody decides within DEFAULT_WAIT_TIMEOUT; the deadline of the turn is later.
WaitTimesOut ==
    /\ pc = "wait" /\ waiter.decision = "pending" /\ ~ guard.late
    /\ waiter' = [waiter EXCEPT !.decision = "timed_out"]
    /\ UNCHANGED <<pc, finish, working, todo, cont, guard, used, ran, sent, control, shared,
                   events>>

WaitLate ==
    /\ pc = "wait" /\ waiter.decision = "pending" /\ guard.late
    /\ Stop("budget") /\ waiter' = NoWaiter
    /\ UNCHANGED <<working, todo, cont, guard, used, ran, sent, control, shared, events>>

Decided ==
    /\ pc = "wait" /\ waiter.decision \notin {"none", "pending"}
    /\ waiter' = NoWaiter
    /\ \/ /\ waiter.decision = "approved" /\ pc' = "again"
          /\ UNCHANGED <<finish, working, todo>>
       \/ /\ waiter.decision = "cancelled" /\ pc' = "aborted"
          /\ UNCHANGED <<finish, working, todo>>
       \/ /\ waiter.decision \in {"rejected", "timed_out"}
          /\ ToolMessage(1) /\ todo' = Tail(todo) /\ pc' = "tools" /\ UNCHANGED finish
    /\ UNCHANGED <<cont, guard, used, ran, sent, control, shared, events>>

\* The call goes through the gateway once more; when its approval has expired a new
\* row is left pending and the model is told that approval is required.
ExecuteAgain ==
    LET a == Head(todo).args
    IN  /\ pc = "again" /\ ~ guard.late
        /\ \/ PolicyRefuses(a) /\ Respond(1) /\ UNCHANGED <<ran, rows>>
           \/ Allowed(a) /\ RunTool(a) /\ UNCHANGED rows
           \/ /\ ~ PolicyRefuses(a) /\ ~ FindValidApproval(a)
              /\ CreatePendingApproval(a) /\ Respond(1) /\ UNCHANGED ran
        /\ UNCHANGED <<cont, guard, used, waiter, sent, ctl, desk, bus, disabled, agreed,
                       shared, events>>

\* The end of the turn: budget error, terminal events, done.
Finish ==
    /\ pc = "end" /\ pc' = "done"
    /\ UNCHANGED <<finish, working, todo, cont, guard, used, waiter, ran, sent, control,
                   shared, events>>

-----------------------------------------------------------------------------
(***************************************************************************)
(* approve_run and reject_run: read the row, then write it and publish.    *)
(* Nothing keeps two of them from reading the same pending row.            *)
(***************************************************************************)
idle == <<pc, finish, working, todo, cont, guard, used, ran, sent, shared>>

DecideRead(i, d) ==
    /\ rows[i].committed /\ rows[i].status = "pending"
    /\ [row |-> i, decision |-> d] \notin desk
    /\ desk' = desk \union {[row |-> i, decision |-> d]}
    /\ UNCHANGED <<idle, waiter, ctl, bus, disabled, rows, agreed>>

DecideWrite(x) ==
    /\ x \in desk
    /\ desk' = desk \ {x} /\ bus' = bus \union {x}
    /\ rows' = [rows EXCEPT ![x.row].status = x.decision]
    /\ agreed' = IF x.decision = "approved" THEN agreed \union {rows[x.row].args} ELSE agreed
    /\ UNCHANGED <<idle, waiter, ctl, disabled, events>>

\* The coordinator takes the first decision for a registered row.
Deliver(x) ==
    /\ x \in bus /\ bus' = bus \ {x}
    /\ waiter' = IF /\ waiter.decision = "pending"
                    /\ x.row = waiter.row \/ x.decision = "cancelled"
                 THEN [waiter EXCEPT !.decision = x.decision] ELSE waiter
    /\ UNCHANGED <<idle, ctl, desk, disabled, rows, agreed, events>>

LoseSignal(x) ==
    /\ x \in bus /\ bus' = bus \ {x}
    /\ UNCHANGED <<idle, waiter, ctl, desk, disabled, rows, agreed>>

\* cancel_run: the control of the run exists only in the process that runs it.
CancelRun ==
    /\ pc \notin Over /\ ~ ctl.cancel
    /\ \E here \in BOOLEAN : ctl' = [ctl EXCEPT !.cancel = here]
    /\ bus' = bus \union {[row |-> 0, decision |-> "cancelled"]}
    /\ UNCHANGED <<idle, waiter, desk, disabled, rows, agreed>>

PauseRun ==
    /\ pc \notin Over /\ ~ ctl.paused
    /\ ctl' = [ctl EXCEPT !.paused = TRUE]
    /\ UNCHANGED <<idle, waiter, desk, bus, disabled, rows, agreed>>

Instruct ==
    /\ pc \notin Over
    /\ ctl' = [ctl EXCEPT !.notes = @ + 1]
    /\ UNCHANGED <<idle, waiter, desk, bus, disabled, rows, agreed>>

ResumeRun ==
    /\ ctl.paused
    /\ ctl' = [ctl EXCEPT !.paused = FALSE]
    /\ UNCHANGED <<idle, waiter, desk, bus, disabled, rows, agreed, events>>

DisableTool(tool) ==
    /\ tool \notin disabled
    /\ disabled' = disabled \union {tool}
    /\ UNCHANGED <<idle, waiter, ctl, desk, bus, rows, agreed>>

\* The approval TTL; the deadline of the turn; other turns at the provider.
ApprovalExpires(i) ==
    /\ rows[i].committed /\ ~ rows[i].expired
    /\ rows' = [rows EXCEPT ![i].expired = TRUE]
    /\ UNCHANGED <<idle, waiter, ctl, desk, bus, disabled, agreed>>

Deadline ==
    /\ pc \notin Over /\ ~ guard.late
    /\ guard' = [guard EXCEPT !.late = TRUE]
    /\ UNCHANGED <<pc, finish, working, todo, cont, used, waiter, ran, sent, control, shared,
                   events>>

OtherStarts ==
    /\ free > 0 /\ free' = free - 1 /\ others' = others + 1
    /\ UNCHANGED <<pc, finish, working, todo, cont, guard, used, waiter, ran, sent, control,
                   breaker>>

OtherEnds ==
    /\ others > 0 /\ free' = free + 1 /\ others' = others - 1
    /\ Success \/ Failure
    /\ UNCHANGED <<pc, finish, working, todo, cont, guard, used, waiter, ran, sent, control,
                   events>>

-----------------------------------------------------------------------------
Init ==
    /\ pc = "head" /\ finish = "stop"
    /\ working = <<Msg("system", {}, 1), Msg("user", {}, 1), Msg("assistant", {}, 1),
                   Msg("user", {}, 1)>>
    /\ todo = <<>> /\ cont = 0
    /\ guard = [steps |-> 0, tools |-> 0, tokens |-> 0, late |-> FALSE]
    /\ used = {} /\ rows = <<>> /\ waiter = NoWaiter
    /\ ctl = [cancel |-> FALSE, paused |-> FALSE, notes |-> 0]
    /\ desk = {} /\ bus = {} /\ disabled = {}
    /\ breaker = [failures |-> 0, open |-> FALSE]
    /\ free = Slots /\ others = 0
    /\ ran = <<>> /\ agreed = {} /\ sent = 0 /\ events = 0

\* What the turn does by itself.
Step ==
    \/ LoopHead \/ Admit \/ BreakerRefuses \/ Dispatch \/ NoTimeForSlot
    \/ SeeCancel \/ SeePause \/ Drain \/ StreamLate \/ Fold
    \/ RoundOver \/ NextTool \/ Execute \/ ExecuteLate \/ Ask \/ Register
    \/ WaitLate \/ Decided \/ ExecuteAgain \/ Finish
    \/ \E reason \in {"stop", "length", "tool_calls"}, batch \in Batches, n \in RoundTokens :
          Answer(reason, batch, n)

Signals == \E x \in desk \union bus : DecideWrite(x) \/ Deliver(x)

\* People and faults, of which at most MaxEvents happen.
Event ==
    \/ RetryCall \/ ProviderFails \/ Disconnect \/ CancelRun \/ PauseRun \/ Instruct
    \/ OtherStarts
    \/ Cooldown
    \/ \E i \in DOMAIN rows : \/ ApprovalExpires(i)
                              \/ \E d \in {"approved", "rejected"} : DecideRead(i, d)
    \/ \E x \in bus : LoseSignal(x)
    \/ \E tool \in {ToolOf[a] : a \in Args} : DisableTool(tool)

\* The model ends with the turn.
Next ==
    /\ pc \notin Over
    /\ \/ Step \/ Signals \/ WaitTimesOut \/ ResumeRun \/ Deadline \/ OtherEnds
       \/ events < MaxEvents /\ events' = events + 1 /\ Event

Spec == Init /\ [][Next]_vars

\* The event loop runs the turn on, and the deadline of the run passes.
FairSpec == Spec /\ WF_vars(Step) /\ WF_vars(Deadline)

-----------------------------------------------------------------------------
(***************************************************************************)
(* Consent: whatever decisions race, expire or get lost, a dangerous tool  *)
(* runs only with arguments that some person has approved (the gate of     *)
(* ToolGateway._execute_inner looks at the row, not at the signal).        *)
(***************************************************************************)
ConsentedOnly == \A i \in DOMAIN ran : ToolOf[ran[i]] \in Dangerous => ran[i] \in agreed

(***************************************************************************)
(* The budget of the run: retries of the provider, tool rounds and         *)
(* continuations together never make more than max_agent_steps model calls *)
(* and max_tool_calls tool executions, of MaxDistinct different tools.     *)
(***************************************************************************)
BudgetHolds ==
    /\ sent <= MaxSteps /\ Len(ran) <= MaxTools
    /\ Cardinality({ToolOf[ran[i]] : i \in DOMAIN ran}) <= MaxDistinct

(***************************************************************************)
(* Every prompt the provider is sent answers each tool call in it exactly  *)
(* once, whatever was refused, rejected, timed out, summarised away by     *)
(* mid-run compaction or trimmed (a provider rejects the prompt otherwise).*)
(***************************************************************************)
EveryCallAnswered ==
    pc \in {"acquire", "stream"} =>
       \A i \in Of(working, "assistant") : \A id \in working[i].ids :
          Cardinality({j \in Of(working, "tool") : id \in working[j].ids}) = 1

(***************************************************************************)
(* A turn ends, also when nobody decides, the user never resumes it, the   *)
(* provider is silent or every slot is taken: the deadline of the run cuts *)
(* every wait short.                                                       *)
(***************************************************************************)
EveryTurnEnds == <>(pc \in Over)
=============================================================================
