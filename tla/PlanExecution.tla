--------------------------- MODULE PlanExecution ---------------------------
(***************************************************************************)
(* A multi-agent run: the workflow engine (agents/workflow/engine.py) that *)
(* executes a plan step by step, verifies it, revises it and resumes from  *)
(* checkpoints after a crash, and the stage walker                         *)
(* (agents/runtime/crewai_runtime.py) that takes over when the engine does *)
(* not complete (agents/orchestrator.py).  Both share the run controls and *)
(* the node statuses of the panel (run_environment.py, lifecycle.py).      *)
(*                                                                         *)
(* Steps run as tasks of one event loop.  Commands of people arrive by the *)
(* database and, when the turn runs in the API process, directly.  A       *)
(* durable turn may die; the next worker starts again with what the        *)
(* database holds: checkpoints, plan status and unclaimed commands.        *)
(*                                                                         *)
(* An output is a version number: what the properties tell apart is which  *)
(* outputs of the steps before it an output was computed from.             *)
(***************************************************************************)
EXTENDS Topology

CONSTANTS
    Profiles,         \* profiles a run may have
    Proposals,        \* plans the model may propose when AGENT_LLM_PLANNER is on
    Gated,            \* PLAN_REQUIRE_CONFIRMATION
    MaxReplans,       \* max_replans of a plan
    GuardReplans,     \* AGENT_MAX_REPLAN_COUNT
    MaxEvents,        \* bound: commands, crashes, failed reads and writes of checkpoints,
                      \* empty outputs, money spent before its time, and revisions before
    MaxCrashes        \* bound: crashes among them

\* The profiles are those topology_for declares; a step of a plan comes with its
\* depends_on.
ASSUME PlanExecutionAssumption ==
    /\ {MaxReplans, GuardReplans, MaxEvents, MaxCrashes} \subseteq Nat
    /\ Gated \in BOOLEAN
    /\ Profiles \subseteq {"deep_research", "parallel_research", "debate", "write_review",
                          "task_decomposition"}
    /\ \A p \in Proposals : DOMAIN p.deps = Range(p.order)

VARIABLES
    profile,     \* agent_profile of the run
    inline,      \* does the turn run in the process of the API?
    phase,       \* where the run is
    path,        \* who executes: the engine or the walker
    plan,        \* the plan of this life
    task,        \* where each step is
    skip,        \* steps the current version of the plan does not execute
    reused,      \* steps taken over from checkpoints
    inp,         \* versions of the inputs a running step was given
    obs,         \* observations: version, inputs it was computed from, empty?
    ver,         \* history: the latest version of each step's output
    tries,       \* failed attempts of a step in this pass
    ckpt,        \* checkpoint rows; round and deps are history
    clean,       \* history: the rows lives started from are of one plan and one pass
    replans,     \* revisions of this life, which is also what the guard counts
    stage,       \* the walker's stage
    ctl,         \* RunControl: cancel, paused, gate
    cmds,        \* durable commands not yet claimed
    planStatus,  \* plan_status of the run row
    budget,      \* what the guard of this life says: left, spent (tokens or money), timedOut
    node,        \* status of each node the panel shows; outlives a crash
    handed,      \* nodes whose outgoing edges are completed
    late,        \* history: steps that started although a cancel was visible
    events,      \* events so far
    crashes      \* crashes so far

durable == <<profile, inline, ckpt, planStatus, cmds, crashes>>
panel   == <<node, handed, late>>
steps   == <<task, skip, reused, inp, obs, ver, tries>>
vars == <<durable, panel, steps, phase, path, plan, clean, replans, stage, ctl, budget,
          events>>

\* "withdrawn" is a run cancelled at the gate, before its panel is announced.
Final == {"completed", "failed", "cancelled", "withdrawn"}
Ids == Range(plan.order)
StepNames == UNION {Range(p.order) : p \in Proposals \cup {PlanFor(q) : q \in Profiles}}
NoVersions == [s \in StepNames |-> 0]
NoObs == [v |-> 0, from |-> << >>, empty |-> FALSE]
NoControl == [cancel |-> FALSE, paused |-> FALSE, gate |-> FALSE]
Commands == {"pause", "resume", "cancel", "gate"}
Settled == {"completed", "failed", "cancelled"}   \* _TERMINAL of lifecycle.py

Exhausted == budget # "left"                       \* BudgetGuard.check raises

-----------------------------------------------------------------------------
(***************************************************************************)
(* The emitter: a settled node is not started again, a join starts when    *)
(* every edge into it is completed.                                        *)
(***************************************************************************)
Edges == IF path = "engine" THEN GraphFromPlan(plan).edges ELSE GraphFor(profile).edges

JoinComplete(s) == \A e \in Edges : e[2] = s => e[1] \in handed

Started(n, s) ==
    IF n[s] \in Settled THEN n
    ELSE [n EXCEPT ![s] = IF JoinComplete(s) THEN "running" ELSE "waiting"]

Starts(s) == node[s] \notin Settled /\ JoinComplete(s)

Completed(n, s) == IF n[s] = "cancelled" THEN n ELSE [n EXCEPT ![s] = "completed"]

\* step_failed: the node fails and what has not started behind it is cancelled.
NodeFails(n, s) ==
    [t \in DOMAIN n |-> IF t = s THEN "failed"
                        ELSE IF /\ t \in DownstreamClosure(plan, {s})
                                /\ n[t] \notin Settled \cup {"running"} THEN "cancelled"
                        ELSE n[t]]

\* Seeded fault: the nodes nobody has started are left as they are.
CancelRunning(n) == [t \in DOMAIN n |-> IF n[t] = "running" THEN "cancelled" ELSE n[t]]

\* cancel_unfinished: every open node of the graph is cancelled.
CancelUnfinished(n) ==
    [t \in DOMAIN n |-> IF t \in Ids /\ n[t] \notin Settled THEN "cancelled" ELSE n[t]]

\* persist_graph and emit_graph_initialized: the graph of a plan replaces what the
\* panel showed.
NewPanel(p) == [s \in StepNames |-> IF s \in Range(p.order) THEN "pending" ELSE "none"]

-----------------------------------------------------------------------------
(***************************************************************************)
(* Planning: the template, or what the model proposes if that is a valid   *)
(* plan and the budget allows the question.                                *)
(***************************************************************************)
AcceptedProposals == IF Exhausted THEN {} ELSE {p \in Proposals : ValidPlan(p)}

FreshSteps(p) ==
    LET ids == Range(p.order)
    IN /\ task' = [s \in ids |-> "wait"] /\ skip' = {} /\ reused' = {}
       /\ inp' = [s \in ids |-> << >>] /\ obs' = [s \in ids |-> NoObs]
       /\ tries' = [s \in ids |-> 0]
       /\ handed' = {} /\ late' = {}

\* The plan is published as a draft; the gate follows when it is configured.  The
\* panel shows what an earlier life left until the engine begins.
MakePlan ==
    /\ phase = "plan"
    /\ \E p \in {PlanFor(profile)} \cup AcceptedProposals : plan' = p /\ FreshSteps(p)
    /\ planStatus' = "draft"
    /\ phase' = IF Gated THEN "gate" ELSE "begin"
    /\ UNCHANGED <<ver, node, profile, inline, crashes, ckpt, cmds, path, clean, replans,
                   stage, ctl, budget, events>>

\* await_plan_confirmation.
GatePasses ==
    /\ phase = "gate" /\ phase' = "begin"
    /\ \/ ~ctl.gate /\ UNCHANGED ctl
       \/ ctl.gate /\ ~ctl.cancel /\ planStatus = "confirmed" /\ ctl' = [ctl EXCEPT !.gate = FALSE]
    /\ UNCHANGED <<durable, panel, steps, path, plan, clean, replans, stage, budget, events>>

GateTimesOut ==
    /\ phase = "gate" /\ ctl.gate /\ phase' = "begin"
    /\ UNCHANGED <<durable, panel, steps, path, plan, clean, replans, stage, ctl, budget,
                   events>>

GateCancels ==
    /\ phase = "gate" /\ ctl.gate /\ ctl.cancel /\ phase' = "withdrawn"
    /\ UNCHANGED <<durable, panel, steps, path, plan, clean, replans, stage, ctl, budget,
                   events>>

-----------------------------------------------------------------------------
(***************************************************************************)
(* The engine begins: load the checkpoints (any row of a step, since all   *)
(* carry the same sequence number; none when the read fails) and apply     *)
(* those that rest on reused steps only.                                   *)
(***************************************************************************)
Checkpointed == {r.step : r \in ckpt} \cap Ids

\* Seeded fault: whatever has a checkpoint is reused.
ReuseAll(found) == found

\* apply_checkpoints.
Reusable(found) == {s \in found : Ancestors(plan)[s] \subseteq found}

Begin ==
    /\ phase = "begin" /\ path = "engine" /\ phase' = "run"
    /\ \E found \in {Checkpointed, {}} : \E load \in [found -> ckpt] :
          /\ found = Checkpointed \/ events + replans < MaxEvents
          /\ events' = IF found = Checkpointed THEN events ELSE events + 1
          /\ \A s \in found : load[s].step = s
          /\ reused' = Reusable(found)
          /\ obs' = [s \in Ids |-> IF s \in reused'
                                   THEN [v |-> load[s].v, from |-> load[s].from, empty |-> FALSE]
                                   ELSE NoObs]
    /\ skip' = reused'
    /\ clean' = (clean /\ \A r \in ckpt : r.round = 0 /\ r.deps = plan.deps)
    /\ node' = NewPanel(plan)
    /\ UNCHANGED <<durable, task, inp, ver, tries, path, plan, replans, stage, ctl, budget,
                   handed, late>>

\* Behind a failed step nothing runs.
FailsBehind(s) ==
    /\ phase = "run" /\ task[s] = "wait"
    /\ \A d \in plan.deps[s] : task[d] \in {"done", "failed"}
    /\ \E d \in plan.deps[s] : task[d] = "failed"
    /\ task' = [task EXCEPT ![s] = "failed"]
    /\ UNCHANGED <<durable, panel, skip, reused, inp, obs, ver, tries, phase, path, plan,
                   clean, replans, stage, ctl, budget, events>>

(***************************************************************************)
(* A step whose dependencies are done goes through respect_controls: the   *)
(* budget, then the cancel, then the durable commands, then the pause.     *)
(***************************************************************************)
ApplyCommand(c, cmd) ==
    CASE cmd = "pause"  -> [c EXCEPT !.paused = TRUE]
      [] cmd = "resume" -> [c EXCEPT !.paused = FALSE]
      [] cmd = "cancel" -> [c EXCEPT !.cancel = TRUE]
      [] cmd = "gate"   -> [c EXCEPT !.gate = TRUE]

\* drain_durable_commands: claimed in order, each applied once.
Drain(c) == FoldLeft(ApplyCommand, c, cmds)

\* Seeded fault: the cancel is looked at while the run is paused only.
BlindToCancel == FALSE

CancelSeen == ctl.cancel

\* The engine gives up; the orchestrator falls back to the walker.
EngineGivesUp == phase' = "fallback" /\ UNCHANGED <<steps, panel>>

\* A cancel is no failure: tasks are withdrawn, open nodes cancelled.
EngineCancelled == phase' = "cancelled" /\ node' = CancelUnfinished(node)
                   /\ UNCHANGED <<steps, handed, late>>

\* What a step is given: the outputs of its dependencies.
Inputs(s) == [d \in plan.deps[s] |-> obs[d].v]

\* step_completed of a reused step charges what its row says it used, if anything.
\* That may spend the budget, and the completion is then swallowed.
ReportsReused(s) ==
    \/ /\ UNCHANGED budget
       /\ node' = Completed(Started(node, s), s) /\ handed' = handed \cup {s}
    \/ /\ budget' = IF Exhausted THEN budget ELSE "spent"
       /\ node' = Started(node, s) /\ UNCHANGED handed

\* Behind the controls: a retained step is done, any other one starts with the
\* outputs of its dependencies.
Passes(s, c) ==
    IF s \in skip
    THEN /\ task' = [task EXCEPT ![s] = "done"]
         /\ IF s \in reused THEN ReportsReused(s) ELSE UNCHANGED <<node, handed, budget>>
         /\ UNCHANGED <<inp, late>>
    ELSE /\ task' = [task EXCEPT ![s] = "running"]
         /\ node' = Started(node, s)
         /\ inp' = [inp EXCEPT ![s] = Inputs(s)]
         /\ late' = IF c.cancel THEN late \cup {s} ELSE late
         /\ UNCHANGED <<handed, budget>>

Control(s) ==
    /\ phase = "run" /\ task[s] = "wait"
    /\ \A d \in plan.deps[s] : task[d] = "done"
    /\ \/ Exhausted /\ EngineGivesUp /\ UNCHANGED <<ctl, cmds, budget>>
       \/ ~Exhausted /\ CancelSeen /\ EngineCancelled /\ UNCHANGED <<ctl, cmds, budget>>
       \/ /\ ~Exhausted /\ ~CancelSeen
          /\ ctl' = Drain(ctl) /\ cmds' = <<>>
          /\ IF ctl'.paused THEN /\ task' = [task EXCEPT ![s] = "paused"]
                                 /\ UNCHANGED <<inp, panel, budget>>
                            ELSE Passes(s, ctl')
          /\ UNCHANGED <<skip, reused, obs, ver, tries, phase>>
    /\ UNCHANGED <<profile, inline, crashes, ckpt, planStatus, path, plan, clean,
                   replans, stage, events>>

\* Seeded fault: nobody looks at the clock during a pause.
PauseForever == FALSE

PauseTimesOut == Exhausted

\* The pause ends with a resume or a cancel, and with the budget.
PauseEnds(s) ==
    /\ phase = "run" /\ task[s] = "paused"
    /\ \/ PauseTimesOut /\ EngineGivesUp /\ UNCHANGED budget
       \/ /\ (~ctl.paused /\ ~Exhausted) \/ ctl.cancel
          /\ Passes(s, ctl) /\ UNCHANGED <<skip, reused, obs, ver, tries, phase>>
    /\ UNCHANGED <<durable, path, plan, clean, replans, stage, ctl, events>>

-----------------------------------------------------------------------------
(***************************************************************************)
(* _run_with_retries: the execution under the deadline, the attempt row,   *)
(* the checkpoint, the completion.  The semaphore of the engine has as     *)
(* many slots (8) as a plan has steps at most, so nothing waits for it.    *)
(*                                                                         *)
(* The save is best effort and skips an empty output; the completion hook  *)
(* charges the usage, if the step reports any, and checks the budget       *)
(* before it reports, and what it raises is swallowed: the step is done    *)
(* and its node stays open.                                                *)
(***************************************************************************)
Row(s, o) == [step |-> s, v |-> o.v, from |-> o.from, round |-> replans, deps |-> plan.deps]

Output(s, empty) == [v |-> ver[s] + 1, from |-> inp[s], empty |-> empty]

Finish(s) ==
    /\ phase = "run" /\ task[s] = "running"
    /\ task' = [task EXCEPT ![s] = "done"]
    /\ ver' = [ver EXCEPT ![s] = @ + 1]
    /\ tries' = [tries EXCEPT ![s] = 0] /\ inp' = [inp EXCEPT ![s] = << >>]
    /\ \E empty \in BOOLEAN, saved \in BOOLEAN :
          /\ obs' = [obs EXCEPT ![s] = Output(s, empty)]
          /\ ckpt' = IF saved /\ ~empty THEN ckpt \cup {Row(s, obs'[s])} ELSE ckpt
          /\ (saved /\ ~empty) \/ events + replans < MaxEvents
          /\ events' = IF saved /\ ~empty THEN events ELSE events + 1
    /\ \/ Exhausted /\ UNCHANGED <<node, handed>>
       \/ node' = Completed(node, s) /\ handed' = handed \cup {s}
    /\ UNCHANGED <<profile, inline, crashes, planStatus, cmds, skip, reused, phase, path,
                   plan, clean,
                   replans, stage, ctl, budget, late>>

\* An error that may pass, a timeout among them, is tried again once.
Retry(s) ==
    /\ phase = "run" /\ task[s] = "running" /\ tries[s] < plan.retries
    /\ tries' = [tries EXCEPT ![s] = @ + 1]
    /\ node' = IF node[s] = "cancelled" THEN node ELSE [node EXCEPT ![s] = "running"]
    /\ UNCHANGED <<durable, task, skip, reused, inp, obs, ver, phase, path, plan, clean,
                   replans, stage, ctl, budget, handed, late, events>>

StepFails(s) ==
    /\ phase = "run" /\ task[s] = "running"
    /\ task' = [task EXCEPT ![s] = "failed"]
    /\ node' = NodeFails(node, s)
    /\ UNCHANGED <<durable, skip, reused, inp, obs, ver, tries, phase, path, plan, clean,
                   replans, stage, ctl, budget, handed, late, events>>

-----------------------------------------------------------------------------
(***************************************************************************)
(* When every task has ended: a failure goes to the fallback, a success to *)
(* the verifier.                                                           *)
(***************************************************************************)
Settle ==
    /\ phase = "run" /\ \A s \in Ids : task[s] \in {"done", "failed"}
    /\ phase' = IF \E s \in Ids : task[s] = "failed" THEN "fallback" ELSE "verify"
    /\ UNCHANGED <<durable, panel, steps, path, plan, clean, replans, stage, ctl, budget,
                   events>>

\* The rule-based verifier does not judge retained steps again.
TooShort == {s \in Ids \ skip : obs[s].empty}

\* decide_revision, after the verdicts that end the run.
MayRevise == replans < MaxReplans /\ replans < GuardReplans /\ ~Exhausted

MustRerun(flagged) == flagged \cup DownstreamClosure(plan, flagged)

\* revise_plan: flagged steps and everything behind them run again.
Revise(flagged) ==
    IF MayRevise
    THEN LET again == MustRerun(flagged)
         IN /\ phase' = "run" /\ replans' = replans + 1
            /\ skip' = Ids \ again
            /\ task' = [s \in Ids |-> "wait"]
            /\ obs' = [s \in Ids |-> [obs[s] EXCEPT !.empty = FALSE]]
    ELSE phase' = "fallback" /\ UNCHANGED <<replans, skip, task, obs>>

\* Steps to revise: the model's verdict, or that of the rules when there is none to
\* be had.
Verdicts == {TooShort} \cup (IF Exhausted THEN {} ELSE SUBSET Ids)

Verify ==
    /\ phase = "verify"
    /\ \/ \E flagged \in Verdicts :
             IF flagged = {} THEN phase' = "clear" /\ UNCHANGED <<replans, skip, task, obs>>
                             ELSE Revise(flagged)
       \/ ~Exhausted /\ phase' = "fallback" /\ UNCHANGED <<replans, skip, task, obs>>
    /\ UNCHANGED <<durable, panel, reused, inp, ver, tries, path, plan, clean, stage, ctl,
                   budget, events>>

\* _clear_checkpoints, best effort, and the end of a successful run.
Clear ==
    /\ phase = "clear" /\ phase' = "completed"
    /\ ckpt' = {}
    /\ UNCHANGED <<profile, inline, crashes, planStatus, cmds, panel, steps, path, plan,
                   clean, replans,
                   stage, ctl, budget, events>>

-----------------------------------------------------------------------------
(***************************************************************************)
(* The walker: the template of the profile, stage by stage, on a new       *)
(* graph, under the same controls and the same budget.  It neither reads   *)
(* nor writes checkpoints and a crash of it resumes as a crash of the      *)
(* engine that has just given up does, so crashes are left to the engine   *)
(* and the walker's states forget the rows and the crashes.                *)
(***************************************************************************)
Fallback ==
    /\ phase = "fallback" /\ path' = "walker"
    /\ plan' = PlanFor(profile) /\ FreshSteps(plan') /\ ver' = NoVersions
    /\ node' = NewPanel(plan')
    /\ planStatus' = "draft"
    /\ phase' = IF Gated THEN "gate" ELSE "begin"
    /\ ckpt' = {} /\ clean' = TRUE /\ replans' = 0 /\ crashes' = 0
    /\ UNCHANGED <<profile, inline, cmds, stage, ctl, budget, events>>

WalkBegin ==
    /\ phase = "begin" /\ path = "walker" /\ phase' = "control"
    /\ node' = NewPanel(plan)
    /\ stage' = Min(StageNumbers(profile))
    /\ UNCHANGED <<durable, steps, path, plan, clean, replans, ctl, budget, handed, late, events>>

Group == {sp.id : sp \in StageGroup(profile, stage)}

\* The specs of a stage start together; one whose join is not complete is passed
\* over.
Launch(c) ==
    LET go == {s \in Group : Starts(s)}
    IN /\ phase' = "group"
       /\ task' = [s \in Ids |-> IF s \in go THEN "running"
                                ELSE IF s \in Group THEN "done" ELSE task[s]]
       /\ node' = [s \in DOMAIN node |-> IF s \in Group THEN Started(node, s)[s] ELSE node[s]]
       /\ inp' = [s \in Ids |-> IF s \in go THEN Inputs(s) ELSE inp[s]]
       /\ late' = IF c.cancel THEN late \cup go ELSE late

WalkControl ==
    /\ phase = "control"
    /\ \/ Exhausted /\ phase' = "failed" /\ UNCHANGED <<ctl, cmds, task, node, inp, late>>
       \/ ~Exhausted /\ CancelSeen /\ phase' = "cancelled"
          /\ UNCHANGED <<ctl, cmds, task, node, inp, late>>
       \/ /\ ~Exhausted /\ ~CancelSeen
          /\ ctl' = Drain(ctl) /\ cmds' = <<>>
          /\ IF ctl'.paused THEN phase' = "paused" /\ UNCHANGED <<task, node, inp, late>>
                            ELSE Launch(ctl')
    /\ UNCHANGED <<profile, inline, crashes, ckpt, planStatus, skip, reused, obs, ver,
                   tries, path, plan,
                   clean, replans, stage, budget, handed, events>>

WalkPauseEnds ==
    /\ phase = "paused"
    /\ \/ PauseTimesOut /\ phase' = "failed" /\ UNCHANGED <<task, node, inp, late>>
       \/ /\ (~ctl.paused /\ ~Exhausted) \/ ctl.cancel
          /\ Launch(ctl)
    /\ UNCHANGED <<durable, skip, reused, obs, ver, tries, path, plan, clean, replans,
                   stage, ctl,
                   budget, handed, events>>

WalkProduce(s) ==
    /\ phase = "group" /\ task[s] = "running"
    /\ task' = [task EXCEPT ![s] = "done"]
    /\ ver' = [ver EXCEPT ![s] = @ + 1]
    /\ obs' = [obs EXCEPT ![s] = Output(s, FALSE)] /\ inp' = [inp EXCEPT ![s] = << >>]
    /\ node' = Completed(node, s) /\ handed' = handed \cup {s}
    /\ UNCHANGED <<durable, skip, reused, tries, phase, path, plan, clean, replans, stage,
                   ctl, budget, late, events>>

\* Fail fast: what runs beside it is cancelled.  A timeout of the budget is one.
WalkFails(s) ==
    /\ phase = "group" /\ task[s] = "running"
    /\ phase' = "failed"
    /\ node' = CancelRunning(NodeFails(node, s))
    /\ UNCHANGED <<durable, steps, path, plan, clean, replans, stage, ctl, budget, handed, late,
                   events>>

WalkNext ==
    /\ phase = "group" /\ \A s \in Group : task[s] = "done"
    /\ LET rest == {n \in StageNumbers(profile) : n > stage}
       IN IF rest = {} THEN phase' = "completed" /\ UNCHANGED stage
                       ELSE phase' = "control" /\ stage' = Min(rest)
    /\ UNCHANGED <<durable, panel, steps, path, plan, clean, replans, ctl, budget, events>>

-----------------------------------------------------------------------------
(***************************************************************************)
(* People, time and crashes.                                               *)
(***************************************************************************)
Event == phase \notin Final /\ events + replans < MaxEvents /\ events' = events + 1

\* The endpoints record the command, then signal the run if it is in this process.
Send(cmd) ==
    /\ Event
    /\ cmds' = Append(cmds, cmd)
    /\ ctl' = IF inline THEN ApplyCommand(ctl, cmd) ELSE ctl
    /\ UNCHANGED <<profile, inline, crashes, ckpt, planStatus, panel, steps, phase, path,
                   plan, clean,
                   replans, stage, budget>>

\* confirm_plan and update_plan.
Confirm ==
    /\ Event
    /\ planStatus' = "confirmed"
    /\ UNCHANGED <<profile, inline, crashes, ckpt, cmds, panel, steps, phase, path, plan,
                   clean, replans,
                   stage, ctl, budget>>

\* The time budget of this life runs out.
TimeRunsOut ==
    /\ phase \notin Final /\ budget # "timedOut" /\ budget' = "timedOut"
    /\ UNCHANGED <<durable, panel, steps, phase, path, plan, clean, replans, stage, ctl, events>>

\* Tokens and money are charged as the calls of the planner, of steps and of the
\* verifier are heard of; the last of them are spent.
MoneyRunsOut ==
    /\ Event /\ phase \in {"plan", "run", "verify", "group"}
    /\ budget = "left" /\ budget' = "spent"
    /\ UNCHANGED <<durable, panel, steps, phase, path, plan, clean, replans, stage, ctl>>

\* History: the last version of a step that the rows know of.
LastVersion(s) ==
    Max({0} \cup {r.v : r \in {q \in ckpt : q.step = s}}
            \cup {r.from[s] : r \in {q \in ckpt : s \in DOMAIN q.from}})

\* A worker dies and another takes the run: new controls, a new budget.  The panel
\* shows what it did (graph_state and the events of the first life outlive it).
Crash ==
    /\ Event /\ ~inline /\ path = "engine"
    /\ crashes < MaxCrashes /\ crashes' = crashes + 1
    /\ phase' = "plan" /\ path' = "engine" /\ replans' = 0
    /\ ctl' = NoControl /\ budget' = "left"
    /\ FreshSteps(plan) /\ ver' = [s \in StepNames |-> LastVersion(s)]
    /\ clean' = (clean /\ (phase \in {"plan", "gate", "begin"}
                             \/ \A r \in ckpt : obs[r.step].v = r.v))
    /\ UNCHANGED <<profile, inline, ckpt, planStatus, cmds, plan, stage, node>>

-----------------------------------------------------------------------------
Init ==
    /\ profile \in Profiles /\ inline \in BOOLEAN
    /\ phase = "plan" /\ path = "engine" /\ plan = PlanFor(profile)
    /\ task = [s \in Ids |-> "wait"] /\ skip = {} /\ reused = {}
    /\ inp = [s \in Ids |-> << >>] /\ obs = [s \in Ids |-> NoObs]
    /\ ver = NoVersions /\ tries = [s \in Ids |-> 0]
    /\ ckpt = {} /\ clean = TRUE /\ replans = 0 /\ stage = 0
    /\ ctl = NoControl /\ cmds = <<>> /\ planStatus = "none" /\ budget = "left"
    /\ node = [s \in StepNames |-> "none"] /\ handed = {} /\ late = {}
    /\ events = 0 /\ crashes = 0

\* What the loop does by itself, and what the work of a step comes to.
Advance ==
    \/ MakePlan \/ GatePasses \/ GateTimesOut \/ GateCancels \/ Begin
    \/ Settle \/ Verify \/ Clear \/ Fallback
    \/ WalkBegin \/ WalkControl \/ WalkPauseEnds \/ WalkNext
    \/ \E s \in Ids : FailsBehind(s) \/ Control(s) \/ PauseEnds(s)

Error == \E s \in Ids : Retry(s) \/ StepFails(s) \/ WalkFails(s)

Work == Error \/ \E s \in Ids : Finish(s) \/ WalkProduce(s)

People == Confirm \/ \E cmd \in Commands : Send(cmd)

Next == Advance \/ Work \/ People \/ TimeRunsOut \/ MoneyRunsOut \/ Crash

Spec == Init /\ [][Next]_vars

\* Time passes, and an attempt that is still running then times out.
FairSpec == Spec /\ WF_vars(Advance) /\ WF_vars(TimeRunsOut) /\ WF_vars(budget = "timedOut" /\ Error)

-----------------------------------------------------------------------------
(***************************************************************************)
(* Properties.                                                             *)
(***************************************************************************)

\* Every output a completed run is made of was computed from the very outputs
\* of its dependencies that the run is made of (revise_plan reruns everything
\* downstream, apply_checkpoints reuses only what rests on reused steps, the
\* walker's stages follow depends_on).  Left out are runs resumed from rows that
\* mix passes: those of a revised pass, of another plan, or rows an earlier life
\* had passed over and left in the table.
FreshInputs ==
    phase = "completed" /\ clean =>
        \A s \in Ids : /\ obs[s].v > 0
                       /\ \A d \in plan.deps[s] : obs[s].from[d] = obs[d].v

\* A visible cancel stops the run within a layer: a step may slip through
\* respect_controls (when the cancel ends a pause or is drained at that very
\* point), a step that depends on such a one never starts.
CancelStopsNextLayer == \A s \in late : plan.deps[s] \cap late = {}

\* What the panel of a finished run shows.  An engine run that sees a cancel closes
\* every node, those nobody started among them; one that is withdrawn at its gate
\* has shown none yet (a worker hears commands at its first step, so a second life
\* is not withdrawn over the panel of the first).  A completed run has completed
\* every node, whatever was retained, reused, retried or revised in it, but for
\* those whose completion an exhausted budget swallowed, which stay running.  The
\* walker leaves none running.
PanelSettles ==
    /\ phase = "cancelled" /\ path = "engine" => \A s \in Ids : node[s] \in Settled
    /\ phase = "withdrawn" /\ path = "engine" => \A s \in Ids : node[s] = "none"
    /\ phase = "completed" =>
          \A s \in Ids : \/ node[s] = "completed"
                         \/ path = "engine" /\ Exhausted /\ node[s] = "running"
    /\ phase \in Final /\ path = "walker" => \A s \in Ids : node[s] # "running"

\* A pause nobody ends, a gate nobody confirms, a step that hangs, a verifier
\* that never accepts, a failed engine: the run ends all the same.
EveryPlanEnds == <>(phase \in Final)

=============================================================================
