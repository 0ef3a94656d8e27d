# MyGPT: a TLA+ verification of its core logic

MyGPT is a chat and agent platform: a FastAPI backend (`src/backend/app`), a
Next.js frontend (`src/frontend`), PostgreSQL, Redis and a vector store. This
directory holds TLA+ models of its logic, the TLC configurations that check them
and the TLAPS proofs about them. Paths below are relative to `src/backend/app`
unless they begin with `src/`.

## 1. Inventory

| Component | Source | State | Operations | Module |
|---|---|---|---|---|
| Ingestion queue, indexing pipeline | `services/ingestion_queue.py`, `services/document_service.py` | the document row, chunk rows, vector points | upload, enqueue, claim, renew, index, finish, delete | `Ingestion`, `FencedJob` |
| Parsing, splitting, preview | `rag/parsers.py`, `splitter.py`, `chunk_meta.py`, `locator.py`, `preview_render.py` | none | parse, split, anchor, preview | `DocumentText` |
| Run queue, worker, leases, recovery | `agents/workflow/queue.py`, `worker.py`, `repository.py`, `recovery.py` | Redis stream and its pending list (PEL), `run_leases`, `agent_runs.status` | dispatch, dequeue, execute, renew, finalize, scan, requeue, reclaim | `DurableRun` |
| Event stream and its readers | `agents/events.py`, `worker.py`, `api/agent_runs.py`, `src/frontend/src/hooks`, `src/frontend/src/lib` | `run_events`, cursors, the state of panel, chat and graph | append, batch, tail, reconnect, reduce | `RunStream`, `StreamView` |
| Tool loop, approvals, controls | `agents/runtime/native_runtime.py`, `agents/gateway`, `agents/policies`, `agents/approval_*.py` | transcript, budget, approval rows, waiters, breaker, slots | model round, tool call, ask, decide, cancel, pause, continue | `ToolLoop`, `Transcript` |
| Workflow engine and walker | `agents/workflow/engine.py` and beside it, `agents/lifecycle.py`, `agents/run_environment.py`, `agents/runtime/crewai_runtime.py` | plan, step outputs, checkpoints, panel nodes, commands | plan, gate, run, verify, revise, resume, fall back | `PlanExecution`, `Topology` |
| Credits, quotas, codes | `services/credit_service.py`, `services/redeem_service.py`, `quotas.py`, `credits.py` | accounts, ledger, codes, run tickets | admit, hold, settle, release, sweep, redeem, adjust | `Credits` |
| Inline turns, messages, versions | `services/chat_service.py`, `services/message_versions.py`, `services/answer_gate.py`, `agents/intent_router.py`, `api/messages.py` | messages, versions, title, process-local guard, differ | send, regenerate, gate, edit, truncate, switch, rename, delete | `ChatTurn`, `TurnRoute`, `AnswerGate` |
| Files, retention, leader election | `services/attachment_service.py`, `services/stale_job_recovery.py`, `services/retention.py`, `core/leader.py`, `artifacts/service.py` | stored files, their rows, collections, advisory locks | upload, parse, delete, sweep, lead | `Library`, `AttachmentText` |
| Accounts, sessions, gates | `services/auth_service.py`, `api/auth.py`, `core/rate_limit.py`, `core/idempotency.py`, `src/frontend/src/lib/api-client.ts` | token version, blacklist, cookie, calls in flight | login, refresh, logout, change, limit | `Sessions`, `Gates` |
| Retrieval | `rag/rag_service.py`, `rag/query_plan.py`, `rag/fusion.py`, `rag/keyword.py` | none | plan, search, fuse, threshold, cap, assemble | `Retrieval` |
| Model providers | `providers/` | decoder of one stream | send, retry, decode, fall back | `ProviderStream` |
| MCP servers, connectors | `agents/mcp_transport.py`, `agents/mcp_client.py`, `connectors/` | pending requests, open sessions, enabled connectors | call, dispatch, time out, connect, enable | `ToolServers` |
| Workspace patches | `agents/apply_patch.py`, `tools/workspace.py` | files | parse, match, write | `Patches` |
| Line diff of the web client | `src/frontend/src/lib/diff.ts` | none | match, fold, read a patch | `LineDiff` |
| Answers of the writer | `agents/continuation.py`, `agents/streaming_writer.py` | text so far, rounds, blank and transport retries | stream, continue, dedupe, retry, stop | `Continuation`, `Writer` |
| Usage metering, run budgets | `agents/policies/budget_policy.py`, `agents/stage_context.py`, `agents/adapters/llm_adapter.py`, `agents/runtime/stage_executor.py` | guard, usage claimed per model, results | override, count, claim, charge | `Metering` |
| Memory | `agents/memory_service.py`, `agents/memory/`, `api/memories.py` | memories, vector points, anchors of turns | propose, consent, edit, delete, retrieve, commit a turn, sweep | `Memories` |
| Command rules | `agents/exec_policy.py` | a file of rules | load, decide, remember | `CommandRules` |
| Skills; built-in tools; the rest of the frontend; migrations, deployment, evaluations | | text, external effects | | not modelled |

### How the parts interact

*Documents.* The API commits a row in status `pending`. An ingestion worker
polls, claims the row by one conditional UPDATE (lease, owner, attempt count,
claim version) and starts a heartbeat task. `index_document` announces each
stage in the row, replaces the chunk rows (in an open transaction) and the
vectors (visible at once), and commits `indexed`. `finish` closes the claim:
done, retry after a backoff, or failed. Nothing but the row coordinates API and
workers.

*Turns.* A request is admitted by a quota ticket and a credit hold, routed by
rules and a classifier, and executed inline in the API process, or committed as
a run and published on a Redis stream for a worker. Either way the orchestrator
picks a runtime: the native tool loop, or the workflow engine with the walker
behind it. The turn ends in one assistant message, whose text the answer gate
has checked against the evidence, and in one charge.

*Runs.* A worker takes the stream entry (it moves to the worker's PEL), takes the
lease row, executes the turn and acknowledges the entry. `agent_runs.status` is
written by the API, the worker, the orchestrator, the tool runtime,
`persist_terminal_run`, the worker once more, and recovery; none of these
writes is conditional. Recovery has two independent halves: a scan of the
database and `reclaim_stale`, which publishes again the entries nobody
acknowledged in time. The events of a run go to `run_events` in batches; the
web client follows them by a tail that polls the table.

*People.* Approvals, cancel, pause, instructions and plan confirmations are rows
first and Redis signals second; whoever executes the turn polls the rows or
waits for the signal.

*Sweeps.* Loops gated by advisory locks start lost parses again, remove files
and collections nobody owns, and return stale credit holds.

### What is hard

`PROJECT.json` lists the hazards with their lines and the properties that watch
them. They are of six kinds.

- *A lease is time, a process can be late.* A wedged worker wakes up with its
  claim gone, a slow parse looks abandoned, a leader has lost its lock.
- *Reads before writes.* Run status, approval rows, versions, token versions and
  the ledger are read, computed on and written later, by several writers.
- *Two stores, no transaction.* Stream and database, file and row, vectors and
  chunk rows, collection and knowledge base; a crash falls in between.
- *Waiting.* For a slot, a person, a provider, a resume, a refresh another call
  has begun; something must end every wait.
- *Late and lost messages.* An event stream that is cut inside a frame, a `done`
  that comes after a stop, an approval signal nobody receives.
- *Long sequences.* Compaction, trimming, continuation, revision and resume each
  keep an invariant of the transcript or the plan that the next one relies on.

### What makes each part correct

- Ingestion queue: a claim is an identity; whoever is no longer the claim's
  owner does not write the row; every queued document ends; an indexed document
  has chunks and vectors of exactly one claim.
- Runs: an accepted run is not forgotten and reaches a final status; retries are
  bounded.
- Event stream: a cursor hides nothing; a reply shown as complete is whole, and
  no other follows it; nobody keeps a spinner.
- Tool loop: dangerous tools run with the consent given for them; the budget
  holds; every prompt answers every call; the turn ends.
- Workflow: a result rests on the very outputs it was computed from; a cancel
  stops the next layer; the panel of a finished run shows what became of its
  steps; the run ends.
- Credits: account and ledger agree; a code pays once; debt is bounded by what
  may run at once; a hold comes back as long as the sweep can find it.
- Inline turns: no request replaces or deletes a text it has read without keeping
  a version of it; the stored answer stands on sources that hold.
- Files: a sweep spares what is owned, and what nobody owns goes.
- Sessions: calls of one tab do not sign each other out; a password change that
  overlaps no other ends every session.

## 2. Modules

| Module | Contents |
|---|---|
| `FencedJob`; `Ingestion`, `MCIngestion` | the abstract queue; documents, workers, pipeline, API; its instance |
| `Ingestion_proofs` | types and fencing; consistency of the index; the refinement |
| `DurableRun`, `MCDurableRun`, `DurableRun_proofs` | API, stream, workers, leases, recovery; types, retries, lost runs |
| `StreamView`, `RunStream`, `MCRunStream`, `RunStream_proofs` | parser, reducers and tail rules; workers, log, tail and one reader; cursors, complete replies, one message |
| `Transcript`, `ToolLoop`, `MCToolLoop`, `ToolLoop_proofs` | messages, compaction and trimming; one turn of the native runtime; consent, budget, slots, whole prompts |
| `Topology`, `PlanExecution`, `MCPlanExecution`, `PlanExecution_proofs` | plans, graphs and checkpoints; one multi-agent run; freshness, cancel, panel |
| `Credits`, `MCCredits`, `Credits_proofs` | ledger, holds, tickets and redeem codes; the books, codes and the bound on debt |
| `TurnRoute`, `AnswerGate`, `ChatTurn`, `MCChatTurn`, `ChatTurn_proofs` | routing; the gate on answers; the inline turns of one conversation; what is kept, what an answer stands on |
| `AttachmentText`, `Library`, `MCLibrary` | what an attachment contributes to a prompt; files, rows and sweeps |
| `Gates`, `Sessions`, `MCSessions`, `Sessions_proofs` | rate limits, codes, markers; one user's session; who stays signed in, what a change ends |
| `Retrieval` | from a question to the evidence in a prompt |
| `DocumentText` | from a file to chunks, anchors and previews |
| `ProviderStream` | from frames of a provider to deltas, calls and errors |
| `ToolServers` | from frames of an MCP server to answers; connectors |
| `Patches` | from a patch to the files written |
| `LineDiff` | from two texts, or a patch, to numbered rows |
| `Continuation`, `Writer` | where a cut answer is continued; the rounds of the step that writes the answer |
| `Metering` | limits and their overrides; who charges the tokens of steps that share a model |
| `Memories` | consent, points and retrieval; the write at the end of a turn |
| `CommandRules` | from a file of prefixes to a decision on a command |

Two forms occur. A component with processes is a state machine with actions, an
MC module and runs. A pure algorithm is a module of operators; what it promises
is stated as assumptions over every small input (`ASSUME`) in the MC module of a
run of the part that uses it, and TLC evaluates them at the start of that run:
`DocumentText` in `MCIngestion`, `Memories` in `MCDurableRun`, `Continuation`,
`Writer` and `Metering` in `MCPlanExecution`, `ProviderStream`, `ToolServers`,
`Patches` and `CommandRules` in `MCToolLoop`, `Retrieval` in `MCCredits`,
`TurnRoute` and `AnswerGate` in `MCChatTurn`, `AttachmentText` in `MCLibrary`,
`Gates` and `LineDiff` in `MCSessions`. Definitions headed "Seeded fault" are plausible bugs that
replace a definition of the model in a mutant of `PROJECT.json`; no
specification uses them. The map of `PROJECT.json` lists definitions that stand
for code of their own; a small helper stands for lines of the definition that
uses it.

### `Ingestion`

`row[d]` is the Document row: `status`, `error_message` (as the kind of the
failure), `ingest_lease_expires_at` (ticks left; 0 is no lease or an expired one),
`ingest_claimed_by`, `ingest_attempts`, `ingest_claim_version`,
`ingest_next_retry_at` (`due`). `chunks[d]` and `vectors[d]` are the chunk rows
and points of the document, represented by the claim version that produced them.
`wk[w]` holds the locals of one `IngestionWorker`: the program counter in
`_execute`/`index_document`/`finish`, the claim it quotes, the outcome, whether
its heartbeat task is alive, and the uncommitted part of its session (`open`,
`deleted`).

| Action | Code |
|---|---|
| `Upload` | `document_service.upload` |
| `Enqueue` | `ingestion_queue.enqueue`, reached from reindexing |
| `BeginDelete`, `EndDelete` | `document_service.delete`: vectors first, then the rows in one transaction |
| `Claim` | `claim_job`: candidate SELECT and the UPDATE with the same predicate |
| `Renew` | `renew` called by `_heartbeat`; a lost lease ends the heartbeat only |
| `WriteProgress` | the first three `_write_progress` calls |
| `ClearExisting` | `_clear_existing` and the insert of the new chunk rows |
| `Upsert` | embedding and `store.upsert` |
| `WriteIndexed` | the last progress write, which commits the chunk rows |
| `Raise`, `WriteFailed` | an exception in the pipeline, its except branch, and an exception in that branch |
| `FinishRead`, `FinishWrite` | the SELECT of `finish` and its guarded UPDATE |
| `Crash`, `Tick`, `RetryDue` | process death, clock, backoff |

The database's own guarantees are used where the code uses them: the claim's
UPDATE re-evaluates its predicate under the row lock, so SELECT and UPDATE are
one step; `EndDelete` waits for the foreign-key lock of an uncommitted chunk
insert. Batches of `store.upsert` are one step: a partial upsert ends in the
except branch or a crash and is replaced by the next claim in the same way.
`reset_attempts=False` and a `finish` without a claim version are never used by
the code under `src/` and are left out.

`FencedJob` is what remains of the queue without leases in ticks, stages and
stores: a job has a phase, a number of claims so far and may be held; a claim
takes an unheld job under a new number, the worker of the newest number reports
and closes, a hold that lapsed never comes back. `Ingestion` names it `Queue` and
maps the row's status to the phase, the claim version to the number, a live lease
to the hold and a worker's locals to its claim; `ImplementsFencedJob` is the
refinement. The abstract queue promises no more than the code gives: a job asked
for anew after its hold lapsed may still be closed by the claim that lapsed.

### `DurableRun`

`status[r]` is `agent_runs.status`; `lease[r]` the `run_leases` row (the id tells
a renewed row from one inserted later, `live` is "not expired"); `stream[r]` and
`pel[r][w]` count the entries of the run that are undelivered and delivered but
unacknowledged; `retries[r]` counts the `recovery.requeued` events; `answer[r]`
says that the assistant message is final. `wk[w]` are the locals of
`RunWorker._process` with the turn it drives (`seen` is the status loaded by the
ORM before a write, `lost` the flag of the renewal loop), `sched[s]` those of a
scan (`todo` the candidates with the lease ids seen, `seen` and `count` what
`_reconcile` has read).

| Action | Code |
|---|---|
| `Submit`, `Enqueue` | `create_and_enqueue_durable_run`: commit, then `RedisStreamQueue.enqueue` |
| `CancelRead`, `CancelWrite` | `cancel_run` |
| `Dequeue`, `Check`, `Acquire` | `dequeue`, `_process` step 1, `LeaseStore.acquire` |
| `Load`, `Start` | `run_durable_turn` with its refusals, `ChatOrchestrator.stream` |
| `AskApproval`, `ApprovalOver` | `_set_run_status` around `approval_coordinator.wait` |
| `Finish`, `PersistTerminal` | `persist_terminal_run`: its read and its write |
| `Settle` | the done and error branches of `run_durable_turn` |
| `CancelSeen` | `CancelledError` of the workflow engine, `run_durable_turn`'s handling of it |
| `EventlessExit`, `LeaseFence` | a turn that ends without a terminal event; the lease check of `_process` |
| `Close`, `CloseCommit`, `Ack` | `_finalize_success` (load, commit), `ack` |
| `Raise`, `Crash` | an exception that reaches the worker (`_abandon_to_recovery` after the lease), process death |
| `Renew`, `RenewalDies`, `Expire` | `_renewal_loop`, `LeaseStore.renew`, the clock |
| `Scan`, `ReconcileRead`, `ReconcileCommit`, `Requeue`, `ScanEnd` | `RecoveryScheduler.scan` and `_reconcile` |
| `Reclaim` | `reclaim_stale` |
| `SchedCrash` | a recovery process that dies in mid-scan |

Every read of the status that a later write relies on is a step of its own. Each
call of `LeaseStore` (SELECT and write of one row) is one step, and so are the two queries of a
scan. A unique violation of two concurrent first acquires is one
of the outcomes of `Raise`. `SetStatus` models what SQLAlchemy sends: a column
whose value equals the loaded one is not part of the UPDATE. The status `paused`
is read by the code and written by none, so it does not occur. An API process
that dies between commit and publish has the effect of the `redis` fault of
`Enqueue`. An in-process cancel (a task registry of the API process) cannot reach
a turn in the worker process, so a cancel is the status write and, for a
multi-agent turn, the command that `respect_controls` takes out of the database
(`CancelSeen`): the turn is closed as cancelled, and its `CancelledError`, which
`_process` and `run_once` do not catch, ends the worker process with its lease
and its entry. A cancel that `persist_terminal_run` has seen survives, whichever
way the turn ended but by an error (`Verdict`).

### `RunStream`, `StreamView`

`log` is the `run_events` table of one run, its index the sequence; `status`,
`saved` and `lease` are the rows workers and recovery write; `worker[w]` is a
worker with its buffer and the maximum it read before it inserts a batch.
`conn` is the tail of `tail_run_events` with both ends of its socket (`sent`,
`got`), `panel` the reducer of the durable panel with its cursor, `turn` and
`phase` the chat hook, `graph` and `poll` the graph store. A behaviour follows
one reader: the tail only reads, so readers do not meet. Actions are the
handlers: `Yield`, `PersistBatch`, `FlushInsert`, `LeaseFence`,
`AbandonToRecovery`, `AppendTerminal` and `PersistTerminal`, `Reconcile`;
`PollEvents` and `PollStatus`, the two statements of the tail; `PanelReceive`,
`PanelDrop`, `PanelRefresh`; `ChatReceive`, `ChatDrop`, `ChatStop`, `Reattach`,
`ChatLeave`; `GraphPoll` and `GraphAnswer`. `StreamView` holds what they call:
the frame parser, the reducers with the texts that `replace` and a corrected
validation put in place of what was streamed, the end rules of polls and
reconnections. A stop ends the stream at once and asks the server to cancel; that
request arrives later, or never (`CancelArrives`). `Reattach` adopts a run that
executes whenever nothing streams, whatever ended the turn before: after a lost
socket or a stop a second turn is rebuilt from sequence 0. Runs that end in an
error event of the runtime are not among the scripts.

### `ToolLoop`, `Transcript`

One turn of `NativeRuntime.run` with its program counter `pc`: head of a round,
admission (trimming, compaction, breaker), waiting for a slot, streaming,
folding a round into `working`, tools, approval, continuation, the exits.
`guard` is the `BudgetGuard`, `rows` the `ToolApproval` rows, `waiter` the
coordinator's future, `desk` API decisions between their read and their write,
`bus` the signals under way in Redis, `breaker`, `free` and `others` what it
shares with other turns. `ran`, `agreed` and `sent` are history. A tool call is
a name with its arguments; what is wrong with it, how large its result is and
how many tokens a round costs are choices. The summariser that compaction awaits
is one provider call more, counted by no budget and outside the deadline of the
round; `Admit` takes it to answer or to fail within the read timeout of the
client. The quota of distinct tools is the set in Redis; the set a process keeps
when it cannot reach Redis is left out, and no property rests on the quota.

### `PlanExecution`, `Topology`

`task`, `obs`, `inp` and `ver` are the tasks of the engine with the versions of
their outputs and inputs, `ckpt` the checkpoint rows, `cmds` and `ctl` the
commands before and after they are drained, `node` the panel. `path` is the
engine or, after `Fallback`, the walker. A life ends by `Crash` and the next
one begins from the rows; the panel (`AgentRun.graph_state`) outlives the crash
until the next life draws its own (`NewPanel` of `Begin`). A load of checkpoints
that fails, an output that is empty and a save that fails are events: the first
resumes nothing, the others leave no row. `budget` is what `guard.check` says in
this life, `left`, `spent` (tokens or money) or `timedOut`. The completion hook
charges and checks before it reports, and what it raises is swallowed, so that a
step may be done while its node still runs (`Finish`, `ReportsReused`). What a
step says is a version number; which versions it was computed from is all the
properties need. `Topology` holds profiles, plans, dependency closures and the
graph drawn from a plan.

### `Credits`

`books` are committed ledger and accounts; `tx[t]` the account row a session
loaded, `lock` its row lock: every posting is load, lock with re-read, and
commit, so that two sessions interleave. Holds, settlement, tickets, codes and
the sweep (`SweepScan`, `SweepRelease`) are separate actions of separate actors.
The sweep reads a batch of old holds, in no order and with the released ones
among them, and `SweepRelease` writes one entry for each that is due on the
account it has locked (`Releases`, `Due`). When Redis fails, a turn is admitted
by the memory of its process (`StartBlind`, `CountBlind`); a ticket may lapse
under the turn that holds it (`TicketLapses`). `stray` is history: the turns
that ran beside the shared set of tickets in one of these ways. `drawn` is
history too: what administrators and speech requests took from a user.

### `ChatTurn`, `TurnRoute`, `AnswerGate`

`msgs` and `versions` are the committed rows, a text is a stamp with the claims
it makes; `guard` and `differ` are dictionaries of one replica; `turns[t]` is a
`ChatService.stream` in its phases (begin, retrieve, generate, finish, title).
Routes, regeneration (`ReadTail`, `DropTail`), refusal, interruption, disconnect
and crash are actions; `EvidenceChanges` edits or hides a source under a turn.
An edit, a switch of version and a truncation read their rows (`EditMessage`,
`ActivateVersion`, `TruncateAfter`), await the snapshot with its prune, and write
and commit later (`FinishEdit`, `FinishTruncate`, or `FailEdit`); `edits` are the
requests in between, and any number of them overlap, with each other and with
the turns. `Overrun` are the texts such a commit destroys because they were
committed after its read. Versions are ordered by their commits; the code numbers
them at the flush, so that two that overlap may be numbered the other way round.
Generation is merged into `Finish`: what a model writes is chosen when it is
stored. `TurnRoute` is the routing table, the classifier's fallback and the
scope of knowledge bases, `AnswerGate` the checks on claims and citations.

### `Library`, `AttachmentText`

`file[i]` and `row[i]` are the two stores; `request[i]`, `conv` and `kb` the
requests between their steps; `task` the parses in flight by process and
starter; `lock` and `leads` advisory locks and who believes to hold them;
`sweep[p]` a retention pass with the references it has read. A tick of
`requeue_stale_jobs_once` puts a batch of at most `MaxRequeue` stale rows, chosen
in no order, back to pending and starts the parse of one of them only: `_spawn`
creates the task and then raises (`add_done_callback` with two arguments,
`services/stale_job_recovery.py:213`), which ends the tick. A leader whose probe
raises keeps the connection with its lock, until that is gone (`ProbeFails`,
`ConnectionGone`). Faults are crashes of processes and parses, lost locks, failed
deletes and commits, and slow parses. A pass and a request are
shorter than the day a file is spared for. `Reject` merges a wrong signature
and an artifact over its cap.

### `Sessions`, `Gates`

`pairs` are the token pairs ever minted, `dead` the blacklist, `cookie`,
`access`, `call` and `flight` the browser: one jar, an access token per tab,
the calls of a tab and its shared refresh promise. Refresh, login and the
three writers of `token_version` read in one step and act in another. Tokens
from before the `ver` claim existed, which pass every check of the version until
they expire, are left out. A refresh may break or hang until its timeout.

### Pure modules

`Retrieval`, `DocumentText`, `ProviderStream`, `ToolServers` and `Patches` keep
their program's control as operators: rank positions, thresholds and caps of
the retriever; blocks, separators and offsets of texts; frames of streams and
their error paths; hunks and their places. Numbers that only scale are small
integers, texts are short sequences of symbols.

## 3. Runs

Symmetry is used for interchangeable processes, in runs of safety properties
only. `CHECK_DEADLOCK FALSE` everywhere: when jobs are settled and the bounded
requests and faults are used up, nothing is left to do.

| Run | Question | Bounds |
|---|---|---|
| `ingest_fencing` | is the claim version an identity, does a superseded worker stay off the row, does the queue implement `FencedJob`? `TypeOK`, `ClaimIdentity`, `LiveLeaseExcludes`, `NoZombieWrite`, `ImplementsFencedJob` | 2 workers, 3 claims, one request; leases may run out under a live worker, which is how a claim is superseded here, and vector deletes may fail; crashes are in `ingest_settles` and, with any number of them, in the theorems |
| `ingest_settles` | while heartbeats come in time: has an indexed document one generation of chunks and vectors, does every queued document end? `IndexConsistent`, `EveryJobSettles` | 2 workers, 2 crashes, 2 requests, 2 attempts; the vector store answers |
| `durable_retries` | are retries bounded? `TypeOK`, `RetryBudget` | 2 schedulers, 1 worker, any 2 faults of every kind |
| `durable_settles` | is no pending run forgotten, does every run end? `NoLostRun`, `EveryRunSettles` | 1 worker, 2 faults of 8 kinds |
| `run_stream` | what do panel, chat and graph show of a run whose workers and sockets fail? `CursorFaithful`, `CompleteMeansWhole`, `OneMessagePerTurn`, `ChatSettles`, `PanelLearns`, `GraphConverges` | 2 workers, batches of 2, one retry; an answer of one token in the chat, and a run of the panel with an approval, meet one fault and one act of the user or the network; an answer of two tokens and a run of the graph meet one of the two; an answer that is withdrawn, replaced or corrected meets neither |
| `tool_loop` | consent, budget, whole transcripts and an end for every turn: `TypeOK`, `ConsentedOnly`, `BudgetHolds`, `EveryCallAnswered`, `EveryTurnEnds` | two tools, four calls, seven batches, 2 rounds, 1 slot, 2 events of people and faults |
| `plan_execution` | fresh inputs, cancel, panel and end of a multi-agent run: `FreshInputs`, `CancelStopsNextLayer`, `PanelSettles`, `EveryPlanEnds` | one profile and a proposed plan, 1 replan, 1 crash, 3 events (commands, crashes, failed loads, failed or empty saves and replans together) |
| `credits_ledger` | `TypeOK`, `LedgerReconciles`, `CodesPayOnce`, `DebtBounded`, `EveryHoldReturns` | 2 users, 2 inline turns and a durable one, 1 code, batches of one in the sweep, 2 events and one crash more |
| `chat_turn` | is no text lost that was read, does the stored answer stand? `HistoryKept`, `AnswerStands` | 2 replicas, 2 turns, 2 chunks, 1 fault, caps 1 and 2; a turn counts two and a request of the user or a change of evidence one, at most 5 together and at most 3 of the latter |
| `library` | do the sweeps spare and reclaim, does every upload settle? `SweepSpares`, `UploadsSettle`, `OrphansReclaimed` | 2 attachments, 1 artifact, 2 processes of which one takes requests and leads at first, batches of one, 2 requests, 1 fault |
| `sessions` | `StaysSignedIn`, `ChangeEndsSessions`, `CallsSettle` | 2 tabs with 2 calls each, 3 operations, 1 refresh that breaks or hangs |
| `chat_instructions` (violation) | do the instructions in force reach every prompt? `InstructionsReach` | 1 replica, 2 turns, no requests beside them |

Why the bounds are enough.

- *Ingestion.* Two documents share nothing but a worker that keeps no state
  between jobs. Fencing is about pairs of claims: with three versions there are
  a superseded claim, the one that superseded it and one still to come, and two
  workers are the two sides of each race; the theorems of section 5 remove the
  bounds. `MaxVersion` of `ingest_settles` exceeds what the requests, crashes
  and attempts can consume.
- *Runs.* `MaxRetries = 1` makes the last free retry and exhaustion happen. Two
  faults are what a crash with a second failure needs.
- *Streams.* A second worker, a batch larger than one event and a socket that
  breaks between `sent` and `got` give every order of two writers and a reader.
- *Tool loop.* Two batches in a row, a budget of two rounds and two tools, one
  distinct tool and a window that overflows make every exit of the loop happen.
- *Plans.* Two workers run two steps of a layer side by side; one crash and one
  replan give the resume and the revision; a third event lets a save fail, a load
  fail or a command come beside both.
- *Credits.* One slot with two turns of one user exhausts the tickets; one
  credit of bonus and of reserve empties the account at the first hold. With
  batches of one two old holds are more than the sweep takes, so that its
  starvation is reached; two events and the crash are a turn, a second one or a
  fault at its admission, and its death.
- *Chat.* Two replicas are what makes the process-local guard insufficient; the
  caps of one and two versions make pruning happen. Two turns with a request
  between their steps, and a turn with three requests whose reads and commits
  overlap, are the largest cases; a request is a pair of steps, and two of them
  make every order of reads and commits. `HistoryIsKept` removes the bounds.
- *Library, sessions.* Two attachments are what a tick that starts one parse must
  choose from; two processes may both lead; two calls of one tab and a second tab
  are the two ways to share a refresh.

What the passing runs do not claim:

- `IndexConsistent` is for `Stalls = FALSE`: when a lease runs out under a live
  pipeline, two pipelines write vectors at the same time and the loser's points
  stay: `_ClaimLost` can roll back the session, not the vector store.
- `durable_settles` has one worker. With two, recovery and the stream reclaim
  publish a crashed run once each and both entries are executed; a turn longer
  than `RUN_STREAM_CLAIM_IDLE_SECONDS` may pass back and forth for ever, and an
  acknowledgement takes away an entry just delivered to the other worker. A
  failing Redis or a scheduler that dies in mid-scan strand a pending run.
- `RetryBudget` says what two processes that both lead would cost: one retry
  for each. A cancel between the read and the write of `persist_terminal_run`
  is overwritten; a turn refused before it starts ends as a completed run. That
  recovery leaves a lease alone that was renewed or taken over since its scan is
  not claimed, because it does not: the row keeps the id by which it is deleted
  (`agents/workflow/recovery.py:159`).
- `CompleteMeansWhole` is for runs executed once whose batches were stored
  (`clean`), and the whole answer is what the runtime said less what a refusal
  withdrew or another text replaced. `OneMessagePerTurn` permits a second message
  after one that a stop or a lost socket cut off: the page adopts the run, which
  still executes, and shows both until it fetches the conversation again.
- `FreshInputs` is for lives that start from rows of one plan and one pass.
  `PanelSettles` excepts, in a completed run of the engine, the nodes of steps whose
  completion an exhausted budget swallowed: they stay running.
- `DebtBounded` allows one charge more for each turn that ran beside its ticket:
  admitted on the memory of one process while Redis failed
  (`quotas.py:296-325`), or longer than the ticket lives.
- `EveryHoldReturns` excuses a ledger with more old holds than one batch of the
  sweep. The query (`services/credit_service.py:405-418`) neither orders the holds nor
  leaves out the released ones, which the ledger keeps, so that it may read the same
  batch for ever; without the excuse TLC finds the starvation in this very run.
- `HistoryKept` leaves out a text a request overran without having read it: of two
  overlapping edits of one message (`api/messages.py:143-159`) the text the first commits
  is lost, and so is a text committed between the read and the delete of a
  truncation or a regenerate (`services/chat_service.py:704-710`), against the first
  invariant that `services/message_versions.py:5` states. `AnswerStands` leaves out answers
  whose schema does not hold, which the code returns as they are.
- `UploadsSettle` rests on the attachment a tick picks settling: one whose commit
  fails at every try could be picked by every tick, since the batch
  (`services/stale_job_recovery.py:175`) has no order, and starve the others.
- `StaysSignedIn` is for one tab: two tabs that refresh one cookie at once sign one
  of them out. `ChangeEndsSessions` holds until two changes overlap: the later one
  commits the version it computed from an old row, which may bring old tokens back.

The violation `chat_instructions` is the one finding kept as a run: the
enrichment of a turn appends only the fragments that changed since the previous
turn of the process to a prompt that is assembled anew, so from the second turn
on a mode's behaviour, the project instructions and the answer format are
missing (`agents/world_state.py` calls this a superset). Other disagreements of
code and comments that the models show are notes of the hazards in
`PROJECT.json`.

### What the assumptions about pure modules show, and what they had to leave out

- `TurnRoute`: routes are sound, the classifier falls back, inline and durable
  turns scope knowledge bases alike as long as nothing changes hands.
- `AnswerGate`: delivered citations are of this request. `AttachmentText`:
  tenants are apart, the text of files fits. `Gates`: limits, codes and keys
  hold; a wrong guess counts for every purpose of an address.
- `Retrieval`: the citations number what the model reads; an ISO month out of
  range, or an enormous count of days, raises before this point.
- `DocumentText`: splitting loses nothing. A chunk whose last separator was
  appended anew is not found again and stays without an anchor; an overlap that
  repeats earlier words may be anchored too early.
- `ProviderStream`: replies are whole unless the body is cut before a reason;
  a Hermes run whose event stream fails is performed again by chat.
- `ToolServers`: a request ends once. A line the reader cannot take leaves the
  transport open and deaf; no code in `src/` reconnects it.
- `Patches`: a patch applies as a whole in memory. A failed write leaves the
  files before it written, a moved file's old path stays, and a line that looks
  like an unknown header cuts the rest off.
- `LineDiff`: with or without its limits the rows are both texts with their own
  line numbers; within the limits the diff is a shortest one; a fold hides
  unchanged rows only; a patch is read back into the rows it was written from.
- `Writer`: a continued answer repeats nothing that the overlap shows, the
  rounds are bounded, and whatever was shown is what is stored. After a stop at
  most one more dispatch follows, that of a blank answer's retry.
- `Metering`: overrides only lower; the guard never counts backwards. The walker
  charges each token of steps that begin together once. The engine charges the
  tokens of a completed step a second time where the model keeps a count:
  `agents/orchestrator.py:537` reports a completed step without `usage_charged`,
  while `agents/run_environment.py:288-289` says that it must not be charged
  twice. A step that begins while another of the same model has called it may
  claim, and charge, the other's tokens again; a revised step's first usage is
  missing in the account at the end.
- `Memories`: only what its owner consents to reaches a prompt, under the text it
  has now; a turn writes its candidates once, whoever ends it. Points of
  inactive or deleted memories are dropped after the search has cut, so that they
  may crowd out an active memory; an edit may give two memories one text, which
  can then be proposed no more. A sweep redoes the last turn of a conversation
  only, before that turn is over if it comes early, and in mode `expert`: a
  Hermes turn swept first writes candidates, which
  `agents/memory/sweeper.py:122-124` takes for impossible.
- `CommandRules`: allowed is what a concrete rule or the default allows; a
  remembered approval decides only commands that no rule decided, hence none
  behind a rule that asks; a rule that forbids by a wildcard is dropped.

## 4. Fairness

Processes run on, time passes, and nothing makes a user ask, a process crash or
a socket break.

- `Ingestion`: the clock, the backoff, a claim of each document by some worker
  (the poll loop never stops and takes the oldest row), the second half of a
  delete, the pipeline of each worker as a whole (every provider call has a
  timeout). None of heartbeats.
- `DurableRun`: publication by a live API process, the clock, dequeuing, each
  worker's turn as a whole, the renewal task, the scan loop; strong fairness of
  `Reclaim` per entry, since a scheduler is busy with scans in between.
- `RunStream`: each worker, recovery, the tail, and the browser's event loop (one
  condition for panel and chat together: the loop of the tab runs both).
- `ToolLoop`: the turn and the deadline of the run. Nobody decides, resumes or
  frees a slot by fairness: `EveryTurnEnds` rests on the deadline alone.
- `PlanExecution`: the event loop, the time budget, and an attempt that times
  out once the budget is over.
- `Credits`: each turn, six hours passing, the sweep (a scan or a release).
- `Library`: requests, the parses of each attachment, restarts, the clock, each
  loop; a leader that lost its lock finds out at its next probe, and a connection
  nobody holds any more goes in the end.
- `Sessions`: each tab. `ChatTurn` has safety properties only.

## 5. Proofs

The theorems hold for every value of the constants that satisfies the named
assumption of the module: `IngestionAssumption` (a set of documents, workers
different from `NoWorker`, positive lease and attempt bounds),
`DurableRunAssumption` (a nonempty finite set of schedulers, workers different
from `NoOwner`, natural bounds), `SessionsAssumption` (natural bounds),
`CreditsAssumption` (finitely many turns, a positive cap, positive prices,
natural limits), `TranscriptAssumption` (a window larger than what is reserved
in it), `ToolLoopAssumption` (positive limits of the budget, the breaker and
the slots, a flaw for each call, batches of calls with the empty one),
`TopologyAssumption` (a natural number of workers), `PlanExecutionAssumption`
(profiles out of the five declared ones, proposed plans that give the
dependencies of each of their steps, natural limits), `RunStreamAssumption`
(readers that the model has, a positive batch size, scripts of events a runtime
yields) and `ChatTurnAssumption` (finitely many chunks, caps of which the one of
a message is positive and at most the one of a conversation, well-formed
answers). The
bounds on requests, crashes, versions, faults and events are arbitrary
naturals, so no proof uses that they are small.

`Ingestion_proofs`:

- `TypeCorrect`: `Spec => []TypeOK`.
- `FenceInvariant`: `Spec => []FenceInv`, the inductive invariant: types,
  `ClaimIdentity` and `LeaseNamesHolder`. The last is `LiveLeaseExcludes` without
  its condition that the document exists; with that condition, and without the
  bound on the quoted versions in `ClaimIdentity`, the conjunction is not
  inductive: a claim takes the version after the row's, which is new only if
  nobody quotes a version beyond the row's.
- `ClaimsAreIdentities`, `LeaseExcludes`: the two invariants, from `FenceInv`.
- `VersionsGrow`: `[][...]_vars`, from the type invariant.
- `ZombiesWriteNothing`: a step of a worker whose claim was superseded leaves
  every row as it is, by cases over the worker's actions.

- `QueueImplementsFencedJob`: `Spec => ImplementsFencedJob`. The mapping is as in
  the instance `Queue`; the proof takes `FenceInv` and two facts more, that a
  worker without a claim quotes no version and that a document under deletion
  still has its row. `RowWrite` and `WorkerWrite` say what one write of a row or of
  a worker is for the abstract queue; one lemma per action (`...Refines`) names
  the abstract step: an enqueue is `Request`, a claim `Take`, the tick that ends a
  lease `Lapse`, a progress write `Move`, the guarded UPDATE of `finish` `Close`
  or, when the claim is an old one, `Leave`; a renewal and the writes of the two
  stores leave the abstract queue as it is.

- `IndexStaysConsistent`: `Spec => []IndexConsistent`, assuming `~Stalls` and
  `~StoreFaults`. `IndexConsistent` speaks of documents nobody works on, so the
  invariant `IndexInv` says what a worker in mid-pipeline has done to the stores:
  every worker active on an existing document holds its lease, hence is alone on
  it; before the upsert the vectors are gone and the old chunk rows are
  marked for deletion, after it the vectors are its own, and an indexed document
  has its worker in `finish` with both stores of its generation. One lemma per
  action (`...Keeps`), each reduced by `WorkerStepKeeps` to the worker's own document.

`DurableRun_proofs`:

- `TypeCorrect`: `Spec => []TypeOK`.
- `RetriesBounded`: `Spec => []RetryBudget`. The bound itself is not inductive:
  a scheduler that has read the counter below the limit may still add one. The
  invariant counts them: `retries[r] + |Spending(r)| < MaxRetries + |Schedulers|`
  for every run, where `Spending(r)` are the schedulers between the read and the
  commit that saw a free retry. It needs facts about cardinalities
  of finite sets, which are lemmas of the module.
- `RunNotLost`: `Spec => []NoLostRun`, assuming `OneWorker` (at most one) and
  `Published` (neither the fault `redis` nor `sched`). Both are what the code
  needs. Recovery scans executing runs only, so a pending run whose publication
  failed, or was left to a scheduler that died, stays pending. With two workers
  TLC finds a loss of 17 states: the lease of the first stalls and its turn is
  rejected; a scheduler reads the run as running, the first worker closes it as
  completed, the scheduler writes `pending` and publishes; the second worker
  takes the entry, the acknowledgement of the first clears the entries of every
  consumer, and the second fails before it has a lease. `NoLostRun` asks only
  whether somebody still names the run. The invariant says who: a pending run is
  to be published again (`Republished`), or whoever is on it is at the check or
  about to acquire it, with its entry unacknowledged (`Expected`). A run not
  yet submitted is named by nobody (`AllUnborn`), and a live lease has a row
  (`LiveOwned`).

`RunStream_proofs` (any number of workers, any scripts, batch size and retry
budget, any faults):

- `CursorIsFaithful`: `Spec => []CursorFaithful`. The log is only appended to and
  what the socket has delivered is in it (`WireInLog`); the cursor stored for a
  refresh is the one of the state, and a subscription of the panel goes on where it
  stands (`CursorStands`).
- `CompleteIsWhole`: `Spec => []CompleteMeansWhole`. A log may hold, besides what the
  runtime yields, rows of recovery and of the worker, so the events that came out of the
  runtime are counted from the front (`Loud`, `Count`): the log is `Straight` up
  to a place if they are the script so far. As long as one execution stores all
  its batches, a batch goes on where the log stops (`Follows`), unless it was numbered
  from a maximum that another row has overtaken; that insert is `Doomed`, and
  ends the clean run. What the chat has read of a straight log is what the
  script says so far (`ChatReads`), and a completed turn was completed by a `done`
  of the log (`CommitFrom`).
- `OneMessage`: `Spec => OneMessagePerTurn`. Within a turn the steps of the chat do
  not touch the message once it is entered. That no adoption follows a `done` needs
  the other side of the socket: `Over` says that as long as the status is not
  final no worker is beyond its terminal commit and the log has no `done`, so that
  a run whose `done` completed a turn is not found in execution again.

`ChatTurn_proofs` (any number of replicas, turns and messages, any caps and
evidence):

- `HistoryIsKept`: `Spec => []HistoryKept`. What pruning drops is a matter of data:
  `Ledger` says that the versions are, in order, some of the snapshots ever taken,
  and that each of the others is outnumbered, by later ones of its message or
  by later ones at all. `SnapshotAll` goes along the rows it is given, so that
  it keeps the ledger is shown by induction on them; the principle is
  `Induction`, from the well-foundedness of `<` and the least element of a set
  of numbers. What a row may become is a matter of who holds it: a row being
  generated has the turn that writes it (`Writers`) and is in no regenerate's
  tail, was read by no request and is in no version (`Tails`, `Reads`, `Snaps`); a question not yet committed has an id nobody else has (`Unsent`); every text
  ever written is in a row or in a snapshot (`Recorded`), but for those a commit overran.
  `HistoryRead` and `HistoryCommit` treat the read and the commit of any request once:
  what is replaced or deleted was either read, and then there is a version, or it is an overrun.
- `AnswersStand`: `Spec => AnswerStands`. `GateInv` says that a gate is opened
  before a turn generates and keeps what was retrieved. `Verdicts` says what
  `FinalizeGate` can return, `KeptClaims` that removing claims and stripping markers leaves
  only claims whose citations hold at that moment. `OtherSteps` shows that only
  `Finish` takes a turn from generating to done, `StoredText` that the row is the
  text shown; the row is unique by `HistoryInv`.

`Sessions_proofs` (any number of tabs, slots and operations):

- `SessionsInvariant`: `Spec => []IInv`, with `IInv` the types, `VersionsCount` (as
  long as no two changes read the same version, the version counts the changes
  and a row that was read says how many there had been) and `SessionHolds`: until
  something ends the session, the refreshes under way hold different tokens, none
  of them spent by another, what they bring is unspent, and the cookie is spent
  only by a refresh whose answer is on its way. `StaysSignedIn` says only that no
  call was given up; a call is given up when a refresh is refused, so the tokens
  are what has to be kept.
- `SignedIn`: `Spec => []StaysSignedIn`. `ChangesEndSessions`:
  `Spec => ChangeEndsSessions`, by cases over the actions that can finish a call;
  both with the exceptions named in section 3.

`Credits_proofs` (codes, users, deltas and usages are arbitrary):

- `CreditsInvariant`: `Spec => []IInv`. `LedgerReconciles` needs that a session
  that has locked a row holds the row as it is (`Locks`), that a release is
  written only for what was held (`Holds`: also by the sweep, which acts on a list it
  read before) and that the last entry of a user leaves the balance (`Chained`).
  `DebtBounded` needs that a live inline turn has a ticket that has not lapsed,
  or is stray (`Ticketed`, hence at most `MaxRuns` of the others, `Steady`, were
  admitted at once), that a second settlement finds the entry of the first, and that
  balance, drawn amounts and one `MaxCharge` for each place of `Cap` without a turn to
  be charged do not sum up to less than zero (`Covered`); `Cap` is `MaxRuns` and the
  stray turns, so a turn that strays brings its own place. `BooksMove` says what any step may do to the books;
  `WriteStep` and `SweepStep` say what an entry and a sweep leave in them.
- `TypeCorrect`, `BooksReconcile`, `CodesGrantOnce`, `DebtStaysBounded`: the four
  invariants that `credits_ledger` checks.

`ToolLoop_proofs` (any tools, batches, budgets, windows and sizes of results; any
number of rows, decisions and lost signals):

- `ToolLoopInvariant`: `Spec => []IInv`, types and eight facts.
  `ConsentedOnly` needs that a decision under way is for a row that exists
  (`Known`) and that an approved row was approved by a person (`Granted`).
  `BudgetHolds` needs what is paid but not yet made: a turn on its way to the
  provider has one step more than calls, a call under way one tool more than
  executions (`Paid`), and its tool is in the quota already (`Within`).
- `EveryCallAnswered` speaks of `acquire` and `stream` only. In between a round
  has calls in the transcript that have no answer yet, so the invariant
  `Prompt` says which: `Answered(working, Owed)`, every call has exactly one
  answer, behind it, or it is still in `todo` and has none. `Calls` says that the
  numbers in `todo` are distinct, and new to the transcript until `Fold` puts
  them there; the base from which `Answer` counts is the largest number in use.
  A turn that ends in mid-round leaves its last calls open, which is why the
  invariant says nothing at the end: no prompt follows.
- Compaction and trim keep a transcript whole (`CompactWhole`, `TrimWhole`).
  `ClosureKeeps` says that what `_enforce_tool_pair_atomicity` keeps contains
  with a call all its results, `SelectionAnswered` that any selection of messages
  with this property answers its calls, `BodyIsSuffix` where the body begins;
  a boundary of the trim cuts no pair because answers stand behind their calls.
  `Pick` names positions by rank; `PlaceExists`, `PlacesInOrder` and
  `PlacesCover` say that ranks enumerate a finite set of positions. They and
  `LargestNumber` rest on `LeastNumber`, from the well-foundedness of `<`.
- `TypeCorrect`, `DangerousToolsConsented`, `BudgetKept`, `PromptsComplete`: the
  four invariants that `tool_loop` checks. `SlotsAccounted`: every model slot is
  free or held by exactly one turn, on every way out of a provider call.

`PlanExecution_proofs` (all five profiles, any number of parallel workers of
`task_decomposition`, any proposed plans; any commands, revisions and crashes):

- `PlanInvariant`: `Spec => []IInv`, types and ten facts. `FreshInputs` is about the
  end of a run and nothing in it survives a step. In a round of the engine
  (`Ordered`, `Rounds`) what starts has its dependencies done, what runs was given
  their present outputs, what is done is fresh, and what is retained is fresh
  and closed under dependencies. The last is a fact about the operators:
  `AncestorsEquation` shows that `Ancestors`, a recursive function, satisfies its
  equation for plans with cycles too (a least fixed point is a witness for
  `CHOOSE`), and with it `AgainIsClosed` and `ReusableIsClosed` show that what
  `revise_plan` and `apply_checkpoints` leave in place rests on nothing they take away.
- A crash leaves only the rows. `Saved` says of a round what `Kept` needs of the
  rows it leaves: a current row says what its output was computed from, and a
  row of a first pass is what every later output of that pass was given. `Kept`: rows
  of one plan and of first passes rest on each other. `Rows` bounds every version
  by the one last produced, so that a new output differs from all recorded ones.
- For the walker, `ProfilesStaged` shows for each profile that plan, stages and
  graph agree: dependencies are in lower stages, edges come from dependencies.
  `Walked`: below the stage everything is produced and handed on, above
  it nothing is touched, so that every join of a stage is complete when it starts
  (`WalkLaunches`): the walker passes no step over.
- `Late` says of the steps that started under a visible cancel that nobody who is
  still paused rests on them: a pause that ends with the cancel lets its step
  through, and only a step with all dependencies done can be paused. `DrainTyped`
  shows that draining the commands, a fold, yields controls again.
- `PanelSettles` needs what the panel says of each step while the run goes on (`Told`: a
  step that is done was reported, or the budget is exhausted and its node may
  still run), and what it shows before a life begins (`Shown`: nothing, the walker's
  graph, or, on a worker, the nodes of the life before, which no command has been heard over).
- `InputsAreFresh`, `CancelStops`, `PanelIsSettled`: the three invariants that
  `plan_execution` checks, there on `write_review` alone.

Every invariant the runs check is the property of a theorem, and so is every
action property but one. Only model-checked are:

- Liveness, since neither fairness nor ENABLED is in reach of the prover: the
  eight runs under `FairSpec` show it on their instances.
- `SweepSpares` of `Library`, an action property. Its proof would rest on the
  fact that a file which is owned, but was not when a pass read the references,
  is not a day old.
- The assumptions about pure modules, over bounded inputs.
  `DocumentText` and `LineDiff` declare RECURSIVE operators, for which the prover has
  no arithmetic; the others fold over sequences, and each would need an induction
  like the one of `ChatTurn_proofs`.
- `NoLostRun` with the faults that `RunNotLost` excludes does not hold; the run
  `durable_settles` excludes them too.

## 6. Not modelled

- Skills: texts that enrich prompts. The memory of one conversation, summaries
  and the patterns that extract candidates. Built-in tools and the sandbox: external effects. The frontend besides
  its stream readers, its session and its diffs, migrations, deployment, evaluations.
- The guardian and the PreToolUse hooks: no production code wires them in.
  `reap_expired` of the artifacts: nothing schedules it. `InMemoryQueue`,
  branching and feedback of messages, reports and price lists.
- Durations: a lease, an idle limit and a turn are ordered by nondeterminism,
  not by clocks.

## 7. Plan

1. `RunTiming`: lease, idle limit and turn in ticks, the reclaim loop with two
   workers.
2. An abstract run (accepted, executing, settled) and the refinement that shows
   in which configurations `DurableRun` implements it.
3. The proof of `SweepSpares`.
4. A row whose parse cannot commit, and the batches of the two sweeps as
   fairness conditions on single rows, to say under which order of a query
   nothing starves.
