# Verification of the Agentflow backend

TLA+ modules, TLC configurations and TLAPS proofs kept beside the Agentflow
backend (NestJS, PostgreSQL through Prisma, Redis, BullMQ). Source paths below are
relative to `src/src/modules/` unless they begin with `prisma/`.

## 1. The system

A user owns *teams* of *agents*; an agent has a role, a prompt and a model, and agents
may be connected into a workflow. Starting a *run* inserts a row, enqueues a job, and a
worker lets the agents answer one after the other through OpenRouter, each with the
outputs of the agents connected to it. A browser follows the run over server-sent events.
Plans (FREE, PRO, BYOK) limit teams, runs and tokens; Stripe or Razorpay webhooks change
the plan.

| Component | State | Operations | Talks to |
|---|---|---|---|
| Run requests, `agent-runs/agent-runs.service.ts` `createRun` | `AgentRun` row | count, count, insert, enqueue | PostgreSQL, BullMQ |
| Queue, `agent-run.processor.ts` + BullMQ | job, attempts, lock | hand out, retry after 30 s (3 attempts), requeue a stalled job | Redis, worker |
| Runner, `agent-runner.service.ts` | `AgentRun`, `AgentRunStep` rows; local order, outputs, token and time counters | `runPipeline`, `completeRun`, `emitEvent` | PostgreSQL, OpenRouter, Redis pub/sub |
| Workflow, `dag-utils.ts` | none (pure) | `buildDAG`, `detectCycle`, `topologicalSort`, `getParentIds` | runner, `saveTeamGraph` |
| Run stream, `agent-runs.controller.ts` `stream` | subscriber, replayed step ids, response | subscribe, snapshot, replay, forward, disconnect | Redis pub/sub, PostgreSQL |
| Teams, `agent-runs.service.ts` | `AgentTeam`, `Agent`, `AgentConnection` rows | create, use template, update, save graph, delete | PostgreSQL |
| OpenRouter client, `openrouter/openrouter.service.ts` | last token count (one field per process) | resolve key, validate model, stream, retry | OpenRouter |
| Billing, `billing/` | `Subscription`, `Invoice` rows, `User.plan`, active provider in Redis | checkout, portal, cancel, webhooks | Stripe, Razorpay |
| Authentication, `auth/auth.service.ts` | `Session`, `VerificationToken` rows, password, verified flag | register, set/forgot/reset password, login, refresh, logout | PostgreSQL, email |
| Key vault, `key-vault/key-vault.service.ts` | `User.encryptedOrKey` | save, read, delete | PostgreSQL, OpenRouter |
| Admin, library, templates | library items, template teams | CRUD | PostgreSQL |
| Prompt builder, memory, email, health, HTTP filter and guards | none | pure functions and output | |

What is hard, and where:

* **Two stores, no transaction.** The run row is in PostgreSQL, its job in Redis
  (`agent-runs.service.ts:293` and `:313`). Either write can be the last.
* **At-least-once execution.** BullMQ hands a job out again after a thrown error, a
  worker's death, or a lapsed lock; the last leaves the old execution running
  (`agent-run.processor.ts:18`, `agent-runner.service.ts:58`). `runPipeline` starts from
  the first step each time and writes the same row.
* **Error paths.** Some database calls are outside the `try` block (58-91), some inside
  the inner one (131-230), some in the handlers themselves (236, 262); `completeRun` is
  followed by a lookup inside the same `try` (250).
* **Fire-and-forget events.** A publish may fail, a subscriber may not be listening yet,
  a step that lost its timeout race keeps publishing (179-204).
* **Check, then write.** Every limit and every "no active run" test is a read followed,
  some awaits later, by a write (`agent-runs.service.ts` 50, 154, 199, 259, 278, 587, 679).
* **Webhooks** are duplicated, reordered and retried, and are not applied atomically
  (`billing.service.ts` 262-337).
* **Plan and key are read piecemeal.** `createRun` is given the plan its controller read,
  `resolveApiKey` reads plan and key again, `getDecryptedKey` the key once more, while
  webhooks change the one and the key vault the other (`agent-runs.controller.ts:46`,
  `openrouter.service.ts` 68-94, `key-vault.service.ts:98`).
* **One field for all streams.** The token count of a stream is left in a field of the
  service, which up to five concurrent jobs share (`openrouter.service.ts:219`).

`PROJECT.json` lists these one by one as hazards, with the line and the properties that
cover each.

What makes each component correct:

* *Run execution*: a COMPLETED row means one execution did all its steps; spend, waits for
  the provider and executions are bounded; a job that completes leaves a terminal row;
  every accepted run becomes terminal unless its job was lost or given up; a terminal row
  is final (which fails).
* *Run stream*: no completion reported twice or falsely; nothing after the terminal event;
  no gap between snapshot and channel; the stream of a run that ended ends (which fails
  between snapshot and handler).
* *Teams*: limits hold up to the requests in flight; requests that lock the team's row do
  not mix its agents; active runs are not destroyed by who saw them.
* *Admission*: a run on the platform's key keeps to the registry of its plan; plan and key
  of a job were the user's while he asked; each plan's limit holds through plan changes.
* *OpenRouter*: tokens do not depend on how the network cuts the answer; steps settle and
  streams stop asking; a step's count is its own (which fails).
* *Workflow*: cycles are refused, and only cycles; agents run once, after their parents,
  with their parents' outputs.
* *Billing*: every paid subscription grants a plan and every payment has its invoice, but
  one that overtook a creation which does not name it, whatever the order and number of the
  webhooks; in order, row and plan are the provider's.
* *Authentication*: few links are valid at once and the newest is; an ended session stays
  ended; a browser that waits for its answers stays signed in.

## 2. Modules

| Module | What it models |
|---|---|
| `RunRecord` | abstract: what the row of a run promises, who may write its status and in which order |
| `RunPipeline` | the `createRun` request, the BullMQ job, every execution of `runPipeline`, edits of the team that race it |
| `MCRunPipeline` | TLC instance of it |
| `RunPipelineProofs` | its theorems |
| `RunStream` | one `GET /agent-runs/:id/stream` against the executions of its run |
| `RunStreamProofs` | its theorems |
| `TeamRuns`, `MCTeamRuns` | one user's requests against teams and runs, interleaved |
| `TeamRunsProofs` | its theorems |
| `RunAdmission`, `MCRunAdmission` | which plan, key and model `createRun` gives a job, against plan changes and the key vault |
| `RunAdmissionProofs` | its theorems |
| `OpenRouter`, `MCOpenRouter` | the completion streams of one worker process and the steps that consume them |
| `OpenRouterProofs` | its theorems |
| `Workflow`, `MCWorkflow` | from a drawn graph to the order and the inputs of the steps |
| `WorkflowProofs` | its theorems |
| `Billing`, `MCBilling` | the webhooks of both providers and `cancelSubscription`, for one user |
| `BillingProofs` | its theorems |
| `Auth`, `MCAuth` | registration, mailed links, passwords and sessions of one user |
| `AuthProofs` | its theorems |

`RunPipeline` and `RunStream` both implement `RunRecord` (properties `ImplementsRecord`,
`FollowsRecord`): the stream is checked against a publisher cut down to the order of its
writes and publishes, and the refinement shows that this publisher keeps the same promise
about the row as the real one. `TeamRuns` reduces a run to its status, `RunPipeline`
reduces the team to its number of agents, and `Workflow` says how that number and the
order come about. `RunAdmission` is `createRun` once more, with everything `TeamRuns` leaves
out: there a request may be refused for its key or model at any time, here the teams are
left out and plan, key and model are kept, and the plan is what the webhooks of `Billing`
write. `OpenRouter` is what `RunPipeline` and `RunStream` see as a stream that succeeds,
fails, times out or goes on after its step.

### RunPipeline

A worker execution is a number, in the order the queue hands the job out; `execs` is both
the count and the holder of the lock. `pc[e]` is the place in `runPipeline`:

| `pc` | code |
|---|---|
| `start`, `load` | 58-61 and 63-91: outside the `try`, an error rejects `process` (`thrown`) |
| `loop` | the head of the step loop, 98-117, and `completeRun` when no step is left |
| `stream` | 131-210, the provider call raced against `STEP_TIMEOUT_MS` |
| `stepFail`, `fail` | the inner and the outer catch, 231-243 and 257-279 |
| `lookup` | 248-256, after `completeRun` |
| `done`, `thrown` | `process` resolved or rejected, the queue not yet told |
| `closed`, `dead` | the outcome was reported; the process died |

Actions are the stretches between two awaits whose failure another actor can observe.
`SaveStepFails` keeps the order of the code: `totalTokens` grows before the step is saved.
`OnDbError` says which `try` block a failing call is in. `ReplaceAgents` deletes the steps
of the agents (the schema cascades), which makes later writes of an execution that had
loaded them fail.

Time is counted in ticks per execution. `elapsed` is `Date.now() - runStart`, which is read at
the head of the loop only (106). The race for a stream takes 0 to `StepTimeout` ticks
(`Streamed`); every other await (58-91, 117-152, 210-236) may take any time, which
`TimePasses` charges where the clock is read. How long an execution lasts is therefore not
bounded by the code: what is, are its waits for the provider (`waited`, `WaitBound`), by the
limit and one step more. The limit is `RUN_TIMEOUT_MS`, 1 800 000 ms
(`openrouter/constants/model-registry.ts:72`), although the message at
`agent-runner.service.ts:108` says 10 minutes; comparing two literals needs no model checker, so
no run is spent on it, and `PROJECT.json` records it as a finding.

`Reports` are the counts `getLastTokenCount` may return: the field is shared by all
streams of the process and not set by a stream that ends with `[DONE]`, so the model lets
a step report any of them, 0 included, and relates nothing to the step's true usage;
`OpenRouter` says which count it is.

BullMQ is external and modelled from its use: `attempts: 3`, a fixed backoff, the default
`maxStalledCount`, and a report of a worker that lost its lock is ignored. `outlived` is a
history variable: the executions that lost the lock and kept running.

### RunStream

`wire` holds the messages between Redis and the subscriber. Before the handler is attached
(`conn` in `subscribed`, `snapshotted`) a message that arrives is dropped; `early` and
`late` remember which. `ReadSnapshot` is the moment the database reads, `ReplayTerminal`
or `Attach` the moment its answer is handled: everything from line 197 on runs without an
await.

The publisher may fail wherever `RunPipeline` may: an execution rejects outside its `try` block
or in the outer catch (`Reject`), dies (`Crash`), and is followed by another one or by none
(`GiveUp`: the attempts are used up, or the job was never enqueued). An execution that published
its terminal event leaves its job "lapsed" rather than "dead" (`Fallen`), since for the stream
the run is then over. So `StreamEnds` says in which three cases a response stays open: its
terminal event was lost on the channel, came between the snapshot and the handler, or was never
published because the job was given up first. `stray` are the steps whose provider stream survived the step's timeout. A run that
is deleted with its team while it is streamed is not modelled.

### TeamRuns

One user. Each request is a program counter; its reads and writes are separate actions,
in PostgreSQL's READ COMMITTED: a statement sees what is committed when it begins, an
updated row is locked to the end of its transaction. `updateTeam` updates the team's row
before it deletes agents (166), but from the fields the PATCH names; where it names the agents
only, the update has no column, Prisma runs no UPDATE for it, and no row is locked. That
request is the kind `replaceAgents`; `updateTeam` is a PATCH of the row and the agents.
`saveTeamGraph` updates nothing before it deletes either. Two requests without a lock
(`Lockless`), or one and a PATCH, leave the agents of both, although the endpoint is documented
as "Save team workflow graph atomically" (`agent-teams.controller.ts:134`);
`RowUpdatesDoNotMerge` says that it takes one of them. A transaction may also
fail (deadlock, timeout, a team that is gone). `again` is a history variable, the runs the
queue executed again after they had ended. What the worker does to a run is its status.
All runs are of the same month. The monthly limit counts rows, as the code does: runs deleted
with their team are counted no more, so that a deletion frees part of the month.

### RunAdmission

One user again, and requests of three kinds: `createRun`, `saveKey`, `deleteKey`. An own key
is named by the request that stored it; `PlatformKey` is the platform's.

| Code | Actions |
|---|---|
| `agent-runs.controller.ts` `create` 46, and `saveKey` 68 | `Arrive` reads the plan |
| `createRun` 241-250 | `FindTeam` |
| `resolveApiKey` 68-104, `getDecryptedKey`, `validateModelForUser` | `ReadUser`, then `PreferKey` (PRO), `RequireKey` (BYOK) or at once the platform key; `Validate` in the same step, since nothing is awaited before it |
| `createRun` 258-326 | `CountActive`, `CountMonth`, `InsertRun`, `Enqueue` |
| `saveKey`, `deleteKey` | `CheckPlan`, `SaveKey`, `DeleteKey` |
| `decrypt` throwing | `DecryptFails` |
| `handleSubscriptionCreated`, `-Updated`, `-Deleted` | `SetPlan`, at any time; no handler touches the key |

A downgrade leaves the key behind, so that a FREE user may have one: initial states have any
plan with and without a key. Such a user is told that he "can use any OpenRouter model"
(`agent-runs.controller.ts:80`, from `userHasOwnKey`, which ignores the plan), while
`resolveApiKey` gives him the platform's key and its registry: `createRun` refuses what the
options offered. `plansHeld` and `keysHeld` are history variables.

### OpenRouter

The streams of one process. A body is a sequence of pieces, two for each line, the second
with its newline, and may lack the last newline; `ReadChunk` takes any number of pieces, so
that a chunk may be part of a line or many lines, with `[DONE]` anywhere in it. A line is
what the parser makes of it: a content or none, a usage or none, `[DONE]` or not. Between two
lines of a chunk a stream awaits its consumer, but touches nothing another stream can see,
so a chunk is one step. `Attach` writes the shared field, `TakeCount` reads it, later: the
end of a generator reaches the consumer as a continuation of its own. `StepTimeout` fails
the step and leaves the stream where it is, as `Promise.race` does.

### Workflow

The depth-first search of `detectCycle` and the loop of `topologicalSort` are written as
steps of a state machine rather than as recursive operators, so that their invariants can
be stated and proved. `detectCycle` runs on all agents when the graph is saved and again
on the enabled ones when it is run. The order in which the database returns agents and
connections is free: `saveTeamGraph` gives every agent the order 0 and connections are
queried without an order. Connections with an end outside the graph are dropped by
`buildDAG` and by the save, and are `NoLink` here.

### Billing

`truth` is what a provider knows of a subscription, `pending` the events it announced and
got no 200 for. Any of them may arrive at any time, again and again, while others are being
handled; a 200 may be lost on its way (`Answer`). A creation may come without its payment
(`Bare`: `extractPaymentData` finds none, `razorpay-payment.provider.ts:365`; the latest invoice
is missing, `stripe-payment.provider.ts:183`): then no invoice is written, and a payment that came
before the row and was dropped is lost. `lost`, a history variable, holds exactly the
payments that came before the row and that the creation did not name; `EveryPaymentInvoiced`
says that no other is missing. `Parse` is `verifyAndParseWebhook`: what
each event says, which is not always what the subscription is (a payment says ACTIVE, an
invoice may not name its price, `checkout.session.completed` makes the code ask Stripe).

| Code (`billing/billing.service.ts`) | Actions |
|---|---|
| `handleSubscriptionCreated` | `Created` (267-293), `Insert` (313), `Grant` (319), `RecordInvoice` |
| `handleSubscriptionUpdated` | `Updated` (one transaction), `RecordInvoice`, or `Dropped` |
| `handleSubscriptionDeleted`, `handlePaymentFailed` | `Deleted`, `PaymentFailed`, or `Dropped` |
| any rejected call, or the death of the process | `Abort`, `CancelAbort` |
| `cancelSubscription` | `CancelRead`, `CancelAtProvider`, `CancelMark` |

Rows are never deleted, so that a handler which finds a row and then writes it is taken at
its write. `orderly` and `torn` are history variables: which subscriptions had their events
delivered in order and one at a time, and whose creation was cut off; the code does not
read them. Taken from the providers, not from the code: a period ends only when
no webhook of the subscription is still undelivered (a period is a month, retries last days),
while a payment that failed may be tried again, and succeed, at any time; an event that
announces a payment names it; a subscription is bought once, a cancelled one is not resumed, and its status is active, past due or
cancelled. Trials are not modelled, nor is a first payment that fails. Each `Announce` counts
against `MaxEmits`, or, once a second subscription is bought, against the smaller
`MaxTogether` (`Speak`); only those of `Together` are bought beside another one. A creation that is cut off after line 313 is never completed: the
event is sent again, line 285 finds the row and answers 200 without granting the plan.
`GrantedUnlessEnded` excepts exactly these subscriptions (`torn`).

### Auth

The requests of `auth/auth.service.ts` for one user, each statement that another request
can see apart a step, a transaction one step.

| Code | Actions |
|---|---|
| `register`, `resendVerification`, `forgotPassword` | `Register`, `Resend`, `Forgot`, then `CreateUser` or `Invalidate`, `CreateLink`, `SendMail` |
| `setPassword`, `resetPassword` | `ValidateToken`, then the transaction `SetPassword` or `ResetPassword` |
| `login` | `Login` (264-287), `CreateSession`, `Answer` |
| `refreshTokens` | `Refresh` (the token verifies), `FindSession` or `SessionNotFound`, `Rotate` and `Answer`, or `DropSession` |
| `logout` | `Logout`, `Answer` |

A refresh token is a session and the number of its rotations; the row accepts the latest
(`Accepts`), `cookie` is what a browser holds, and a `Set-Cookie` takes effect when its
answer arrives, in any order. `Abort` is any rejected call, a row another request has
deleted included (`update` by id throws), the death of the process, or a lost answer. A
link or a session may expire at any time; a refresh token expires with its session, both
having the same lifetime. `spent`, `ended`, `cut` and `orderly` are history variables.
Passwords are not modelled: a login is let through or not. No code suspends a user.
Nothing makes a validated link exclusive before the transaction uses it up (388 and 124,
237): two requests may set a password with one link, in the model as in the code.

## 3. Runs

| Run | Expect | Shows |
|---|---|---|
| `pipeline_faults` | pass | row, spend, waits for the provider, number of executions, refinement of `RunRecord`, under failed enqueues, database errors, crashes and workers that outlive their lock |
| `pipeline_settles` | pass | terminal rows behind completed jobs, and `RunSettles` under fairness, with crashes, database errors and edits of the team |
| `pipeline_terminal` | violation | COMPLETED may become FAILED (`agent-runner.service.ts:250`) |
| `stream_replay` | pass | replay against channel, two executions that may die, reject or never come, lost `run_error` |
| `stream_hangs` | violation | a terminal event lost between snapshot and handler (`agent-runs.controller.ts:292`) |
| `teams_race` | pass | limits, mixed graphs, destroyed runs |
| `admission` | pass | plan, key and model of a job, limits through plan changes |
| `workflow_order` | pass | exactly the cyclic graphs are refused; order, inputs |
| `stream_tokens` | pass | tokens however the answer is cut, whose count a step reports, every wait ends |
| `token_count` | violation | a step reports another stream's count, or 0 (`openrouter.service.ts:219`) |
| `billing` | pass | paid plans, invoices, cancellations and, in order, agreement with the provider, with subscriptions at both |
| `auth_races` | pass | valid links, ended sessions, rotated tokens, two requests at a time |

Every property of a passing run is broken by at least one mutant of a definition of the
same module (`Mut...`, the operators marked "Mutation"); `PROJECT.json` pairs them.

Bounds. `pipeline_faults` has two agents, so that a step can be the last or not, one
attempt and one stall, so that two executions overlap; a budget of 2 with reports of 1 and
3 gives a run that stays below, one that reaches the budget and one that overshoots; a run
limit of 0 ticks, with steps of up to 1 and other awaits that take any number until it is
passed, give both sides of the time limit. It has no edits of the team, which would make it five
times as large; `pipeline_settles` has them.
`pipeline_settles` has one agent, two attempts and one stall: three executions, with every
way to use them up. `stream_replay` has two steps and two executions: a step of a dead
execution beside one of the live one. `teams_race` has four requests, two in flight, three
teams and limits small enough to be exceeded by one: each bound of the form *limit +
overlap - 1* is reached, and broken by an off-by-one; one finished run is executed again. `workflow_order` has four agents and
three connections: cycles of length 1 to 3, repeated connections, fan-in, fan-out, a node
reached twice, any subset disabled. `billing` has
four subscriptions, one at Stripe and three at Razorpay, of which one is without a user and
one may be created without its payment. One alone
has three announcements, enough to buy it, renew, fail or change it and end it with every
webhook of these in flight at once; two have two together, so that any two of `s1`, `r1` and `r2`
are bought, each before, after or while the other's webhooks are handled. `r3`, whose creation
may be bare, is bought alone: what it loses depends on no other subscription. Two handlers, so that a creation runs beside an update or
beside itself.
`admission` has three requests, two in flight, one change of plan and one rerun, three
models (in every registry, in the paid ones, in none) and limits of 1 and 2 runs: a key is
deleted or replaced between any two reads of a request, and a FREE user's third run starts
beside an upgrade. `stream_tokens` and `token_count` have two streams and five answers of up
to three lines: with and without `[DONE]`, with a line after it, usage with content, alone,
twice or missing. `auth_races` has two requests, enough for
every pair of operations to race; three links, so that two are made beside each other after
an older one, or of different kinds; two sessions and one rotation each, so that a token of
a session may be old; and four rows of both together, so that three links meet one session
and two sessions meet two links. Symmetry is used where every definition treats the set
alike and no liveness is checked.

Fairness. In `RunPipeline`: an accepted request goes on, BullMQ hands out waiting jobs,
promotes delayed ones and checks for lapsed locks on a timer, and a live worker goes on,
since every provider call is raced against a timeout and a database call answers or fails.
That time passes is not fair, only possible. Crashes, database errors, edits and
stalls of live workers are never fair. In `RunStream`: the run goes on or its job is given up, the database
answers the snapshot (or fails), the handler runs, messages arrive. Clients need not come
or leave. In `OpenRouter` only timers are fair: the abort of a request after 120 s, the delay
before the second attempt, the limit of the step; the provider may stop anywhere, and a
body that stops is waited for until its step is given up. Runs that check only safety use `Spec`. Deadlock is not checked: a run that is
over, or a request that was answered, is the end of the behaviour.

## 4. Proofs

Every safety property that a passing run checks, and both refinements of `RunRecord`, are
theorems: they hold for every value of the constants that the module's assumption allows.
TLC checked each invariant below on the module's run before it was proved.

### RunPipelineProofs

For every number of agents, attempts and stalls, every budget, every set of reports and
limits and every set of faults (assumption `PipelineAssumption`):

| Theorem | Property |
|---|---|
| `TypeCorrect` | `TypeOK` |
| `CompletionIsJustified` | `CompletedMeansAllSteps` |
| `SpendIsBounded`, `WaitsAreBounded`, `ExecutionsAreBounded` | `SpendBound`, `WaitBound`, `ExecutionsBounded` |
| `SpendIsAccounted` | `SpendMatchesSteps` |
| `CompletedJobsAreTerminal` | `JobCompletedMeansTerminal` |
| `PipelineImplementsRecord` | `ImplementsRecord` |

The inductive invariant `IInv` adds three parts to the types. `Accounting` ties the number
of executions to attempts and stalls: without it a waiting job could be handed out beyond
the bound. `Provenance` puts the row before the job and the job before its executions.
`Local(e)` says what the local variables of an execution mean at each label: that `team`
is loaded, `done` does not exceed it, the steps up to `done` are completed, the counters
are below their limits whenever a step may start. `CompletedMeansAllSteps` itself is part
of it, since a stale execution may overwrite the row. An execution has never waited longer than
the clock says, and what the clock says is checked before each wait: so `WaitBound`. Each action
has a lemma, and `NextKeepsIInv` joins them. `LockInv` is a second invariant, inductive together
with `IInv`: while no worker has outlived its lock, only its holder is live, so that the row a
completed job leaves is the one its last execution wrote. The refinement is proved action by action:
a step moves one execution's phase as `RunRecord` allows, or is invisible.

`SpendInv` is a third one, about sums. `Ledger(e)` compares what an execution has recorded
step by step with its `totalTokens`: equal while it may start a step, behind by the one step
whose save failed afterwards. `Settled` finds, for a terminal row, the execution it was
written by, which can spend no more: after it the totals cannot drift apart. The sum is the
library's `SumFunction`, a fold; the lemmas `SummedExists` to `SumsDiffer` show that the
recursive function behind it exists and how it changes when one step is recorded.

### RunStreamProofs

For any number of steps and executions and any set of kinds of events that may be lost
(assumption `StreamAssumption`):

| Theorem | Property |
|---|---|
| `StreamCompletesOnce` | `CompletedOnce` |
| `StreamEndsWithTerminalEvent` | `TerminalEventEnds` |
| `StreamIsTruthful` | `TruthfulCompletion` |
| `SnapshotCoversDropped` | `SnapshotCoversEarly` |
| `StreamedRunImplementsRecord` | `FollowsRecord` |

`CompletedOnce` is about the response, and two sources feed it. `WireOnce` and
`WirePublished` say that a completion is on the channel once and only if it was published
(`Published`); `SentOrReplayed` that what was sent is either from the replay, and then the
filter knows it, or is off the channel. `SnapAgrees` says what a snapshot knows of a step
that had been reported before it was read; `FirstExecution` that until a second execution
begins every row behind the current one is COMPLETED, which `TruthfulCompletion` needs. What a
replay contains (`Replays`) is proved by induction over the steps of the snapshot.

### WorkflowProofs

For any finite set of agents and of connections, and any graph drawn with them
(assumption `WorkflowAssumption`):

| Theorem | Property |
|---|---|
| `RefusalIsExact` | `RefusedIffCyclic` |
| `SavedWorkflowsRun` | `AcceptedRuns` |
| `OrderRespectsConnections` | `EveryAgentAfterItsParents` |
| `StepsSeeTheirParents` | `InputsAreParents` |

The search is proved with three colours. The stack is a walk (`StackIsWalk`), so that an
edge to a node on it closes a cycle; black nodes, those `dfs` has returned from, have only
black children and no cycle among them (`BlackIsDone`), so that a search that ends black
everywhere has seen an acyclic graph. For Kahn's loop `QueueIsReady` says that the in-degree
of a node counts its unsorted parents (`Waiting`) and that the queue holds exactly the
unsorted nodes with none; when it runs dry, the nodes left over would all have a parent
among themselves, which an acyclic graph excludes (`DryQueueSortsAll`). `Cyclic` is defined
by a set whose every member has a parent in it, so no induction over paths is needed.

### OpenRouterProofs

For any set of streams and of answers, of any length, and any chunks
(assumption `OpenRouterAssumption`):

| Theorem | Property |
|---|---|
| `ChunkingIsInvisible` | `ChunkingInvisible` |
| `CountIsOfLastEnded` | `CountOfLastEnded` |

`ReadUpTo` says that after *g* pieces of an answer what was yielded and counted is that of
its first *g* ÷ 2 lines up to `[DONE]`, `StillOpen` that the buffer holds the odd piece, if
any, while no `[DONE]` was read. Two lemmas about the parser carry a chunk through:
`LinesOfPieces` (the lines of any stretch of pieces that begins at a line are a stretch of
the answer's lines) and `ChunkOfPieces` (so are those of the buffer and a chunk), and
`BeforeDoneConcat`, `ContentsConcat` and `UsageConcat` say that each operator may read two
stretches one after the other. `CountOf` ties the shared field, and the count a step took, to
the stream that left it there, which has ended and changes no more.

### BillingProofs

For every set of subscriptions, every number of payments, announcements and requests
(assumption `BillingAssumption`):

| Theorem | Property |
|---|---|
| `SubscriptionsAreGranted` | `GrantedUnlessEnded` |
| `CancellationsAreReal` | `CancelShownIsReal` |
| `PaymentsAreInvoiced` | `EveryPaymentInvoiced` |
| `OrderedWebhooksMirror` | `MirrorsProvider` |

The invariant `IInv` says what a pending event and a request in flight know: an event that says
"ending" was announced by a provider that had been told (`Known`), a request holds a parsed
event (`Request`). A subscription that was bought has its row, or its creating event is
still pending (`WillBeCreated`: the event is answered only with the row there); and, while
none was lost, a row whose creation was not cut off means a paid plan or a request about to
grant one (`WillBeGranted`). Without the two, `GrantedUnlessEnded` is not inductive: it
speaks only of states with nothing in flight. A step of the providers is reduced to one
lemma about `Announce`.

`MInv` adds what the other two need. A payment without its invoice is with a creation that is
about to write it or in an event that was not answered (`Covered`, `Awaited`), or is in `lost`;
before there is a row there is one payment at most (`PaidOnce`), which is still to be delivered
or has been dropped (`FirstPayment`), and which the creation records where it names it. Of a
subscription whose events came in order, the request in flight handles the earliest event and
the latest one says how the provider has it now (`Follows`), and when that one is all that
is left, `Shown` says how far row, plan and request have come. What `PlansOf` allows beside the
provider's plan is the default of an invoice without a price.

### AuthProofs

For every number of requests, browsers, links, sessions and rotations
(assumption `AuthAssumption`):

| Theorem | Property |
|---|---|
| `LinksAreBounded` | `LinksBounded` |
| `NewestLinksWork` | `NewestLinkWorks` |
| `EndedSessionsStayEnded` | `EndedStaysEnded` |
| `OrderlyBrowsersStaySignedIn` | `StaysSignedIn` |

`LinksBounded` counts valid links and is not inductive: a request about to create one will
add it whatever there is. The invariant counts those requests as well (`Bounded`): the sum
is at most the number of requests, since `Invalidate` brings the links of its kind to none
and `CreateLink` turns a request into a link. `CreateUser` skips the invalidation, which is
right only because there is no link before there is a user. All other steps are reduced to
one lemma about requests that make no link (`OthersKeepLinks`). `LinkLasts` is the invariant
behind `NewestLinkWorks`: if the newest link of a kind was invalidated without having been
used, whoever did it is about to make a newer, or was cut off.

For the sessions, `OneHolder` says that a session is known to one browser only, by its cookie
or by a request, so that nobody else can rotate its token; `Orderly(b)` that a browser that
waits has one request and that whatever the request leaves in the cookie the session accepts.

### TeamRunsProofs

For every number of requests and teams and any limits (assumption
`TeamRunsAssumption`), every property of the run `teams_race`:

| Theorem | Property |
|---|---|
| `TeamTypes` | (types) |
| `RunsAreBounded`, `TeamsAreBounded` | `RunsBounded`, `TeamsBounded` |
| `RowLocksPreventMerges` | `RowUpdatesDoNotMerge` |
| `DeletionsSpareSeenRuns` | `OnlyUnseenRunsDestroyed` |

The limits are not inductive: a request that has passed its count will insert, whatever
there is by then. `Counted` bounds the rows together with the requests that have passed the
count; whoever passes it finds fewer rows than the limit, and those that passed it before are
in flight with him (`CountThenHold`). `Writes` says that an update about to commit holds its
team's lock and has seen every agent of the team but those of requests without a lock, `Unborn`
that nobody else gets on with a team that is about to be created, `SawEnded` that the runs a
deletion saw stay ended but for those taken up again.

### RunAdmissionProofs

For every number of requests, models and plan changes, any registry and any limits
(assumption `RunAdmissionAssumption`), every property of the run `admission`:

| Theorem | Property |
|---|---|
| `AdmissionTypes` | (types) |
| `PlatformRunsUseTheRegistry` | `PlatformRunsRegistryModels` |
| `KeysFitPlans`, `KeysWereStored` | `KeyFitsPlan`, `KeyWasStored` |
| `ActiveRunsPerPlan` | `ActivePerPlan` |

Its invariant `Known` says what a request has found out at each label: the plan `ReadUser`
saw is in the history by the time the key is read, and from `validated` on key, model and
plan go together (`Right`) until the job has them. `Holding` counts, plan by plan, the active
runs and the requests about to insert one.

### Induction over data

The library's induction theorems take a predicate, which the installed provers cannot
instantiate. Where an induction over a number is needed it is taken from the
well-foundedness of `<` instead: a set of numbers that is not empty has a least one
(`LeastNumber`), hence a set that holds 0 and the successor of each of its members up to *n*
holds all of them (`UpTo`). With it the recursive functions inside the library's folds and
`FlattenSeq` are shown to exist and unfolded. `RunStreamProofs` and `OpenRouterProofs` state
these lemmas each for itself.

### Only model-checked

Liveness: `RunSettles` (every accepted run becomes terminal, or its job was lost or given up),
`StreamEnds`
and `WaitsEnd` are beyond the prover, which has no rule for fairness, and stay with TLC on
the bounds of section 3. So do the three violations: a counterexample is a run, not a proof.

## 5. Plan

1. The statements that fail, with what would make them hold: a count of one's own when a
   process runs one stream and no answer says `[DONE]`; a terminal row that stays when the lookup after
   `completeRun` cannot fail. Each is a theorem about a hypothesis the code could meet.
2. Admission and the pipeline together: the key and the plan of a job as the runner uses
   them, days after `createRun` when a retry is late.
3. The safety half of liveness: that an execution that goes on makes progress (a measure that
   every step of the worker decreases), from which `RunSettles` follows by fairness.

## 6. Not modelled

* `createCheckoutSession` and the portal: two checkouts of one user create two customers and
  the second id overwrites the first (`billing.service.ts:59`). No webhook handler reads the
  id; only what the portal shows depends on it, which is the provider's state.
* The old password at a login: a login that compared it before a reset creates its session
  after the reset deleted all sessions (`auth.service.ts:288`). `Auth` does not tell
  passwords apart.
* The answer of `saveTeamGraph`, read through a second connection from inside the transaction
  (`agent-runs.service.ts:650`): no later write depends on it.
* Trials, and the active payment provider kept in Redis, which only decides where the next
  checkout goes.
* Admin and library CRUD: single statements or single transactions without state of their own.
* Prompt texts, sanitising, e-mail templates, DTO validation, throttling, guards and the HTTP
  layer are pure or stateless; the memory service is a stub; seeds are data.

PostgreSQL, Redis, BullMQ, OpenRouter and the payment providers are modelled only as far as
the code uses them.
