----------------------------- MODULE RunPipeline -----------------------------
(***************************************************************************)
(* One agent run from POST /agent-runs to its terminal row: the API        *)
(* handler that inserts the row and enqueues the job, the BullMQ job, and  *)
(* every worker execution of AgentRunnerService.runPipeline the job causes.*)
(*                                                                         *)
(* Each action is the code between two awaits whose failure or             *)
(* interruption another actor could observe.  A worker execution is a      *)
(* number: the queue numbers them in the order it hands the job out, so    *)
(* `execs' is both the count and the one that holds the job's lock.        *)
(***************************************************************************)
EXTENDS Integers, Functions

CONSTANTS
    MaxAgents,    \* enabled agents a team may have, at most
    Attempts,     \* createRun: attempts of the job
    MaxStalls,    \* BullMQ's maxStalledCount, left at its default by the code
    Budget,       \* TOKEN_BUDGET_PER_RUN of the run's plan
    Reports,      \* the token counts getLastTokenCount may return,
    MaxReport,    \* none of which is larger than this
    RunTimeout,   \* RUN_TIMEOUT_MS, in ticks
    StepTimeout,  \* STEP_TIMEOUT_MS, in ticks
    Faults        \* what may disturb the run

\* The job is not enqueued; a database call fails; a worker process dies; a
\* live worker loses its lock; the owner replaces the team's agents.
AllFaults == {"enqueue", "db", "crash", "stall", "edit"}

ASSUME PipelineAssumption ==
    /\ MaxAgents \in Nat
    /\ Attempts \in Nat \ {0}
    /\ MaxStalls \in Nat
    /\ Budget \in Nat \ {0}
    /\ MaxReport \in Nat
    /\ Reports \subseteq 0 .. MaxReport
    /\ RunTimeout \in Nat
    /\ StepTimeout \in Nat
    /\ Faults \subseteq AllFaults

VARIABLES
    status,        \* AgentRun.status, "none" before the row exists
    totalUsed,     \* AgentRun.totalTokensUsed
    api,           \* progress of the createRun request
    job,           \* state of the BullMQ job
    attemptsMade,  \* failed attempts the queue counted
    stalled,       \* times the queue found the job's lock lapsed
    execs,         \* executions started
    outlived,      \* history: executions that lost the lock and kept running
    pc,            \* per execution: the next thing runPipeline does
    team,          \* per execution: number of agents it loaded
    done,          \* per execution: completedSteps.length
    total,         \* per execution: totalTokens
    elapsed,       \* per execution: Date.now() - runStart, in ticks
    waited,        \* history: ticks it spent in the races for a stream
    step,          \* AgentRunStep.status, by execution and position
    tokens,        \* AgentRunStep.tokenCount, by execution and position
    editor,        \* progress of an updateTeam or saveTeamGraph request
    erased         \* executions whose agents were deleted after they loaded them

runRow == <<status, totalUsed>>
queue  == <<job, attemptsMade, stalled, execs, outlived>>
clock  == <<elapsed, waited>>
memory == <<team, done, total, clock>>
rows   == <<step, tokens>>
edits  == <<editor, erased>>
vars   == <<runRow, api, queue, pc, memory, rows, edits>>

Exec == 1 .. (Attempts + MaxStalls)
Position == 1 .. MaxAgents
Terminal == {"COMPLETED", "FAILED"}
Unloaded == -1

(***************************************************************************)
(* What a worker execution still has to do.  "done" and "thrown" are a     *)
(* runPipeline call that returned or threw and whose outcome the worker    *)
(* has not yet reported to the queue.                                      *)
(***************************************************************************)
Working == {"start", "load", "loop", "stream", "stepFail", "lookup", "fail",
            "done", "thrown"}
Live(e) == pc[e] \in Working

Init ==
    /\ status = "none"
    /\ totalUsed = 0
    /\ api = "idle"
    /\ job = "none"
    /\ attemptsMade = 0
    /\ stalled = 0
    /\ execs = 0
    /\ outlived = {}
    /\ pc = [e \in Exec |-> "idle"]
    /\ team = [e \in Exec |-> Unloaded]
    /\ done = [e \in Exec |-> 0]
    /\ total = [e \in Exec |-> 0]
    /\ elapsed = [e \in Exec |-> 0]
    /\ waited = [e \in Exec |-> 0]
    /\ step = [e \in Exec |-> [i \in Position |-> "none"]]
    /\ tokens = [e \in Exec |-> [i \in Position |-> 0]]
    /\ editor = "idle"
    /\ erased = {}

-----------------------------------------------------------------------------
\* createRun: the row and the job are two writes to two stores.

CreateRow ==
    /\ api = "idle"
    /\ api' = "created"
    /\ status' = "QUEUED"
    /\ UNCHANGED <<totalUsed, queue, pc, memory, rows, edits>>

Enqueue ==
    /\ api = "created"
    /\ api' = "returned"
    /\ job' = "waiting"
    /\ UNCHANGED <<runRow, attemptsMade, stalled, execs, outlived, pc, memory, rows, edits>>

\* Mutation: the failed request closes the row itself.
MutEnqueueFails ==
    /\ "enqueue" \in Faults
    /\ api = "created"
    /\ api' = "failed"
    /\ status' = "FAILED"
    /\ UNCHANGED <<totalUsed, queue, pc, memory, rows, edits>>

\* Redis refuses the job, or the API process dies between the two writes.
EnqueueFails ==
    /\ "enqueue" \in Faults
    /\ api = "created"
    /\ api' = "failed"
    /\ UNCHANGED <<runRow, queue, pc, memory, rows, edits>>

-----------------------------------------------------------------------------
\* The BullMQ queue.

Goto(e, label) == pc' = [pc EXCEPT ![e] = label]

PickUp ==
    /\ job = "waiting"
    /\ job' = "active"
    /\ execs' = execs + 1
    /\ Goto(execs + 1, "start")
    /\ UNCHANGED <<runRow, api, attemptsMade, stalled, outlived, memory, rows, edits>>

\* The fixed backoff of a failed attempt elapses.
BackoffEnds ==
    /\ job = "delayed"
    /\ job' = "waiting"
    /\ UNCHANGED <<runRow, api, attemptsMade, stalled, execs, outlived, pc, memory, rows, edits>>

HoldsLock(e) == job = "active" /\ e = execs

\* Mutation: a stalled job is requeued without limit.
MutLockLapsesForEver ==
    /\ job = "active"
    /\ "stall" \in Faults \/ pc[execs] = "dead"
    /\ stalled' = stalled + 1
    /\ job' = "waiting"
    /\ outlived' = IF Live(execs) THEN outlived \cup {execs} ELSE outlived
    /\ UNCHANGED <<runRow, api, attemptsMade, execs, pc, memory, rows, edits>>

\* The lock of the active job lapses: its worker is dead, or alive and unable
\* to renew it ("stall"), and then it keeps running without the lock.
LockLapses ==
    /\ job = "active"
    /\ "stall" \in Faults \/ pc[execs] = "dead"
    /\ stalled' = stalled + 1
    /\ job' = IF stalled < MaxStalls THEN "waiting" ELSE "failed"
    /\ outlived' = IF Live(execs) THEN outlived \cup {execs} ELSE outlived
    /\ UNCHANGED <<runRow, api, attemptsMade, execs, pc, memory, rows, edits>>

\* process() resolved.  A worker without the lock changes nothing in the queue.
ReportSuccess(e) ==
    /\ pc[e] = "done"
    /\ Goto(e, "closed")
    /\ job' = IF HoldsLock(e) THEN "completed" ELSE job
    /\ UNCHANGED <<runRow, api, attemptsMade, stalled, execs, outlived, memory, rows, edits>>

\* process() rejected.
ReportFailure(e) ==
    /\ pc[e] = "thrown"
    /\ Goto(e, "closed")
    /\ IF HoldsLock(e)
         THEN /\ attemptsMade' = attemptsMade + 1
              /\ job' = IF attemptsMade + 1 < Attempts THEN "delayed" ELSE "failed"
         ELSE UNCHANGED <<attemptsMade, job>>
    /\ UNCHANGED <<runRow, api, stalled, execs, outlived, memory, rows, edits>>

\* The worker's process dies.
Crash(e) ==
    /\ "crash" \in Faults
    /\ Live(e)
    /\ Goto(e, "dead")
    /\ UNCHANGED <<runRow, api, queue, memory, rows, edits>>

-----------------------------------------------------------------------------
\* updateTeam and saveTeamGraph, the two handlers that replace a team's agents:
\* a count of active runs, then a transaction that deletes the agents.

Active == {"QUEUED", "RUNNING"}

CheckNoActiveRun ==
    /\ "edit" \in Faults
    /\ editor = "idle"
    /\ status \notin Active
    /\ editor' = "checked"
    /\ UNCHANGED <<runRow, api, queue, pc, memory, rows, erased>>

\* Deleting an agent deletes its steps (onDelete: Cascade), of any run.
ReplaceAgents ==
    /\ editor = "checked"
    /\ editor' = "idle"
    /\ erased' = {e \in Exec : team[e] # Unloaded}
    /\ step' = [e \in Exec |-> [i \in Position |->
                   IF step[e][i] = "none" THEN "none" ELSE "deleted"]]
    /\ UNCHANGED <<runRow, api, queue, pc, memory, tokens>>

-----------------------------------------------------------------------------
\* runPipeline.

\* Every other await takes what time it takes: the marks, the loads, the saved
\* steps, the recall, the resolution of a prompt.  All of it is charged at the
\* head of the loop, where the clock is read; once the run has timed out, no
\* more of it makes a difference.
TimePasses(e) ==
    /\ pc[e] = "loop" /\ done[e] < team[e]
    /\ elapsed[e] <= RunTimeout
    /\ elapsed' = [elapsed EXCEPT ![e] = @ + 1]
    /\ UNCHANGED <<runRow, api, queue, pc, team, done, total, waited, rows, edits>>

MarkRunning(e) ==
    /\ pc[e] = "start"
    /\ status' = "RUNNING"
    /\ Goto(e, "load")
    /\ UNCHANGED <<totalUsed, api, queue, memory, rows, edits>>

\* The enabled agents and their order.  Their number may differ from one
\* execution to the next: the team may have been edited in between.
LoadTeam(e) ==
    /\ pc[e] = "load"
    /\ \E k \in 0 .. MaxAgents : team' = [team EXCEPT ![e] = k]
    /\ Goto(e, "loop")
    /\ UNCHANGED <<runRow, api, queue, done, total, clock, rows, edits>>

\* Mutations: one of the two checks at the head of the loop is missing.
MutMayStartNoBudget(e) == elapsed[e] <= RunTimeout
MutMayStartNoTimeout(e) == total[e] < Budget

MayStart(e) == elapsed[e] <= RunTimeout /\ total[e] < Budget

StartStep(e) ==
    /\ pc[e] = "loop"
    /\ done[e] < team[e]
    /\ MayStart(e)
    /\ e \notin erased
    /\ step' = [step EXCEPT ![e][done[e] + 1] = "RUNNING"]
    /\ Goto(e, "stream")
    /\ UNCHANGED <<runRow, api, queue, memory, tokens, edits>>

\* The run timed out or its token budget is spent.
RefuseStep(e) ==
    /\ pc[e] = "loop"
    /\ done[e] < team[e]
    /\ ~ MayStart(e)
    /\ Goto(e, "fail")
    /\ UNCHANGED <<runRow, api, queue, memory, rows, edits>>

\* The race between the stream and its timeout, and what follows it that needs
\* no database: the race took d ticks and the token counter said r.
Streamed(e, d, r) ==
    /\ pc[e] = "stream"
    /\ elapsed' = [elapsed EXCEPT ![e] = @ + d]
    /\ waited' = [waited EXCEPT ![e] = @ + d]
    /\ total' = [total EXCEPT ![e] = @ + r]

CompleteStep(e) ==
    \E d \in 0 .. StepTimeout, r \in Reports :
        /\ e \notin erased
        /\ Streamed(e, d, r)
        /\ step' = [step EXCEPT ![e][done[e] + 1] = "COMPLETED"]
        /\ tokens' = [tokens EXCEPT ![e][done[e] + 1] = r]
        /\ done' = [done EXCEPT ![e] = @ + 1]
        /\ Goto(e, "loop")
        /\ UNCHANGED <<runRow, api, queue, team, edits>>

\* The COMPLETED write of the step fails after totalTokens was increased.
SaveStepFails(e) ==
    /\ "db" \in Faults \/ e \in erased
    /\ \E d \in 0 .. StepTimeout, r \in Reports : Streamed(e, d, r)
    /\ Goto(e, "stepFail")
    /\ UNCHANGED <<runRow, api, queue, team, done, rows, edits>>

\* The provider fails, the step times out, or its agent no longer exists.
StreamFails(e) ==
    /\ \E d \in 0 .. StepTimeout : Streamed(e, d, 0)
    /\ Goto(e, "stepFail")
    /\ UNCHANGED <<runRow, api, queue, team, done, rows, edits>>

\* Mutation: the inner catch does not rethrow.
MutFailStep(e) ==
    /\ pc[e] = "stepFail"
    /\ e \notin erased
    /\ step' = [step EXCEPT ![e][done[e] + 1] = "FAILED"]
    /\ done' = [done EXCEPT ![e] = @ + 1]
    /\ Goto(e, "loop")
    /\ UNCHANGED <<runRow, api, queue, team, total, clock, tokens, edits>>

FailStep(e) ==
    /\ pc[e] = "stepFail"
    /\ e \notin erased
    /\ step' = [step EXCEPT ![e][done[e] + 1] = "FAILED"]
    /\ Goto(e, "fail")
    /\ UNCHANGED <<runRow, api, queue, memory, tokens, edits>>

\* Mutation: the row's total is incremented, not set.
MutCompleteRun(e) ==
    /\ pc[e] = "loop"
    /\ done[e] = team[e]
    /\ status' = "COMPLETED"
    /\ totalUsed' = totalUsed + total[e]
    /\ \E label \in {"done"} \cup (IF team[e] > 0 THEN {"lookup"} ELSE {}) :
          Goto(e, label)
    /\ UNCHANGED <<api, queue, memory, rows, edits>>

\* completeRun, and whether there is an output to hand to the memory service.
CompleteRun(e) ==
    /\ pc[e] = "loop"
    /\ done[e] = team[e]
    /\ status' = "COMPLETED"
    /\ totalUsed' = total[e]
    /\ \E label \in {"done"} \cup (IF team[e] > 0 THEN {"lookup"} ELSE {}) :
          Goto(e, label)
    /\ UNCHANGED <<api, queue, memory, rows, edits>>

LookupUser(e) ==
    /\ pc[e] = "lookup"
    /\ Goto(e, "done")
    /\ UNCHANGED <<runRow, api, queue, memory, rows, edits>>

\* The outer catch.
FailRun(e) ==
    /\ pc[e] = "fail"
    /\ status' = "FAILED"
    /\ totalUsed' = total[e]
    /\ Goto(e, "done")
    /\ UNCHANGED <<api, queue, memory, rows, edits>>

\* Mutation: an error of the outer catch's own write is swallowed.
MutOnDbError(e) ==
    CASE pc[e] \in {"start", "load"}    -> "thrown"
      [] pc[e] = "fail"                 -> "done"
      [] pc[e] = "loop" /\ team[e] = 0  -> "thrown"
      [] OTHER                          -> "fail"

\* Where control goes when the database call at a label throws: out of
\* runPipeline from outside its try block, to the outer catch from inside it.
OnDbError(e) ==
    CASE pc[e] \in {"start", "load", "fail"} -> "thrown"
      [] pc[e] = "loop" /\ team[e] = 0       -> "thrown"
      [] OTHER                               -> "fail"

\* A write that names a deleted agent or step fails as well.
DbFails(e) ==
    /\ \/ /\ "db" \in Faults
          /\ pc[e] \in {"start", "load", "lookup", "fail"}
       \/ /\ "db" \in Faults
          /\ pc[e] = "loop" /\ done[e] = team[e]
       \/ /\ "db" \in Faults \/ e \in erased
          /\ pc[e] = "stepFail" \/ (pc[e] = "loop" /\ done[e] < team[e] /\ MayStart(e))
    /\ Goto(e, OnDbError(e))
    /\ UNCHANGED <<runRow, api, queue, memory, rows, edits>>

-----------------------------------------------------------------------------
Pipeline(e) ==
    \/ MarkRunning(e) \/ LoadTeam(e)
    \/ StartStep(e)   \/ RefuseStep(e)
    \/ CompleteStep(e) \/ SaveStepFails(e) \/ StreamFails(e) \/ FailStep(e)
    \/ CompleteRun(e) \/ LookupUser(e) \/ FailRun(e)
    \/ DbFails(e)

Worker(e) == Pipeline(e) \/ ReportSuccess(e) \/ ReportFailure(e)
Broker == PickUp \/ BackoffEnds
LapseOfDeadWorker == LockLapses /\ pc[execs] = "dead"

Next ==
    \/ CreateRow \/ Enqueue \/ EnqueueFails
    \/ PickUp \/ BackoffEnds \/ LockLapses
    \/ CheckNoActiveRun \/ ReplaceAgents
    \/ \E e \in Exec : Worker(e) \/ TimePasses(e) \/ Crash(e)

Spec == Init /\ [][Next]_vars

(***************************************************************************)
(* A request that was accepted runs on; a live worker keeps running (every *)
(* provider call is raced against STEP_TIMEOUT_MS); BullMQ hands out       *)
(* waiting jobs, promotes delayed ones and checks for lapsed locks on a    *)
(* timer.  No fault is fair.                                               *)
(***************************************************************************)
Fairness ==
    /\ WF_vars(CreateRow)
    /\ WF_vars(Enqueue \/ EnqueueFails)
    /\ WF_vars(Broker)
    /\ WF_vars(LapseOfDeadWorker)
    /\ \A e \in Exec : WF_vars(Worker(e))

FairSpec == Spec /\ Fairness

-----------------------------------------------------------------------------
\* Correctness.

Pcs == Working \cup {"idle", "closed", "dead"}

\* Every column, counter and local variable has a value of its type; the steps
\* an execution completed never outnumber the agents it loaded.
TypeOK ==
    /\ status \in {"none", "QUEUED", "RUNNING"} \cup Terminal
    /\ totalUsed \in Nat
    /\ api \in {"idle", "created", "returned", "failed"}
    /\ job \in {"none", "waiting", "active", "delayed", "completed", "failed"}
    /\ attemptsMade \in 0 .. Attempts
    /\ stalled \in 0 .. MaxStalls + 1
    /\ execs \in 0 .. Attempts + MaxStalls
    /\ outlived \subseteq Exec
    /\ pc \in [Exec -> Pcs]
    /\ team \in [Exec -> {Unloaded} \cup 0 .. MaxAgents]
    /\ done \in [Exec -> 0 .. MaxAgents]
    /\ total \in [Exec -> Nat]
    /\ elapsed \in [Exec -> Nat]
    /\ waited \in [Exec -> Nat]
    /\ step \in [Exec -> [Position ->
                 {"none", "RUNNING", "COMPLETED", "FAILED", "deleted"}]]
    /\ tokens \in [Exec -> [Position -> Nat]]
    /\ editor \in {"idle", "checked"}
    /\ erased \subseteq Exec

AllStepsDone(e) ==
    /\ team[e] # Unloaded
    /\ done[e] = team[e]
    /\ \A i \in 1 .. team[e] : step[e][i] \in {"COMPLETED", "deleted"}

\* A run row says COMPLETED only if one and the same execution completed the
\* step of every agent it loaded, and the row's total is that execution's,
\* although stalled executions and retries write the same row (completeRun).
CompletedMeansAllSteps ==
    status = "COMPLETED" =>
        \E e \in Exec : AllStepsDone(e) /\ totalUsed = total[e]

\* A terminal row's total is that of one execution: exactly the sum of the
\* token counts its steps recorded when it completed, and at least that sum
\* when it failed, because totalTokens grows before the step is saved.
SpendMatchesSteps ==
    status \in Terminal =>
        \E e \in Exec :
            /\ totalUsed = total[e]
            /\ IF status = "COMPLETED"
                 THEN AllStepsDone(e) /\ totalUsed = SumFunction(tokens[e])
                 ELSE pc[e] # "idle" /\ SumFunction(tokens[e]) <= totalUsed

\* A step is requested only while budget remains, so the max_tokens it asks
\* for is at least 1, and a run overshoots its plan's budget by less than the
\* tokens of its last step (the checks at the head of the step loop).
SpendBound ==
    \A e \in Exec :
        /\ pc[e] = "stream" => Budget - total[e] >= 1
        /\ total[e] < Budget + MaxReport
        /\ totalUsed < Budget + MaxReport

\* Whatever the other awaits take, an execution waits for the provider no
\* longer than RUN_TIMEOUT_MS and the one step it may start just before that:
\* the waits of all its steps together are bounded by a check of the clock and
\* a timeout per step.
WaitBound == \A e \in Exec : waited[e] <= RunTimeout + StepTimeout

\* However failures and lapsed locks interleave, the pipeline of one run is
\* executed at most Attempts + MaxStalls times, and a job that waits can
\* still be executed once more (the attempts option of runQueue.add).
ExecutionsBounded ==
    /\ execs <= Attempts + MaxStalls
    /\ job = "waiting" => execs < Attempts + MaxStalls

\* Unless a worker outlived its lock, a job the queue counts as completed has
\* left its run in a terminal state: runPipeline resolves only after it wrote
\* one, on every path through its catch blocks.
JobCompletedMeansTerminal ==
    job = "completed" /\ outlived = {} => status \in Terminal

\* A run stays out of a terminal state for ever only if its job was never
\* enqueued, the queue gave it up, or a worker outlived its lock and wrote last.
RunSettles ==
    <>[](status \in Terminal \/ job = "failed" \/ api = "failed" \/ outlived # {})

\* A terminal state of a run row is final.
TerminalIsFinal == [][(status \in Terminal) => (status' = status)]_vars

\* What the abstract record says of an execution at a label.
Phase(label) ==
    CASE label = "idle"                                -> "unborn"
      [] label = "start"                               -> "fresh"
      [] label \in {"done", "thrown", "closed", "dead"} -> "over"
      [] OTHER                                         -> "open"

\* The row is written as RunRecord promises.
Record == INSTANCE RunRecord WITH
    Executions <- Exec, Overlap <- "stall" \in Faults,
    record <- status, phase <- [e \in Exec |-> Phase(pc[e])]

\* The pipeline implements the abstract run record: only executions in
\* progress write the row, RUNNING first, and success may be revised to
\* failure by the execution that reported it but never the reverse.
ImplementsRecord == Record!RecordSpec
=============================================================================
