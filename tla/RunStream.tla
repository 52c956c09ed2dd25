------------------------------ MODULE RunStream ------------------------------
(***************************************************************************)
(* GET /agent-runs/:id/stream: one SSE connection that follows one run     *)
(* through a database snapshot and a Redis channel, beside the executions  *)
(* that write the run's rows and publish its events.                       *)
(*                                                                         *)
(* The publisher is RunPipeline cut down to what a stream can tell apart:  *)
(* the order of its row writes and its publishes.  Executions follow one   *)
(* another (a worker dies or rejects, the job is handed out again) and     *)
(* never overlap; the job may be given up, or never be enqueued at all.    *)
(***************************************************************************)
EXTENDS Integers, Sequences, SequencesExt

CONSTANTS
    MaxSteps,    \* step rows all executions of the run create, at most
    MaxExecs,    \* executions of the run, at most
    Losable      \* the kinds of event whose publish may fail

ASSUME StreamAssumption ==
    /\ MaxSteps \in Nat /\ MaxExecs \in Nat \ {0}
    /\ Losable \subseteq {"step_start", "token", "step_complete", "run_complete", "run_error"}

VARIABLES
    status,      \* AgentRun.status
    rows,        \* AgentRunStep.status of the run's steps, in creation order
    exec,        \* executions begun
    at,          \* where the current execution is
    stray,       \* steps that timed out with their provider stream still open
    lost,        \* terminal events whose publish failed
    conn,        \* progress of the stream request
    snap,        \* the snapshot it read
    replayed,    \* alreadyEmittedStepIds
    wire,        \* messages on their way to the subscriber
    early, late, \* milestones that found no handler, before and after the snapshot
    gone,        \* the client disconnected before anything listened for it
    sent         \* events written to the response

run == <<status, rows, exec, at, stray>>
connection == <<conn, snap, replayed, early, late, gone, sent>>
vars == <<run, lost, connection, wire>>

Step == 1 .. MaxSteps
Kinds == {"step_start", "token", "step_complete"}
Closing == {<<"run_complete", 0>>, <<"run_error", 0>>}
Event == (Kinds \X Step) \cup Closing

\* The events the ghost variables early and late keep.
Milestone == ({"step_complete"} \X Step) \cup Closing

NoSnapshot == [status |-> "none", rows |-> <<>>]

Init ==
    /\ status = "none" /\ rows = <<>> /\ exec = 0 /\ at = "idle"
    /\ stray = {} /\ lost = {}
    /\ conn = "idle" /\ snap = NoSnapshot /\ replayed = {}
    /\ wire = <<>> /\ early = {} /\ late = {} /\ gone = FALSE
    /\ sent = <<>>

-----------------------------------------------------------------------------
\* The run.

Subscribed == conn \in {"subscribed", "snapshotted", "attached"}

\* emitEvent: Redis passes the message to those subscribed now; a failure is
\* logged and forgotten.
Publish(event) ==
    \E ok \in IF event[1] \in Losable THEN BOOLEAN ELSE {TRUE} :
        /\ lost' = IF ok THEN lost ELSE lost \cup ({event} \cap Closing)
        /\ wire' = IF ok /\ Subscribed THEN Append(wire, event) ELSE wire

Silent == UNCHANGED <<lost, wire>>

Accept ==
    /\ status = "none"
    /\ status' = "QUEUED"
    /\ UNCHANGED <<rows, exec, at, stray, connection>> /\ Silent

\* Nobody executes the job: it is not enqueued yet, or its last execution ended
\* without its last word ("dead"), or with it but unreported ("lapsed").
Untaken == {"idle", "dead", "lapsed"}

\* Mutation: the job is handed out while an execution has it.
MutTake ==
    /\ status # "none"
    /\ at # "givenUp"
    /\ exec < MaxExecs
    /\ exec' = exec + 1
    /\ at' = IF at = "idle" THEN "fresh" ELSE "loop"
    /\ UNCHANGED <<status, rows, stray, connection>> /\ Silent

Take ==
    /\ status # "none"
    /\ at \in Untaken
    /\ exec < MaxExecs
    /\ exec' = exec + 1
    /\ at' = "fresh"
    /\ UNCHANGED <<status, rows, stray, connection>> /\ Silent

\* The job is not enqueued, or the queue will not hand it out again.
GiveUp ==
    /\ status # "none"
    /\ at \in Untaken
    /\ at' = IF at = "lapsed" THEN "over" ELSE "givenUp"
    /\ UNCHANGED <<status, rows, exec, stray, connection>> /\ Silent

Mark ==
    /\ at = "fresh"
    /\ status' = "RUNNING"
    /\ at' = "load"
    /\ UNCHANGED <<rows, exec, stray, connection>> /\ Silent

\* The team, its order and what else precedes the try block.
Load ==
    /\ at = "load"
    /\ at' = "loop"
    /\ UNCHANGED <<status, rows, exec, stray, connection>> /\ Silent

CreateStep ==
    /\ at = "loop"
    /\ Len(rows) < MaxSteps
    /\ rows' = Append(rows, "RUNNING")
    /\ at' = "created"
    /\ UNCHANGED <<status, exec, stray, connection>> /\ Silent

current == Len(rows)

Emit(label, event, next) ==
    /\ at = label
    /\ Publish(event)
    /\ at' = next
    /\ UNCHANGED <<status, rows, exec, stray, connection>>

\* Mutation: the completion is published and the row not saved.
MutSaveStep ==
    /\ at \in {"stream", "streamed"}
    /\ Publish(<<"step_complete", current>>)
    /\ at' = "saved"
    /\ UNCHANGED <<status, rows, exec, stray, connection>>

SaveStep ==
    /\ at \in {"stream", "streamed"}
    /\ rows' = [rows EXCEPT ![current] = "COMPLETED"]
    /\ at' = "saved"
    /\ UNCHANGED <<status, exec, stray, connection>> /\ Silent

\* A step fails; one that failed by its timeout leaves its stream running.
FailStep ==
    /\ at \in {"stream", "streamed"}
    /\ rows' = [rows EXCEPT ![current] = "FAILED"]
    /\ at' = "failing"
    /\ \/ stray' = stray \cup {current}
       \/ UNCHANGED stray
    /\ UNCHANGED <<status, exec, connection>> /\ Silent

StrayToken ==
    \E s \in stray :
        /\ Publish(<<"token", s>>)
        /\ stray' = stray \ {s}
        /\ UNCHANGED <<status, rows, exec, at, connection>>

CompleteRun ==
    /\ at = "loop"
    /\ status' = "COMPLETED"
    /\ at' = "completed"
    /\ UNCHANGED <<rows, exec, stray, connection>> /\ Silent

\* The lookup that follows completeRun succeeds, or sends control to the
\* outer catch like any other failure.
Lookup ==
    /\ at = "lookup"
    /\ at' \in {"over", "failing"}
    /\ UNCHANGED <<status, rows, exec, stray, connection>> /\ Silent

\* The outer catch; from the head of the loop on a timeout or a spent budget.
FailRun ==
    /\ at \in {"loop", "failing"}
    /\ status' = "FAILED"
    /\ at' = "failed"
    /\ UNCHANGED <<rows, exec, stray, connection>> /\ Silent

\* How an execution that ends here leaves its job: a terminal event was
\* published already, or was not.
Fallen ==
    IF at \in {"lookup", "over"} \/ (at = "failing" /\ status = "COMPLETED")
      THEN "lapsed" ELSE "dead"

\* runPipeline rejects: a database call outside its try block failed, an empty
\* team's completeRun included, or the write of the outer catch.
Reject ==
    /\ at \in {"fresh", "load", "failing"}
    /\ at' = Fallen
    /\ UNCHANGED <<status, rows, exec, stray, connection>> /\ Silent

\* The worker dies, at the latest before the queue learns the job is done.
Crash ==
    /\ at \notin Untaken \cup {"givenUp"}
    /\ at' = Fallen
    /\ stray' = {}
    /\ UNCHANGED <<status, rows, exec, connection>> /\ Silent

Emission ==
    \/ Emit("created", <<"step_start", current>>, "stream")
    \/ Emit("stream", <<"token", current>>, "streamed")
    \/ Emit("saved", <<"step_complete", current>>, "loop")
    \/ Emit("completed", <<"run_complete", 0>>, "lookup")
    \/ Emit("failed", <<"run_error", 0>>, "over")

Execution ==
    \/ Accept \/ Take \/ GiveUp \/ Mark \/ Load
    \/ CreateStep \/ SaveStep \/ FailStep
    \/ CompleteRun \/ Lookup \/ FailRun
    \/ Emission

-----------------------------------------------------------------------------
\* The connection.

Ongoing == UNCHANGED <<run, lost>>

\* Only the owner of an existing run gets as far as the subscription.
Subscribe ==
    /\ conn = "idle"
    /\ status # "none"
    /\ conn' \in {"subscribed", "refused"}
    /\ UNCHANGED <<snap, replayed, early, late, gone, sent, wire>> /\ Ongoing

\* The database reads the snapshot; its answer is on the way.
ReadSnapshot ==
    /\ conn = "subscribed"
    /\ conn' = "snapshotted"
    /\ snap' = [status |-> status, rows |-> rows]
    /\ UNCHANGED <<replayed, early, late, gone, sent, wire>> /\ Ongoing

\* The read throws: the request fails with its subscriber still subscribed.
SnapshotFails ==
    /\ conn = "subscribed"
    /\ conn' = "leaked"
    /\ UNCHANGED <<snap, replayed, early, late, gone, sent, wire>> /\ Ongoing

\* The replay of one step.  A COMPLETED run reports every step complete.
StepEvents(snapshot, s) ==
    LET saved == snapshot.rows[s] = "COMPLETED"
    IN  <<<<"step_start", s>>>>
        \o (IF saved THEN <<<<"token", s>>>> ELSE <<>>)
        \o (IF saved \/ snapshot.status = "COMPLETED"
              THEN <<<<"step_complete", s>>>> ELSE <<>>)

Replay(snapshot) ==
    FlattenSeq([s \in DOMAIN snapshot.rows |-> StepEvents(snapshot, s)])

ReplayTerminal ==
    /\ conn = "snapshotted"
    /\ snap.status \in {"COMPLETED", "FAILED"}
    /\ sent' = Replay(snap) \o
         << IF snap.status = "COMPLETED" THEN <<"run_complete", 0>> ELSE <<"run_error", 0>> >>
    /\ conn' = "ended"
    /\ wire' = <<>>
    /\ snap' = NoSnapshot
    /\ UNCHANGED <<replayed, early, late, gone>> /\ Ongoing

\* Mutation: the steps already replayed are not remembered.
MutAttach ==
    /\ conn = "snapshotted"
    /\ snap.status \notin {"COMPLETED", "FAILED"}
    /\ sent' = Replay(snap)
    /\ conn' = "attached"
    /\ snap' = NoSnapshot
    /\ UNCHANGED <<replayed, early, late, gone, wire>> /\ Ongoing

\* Mutation: only the steps that still run are replayed.
MutAttachRunningOnly ==
    /\ conn = "snapshotted"
    /\ snap.status \notin {"COMPLETED", "FAILED"}
    /\ replayed' = {s \in DOMAIN snap.rows : snap.rows[s] = "COMPLETED"}
    /\ sent' = SelectSeq(Replay(snap), LAMBDA event : event[1] = "step_start")
    /\ conn' = "attached"
    /\ snap' = NoSnapshot
    /\ UNCHANGED <<early, late, gone, wire>> /\ Ongoing

\* An active run: replay, then listen to the channel and to the client.
Attach ==
    /\ conn = "snapshotted"
    /\ snap.status \notin {"COMPLETED", "FAILED"}
    /\ replayed' = {s \in DOMAIN snap.rows : snap.rows[s] = "COMPLETED"}
    /\ sent' = Replay(snap)
    /\ conn' = "attached"
    /\ snap' = NoSnapshot
    /\ UNCHANGED <<early, late, gone, wire>> /\ Ongoing

\* A message that reaches the subscriber before its handler is attached.
Drop ==
    /\ wire # <<>>
    /\ conn \in {"subscribed", "snapshotted"}
    /\ wire' = Tail(wire)
    /\ IF conn = "subscribed"
         THEN early' = early \cup ({Head(wire)} \cap Milestone) /\ UNCHANGED late
         ELSE late' = late \cup ({Head(wire)} \cap Milestone) /\ UNCHANGED early
    /\ UNCHANGED <<conn, snap, replayed, gone, sent>> /\ Ongoing

\* Mutation: a terminal event is forwarded and the response left open.
MutForward ==
    /\ wire # <<>>
    /\ conn = "attached"
    /\ wire' = Tail(wire)
    /\ sent' = IF Head(wire)[2] \in replayed THEN sent ELSE Append(sent, Head(wire))
    /\ UNCHANGED <<conn, snap, replayed, early, late, gone>> /\ Ongoing

Forward ==
    /\ wire # <<>>
    /\ conn = "attached"
    /\ sent' = IF Head(wire)[2] \in replayed THEN sent ELSE Append(sent, Head(wire))
    /\ IF Head(wire) \in Closing
         THEN conn' = "ended" /\ wire' = <<>>
         ELSE UNCHANGED conn /\ wire' = Tail(wire)
    /\ UNCHANGED <<snap, replayed, early, late, gone>> /\ Ongoing

\* The client leaves, or the subscriber reports an error.  Nothing listens for
\* either before the handlers are attached.
Disconnect ==
    /\ conn \in {"subscribed", "snapshotted", "attached"}
    /\ ~ gone
    /\ IF conn = "attached"
         THEN conn' = "ended" /\ wire' = <<>> /\ UNCHANGED gone
         ELSE gone' = TRUE /\ UNCHANGED <<conn, wire>>
    /\ UNCHANGED <<snap, replayed, early, late, sent>> /\ Ongoing

-----------------------------------------------------------------------------
Next ==
    \/ Execution \/ StrayToken \/ Reject \/ Crash
    \/ Subscribe \/ ReadSnapshot \/ SnapshotFails
    \/ ReplayTerminal \/ Attach
    \/ Drop \/ Forward \/ Disconnect

Spec == Init /\ [][Next]_vars

(***************************************************************************)
(* The run makes progress or its job is given up (RunPipeline), Redis and  *)
(* the database answer, and the event loop handles what arrived.  Clients  *)
(* need not come, and no failure need happen.                              *)
(***************************************************************************)
Fairness ==
    /\ WF_vars(Execution)
    /\ WF_vars(ReadSnapshot \/ SnapshotFails)
    /\ WF_vars(ReplayTerminal \/ Attach)
    /\ WF_vars(Drop \/ Forward)

FairSpec == Spec /\ Fairness

-----------------------------------------------------------------------------
\* Correctness.

\* However the replay and the channel race, a step's completion is written to
\* the client at most once (alreadyEmittedStepIds).
CompletedOnce ==
    \A i, j \in DOMAIN sent :
        sent[i][1] = "step_complete" /\ sent[i] = sent[j] => i = j

\* A response carries at most one terminal event, as its last, and no further
\* event of the run is written after it, although executions that follow and
\* streams that outlived their step keep publishing.
TerminalEventEnds ==
    \A i \in DOMAIN sent :
        sent[i] \in Closing => i = Len(sent) /\ conn = "ended"

\* The client of a run that was executed once is told a step completed only
\* if the step's row says so.
TruthfulCompletion ==
    exec <= 1 =>
        \A i \in DOMAIN sent :
            sent[i][1] = "step_complete" => rows[sent[i][2]] = "COMPLETED"

\* "Snapshot current run state (covers race where steps ran before subscribe)"
\* (agent-runs.controller.ts:173): a completion that reached the subscriber
\* before the snapshot was read is in the response, because the row is saved
\* before its event is published.
SnapshotCoversEarly ==
    conn = "attached" =>
        \A event \in early :
            event[1] = "step_complete" => \E i \in DOMAIN sent : sent[i] = event

\* A stream that follows an active run ends, however often the run is executed
\* again, unless its terminal event was lost or came between the snapshot and
\* the handler, or the job was given up before an execution published one.
StreamEnds ==
    conn = "attached" ~>
        \/ conn = "ended"
        \/ (late \cup lost) \cap Closing # {}
        \/ at = "givenUp"

\* "subscription is guaranteed active" (agent-runs.controller.ts:197): the
\* stream of an active run ends with the run, if that ends at all.
ActiveStreamEnds ==
    (conn = "attached" /\ ~ gone) ~> (conn = "ended" \/ at = "givenUp")

Over == {"failed", "over", "dead", "lapsed", "givenUp"}

Phase(e) ==
    IF e > exec THEN "unborn"
    ELSE CASE e < exec \/ at \in Over  -> "over"
           [] e = exec /\ at = "fresh"  -> "fresh"
           [] OTHER                     -> "open"

Record == INSTANCE RunRecord WITH
    Executions <- 1 .. MaxExecs, Overlap <- FALSE,
    record <- status, phase <- [e \in 1 .. MaxExecs |-> Phase(e)]

\* The run a stream follows is the one RunPipeline implements: its row is
\* written as RunRecord promises.
FollowsRecord == Record!RecordSpec
=============================================================================
