------------------------------ MODULE RunRecord ------------------------------
(***************************************************************************)
(* What the row of one agent run promises, whatever the queue, the workers *)
(* and the database do: who may write its status, and in what order.       *)
(* RunPipeline implements it; the stream of run events relies on it.       *)
(***************************************************************************)
CONSTANTS
    Executions,   \* the executions the run's job may cause
    Overlap       \* may an execution begin while another still writes?

VARIABLES
    record,       \* the status the row shows
    phase         \* how far each execution has come

Outcome == {"COMPLETED", "FAILED"}
Writing == {"fresh", "open"}

RecordInit ==
    /\ record = "none"
    /\ phase = [e \in Executions |-> "unborn"]

MoveTo(e, p) == phase' = [phase EXCEPT ![e] = p]

\* The request is accepted: the row exists before any execution does.
Accept ==
    /\ record = "none"
    /\ record' = "QUEUED"
    /\ UNCHANGED phase

Take(e) ==
    /\ record # "none"
    /\ phase[e] = "unborn"
    /\ Overlap \/ \A f \in Executions : phase[f] \notin Writing
    /\ MoveTo(e, "fresh")
    /\ UNCHANGED record

Mark(e) ==
    /\ phase[e] = "fresh"
    /\ record' = "RUNNING"
    /\ MoveTo(e, "open")

\* Success may still be revised to failure by the same execution, not the
\* other way round.
Succeed(e) ==
    /\ phase[e] = "open"
    /\ record' = "COMPLETED"
    /\ MoveTo(e, "open") \/ MoveTo(e, "over")

Fail(e) ==
    /\ phase[e] = "open"
    /\ record' = "FAILED"
    /\ MoveTo(e, "over")

\* An execution ends without a last word: it died, or could not write.
Leave(e) ==
    /\ phase[e] \in Writing
    /\ MoveTo(e, "over")
    /\ UNCHANGED record

RecordNext ==
    \/ Accept
    \/ \E e \in Executions : Take(e) \/ Mark(e) \/ Succeed(e) \/ Fail(e) \/ Leave(e)

RecordSpec == RecordInit /\ [][RecordNext]_<<record, phase>>
=============================================================================
