------------------------------- MODULE TeamRuns -------------------------------
(***************************************************************************)
(* One user's requests against teams and runs: createTeam, useTemplate,    *)
(* updateTeam, saveTeamGraph, deleteTeam and createRun of                  *)
(* AgentRunsService.  Every handler first counts or looks, then writes; up *)
(* to Overlap requests interleave between those awaits.  What the worker   *)
(* does to a run is reduced to the status of its row (RunRecord).          *)
(*                                                                         *)
(* PostgreSQL runs the handlers' transactions at its default isolation,    *)
(* READ COMMITTED: a statement sees what was committed when it began, and  *)
(* an updated row stays locked until its transaction ends.  An update that *)
(* names no column runs no UPDATE: a PATCH of the agents alone             *)
(* ("replaceAgents") deletes and inserts them without a lock, as           *)
(* saveTeamGraph does; "updateTeam" is a PATCH of the agents and the row.  *)
(***************************************************************************)
EXTENDS Integers, FiniteSets

CONSTANTS
    Request,          \* requests; also names the agents or the run it creates
    Team,             \* team ids
    Kind,             \* the kinds of request that arrive
    Overlap,          \* requests in flight, at most
    TeamLimit,        \* TEAM_LIMIT of the user's plan
    ConcurrentLimit,  \* CONCURRENT_RUN_LIMIT
    MonthlyLimit,     \* MONTHLY_RUN_LIMIT
    MaxReruns,        \* finished runs that are executed again, at most
    NoTeam, NoRequest

\* The replacements of a team's agents that do not update its row.
Lockless == {"replaceAgents", "saveGraph"}

AllKinds == {"createTeam", "useTemplate", "updateTeam", "deleteTeam", "createRun"} \cup Lockless

ASSUME TeamRunsAssumption ==
    /\ IsFiniteSet(Request) /\ IsFiniteSet(Team)
    /\ Kind \subseteq AllKinds
    /\ Overlap \in Nat \ {0} /\ MaxReruns \in Nat
    /\ TeamLimit \in Nat \ {0} /\ ConcurrentLimit \in Nat \ {0} /\ MonthlyLimit \in Nat \ {0}
    /\ NoTeam \notin Team /\ NoRequest \notin Request

VARIABLES
    teams,     \* rows of AgentTeam
    agents,    \* per team: the requests whose agents it has
    lock,      \* per team: the transaction that updated its row
    row,       \* AgentRun.status by the request that created the run
    of,        \* and its teamId
    again,     \* the runs that were executed again after they had ended
    at,        \* progress of each request
    kind,      \* what it asks for
    target,    \* and of which team
    saw        \* the agents, or for a deletion the runs, it read

store == <<teams, agents, lock, row, of, again>>
vars == <<store, at, kind, target, saw>>

Active == {"QUEUED", "RUNNING"}
ActiveRuns == {x \in Request : row[x] \in Active}
RunsOf(t) == {x \in Request : row[x] \notin {"none", "deleted"} /\ of[x] = t}
Stored == {x \in Request : row[x] \notin {"none", "deleted"}}
InFlight == {r \in Request : at[r] \notin {"idle", "done"}}

\* The user starts with one team, unless the first request creates it.
Init ==
    /\ teams \in {{}} \cup {{t} : t \in Team}
    /\ agents = [t \in Team |-> {}]
    /\ lock = [t \in Team |-> NoRequest]
    /\ row = [x \in Request |-> "none"]
    /\ of = [x \in Request |-> NoTeam]
    /\ again = {}
    /\ at = [r \in Request |-> "idle"]
    /\ kind = [r \in Request |-> "none"]
    /\ target = [r \in Request |-> NoTeam]
    /\ saw = [r \in Request |-> {}]

Goto(r, label) == at' = [at EXCEPT ![r] = label]

\* A decision of the handler: go on, or answer with an error.
Decide(r, condition, label) == Goto(r, IF condition THEN label ELSE "done")

IsAt(r, label, kinds) == at[r] = label /\ kind[r] \in kinds

-----------------------------------------------------------------------------
Arrive(r) ==
    /\ at[r] = "idle"
    /\ Cardinality(InFlight) < Overlap
    /\ \E k \in Kind, t \in Team :
          /\ k \in {"createTeam", "useTemplate"} =>
                t \notin teams /\ \A q \in Request : target[q] # t
          /\ kind' = [kind EXCEPT ![r] = k]
          /\ target' = [target EXCEPT ![r] = t]
    /\ Goto(r, "begin")
    /\ UNCHANGED <<store, saw>>

\* createTeam and useTemplate: the team count, then the insert.

\* Mutation: off by one.
MutCountTeams(r) ==
    /\ IsAt(r, "begin", {"createTeam", "useTemplate"})
    /\ Decide(r, Cardinality(teams) <= TeamLimit, "admitted")
    /\ UNCHANGED <<store, kind, target, saw>>

CountTeams(r) ==
    /\ IsAt(r, "begin", {"createTeam", "useTemplate"})
    /\ Decide(r, Cardinality(teams) < TeamLimit, "admitted")
    /\ UNCHANGED <<store, kind, target, saw>>

\* One create with nested agents, or one transaction that copies the template.
InsertTeam(r) ==
    /\ IsAt(r, "admitted", {"createTeam", "useTemplate"})
    /\ \/ /\ teams' = teams \cup {target[r]}
          /\ agents' = [agents EXCEPT ![target[r]] = {r}]
       \/ UNCHANGED <<teams, agents>>
    /\ Goto(r, "done")
    /\ UNCHANGED <<lock, row, of, again, kind, target, saw>>

FindTeam(r) ==
    /\ IsAt(r, "begin", {"createRun", "updateTeam"} \cup Lockless)
    /\ Decide(r, target[r] \in teams, "found")
    /\ UNCHANGED <<store, kind, target, saw>>

-----------------------------------------------------------------------------
\* createRun: two counts, then the insert.  In between the API key and the
\* model may be refused.

\* Mutation: only running runs count.
MutCountActive(r) ==
    /\ IsAt(r, "found", {"createRun"})
    /\ Decide(r, Cardinality({x \in Request : row[x] = "RUNNING"}) < ConcurrentLimit, "counted")
    /\ UNCHANGED <<store, kind, target, saw>>

CountActive(r) ==
    /\ IsAt(r, "found", {"createRun"})
    /\ Decide(r, Cardinality(ActiveRuns) < ConcurrentLimit, "counted")
    /\ UNCHANGED <<store, kind, target, saw>>

\* All runs of the model are of one month.
CountMonth(r) ==
    /\ IsAt(r, "counted", {"createRun"})
    /\ Decide(r, Cardinality(Stored) < MonthlyLimit, "admitted")
    /\ UNCHANGED <<store, kind, target, saw>>

\* The insert fails on its foreign key if the team is gone.
InsertRun(r) ==
    /\ IsAt(r, "admitted", {"createRun"})
    /\ IF target[r] \in teams
         THEN /\ row' = [row EXCEPT ![r] = "QUEUED"]
              /\ of' = [of EXCEPT ![r] = target[r]]
         ELSE UNCHANGED <<row, of>>
    /\ Goto(r, "done")
    /\ UNCHANGED <<teams, agents, lock, again, kind, target, saw>>

-----------------------------------------------------------------------------
\* updateTeam and saveTeamGraph: a look at the runs, then one transaction.

CheckIdle(r) ==
    /\ IsAt(r, "found", {"updateTeam"} \cup Lockless)
    /\ Decide(r, RunsOf(target[r]) \cap ActiveRuns = {}, "checked")
    /\ UNCHANGED <<store, kind, target, saw>>

\* Mutation: the row is not updated, so not locked.
MutUpdateRow(r) ==
    /\ IsAt(r, "checked", {"updateTeam"})
    /\ Decide(r, target[r] \in teams, "locked")
    /\ UNCHANGED <<store, kind, target, saw>>

\* The transaction of a PATCH of the row begins with an update of it.
UpdateRow(r) ==
    /\ IsAt(r, "checked", {"updateTeam"})
    /\ lock[target[r]] = NoRequest
    /\ Decide(r, target[r] \in teams, "locked")
    /\ lock' = IF target[r] \in teams THEN [lock EXCEPT ![target[r]] = r] ELSE lock
    /\ UNCHANGED <<teams, agents, row, of, again, kind, target, saw>>

\* deleteMany sees the agents committed so far.
DeleteAgents(r) ==
    /\ IsAt(r, "locked", {"updateTeam"}) \/ IsAt(r, "checked", Lockless)
    /\ saw' = [saw EXCEPT ![r] = agents[target[r]]]
    /\ Goto(r, "deleting")
    /\ UNCHANGED <<store, kind, target>>

Unlock(r) == lock' = [t \in Team |-> IF lock[t] = r THEN NoRequest ELSE lock[t]]

\* The new agents are inserted and the transaction commits, or it fails: the
\* team is gone (a PATCH without columns looks for it as well), a deadlock, a
\* timeout.
EndTransaction(r) ==
    /\ at[r] = "deleting"
    /\ \/ /\ target[r] \in teams
          /\ agents' = [agents EXCEPT ![target[r]] = (@ \ saw[r]) \cup {r}]
       \/ UNCHANGED agents
    /\ Unlock(r)
    /\ Goto(r, "done")
    /\ UNCHANGED <<teams, row, of, again, kind, target, saw>>

-----------------------------------------------------------------------------
\* deleteTeam: the team with its active runs, then the delete.

\* Mutation: a queued run does not keep its team.
MutCheckDelete(r) ==
    /\ IsAt(r, "begin", {"deleteTeam"})
    /\ Decide(r, /\ target[r] \in teams
                 /\ \A x \in RunsOf(target[r]) : row[x] # "RUNNING", "checked")
    /\ saw' = [saw EXCEPT ![r] = RunsOf(target[r])]
    /\ UNCHANGED <<store, kind, target>>

CheckDelete(r) ==
    /\ IsAt(r, "begin", {"deleteTeam"})
    /\ Decide(r, target[r] \in teams /\ RunsOf(target[r]) \cap ActiveRuns = {}, "checked")
    /\ saw' = [saw EXCEPT ![r] = RunsOf(target[r])]
    /\ UNCHANGED <<store, kind, target>>

\* The delete waits for the row's lock and cascades to agents and runs.
DeleteTeam(r) ==
    /\ IsAt(r, "checked", {"deleteTeam"})
    /\ lock[target[r]] = NoRequest
    /\ teams' = teams \ {target[r]}
    /\ agents' = [agents EXCEPT ![target[r]] = {}]
    /\ row' = [x \in Request |-> IF x \in RunsOf(target[r]) THEN "deleted" ELSE row[x]]
    /\ Goto(r, "done")
    /\ UNCHANGED <<lock, of, again, kind, target, saw>>

\* A request is refused for another reason: no such role, model or key.
Refuse(r) ==
    /\ at[r] \in {"begin", "found"}
    /\ Goto(r, "done")
    /\ UNCHANGED <<store, kind, target, saw>>

-----------------------------------------------------------------------------
\* What the worker makes of a run's row.

SetRow(x, from, to) ==
    /\ row[x] = from
    /\ row' = [row EXCEPT ![x] = to]
    /\ UNCHANGED <<teams, agents, lock, of, at, kind, target, saw>>

StartRun(x) == SetRow(x, "QUEUED", "RUNNING") /\ UNCHANGED again
EndRun(x) == SetRow(x, "RUNNING", "ended") /\ UNCHANGED again

\* The queue hands out a job again whose run has already ended.
Rerun(x) ==
    /\ again' = again \cup {x}
    /\ Cardinality(again') <= MaxReruns
    /\ SetRow(x, "ended", "RUNNING")

Handler(r) ==
    \/ CountTeams(r) \/ InsertTeam(r)
    \/ FindTeam(r) \/ CountActive(r) \/ CountMonth(r) \/ InsertRun(r)
    \/ CheckIdle(r) \/ UpdateRow(r) \/ DeleteAgents(r) \/ EndTransaction(r)
    \/ CheckDelete(r) \/ DeleteTeam(r)
    \/ Refuse(r)

Next ==
    \E r \in Request :
        \/ Arrive(r) \/ Handler(r)
        \/ StartRun(r) \/ EndRun(r) \/ Rerun(r)

Spec == Init /\ [][Next]_vars

-----------------------------------------------------------------------------
\* Correctness.

TypeOK ==
    /\ teams \subseteq Team
    /\ agents \in [Team -> SUBSET Request]
    /\ lock \in [Team -> Request \cup {NoRequest}]
    /\ row \in [Request -> {"none", "QUEUED", "RUNNING", "ended", "deleted"}]
    /\ of \in [Request -> Team \cup {NoTeam}]
    /\ again \subseteq Request
    /\ at \in [Request -> {"idle", "begin", "found", "counted", "admitted", "checked",
                           "locked", "deleting", "done"}]
    /\ kind \in [Request -> AllKinds \cup {"none"}]
    /\ target \in [Request -> Team \cup {NoTeam}]
    /\ saw \in [Request -> SUBSET Request]

\* Requests that interleave between count and insert exceed the concurrent run
\* limit by no more than the other requests in flight and the runs that were
\* taken up again after they ended, and the month's limit by no more than the
\* other requests in flight; one at a time they exceed neither.
RunsBounded ==
    /\ Cardinality(ActiveRuns) <= ConcurrentLimit + (Overlap - 1) + Cardinality(again)
    /\ Cardinality(Stored) <= MonthlyLimit + (Overlap - 1)

\* The same of the team limit, for createTeam and useTemplate together.
TeamsBounded == Cardinality(teams) <= TeamLimit + (Overlap - 1)

\* The agents of two requests are found in one team only if one of the two
\* replaced them without a lock: a PATCH that changes the row holds its lock
\* from before the delete to the commit.
RowUpdatesDoNotMerge ==
    \A t \in Team : \A p, q \in agents[t] :
        p = q \/ kind[p] \in Lockless \/ kind[q] \in Lockless

\* deleteTeam destroys an active run only if the run was created after the
\* check that found none, or had ended by then and was taken up again.
OnlyUnseenRunsDestroyed ==
    [][\A x \in Request :
         (row[x] \in Active /\ row'[x] = "deleted") =>
             \/ x \in again
             \/ \E r \in Request : at[r] = "checked" /\ at'[r] = "done" /\ x \notin saw[r]]_vars
=============================================================================
