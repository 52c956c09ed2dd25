---------------------------- MODULE TeamRunsProofs ----------------------------
(***************************************************************************)
(* Theorems about TeamRuns, for any number of requests and teams and any   *)
(* limits.  A request that has passed its count and not yet written is     *)
(* counted with what it is about to write (Counted).  An update that waits *)
(* to commit holds its team's lock, and knows every agent of the team but  *)
(* those that a replacement without a lock put there meanwhile (Writes).   *)
(***************************************************************************)
EXTENDS TeamRuns, FiniteSetTheorems, TLAPS

Creates == {"createTeam", "useTemplate"}

\* Admitted by the counts, or written.
Creating == {r \in Request : at[r] = "admitted" /\ kind[r] \in Creates}
Running ==
    {x \in Request \ again :
        row[x] \in Active \/ (kind[x] = "createRun" /\ at[x] \in {"counted", "admitted"})}
ThisMonth ==
    {x \in Request : row[x] \notin {"none", "deleted"} \/ (kind[x] = "createRun" /\ at[x] = "admitted")}

Counted ==
    /\ Cardinality(InFlight) <= Overlap
    /\ Cardinality(teams) + Cardinality(Creating) <= TeamLimit + (Overlap - 1)
    /\ Cardinality(Running) <= ConcurrentLimit + (Overlap - 1)
    /\ Cardinality(ThisMonth) <= MonthlyLimit + (Overlap - 1)

\* A request at work has its team and its kind; its run comes last.
Known ==
    \A r \in Request :
        /\ at[r] # "idle" => target[r] \in Team /\ kind[r] \in AllKinds
        /\ at[r] = "idle" => target[r] = NoTeam
        /\ row[r] # "none" => at[r] = "done" /\ kind[r] = "createRun"
        /\ at[r] = "deleting" => kind[r] \in {"updateTeam"} \cup Lockless
        /\ \A t \in Team : r \in agents[t] => at[r] = "done"

\* A team about to be created is named by nobody that has got further than
\* looking for it.
Unborn(r) ==
    (kind[r] \in Creates /\ at[r] \in {"begin", "admitted"}) =>
        /\ target[r] \notin teams
        /\ \A q \in Request \ {r} :
              target[q] = target[r] => kind[q] \notin Creates /\ at[q] \in {"begin", "done"}

Writes(r) ==
    (kind[r] = "updateTeam" /\ at[r] \in {"locked", "deleting"}) =>
        /\ lock[target[r]] = r
        /\ at[r] = "deleting" =>
              \A q \in agents[target[r]] \ saw[r] : kind[q] \in Lockless

\* The runs a deletion saw are over or were taken up again.
SawEnded(r) ==
    (kind[r] = "deleteTeam" /\ at[r] = "checked") =>
        \A x \in saw[r] : x \in again \/ row[x] \in {"ended", "deleted"}

Graphs == RowUpdatesDoNotMerge /\ \A r \in Request : Unborn(r) /\ Writes(r)

IInv ==
    TypeOK /\ Known /\ Counted /\ Graphs /\ \A r \in Request : SawEnded(r)

\* The steps that change nothing but the place of a request.
Moves(r) ==
    \/ CountTeams(r) \/ FindTeam(r) \/ CountActive(r) \/ CountMonth(r) \/ CheckIdle(r) \/ Refuse(r)

\* What the worker does.
Works(x) == StartRun(x) \/ EndRun(x) \/ Rerun(x)

-----------------------------------------------------------------------------
\* Types, and what a request knows of itself.

LEMMA MovesKnown ==
  ASSUME TypeOK, Known, NEW r \in Request, Moves(r)
  PROVE  /\ TypeOK' /\ Known'
         /\ UNCHANGED <<store, kind, target, saw>>
         /\ at[r] \in {"begin", "found", "counted"}
         /\ \E l \in {"found", "counted", "admitted", "checked", "done"} :
               at' = [at EXCEPT ![r] = l]
<1>1. /\ at[r] \in {"begin", "found", "counted"}
      /\ UNCHANGED <<store, kind, target, saw>>
      /\ \E l \in {"found", "counted", "admitted", "checked", "done"} : at' = [at EXCEPT ![r] = l]
  BY DEF Moves, CountTeams, FindTeam, CountActive, CountMonth, CheckIdle, Refuse, Decide, Goto, IsAt
<1>2. TypeOK'
  BY <1>1 DEF TypeOK, store
<1>3. Known'
  BY <1>1 DEF TypeOK, Known, store
<1> QED BY <1>1, <1>2, <1>3

LEMMA WorksKnown ==
  ASSUME TypeOK, Known, NEW x \in Request, Works(x)
  PROVE  TypeOK' /\ Known'
BY TeamRunsAssumption DEF Works, StartRun, EndRun, Rerun, SetRow, TypeOK, Known

LEMMA ArriveKnown ==
  ASSUME TypeOK, Known, NEW r \in Request, Arrive(r)
  PROVE  TypeOK' /\ Known'
<1>1. PICK k \in Kind, t \in Team :
        /\ at[r] = "idle" /\ at' = [at EXCEPT ![r] = "begin"]
        /\ kind' = [kind EXCEPT ![r] = k] /\ target' = [target EXCEPT ![r] = t]
        /\ UNCHANGED <<teams, agents, lock, row, of, again, saw>>
  BY DEF Arrive, Goto, store
<1>2. k \in AllKinds
  BY TeamRunsAssumption
<1> QED BY <1>1, <1>2 DEF TypeOK, Known

LEMMA WritesKnown ==
  ASSUME TypeOK, Known, NEW r \in Request,
         InsertTeam(r) \/ InsertRun(r) \/ UpdateRow(r) \/ DeleteAgents(r) \/ EndTransaction(r)
           \/ CheckDelete(r) \/ DeleteTeam(r)
  PROVE  TypeOK' /\ Known'
<1>1. CASE InsertTeam(r)
  BY <1>1 DEF TypeOK, Known, InsertTeam, Goto, IsAt
<1>2. CASE InsertRun(r)
  BY <1>2 DEF TypeOK, Known, InsertRun, Goto, IsAt
<1>3. CASE UpdateRow(r)
  BY <1>3 DEF TypeOK, Known, UpdateRow, Decide, Goto, IsAt
<1>4. CASE DeleteAgents(r)
  BY <1>4 DEF TypeOK, Known, DeleteAgents, Goto, IsAt, store
<1>5. CASE EndTransaction(r)
  <2>1. TypeOK'
    BY <1>5 DEF TypeOK, Known, EndTransaction, Goto, Unlock
  <2>2. Known'
    BY <1>5 DEF TypeOK, Known, EndTransaction, Goto
  <2> QED BY <2>1, <2>2
<1>6. CASE CheckDelete(r)
  <2>1. RunsOf(target[r]) \subseteq Request
    BY DEF RunsOf
  <2> QED BY <1>6, <2>1 DEF TypeOK, Known, CheckDelete, Decide, Goto, IsAt, store
<1>7. CASE DeleteTeam(r)
  BY <1>7 DEF TypeOK, Known, DeleteTeam, Goto, IsAt, RunsOf
<1> QED BY <1>1, <1>2, <1>3, <1>4, <1>5, <1>6, <1>7

LEMMA NextKnown ==
  ASSUME TypeOK, Known, Next
  PROVE  TypeOK' /\ Known'
<1> PICK r \in Request : Arrive(r) \/ Handler(r) \/ StartRun(r) \/ EndRun(r) \/ Rerun(r)
  BY DEF Next
<1>1. CASE Moves(r)
  BY <1>1, MovesKnown
<1>2. CASE Works(r)
  BY <1>2, WorksKnown
<1> QED BY <1>1, <1>2, ArriveKnown, WritesKnown DEF Moves, Works, Handler

-----------------------------------------------------------------------------
\* Whose agents a team has.

\* A move never lets a request for a team that does not exist get on.
LEMMA MovesKeepGraphs ==
  ASSUME IInv, NEW r \in Request, Moves(r)
  PROVE  Graphs'
<1>1. /\ UNCHANGED <<teams, agents, lock, row, of, again, kind, target, saw>>
      /\ at[r] \in {"begin", "found", "counted"}
      /\ \E l \in {"found", "counted", "admitted", "checked", "done"} : at' = [at EXCEPT ![r] = l]
  BY MovesKnown DEF IInv, store
<1>2. /\ at'[r] \in {"found", "counted", "admitted", "checked", "done"}
      /\ \A q \in Request \ {r} : at'[q] = at[q]
  BY <1>1 DEF IInv, TypeOK
<1>3. RowUpdatesDoNotMerge'
  BY <1>1 DEF IInv, Graphs, RowUpdatesDoNotMerge
<1>4. kind[r] \in Creates \/ at'[r] = "done" \/ at[r] # "begin" \/ target[r] \in teams
  BY <1>1 DEF Moves, CountTeams, FindTeam, CountActive, CountMonth, CheckIdle, Refuse, Decide, Goto, IsAt,
     Creates, IInv, TypeOK
<1>5. ASSUME NEW q \in Request PROVE Unborn(q)'
  <2>1. CASE q = r
    <3>1. kind[r] \in Creates /\ at'[r] \in {"begin", "admitted"} => at[r] = "begin"
      BY <1>1, <1>2 DEF Moves, CountTeams, FindTeam, CountActive, CountMonth, CheckIdle, Refuse, Decide,
         Goto, IsAt, Creates, IInv, TypeOK
    <3> QED BY <1>1, <1>2, <2>1, <3>1 DEF IInv, Graphs, Unborn
  <2>2. CASE q # r
    BY <1>1, <1>2, <1>4, <2>2 DEF IInv, Graphs, Unborn
  <2> QED BY <2>1, <2>2
<1>6. ASSUME NEW q \in Request PROVE Writes(q)'
  BY <1>1, <1>2 DEF IInv, Graphs, Writes
<1> QED BY <1>3, <1>5, <1>6 DEF Graphs

LEMMA ArriveKeepsGraphs ==
  ASSUME IInv, NEW r \in Request, Arrive(r)
  PROVE  Graphs'
<1>1. PICK k \in Kind, t \in Team :
        /\ at[r] = "idle" /\ at' = [at EXCEPT ![r] = "begin"]
        /\ k \in Creates => t \notin teams /\ \A q \in Request : target[q] # t
        /\ kind' = [kind EXCEPT ![r] = k] /\ target' = [target EXCEPT ![r] = t]
        /\ UNCHANGED <<teams, agents, lock, row, of, again, saw>>
  BY DEF Arrive, Goto, store, Creates
<1>2. /\ at'[r] = "begin" /\ kind'[r] = k /\ target'[r] = t
      /\ \A q \in Request \ {r} : at'[q] = at[q] /\ kind'[q] = kind[q] /\ target'[q] = target[q]
  BY <1>1 DEF IInv, TypeOK
<1>3. \A u \in Team : r \notin agents[u]
  BY <1>1 DEF IInv, Known
<1>4. RowUpdatesDoNotMerge'
  BY <1>1, <1>2, <1>3 DEF IInv, TypeOK, Graphs, RowUpdatesDoNotMerge
<1>5. ASSUME NEW q \in Request PROVE Unborn(q)'
  BY <1>1, <1>2 DEF IInv, Graphs, Unborn
<1>6. ASSUME NEW q \in Request PROVE Writes(q)'
  <2>1. CASE q = r
    BY <1>2, <2>1 DEF Writes
  <2>2. CASE q # r /\ at[q] \in {"locked", "deleting"}
    <3>1. target[q] \in Team /\ agents[target[q]] \subseteq Request \ {r}
      BY <1>3, <2>2 DEF IInv, TypeOK, Known
    <3> QED BY <1>1, <1>2, <2>2, <3>1 DEF IInv, Graphs, Writes
  <2>3. CASE q # r /\ at[q] \notin {"locked", "deleting"}
    BY <1>2, <2>3 DEF Writes
  <2> QED BY <2>1, <2>2, <2>3
<1> QED BY <1>4, <1>5, <1>6 DEF Graphs

\* The new team has one agent's request, and nobody was about to write to it.
LEMMA InsertKeepsGraphs ==
  ASSUME IInv, NEW r \in Request, InsertTeam(r)
  PROVE  Graphs'
<1>1. /\ at[r] = "admitted" /\ kind[r] \in Creates /\ at' = [at EXCEPT ![r] = "done"]
      /\ \/ teams' = teams \cup {target[r]} /\ agents' = [agents EXCEPT ![target[r]] = {r}]
         \/ UNCHANGED <<teams, agents>>
      /\ UNCHANGED <<lock, row, of, again, kind, target, saw>>
  BY DEF InsertTeam, Goto, IsAt, Creates
<1>2. at'[r] = "done" /\ \A q \in Request \ {r} : at'[q] = at[q]
  BY <1>1 DEF IInv, TypeOK
<1>3. \A q \in Request \ {r} :
         target[q] = target[r] => kind[q] \notin Creates /\ at[q] \in {"begin", "done"}
  BY <1>1 DEF IInv, Graphs, Unborn
<1>4. \A t \in Team : agents'[t] = agents[t] \/ (t = target[r] /\ agents'[t] = {r})
  BY <1>1 DEF IInv, TypeOK
<1>5. RowUpdatesDoNotMerge'
  BY <1>1, <1>4 DEF IInv, Graphs, RowUpdatesDoNotMerge
<1>6. ASSUME NEW q \in Request PROVE Unborn(q)'
  BY <1>1, <1>2, <1>3 DEF IInv, Graphs, Unborn, Creates
<1>7. ASSUME NEW q \in Request PROVE Writes(q)'
  BY <1>1, <1>2, <1>3, <1>4 DEF IInv, TypeOK, Known, Graphs, Writes
<1> QED BY <1>5, <1>6, <1>7 DEF Graphs

LEMMA UpdateRowKeepsGraphs ==
  ASSUME IInv, NEW r \in Request, UpdateRow(r)
  PROVE  Graphs'
<1>1. /\ at[r] = "checked" /\ kind[r] = "updateTeam" /\ lock[target[r]] = NoRequest
      /\ target[r] \in Team
      /\ at' = [at EXCEPT ![r] = IF target[r] \in teams THEN "locked" ELSE "done"]
      /\ lock' = IF target[r] \in teams THEN [lock EXCEPT ![target[r]] = r] ELSE lock
      /\ UNCHANGED <<teams, agents, row, of, again, kind, target, saw>>
  BY DEF UpdateRow, Decide, Goto, IsAt, IInv, Known
<1>2. at'[r] \in {"locked", "done"} /\ \A q \in Request \ {r} : at'[q] = at[q]
  BY <1>1 DEF IInv, TypeOK
<1>3. RowUpdatesDoNotMerge'
  BY <1>1 DEF IInv, Graphs, RowUpdatesDoNotMerge
<1>4. ASSUME NEW q \in Request PROVE Unborn(q)'
  BY <1>1, <1>2 DEF IInv, Graphs, Unborn, Creates
<1>5. ASSUME NEW q \in Request PROVE Writes(q)'
  BY <1>1, <1>2, TeamRunsAssumption DEF IInv, TypeOK, Graphs, Writes
<1> QED BY <1>3, <1>4, <1>5 DEF Graphs

LEMMA DeleteAgentsKeepsGraphs ==
  ASSUME IInv, NEW r \in Request, DeleteAgents(r)
  PROVE  Graphs'
<1>1. /\ (at[r] = "locked" /\ kind[r] = "updateTeam") \/ (at[r] = "checked" /\ kind[r] \in Lockless)
      /\ at' = [at EXCEPT ![r] = "deleting"] /\ saw' = [saw EXCEPT ![r] = agents[target[r]]]
      /\ UNCHANGED <<teams, agents, lock, row, of, again, kind, target>>
  BY DEF DeleteAgents, Goto, IsAt, store
<1>2. /\ at'[r] = "deleting" /\ saw'[r] = agents[target[r]]
      /\ \A q \in Request \ {r} : at'[q] = at[q] /\ saw'[q] = saw[q]
  BY <1>1 DEF IInv, TypeOK
<1>3. RowUpdatesDoNotMerge'
  BY <1>1 DEF IInv, Graphs, RowUpdatesDoNotMerge
<1>4. ASSUME NEW q \in Request PROVE Unborn(q)'
  BY <1>1, <1>2 DEF IInv, Graphs, Unborn, Creates
<1>5. ASSUME NEW q \in Request PROVE Writes(q)'
  BY <1>1, <1>2 DEF IInv, Graphs, Writes, Lockless
<1> QED BY <1>3, <1>4, <1>5 DEF Graphs

\* Of two updates of one team, the second waits for the first's lock.
LEMMA EndTransactionKeepsGraphs ==
  ASSUME IInv, NEW r \in Request, EndTransaction(r)
  PROVE  Graphs'
<1> DEFINE t == target[r]
<1>1. /\ at[r] = "deleting" /\ kind[r] \in {"updateTeam"} \cup Lockless /\ t \in Team
      /\ at' = [at EXCEPT ![r] = "done"]
      /\ agents' \in {agents, [agents EXCEPT ![t] = (agents[t] \ saw[r]) \cup {r}]}
      /\ lock' = [u \in Team |-> IF lock[u] = r THEN NoRequest ELSE lock[u]]
      /\ UNCHANGED <<teams, row, of, again, kind, target, saw>>
  BY DEF EndTransaction, Goto, Unlock, IInv, Known
<1>2. /\ at'[r] = "done" /\ \A q \in Request \ {r} : at'[q] = at[q]
      /\ \A u \in Team : \/ agents'[u] = agents[u]
                         \/ u = t /\ agents'[u] = (agents[u] \ saw[r]) \cup {r}
  BY <1>1 DEF IInv, TypeOK
<1>3. kind[r] = "updateTeam" =>
        /\ lock[t] = r
        /\ \A q \in agents[t] \ saw[r] : kind[q] \in Lockless
  BY <1>1 DEF IInv, Graphs, Writes
<1> HIDE DEF t
<1>4. RowUpdatesDoNotMerge'
  BY <1>1, <1>2, <1>3 DEF IInv, Graphs, RowUpdatesDoNotMerge
<1>5. ASSUME NEW q \in Request PROVE Unborn(q)'
  BY <1>1, <1>2 DEF IInv, Graphs, Unborn, Creates
<1>6. ASSUME NEW q \in Request, kind[q] = "updateTeam", at'[q] \in {"locked", "deleting"}
      PROVE  lock'[target[q]] = q
  BY <1>1, <1>2, <1>6 DEF IInv, TypeOK, Known, Graphs, Writes
<1>7. ASSUME NEW q \in Request, kind[q] = "updateTeam", at'[q] = "deleting",
             NEW p \in agents'[target[q]] \ saw[q]
      PROVE  kind[p] \in Lockless
  <2>1. q # r /\ at[q] = "deleting" /\ target[q] \in Team /\ lock[target[q]] = q
    BY <1>2, <1>7 DEF IInv, Known, Graphs, Writes
  <2>2. CASE p \in agents[target[q]]
    BY <1>7, <2>1, <2>2 DEF IInv, Graphs, Writes
  <2>3. CASE p \notin agents[target[q]]
    BY <1>1, <1>2, <1>3, <1>7, <2>1, <2>3
  <2> QED BY <2>2, <2>3
<1>8. ASSUME NEW q \in Request PROVE Writes(q)'
  BY <1>1, <1>6, <1>7 DEF Writes
<1> QED BY <1>4, <1>5, <1>8 DEF Graphs

LEMMA OthersKeepGraphs ==
  ASSUME IInv, NEW r \in Request, InsertRun(r) \/ CheckDelete(r) \/ DeleteTeam(r) \/ Works(r)
  PROVE  Graphs'
<1>1. CASE InsertRun(r)
  BY <1>1 DEF InsertRun, Goto, IsAt, IInv, TypeOK, Graphs, RowUpdatesDoNotMerge, Unborn, Writes, Creates
<1>2. CASE CheckDelete(r)
  <2>1. /\ at[r] = "begin" /\ kind[r] = "deleteTeam"
        /\ at' \in {[at EXCEPT ![r] = "done"], [at EXCEPT ![r] = "checked"]}
        /\ at'[r] = "checked" => target[r] \in teams
        /\ UNCHANGED <<teams, agents, lock, kind, target>>
        /\ \A q \in Request \ {r} : saw'[q] = saw[q]
    BY <1>2 DEF CheckDelete, Decide, Goto, IsAt, IInv, TypeOK, store
  <2>2. at'[r] \in {"checked", "done"} /\ \A q \in Request \ {r} : at'[q] = at[q]
    BY <2>1 DEF IInv, TypeOK
  <2> QED BY <2>1, <2>2 DEF IInv, Graphs, RowUpdatesDoNotMerge, Unborn, Writes, Creates
<1>3. CASE DeleteTeam(r)
  <2>1. /\ at[r] = "checked" /\ kind[r] = "deleteTeam" /\ at' = [at EXCEPT ![r] = "done"]
        /\ lock[target[r]] = NoRequest
        /\ teams' \subseteq teams /\ agents' = [agents EXCEPT ![target[r]] = {}]
        /\ UNCHANGED <<lock, kind, target, saw>>
    BY <1>3 DEF DeleteTeam, Goto, IsAt
  <2>2. /\ at'[r] = "done" /\ \A q \in Request \ {r} : at'[q] = at[q]
        /\ \A t \in Team : agents'[t] \subseteq agents[t]
    BY <2>1 DEF IInv, TypeOK
  <2>3. RowUpdatesDoNotMerge' /\ \A q \in Request : Unborn(q)'
    BY <2>1, <2>2 DEF IInv, Graphs, RowUpdatesDoNotMerge, Unborn, Creates
  <2>4. ASSUME NEW q \in Request PROVE Writes(q)'
    BY <2>1, <2>2 DEF IInv, Known, Graphs, Writes
  <2> QED BY <2>3, <2>4 DEF Graphs
<1>4. CASE Works(r)
  BY <1>4 DEF Works, StartRun, EndRun, Rerun, SetRow, IInv, Graphs, RowUpdatesDoNotMerge, Unborn, Writes
<1> QED BY <1>1, <1>2, <1>3, <1>4

-----------------------------------------------------------------------------
\* What a deletion saw.

LEMMA NextKeepsSawEnded ==
  ASSUME IInv, NEW r \in Request, Arrive(r) \/ Handler(r) \/ Works(r), NEW q \in Request
  PROVE  SawEnded(q)'
<1> USE DEF IInv
<1>1. CASE Arrive(r)
  BY <1>1 DEF Arrive, Goto, store, TypeOK, SawEnded
<1>2. CASE Moves(r)
  <2>1. /\ UNCHANGED <<row, again, kind, saw>>
        /\ \E l \in {"found", "counted", "admitted", "checked", "done"} : at' = [at EXCEPT ![r] = l]
        /\ at'[r] = "checked" => kind[r] # "deleteTeam"
    BY <1>2 DEF Moves, CountTeams, FindTeam, CountActive, CountMonth, CheckIdle, Refuse, Decide, Goto,
       IsAt, store, TypeOK, Lockless
  <2> QED BY <2>1 DEF SawEnded, TypeOK
<1>3. CASE Works(r)
  <2>1. /\ UNCHANGED <<at, kind, saw>> /\ again \subseteq again'
        /\ r \in again' \/ row[r] \notin {"ended", "deleted"}
        /\ \A x \in Request \ {r} : row'[x] = row[x]
    BY <1>3 DEF Works, StartRun, EndRun, Rerun, SetRow, TypeOK
  <2>2. saw[q] \subseteq Request
    BY DEF TypeOK
  <2> QED BY <2>1, <2>2 DEF SawEnded
<1>4. CASE InsertTeam(r) \/ UpdateRow(r) \/ DeleteAgents(r) \/ EndTransaction(r)
  BY <1>4 DEF InsertTeam, UpdateRow, DeleteAgents, EndTransaction, Decide, Goto, IsAt, store, TypeOK, SawEnded
<1>5. CASE InsertRun(r)
  BY <1>5 DEF InsertRun, Goto, IsAt, TypeOK, Known, SawEnded
<1>6. CASE CheckDelete(r)
  <2>1. /\ at[r] = "begin" /\ UNCHANGED <<row, again, kind>>
        /\ saw' = [saw EXCEPT ![r] = RunsOf(target[r])]
        /\ \E l \in {"checked", "done"} : at' = [at EXCEPT ![r] = l]
        /\ at'[r] = "checked" => RunsOf(target[r]) \cap ActiveRuns = {}
    BY <1>6 DEF CheckDelete, Decide, Goto, IsAt, store, TypeOK
  <2>2. at'[r] = "checked" => \A x \in RunsOf(target[r]) : row[x] = "ended"
    BY <2>1 DEF RunsOf, ActiveRuns, Active, TypeOK
  <2> QED BY <2>1, <2>2 DEF SawEnded, TypeOK
<1>7. CASE DeleteTeam(r)
  BY <1>7 DEF DeleteTeam, Goto, IsAt, TypeOK, SawEnded
<1> QED BY <1>1, <1>2, <1>3, <1>4, <1>5, <1>6, <1>7 DEF Handler, Moves

-----------------------------------------------------------------------------
\* Counting.

LEMMA SetsFinite ==
  /\ IsFiniteSet(InFlight) /\ IsFiniteSet(ActiveRuns) /\ IsFiniteSet(Stored)
  /\ IsFiniteSet(Creating) /\ IsFiniteSet(Running) /\ IsFiniteSet(ThisMonth)
<1>1. /\ InFlight \subseteq Request /\ ActiveRuns \subseteq Request /\ Stored \subseteq Request
      /\ Creating \subseteq Request /\ Running \subseteq Request /\ ThisMonth \subseteq Request
  BY DEF InFlight, ActiveRuns, Stored, Creating, Running, ThisMonth
<1> QED BY <1>1, TeamRunsAssumption, FS_Subset

LEMMA TeamsFinite ==
  ASSUME NEW T, T \subseteq Team
  PROVE  IsFiniteSet(T) /\ Cardinality(T) \in Nat
BY TeamRunsAssumption, FS_Subset, FS_CardinalityType

\* A smaller set of a finite one.
LEMMA Fewer ==
  ASSUME NEW S, NEW T, IsFiniteSet(T), S \subseteq T
  PROVE  /\ IsFiniteSet(S) /\ Cardinality(S) \in Nat /\ Cardinality(T) \in Nat
         /\ Cardinality(S) <= Cardinality(T)
BY FS_Subset, FS_CardinalityType

\* One more element.
LEMMA OneMore ==
  ASSUME NEW S, NEW T, NEW x, IsFiniteSet(S), T \subseteq S \cup {x}
  PROVE  /\ Cardinality(T) \in Nat /\ Cardinality(S) \in Nat
         /\ Cardinality(T) <= Cardinality(S) + 1
<1>1. /\ IsFiniteSet(S \cup {x})
      /\ Cardinality(S \cup {x}) = IF x \in S THEN Cardinality(S) ELSE Cardinality(S) + 1
  BY FS_AddElement
<1>2. Cardinality(S) \in Nat
  BY FS_CardinalityType
<1>3. /\ Cardinality(T) \in Nat /\ Cardinality(T) <= Cardinality(S \cup {x})
  BY <1>1, Fewer
<1> QED BY <1>1, <1>2, <1>3

\* One element less.
LEMMA OneLess ==
  ASSUME NEW S, NEW T, NEW x, IsFiniteSet(S), x \in S, T \subseteq S \ {x}
  PROVE  /\ Cardinality(T) \in Nat /\ Cardinality(S) \in Nat
         /\ Cardinality(T) + 1 <= Cardinality(S)
<1>1. /\ IsFiniteSet(S \ {x}) /\ Cardinality(S \ {x}) = Cardinality(S) - 1
  BY FS_RemoveElement
<1>2. Cardinality(S) \in Nat
  BY FS_CardinalityType
<1>3. /\ Cardinality(T) \in Nat /\ Cardinality(T) <= Cardinality(S \ {x})
  BY <1>1, Fewer
<1> QED BY <1>1, <1>2, <1>3

\* Whoever passes a count finds fewer than the limit; those that passed it
\* before him and have not written yet are in flight with him.
LEMMA CountThenHold ==
  ASSUME NEW A, NEW B, NEW C, IsFiniteSet(A), IsFiniteSet(B), C \subseteq A \cup B,
         NEW a \in Nat, NEW b \in Nat, Cardinality(A) < a, Cardinality(B) <= b
  PROVE  Cardinality(C) <= a + (b - 1)
<1>1. /\ IsFiniteSet(A \cup B) /\ IsFiniteSet(A \cap B)
      /\ Cardinality(A \cup B) = Cardinality(A) + Cardinality(B) - Cardinality(A \cap B)
  BY FS_Union, FS_Intersection
<1>2. /\ Cardinality(A) \in Nat /\ Cardinality(B) \in Nat /\ Cardinality(A \cap B) \in Nat
  BY <1>1, FS_CardinalityType
<1>3. Cardinality(C) \in Nat /\ Cardinality(C) <= Cardinality(A \cup B)
  BY <1>1, Fewer
<1> QED BY <1>1, <1>2, <1>3

\* What two sets hold is not more than their sizes together.
LEMMA UnionCount ==
  ASSUME NEW A, NEW B, NEW C, IsFiniteSet(A), IsFiniteSet(B), C \subseteq A \cup B
  PROVE  /\ Cardinality(A) \in Nat /\ Cardinality(B) \in Nat /\ Cardinality(C) \in Nat
         /\ Cardinality(C) <= Cardinality(A) + Cardinality(B)
<1>1. /\ IsFiniteSet(A \cup B) /\ IsFiniteSet(A \cap B)
      /\ Cardinality(A \cup B) = Cardinality(A) + Cardinality(B) - Cardinality(A \cap B)
  BY FS_Union, FS_Intersection
<1>2. /\ Cardinality(A) \in Nat /\ Cardinality(B) \in Nat /\ Cardinality(A \cap B) \in Nat
  BY <1>1, FS_CardinalityType
<1>3. Cardinality(C) \in Nat /\ Cardinality(C) <= Cardinality(A \cup B)
  BY <1>1, Fewer
<1> QED BY <1>1, <1>2, <1>3

LEMMA LimitsAreNumbers ==
  /\ Overlap \in Nat /\ TeamLimit \in Nat /\ ConcurrentLimit \in Nat /\ MonthlyLimit \in Nat
BY TeamRunsAssumption

\* A step that lets nobody in.
LEMMA FewerHeld ==
  ASSUME IInv, teams' \subseteq teams, InFlight' \subseteq InFlight,
         Creating' \subseteq Creating, Running' \subseteq Running, ThisMonth' \subseteq ThisMonth
  PROVE  Counted'
<1>1. /\ Cardinality(InFlight') \in Nat /\ Cardinality(InFlight) \in Nat
      /\ Cardinality(InFlight') <= Cardinality(InFlight)
  BY SetsFinite, Fewer
<1>2. /\ Cardinality(Creating') \in Nat /\ Cardinality(Creating) \in Nat
      /\ Cardinality(Creating') <= Cardinality(Creating)
  BY SetsFinite, Fewer
<1>3. /\ Cardinality(Running') \in Nat /\ Cardinality(Running) \in Nat
      /\ Cardinality(Running') <= Cardinality(Running)
  BY SetsFinite, Fewer
<1>4. /\ Cardinality(ThisMonth') \in Nat /\ Cardinality(ThisMonth) \in Nat
      /\ Cardinality(ThisMonth') <= Cardinality(ThisMonth)
  BY SetsFinite, Fewer
<1>5. /\ Cardinality(teams') \in Nat /\ Cardinality(teams) \in Nat
      /\ Cardinality(teams') <= Cardinality(teams)
  BY TeamsFinite, Fewer DEF IInv, TypeOK
<1> QED BY <1>1, <1>2, <1>3, <1>4, <1>5, LimitsAreNumbers DEF IInv, Counted

LEMMA ArriveCounted ==
  ASSUME IInv, NEW r \in Request, Arrive(r)
  PROVE  Counted'
<1>1. /\ at[r] = "idle" /\ at' = [at EXCEPT ![r] = "begin"] /\ Cardinality(InFlight) < Overlap
      /\ UNCHANGED <<teams, row, again>>
      /\ \E k \in Kind : kind' = [kind EXCEPT ![r] = k]
  BY DEF Arrive, Goto, store
<1>2. InFlight' \subseteq InFlight \cup {r}
  BY <1>1 DEF InFlight, IInv, TypeOK
<1>3. /\ Cardinality(InFlight') \in Nat /\ Cardinality(InFlight) \in Nat
      /\ Cardinality(InFlight') <= Cardinality(InFlight) + 1
  BY <1>2, SetsFinite, OneMore
<1>4. Cardinality(InFlight') <= Overlap
  BY <1>1, <1>3, LimitsAreNumbers
<1>5. Creating' = Creating /\ Running' = Running /\ ThisMonth' = ThisMonth
  BY <1>1 DEF Creating, Running, ThisMonth, IInv, TypeOK, Known
<1> QED BY <1>1, <1>4, <1>5 DEF IInv, Counted

LEMMA CountTeamsCounted ==
  ASSUME IInv, NEW r \in Request, CountTeams(r)
  PROVE  Counted'
<1>1. /\ at[r] = "begin" /\ kind[r] \in Creates /\ UNCHANGED <<teams, row, again, kind>>
      /\ at' = [at EXCEPT ![r] = IF Cardinality(teams) < TeamLimit THEN "admitted" ELSE "done"]
  BY DEF CountTeams, Decide, Goto, IsAt, store, Creates
<1>2. /\ InFlight' \subseteq InFlight /\ Creating' \subseteq InFlight
      /\ Running' \subseteq Running /\ ThisMonth' \subseteq ThisMonth
  BY <1>1 DEF InFlight, Creating, Running, ThisMonth, IInv, TypeOK, Creates
<1>3. CASE ~(Cardinality(teams) < TeamLimit)
  <2>1. Creating' \subseteq Creating
    BY <1>1, <1>3 DEF Creating, IInv, TypeOK
  <2> QED BY <1>1, <1>2, <2>1, FewerHeld
<1>4. CASE Cardinality(teams) < TeamLimit
  <2>1. /\ Cardinality(Creating') \in Nat /\ Cardinality(InFlight') \in Nat /\ Cardinality(InFlight) \in Nat
        /\ Cardinality(Creating') <= Cardinality(InFlight)
        /\ Cardinality(InFlight') <= Cardinality(InFlight)
    BY <1>2, SetsFinite, Fewer
  <2>2. /\ Cardinality(Running') \in Nat /\ Cardinality(Running) \in Nat
        /\ Cardinality(Running') <= Cardinality(Running)
    BY <1>2, SetsFinite, Fewer
  <2>3. /\ Cardinality(ThisMonth') \in Nat /\ Cardinality(ThisMonth) \in Nat
        /\ Cardinality(ThisMonth') <= Cardinality(ThisMonth)
    BY <1>2, SetsFinite, Fewer
  <2>4. Cardinality(teams) \in Nat
    BY TeamsFinite DEF IInv, TypeOK
  <2> QED BY <1>1, <1>4, <2>1, <2>2, <2>3, <2>4, LimitsAreNumbers DEF IInv, Counted
<1> QED BY <1>3, <1>4

\* What is created was counted while it was about to be.
LEMMA InsertTeamCounted ==
  ASSUME IInv, NEW r \in Request, InsertTeam(r)
  PROVE  Counted'
<1>1. /\ at[r] = "admitted" /\ kind[r] \in Creates /\ at' = [at EXCEPT ![r] = "done"]
      /\ teams' \subseteq teams \cup {target[r]} /\ UNCHANGED <<row, again, kind>>
  BY DEF InsertTeam, Goto, IsAt, Creates
<1>2. /\ InFlight' \subseteq InFlight /\ r \in Creating /\ Creating' \subseteq Creating \ {r}
      /\ Running' \subseteq Running /\ ThisMonth' \subseteq ThisMonth
  BY <1>1 DEF InFlight, Creating, Running, ThisMonth, IInv, TypeOK, Creates
<1>3. /\ Cardinality(Creating') \in Nat /\ Cardinality(Creating) \in Nat
      /\ Cardinality(Creating') + 1 <= Cardinality(Creating)
  BY <1>2, SetsFinite, OneLess
<1>4. IsFiniteSet(teams)
  BY TeamsFinite DEF IInv, TypeOK
<1>5. /\ Cardinality(teams') \in Nat /\ Cardinality(teams) \in Nat
      /\ Cardinality(teams') <= Cardinality(teams) + 1
  BY <1>1, <1>4, OneMore
<1>6. /\ Cardinality(InFlight') \in Nat /\ Cardinality(InFlight) \in Nat
      /\ Cardinality(InFlight') <= Cardinality(InFlight)
  BY <1>2, SetsFinite, Fewer
<1>7. /\ Cardinality(Running') \in Nat /\ Cardinality(Running) \in Nat
      /\ Cardinality(Running') <= Cardinality(Running)
  BY <1>2, SetsFinite, Fewer
<1>8. /\ Cardinality(ThisMonth') \in Nat /\ Cardinality(ThisMonth) \in Nat
      /\ Cardinality(ThisMonth') <= Cardinality(ThisMonth)
  BY <1>2, SetsFinite, Fewer
<1> QED BY <1>1, <1>3, <1>5, <1>6, <1>7, <1>8, LimitsAreNumbers DEF IInv, Counted

LEMMA CountActiveCounted ==
  ASSUME IInv, NEW r \in Request, CountActive(r)
  PROVE  Counted'
<1>1. /\ at[r] = "found" /\ kind[r] = "createRun" /\ UNCHANGED <<teams, row, again, kind>>
      /\ at' = [at EXCEPT ![r] = IF Cardinality(ActiveRuns) < ConcurrentLimit THEN "counted" ELSE "done"]
  BY DEF CountActive, Decide, Goto, IsAt, store
<1>2. /\ InFlight' \subseteq InFlight /\ Creating' = Creating /\ ThisMonth' = ThisMonth
  BY <1>1 DEF InFlight, Creating, ThisMonth, IInv, TypeOK, Creates
<1>3. CASE ~(Cardinality(ActiveRuns) < ConcurrentLimit)
  <2>1. Running' \subseteq Running
    BY <1>1, <1>3 DEF Running, IInv, TypeOK
  <2> QED BY <1>1, <1>2, <2>1, FewerHeld
<1>4. CASE Cardinality(ActiveRuns) < ConcurrentLimit
  <2>1. Running' \subseteq ActiveRuns \cup InFlight
    BY <1>1 DEF Running, ActiveRuns, InFlight, IInv, TypeOK
  <2>2. Cardinality(InFlight) <= Overlap
    BY DEF IInv, Counted
  <2>3. Cardinality(Running') <= ConcurrentLimit + (Overlap - 1)
    BY <1>4, <2>1, <2>2, SetsFinite, LimitsAreNumbers, CountThenHold
  <2>4. /\ Cardinality(InFlight') \in Nat /\ Cardinality(InFlight) \in Nat
        /\ Cardinality(InFlight') <= Cardinality(InFlight)
    BY <1>2, SetsFinite, Fewer
  <2>5. IsFiniteSet(ActiveRuns \cup InFlight)
    BY SetsFinite, FS_Union
  <2>6. Cardinality(Running') \in Nat
    BY <2>1, <2>5, Fewer
  <2> QED BY <1>1, <1>2, <2>2, <2>3, <2>4, <2>6, LimitsAreNumbers DEF IInv, Counted
<1> QED BY <1>3, <1>4

LEMMA CountMonthCounted ==
  ASSUME IInv, NEW r \in Request, CountMonth(r)
  PROVE  Counted'
<1>1. /\ at[r] = "counted" /\ kind[r] = "createRun" /\ UNCHANGED <<teams, row, again, kind>>
      /\ at' = [at EXCEPT ![r] = IF Cardinality(Stored) < MonthlyLimit THEN "admitted" ELSE "done"]
  BY DEF CountMonth, Decide, Goto, IsAt, store
<1>2. InFlight' \subseteq InFlight /\ Creating' = Creating /\ Running' \subseteq Running
  BY <1>1 DEF InFlight, Creating, Running, IInv, TypeOK, Creates
<1>3. CASE ~(Cardinality(Stored) < MonthlyLimit)
  <2>1. ThisMonth' \subseteq ThisMonth
    BY <1>1, <1>3 DEF ThisMonth, IInv, TypeOK
  <2> QED BY <1>1, <1>2, <2>1, FewerHeld
<1>4. CASE Cardinality(Stored) < MonthlyLimit
  <2>1. ThisMonth' \subseteq Stored \cup InFlight
    BY <1>1 DEF ThisMonth, Stored, InFlight, IInv, TypeOK
  <2>2. Cardinality(InFlight) <= Overlap
    BY DEF IInv, Counted
  <2>3. Cardinality(ThisMonth') <= MonthlyLimit + (Overlap - 1)
    BY <1>4, <2>1, <2>2, SetsFinite, LimitsAreNumbers, CountThenHold
  <2>4. /\ Cardinality(InFlight') \in Nat /\ Cardinality(InFlight) \in Nat
        /\ Cardinality(InFlight') <= Cardinality(InFlight)
    BY <1>2, SetsFinite, Fewer
  <2>5. /\ Cardinality(Running') \in Nat /\ Cardinality(Running) \in Nat
        /\ Cardinality(Running') <= Cardinality(Running)
    BY <1>2, SetsFinite, Fewer
  <2> QED BY <1>1, <1>2, <2>2, <2>3, <2>4, <2>5, LimitsAreNumbers DEF IInv, Counted
<1> QED BY <1>3, <1>4

\* A run taken up again is not counted any more.
LEMMA RerunCounted ==
  ASSUME IInv, NEW x \in Request, Rerun(x)
  PROVE  Counted'
<1>1. /\ row[x] = "ended" /\ row' = [row EXCEPT ![x] = "RUNNING"] /\ again' = again \cup {x}
      /\ UNCHANGED <<teams, at, kind>>
  BY DEF Rerun, SetRow
<1>2. /\ InFlight' = InFlight /\ Creating' = Creating /\ ThisMonth' \subseteq ThisMonth
      /\ Running' \subseteq Running
  BY <1>1 DEF InFlight, Creating, Running, ThisMonth, Active, IInv, TypeOK
<1> QED BY <1>1, <1>2, FewerHeld

LEMMA OthersCounted ==
  ASSUME IInv, NEW r \in Request,
         StartRun(r) \/ EndRun(r) \/ FindTeam(r) \/ CheckIdle(r) \/ Refuse(r) \/ InsertRun(r)
           \/ UpdateRow(r) \/ DeleteAgents(r) \/ EndTransaction(r) \/ CheckDelete(r) \/ DeleteTeam(r)
  PROVE  Counted'
<1> USE DEF IInv, TypeOK, Creates, InFlight, Creating, Running, ThisMonth, Goto, IsAt
<1> DEFINE LetsNobodyIn ==
             /\ teams' \subseteq teams /\ InFlight' \subseteq InFlight
             /\ Creating' \subseteq Creating /\ Running' \subseteq Running
             /\ ThisMonth' \subseteq ThisMonth
<1>1. CASE StartRun(r) \/ EndRun(r)
  <2>1. LetsNobodyIn
    BY <1>1 DEF StartRun, EndRun, SetRow, Active
  <2> QED BY <2>1, FewerHeld
<1>2. CASE FindTeam(r) \/ CheckIdle(r) \/ Refuse(r) \/ CheckDelete(r)
  <2>1. LetsNobodyIn
    BY <1>2 DEF FindTeam, CheckIdle, Refuse, CheckDelete, Decide, store
  <2> QED BY <2>1, FewerHeld
<1>3. CASE InsertRun(r)
  <2>1. LetsNobodyIn
    BY <1>3 DEF InsertRun
  <2> QED BY <2>1, FewerHeld
<1>4. CASE UpdateRow(r) \/ DeleteAgents(r) \/ EndTransaction(r)
  <2>1. LetsNobodyIn
    BY <1>4 DEF UpdateRow, DeleteAgents, EndTransaction, Decide, store
  <2> QED BY <2>1, FewerHeld
<1>5. CASE DeleteTeam(r)
  <2>1. LetsNobodyIn
    BY <1>5 DEF DeleteTeam, Active
  <2> QED BY <2>1, FewerHeld
<1> QED BY <1>1, <1>2, <1>3, <1>4, <1>5

-----------------------------------------------------------------------------

LEMMA InitIInv == Init => IInv
<1> SUFFICES ASSUME Init PROVE IInv
  OBVIOUS
<1>1. TypeOK /\ Known /\ \A r \in Request : SawEnded(r)
  BY TeamRunsAssumption DEF Init, TypeOK, Known, SawEnded
<1>2. Graphs
  BY DEF Init, Graphs, RowUpdatesDoNotMerge, Unborn, Writes
<1>3. InFlight = {} /\ Creating = {} /\ Running = {} /\ ThisMonth = {}
  BY DEF Init, InFlight, Creating, Running, ThisMonth, Active
<1>4. Cardinality(teams) <= 1 /\ Cardinality(teams) \in Nat
  <2>1. teams = {} \/ \E t \in Team : teams = {t}
    BY DEF Init
  <2>2. Cardinality({}) = 0
    BY FS_EmptySet
  <2>3. \A t \in Team : Cardinality({t}) = 1
    BY FS_Singleton
  <2>4. Cardinality(teams) \in {0, 1}
    BY <2>1, <2>2, <2>3, Zenon
  <2> QED BY <2>4
<1>5. Cardinality({}) = 0
  BY FS_EmptySet
<1>6. /\ Cardinality(InFlight) = 0 /\ Cardinality(Creating) = 0 /\ Cardinality(Running) = 0
      /\ Cardinality(ThisMonth) = 0
  BY <1>3, <1>5, Zenon
<1>7. /\ Overlap \in Nat \ {0} /\ TeamLimit \in Nat \ {0}
      /\ ConcurrentLimit \in Nat \ {0} /\ MonthlyLimit \in Nat \ {0}
  BY TeamRunsAssumption DEF Init
<1>8. Counted
  BY <1>4, <1>6, <1>7 DEF Counted
<1> QED BY <1>1, <1>2, <1>8 DEF IInv

LEMMA NextKeepsIInv == IInv /\ [Next]_vars => IInv'
<1> SUFFICES ASSUME IInv, [Next]_vars PROVE IInv'
  OBVIOUS
<1>1. CASE UNCHANGED vars
  BY <1>1 DEF vars, store, IInv, TypeOK, Known, Counted, Graphs, RowUpdatesDoNotMerge, Unborn, Writes,
     SawEnded, InFlight, Creating, Running, ThisMonth
<1>2. CASE Next
  <2>1. TypeOK' /\ Known'
    BY <1>2, NextKnown DEF IInv
  <2>2. PICK r \in Request : Arrive(r) \/ Handler(r) \/ Works(r)
    BY <1>2 DEF Next, Works
  <2>3. \A q \in Request : SawEnded(q)'
    BY <2>2, NextKeepsSawEnded
  <2>4. Graphs'
    BY <2>2, MovesKeepGraphs, ArriveKeepsGraphs, InsertKeepsGraphs, UpdateRowKeepsGraphs,
       DeleteAgentsKeepsGraphs, EndTransactionKeepsGraphs, OthersKeepGraphs DEF Handler, Moves
  <2>5. Counted'
    BY <2>2, ArriveCounted, CountTeamsCounted, InsertTeamCounted, CountActiveCounted,
       CountMonthCounted, RerunCounted, OthersCounted DEF Handler, Works
  <2> QED BY <2>1, <2>3, <2>4, <2>5 DEF IInv
<1> QED BY <1>1, <1>2

LEMMA AlwaysIInv == Spec => []IInv
BY InitIInv, NextKeepsIInv, PTL DEF Spec

-----------------------------------------------------------------------------

\* Every variable keeps its type.
THEOREM TeamTypes == Spec => []TypeOK
<1>1. IInv => TypeOK
  BY DEF IInv
<1> QED BY <1>1, AlwaysIInv, PTL

\* Active runs exceed their limit by no more than the other requests in flight
\* and the runs taken up again, the month's runs by the former.
THEOREM RunsAreBounded == Spec => []RunsBounded
<1>1. IInv => RunsBounded
  <2> SUFFICES ASSUME IInv PROVE RunsBounded
    OBVIOUS
  <2>1. ActiveRuns \subseteq Running \cup again /\ Stored \subseteq ThisMonth
    BY DEF ActiveRuns, Running, Stored, ThisMonth
  <2>2. IsFiniteSet(again)
    BY TeamRunsAssumption, FS_Subset DEF IInv, TypeOK
  <2>3. /\ Cardinality(ActiveRuns) \in Nat /\ Cardinality(Running) \in Nat
        /\ Cardinality(again) \in Nat
        /\ Cardinality(ActiveRuns) <= Cardinality(Running) + Cardinality(again)
    BY <2>1, <2>2, SetsFinite, UnionCount
  <2>4. /\ Cardinality(Stored) \in Nat /\ Cardinality(ThisMonth) \in Nat
        /\ Cardinality(Stored) <= Cardinality(ThisMonth)
    BY <2>1, SetsFinite, Fewer
  <2> QED BY <2>3, <2>4, LimitsAreNumbers DEF IInv, Counted, RunsBounded
<1> QED BY <1>1, AlwaysIInv, PTL

\* Teams exceed their limit by no more than the other requests in flight.
THEOREM TeamsAreBounded == Spec => []TeamsBounded
<1>1. IInv => TeamsBounded
  <2> SUFFICES ASSUME IInv PROVE TeamsBounded
    OBVIOUS
  <2>1. Cardinality(teams) \in Nat /\ Cardinality(Creating) \in Nat
    BY TeamsFinite, SetsFinite, FS_CardinalityType DEF IInv, TypeOK
  <2> QED BY <2>1, LimitsAreNumbers DEF IInv, Counted, TeamsBounded
<1> QED BY <1>1, AlwaysIInv, PTL

\* Two requests leave agents in one team only if one of them replaced them
\* without a lock.
THEOREM RowLocksPreventMerges == Spec => []RowUpdatesDoNotMerge
<1>1. IInv => RowUpdatesDoNotMerge
  BY DEF IInv, Graphs
<1> QED BY <1>1, AlwaysIInv, PTL

\* A deletion destroys an active run only if the run appeared after the check.
THEOREM DeletionsSpareSeenRuns == Spec => OnlyUnseenRunsDestroyed
<1>1. ASSUME IInv, [Next]_vars
      PROVE  [\A x \in Request :
                (row[x] \in Active /\ row'[x] = "deleted") =>
                  \/ x \in again
                  \/ \E r \in Request : at[r] = "checked" /\ at'[r] = "done" /\ x \notin saw[r]]_vars
  <2> SUFFICES ASSUME Next, NEW x \in Request, row[x] \in Active, row'[x] = "deleted", x \notin again
               PROVE  \E r \in Request : at[r] = "checked" /\ at'[r] = "done" /\ x \notin saw[r]
    BY <1>1
  <2>1. PICK r \in Request : Arrive(r) \/ Handler(r) \/ Works(r)
    BY DEF Next, Works
  <2>2. CASE DeleteTeam(r)
    <3>1. at[r] = "checked" /\ kind[r] = "deleteTeam" /\ at'[r] = "done"
      BY <2>2, <1>1 DEF DeleteTeam, Goto, IsAt, IInv, TypeOK
    <3>2. x \notin saw[r]
      BY <1>1, <3>1 DEF IInv, SawEnded, Active
    <3> QED BY <3>1, <3>2
  <2>3. CASE ~DeleteTeam(r)
    <3>1. row'[x] = row[x] \/ row'[x] \in {"QUEUED", "RUNNING", "ended"}
      <4>1. CASE Works(r)
        BY <1>1, <4>1 DEF Works, StartRun, EndRun, Rerun, SetRow, IInv, TypeOK
      <4>2. CASE InsertRun(r)
        BY <1>1, <4>2 DEF InsertRun, IInv, TypeOK
      <4>3. CASE Moves(r)
        BY <1>1, <4>3, MovesKnown DEF IInv, store
      <4>4. CASE Arrive(r) \/ InsertTeam(r) \/ UpdateRow(r) \/ DeleteAgents(r)
                   \/ EndTransaction(r) \/ CheckDelete(r)
        BY <4>4 DEF Arrive, InsertTeam, UpdateRow, DeleteAgents, EndTransaction, CheckDelete, store
      <4> QED BY <2>1, <2>3, <4>1, <4>2, <4>3, <4>4 DEF Handler, Moves
    <3> QED BY <3>1 DEF Active
  <2> QED BY <2>2, <2>3
<1> QED BY <1>1, AlwaysIInv, PTL DEF Spec, OnlyUnseenRunsDestroyed
==============================================================================
