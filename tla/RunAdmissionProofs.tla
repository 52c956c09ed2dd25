-------------------------- MODULE RunAdmissionProofs --------------------------
(***************************************************************************)
(* What RunAdmission promises for any number of requests, models, plan     *)
(* changes and reruns, and any registry and limits.                        *)
(***************************************************************************)
EXTENDS RunAdmission, FiniteSetTheorems, TLAPS

\* Where createRun knows its key and model.
Resolved == {"validated", "counted", "admitted", "inserted"}

\* Key k, model m and plan p may go into the job of request r.
Right(r, p, k, m) ==
    /\ k \in OwnKey \cup {PlatformKey}
    /\ k = PlatformKey => m \in Registry[p]
    /\ \E q \in plansHeld[r] : RightKey(q, k)
    /\ k # PlatformKey => k \in keysHeld[r]

\* What request r has found out by the time it reaches a label.
Known(r) ==
    /\ at[r] \notin {"idle", "done"} =>
         seenPlan[r] \in plansHeld[r] /\ plan \in plansHeld[r] /\ key \in keysHeld[r]
    /\ at[r] \in {"found", "preferKey", "requireKey"} \cup Resolved => model[r] \in Model
    /\ at[r] = "preferKey" => "PRO" \in plansHeld[r]
    /\ at[r] = "requireKey" => "BYOK" \in plansHeld[r]
    /\ at[r] \in Resolved => Right(r, seenPlan[r], apiKey[r], model[r])
    /\ job[r] # NoJob =>
         /\ at[r] = "done" /\ job[r] \in Job
         /\ job[r].plan \in plansHeld[r]
         /\ Right(r, job[r].plan, job[r].key, job[r].model)

\* The active runs admitted under plan p, and those that will be: they have
\* passed the count.
Holding(p) ==
    {x \in Request : seenPlan[x] = p /\ (row[x] = "active" \/ at[x] \in {"counted", "admitted"})}

Counted ==
    /\ Cardinality(InFlight) <= Overlap
    /\ \A p \in Plan : Cardinality(Holding(p)) <= ConcurrentLimit[p] + (Overlap - 1) + reruns

\* A request that has not arrived has no row.
Fresh == \A r \in Request : at[r] = "idle" => row[r] = "none"

IInv ==
    /\ TypeOK
    /\ \A r \in Request : Known(r)
    /\ Counted
    /\ Fresh

-----------------------------------------------------------------------------
\* Types, and what the requests know.

LEMMA InitKnown == Init => TypeOK /\ (\A r \in Request : Known(r)) /\ Fresh
BY RunAdmissionAssumption DEF Init, TypeOK, Known, Resolved, Fresh, OwnKey, Plan, AllKinds, Job, NoJob

\* The steps of a request that change neither plan nor key nor its history.
LEMMA HandlersKnow ==
  ASSUME IInv, NEW r \in Request, Refuse(r) \/ FindTeam(r) \/ DecryptFails(r)
                                  \/ CountActive(r) \/ CountMonth(r) \/ CheckPlan(r)
  PROVE  TypeOK' /\ (\A x \in Request : Known(x)') /\ Fresh'
BY DEF IInv, TypeOK, Known, Right, Resolved, Fresh, Refuse, FindTeam, DecryptFails, CountActive,
       CountMonth, CheckPlan, Decide, Goto, IsAt, user, runs, history

LEMMA ResolveKnows ==
  ASSUME IInv, NEW r \in Request, ReadUser(r) \/ PreferKey(r) \/ RequireKey(r)
  PROVE  TypeOK' /\ (\A x \in Request : Known(x)') /\ Fresh'
<1>1. /\ UNCHANGED <<plan, key, changes, kind, model, seenPlan, job, row, reruns, plansHeld, keysHeld>>
      /\ at[r] \in {"found", "preferKey", "requireKey"}
  BY DEF ReadUser, PreferKey, RequireKey, IsAt, user, runs, history
<1>2. CASE /\ at' = [at EXCEPT ![r] = "validated"] 
           /\ apiKey' = [apiKey EXCEPT ![r] = PlatformKey] /\ PlatformKey # NoKey
           /\ model[r] \in Registry[seenPlan[r]]
           /\ \E q \in plansHeld[r] : RightKey(q, PlatformKey)
  BY <1>1, <1>2 DEF IInv, TypeOK, Known, Right, Resolved, Fresh
<1>3. CASE /\ at' = [at EXCEPT ![r] = "validated"] 
           /\ apiKey' = [apiKey EXCEPT ![r] = key] /\ key # NoKey
           /\ \E q \in plansHeld[r] : RightKey(q, key)
  BY <1>1, <1>3, RunAdmissionAssumption DEF IInv, TypeOK, Known, Right, Resolved, Fresh, OwnKey
<1>4. CASE /\ at' = [at EXCEPT ![r] = "done"] 
           /\ apiKey' \in {apiKey, [apiKey EXCEPT ![r] = PlatformKey]}
  BY <1>1, <1>4 DEF IInv, TypeOK, Known, Right, Resolved, Fresh
<1>5. CASE /\ at' \in {[at EXCEPT ![r] = "preferKey"], [at EXCEPT ![r] = "requireKey"]}
           /\ at'[r] = "preferKey" => plan = "PRO"
           /\ at'[r] = "requireKey" => plan = "BYOK"
           /\ UNCHANGED apiKey
  BY <1>1, <1>5 DEF IInv, TypeOK, Known, Right, Resolved, Fresh
<1>6. CASE ReadUser(r)
  <2>1. plan \in plansHeld[r]
    BY <1>1 DEF IInv, Known
  <2>2. CASE plan = "BYOK"
    <3>1. Goto(r, "requireKey") /\ UNCHANGED apiKey
      BY <1>6, <2>2 DEF ReadUser
    <3> QED BY <1>5, <2>2, <3>1 DEF Goto, IInv, TypeOK
  <2>3. CASE plan = "PRO" /\ key # NoKey
    <3>1. Goto(r, "preferKey") /\ UNCHANGED apiKey
      BY <1>6, <2>3 DEF ReadUser
    <3> QED BY <1>5, <2>3, <3>1 DEF Goto, IInv, TypeOK
  <2>4. CASE ~ (plan = "BYOK") /\ ~ (plan = "PRO" /\ key # NoKey)
    <3>1. UsePlatformKey(r)
      BY <1>6, <2>4 DEF ReadUser
    <3>2. RightKey(plan, PlatformKey)
      <4>1. plan \in {"FREE", "PRO", "BYOK"}
        BY DEF IInv, TypeOK, Plan
      <4>2. plan = "FREE" \/ plan = "PRO"
        BY <2>4, <4>1
      <4> QED BY <4>2 DEF RightKey
    <3>3. CASE PlatformKey # NoKey /\ model[r] \in Registry[seenPlan[r]]
      BY <1>2, <2>1, <3>1, <3>2, <3>3 DEF UsePlatformKey, Validate, Decide, Goto
    <3>4. CASE ~ (PlatformKey # NoKey /\ model[r] \in Registry[seenPlan[r]])
      BY <1>4, <3>1, <3>4 DEF UsePlatformKey, Validate, Decide, Goto
    <3> QED BY <3>3, <3>4
  <2> QED BY <2>2, <2>3, <2>4
<1>7. CASE PreferKey(r)
  BY <1>1, <1>2, <1>3, <1>4, <1>7 DEF PreferKey, UsePlatformKey, UseOwnKey, Validate, Decide, Goto, IsAt,
     RightKey, IInv, TypeOK, Known
<1>8. CASE RequireKey(r)
  <2>1. \E q \in plansHeld[r] : key # NoKey => RightKey(q, key)
    BY <1>8, RunAdmissionAssumption DEF RequireKey, IsAt, RightKey, IInv, Known, TypeOK, OwnKey
  <2> QED BY <1>1, <1>3, <1>4, <1>8, <2>1 DEF RequireKey, UseOwnKey, Validate, Decide, Goto, IsAt
<1> QED BY <1>6, <1>7, <1>8

LEMMA RunsKnow ==
  ASSUME IInv, NEW r \in Request, InsertRun(r) \/ Enqueue(r) \/ EndRun(r) \/ Rerun(r)
  PROVE  TypeOK' /\ (\A x \in Request : Known(x)') /\ Fresh'
<1>1. CASE InsertRun(r) \/ EndRun(r) \/ Rerun(r)
  BY <1>1, RunAdmissionAssumption DEF IInv, TypeOK, Known, Right, Resolved, Fresh, InsertRun, EndRun, Rerun,
     Goto, IsAt, user, history
<1>2. CASE Enqueue(r)
  <2> DEFINE new == [plan |-> seenPlan[r], key |-> apiKey[r], model |-> model[r]]
  <2>1. /\ at[r] = "inserted" /\ at' = [at EXCEPT ![r] = "done"]
        /\ job' \in {job, [job EXCEPT ![r] = new]}
        /\ UNCHANGED <<user, kind, model, seenPlan, apiKey, row, reruns, history>>
    BY <1>2 DEF Enqueue, Goto, IsAt
  <2>2. new \in Job /\ new.plan \in plansHeld[r] /\ Right(r, new.plan, new.key, new.model)
    BY <2>1 DEF IInv, TypeOK, Known, Right, Resolved, Job
  <2>3. Right(r, new.plan, new.key, new.model)'
    BY <2>1, <2>2 DEF Right, history
  <2> HIDE DEF new
  <2>4. TypeOK' /\ Fresh'
    BY <2>1, <2>2 DEF IInv, TypeOK, Fresh, user, history
  <2>5. Known(r)'
    BY <2>1, <2>2, <2>3 DEF IInv, TypeOK, Known, Right, Resolved, user, history
  <2>6. ASSUME NEW x \in Request, x # r PROVE Known(x)'
    BY <2>1, <2>6 DEF IInv, TypeOK, Known, Right, Resolved, user, history
  <2> QED BY <2>4, <2>5, <2>6
<1> QED BY <1>1, <1>2

\* The steps that change plan or key add them to the history of all requests
\* in flight.
LEMMA WritesKnown ==
  ASSUME IInv, SetPlan \/ \E r \in Request : Arrive(r) \/ SaveKey(r) \/ DeleteKey(r)
  PROVE  TypeOK' /\ (\A x \in Request : Known(x)') /\ Fresh'
<1>1. CASE SetPlan
  BY <1>1, RunAdmissionAssumption
     DEF IInv, TypeOK, Known, Right, Resolved, Fresh, SetPlan, InFlight, runs
<1>2. ASSUME NEW r \in Request, Arrive(r) PROVE TypeOK' /\ (\A x \in Request : Known(x)') /\ Fresh'
  BY <1>2 DEF IInv, TypeOK, Known, Right, Resolved, Fresh, Arrive, Goto, user, runs
<1>3. ASSUME NEW r \in Request, SaveKey(r) \/ DeleteKey(r)
      PROVE  TypeOK' /\ (\A x \in Request : Known(x)') /\ Fresh'
  BY <1>3 DEF IInv, TypeOK, Known, Right, Resolved, Fresh, SaveKey, DeleteKey, SetKey, InFlight,
     OwnKey, Goto, IsAt, runs
<1> QED BY <1>1, <1>2, <1>3

-----------------------------------------------------------------------------
\* Counting.

LEMMA SetsFinite ==
  /\ IsFiniteSet(InFlight) /\ IsFiniteSet(Active)
  /\ \A p : IsFiniteSet(Holding(p))
<1>1. IsFiniteSet(Request)
  BY RunAdmissionAssumption
<1>2. InFlight \subseteq Request /\ Active \subseteq Request /\ \A p : Holding(p) \subseteq Request
  BY DEF InFlight, Active, Holding
<1> QED BY <1>1, <1>2, FS_Subset

\* A step that lets nobody in.
LEMMA FewerHeld ==
  ASSUME Counted, reruns \in Nat, reruns' = reruns, InFlight' \subseteq InFlight, \A p \in Plan : Holding(p)' \subseteq Holding(p)
  PROVE  Counted'
<1>1. /\ Cardinality(InFlight') <= Cardinality(InFlight)
      /\ Cardinality(InFlight') \in Nat /\ Cardinality(InFlight) \in Nat
  BY SetsFinite, FS_Subset, FS_CardinalityType
<1>2. ASSUME NEW p \in Plan
      PROVE  Cardinality(Holding(p)') <= ConcurrentLimit[p] + (Overlap - 1) + reruns'
  <2>1. /\ IsFiniteSet(Holding(p)) /\ Holding(p)' \subseteq Holding(p)
    BY SetsFinite
  <2>2. /\ Cardinality(Holding(p)') <= Cardinality(Holding(p))
        /\ Cardinality(Holding(p)') \in Nat /\ Cardinality(Holding(p)) \in Nat
    BY <2>1, FS_Subset, FS_CardinalityType
  <2>3. ConcurrentLimit[p] \in Nat /\ Overlap \in Nat
    BY RunAdmissionAssumption
  <2> QED BY <2>2, <2>3 DEF Counted
<1>3. Overlap \in Nat
  BY RunAdmissionAssumption
<1> QED BY <1>1, <1>2, <1>3 DEF Counted

LEMMA ArriveCounted ==
  ASSUME IInv, NEW r \in Request, Arrive(r)
  PROVE  Counted'
<1>1. /\ at[r] = "idle" /\ row[r] = "none" /\ Cardinality(InFlight) < Overlap
      /\ at' = [at EXCEPT ![r] = "begin"] /\ UNCHANGED <<row, reruns>>
      /\ seenPlan' = [seenPlan EXCEPT ![r] = plan]
  BY DEF Arrive, Goto, IInv, Fresh, runs
<1>2. InFlight' = InFlight \cup {r}
  BY <1>1 DEF InFlight, IInv, TypeOK
<1>3. Cardinality(InFlight') <= Overlap
  <2>1. /\ IsFiniteSet(InFlight \cup {r})
        /\ Cardinality(InFlight \cup {r})
             = IF r \in InFlight THEN Cardinality(InFlight) ELSE Cardinality(InFlight) + 1
    BY SetsFinite, FS_AddElement
  <2>2. Cardinality(InFlight) \in Nat
    BY SetsFinite, FS_CardinalityType
  <2> QED BY <1>1, <1>2, <2>1, <2>2, RunAdmissionAssumption
<1>4. \A p \in Plan : Holding(p)' = Holding(p)
  BY <1>1 DEF Holding, IInv, TypeOK
<1> QED BY <1>1, <1>3, <1>4 DEF IInv, Counted

\* Whoever passes the count finds fewer active runs than his limit; those that
\* passed it before him and have not inserted are in flight with him.
LEMMA CountActiveCounted ==
  ASSUME IInv, NEW r \in Request, CountActive(r)
  PROVE  Counted'
<1> DEFINE limit == ConcurrentLimit[seenPlan[r]]
<1>1. /\ at[r] = "validated" /\ UNCHANGED <<row, reruns, seenPlan>>
      /\ at' = [at EXCEPT ![r] = IF Cardinality(Active) < limit THEN "counted" ELSE "done"]
  BY DEF CountActive, IsAt, Decide, Goto, runs
<1>2. InFlight' \subseteq InFlight
  BY <1>1 DEF InFlight, IInv, TypeOK
<1>3. CASE ~(Cardinality(Active) < limit)
  <2>1. \A p \in Plan : Holding(p)' \subseteq Holding(p)
    BY <1>1, <1>3 DEF Holding, IInv, TypeOK
  <2> QED BY <1>1, <1>2, <2>1, FewerHeld DEF IInv, TypeOK
<1>4. CASE Cardinality(Active) < limit
  <2>1. ASSUME NEW p \in Plan
        PROVE  Cardinality(Holding(p)') <= ConcurrentLimit[p] + (Overlap - 1) + reruns'
    <3>1. /\ ConcurrentLimit[p] \in Nat /\ Overlap \in Nat /\ reruns \in Nat /\ reruns' = reruns
          /\ Cardinality(Holding(p)) <= ConcurrentLimit[p] + (Overlap - 1) + reruns
      BY <1>1, RunAdmissionAssumption DEF IInv, TypeOK, Counted
    <3>2. CASE p # seenPlan[r]
      <4>1. Holding(p)' = Holding(p)
        BY <1>1, <1>4, <3>2 DEF Holding, IInv, TypeOK
      <4> QED BY <3>1, <4>1
    <3>3. CASE p = seenPlan[r]
      <4>1. Holding(p)' \subseteq Active \cup InFlight
        BY <1>1, <1>4 DEF Holding, Active, InFlight, IInv, TypeOK
      <4>2. /\ IsFiniteSet(Active \cup InFlight)
            /\ Cardinality(Active \cup InFlight) =
                 Cardinality(Active) + Cardinality(InFlight) - Cardinality(Active \cap InFlight)
        BY SetsFinite, FS_Union
      <4>3. /\ Cardinality(Holding(p)') <= Cardinality(Active \cup InFlight)
            /\ IsFiniteSet(Holding(p)') /\ IsFiniteSet(Active \cap InFlight)
        BY <4>1, <4>2, SetsFinite, FS_Subset, FS_Intersection
      <4>4. /\ Cardinality(Holding(p)') \in Nat /\ Cardinality(Active \cap InFlight) \in Nat
            /\ Cardinality(Active) \in Nat /\ Cardinality(InFlight) \in Nat
        BY <4>3, SetsFinite, FS_CardinalityType
      <4>5. Cardinality(Active) < ConcurrentLimit[p] /\ Cardinality(InFlight) <= Overlap
        BY <1>4, <3>3 DEF IInv, Counted
      <4> HIDE DEF limit
      <4> QED BY <3>1, <4>2, <4>3, <4>4, <4>5
    <3> QED BY <3>2, <3>3
  <2>2. Cardinality(InFlight') <= Overlap
    <3>1. InFlight' = InFlight
      BY <1>1, <1>4 DEF InFlight, IInv, TypeOK
    <3> QED BY <3>1 DEF IInv, Counted
  <2> QED BY <2>1, <2>2 DEF Counted
<1> QED BY <1>3, <1>4

LEMMA OthersCounted ==
  ASSUME IInv, NEW r \in Request, SetPlan \/ EndRun(r) \/ (Handler(r) /\ ~CountActive(r))
  PROVE  Counted'
<1>1. /\ UNCHANGED <<seenPlan, reruns>>
      /\ InFlight' \subseteq InFlight
      /\ \A x \in Request : x # r => at'[x] = at[x] /\ row'[x] = row[x]
      /\ (row'[r] = "active" \/ at'[r] \in {"counted", "admitted"})
           => (row[r] = "active" \/ at[r] \in {"counted", "admitted"})
  <2>1. CASE SetPlan \/ EndRun(r) \/ Refuse(r) \/ FindTeam(r) \/ DecryptFails(r)
    BY <2>1 DEF SetPlan, EndRun, Refuse, FindTeam, DecryptFails, Goto, IsAt, InFlight, runs, user,
       IInv, TypeOK
  <2>2. CASE ReadUser(r) \/ PreferKey(r) \/ RequireKey(r)
    BY <2>2 DEF ReadUser, PreferKey, RequireKey, UsePlatformKey, UseOwnKey, Validate, Decide, Goto,
       IsAt, InFlight, runs, IInv, TypeOK
  <2>3. CASE CountMonth(r) \/ InsertRun(r) \/ Enqueue(r)
    BY <2>3 DEF CountMonth, InsertRun, Enqueue, Decide, Goto, IsAt, InFlight, runs, IInv, TypeOK
  <2>4. CASE CheckPlan(r) \/ SaveKey(r) \/ DeleteKey(r)
    BY <2>4 DEF CheckPlan, SaveKey, DeleteKey, Decide, Goto, IsAt, InFlight, runs, IInv, TypeOK
  <2> QED BY <2>1, <2>2, <2>3, <2>4 DEF Handler
<1>2. \A p \in Plan : Holding(p)' \subseteq Holding(p)
  BY <1>1 DEF Holding
<1> QED BY <1>1, <1>2, FewerHeld DEF IInv, TypeOK

\* A run taken up again is one more, and counted as such.
LEMMA RerunCounted ==
  ASSUME IInv, NEW x \in Request, Rerun(x)
  PROVE  Counted'
<1>1. /\ row' = [row EXCEPT ![x] = "active"] /\ reruns' = reruns + 1
      /\ UNCHANGED <<at, seenPlan>>
  BY DEF Rerun
<1>2. InFlight' = InFlight
  BY <1>1 DEF InFlight
<1>3. ASSUME NEW p \in Plan
      PROVE  Cardinality(Holding(p)') <= ConcurrentLimit[p] + (Overlap - 1) + reruns'
  <2>1. Holding(p)' \subseteq Holding(p) \cup {x}
    BY <1>1 DEF Holding, IInv, TypeOK
  <2>2. /\ IsFiniteSet(Holding(p) \cup {x})
        /\ Cardinality(Holding(p) \cup {x})
             = IF x \in Holding(p) THEN Cardinality(Holding(p)) ELSE Cardinality(Holding(p)) + 1
    BY SetsFinite, FS_AddElement
  <2>3. IsFiniteSet(Holding(p)') /\ Cardinality(Holding(p)') <= Cardinality(Holding(p) \cup {x})
    BY <2>1, <2>2, FS_Subset
  <2>4. Cardinality(Holding(p)') \in Nat /\ Cardinality(Holding(p)) \in Nat
    BY <2>3, SetsFinite, FS_CardinalityType
  <2>5. /\ ConcurrentLimit[p] \in Nat /\ Overlap \in Nat /\ reruns \in Nat
        /\ Cardinality(Holding(p)) <= ConcurrentLimit[p] + (Overlap - 1) + reruns
    BY RunAdmissionAssumption DEF IInv, TypeOK, Counted
  <2> QED BY <1>1, <2>2, <2>3, <2>4, <2>5
<1> QED BY <1>2, <1>3 DEF IInv, Counted

-----------------------------------------------------------------------------

LEMMA InitIInv == Init => IInv
<1> SUFFICES ASSUME Init PROVE IInv
  OBVIOUS
<1>1. InFlight = {} /\ \A p \in Plan : Holding(p) = {}
  BY DEF Init, InFlight, Holding
<1>2. Cardinality({}) = 0
  BY FS_EmptySet
<1>3. /\ Overlap \in Nat \ {0} /\ reruns = 0
      /\ \A p \in Plan : ConcurrentLimit[p] \in Nat
  BY RunAdmissionAssumption DEF Init
<1>4. Cardinality(InFlight) = 0 /\ \A p \in Plan : Cardinality(Holding(p)) = 0
  BY <1>1, <1>2, Zenon
<1>5. Counted
  BY <1>3, <1>4 DEF Counted
<1> QED BY <1>5, InitKnown DEF IInv

LEMMA NextKeepsIInv == IInv /\ [Next]_vars => IInv'
<1> SUFFICES ASSUME IInv, [Next]_vars PROVE IInv'
  OBVIOUS
<1>1. CASE SetPlan
  <2>1. Request = {} \/ \E r \in Request : TRUE
    OBVIOUS
  <2>2. CASE Request = {}
    <3>1. InFlight' = InFlight /\ \A p \in Plan : Holding(p)' = Holding(p)
      BY <2>2 DEF InFlight, Holding
    <3>2. reruns \in Nat /\ reruns' = reruns
      BY <1>1 DEF SetPlan, runs, IInv, TypeOK
    <3> QED BY <1>1, <3>1, <3>2, WritesKnown, FewerHeld DEF IInv
  <2> QED BY <1>1, <2>1, <2>2, WritesKnown, OthersCounted DEF IInv
<1>2. ASSUME NEW r \in Request, Arrive(r) PROVE IInv'
  BY <1>2, WritesKnown, ArriveCounted DEF IInv
<1>3. ASSUME NEW r \in Request, EndRun(r) \/ Rerun(r) PROVE IInv'
  BY <1>3, RunsKnow, OthersCounted, RerunCounted DEF IInv
<1>4. ASSUME NEW r \in Request, Handler(r) PROVE IInv'
  <2>1. TypeOK' /\ (\A x \in Request : Known(x)') /\ Fresh'
    BY <1>4, HandlersKnow, ResolveKnows, RunsKnow, WritesKnown DEF Handler
  <2>2. Counted'
    BY <1>4, CountActiveCounted, OthersCounted
  <2> QED BY <2>1, <2>2 DEF IInv
<1>5. CASE UNCHANGED vars
  BY <1>5 DEF vars, user, runs, history, IInv, TypeOK, Known, Right, Resolved, Fresh, Counted,
     Holding, InFlight
<1> QED BY <1>1, <1>2, <1>3, <1>4, <1>5 DEF Next

LEMMA AlwaysIInv == Spec => []IInv
BY InitIInv, NextKeepsIInv, PTL DEF Spec

-----------------------------------------------------------------------------

\* Every variable keeps its type; no job is ever given a missing key.
THEOREM AdmissionTypes == Spec => []TypeOK
<1>1. IInv => TypeOK
  BY DEF IInv
<1> QED BY <1>1, AlwaysIInv, PTL

\* A run on the platform's key uses a model of its plan's registry.
THEOREM PlatformRunsUseTheRegistry == Spec => []PlatformRunsRegistryModels
<1>1. IInv => PlatformRunsRegistryModels
  BY DEF IInv, Known, Right, PlatformRunsRegistryModels, HasJob
<1> QED BY <1>1, AlwaysIInv, PTL

\* The plan of a job, and one its key is right for, were held by the user while
\* he asked for the run.
THEOREM KeysFitPlans == Spec => []KeyFitsPlan
<1>1. IInv => KeyFitsPlan
  BY DEF IInv, Known, Right, KeyFitsPlan, HasJob
<1> QED BY <1>1, AlwaysIInv, PTL

\* No run uses a key that was gone before it was asked for.
THEOREM KeysWereStored == Spec => []KeyWasStored
<1>1. IInv => KeyWasStored
  BY DEF IInv, Known, Right, KeyWasStored, HasJob
<1> QED BY <1>1, AlwaysIInv, PTL

\* Plan by plan, a limit is exceeded by the other requests in flight and the
\* runs taken up again at most.
THEOREM ActiveRunsPerPlan == Spec => []ActivePerPlan
<1>1. IInv => ActivePerPlan
  <2> SUFFICES ASSUME IInv, NEW p \in Plan
               PROVE  Cardinality({x \in Active : seenPlan[x] = p})
                        <= ConcurrentLimit[p] + (Overlap - 1) + reruns
    BY DEF ActivePerPlan
  <2> DEFINE active == {x \in Active : seenPlan[x] = p}
  <2>1. active \subseteq Holding(p) /\ IsFiniteSet(Holding(p))
    BY SetsFinite DEF Active, Holding
  <2>2. /\ Cardinality(active) <= Cardinality(Holding(p))
        /\ Cardinality(active) \in Nat /\ Cardinality(Holding(p)) \in Nat
    BY <2>1, FS_Subset, FS_CardinalityType
  <2>3. Cardinality(Holding(p)) <= ConcurrentLimit[p] + (Overlap - 1) + reruns
    BY DEF IInv, Counted
  <2>4. ConcurrentLimit[p] \in Nat /\ Overlap \in Nat /\ reruns \in Nat
    BY RunAdmissionAssumption DEF IInv, TypeOK
  <2>5. Cardinality(active) <= ConcurrentLimit[p] + (Overlap - 1) + reruns
    <3> HIDE DEF active
    <3> QED BY <2>2, <2>3, <2>4
  <2> QED BY <2>5
<1> QED BY <1>1, AlwaysIInv, PTL
==============================================================================
