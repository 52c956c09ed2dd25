---------------------------- MODULE RunAdmission -----------------------------
(***************************************************************************)
(* Which key, model and limits a run is given.  The user's plan is written *)
(* by the billing webhooks and his own key by requests to the key vault;   *)
(* createRun reads the plan in the controller, plan and key again in       *)
(* resolveApiKey, and the key once more in getDecryptedKey, each in a      *)
(* query of its own, and puts what it made of them into the job.           *)
(*                                                                         *)
(* An own key is named by the request that stored it.                      *)
(***************************************************************************)
EXTENDS Integers, FiniteSets

CONSTANTS
    Request,          \* requests; also names the keys and the runs they create
    Overlap,          \* requests in flight, at most
    Model,            \* the models there are
    Registry,         \* MODEL_REGISTRY: the models of each plan
    ConcurrentLimit,  \* CONCURRENT_RUN_LIMIT of each plan
    MonthlyLimit,     \* MONTHLY_RUN_LIMIT of each plan
    PlatformKey,      \* OPENROUTER_PLATFORM_KEY
    OldKey,           \* the key stored before the first request, if any
    NoKey,            \* encryptedOrKey = null; the platform key is not configured
    NoModel,
    MaxPlanChanges,   \* times the plan changes, at most
    MaxReruns         \* times a run that has ended is executed again, at most

Plan == {"FREE", "PRO", "BYOK"}
AllKinds == {"createRun", "saveKey", "deleteKey"}

ASSUME RunAdmissionAssumption ==
    /\ IsFiniteSet(Request)
    /\ Overlap \in Nat \ {0} /\ MaxPlanChanges \in Nat /\ MaxReruns \in Nat
    /\ Registry \in [Plan -> SUBSET Model]
    /\ ConcurrentLimit \in [Plan -> Nat \ {0}] /\ MonthlyLimit \in [Plan -> Nat \ {0}]
    /\ PlatformKey \notin Request \cup {OldKey}
    /\ NoKey \notin Request \cup {OldKey}

VARIABLES
    plan,       \* User.plan
    key,        \* User.encryptedOrKey
    changes,    \* times the plan changed
    at,         \* progress of each request
    kind,       \* what it asks for
    model,      \* the model it uses
    seenPlan,   \* the plan its controller read
    apiKey,     \* what resolveApiKey returned
    job,        \* the data of the job, by the request that created the run
    row,        \* AgentRun.status
    reruns,     \* times a run that had ended was executed again
    plansHeld,  \* history: the plans the user had while the request was in flight
    keysHeld    \* history: the keys stored meanwhile

user == <<plan, key, changes>>
runs == <<job, row, reruns>>
history == <<plansHeld, keysHeld>>
vars == <<user, at, kind, model, seenPlan, apiKey, runs, history>>

OwnKey == Request \cup {OldKey}
NoJob == [plan |-> "none"]
Job == [plan : Plan, key : OwnKey \cup {PlatformKey}, model : Model]

InFlight == {r \in Request : at[r] \notin {"idle", "done"}}
Active == {x \in Request : row[x] = "active"}
Stored == {x \in Request : row[x] # "none"}

Init ==
    /\ plan \in Plan /\ key \in {NoKey, OldKey} /\ changes = 0
    /\ at = [r \in Request |-> "idle"]
    /\ kind = [r \in Request |-> "none"]
    /\ model = [r \in Request |-> NoModel]
    /\ seenPlan = [r \in Request |-> plan]
    /\ apiKey = [r \in Request |-> NoKey]
    /\ job = [r \in Request |-> NoJob]
    /\ row = [r \in Request |-> "none"] /\ reruns = 0
    /\ plansHeld = [r \in Request |-> {}]
    /\ keysHeld = [r \in Request |-> {}]

Goto(r, label) == at' = [at EXCEPT ![r] = label]

\* A decision of the handler: go on, or answer with an error.
Decide(r, condition, label) == Goto(r, IF condition THEN label ELSE "done")

IsAt(r, label, k) == at[r] = label /\ kind[r] = k

-----------------------------------------------------------------------------
\* The request arrives and its controller, or saveKey, reads the plan.
Arrive(r) ==
    /\ at[r] = "idle"
    /\ Cardinality(InFlight) < Overlap
    /\ kind' \in {[kind EXCEPT ![r] = k] : k \in AllKinds}
    /\ Goto(r, "begin")
    /\ seenPlan' = [seenPlan EXCEPT ![r] = plan]
    /\ plansHeld' = [plansHeld EXCEPT ![r] = {plan}]
    /\ keysHeld' = [keysHeld EXCEPT ![r] = {key}]
    /\ UNCHANGED <<user, model, apiKey, runs>>

\* It names no team of the user, runs are in its way, or its write fails.
Refuse(r) ==
    /\ at[r] \in {"begin", "checked"}
    /\ Goto(r, "done")
    /\ UNCHANGED <<user, kind, model, seenPlan, apiKey, runs, history>>

-----------------------------------------------------------------------------
\* createRun.

\* dto.model ?? team.model: any, as a team keeps the model it was given while a
\* key was stored or another plan held.
FindTeam(r) ==
    /\ IsAt(r, "begin", "createRun")
    /\ model' \in {[model EXCEPT ![r] = m] : m \in Model}
    /\ Goto(r, "found")
    /\ UNCHANGED <<user, kind, seenPlan, apiKey, runs, history>>

\* validateModelForUser, which refuses or goes on to the limits.
Validate(r, hasOwnKey) ==
    Decide(r, hasOwnKey \/ model[r] \in Registry[seenPlan[r]], "validated")

\* The end of resolveApiKey, and the validation that follows at once.
UsePlatformKey(r) ==
    IF PlatformKey = NoKey
      THEN Goto(r, "done") /\ UNCHANGED apiKey
      ELSE Validate(r, FALSE) /\ apiKey' = [apiKey EXCEPT ![r] = PlatformKey]

\* Mutation: decrypted keys are kept and used again.
MutUseOwnKey(r) ==
    /\ Validate(r, TRUE)
    /\ apiKey' \in {[apiKey EXCEPT ![r] = k] :
                      k \in {key} \cup ({apiKey[q] : q \in Request} \ {NoKey, PlatformKey})}

UseOwnKey(r) ==
    Validate(r, TRUE) /\ apiKey' = [apiKey EXCEPT ![r] = key]

\* resolveApiKey reads plan and key together ...
ReadUser(r) ==
    /\ IsAt(r, "found", "createRun")
    /\ CASE plan = "BYOK" -> Goto(r, "requireKey") /\ UNCHANGED apiKey
         [] plan = "PRO" /\ key # NoKey -> Goto(r, "preferKey") /\ UNCHANGED apiKey
         [] OTHER -> UsePlatformKey(r)
    /\ UNCHANGED <<user, kind, model, seenPlan, runs, history>>

\* ... and getDecryptedKey the key alone; it may not decrypt any more.

\* Mutation: the key is not looked at again; that there was one is enough.
MutPreferKey(r) ==
    /\ IsAt(r, "preferKey", "createRun")
    /\ IF key # NoKey
         THEN UseOwnKey(r)
         ELSE Validate(r, TRUE) /\ apiKey' = [apiKey EXCEPT ![r] = PlatformKey]
    /\ UNCHANGED <<user, kind, model, seenPlan, runs, history>>

PreferKey(r) ==
    /\ IsAt(r, "preferKey", "createRun")
    /\ IF key # NoKey THEN UseOwnKey(r) ELSE UsePlatformKey(r)
    /\ UNCHANGED <<user, kind, model, seenPlan, runs, history>>

\* Mutation: without a key the platform's is used.
MutRequireKey(r) ==
    /\ IsAt(r, "requireKey", "createRun")
    /\ IF key # NoKey THEN UseOwnKey(r) ELSE UsePlatformKey(r)
    /\ UNCHANGED <<user, kind, model, seenPlan, runs, history>>

RequireKey(r) ==
    /\ IsAt(r, "requireKey", "createRun")
    /\ IF key # NoKey THEN UseOwnKey(r) ELSE Goto(r, "done") /\ UNCHANGED apiKey
    /\ UNCHANGED <<user, kind, model, seenPlan, runs, history>>

DecryptFails(r) ==
    /\ at[r] \in {"preferKey", "requireKey"} /\ key # NoKey
    /\ Goto(r, "done")
    /\ UNCHANGED <<user, kind, model, seenPlan, apiKey, runs, history>>

\* Mutation: the limit of the plan the user has now.
MutCountActive(r) ==
    /\ IsAt(r, "validated", "createRun")
    /\ Decide(r, Cardinality(Active) < ConcurrentLimit[plan], "counted")
    /\ UNCHANGED <<user, kind, model, seenPlan, apiKey, runs, history>>

CountActive(r) ==
    /\ IsAt(r, "validated", "createRun")
    /\ Decide(r, Cardinality(Active) < ConcurrentLimit[seenPlan[r]], "counted")
    /\ UNCHANGED <<user, kind, model, seenPlan, apiKey, runs, history>>

\* All runs of the model are of one month.
CountMonth(r) ==
    /\ IsAt(r, "counted", "createRun")
    /\ Decide(r, Cardinality(Stored) < MonthlyLimit[seenPlan[r]], "admitted")
    /\ UNCHANGED <<user, kind, model, seenPlan, apiKey, runs, history>>

\* The row is inserted, or the insert fails and the request with it.
InsertRun(r) ==
    /\ IsAt(r, "admitted", "createRun")
    /\ \/ row' = [row EXCEPT ![r] = "active"] /\ Goto(r, "inserted")
       \/ UNCHANGED row /\ Goto(r, "done")
    /\ UNCHANGED <<user, kind, model, seenPlan, apiKey, job, reruns, history>>

\* The job is added to the queue, or the row is left without one.
Enqueue(r) ==
    /\ IsAt(r, "inserted", "createRun")
    /\ \/ job' = [job EXCEPT ![r] =
                    [plan |-> seenPlan[r], key |-> apiKey[r], model |-> model[r]]]
       \/ UNCHANGED job
    /\ Goto(r, "done")
    /\ UNCHANGED <<user, kind, model, seenPlan, apiKey, row, reruns, history>>

-----------------------------------------------------------------------------
\* The key vault.

SetKey(k) ==
    /\ key' = k
    /\ keysHeld' = [r \in Request |-> IF r \in InFlight THEN keysHeld[r] \cup {k} ELSE keysHeld[r]]

\* FREE plans are refused before the key is encrypted.
CheckPlan(r) ==
    /\ IsAt(r, "begin", "saveKey")
    /\ Decide(r, seenPlan[r] # "FREE", "checked")
    /\ UNCHANGED <<user, kind, model, seenPlan, apiKey, runs, history>>

SaveKey(r) ==
    /\ IsAt(r, "checked", "saveKey")
    /\ SetKey(r)
    /\ Goto(r, "done")
    /\ UNCHANGED <<plan, changes, kind, model, seenPlan, apiKey, runs, plansHeld>>

DeleteKey(r) ==
    /\ IsAt(r, "begin", "deleteKey")
    /\ SetKey(NoKey)
    /\ Goto(r, "done")
    /\ UNCHANGED <<plan, changes, kind, model, seenPlan, apiKey, runs, plansHeld>>

-----------------------------------------------------------------------------
\* Billing sets the plan and leaves the key alone.
SetPlan ==
    /\ changes < MaxPlanChanges
    /\ changes' = changes + 1
    /\ plan' \in Plan \ {plan}
    /\ plansHeld' = [r \in Request |->
                        IF r \in InFlight THEN plansHeld[r] \cup {plan'} ELSE plansHeld[r]]
    /\ UNCHANGED <<key, at, kind, model, seenPlan, apiKey, runs, keysHeld>>

\* The worker has taken the run to its end.
EndRun(x) ==
    /\ row[x] = "active" /\ job[x] # NoJob
    /\ row' = [row EXCEPT ![x] = "ended"]
    /\ UNCHANGED <<user, at, kind, model, seenPlan, apiKey, job, reruns, history>>

\* The queue hands out the job of a run again that has ended.
Rerun(x) ==
    /\ reruns < MaxReruns /\ row[x] = "ended"
    /\ row' = [row EXCEPT ![x] = "active"]
    /\ reruns' = reruns + 1
    /\ UNCHANGED <<user, at, kind, model, seenPlan, apiKey, job, history>>

Handler(r) ==
    \/ Refuse(r) \/ FindTeam(r) \/ ReadUser(r)
    \/ PreferKey(r) \/ RequireKey(r) \/ DecryptFails(r)
    \/ CountActive(r) \/ CountMonth(r) \/ InsertRun(r) \/ Enqueue(r)
    \/ CheckPlan(r) \/ SaveKey(r) \/ DeleteKey(r)

Next ==
    \/ SetPlan
    \/ \E r \in Request : Arrive(r) \/ Handler(r) \/ EndRun(r) \/ Rerun(r)

Spec == Init /\ [][Next]_vars

-----------------------------------------------------------------------------
\* Correctness.

TypeOK ==
    /\ plan \in Plan /\ key \in OwnKey \cup {NoKey}
    /\ changes \in 0 .. MaxPlanChanges
    /\ at \in [Request -> {"idle", "begin", "found", "preferKey", "requireKey", "validated",
                           "counted", "admitted", "inserted", "checked", "done"}]
    /\ kind \in [Request -> AllKinds \cup {"none"}]
    /\ model \in [Request -> Model \cup {NoModel}]
    /\ seenPlan \in [Request -> Plan]
    /\ apiKey \in [Request -> OwnKey \cup {PlatformKey, NoKey}]
    /\ job \in [Request -> Job \cup {NoJob}]
    /\ row \in [Request -> {"none", "active", "ended"}]
    /\ reruns \in 0 .. MaxReruns
    /\ plansHeld \in [Request -> SUBSET Plan]
    /\ keysHeld \in [Request -> SUBSET (OwnKey \cup {NoKey})]

HasJob == {x \in Request : job[x] # NoJob}

\* A run on the platform's key uses a model of the registry of the plan in its
\* job, whatever happens to plan and key between the reads of createRun.
PlatformRunsRegistryModels ==
    \A x \in HasJob : job[x].key = PlatformKey => job[x].model \in Registry[job[x].plan]

\* The plan in the job, and a plan its key is right for, are plans the user
\* held while the request was in flight: a request no plan change falls into
\* runs a FREE user on the platform's key and a BYOK user on his own.
RightKey(p, k) ==
    CASE p = "FREE" -> k = PlatformKey
      [] p = "PRO"  -> TRUE
      [] p = "BYOK" -> k # PlatformKey

KeyFitsPlan ==
    \A x \in HasJob :
        /\ job[x].plan \in plansHeld[x]
        /\ \E p \in plansHeld[x] : RightKey(p, job[x].key)

\* An own key in a job was the stored key at some moment of the request: no run
\* uses a key that was deleted or replaced before its request arrived.
KeyWasStored ==
    \A x \in HasJob : job[x].key # PlatformKey => job[x].key \in keysHeld[x]

\* Of the runs admitted under a plan no more are active than its limit, the
\* other requests in flight and the runs taken up again, through any upgrades
\* and downgrades.
ActivePerPlan ==
    \A p \in Plan :
        Cardinality({x \in Active : seenPlan[x] = p})
            <= ConcurrentLimit[p] + (Overlap - 1) + reruns
=============================================================================
