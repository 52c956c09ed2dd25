-------------------------- MODULE RunPipelineProofs --------------------------
(***************************************************************************)
(* Proofs about RunPipeline for all values of its constants.               *)
(***************************************************************************)
EXTENDS RunPipeline, FiniteSetTheorems, NaturalsInduction, WellFoundedInduction, TLAPS

-----------------------------------------------------------------------------
\* SumFunction folds over the subsets of its domain, taking an element it
\* chooses from each: the recursive function exists, and the choice is
\* immaterial.

LEMMA LeastNumber ==
  ASSUME NEW T, T \subseteq Nat, T # {}
  PROVE  \E n \in T : \A m \in T : n <= m
<1> DEFINE R == {ss \in Nat \X Nat : ss[1] < ss[2]}
<1>1. IsWellFoundedOn(R, Nat)
  BY NatLessThanWellFounded DEF OpToRel
<1> HIDE DEF R
<1>2. \E x \in T : \A y \in T : ~ (<<y, x>> \in R)
  BY <1>1, WFMin
<1>3. \A x, y \in Nat : <<y, x>> \notin R => x <= y
  BY DEF R
<1> QED BY <1>2, <1>3

\* A claim about the subsets of a finite set that holds of a set as soon as it
\* holds of the smaller ones holds of them all.
LEMMA BySize ==
  ASSUME NEW D, IsFiniteSet(D), NEW P \in SUBSET SUBSET D,
         \A s \in SUBSET D :
            (\A t \in SUBSET D : Cardinality(t) < Cardinality(s) => t \in P) => s \in P
  PROVE  P = SUBSET D
<1> DEFINE T == {n \in Nat : \E s \in SUBSET D : Cardinality(s) = n /\ s \notin P}
<1> SUFFICES ASSUME T # {} PROVE FALSE
  <2>1. \A s \in SUBSET D : Cardinality(s) \in Nat
    BY FS_Subset, FS_CardinalityType
  <2> QED BY <2>1
<1>1. \A s \in SUBSET D : Cardinality(s) \in Nat
  BY FS_Subset, FS_CardinalityType
<1>2. PICK n \in T : \A m \in T : n <= m
  <2>1. T \subseteq Nat
    OBVIOUS
  <2> HIDE DEF T
  <2> QED BY <2>1, LeastNumber
<1>3. PICK s \in SUBSET D : Cardinality(s) = n /\ s \notin P
  BY <1>2
<1>4. \A t \in SUBSET D : Cardinality(t) < Cardinality(s) => t \in P
  BY <1>1, <1>2, <1>3
<1> QED BY <1>3, <1>4

AnyOf(s) == CHOOSE x \in s : TRUE

Summed(sum, f, P) ==
    sum = [s \in P |-> IF s = {} THEN 0 ELSE f[AnyOf(s)] + sum[s \ {AnyOf(s)}]]

UpToSize(D, n) == {s \in SUBSET D : Cardinality(s) <= n}

\* A subset of a finite set, less one element.
LEMMA SmallerSet ==
  ASSUME NEW D, IsFiniteSet(D), NEW s \in SUBSET D, NEW x \in s
  PROVE  s \ {x} \in SUBSET D /\ Cardinality(s \ {x}) = Cardinality(s) - 1
         /\ Cardinality(s) \in Nat \ {0} /\ Cardinality(s \ {x}) \in Nat
BY FS_Subset, FS_RemoveElement, FS_CardinalityType, FS_EmptySet

\* The element chosen.
LEMMA AnyOfIn == ASSUME NEW s, s # {} PROVE AnyOf(s) \in s
BY DEF AnyOf

\* Were a largest size reached, one more could be added.
LEMMA SummedExists ==
  ASSUME NEW f, NEW D, IsFiniteSet(D)
  PROVE  \E sum : Summed(sum, f, SUBSET D)
<1> DEFINE T == {n \in Nat : ~ \E sum : Summed(sum, f, UpToSize(D, n))}
<1>1. T = {}
  <2> SUFFICES ASSUME T # {} PROVE FALSE
    OBVIOUS
  <2>1. PICK n \in T : \A m \in T : n <= m
    <3>1. T \subseteq Nat
      OBVIOUS
    <3> HIDE DEF T
    <3> QED BY <3>1, LeastNumber
  <2>2. CASE n = 0
    <3>1. UpToSize(D, 0) = {{}}
      <4>1. \A s \in SUBSET D : IsFiniteSet(s) /\ Cardinality(s) \in Nat
        BY FS_Subset, FS_CardinalityType
      <4>2. \A s \in SUBSET D : Cardinality(s) <= 0 <=> s = {}
        BY <4>1, FS_EmptySet
      <4> QED BY <4>2 DEF UpToSize
    <3>2. Summed([s \in {{}} |-> 0], f, {{}})
      BY DEF Summed
    <3> QED BY <2>1, <2>2, <3>1, <3>2
  <2>3. CASE n # 0
    <3> DEFINE P == UpToSize(D, n - 1)
               Q == UpToSize(D, n)
    <3>1. n - 1 \in Nat /\ n - 1 \notin T
      BY <2>1, <2>3
    <3>2. PICK sum : Summed(sum, f, P)
      BY <3>1
    <3> DEFINE more == [s \in Q |->
                 IF s = {} THEN 0 ELSE f[AnyOf(s)] + sum[s \ {AnyOf(s)}]]
    <3>3. \A s \in P : s \in Q
      <4>1. \A s \in SUBSET D : Cardinality(s) \in Nat
        BY FS_Subset, FS_CardinalityType
      <4> QED BY <4>1, <2>1 DEF UpToSize
    <3>4. \A s \in P : more[s] = sum[s]
      BY <3>2, <3>3 DEF Summed
    <3>5. \A s \in Q : s # {} => s \ {AnyOf(s)} \in P
      <4> SUFFICES ASSUME NEW s \in Q, s # {} PROVE s \ {AnyOf(s)} \in P
        OBVIOUS
      <4>1. AnyOf(s) \in s /\ s \in SUBSET D
        BY AnyOfIn DEF UpToSize
      <4>2. Cardinality(s) <= n
        BY DEF UpToSize
      <4>3. /\ s \ {AnyOf(s)} \in SUBSET D
            /\ Cardinality(s \ {AnyOf(s)}) = Cardinality(s) - 1
            /\ Cardinality(s) \in Nat
        BY <4>1, SmallerSet
      <4> QED BY <4>2, <4>3, <2>1 DEF UpToSize
    <3>6. \A s \in Q : s # {} => more[s \ {AnyOf(s)}] = sum[s \ {AnyOf(s)}]
      BY <3>4, <3>5
    <3> HIDE DEF P, Q
    <3>7. more = [s \in Q |->
                 IF s = {} THEN 0 ELSE f[AnyOf(s)] + more[s \ {AnyOf(s)}]]
      BY <3>6, Zenon
    <3> HIDE DEF more
    <3>8. Summed(more, f, Q)
      BY <3>7 DEF Summed
    <3> QED BY <2>1, <3>8 DEF Q
  <2> QED BY <2>2, <2>3
<1>2. Cardinality(D) \in Nat /\ UpToSize(D, Cardinality(D)) = SUBSET D
  BY FS_Subset, FS_CardinalityType DEF UpToSize
<1>3. \E sum : Summed(sum, f, UpToSize(D, Cardinality(D)))
  BY <1>1, <1>2
<1> QED BY <1>2, <1>3

\* SumFunction is the value of such a function at the whole domain.
LEMMA SumFunctionIs ==
  ASSUME NEW f, IsFiniteSet(DOMAIN f)
  PROVE  \E sum : Summed(sum, f, SUBSET DOMAIN f) /\ SumFunction(f) = sum[DOMAIN f]
<1> DEFINE sum == CHOOSE it : it = [s \in SUBSET DOMAIN f |->
      IF s = {} THEN 0 ELSE f[CHOOSE x \in s : TRUE] + it[s \ {CHOOSE x \in s : TRUE}]]
<1>1. \E it : it = [s \in SUBSET DOMAIN f |->
      IF s = {} THEN 0 ELSE f[CHOOSE x \in s : TRUE] + it[s \ {CHOOSE x \in s : TRUE}]]
  <2>1. \E it : Summed(it, f, SUBSET DOMAIN f)
    BY SummedExists
  <2> QED BY <2>1, Zenon DEF Summed, AnyOf
<1>2. Summed(sum, f, SUBSET DOMAIN f)
  BY <1>1, Zenon DEF Summed, AnyOf
<1>3. SumFunction(f) = sum[DOMAIN f]
  BY Zenon DEF SumFunction, SumFunctionOnSet, FoldFunctionOnSet, MapThenFoldSet
<1> QED BY <1>2, <1>3

Peels(sum, f, D) ==
    \A s \in SUBSET D : sum[s] \in Nat /\ \A x \in s : sum[s] = f[x] + sum[s \ {x}]

\* The order in which the fold takes the elements does not matter.
LEMMA SummedPeels ==
  ASSUME NEW D, IsFiniteSet(D), NEW f \in [D -> Nat], NEW sum, Summed(sum, f, SUBSET D)
  PROVE  Peels(sum, f, D)
<1> DEFINE P == {s \in SUBSET D :
                   sum[s] \in Nat /\ \A x \in s : sum[s] = f[x] + sum[s \ {x}]}
<1>1. ASSUME NEW s \in SUBSET D,
             \A t \in SUBSET D : Cardinality(t) < Cardinality(s) => t \in P
      PROVE  s \in P
  <2>1. CASE s = {}
    BY <2>1 DEF Summed
  <2>2. CASE s # {}
    <3> DEFINE c == AnyOf(s)
    <3>1. c \in s
      BY <2>2, AnyOfIn
    <3>2. sum[s] = f[c] + sum[s \ {c}]
      BY <2>2 DEF Summed
    <3> HIDE DEF c
    <3>3. \A x \in s : s \ {x} \in P
      <4> SUFFICES ASSUME NEW x \in s PROVE s \ {x} \in P
        OBVIOUS
      <4>1. s \ {x} \in SUBSET D /\ Cardinality(s \ {x}) < Cardinality(s)
        BY SmallerSet
      <4> QED BY <1>1, <4>1
    <3>4. sum[s] \in Nat
      <4>1. f[c] \in Nat /\ sum[s \ {c}] \in Nat
        BY <3>1, <3>3
      <4> QED BY <3>2, <4>1
    <3>5. ASSUME NEW x \in s, x # c
          PROVE  sum[s] = f[x] + sum[s \ {x}]
      <4>1. sum[s \ {c}] = f[x] + sum[(s \ {c}) \ {x}]
        BY <3>1, <3>3, <3>5
      <4>2. sum[s \ {x}] = f[c] + sum[(s \ {x}) \ {c}]
        BY <3>1, <3>3, <3>5
      <4>3. (s \ {c}) \ {x} = (s \ {x}) \ {c}
        OBVIOUS
      <4>4. (s \ {x}) \ {c} \in SUBSET D /\ Cardinality((s \ {x}) \ {c}) < Cardinality(s)
        <5>1. Cardinality(s \ {x}) = Cardinality(s) - 1 /\ Cardinality(s) \in Nat
              /\ s \ {x} \in SUBSET D /\ c \in s \ {x}
          BY <3>1, <3>5, SmallerSet
        <5>2. Cardinality((s \ {x}) \ {c}) = Cardinality(s \ {x}) - 1
          BY <5>1, SmallerSet
        <5> QED BY <5>1, <5>2
      <4>5. sum[(s \ {x}) \ {c}] \in Nat
        BY <1>1, <4>4
      <4>6. f[x] \in Nat /\ f[c] \in Nat
        BY <3>1, <3>5
      <4> DEFINE rest == sum[(s \ {x}) \ {c}]
      <4>7. sum[s \ {c}] = f[x] + rest /\ sum[s \ {x}] = f[c] + rest
        BY <4>1, <4>2, <4>3
      <4>8. rest \in Nat
        BY <4>5
      <4> HIDE DEF rest
      <4> QED BY <3>2, <4>6, <4>7, <4>8
    <3> QED BY <3>2, <3>4, <3>5
  <2> QED BY <2>1, <2>2
<1> HIDE DEF P
<1>2. P \in SUBSET SUBSET D
  BY DEF P
<1>3. P = SUBSET D
  BY <1>1, <1>2, BySize
<1> QED BY <1>3 DEF P, Peels

\* Functions that agree on a set have the same sum over it.
LEMMA SummedAgree ==
  ASSUME NEW D, IsFiniteSet(D), NEW f \in [D -> Nat], NEW g \in [D -> Nat],
         NEW sum, Summed(sum, f, SUBSET D), NEW sum2, Summed(sum2, g, SUBSET D)
  PROVE  \A s \in SUBSET D : (\A x \in s : f[x] = g[x]) => sum[s] = sum2[s]
<1> DEFINE P == {s \in SUBSET D : (\A x \in s : f[x] = g[x]) => sum[s] = sum2[s]}
<1>1. ASSUME NEW s \in SUBSET D,
             \A t \in SUBSET D : Cardinality(t) < Cardinality(s) => t \in P
      PROVE  s \in P
  <2> SUFFICES ASSUME \A x \in s : f[x] = g[x] PROVE sum[s] = sum2[s]
    OBVIOUS
  <2>1. CASE s = {}
    BY <2>1 DEF Summed
  <2>2. CASE s # {}
    <3> DEFINE c == AnyOf(s)
    <3>1. c \in s
      BY <2>2, AnyOfIn
    <3>2. sum[s] = f[c] + sum[s \ {c}] /\ sum2[s] = g[c] + sum2[s \ {c}]
      BY <2>2 DEF Summed
    <3>3. s \ {c} \in P
      <4>1. s \ {c} \in SUBSET D /\ Cardinality(s \ {c}) < Cardinality(s)
        BY <3>1, SmallerSet
      <4> QED BY <1>1, <4>1
    <3>4. sum[s \ {c}] = sum2[s \ {c}]
      BY <3>3
    <3> QED BY <3>1, <3>2, <3>4
  <2> QED BY <2>1, <2>2
<1> HIDE DEF P
<1>2. P \in SUBSET SUBSET D
  BY DEF P
<1>3. P = SUBSET D
  BY <1>1, <1>2, BySize
<1> QED BY <1>3 DEF P

\* Nothing was spent before the first step.
LEMMA SumOfZeros ==
  ASSUME NEW D, IsFiniteSet(D)
  PROVE  SumFunction([x \in D |-> 0]) = 0
<1> DEFINE f == [x \in D |-> 0]
<1>1. DOMAIN f = D /\ f \in [D -> Nat]
  OBVIOUS
<1>2. PICK sum : Summed(sum, f, SUBSET D) /\ SumFunction(f) = sum[D]
  BY <1>1, SumFunctionIs
<1> DEFINE P == {s \in SUBSET D : sum[s] = 0}
<1>3. ASSUME NEW s \in SUBSET D,
             \A t \in SUBSET D : Cardinality(t) < Cardinality(s) => t \in P
      PROVE  s \in P
  <2>1. CASE s = {}
    BY <1>2, <2>1 DEF Summed
  <2>2. CASE s # {}
    <3>1. PICK x : x \in s
      BY <2>2
    <3>2. sum[s] = f[x] + sum[s \ {x}]
      <4> HIDE DEF f
      <4> QED BY <1>1, <1>2, <3>1, SummedPeels DEF Peels
    <3>3. s \ {x} \in SUBSET D /\ Cardinality(s \ {x}) < Cardinality(s)
      BY <3>1, SmallerSet
    <3> QED BY <1>3, <3>1, <3>2, <3>3
  <2> QED BY <2>1, <2>2
<1>4. P \in SUBSET SUBSET D
  OBVIOUS
<1> HIDE DEF P
<1>5. P = SUBSET D
  BY <1>3, <1>4, BySize
<1> QED BY <1>2, <1>5 DEF P

LEMMA PositionFinite == IsFiniteSet(Position)
  BY FS_Interval, PipelineAssumption DEF Position

\* Two functions that differ at one point.
LEMMA SumsDiffer ==
  ASSUME NEW f \in [Position -> Nat], NEW g \in [Position -> Nat], NEW k \in Position,
         \A x \in Position \ {k} : f[x] = g[x]
  PROVE  SumFunction(f) \in Nat /\ SumFunction(g) = SumFunction(f) - f[k] + g[k]
<1>1. DOMAIN f = Position /\ DOMAIN g = Position
  OBVIOUS
<1>2. PICK sum : Summed(sum, f, SUBSET Position) /\ SumFunction(f) = sum[Position]
  BY <1>1, PositionFinite, SumFunctionIs
<1>3. PICK sum2 : Summed(sum2, g, SUBSET Position) /\ SumFunction(g) = sum2[Position]
  BY <1>1, PositionFinite, SumFunctionIs
<1>4. /\ sum[Position] \in Nat /\ sum[Position \ {k}] \in Nat
      /\ sum[Position] = f[k] + sum[Position \ {k}]
  <2>1. Peels(sum, f, Position)
    BY <1>2, PositionFinite, SummedPeels
  <2> QED BY <2>1 DEF Peels
<1>5. sum2[Position] = g[k] + sum2[Position \ {k}]
  <2>1. Peels(sum2, g, Position)
    BY <1>3, PositionFinite, SummedPeels
  <2> QED BY <2>1 DEF Peels
<1>6. sum[Position \ {k}] = sum2[Position \ {k}]
  <2>1. \A s \in SUBSET Position : (\A x \in s : f[x] = g[x]) => sum[s] = sum2[s]
    BY <1>2, <1>3, PositionFinite, SummedAgree
  <2> QED BY <2>1
<1>7. f[k] \in Nat /\ g[k] \in Nat
  OBVIOUS
<1> QED BY <1>2, <1>3, <1>4, <1>5, <1>6, <1>7

-----------------------------------------------------------------------------

(***************************************************************************)
(* The counters of the job account for every execution it handed out.      *)
(***************************************************************************)
Accounting ==
    /\ execs = attemptsMade + stalled + (IF job \in {"active", "completed"} THEN 1 ELSE 0)
    /\ job = "none" => attemptsMade = 0 /\ stalled = 0
    /\ job \in {"waiting", "delayed", "active", "completed"} =>
          attemptsMade < Attempts /\ stalled <= MaxStalls
    /\ job = "failed" =>
          \/ attemptsMade = Attempts /\ stalled <= MaxStalls
          \/ attemptsMade < Attempts /\ stalled = MaxStalls + 1

(***************************************************************************)
(* The row exists before its job, and the job before its executions.       *)
(***************************************************************************)
Provenance ==
    /\ api = "idle" <=> status = "none"
    /\ api # "returned" => job = "none"

(***************************************************************************)
(* What the local variables of one execution say at each of its labels.    *)
(***************************************************************************)
Local(e) ==
    /\ pc[e] = "idle" <=> e > execs
    /\ pc[e] \in {"idle", "start", "load"} => team[e] = Unloaded
    /\ pc[e] \in {"loop", "stream", "stepFail", "lookup", "fail"} => team[e] # Unloaded
    /\ team[e] = Unloaded => done[e] = 0 /\ total[e] = 0 /\ elapsed[e] = 0
    /\ team[e] # Unloaded => done[e] <= team[e]
    /\ pc[e] \in {"stream", "stepFail"} => done[e] < team[e]
    /\ pc[e] = "stream" => MayStart(e)
    /\ pc[e] = "lookup" => done[e] = team[e]
    /\ total[e] < Budget + MaxReport
    /\ waited[e] <= elapsed[e] /\ waited[e] <= RunTimeout + StepTimeout
    /\ \A i \in 1 .. done[e] : step[e][i] \in {"COMPLETED", "deleted"}

(***************************************************************************)
(* The inductive invariant behind the safety properties that hold whatever *)
(* the faults.                                                             *)
(***************************************************************************)
IInv ==
    /\ TypeOK
    /\ Accounting
    /\ Provenance
    /\ \A e \in Exec : Local(e)
    /\ totalUsed < Budget + MaxReport
    /\ CompletedMeansAllSteps

USE PipelineAssumption DEF Exec, Position, Unloaded, Terminal, clock

\* Before the request nothing has been executed.
LEMMA InitIInv == Init => IInv
  BY DEF Init, IInv, TypeOK, Accounting, Provenance, Local, CompletedMeansAllSteps,
         Pcs, Working

\* The createRun actions touch neither executions nor counters.
LEMMA RequestKeepsIInv ==
  ASSUME IInv, CreateRow \/ Enqueue \/ EnqueueFails
  PROVE  IInv'
<1>1. TypeOK'
  BY DEF IInv, TypeOK, CreateRow, Enqueue, EnqueueFails, runRow, queue, memory, rows, edits
<1>2. Accounting' /\ Provenance'
  <2>1. CASE CreateRow
    BY <2>1 DEF IInv, TypeOK, Accounting, Provenance, CreateRow, queue
  <2>2. CASE Enqueue \/ EnqueueFails
    <3>1. UNCHANGED <<status, attemptsMade, stalled, execs>> /\ api = "created"
      BY <2>2 DEF Enqueue, EnqueueFails, runRow, queue
    <3> QED BY <2>2, <3>1 DEF IInv, TypeOK, Accounting, Provenance, Enqueue, EnqueueFails, queue
  <2> QED BY <2>1, <2>2
<1>3. \A e \in Exec : Local(e)'
  BY DEF IInv, Local, MayStart, CreateRow, Enqueue, EnqueueFails, queue, memory, rows
<1>4. (totalUsed < Budget + MaxReport)' /\ CompletedMeansAllSteps'
  BY DEF IInv, CompletedMeansAllSteps, AllStepsDone, CreateRow, Enqueue, EnqueueFails,
         runRow, queue, memory, rows
<1> QED
  BY <1>1, <1>2, <1>3, <1>4 DEF IInv

\* Handing the job out and losing its lock keep its counters in step with the
\* executions.
LEMMA BrokerKeepsIInv ==
  ASSUME IInv, PickUp \/ BackoffEnds \/ LockLapses
  PROVE  IInv'
<1>1. Accounting' /\ Provenance'
  <2>1. CASE PickUp
    BY <2>1 DEF IInv, TypeOK, Accounting, Provenance, PickUp, runRow
  <2>2. CASE BackoffEnds
    BY <2>2 DEF IInv, TypeOK, Accounting, Provenance, BackoffEnds, runRow
  <2>3. CASE LockLapses
    BY <2>3 DEF IInv, TypeOK, Accounting, Provenance, LockLapses, runRow
  <2> QED BY <2>1, <2>2, <2>3
<1>2. TypeOK'
  <2>1. CASE PickUp
    BY <2>1 DEF IInv, TypeOK, Accounting, PickUp, Goto, Pcs, Working, runRow, memory, rows, edits
  <2>2. CASE BackoffEnds
    BY <2>2 DEF IInv, TypeOK, BackoffEnds, runRow, memory, rows, edits
  <2>3. CASE LockLapses
    <3>1. stalled' \in 0 .. MaxStalls + 1 /\ job' \in {"waiting", "failed"}
      BY <2>3 DEF IInv, TypeOK, Accounting, LockLapses
    <3> QED
      <4>1. outlived' \subseteq Exec
        BY <2>3 DEF IInv, TypeOK, Accounting, LockLapses
      <4>2. UNCHANGED <<runRow, api, attemptsMade, execs, pc, memory, rows, edits>>
        BY <2>3 DEF LockLapses
      <4> QED BY <3>1, <4>1, <4>2 DEF IInv, TypeOK, runRow, memory, rows, edits
  <2> QED BY <2>1, <2>2, <2>3
<1>3. \A e \in Exec : Local(e)'
  <2>1. CASE PickUp
    BY <2>1 DEF IInv, TypeOK, Accounting, Local, MayStart, PickUp, Goto, memory, rows
  <2>2. CASE BackoffEnds \/ LockLapses
    BY <2>2 DEF IInv, Local, MayStart, BackoffEnds, LockLapses, memory, rows
  <2> QED BY <2>1, <2>2
<1>4. (totalUsed < Budget + MaxReport)' /\ CompletedMeansAllSteps'
  BY DEF IInv, CompletedMeansAllSteps, AllStepsDone, PickUp, BackoffEnds, LockLapses,
         runRow, memory, rows
<1> QED
  BY <1>1, <1>2, <1>3, <1>4 DEF IInv

\* A worker's report closes its execution and may count an attempt.
LEMMA ReportKeepsIInv ==
  ASSUME IInv, NEW e \in Exec, ReportSuccess(e) \/ ReportFailure(e) \/ Crash(e)
  PROVE  IInv'
<1>1. Accounting' /\ Provenance'
  <2>1. CASE ReportSuccess(e)
    BY <2>1 DEF IInv, TypeOK, Accounting, Provenance, ReportSuccess, HoldsLock, runRow
  <2>2. CASE ReportFailure(e)
    <3>1. UNCHANGED <<status, api, stalled, execs>>
      BY <2>2 DEF ReportFailure, runRow
    <3>2. CASE HoldsLock(e)
      <4>1. /\ attemptsMade' = attemptsMade + 1
            /\ job' = IF attemptsMade + 1 < Attempts THEN "delayed" ELSE "failed"
            /\ job = "active"
        BY <2>2, <3>2 DEF ReportFailure, HoldsLock
      <4> QED
        BY <3>1, <4>1 DEF IInv, TypeOK, Accounting, Provenance
    <3>3. CASE ~ HoldsLock(e)
      BY <2>2, <3>1, <3>3 DEF IInv, Accounting, Provenance, ReportFailure
    <3> QED BY <3>2, <3>3
  <2>3. CASE Crash(e)
    BY <2>3 DEF IInv, TypeOK, Accounting, Provenance, Crash, runRow, queue
  <2> QED BY <2>1, <2>2, <2>3
<1>2. TypeOK'
  <2>1. CASE ReportSuccess(e)
    BY <2>1 DEF IInv, TypeOK, ReportSuccess, Goto, Pcs, runRow, memory, rows, edits
  <2>2. CASE ReportFailure(e)
    <3>1. attemptsMade' \in 0 .. Attempts /\ job' \in {job, "delayed", "failed"}
      <4>1. CASE HoldsLock(e)
        BY <2>2, <4>1 DEF IInv, TypeOK, Accounting, ReportFailure, HoldsLock
      <4>2. CASE ~ HoldsLock(e)
        BY <2>2, <4>2 DEF IInv, TypeOK, ReportFailure
      <4> QED BY <4>1, <4>2
    <3> QED
      BY <2>2, <3>1 DEF IInv, TypeOK, ReportFailure, Goto, Pcs, runRow, memory, rows, edits
  <2>3. CASE Crash(e)
    BY <2>3 DEF IInv, TypeOK, Crash, Goto, Pcs, runRow, queue, memory, rows, edits
  <2> QED BY <2>1, <2>2, <2>3
<1>3. \A f \in Exec : Local(f)'
  <2> SUFFICES ASSUME NEW f \in Exec PROVE Local(f)'
    OBVIOUS
  <2>1. /\ pc \in [Exec -> Pcs]
        /\ pc[e] \in Working
        /\ pc' = [pc EXCEPT ![e] = "closed"] \/ pc' = [pc EXCEPT ![e] = "dead"]
        /\ UNCHANGED <<execs, memory, rows>>
    BY DEF IInv, TypeOK, ReportSuccess, ReportFailure, Crash, Goto, Live, Working, queue
  <2>2. Local(f)
    BY DEF IInv
  <2> QED
    BY <2>1, <2>2 DEF Local, MayStart, Working, memory, rows
<1>4. (totalUsed < Budget + MaxReport)' /\ CompletedMeansAllSteps'
  BY DEF IInv, CompletedMeansAllSteps, AllStepsDone, ReportSuccess, ReportFailure, Crash,
         runRow, memory, rows
<1> QED
  BY <1>1, <1>2, <1>3, <1>4 DEF IInv

\* Replacing the agents deletes step rows and nothing else.
LEMMA EditKeepsIInv ==
  ASSUME IInv, CheckNoActiveRun \/ ReplaceAgents
  PROVE  IInv'
<1>1. /\ Accounting' /\ Provenance'
      /\ (totalUsed < Budget + MaxReport)'
  BY DEF IInv, Accounting, Provenance, CheckNoActiveRun, ReplaceAgents, runRow, queue
<1>2. /\ editor' \in {"idle", "checked"}
      /\ erased' \subseteq Exec
      /\ step' \in [Exec -> [Position ->
                   {"none", "RUNNING", "COMPLETED", "FAILED", "deleted"}]]
      /\ \A e \in Exec : \A i \in Position :
            step[e][i] \in {"COMPLETED", "deleted"} => step'[e][i] \in {"COMPLETED", "deleted"}
  <2>1. CASE CheckNoActiveRun
    BY <2>1 DEF IInv, TypeOK, CheckNoActiveRun, rows
  <2>2. CASE ReplaceAgents
    <3>1. step' = [e \in Exec |-> [i \in Position |->
                     IF step[e][i] = "none" THEN "none" ELSE "deleted"]]
      BY <2>2 DEF ReplaceAgents
    <3>2. editor' \in {"idle", "checked"} /\ erased' \subseteq Exec
      BY <2>2 DEF ReplaceAgents
    <3> QED
      BY <3>1, <3>2
  <2> QED BY <2>1, <2>2
<1>3. TypeOK'
  BY <1>2 DEF IInv, TypeOK, CheckNoActiveRun, ReplaceAgents, runRow, queue, memory, rows
<1>4. UNCHANGED <<pc, execs, team, done, total, elapsed, waited, status, totalUsed>>
  BY DEF CheckNoActiveRun, ReplaceAgents, runRow, queue, memory
<1>5. \A e \in Exec : Local(e)'
  <2> SUFFICES ASSUME NEW e \in Exec PROVE Local(e)'
    OBVIOUS
  <2>1. Local(e) /\ done[e] \in 0 .. MaxAgents
    BY DEF IInv, TypeOK
  <2>2. \A i \in 1 .. done[e] : step'[e][i] \in {"COMPLETED", "deleted"}
    <3>1. \A i \in 1 .. done[e] : i \in Position /\ step[e][i] \in {"COMPLETED", "deleted"}
      BY <2>1 DEF Local
    <3> QED BY <1>2, <3>1
  <2>3. MayStart(e)' <=> MayStart(e)
    BY <1>4 DEF MayStart
  <2> QED
    BY <1>4, <2>1, <2>2, <2>3 DEF Local
<1>6. CompletedMeansAllSteps'
  <2> SUFFICES ASSUME status = "COMPLETED"
               PROVE  \E e \in Exec : (AllStepsDone(e) /\ totalUsed = total[e])'
    BY <1>4 DEF CompletedMeansAllSteps
  <2>1. PICK e \in Exec : AllStepsDone(e) /\ totalUsed = total[e]
    BY DEF IInv, CompletedMeansAllSteps
  <2>2. \A i \in 1 .. team[e] : i \in Position
    <3>1. team[e] \in {Unloaded} \cup 0 .. MaxAgents
      BY DEF IInv, TypeOK
    <3> QED BY <3>1
  <2>3. AllStepsDone(e)'
    BY <1>2, <1>4, <2>1, <2>2 DEF AllStepsDone
  <2> QED
    BY <1>4, <2>1, <2>3
<1> QED
  BY <1>1, <1>3, <1>5, <1>6 DEF IInv

-----------------------------------------------------------------------------
\* runPipeline's own steps.

\* The pipeline leaves the queue alone, and runs only for an enqueued run.
LEMMA PipelineFrame ==
  ASSUME IInv, NEW e \in Exec, Pipeline(e)
  PROVE  /\ UNCHANGED <<api, job, attemptsMade, stalled, execs, outlived, editor, erased>>
         /\ Accounting' /\ Provenance'
<1>1. UNCHANGED <<api, job, attemptsMade, stalled, execs, outlived, editor, erased>>
  BY DEF Pipeline, MarkRunning, LoadTeam, StartStep, RefuseStep, CompleteStep, SaveStepFails,
         StreamFails, FailStep, CompleteRun, LookupUser, FailRun, DbFails, queue, edits
<1>2. pc[e] # "idle"
  BY DEF Pipeline, MarkRunning, LoadTeam, StartStep, RefuseStep, CompleteStep, SaveStepFails,
         StreamFails, FailStep, CompleteRun, LookupUser, FailRun, DbFails, Streamed
<1>3. e <= execs
  BY <1>2 DEF IInv, TypeOK, Local
<1>4. api = "returned"
  BY <1>3 DEF IInv, TypeOK, Accounting, Provenance
<1>5. status' # "none"
  <2>1. status # "none"
    BY <1>4 DEF IInv, Provenance
  <2>2. status' \in {status, "RUNNING", "COMPLETED", "FAILED"}
    BY DEF Pipeline, MarkRunning, LoadTeam, StartStep, RefuseStep, CompleteStep,
           SaveStepFails, StreamFails, FailStep, CompleteRun, LookupUser, FailRun,
           DbFails, runRow
  <2> QED BY <2>1, <2>2
<1> QED
  BY <1>1, <1>4, <1>5 DEF IInv, Accounting, Provenance

\* Steps that move one execution to another label, or write the status, and
\* leave its local variables and its step rows alone.
LEMMA MoveKeepsIInv ==
  ASSUME IInv, NEW e \in Exec,
         MarkRunning(e) \/ RefuseStep(e) \/ LookupUser(e) \/ FailRun(e) \/ DbFails(e)
  PROVE  IInv'
<1>1. /\ UNCHANGED <<api, job, attemptsMade, stalled, execs, outlived, editor, erased>>
      /\ Accounting' /\ Provenance'
  BY PipelineFrame DEF Pipeline
<1>2. UNCHANGED <<memory, rows>>
  BY DEF MarkRunning, RefuseStep, LookupUser, FailRun, DbFails
<1>3. /\ pc[e] \in {"start", "loop", "lookup", "fail", "load", "stepFail"}
      /\ \E label \in {"load", "fail", "done", "thrown"} : pc' = [pc EXCEPT ![e] = label]
      /\ pc'[e] = "load" => pc[e] = "start"
      /\ pc'[e] = "fail" => pc[e] \in {"loop", "stepFail", "lookup"}
  <2>1. CASE MarkRunning(e) \/ RefuseStep(e) \/ LookupUser(e) \/ FailRun(e)
    BY <2>1 DEF IInv, TypeOK, MarkRunning, RefuseStep, LookupUser, FailRun, Goto
  <2>2. CASE DbFails(e)
    BY <2>2 DEF IInv, TypeOK, DbFails, OnDbError, Goto
  <2> QED BY <2>1, <2>2
<1>4. /\ status' \in {status, "RUNNING", "FAILED"}
      /\ totalUsed' \in {totalUsed, total[e]}
      /\ status' \in {"RUNNING", "FAILED"} \/ UNCHANGED <<status, totalUsed>>
  BY DEF MarkRunning, RefuseStep, LookupUser, FailRun, DbFails, runRow
<1>5. TypeOK'
  <2>1. TypeOK
    BY DEF IInv
  <2>2. pc' \in [Exec -> Pcs]
    BY <1>3, <2>1 DEF TypeOK, Pcs, Working
  <2>3. status' \in {"none", "QUEUED", "RUNNING", "COMPLETED", "FAILED"}
    BY <1>4, <2>1 DEF TypeOK
  <2>4. totalUsed' \in Nat
    BY <1>4, <2>1 DEF TypeOK
  <2> QED
    BY <1>1, <1>2, <2>1, <2>2, <2>3, <2>4 DEF TypeOK, memory, rows
<1>6. \A f \in Exec : Local(f)'
  <2> SUFFICES ASSUME NEW f \in Exec PROVE Local(f)'
    OBVIOUS
  <2>1. pc \in [Exec -> Pcs] /\ Local(f)
    BY DEF IInv, TypeOK
  <2> QED
    BY <1>1, <1>2, <1>3, <2>1 DEF Local, MayStart, memory, rows
<1>7. (totalUsed < Budget + MaxReport)'
  BY <1>4 DEF IInv, Local
<1>8. CompletedMeansAllSteps'
  BY <1>2, <1>4 DEF IInv, CompletedMeansAllSteps, AllStepsDone, memory, rows
<1> QED
  BY <1>1, <1>5, <1>6, <1>7, <1>8 DEF IInv

\* One cell of a table is set.
LEMMA SetCell ==
  ASSUME NEW D, NEW P, NEW V, NEW f \in [D -> [P -> V]], NEW d \in D, NEW p \in P, NEW v \in V,
         NEW g, g = [f EXCEPT ![d][p] = v]
  PROVE  /\ g \in [D -> [P -> V]] /\ g[d][p] = v
         /\ \A q \in P \ {p} : g[d][q] = f[d][q]
         /\ \A c \in D \ {d} : g[c] = f[c]
OBVIOUS

\* Loading the team starts an execution with no step done.
LEMMA LoadTeamKeepsIInv ==
  ASSUME IInv, NEW e \in Exec, LoadTeam(e)
  PROVE  IInv'
<1>1. /\ UNCHANGED <<api, job, attemptsMade, stalled, execs, outlived, editor, erased>>
      /\ Accounting' /\ Provenance'
  BY PipelineFrame DEF Pipeline
<1>2. PICK k \in 0 .. MaxAgents : team' = [team EXCEPT ![e] = k]
  BY DEF LoadTeam
<1>3. /\ pc[e] = "load"
      /\ pc' = [pc EXCEPT ![e] = "loop"]
      /\ UNCHANGED <<status, totalUsed, done, total, elapsed, waited, step, tokens>>
  BY DEF LoadTeam, Goto, runRow, rows
<1>4. team[e] = Unloaded /\ done[e] = 0
  BY <1>3 DEF IInv, Local
<1>5. TypeOK'
  BY <1>1, <1>2, <1>3 DEF IInv, TypeOK, Pcs, Working
<1>6. \A f \in Exec : Local(f)'
  <2> SUFFICES ASSUME NEW f \in Exec PROVE Local(f)'
    OBVIOUS
  <2>1. pc \in [Exec -> Pcs] /\ team \in [Exec -> {Unloaded} \cup 0 .. MaxAgents] /\ Local(f)
    BY DEF IInv, TypeOK
  <2> QED
    BY <1>1, <1>2, <1>3, <1>4, <2>1 DEF Local, MayStart
<1>7. (totalUsed < Budget + MaxReport)'
  BY <1>3 DEF IInv
<1>8. CompletedMeansAllSteps'
  BY <1>2, <1>3, <1>4 DEF IInv, TypeOK, CompletedMeansAllSteps, AllStepsDone
<1> QED
  BY <1>1, <1>5, <1>6, <1>7, <1>8 DEF IInv

\* A step is started only with time and budget left.
LEMMA StartStepKeepsIInv ==
  ASSUME IInv, NEW e \in Exec, StartStep(e)
  PROVE  IInv'
<1>1. /\ UNCHANGED <<api, job, attemptsMade, stalled, execs, outlived, editor, erased>>
      /\ Accounting' /\ Provenance'
  BY PipelineFrame DEF Pipeline
<1>2. /\ pc[e] = "loop" /\ done[e] < team[e] /\ MayStart(e)
      /\ pc' = [pc EXCEPT ![e] = "stream"]
      /\ step' = [step EXCEPT ![e][done[e] + 1] = "RUNNING"]
      /\ UNCHANGED <<status, totalUsed, team, done, total, elapsed, waited, tokens>>
  BY DEF StartStep, Goto, runRow, memory
<1>3. done[e] + 1 \in Position
  <2>1. done[e] \in 0 .. MaxAgents /\ team[e] \in {Unloaded} \cup 0 .. MaxAgents
    BY DEF IInv, TypeOK
  <2> QED BY <1>2, <2>1
<1>4. TypeOK'
  <2>1. step \in [Exec -> [Position ->
                    {"none", "RUNNING", "COMPLETED", "FAILED", "deleted"}]]
    BY DEF IInv, TypeOK
  <2>2. step' \in [Exec -> [Position ->
                    {"none", "RUNNING", "COMPLETED", "FAILED", "deleted"}]]
    BY <1>2, <1>3, <2>1
  <2>3. pc' \in [Exec -> Pcs]
    BY <1>2 DEF IInv, TypeOK, Pcs, Working
  <2> QED
    BY <1>1, <1>2, <2>2, <2>3 DEF IInv, TypeOK
<1>5. \A f \in Exec, i \in Position : (f # e \/ i <= done[e]) => step'[f][i] = step[f][i]
  <2>1. step \in [Exec -> [Position ->
                    {"none", "RUNNING", "COMPLETED", "FAILED", "deleted"}]]
    BY DEF IInv, TypeOK
  <2>2. done[e] \in 0 .. MaxAgents
    BY DEF IInv, TypeOK
  <2> QED
    BY <1>2, <1>3, <2>1, <2>2
<1>6. \A f \in Exec : Local(f)'
  <2> SUFFICES ASSUME NEW f \in Exec PROVE Local(f)'
    OBVIOUS
  <2>1. /\ pc \in [Exec -> Pcs] /\ Local(f)
        /\ done[f] \in 0 .. MaxAgents /\ team[f] \in {Unloaded} \cup 0 .. MaxAgents
    BY DEF IInv, TypeOK
  <2>2. \A i \in 1 .. done[f] : step'[f][i] \in {"COMPLETED", "deleted"}
    <3>1. \A i \in 1 .. done[f] : step[f][i] \in {"COMPLETED", "deleted"}
      BY <2>1 DEF Local
    <3>2. \A i \in 1 .. done[f] : i \in Position
      BY <2>1
    <3>3. \A i \in 1 .. done[f] : f # e \/ i <= done[e]
      OBVIOUS
    <3> QED BY <1>5, <3>1, <3>2, <3>3
  <2> QED
    BY <1>1, <1>2, <2>1, <2>2 DEF Local, MayStart
<1>7. (totalUsed < Budget + MaxReport)'
  BY <1>2 DEF IInv
<1>8. CompletedMeansAllSteps'
  <2> SUFFICES ASSUME status = "COMPLETED"
               PROVE  \E f \in Exec : (AllStepsDone(f) /\ totalUsed = total[f])'
    BY <1>2 DEF CompletedMeansAllSteps
  <2>1. PICK f \in Exec : AllStepsDone(f) /\ totalUsed = total[f]
    BY DEF IInv, CompletedMeansAllSteps
  <2>2. f # e
    BY <1>2, <2>1 DEF IInv, TypeOK, AllStepsDone
  <2>3. team[f] \in {Unloaded} \cup 0 .. MaxAgents
    BY DEF IInv, TypeOK
  <2> QED
    BY <1>2, <1>5, <2>1, <2>2, <2>3 DEF AllStepsDone
<1> QED
  BY <1>1, <1>4, <1>6, <1>7, <1>8 DEF IInv

\* What the two outcomes of the stream race do to the clock and the counter.
LEMMA StreamedBounds ==
  ASSUME IInv, NEW e \in Exec, NEW d \in 0 .. StepTimeout, NEW r \in 0 .. MaxReport,
         Streamed(e, d, r)
  PROVE  /\ total' \in [Exec -> Nat] /\ elapsed' \in [Exec -> Nat] /\ waited' \in [Exec -> Nat]
         /\ total'[e] < Budget + MaxReport
         /\ waited'[e] <= elapsed'[e] /\ waited'[e] <= RunTimeout + StepTimeout
         /\ \A f \in Exec \ {e} :
               total'[f] = total[f] /\ elapsed'[f] = elapsed[f] /\ waited'[f] = waited[f]
<1>1. /\ total \in [Exec -> Nat] /\ elapsed \in [Exec -> Nat] /\ waited \in [Exec -> Nat]
      /\ MayStart(e) /\ waited[e] <= elapsed[e]
  BY DEF IInv, TypeOK, Local, Streamed
<1>2. /\ total' = [total EXCEPT ![e] = @ + r]
      /\ elapsed' = [elapsed EXCEPT ![e] = @ + d]
      /\ waited' = [waited EXCEPT ![e] = @ + d]
  BY DEF Streamed
<1>3. total[e] < Budget /\ elapsed[e] <= RunTimeout
  BY <1>1 DEF MayStart
<1>4. total[e] \in Nat /\ elapsed[e] \in Nat /\ waited[e] \in Nat /\ r \in Nat /\ d \in Nat
  BY <1>1
<1>5. total'[e] = total[e] + r /\ elapsed'[e] = elapsed[e] + d /\ waited'[e] = waited[e] + d
  BY <1>1, <1>2
<1>6. /\ total'[e] < Budget + MaxReport
      /\ waited'[e] <= elapsed'[e] /\ waited'[e] <= RunTimeout + StepTimeout
  BY <1>1, <1>3, <1>4, <1>5
<1>7. total' \in [Exec -> Nat] /\ elapsed' \in [Exec -> Nat] /\ waited' \in [Exec -> Nat]
  <2>1. total[e] + r \in Nat /\ elapsed[e] + d \in Nat /\ waited[e] + d \in Nat
    BY <1>4
  <2>2. total' \in [Exec -> Nat]
    BY <1>1, <1>2, <2>1
  <2>3. elapsed' \in [Exec -> Nat]
    BY <1>1, <1>2, <2>1
  <2>4. waited' \in [Exec -> Nat]
    BY <1>1, <1>2, <2>1
  <2> QED BY <2>2, <2>3, <2>4
<1> QED
  BY <1>1, <1>2, <1>6, <1>7

\* A row that says COMPLETED keeps the execution that justifies it: whatever
\* an execution does before it has completed all its steps is of no effect.
LEMMA CompletedKept ==
  ASSUME IInv, NEW e \in Exec, done[e] # team[e], UNCHANGED <<status, totalUsed, team>>,
         \A f \in Exec \ {e} : done'[f] = done[f] /\ total'[f] = total[f] /\ step'[f] = step[f]
  PROVE  CompletedMeansAllSteps'
<1> SUFFICES ASSUME status = "COMPLETED"
             PROVE  \E f \in Exec : (AllStepsDone(f) /\ totalUsed = total[f])'
  BY DEF CompletedMeansAllSteps
<1>1. PICK f \in Exec : AllStepsDone(f) /\ totalUsed = total[f]
  BY DEF IInv, CompletedMeansAllSteps
<1>2. f # e
  BY <1>1 DEF AllStepsDone
<1> QED
  BY <1>1, <1>2 DEF AllStepsDone

\* A completed step moves its execution on by one position.
LEMMA CompleteStepKeepsIInv ==
  ASSUME IInv, NEW e \in Exec, CompleteStep(e)
  PROVE  IInv'
<1>1. /\ UNCHANGED <<api, job, attemptsMade, stalled, execs, outlived, editor, erased>>
      /\ Accounting' /\ Provenance'
  BY PipelineFrame DEF Pipeline
<1>2. PICK d \in 0 .. StepTimeout, r \in 0 .. MaxReport :
        /\ Streamed(e, d, r)
        /\ step' = [step EXCEPT ![e][done[e] + 1] = "COMPLETED"]
        /\ tokens' = [tokens EXCEPT ![e][done[e] + 1] = r]
        /\ done' = [done EXCEPT ![e] = @ + 1]
        /\ pc' = [pc EXCEPT ![e] = "loop"]
        /\ UNCHANGED <<status, totalUsed, team>>
  BY DEF CompleteStep, Goto, runRow
<1>3. /\ pc[e] = "stream" /\ done[e] < team[e]
      /\ done \in [Exec -> 0 .. MaxAgents] /\ team[e] \in 0 .. MaxAgents
      /\ step \in [Exec -> [Position ->
                   {"none", "RUNNING", "COMPLETED", "FAILED", "deleted"}]]
      /\ tokens \in [Exec -> [Position -> Nat]]
      /\ pc \in [Exec -> Pcs]
  <2>1. pc[e] = "stream"
    BY <1>2 DEF Streamed
  <2>2. done \in [Exec -> 0 .. MaxAgents] /\ team[e] \in {Unloaded} \cup 0 .. MaxAgents
    BY DEF IInv, TypeOK
  <2>3. done[e] < team[e]
    BY <2>1 DEF IInv, Local
  <2>4. team[e] \in 0 .. MaxAgents
    BY <2>2, <2>3
  <2> QED
    BY <2>1, <2>2, <2>3, <2>4 DEF IInv, TypeOK
<1>4. done[e] + 1 \in 1 .. MaxAgents
  BY <1>3
<1>5. /\ total' \in [Exec -> Nat] /\ elapsed' \in [Exec -> Nat] /\ waited' \in [Exec -> Nat]
      /\ total'[e] < Budget + MaxReport
      /\ waited'[e] <= elapsed'[e] /\ waited'[e] <= RunTimeout + StepTimeout
      /\ \A f \in Exec \ {e} :
            total'[f] = total[f] /\ elapsed'[f] = elapsed[f] /\ waited'[f] = waited[f]
  BY <1>2, StreamedBounds
<1>6. /\ step' \in [Exec -> [Position ->
                    {"none", "RUNNING", "COMPLETED", "FAILED", "deleted"}]]
      /\ \A i \in 1 .. done[e] : step'[e][i] = step[e][i]
      /\ step'[e][done[e] + 1] = "COMPLETED"
      /\ \A f \in Exec \ {e} : step'[f] = step[f]
  <2> DEFINE V == {"none", "RUNNING", "COMPLETED", "FAILED", "deleted"}
             p == done[e] + 1
  <2>1. /\ step \in [Exec -> [Position -> V]] /\ p \in Position /\ "COMPLETED" \in V
        /\ step' = [step EXCEPT ![e][p] = "COMPLETED"]
    BY <1>2, <1>3, <1>4
  <2>2. \A i \in 1 .. done[e] : i \in Position \ {p}
    BY <1>3
  <2> HIDE DEF V, p
  <2>3. PICK q \in Position : q = p
    BY <2>1
  <2>4. /\ step' \in [Exec -> [Position -> V]] /\ step'[e][q] = "COMPLETED"
        /\ \A i \in Position \ {q} : step'[e][i] = step[e][i]
        /\ \A f \in Exec \ {e} : step'[f] = step[f]
    BY <2>1, <2>3, SetCell
  <2> QED BY <2>2, <2>3, <2>4 DEF V, p
<1>7. TypeOK'
  <2>1. tokens' \in [Exec -> [Position -> Nat]]
    <3>1. PICK q \in Position : q = done[e] + 1
      BY <1>4
    <3>2. r \in Nat /\ tokens' = [tokens EXCEPT ![e][q] = r]
      BY <1>2, <3>1
    <3>3. tokens \in [Exec -> [Position -> Nat]]
      BY <1>3
    <3> QED BY <3>1, <3>2, <3>3, SetCell
  <2>2. done' \in [Exec -> 0 .. MaxAgents] /\ pc' \in [Exec -> Pcs]
    <3>1. PICK n \in 0 .. MaxAgents : n = done[e] + 1
      BY <1>4
    <3>2. done' = [done EXCEPT ![e] = n]
      BY <1>2, <3>1
    <3>3. done' \in [Exec -> 0 .. MaxAgents]
      BY <1>3, <3>2
    <3>4. pc' \in [Exec -> Pcs]
      <4>1. "loop" \in Pcs
        BY DEF Pcs, Working
      <4> QED BY <1>2, <1>3, <4>1
    <3> QED BY <3>3, <3>4
  <2> QED
    BY <1>1, <1>2, <1>5, <1>6, <2>1, <2>2 DEF IInv, TypeOK
<1>8. \A f \in Exec : Local(f)'
  <2> SUFFICES ASSUME NEW f \in Exec PROVE Local(f)'
    OBVIOUS
  <2>1. CASE f # e
    <3>1. Local(f)
      BY DEF IInv
    <3>2. /\ pc'[f] = pc[f] /\ team'[f] = team[f] /\ done'[f] = done[f] /\ step'[f] = step[f]
          /\ total'[f] = total[f] /\ elapsed'[f] = elapsed[f] /\ waited'[f] = waited[f]
          /\ execs' = execs
      BY <1>1, <1>2, <1>3, <1>5, <1>6, <2>1
    <3> QED
      BY <3>1, <3>2 DEF Local, MayStart
  <2>2. CASE f = e
    <3>1. Local(e)
      BY DEF IInv
    <3>2. \A i \in 1 .. done'[e] : step'[e][i] \in {"COMPLETED", "deleted"}
      <4>1. done'[e] = done[e] + 1 /\ done[e] \in 0 .. MaxAgents
        BY <1>2, <1>3
      <4>2. \A i \in 1 .. done[e] : step[e][i] \in {"COMPLETED", "deleted"}
        BY <3>1 DEF Local
      <4>3. \A i \in 1 .. done'[e] : i \in 1 .. done[e] \/ i = done[e] + 1
        BY <4>1
      <4> QED BY <1>6, <4>2, <4>3
    <3>3. /\ pc'[e] = "loop" /\ execs' = execs /\ team'[e] = team[e]
          /\ done'[e] <= team'[e] /\ team[e] # Unloaded
      <4>1. pc'[e] = "loop" /\ team' = team /\ execs' = execs
        BY <1>1, <1>2, <1>3
      <4>2. done'[e] = done[e] + 1 /\ team[e] # Unloaded
        BY <1>2, <1>3
      <4> QED BY <1>3, <4>1, <4>2
    <3>4. ~ (e > execs)
      BY <1>3, <3>1 DEF Local
    <3>5. /\ total'[e] < Budget + MaxReport
          /\ waited'[e] <= elapsed'[e] /\ waited'[e] <= RunTimeout + StepTimeout
      BY <1>5
    <3> QED
      BY <2>2, <3>2, <3>3, <3>4, <3>5 DEF Local
  <2> QED BY <2>1, <2>2
<1>9. CompletedMeansAllSteps'
  <2>1. done[e] # team[e]
    BY <1>3
  <2>2. \A f \in Exec \ {e} : done'[f] = done[f] /\ total'[f] = total[f] /\ step'[f] = step[f]
    BY <1>2, <1>3, <1>5, <1>6
  <2> QED
    BY <1>2, <2>1, <2>2, CompletedKept
<1> QED
  BY <1>1, <1>2, <1>7, <1>8, <1>9 DEF IInv

\* A stream that fails, or whose result cannot be saved, ends the loop.
LEMMA StreamFailsKeepsIInv ==
  ASSUME IInv, NEW e \in Exec, SaveStepFails(e) \/ StreamFails(e)
  PROVE  IInv'
<1>1. /\ UNCHANGED <<api, job, attemptsMade, stalled, execs, outlived, editor, erased>>
      /\ Accounting' /\ Provenance'
  BY PipelineFrame DEF Pipeline
<1>2. \E d \in 0 .. StepTimeout, r \in 0 .. MaxReport : Streamed(e, d, r)
  BY DEF SaveStepFails, StreamFails
<1>3. /\ pc' = [pc EXCEPT ![e] = "stepFail"]
      /\ UNCHANGED <<status, totalUsed, team, done, step, tokens>>
  BY DEF SaveStepFails, StreamFails, Goto, runRow, rows
<1>4. /\ pc[e] = "stream" /\ pc \in [Exec -> Pcs]
      /\ done[e] < team[e] /\ done[e] \in 0 .. MaxAgents
      /\ team[e] \in {Unloaded} \cup 0 .. MaxAgents
  BY <1>2 DEF IInv, TypeOK, Local, Streamed
<1>5. /\ total' \in [Exec -> Nat] /\ elapsed' \in [Exec -> Nat] /\ waited' \in [Exec -> Nat]
      /\ total'[e] < Budget + MaxReport
      /\ waited'[e] <= elapsed'[e] /\ waited'[e] <= RunTimeout + StepTimeout
      /\ \A f \in Exec \ {e} :
            total'[f] = total[f] /\ elapsed'[f] = elapsed[f] /\ waited'[f] = waited[f]
  BY <1>2, StreamedBounds
<1>6. TypeOK'
  BY <1>1, <1>3, <1>5 DEF IInv, TypeOK, Pcs, Working
<1>7. \A f \in Exec : Local(f)'
  <2> SUFFICES ASSUME NEW f \in Exec PROVE Local(f)'
    OBVIOUS
  <2>1. Local(f)
    BY DEF IInv
  <2> QED
    BY <1>1, <1>3, <1>4, <1>5, <2>1 DEF Local, MayStart
<1>8. CompletedMeansAllSteps'
  <2>1. done[e] # team[e]
    BY <1>4
  <2>2. \A f \in Exec \ {e} : done'[f] = done[f] /\ total'[f] = total[f] /\ step'[f] = step[f]
    BY <1>3, <1>5
  <2> QED BY <1>3, <2>1, <2>2, CompletedKept
<1> QED
  BY <1>1, <1>3, <1>6, <1>7, <1>8 DEF IInv

\* The inner catch marks the step and never returns to the loop.
LEMMA FailStepKeepsIInv ==
  ASSUME IInv, NEW e \in Exec, FailStep(e)
  PROVE  IInv'
<1>1. /\ UNCHANGED <<api, job, attemptsMade, stalled, execs, outlived, editor, erased>>
      /\ Accounting' /\ Provenance'
  BY PipelineFrame DEF Pipeline
<1>2. /\ pc[e] = "stepFail"
      /\ pc' = [pc EXCEPT ![e] = "fail"]
      /\ step' = [step EXCEPT ![e][done[e] + 1] = "FAILED"]
      /\ UNCHANGED <<status, totalUsed, team, done, total, elapsed, waited, tokens>>
  BY DEF FailStep, Goto, runRow, memory
<1>3. /\ done[e] < team[e] /\ pc \in [Exec -> Pcs]
      /\ done[e] \in 0 .. MaxAgents /\ team[e] \in {Unloaded} \cup 0 .. MaxAgents
      /\ step \in [Exec -> [Position ->
                   {"none", "RUNNING", "COMPLETED", "FAILED", "deleted"}]]
  <2>1. done[e] < team[e]
    <3>1. Local(e)
      BY DEF IInv
    <3> QED BY <1>2, <3>1 DEF Local
  <2>2. /\ pc \in [Exec -> Pcs]
        /\ done[e] \in 0 .. MaxAgents /\ team[e] \in {Unloaded} \cup 0 .. MaxAgents
    BY DEF IInv, TypeOK
  <2>3. step \in [Exec -> [Position ->
                   {"none", "RUNNING", "COMPLETED", "FAILED", "deleted"}]]
    BY DEF IInv, TypeOK
  <2> QED BY <2>1, <2>2, <2>3
<1>4. /\ step' \in [Exec -> [Position ->
                    {"none", "RUNNING", "COMPLETED", "FAILED", "deleted"}]]
      /\ \A i \in 1 .. done[e] : step'[e][i] = step[e][i]
      /\ \A f \in Exec \ {e} : step'[f] = step[f]
  BY <1>2, <1>3
<1>5. TypeOK'
  BY <1>1, <1>2, <1>4 DEF IInv, TypeOK, Pcs, Working
<1>6. \A f \in Exec : Local(f)'
  <2> SUFFICES ASSUME NEW f \in Exec PROVE Local(f)'
    OBVIOUS
  <2>1. Local(f)
    BY DEF IInv
  <2>2. \A i \in 1 .. done[f] : step'[f][i] \in {"COMPLETED", "deleted"}
    BY <1>4, <2>1 DEF Local
  <2> QED
    BY <1>1, <1>2, <1>3, <2>1, <2>2 DEF Local, MayStart
<1>7. CompletedMeansAllSteps'
  BY <1>2, <1>3, <1>4, CompletedKept
<1> QED
  BY <1>1, <1>2, <1>5, <1>6, <1>7 DEF IInv

\* completeRun writes COMPLETED for an execution that completed all its steps.
LEMMA CompleteRunKeepsIInv ==
  ASSUME IInv, NEW e \in Exec, CompleteRun(e)
  PROVE  IInv'
<1>1. /\ UNCHANGED <<api, job, attemptsMade, stalled, execs, outlived, editor, erased>>
      /\ Accounting' /\ Provenance'
  BY PipelineFrame DEF Pipeline
<1>2. PICK label \in {"done", "lookup"} : pc' = [pc EXCEPT ![e] = label]
  BY DEF CompleteRun, Goto
<1>3. /\ pc[e] = "loop" /\ done[e] = team[e]
      /\ status' = "COMPLETED" /\ totalUsed' = total[e]
      /\ UNCHANGED <<team, done, total, elapsed, waited, step, tokens>>
  BY DEF CompleteRun, memory, rows
<1>4. TypeOK'
  BY <1>1, <1>2, <1>3 DEF IInv, TypeOK, Pcs, Working
<1>5. \A f \in Exec : Local(f)'
  <2> SUFFICES ASSUME NEW f \in Exec PROVE Local(f)'
    OBVIOUS
  <2>1. pc \in [Exec -> Pcs] /\ Local(f)
    BY DEF IInv, TypeOK
  <2> QED
    BY <1>1, <1>2, <1>3, <2>1 DEF Local, MayStart
<1>6. (totalUsed < Budget + MaxReport)'
  BY <1>3 DEF IInv, Local
<1>7. CompletedMeansAllSteps'
  <2>1. AllStepsDone(e)
    BY <1>3 DEF IInv, Local, AllStepsDone
  <2> QED
    BY <1>3, <2>1 DEF CompletedMeansAllSteps, AllStepsDone
<1> QED
  BY <1>1, <1>4, <1>5, <1>6, <1>7 DEF IInv

\* The other awaits advance the clock, not the waits for the provider.
LEMMA TimeKeepsIInv ==
  ASSUME IInv, NEW e \in Exec, TimePasses(e)
  PROVE  IInv'
<1>1. /\ UNCHANGED <<api, job, attemptsMade, stalled, execs, outlived, pc, team, done, total,
                     waited, status, totalUsed, step, tokens, editor, erased>>
      /\ pc[e] = "loop" /\ elapsed' = [elapsed EXCEPT ![e] = @ + 1]
  BY DEF TimePasses, runRow, queue, rows, edits
<1>2. elapsed \in [Exec -> Nat] /\ waited \in [Exec -> Nat]
  BY DEF IInv, TypeOK
<1>3. elapsed' \in [Exec -> Nat]
  BY <1>1, <1>2
<1>4. TypeOK' /\ Accounting' /\ Provenance'
  <2>1. TypeOK'
    BY <1>1, <1>3 DEF IInv, TypeOK
  <2> QED BY <1>1, <2>1 DEF IInv, Accounting, Provenance
<1>5. \A f \in Exec : Local(f)'
  <2> SUFFICES ASSUME NEW f \in Exec PROVE Local(f)'
    OBVIOUS
  <2>1. Local(f)
    BY DEF IInv
  <2>2. CASE f # e
    <3>1. elapsed'[f] = elapsed[f]
      BY <1>1, <1>2, <2>2
    <3> QED BY <1>1, <2>1, <3>1 DEF Local, MayStart
  <2>3. CASE f = e
    <3>1. elapsed'[e] = elapsed[e] + 1
      BY <1>1, <1>2
    <3> QED BY <1>1, <1>2, <2>1, <2>3, <3>1 DEF Local, MayStart
  <2> QED BY <2>2, <2>3
<1> QED
  BY <1>1, <1>4, <1>5 DEF IInv, CompletedMeansAllSteps, AllStepsDone

-----------------------------------------------------------------------------
\* Every step of the pipeline keeps the invariant.
LEMMA NextKeepsIInv == IInv /\ [Next]_vars => IInv'
<1> SUFFICES ASSUME IInv, [Next]_vars PROVE IInv'
  OBVIOUS
<1>1. CASE UNCHANGED vars
  <2>1. UNCHANGED <<status, totalUsed, api, job, attemptsMade, stalled, execs, outlived, pc,
                    team, done, total, elapsed, waited, step, tokens, editor, erased>>
    BY <1>1 DEF vars, runRow, queue, memory, rows, edits
  <2>2. TypeOK' /\ Accounting' /\ Provenance'
    <3>1. TypeOK'
      BY <2>1 DEF IInv, TypeOK
    <3>2. Accounting' /\ Provenance'
      BY <2>1 DEF IInv, Accounting, Provenance
    <3> QED BY <3>1, <3>2
  <2>3. \A e \in Exec : Local(e)'
    BY <2>1 DEF IInv, Local, MayStart
  <2> QED
    BY <2>1, <2>2, <2>3 DEF IInv, CompletedMeansAllSteps, AllStepsDone
<1>2. CASE CreateRow \/ Enqueue \/ EnqueueFails
  BY <1>2, RequestKeepsIInv
<1>3. CASE PickUp \/ BackoffEnds \/ LockLapses
  BY <1>3, BrokerKeepsIInv
<1>4. CASE CheckNoActiveRun \/ ReplaceAgents
  BY <1>4, EditKeepsIInv
<1>5. ASSUME NEW e \in Exec, Worker(e) \/ TimePasses(e) \/ Crash(e) PROVE IInv'
  BY <1>5, TimeKeepsIInv, ReportKeepsIInv, MoveKeepsIInv, LoadTeamKeepsIInv, StartStepKeepsIInv,
     CompleteStepKeepsIInv, StreamFailsKeepsIInv, FailStepKeepsIInv, CompleteRunKeepsIInv
     DEF Worker, Pipeline
<1> QED
  BY <1>1, <1>2, <1>3, <1>4, <1>5 DEF Next

\* The inductive invariant holds throughout.
THEOREM InductiveInvariant == Spec => []IInv
  BY InitIInv, NextKeepsIInv, PTL DEF Spec

-----------------------------------------------------------------------------
\* The safety properties that hold whatever the faults.

\* Every column, counter and local variable keeps a value of its type.
THEOREM TypeCorrect == Spec => []TypeOK
<1>1. IInv => TypeOK
  BY DEF IInv
<1> QED
  BY <1>1, InductiveInvariant, PTL

\* A COMPLETED row is justified by one execution that completed every step.
THEOREM CompletionIsJustified == Spec => []CompletedMeansAllSteps
<1>1. IInv => CompletedMeansAllSteps
  BY DEF IInv
<1> QED
  BY <1>1, InductiveInvariant, PTL

\* A run overshoots its token budget by less than one step's report.
THEOREM SpendIsBounded == Spec => []SpendBound
<1>1. IInv => SpendBound
  <2> SUFFICES ASSUME IInv, NEW e \in Exec
               PROVE  /\ pc[e] = "stream" => Budget - total[e] >= 1
                      /\ total[e] < Budget + MaxReport
                      /\ totalUsed < Budget + MaxReport
    BY DEF SpendBound
  <2>1. Local(e) /\ total[e] \in Nat
    BY DEF IInv, TypeOK
  <2> QED
    BY <2>1 DEF IInv, Local, MayStart
<1> QED
  BY <1>1, InductiveInvariant, PTL

\* An execution waits for the provider no longer than the run limit and one step
\* limit, whatever its other awaits take (the check at the head of the loop).
THEOREM WaitsAreBounded == Spec => []WaitBound
<1>1. IInv => WaitBound
  BY DEF IInv, Local, WaitBound
<1> QED
  BY <1>1, InductiveInvariant, PTL

\* Retries and lapsed locks together cause finitely many executions.
THEOREM ExecutionsAreBounded == Spec => []ExecutionsBounded
<1>1. IInv => ExecutionsBounded
  BY DEF IInv, TypeOK, Accounting, ExecutionsBounded
<1> QED
  BY <1>1, InductiveInvariant, PTL

-----------------------------------------------------------------------------
(***************************************************************************)
(* As long as no worker has outlived its lock, the lock's holder is the    *)
(* only live execution, so what it wrote last is what the row says.        *)
(***************************************************************************)
LockInv ==
    /\ "stall" \notin Faults => outlived = {}
    /\ outlived = {} =>
         /\ \A e \in Exec : Live(e) => HoldsLock(e)
         /\ \A e \in Exec : pc[e] \in {"lookup", "done"} => status \in Terminal
         /\ job = "completed" => status \in Terminal

\* Nobody executes before the job exists.
LEMMA InitLockInv == Init => LockInv
  BY DEF Init, LockInv, Live, Working

\* A lock that lapses without outliving worker leaves nobody live.
LEMMA LapseKeepsLockInv ==
  ASSUME IInv, LockInv, LockLapses
  PROVE  LockInv'
<1>1. /\ job = "active" /\ ("stall" \in Faults \/ pc[execs] = "dead")
      /\ job' \in {"waiting", "failed"}
      /\ outlived' = IF Live(execs) THEN outlived \cup {execs} ELSE outlived
      /\ UNCHANGED <<pc, status, execs>>
  BY DEF LockLapses, runRow
<1>2. "stall" \notin Faults => outlived' = {}
  BY <1>1 DEF LockInv, Live, Working
<1>3. outlived' = {} => outlived = {} /\ ~ Live(execs)
  BY <1>1
<1>4. outlived' = {} => \A e \in Exec : ~ Live(e)
  BY <1>3 DEF LockInv, HoldsLock
<1> QED
  BY <1>1, <1>2, <1>3, <1>4 DEF LockInv, Live, HoldsLock

\* Without workers that outlive their lock, every step leaves the lock with the
\* one execution that is live.
LEMMA NextKeepsLockInv == IInv /\ IInv' /\ LockInv /\ [Next]_vars => LockInv'
<1> SUFFICES ASSUME IInv, IInv', LockInv, [Next]_vars PROVE LockInv'
  OBVIOUS
<1>1. CASE LockLapses
  BY <1>1, LapseKeepsLockInv
<1>2. CASE ~ LockLapses
  <2>1. outlived' = outlived
    BY <1>2 DEF Next, Worker, Pipeline, vars, CreateRow, Enqueue, EnqueueFails, PickUp,
                BackoffEnds, CheckNoActiveRun, ReplaceAgents, TimePasses, ReportSuccess,
                ReportFailure, Crash, MarkRunning, LoadTeam, StartStep, RefuseStep,
                CompleteStep, SaveStepFails, StreamFails, FailStep, CompleteRun, LookupUser,
                FailRun, DbFails, queue
  <2> SUFFICES ASSUME outlived = {}
               PROVE  /\ \A e \in Exec : Live(e)' => HoldsLock(e)'
                      /\ \A e \in Exec : pc'[e] \in {"lookup", "done"} => status' \in Terminal
                      /\ job' = "completed" => status' \in Terminal
    BY <2>1 DEF LockInv
  <2> USE DEF LockInv, Live, HoldsLock, Working
  <2>2. CASE UNCHANGED vars \/ BackoffEnds \/ CheckNoActiveRun \/ ReplaceAgents
    BY <2>2 DEF vars, BackoffEnds, CheckNoActiveRun, ReplaceAgents, runRow, queue
  <2>3. CASE CreateRow
    BY <2>3 DEF IInv, TypeOK, Accounting, Provenance, CreateRow, queue
  <2>4. CASE Enqueue \/ EnqueueFails
    BY <2>4 DEF IInv, Provenance, Enqueue, EnqueueFails, runRow, queue
  <2>5. CASE PickUp
    <3>1. pc \in [Exec -> Pcs] /\ execs \in Nat
      BY DEF IInv, TypeOK
    <3> QED
      BY <2>5, <3>1 DEF PickUp, Goto, runRow
  <2>6. ASSUME NEW e \in Exec, Worker(e) \/ TimePasses(e) \/ Crash(e)
        PROVE  /\ \A f \in Exec : Live(f)' => HoldsLock(f)'
               /\ \A f \in Exec : pc'[f] \in {"lookup", "done"} => status' \in Terminal
               /\ job' = "completed" => status' \in Terminal
    <3>1. pc \in [Exec -> Pcs]
      BY DEF IInv, TypeOK
    <3>2. CASE ReportSuccess(e)
      BY <3>1, <3>2 DEF ReportSuccess, Goto, runRow
    <3>3. CASE ReportFailure(e)
      <4>1. /\ pc[e] = "thrown" /\ pc' = [pc EXCEPT ![e] = "closed"]
            /\ job = "active" /\ e = execs /\ job' \in {"delayed", "failed"}
            /\ UNCHANGED <<status, execs>>
        BY <3>3 DEF ReportFailure, Goto, runRow
      <4> QED BY <3>1, <4>1
    <3>4. CASE Crash(e)
      BY <3>1, <3>4 DEF Crash, Goto, runRow, queue
    <3>5. CASE TimePasses(e)
      BY <3>5 DEF TimePasses, runRow, queue
    <3>6. CASE Pipeline(e)
      <4>1. /\ pc[e] \in Working /\ pc[e] \notin {"done", "thrown"}
            /\ UNCHANGED <<job, execs>>
        BY <3>6, PipelineFrame
           DEF Pipeline, MarkRunning, LoadTeam, StartStep, RefuseStep, CompleteStep,
               SaveStepFails, StreamFails, FailStep, CompleteRun, LookupUser, FailRun, DbFails,
               Streamed
      <4>2. \E label \in Working :
               /\ pc' = [pc EXCEPT ![e] = label]
               /\ label \in {"lookup", "done"} => status' \in Terminal
        BY <3>6, <4>1
           DEF Pipeline, MarkRunning, LoadTeam, StartStep, RefuseStep, CompleteStep,
               SaveStepFails, StreamFails, FailStep, CompleteRun, LookupUser, FailRun, DbFails,
               OnDbError, Goto, runRow
      <4> QED
        BY <3>1, <4>1, <4>2
    <3> QED
      BY <2>6, <3>2, <3>3, <3>4, <3>5, <3>6 DEF Worker
  <2> QED
    BY <1>2, <2>2, <2>3, <2>4, <2>5, <2>6 DEF Next
<1> QED
  BY <1>1, <1>2

\* The lock invariant holds throughout.
LEMMA LockInvariant == Spec => []LockInv
<1>1. Spec => []IInv
  BY InductiveInvariant
<1> QED
  BY <1>1, InitLockInv, NextKeepsLockInv, PTL DEF Spec

\* Unless a worker outlived its lock, a job counted as completed has left its
\* run terminal.
THEOREM CompletedJobsAreTerminal == Spec => []JobCompletedMeansTerminal
<1>1. LockInv => JobCompletedMeansTerminal
  BY DEF LockInv, JobCompletedMeansTerminal
<1> QED
  BY <1>1, LockInvariant, PTL

-----------------------------------------------------------------------------
\* The pipeline implements the abstract run record.

\* The initial states of the pipeline are initial states of the record.
LEMMA RecordInitially == Init => Record!RecordInit
  BY DEF Init, Record!RecordInit, Phase

\* A step within runPipeline that moves the execution within one phase, or
\* reports its end to the queue, is invisible in the record.
LEMMA Invisible ==
  ASSUME IInv, NEW e \in Exec, NEW label \in Pcs, pc' = [pc EXCEPT ![e] = label],
         Phase(label) = Phase(pc[e]), UNCHANGED status
  PROVE  UNCHANGED <<status, [f \in Exec |-> Phase(pc[f])]>>
<1>1. \A f \in Exec : Phase(pc'[f]) = Phase(pc[f])
  BY DEF IInv, TypeOK
<1> QED
  BY <1>1

\* A step that moves one execution to another phase moves the record's.
LEMMA Visible ==
  ASSUME IInv, NEW e \in Exec, NEW label \in Pcs, pc' = [pc EXCEPT ![e] = label]
  PROVE  [f \in Exec |-> Phase(pc[f])]' =
           [[f \in Exec |-> Phase(pc[f])] EXCEPT ![e] = Phase(label)]
<1>1. \A f \in Exec : Phase(pc'[f]) = IF f = e THEN Phase(label) ELSE Phase(pc[f])
  BY DEF IInv, TypeOK
<1> QED
  BY <1>1

\* Every step of the pipeline is a step of the record or changes nothing in it.
LEMMA StepImplements ==
  IInv /\ IInv' /\ LockInv /\ [Next]_vars =>
      [Record!RecordNext]_<<status, [e \in Exec |-> Phase(pc[e])]>>
<1> SUFFICES ASSUME IInv, IInv', LockInv, [Next]_vars
             PROVE  [Record!RecordNext]_<<status, [e \in Exec |-> Phase(pc[e])]>>
  OBVIOUS
<1> DEFINE phases == [e \in Exec |-> Phase(pc[e])]
<1>1. CASE \/ UNCHANGED vars \/ Enqueue \/ EnqueueFails \/ BackoffEnds \/ LockLapses
           \/ CheckNoActiveRun \/ ReplaceAgents
  <2>1. UNCHANGED <<pc, status>>
    BY <1>1 DEF vars, runRow, Enqueue, EnqueueFails, BackoffEnds, LockLapses,
                CheckNoActiveRun, ReplaceAgents
  <2> QED BY <2>1
<1>2. CASE CreateRow
  <2>1. status = "none" /\ status' = "QUEUED" /\ UNCHANGED pc
    BY <1>2 DEF IInv, Provenance, CreateRow
  <2> QED BY <2>1 DEF Record!RecordNext, Record!Accept
<1>3. CASE PickUp
  <2> DEFINE e == execs + 1
  <2>1. e \in Exec /\ pc[e] = "idle"
    BY <1>3 DEF IInv, TypeOK, Accounting, Local, PickUp
  <2>2. pc' = [pc EXCEPT ![e] = "start"] /\ UNCHANGED status
    BY <1>3 DEF PickUp, Goto, runRow
  <2>3. status # "none"
    BY <1>3 DEF IInv, Provenance, PickUp
  <2>4. "stall" \in Faults \/ \A f \in Exec : phases[f] \notin {"fresh", "open"}
    <3> SUFFICES ASSUME "stall" \notin Faults, NEW f \in Exec
                 PROVE  Phase(pc[f]) \notin {"fresh", "open"}
      OBVIOUS
    <3>1. pc[f] \in {"idle", "closed", "dead"}
      BY <1>3 DEF LockInv, HoldsLock, Live, PickUp, IInv, TypeOK, Pcs
    <3> QED BY <3>1 DEF Phase
  <2>5. phases' = [phases EXCEPT ![e] = "fresh"] /\ phases[e] = "unborn"
    BY <2>1, <2>2, Visible DEF Phase, Pcs, Working
  <2> QED
    BY <2>1, <2>2, <2>3, <2>4, <2>5
       DEF Record!RecordNext, Record!Take, Record!MoveTo, Record!Writing
<1>4. ASSUME NEW e \in Exec, Worker(e) \/ TimePasses(e) \/ Crash(e)
      PROVE  [Record!RecordNext]_<<status, phases>>
  <2>1. ASSUME NEW label \in Pcs, pc' = [pc EXCEPT ![e] = label], UNCHANGED status,
               pc[e] \in {"start", "load", "loop", "stream", "stepFail", "lookup", "fail"},
               Phase(label) = "over"
        PROVE  Record!Leave(e)
    <3>1. phases[e] \in {"fresh", "open"}
      BY <2>1 DEF Phase
    <3>2. phases' = [phases EXCEPT ![e] = "over"]
      BY <2>1, Visible
    <3> QED
      BY <2>1, <3>1, <3>2 DEF Record!Leave, Record!MoveTo, Record!Writing
  <2>2. CASE ReportSuccess(e) \/ ReportFailure(e)
    BY <2>2, Invisible DEF ReportSuccess, ReportFailure, Goto, Phase, Pcs, runRow
  <2>3. CASE Crash(e)
    <3>1. pc' = [pc EXCEPT ![e] = "dead"] /\ UNCHANGED status /\ pc[e] \in Working
      BY <2>3 DEF Crash, Goto, Live, runRow
    <3>2. CASE pc[e] \in {"done", "thrown"}
      BY <3>1, <3>2, Invisible DEF Phase, Pcs
    <3>3. CASE pc[e] \notin {"done", "thrown"}
      BY <2>1, <3>1, <3>3 DEF Phase, Pcs, Working, Record!RecordNext
    <3> QED BY <3>2, <3>3
  <2>4. CASE MarkRunning(e)
    <3>1. /\ pc[e] = "start" /\ status' = "RUNNING" /\ pc' = [pc EXCEPT ![e] = "load"]
      BY <2>4 DEF MarkRunning, Goto
    <3>2. Phase("start") = "fresh" /\ Phase("load") = "open" /\ "load" \in Pcs
      BY DEF Phase, Pcs, Working
    <3>3. phases[e] = "fresh" /\ phases' = [phases EXCEPT ![e] = "open"]
      BY <3>1, <3>2, Visible
    <3> QED
      BY <3>1, <3>3 DEF Record!RecordNext, Record!Mark, Record!MoveTo
  <2>5. CASE \/ LoadTeam(e) \/ StartStep(e) \/ RefuseStep(e) \/ CompleteStep(e)
             \/ SaveStepFails(e) \/ StreamFails(e) \/ FailStep(e)
    <3>1. /\ pc[e] \in {"load", "loop", "stream", "stepFail"} /\ UNCHANGED status
          /\ \E label \in {"loop", "stream", "stepFail", "fail"} : pc' = [pc EXCEPT ![e] = label]
      BY <2>5 DEF LoadTeam, StartStep, RefuseStep, CompleteStep, SaveStepFails, StreamFails,
                  FailStep, Streamed, Goto, runRow
    <3> QED
      BY <3>1, Invisible DEF Phase, Pcs, Working
  <2>6. CASE CompleteRun(e)
    <3>1. PICK label \in {"done", "lookup"} : pc' = [pc EXCEPT ![e] = label]
      BY <2>6 DEF CompleteRun, Goto
    <3>2. pc[e] = "loop" /\ status' = "COMPLETED"
      BY <2>6 DEF CompleteRun
    <3>3. phases[e] = "open" /\ phases' = [phases EXCEPT ![e] = Phase(label)]
      BY <3>1, <3>2, Visible DEF Phase, Pcs, Working
    <3>4. Phase(label) \in {"open", "over"}
      BY <3>1 DEF Phase
    <3> QED
      BY <3>2, <3>3, <3>4 DEF Record!RecordNext, Record!Succeed, Record!MoveTo
  <2>7. CASE LookupUser(e)
    <3>1. pc[e] = "lookup" /\ pc' = [pc EXCEPT ![e] = "done"] /\ UNCHANGED status
      BY <2>7 DEF LookupUser, Goto, runRow
    <3> QED
      BY <2>1, <3>1 DEF Phase, Pcs, Working, Record!RecordNext
  <2>8. CASE FailRun(e)
    <3>1. pc[e] = "fail" /\ pc' = [pc EXCEPT ![e] = "done"] /\ status' = "FAILED"
      BY <2>8 DEF FailRun, Goto
    <3>2. phases[e] = "open" /\ phases' = [phases EXCEPT ![e] = "over"]
      BY <3>1, Visible DEF Phase, Pcs, Working
    <3> QED
      BY <3>1, <3>2 DEF Record!RecordNext, Record!Fail, Record!MoveTo
  <2>9. CASE DbFails(e)
    <3>1. /\ pc[e] \in {"start", "load", "loop", "stepFail", "lookup", "fail"}
          /\ UNCHANGED status
          /\ \/ pc' = [pc EXCEPT ![e] = "thrown"]
             \/ pc[e] # "start" /\ pc' = [pc EXCEPT ![e] = "fail"]
      BY <2>9 DEF DbFails, OnDbError, Goto, runRow
    <3>2. CASE pc' = [pc EXCEPT ![e] = "thrown"]
      BY <2>1, <3>1, <3>2 DEF Phase, Pcs, Working, Record!RecordNext
    <3>3. CASE pc[e] # "start" /\ pc' = [pc EXCEPT ![e] = "fail"]
      BY <3>1, <3>3, Invisible DEF Phase, Pcs, Working
    <3> QED BY <3>1, <3>2, <3>3
  <2>10. CASE TimePasses(e)
    BY <2>10 DEF TimePasses, runRow
  <2> QED
    BY <1>4, <2>2, <2>3, <2>4, <2>5, <2>6, <2>7, <2>8, <2>9, <2>10 DEF Worker, Pipeline
<1> QED
  BY <1>1, <1>2, <1>3, <1>4 DEF Next

\* Every behaviour of the pipeline is one of the abstract run record.
THEOREM PipelineImplementsRecord == Spec => ImplementsRecord
<1>1. Spec => [](IInv /\ LockInv)
  BY InductiveInvariant, LockInvariant, PTL
<1>2. Spec => [][Record!RecordNext]_<<status, [e \in Exec |-> Phase(pc[e])]>>
  BY <1>1, StepImplements, PTL DEF Spec
<1> QED
  BY <1>2, RecordInitially, PTL DEF Spec, ImplementsRecord, Record!RecordSpec

-----------------------------------------------------------------------------
\* What a run is charged.

(***************************************************************************)
(* The tokens of the steps an execution recorded.  They fall behind its    *)
(* totalTokens only by a step whose save failed, after which the execution *)
(* starts no other.                                                        *)
(***************************************************************************)
Ledger(e) ==
    /\ \A i \in Position : i > done[e] => tokens[e][i] = 0
    /\ SumFunction(tokens[e]) <= total[e]
    /\ pc[e] \in {"idle", "start", "load", "loop", "stream"} =>
          SumFunction(tokens[e]) = total[e]

(***************************************************************************)
(* The row's total is that of an execution that can spend no more: it has  *)
(* completed every step, or failed and is over.                            *)
(***************************************************************************)
Settled ==
    /\ status = "COMPLETED" =>
          \E e \in Exec : /\ AllStepsDone(e)
                          /\ totalUsed = total[e] /\ SumFunction(tokens[e]) = total[e]
    /\ status = "FAILED" =>
          \E e \in Exec : pc[e] \in {"done", "closed", "dead"} /\ totalUsed = total[e]

SpendInv == (\A e \in Exec : Ledger(e)) /\ Settled


LEMMA InitSpendInv == Init => SpendInv
<1> SUFFICES ASSUME Init PROVE SpendInv
  OBVIOUS
<1>1. SumFunction([i \in Position |-> 0]) = 0
  BY PositionFinite, SumOfZeros
<1>2. \A e \in Exec : tokens[e] = [i \in Position |-> 0] /\ total[e] = 0 /\ done[e] = 0
  BY DEF Init
<1>3. \A e \in Exec : Ledger(e)
  BY <1>1, <1>2 DEF Ledger
<1> QED
  BY <1>3 DEF Init, SpendInv, Settled

\* What keeps the invariant when nothing is spent and no step is completed.
LEMMA NothingSpent ==
  ASSUME IInv, SpendInv, UNCHANGED <<tokens, total, done>>,
         \A f \in Exec : pc'[f] \in {"idle", "start", "load", "loop", "stream"} =>
            pc[f] \in {"idle", "start", "load", "loop", "stream"}
  PROVE  \A f \in Exec : Ledger(f)'
BY DEF SpendInv, Ledger

\* A settled total stays settled while the row and the executions' steps stay.
LEMMA RowKept ==
  ASSUME IInv, IInv', SpendInv, UNCHANGED <<totalUsed, tokens, total, done>>,
         status' \in {status, "RUNNING", "QUEUED"},
         \A f \in Exec : team[f] # Unloaded => team'[f] = team[f],
         \A f \in Exec, i \in Position :
            /\ step[f][i] \in {"COMPLETED", "deleted"}
            /\ done[f] = team[f]
            => step'[f][i] \in {"COMPLETED", "deleted"},
         \A f \in Exec : pc[f] \in {"done", "closed", "dead"} =>
            pc'[f] \in {"done", "closed", "dead"}
  PROVE  Settled'
<1>1. ASSUME status' = "COMPLETED"
      PROVE  \E e \in Exec : (/\ AllStepsDone(e)
                              /\ totalUsed = total[e] /\ SumFunction(tokens[e]) = total[e])'
  <2>1. PICK e \in Exec : /\ AllStepsDone(e)
                          /\ totalUsed = total[e] /\ SumFunction(tokens[e]) = total[e]
    BY <1>1 DEF SpendInv, Settled
  <2>2. team[e] \in {Unloaded} \cup 0 .. MaxAgents
    BY DEF IInv, TypeOK
  <2>3. AllStepsDone(e)'
    BY <2>1, <2>2 DEF AllStepsDone
  <2> QED BY <2>1, <2>3
<1>2. ASSUME status' = "FAILED"
      PROVE  \E e \in Exec : (pc[e] \in {"done", "closed", "dead"} /\ totalUsed = total[e])'
  BY <1>2 DEF SpendInv, Settled
<1> QED BY <1>1, <1>2 DEF Settled

\* The steps of the API and the queue write no counts.
LEMMA ServiceKeepsSpendInv ==
  ASSUME IInv, IInv', SpendInv,
         \/ UNCHANGED vars
         \/ CreateRow \/ Enqueue \/ EnqueueFails
         \/ PickUp \/ BackoffEnds \/ LockLapses
         \/ CheckNoActiveRun \/ ReplaceAgents
  PROVE  SpendInv'
<1>1. /\ UNCHANGED <<totalUsed, tokens, total, done, team>>
      /\ status' \in {status, "QUEUED"}
  BY DEF vars, CreateRow, Enqueue, EnqueueFails, PickUp, BackoffEnds, LockLapses,
         CheckNoActiveRun, ReplaceAgents, runRow, queue, memory, rows, edits
<1>2. \A f \in Exec : pc'[f] = pc[f] \/ (pc[f] = "idle" /\ pc'[f] = "start")
  <2>1. CASE PickUp
    <3>1. pc \in [Exec -> Pcs] /\ execs \in Nat
      BY DEF IInv, TypeOK
    <3>2. pc' = [pc EXCEPT ![execs + 1] = "start"]
      BY <2>1 DEF PickUp, Goto
    <3>3. \A f \in Exec : pc[f] = "idle" <=> f > execs
      BY DEF IInv, Local
    <3> QED BY <3>1, <3>2, <3>3
  <2>2. CASE ~ PickUp
    BY <2>2 DEF vars, CreateRow, Enqueue, EnqueueFails, BackoffEnds, LockLapses,
                CheckNoActiveRun, ReplaceAgents, runRow, queue, memory, rows, edits
  <2> QED BY <2>1, <2>2
<1>3. \A f \in Exec, i \in Position :
         step'[f][i] = step[f][i] \/ (step[f][i] # "none" /\ step'[f][i] = "deleted")
               \/ step[f][i] = "none"
  BY DEF vars, CreateRow, Enqueue, EnqueueFails, PickUp, BackoffEnds, LockLapses,
         CheckNoActiveRun, ReplaceAgents, runRow, queue, memory, rows, edits
<1>4. \A f \in Exec : Ledger(f)'
  BY <1>1, <1>2, NothingSpent
<1>5. Settled'
  BY <1>1, <1>2, <1>3, RowKept
<1> QED
  BY <1>4, <1>5 DEF SpendInv

\* Nor do these steps of a worker.
LEMMA QuietKeepsSpendInv ==
  ASSUME IInv, IInv', SpendInv, NEW e \in Exec,
         \/ MarkRunning(e) \/ LoadTeam(e) \/ StartStep(e) \/ RefuseStep(e)
         \/ FailStep(e) \/ LookupUser(e) \/ DbFails(e)
         \/ ReportSuccess(e) \/ ReportFailure(e) \/ Crash(e) \/ TimePasses(e)
  PROVE  SpendInv'
<1>1. /\ UNCHANGED <<totalUsed, tokens, total, done>>
      /\ status' \in {status, "RUNNING"}
  BY DEF MarkRunning, LoadTeam, StartStep, RefuseStep, FailStep, LookupUser, DbFails,
         ReportSuccess, ReportFailure, Crash, TimePasses, runRow, queue, memory, rows, edits
<1>2. /\ pc \in [Exec -> Pcs]
      /\ \A f \in Exec : Local(f)
  BY DEF IInv, TypeOK
<1>3. PICK label \in Pcs :
        /\ pc' = [pc EXCEPT ![e] = label]
        /\ label \in {"idle", "start", "load", "loop", "stream"} =>
              pc[e] \in {"idle", "start", "load", "loop", "stream"}
        /\ pc[e] \in {"done", "closed", "dead"} => label \in {"done", "closed", "dead"}
  <2>1. CASE TimePasses(e)
    <3>1. pc' = pc /\ pc[e] = "loop"
      BY <2>1 DEF TimePasses
    <3>2. pc' = [pc EXCEPT ![e] = "loop"]
      BY <1>2, <3>1
    <3> QED BY <3>1, <3>2 DEF Pcs, Working
  <2>2. CASE ~ TimePasses(e)
    BY <2>2 DEF MarkRunning, LoadTeam, StartStep, RefuseStep, FailStep, LookupUser, DbFails,
           ReportSuccess, ReportFailure, Crash, Goto, OnDbError, Pcs, Working, Live
  <2> QED BY <2>1, <2>2
<1>4. \A f \in Exec : pc'[f] = IF f = e THEN label ELSE pc[f]
  BY <1>2, <1>3
<1>5. \A f \in Exec : team[f] # Unloaded => team'[f] = team[f]
  <2>1. CASE LoadTeam(e)
    <3>1. team[e] = Unloaded /\ \A f \in Exec \ {e} : team'[f] = team[f]
      BY <2>1, <1>2 DEF LoadTeam, Local, IInv, TypeOK
    <3> QED BY <3>1
  <2>2. CASE ~ LoadTeam(e)
    BY <2>2 DEF MarkRunning, StartStep, RefuseStep, FailStep, LookupUser, DbFails,
                ReportSuccess, ReportFailure, Crash, TimePasses, memory
  <2> QED BY <2>1, <2>2
<1>6. \A f \in Exec : done[f] = team[f] => step'[f] = step[f]
  <2>1. CASE StartStep(e) \/ FailStep(e)
    <3>1. done[e] # team[e] /\ \A f \in Exec \ {e} : step'[f] = step[f]
      <4>1. done[e] < team[e]
        BY <2>1, <1>2 DEF StartStep, FailStep, Local
      <4>2. step \in [Exec -> [Position ->
                    {"none", "RUNNING", "COMPLETED", "FAILED", "deleted"}]]
        BY DEF IInv, TypeOK
      <4>3. \A f \in Exec \ {e} : step'[f] = step[f]
        BY <2>1, <4>2 DEF StartStep, FailStep
      <4> QED BY <4>1, <4>2, <4>3 DEF IInv, TypeOK
    <3> QED BY <3>1
  <2>2. CASE ~ (StartStep(e) \/ FailStep(e))
    BY <2>2 DEF MarkRunning, LoadTeam, RefuseStep, LookupUser, DbFails,
                ReportSuccess, ReportFailure, Crash, TimePasses, rows
  <2> QED BY <2>1, <2>2
<1>7. \A f \in Exec : Ledger(f)'
  BY <1>1, <1>3, <1>4, NothingSpent
<1>8. Settled'
  BY <1>1, <1>3, <1>4, <1>5, <1>6, RowKept
<1> QED
  BY <1>7, <1>8 DEF SpendInv

\* An execution in its step loop has not settled the row.
LEMMA SpenderIsNotSettled ==
  ASSUME IInv, SpendInv, NEW e \in Exec, pc[e] = "stream", UNCHANGED <<status, totalUsed>>,
         \A f \in Exec \ {e} : /\ pc'[f] = pc[f] /\ team'[f] = team[f] /\ done'[f] = done[f]
                               /\ step'[f] = step[f] /\ total'[f] = total[f]
                               /\ tokens'[f] = tokens[f]
  PROVE  Settled'
<1>1. done[e] # team[e]
  <2>1. done[e] < team[e] /\ done[e] \in Nat
    BY DEF IInv, TypeOK, Local
  <2>2. team[e] \in {Unloaded} \cup 0 .. MaxAgents
    BY DEF IInv, TypeOK
  <2> QED BY <2>1, <2>2
<1>2. ASSUME status' = "COMPLETED"
      PROVE  \E f \in Exec : (/\ AllStepsDone(f)
                              /\ totalUsed = total[f] /\ SumFunction(tokens[f]) = total[f])'
  <2>1. PICK f \in Exec : /\ AllStepsDone(f)
                          /\ totalUsed = total[f] /\ SumFunction(tokens[f]) = total[f]
    BY <1>2 DEF SpendInv, Settled
  <2>2. f # e
    BY <1>1, <2>1 DEF AllStepsDone
  <2> QED BY <2>1, <2>2 DEF AllStepsDone
<1>3. ASSUME status' = "FAILED"
      PROVE  \E f \in Exec : (pc[f] \in {"done", "closed", "dead"} /\ totalUsed = total[f])'
  BY <1>3 DEF SpendInv, Settled
<1> QED BY <1>2, <1>3 DEF Settled


\* A completed step is charged and recorded in one step.
LEMMA CompleteStepKeepsSpendInv ==
  ASSUME IInv, IInv', SpendInv, NEW e \in Exec, CompleteStep(e)
  PROVE  SpendInv'
<1>1. PICK d \in 0 .. StepTimeout, r \in 0 .. MaxReport :
        /\ Streamed(e, d, r)
        /\ step' = [step EXCEPT ![e][done[e] + 1] = "COMPLETED"]
        /\ tokens' = [tokens EXCEPT ![e][done[e] + 1] = r]
        /\ done' = [done EXCEPT ![e] = @ + 1]
        /\ pc' = [pc EXCEPT ![e] = "loop"]
        /\ UNCHANGED <<status, totalUsed, team>>
  BY DEF CompleteStep, Goto, runRow
<1>2. /\ pc[e] = "stream"
      /\ total' = [total EXCEPT ![e] = @ + r]
  BY <1>1 DEF Streamed
<1>3. /\ pc \in [Exec -> Pcs] /\ team \in [Exec -> {Unloaded} \cup 0 .. MaxAgents]
      /\ done \in [Exec -> 0 .. MaxAgents] /\ total \in [Exec -> Nat]
      /\ tokens \in [Exec -> [Position -> Nat]]
      /\ step \in [Exec -> [Position ->
                   {"none", "RUNNING", "COMPLETED", "FAILED", "deleted"}]]
  BY DEF IInv, TypeOK
<1>4. done[e] < team[e]
  BY <1>2 DEF IInv, Local
<1>5. PICK k \in Position : k = done[e] + 1
  <2>1. done[e] \in 0 .. MaxAgents /\ team[e] \in {Unloaded} \cup 0 .. MaxAgents
    BY <1>3
  <2>2. done[e] + 1 \in Position
    BY <1>4, <2>1
  <2> QED BY <2>2
<1>6. \A f \in Exec \ {e} : /\ pc'[f] = pc[f] /\ team'[f] = team[f] /\ done'[f] = done[f]
                            /\ step'[f] = step[f] /\ total'[f] = total[f]
                            /\ tokens'[f] = tokens[f]
  BY <1>1, <1>2, <1>3
<1>7. /\ tokens'[e] = [tokens[e] EXCEPT ![k] = r]
      /\ total'[e] = total[e] + r
      /\ done'[e] = k
      /\ pc'[e] = "loop"
  BY <1>1, <1>2, <1>3, <1>5
<1>8. Ledger(e) /\ tokens[e][k] = 0 /\ SumFunction(tokens[e]) = total[e]
  <2>1. Ledger(e)
    BY DEF SpendInv
  <2> QED BY <1>2, <1>5, <1>3, <2>1 DEF Ledger
<1>9. SumFunction(tokens'[e]) = total'[e]
  <2>1. PICK f \in [Position -> Nat], g \in [Position -> Nat] :
           f = tokens[e] /\ g = tokens'[e]
    <3>1. tokens[e] \in [Position -> Nat]
      BY <1>3
    <3>2. r \in Nat
      OBVIOUS
    <3>3. tokens'[e] \in [Position -> Nat]
      BY <1>7, <3>1, <3>2
    <3> QED BY <3>1, <3>3
  <2>2. g[k] = r /\ f[k] = 0 /\ \A x \in Position \ {k} : f[x] = g[x]
    BY <1>7, <1>8, <2>1
  <2>3. SumFunction(g) = SumFunction(f) - f[k] + g[k]
    BY <2>2, SumsDiffer
  <2>4. total[e] \in Nat
    BY <1>3
  <2> QED BY <1>7, <1>8, <2>1, <2>2, <2>3, <2>4
<1>10. \A f \in Exec : Ledger(f)'
  <2> SUFFICES ASSUME NEW f \in Exec PROVE Ledger(f)'
    OBVIOUS
  <2>1. Ledger(f)
    BY DEF SpendInv
  <2>2. CASE f # e
    BY <1>6, <2>1, <2>2 DEF Ledger
  <2>3. CASE f = e
    <3>1. \A i \in Position : i > done'[e] => tokens'[e][i] = 0
      <4> SUFFICES ASSUME NEW i \in Position, i > k PROVE tokens'[e][i] = 0
        BY <1>7
      <4>1. tokens'[e][i] = tokens[e][i]
        BY <1>3, <1>7
      <4>2. i > done[e]
        BY <1>5, <1>3
      <4> QED BY <1>8, <4>1, <4>2 DEF Ledger
    <3>2. total'[e] \in Nat
      BY DEF IInv, TypeOK
    <3> QED BY <1>9, <2>3, <3>1, <3>2 DEF Ledger
  <2> QED BY <2>2, <2>3
<1>11. Settled'
  BY <1>1, <1>2, <1>6, SpenderIsNotSettled
<1> QED
  BY <1>10, <1>11 DEF SpendInv

\* A step that is not saved is charged, if at all, without being recorded.
LEMMA LostStepKeepsSpendInv ==
  ASSUME IInv, IInv', SpendInv, NEW e \in Exec, SaveStepFails(e) \/ StreamFails(e)
  PROVE  SpendInv'
<1>1. PICK d \in 0 .. StepTimeout, r \in 0 .. MaxReport : Streamed(e, d, r)
  BY DEF SaveStepFails, StreamFails
<1>2. /\ pc[e] = "stream" /\ pc' = [pc EXCEPT ![e] = "stepFail"]
      /\ total' = [total EXCEPT ![e] = @ + r]
      /\ UNCHANGED <<status, totalUsed, team, done, step, tokens>>
  BY <1>1 DEF Streamed, SaveStepFails, StreamFails, Goto, runRow, rows
<1>3. pc \in [Exec -> Pcs] /\ total \in [Exec -> Nat] /\ tokens \in [Exec -> [Position -> Nat]]
  BY DEF IInv, TypeOK
<1>4. /\ \A f \in Exec \ {e} : pc'[f] = pc[f] /\ total'[f] = total[f]
      /\ total'[e] = total[e] + r /\ pc'[e] = "stepFail"
  BY <1>2, <1>3
<1>5. \A f \in Exec : Ledger(f)'
  <2> SUFFICES ASSUME NEW f \in Exec PROVE Ledger(f)'
    OBVIOUS
  <2>1. Ledger(f)
    BY DEF SpendInv
  <2>2. CASE f # e
    BY <1>2, <1>4, <2>1, <2>2 DEF Ledger
  <2>3. CASE f = e
    <3>1. SumFunction(tokens[e]) = total[e]
      BY <1>2, <2>1, <2>3 DEF Ledger
    <3>2. total[e] \in Nat /\ r \in Nat
      BY <1>3
    <3>3. SumFunction(tokens'[e]) <= total'[e]
      BY <1>2, <1>4, <3>1, <3>2
    <3> QED BY <1>2, <1>4, <2>1, <2>3, <3>3 DEF Ledger
  <2> QED BY <2>2, <2>3
<1>6. Settled'
  BY <1>2, <1>4, SpenderIsNotSettled
<1> QED
  BY <1>5, <1>6 DEF SpendInv

\* The writes that settle the row.
LEMMA SettlingKeepsSpendInv ==
  ASSUME IInv, IInv', SpendInv, NEW e \in Exec, CompleteRun(e) \/ FailRun(e)
  PROVE  SpendInv'
<1>1. /\ UNCHANGED <<team, done, total, step, tokens>>
      /\ totalUsed' = total[e]
      /\ pc \in [Exec -> Pcs]
  BY DEF CompleteRun, FailRun, memory, rows, IInv, TypeOK
<1>2. CASE CompleteRun(e)
  <2>1. PICK label \in {"done", "lookup"} : pc' = [pc EXCEPT ![e] = label]
    BY <1>2 DEF CompleteRun, Goto
  <2>2. pc[e] = "loop" /\ done[e] = team[e] /\ status' = "COMPLETED"
    BY <1>2 DEF CompleteRun
  <2>3. \A f \in Exec : Ledger(f)'
    BY <1>1, <2>1, NothingSpent
  <2>4. AllStepsDone(e)' /\ (totalUsed = total[e] /\ SumFunction(tokens[e]) = total[e])'
    <3>1. Local(e) /\ Ledger(e)
      BY DEF IInv, SpendInv
    <3>2. AllStepsDone(e)
      BY <2>2, <3>1 DEF Local, AllStepsDone
    <3> QED BY <1>1, <2>2, <3>1, <3>2 DEF AllStepsDone, Ledger
  <2> QED
    BY <2>2, <2>3, <2>4 DEF SpendInv, Settled
<1>3. CASE FailRun(e)
  <2>1. pc' = [pc EXCEPT ![e] = "done"] /\ status' = "FAILED"
    BY <1>3 DEF FailRun, Goto
  <2>2. \A f \in Exec : Ledger(f)'
    BY <1>1, <2>1, NothingSpent
  <2>3. pc'[e] = "done" /\ totalUsed' = total'[e]
    BY <1>1, <2>1
  <2> QED
    BY <2>1, <2>2, <2>3 DEF SpendInv, Settled
<1> QED BY <1>2, <1>3

LEMMA NextKeepsSpendInv == IInv /\ IInv' /\ SpendInv /\ [Next]_vars => SpendInv'
<1> SUFFICES ASSUME IInv, IInv', SpendInv, [Next]_vars PROVE SpendInv'
  OBVIOUS
<1>1. CASE \/ UNCHANGED vars
           \/ CreateRow \/ Enqueue \/ EnqueueFails
           \/ PickUp \/ BackoffEnds \/ LockLapses
           \/ CheckNoActiveRun \/ ReplaceAgents
  BY <1>1, ServiceKeepsSpendInv
<1>2. ASSUME NEW e \in Exec, Worker(e) \/ TimePasses(e) \/ Crash(e) PROVE SpendInv'
  BY <1>2, QuietKeepsSpendInv, CompleteStepKeepsSpendInv, LostStepKeepsSpendInv,
     SettlingKeepsSpendInv DEF Worker, Pipeline
<1> QED
  BY <1>1, <1>2 DEF Next

\* However often a run is executed, and whatever fails on the way, its row is
\* charged for one execution: for all its recorded steps if it completed, for
\* no fewer if it failed (completeRun, failRun and the step loop).
THEOREM SpendIsAccounted == Spec => []SpendMatchesSteps
<1>1. Spec => []IInv
  BY InductiveInvariant
<1>2. Spec => []SpendInv
  BY <1>1, InitSpendInv, NextKeepsSpendInv, PTL DEF Spec
<1>3. SpendInv => SpendMatchesSteps
  <2> SUFFICES ASSUME SpendInv, status \in Terminal PROVE SpendMatchesSteps
    BY DEF SpendMatchesSteps
  <2>1. CASE status = "COMPLETED"
    BY <2>1 DEF SpendInv, Settled, SpendMatchesSteps
  <2>2. CASE status = "FAILED"
    <3>1. PICK e \in Exec : pc[e] \in {"done", "closed", "dead"} /\ totalUsed = total[e]
      BY <2>2 DEF SpendInv, Settled
    <3>2. Ledger(e)
      BY DEF SpendInv
    <3> QED BY <2>2, <3>1, <3>2 DEF Ledger, SpendMatchesSteps
  <2> QED BY <2>1, <2>2
<1> QED
  BY <1>2, <1>3, PTL
=============================================================================
