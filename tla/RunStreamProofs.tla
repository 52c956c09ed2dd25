--------------------------- MODULE RunStreamProofs ---------------------------
(***************************************************************************)
(* What RunStream promises for any number of steps and executions and for  *)
(* any kinds of event that may be lost.                                    *)
(***************************************************************************)
EXTENDS RunStream, SequenceTheorems, WellFoundedInduction, TLAPS

RowStatus == {"RUNNING", "COMPLETED", "FAILED"}
Message == (Kinds \X Nat) \cup Closing
Completion(s) == <<"step_complete", s>>

-----------------------------------------------------------------------------
\* Induction over an interval, from the well-foundedness of < on Nat: the
\* theorems of the library that take a predicate cannot be instantiated here.

LEMMA LeastNumber ==
  ASSUME NEW T, T \subseteq Nat, T # {}
  PROVE  \E n \in T : \A m \in T : n <= m
<1> DEFINE R == {ss \in Nat \X Nat : ss[1] < ss[2]}
<1>1. IsWellFoundedOn(R, Nat)
  BY NatLessThanWellFounded DEF OpToRel
<1> HIDE DEF R
<1>2. \E x \in T : \A y \in T : ~ (<<y, x>> \in R)
  BY <1>1, WFMin
<1>3. \A x, y \in Nat : <<y, x>> \notin R => x <= y
  BY DEF R
<1> QED BY <1>2, <1>3

LEMMA UpTo ==
  ASSUME NEW n \in Nat, NEW S, 0 \in S, \A i \in 0 .. n - 1 : i \in S => i + 1 \in S
  PROVE  \A i \in 0 .. n : i \in S
<1> DEFINE T == {i \in 0 .. n : i \notin S}
<1> SUFFICES ASSUME T # {} PROVE FALSE
  OBVIOUS
<1>1. T \subseteq Nat
  OBVIOUS
<1>2. PICK i \in T : \A j \in T : i <= j
  <2> HIDE DEF T
  <2> QED BY <1>1, LeastNumber
<1>3. i - 1 \in 0 .. n - 1 /\ i - 1 \in S
  BY <1>2
<1> QED BY <1>2, <1>3

-----------------------------------------------------------------------------
\* FlattenSeq defines its result by a recursive function, which exists.

Flattened(f, seqs, n) ==
    f = [i \in 1 .. n |-> IF i = 1 THEN seqs[i] ELSE f[i - 1] \o seqs[i]]

LEMMA FlattenedExists ==
  ASSUME NEW seqs, NEW n \in Nat
  PROVE  \E f : Flattened(f, seqs, n)
<1> DEFINE S == {m \in Nat : \E f : Flattened(f, seqs, m)}
<1>1. 0 \in S
  <2>1. Flattened([i \in 1 .. 0 |-> <<>>], seqs, 0)
    BY DEF Flattened
  <2> QED BY <2>1
<1>2. ASSUME NEW m \in Nat, m \in S PROVE m + 1 \in S
  <2>1. PICK f : Flattened(f, seqs, m)
    BY <1>2
  <2> DEFINE g == [i \in 1 .. m + 1 |-> IF i <= m THEN f[i]
                     ELSE IF i = 1 THEN seqs[i] ELSE f[i - 1] \o seqs[i]]
  <2>2. \A i \in 1 .. m : f[i] = IF i = 1 THEN seqs[i] ELSE f[i - 1] \o seqs[i]
    BY <2>1 DEF Flattened
  <2>3. \A i \in 1 .. m + 1 : g[i] = IF i = 1 THEN seqs[i] ELSE g[i - 1] \o seqs[i]
    <3> SUFFICES ASSUME NEW i \in 1 .. m + 1
                 PROVE  g[i] = IF i = 1 THEN seqs[i] ELSE g[i - 1] \o seqs[i]
      OBVIOUS
    <3>1. i # 1 => g[i - 1] = f[i - 1]
      OBVIOUS
    <3>2. CASE i <= m
      BY <3>1, <3>2, <2>2
    <3>3. CASE i = m + 1
      BY <3>1, <3>3
    <3> QED BY <3>2, <3>3
  <2>4. Flattened(g, seqs, m + 1)
    <3> HIDE DEF g
    <3> QED BY <2>3 DEF Flattened, g
  <2> HIDE DEF g
  <2> QED BY <2>4
<1>3. \A i \in 0 .. n : i \in S
  <2> HIDE DEF S
  <2> QED BY <1>1, <1>2, UpTo
<1> QED BY <1>3

LEMMA FlattenSeqIs ==
  ASSUME NEW seqs, NEW n \in Nat, n # 0, Len(seqs) = n
  PROVE  \E f : Flattened(f, seqs, n) /\ FlattenSeq(seqs) = f[n]
<1> DEFINE f == CHOOSE f : f = [i \in 1 .. n |->
                                  IF i = 1 THEN seqs[i] ELSE f[i - 1] \o seqs[i]]
<1>1. \E g : g = [i \in 1 .. n |-> IF i = 1 THEN seqs[i] ELSE g[i - 1] \o seqs[i]]
  BY FlattenedExists DEF Flattened
<1>2. Flattened(f, seqs, n)
  BY <1>1, Zenon DEF Flattened
<1>3. FlattenSeq(seqs) = f[n]
  BY Zenon DEF FlattenSeq
<1> QED BY <1>2, <1>3

-----------------------------------------------------------------------------
\* What the replay of a snapshot contains.

Finished(snapshot, s) == snapshot.rows[s] = "COMPLETED" \/ snapshot.status = "COMPLETED"

\* The events of the first m steps: each completion once, and only of steps
\* that are finished in the snapshot.
Replays(snapshot, m, events) ==
    /\ events \in Seq(Kinds \X (1 .. m))
    /\ \A i \in DOMAIN events :
         events[i][1] = "step_complete" => Finished(snapshot, events[i][2])
    /\ \A i, j \in DOMAIN events :
         events[i][1] = "step_complete" /\ events[i] = events[j] => i = j
    /\ \A s \in 1 .. m : Finished(snapshot, s) => \E i \in DOMAIN events : events[i] = Completion(s)

LEMMA StepEventsAre ==
  ASSUME NEW snapshot, NEW s \in Nat
  PROVE  /\ StepEvents(snapshot, s) \in Seq(Kinds \X {s})
         /\ \A i \in DOMAIN StepEvents(snapshot, s) :
              StepEvents(snapshot, s)[i] = Completion(s)
              => i = Len(StepEvents(snapshot, s)) /\ Finished(snapshot, s)
         /\ Finished(snapshot, s) =>
              /\ Len(StepEvents(snapshot, s)) # 0
              /\ StepEvents(snapshot, s)[Len(StepEvents(snapshot, s))] = Completion(s)
<1> DEFINE E == Kinds \X {s}
           start == <<<<"step_start", s>>>>
           token == IF snapshot.rows[s] = "COMPLETED" THEN <<<<"token", s>>>> ELSE <<>>
           done == IF Finished(snapshot, s) THEN <<Completion(s)>> ELSE <<>>
           events == StepEvents(snapshot, s)
<1>1. events = (start \o token) \o done
  BY DEF StepEvents, Finished, Completion
<1>2. /\ start \in Seq(E) /\ Len(start) = 1 /\ start[1] = <<"step_start", s>>
      /\ token \in Seq(E) /\ Len(token) \in {0, 1} /\ (Len(token) = 1 => token[1] = <<"token", s>>)
      /\ done \in Seq(E) /\ Len(done) = (IF Finished(snapshot, s) THEN 1 ELSE 0)
      /\ (Finished(snapshot, s) => done[1] = Completion(s))
  BY DEF Kinds, Completion
<1> HIDE DEF E, start, token, done
<1>3. /\ start \o token \in Seq(E) /\ Len(start \o token) = 1 + Len(token)
      /\ \A i \in 1 .. 1 + Len(token) :
           (start \o token)[i] = IF i <= 1 THEN start[i] ELSE token[i - 1]
  BY <1>2, ConcatProperties
<1>4. /\ events \in Seq(E) /\ Len(events) = 1 + Len(token) + Len(done)
      /\ \A i \in 1 .. 1 + Len(token) + Len(done) :
           events[i] = IF i <= 1 + Len(token) THEN (start \o token)[i]
                       ELSE done[i - (1 + Len(token))]
  BY <1>1, <1>2, <1>3, ConcatProperties
<1> HIDE DEF events
<1>5. DOMAIN events = 1 .. 1 + Len(token) + Len(done)
  BY <1>2, <1>4, LenProperties
<1>6. Completion(s) # <<"step_start", s>> /\ Completion(s) # <<"token", s>>
  BY DEF Completion
<1>7. ASSUME NEW i \in DOMAIN events, events[i] = Completion(s)
      PROVE  i = Len(events) /\ Finished(snapshot, s)
  <2>1. i \in Nat /\ i >= 1
    BY <1>2, <1>5
  <2>2. i # 1
    <3>1. events[1] = start[1]
      BY <1>2, <1>3, <1>4
    <3> QED BY <1>2, <1>6, <1>7, <3>1
  <2>3. ~ (i = 2 /\ Len(token) = 1)
    <3>1. Len(token) = 1 => events[2] = token[1]
      BY <1>2, <1>3, <1>4
    <3> QED BY <1>2, <1>6, <1>7, <3>1
  <2>4. i > 1 + Len(token)
    <3>1. CASE Len(token) = 0
      BY <2>1, <2>2, <3>1
    <3>2. CASE Len(token) = 1
      BY <2>1, <2>2, <2>3, <3>2
    <3> QED BY <1>2, <3>1, <3>2
  <2> QED BY <1>2, <1>4, <1>5, <2>4
<1>8. ASSUME Finished(snapshot, s)
      PROVE  Len(events) # 0 /\ events[Len(events)] = Completion(s)
  BY <1>2, <1>4, <1>8
<1>9. events \in Seq(Kinds \X {s})
  BY <1>4 DEF E
<1> QED BY <1>7, <1>8, <1>9 DEF events

LEMMA ReplaysOneMore ==
  ASSUME NEW snapshot, NEW m \in Nat, NEW events, Replays(snapshot, m, events)
  PROVE  Replays(snapshot, m + 1, events \o StepEvents(snapshot, m + 1))
<1> DEFINE new == StepEvents(snapshot, m + 1)
           all == events \o new
           E == Kinds \X (1 .. m + 1)
           n == Len(events)
<1>1. /\ events \in Seq(Kinds \X (1 .. m)) /\ n \in Nat /\ DOMAIN events = 1 .. n
      /\ \A i \in 1 .. n : events[i] \in Kinds \X (1 .. m)
  BY DEF Replays
<1>2. /\ new \in Seq(Kinds \X {m + 1}) /\ Len(new) \in Nat /\ DOMAIN new = 1 .. Len(new)
      /\ \A i \in 1 .. Len(new) : new[i] \in Kinds \X {m + 1}
  <2>1. new \in Seq(Kinds \X {m + 1})
    BY StepEventsAre
  <2> HIDE DEF new
  <2> QED BY <2>1, LenProperties, ElementOfSeq
<1>3. events \in Seq(E) /\ new \in Seq(E)
  <2>1. Kinds \X (1 .. m) \subseteq E /\ Kinds \X {m + 1} \subseteq E
    OBVIOUS
  <2> HIDE DEF E
  <2> QED BY <1>1, <1>2, <2>1, SeqMonotonic
<1>4. /\ all \in Seq(E) /\ Len(all) = n + Len(new) /\ DOMAIN all = 1 .. n + Len(new)
      /\ \A i \in 1 .. n + Len(new) : all[i] = IF i <= n THEN events[i] ELSE new[i - n]
  <2> HIDE DEF E, new
  <2> QED BY <1>1, <1>2, <1>3, ConcatProperties, LenProperties
<1>3a. \A k \in DOMAIN new : new[k] = Completion(m + 1)
                            => k = Len(new) /\ Finished(snapshot, m + 1)
  <2>1. m + 1 \in Nat
    OBVIOUS
  <2> QED BY <2>1, StepEventsAre
<1> HIDE DEF new, all
<1>4a. ASSUME NEW i \in DOMAIN all, i > n
       PROVE  i - n \in 1 .. Len(new) /\ new[i - n] = all[i]
  <2>1. i \in 1 .. n + Len(new) /\ n \in Nat /\ Len(new) \in Nat
    BY <1>1, <1>2, <1>4
  <2>2. i - n \in 1 .. Len(new) /\ ~ (i <= n)
    BY <1>4a, <2>1
  <2> QED BY <1>4, <2>1, <2>2
<1>5. \A i \in DOMAIN all : all[i][1] = "step_complete" => Finished(snapshot, all[i][2])
  <2> SUFFICES ASSUME NEW i \in DOMAIN all, all[i][1] = "step_complete"
               PROVE  Finished(snapshot, all[i][2])
    OBVIOUS
  <2>1. CASE i <= n
    BY <1>1, <1>4, <2>1 DEF Replays
  <2>2. CASE i > n
    <3>1. i - n \in 1 .. Len(new) /\ new[i - n] = all[i]
      BY <1>4a, <2>2
    <3>2. new[i - n] = Completion(m + 1)
      BY <1>2, <3>1 DEF Completion
    <3>3. Finished(snapshot, m + 1)
      <4>1. \A k \in 1 .. Len(new) : new[k] = Completion(m + 1) => Finished(snapshot, m + 1)
        <5>1. DOMAIN new = 1 .. Len(new)
          BY <1>2
        <5> QED BY <1>3a, <5>1
      <4> QED BY <3>1, <3>2, <4>1
    <3> QED BY <3>1, <3>2, <3>3 DEF Completion
  <2> QED BY <1>1, <1>4, <2>1, <2>2
<1>6. ASSUME NEW i \in DOMAIN all, NEW j \in DOMAIN all,
             all[i][1] = "step_complete", all[i] = all[j]
      PROVE  i = j
  <2>0. \A k \in DOMAIN all : IF k <= n THEN all[k][2] \in 1 .. m ELSE all[k][2] = m + 1
    <3> SUFFICES ASSUME NEW k \in DOMAIN all
                 PROVE  IF k <= n THEN all[k][2] \in 1 .. m ELSE all[k][2] = m + 1
      OBVIOUS
    <3>1. k \in Nat /\ k \in 1 .. n + Len(new) /\ (k > n => k - n \in 1 .. Len(new))
      BY <1>1, <1>2, <1>4
    <3>2. CASE k <= n
      <4>1. k \in 1 .. n /\ all[k] = events[k]
        BY <1>1, <1>4, <3>1, <3>2
      <4>2. events[k] \in Kinds \X (1 .. m)
        BY <1>1, <4>1
      <4> QED BY <3>2, <4>1, <4>2
    <3>3. CASE ~ (k <= n)
      <4>1. k - n \in 1 .. Len(new) /\ all[k] = new[k - n]
        BY <1>1, <1>4, <3>1, <3>3
      <4>2. new[k - n] \in Kinds \X {m + 1}
        BY <1>2, <4>1
      <4> QED BY <3>3, <4>1, <4>2
    <3> QED BY <3>2, <3>3
  <2>1. CASE i <= n
    <3>1. j <= n
      <4>1. all[i][2] \in 1 .. m /\ all[j][2] = all[i][2]
        BY <1>6, <2>0, <2>1
      <4>2. all[j][2] # m + 1
        BY <4>1
      <4> QED BY <2>0, <4>2
    <3> QED BY <1>1, <1>4, <1>6, <2>1, <3>1 DEF Replays
  <2>2. CASE i > n
    <3>1. j > n
      <4>1. n \in Nat /\ i \in Nat /\ j \in Nat
        <5>1. DOMAIN all \subseteq Nat /\ n \in Nat
          <6>1. n \in Nat /\ Len(new) \in Nat /\ DOMAIN all = 1 .. n + Len(new)
            BY <1>1, <1>2, <1>4
          <6> QED BY <6>1
        <5> QED BY <5>1
      <4>2. all[i][2] = m + 1 /\ all[j][2] = all[i][2]
        BY <1>6, <2>0, <2>2, <4>1
      <4>3. ~ (all[j][2] \in 1 .. m)
        BY <4>2
      <4> QED BY <2>0, <4>1, <4>3
    <3>2. \A k \in {i, j} : k - n \in 1 .. Len(new) /\ new[k - n] = Completion(m + 1)
      <4>1. \A k \in {i, j} : k - n \in 1 .. Len(new) /\ new[k - n] = all[k]
        BY <1>4a, <2>2, <3>1
      <4> QED BY <1>2, <1>6, <4>1 DEF Completion
    <3>3. i - n = Len(new) /\ j - n = Len(new)
      <4>1. \A k \in 1 .. Len(new) : new[k] = Completion(m + 1) => k = Len(new)
        <5>1. DOMAIN new = 1 .. Len(new)
          BY <1>2
        <5> QED BY <1>3a, <5>1
      <4> QED BY <3>2, <4>1
    <3> QED BY <1>1, <1>2, <1>4, <3>3
  <2> QED BY <1>1, <1>4, <2>1, <2>2
<1>7. ASSUME NEW s \in 1 .. m + 1, Finished(snapshot, s)
      PROVE  \E i \in DOMAIN all : all[i] = Completion(s)
  <2>1. CASE s <= m
    <3>1. PICK i \in DOMAIN events : events[i] = Completion(s)
      BY <1>7, <2>1 DEF Replays
    <3>2. i \in 1 .. n /\ i <= n /\ i \in 1 .. n + Len(new)
      <4>1. i \in 1 .. n
        BY <1>1
      <4> QED BY <1>1, <1>2, <4>1
    <3>3. i \in DOMAIN all /\ all[i] = events[i]
      BY <1>4, <3>2
    <3> QED BY <3>1, <3>3
  <2>2. CASE s = m + 1
    <3>1. new[Len(new)] = Completion(s) /\ Len(new) # 0
      <4>1. Finished(snapshot, m + 1) /\ m + 1 \in Nat
        BY <1>7, <2>2
      <4>2. Len(StepEvents(snapshot, m + 1)) # 0
            /\ StepEvents(snapshot, m + 1)[Len(StepEvents(snapshot, m + 1))] = Completion(m + 1)
        BY <4>1, StepEventsAre
      <4> QED BY <2>2, <4>2 DEF new
    <3>2. n + Len(new) \in 1 .. n + Len(new) /\ n + Len(new) > n /\ (n + Len(new)) - n = Len(new)
      BY <1>1, <1>2, <3>1
    <3>3. n + Len(new) \in DOMAIN all /\ all[n + Len(new)] = new[Len(new)]
      <4> DEFINE k == n + Len(new)
      <4>1. k \in 1 .. n + Len(new) /\ ~ (k <= n) /\ k - n = Len(new)
        BY <1>1, <1>2, <3>2
      <4> HIDE DEF k
      <4>2. k \in DOMAIN all /\ all[k] = new[k - n]
        BY <1>4, <4>1
      <4> QED BY <4>1, <4>2 DEF k
    <3> QED BY <3>1, <3>3
  <2> QED BY <2>1, <2>2
<1>8. all \in Seq(Kinds \X (1 .. m + 1))
  BY <1>4
<1> QED BY <1>5, <1>6, <1>7, <1>8 DEF Replays, all, new

LEMMA ReplayReplays ==
  ASSUME NEW snapshot, snapshot.rows \in Seq(RowStatus)
  PROVE  Replays(snapshot, Len(snapshot.rows), Replay(snapshot))
<1> DEFINE n == Len(snapshot.rows)
           parts == [s \in DOMAIN snapshot.rows |-> StepEvents(snapshot, s)]
<1>1. n \in Nat /\ DOMAIN snapshot.rows = 1 .. n
  OBVIOUS
<1>2. parts = [s \in 1 .. n |-> StepEvents(snapshot, s)]
  BY <1>1
<1>3. Len(parts) = n
  BY <1>1, <1>2
<1>4. Replay(snapshot) = FlattenSeq(parts)
  BY DEF Replay
<1>5. Replays(snapshot, 0, <<>>)
  BY DEF Replays
<1>6. CASE n = 0
  <2>1. parts = <<>> /\ FlattenSeq(parts) = parts
    BY <1>2, <1>3, <1>6 DEF FlattenSeq
  <2> QED BY <1>4, <1>5, <1>6, <2>1
<1>7. CASE n # 0
  <2> HIDE DEF parts, n
  <2>1. PICK f : Flattened(f, parts, n) /\ FlattenSeq(parts) = f[n]
    BY <1>1, <1>3, <1>7, FlattenSeqIs
  <2>2. \A i \in 1 .. n : f[i] = IF i = 1 THEN StepEvents(snapshot, i)
                                 ELSE f[i - 1] \o StepEvents(snapshot, i)
    BY <2>1, <1>2 DEF Flattened
  <2> DEFINE S == {m \in 0 .. n : m # 0 => Replays(snapshot, m, f[m])}
  <2>3. 0 \in S
    BY <1>1
  <2>4. ASSUME NEW m \in 0 .. n - 1, m \in S PROVE m + 1 \in S
    <3>1. CASE m = 0
      <4>1. StepEvents(snapshot, 1) \in Seq(Kinds \X {1})
        BY StepEventsAre
      <4>2. <<>> \o StepEvents(snapshot, 1) = StepEvents(snapshot, 1)
        BY <4>1, ConcatEmptySeq
      <4>3. Replays(snapshot, 0 + 1, <<>> \o StepEvents(snapshot, 0 + 1))
        BY <1>5, ReplaysOneMore
      <4>4. 0 + 1 = 1 /\ f[1] = StepEvents(snapshot, 1)
        BY <1>1, <1>7, <2>2
      <4> QED BY <1>1, <1>7, <3>1, <4>2, <4>3, <4>4
    <3>2. CASE m # 0
      <4>1. Replays(snapshot, m, f[m]) /\ m \in Nat
        BY <2>4, <3>2, <1>1
      <4>2. Replays(snapshot, m + 1, f[m] \o StepEvents(snapshot, m + 1))
        BY <4>1, ReplaysOneMore
      <4>3. f[m + 1] = f[m] \o StepEvents(snapshot, m + 1)
        <5>1. m + 1 \in 1 .. n /\ m + 1 # 1 /\ (m + 1) - 1 = m
          BY <1>1, <3>2
        <5> HIDE DEF S
        <5> QED BY <2>2, <5>1
      <4>4. m + 1 \in 0 .. n
        BY <1>1
      <4> QED BY <4>2, <4>3, <4>4
    <3> QED BY <3>1, <3>2
  <2>5. \A m \in 0 .. n : m \in S
    <3> HIDE DEF S
    <3> QED BY <1>1, <2>3, <2>4, UpTo
  <2> QED BY <1>1, <1>4, <1>7, <2>1, <2>5 DEF n
<1> QED BY <1>6, <1>7

-----------------------------------------------------------------------------
\* The inductive invariant.

Ats == {"idle", "fresh", "load", "loop", "created", "stream", "streamed", "saved", "completed",
        "lookup", "failing", "failed", "over", "dead", "lapsed", "givenUp"}

\* While an execution is here the current step has not been reported complete.
InStep == {"created", "stream", "streamed", "saved"}

Before == {"idle", "refused", "subscribed", "snapshotted", "leaked"}

\* The completion of step s may have been published: the row was saved first.
Published(s) ==
    /\ s \in DOMAIN rows
    /\ rows[s] = "COMPLETED"
    /\ s = Len(rows) => at \notin InStep

Types ==
    /\ rows \in Seq(RowStatus)
    /\ status \in {"none", "QUEUED", "RUNNING", "COMPLETED", "FAILED"}
    /\ at \in Ats
    /\ exec \in 0 .. MaxExecs /\ (at = "idle" => exec = 0)
    /\ exec = 0 => at \in {"idle", "givenUp"}
    /\ stray \subseteq Nat
    /\ conn \in Before \cup {"attached", "ended"}
    /\ conn = "snapshotted" => snap.rows \in Seq(RowStatus)
    /\ wire \in Seq(Message) /\ sent \in Seq(Message) /\ early \subseteq Message

CurrentRow ==
    /\ at \in InStep => rows # <<>>
    /\ at \in {"created", "stream", "streamed"} => rows[Len(rows)] = "RUNNING"
    /\ at = "saved" => rows[Len(rows)] = "COMPLETED"

\* The channel carries a completion once, after its row was saved.
WireOnce ==
    \A i, j \in DOMAIN wire :
        wire[i][1] = "step_complete" /\ wire[i] = wire[j] => i = j
WirePublished == \A i \in DOMAIN wire : wire[i][1] = "step_complete" => Published(wire[i][2])

AllCompleted(S) == \A s \in S : s \in DOMAIN rows /\ rows[s] = "COMPLETED"

EarlySteps == {s \in Nat : Completion(s) \in early}

\* The snapshot is a past state of the rows, and not older than what was dropped
\* before it was read.
SnapAgrees ==
    conn = "snapshotted" =>
        /\ AllCompleted({s \in DOMAIN snap.rows : snap.rows[s] = "COMPLETED"})
        /\ exec <= 1 /\ snap.status = "COMPLETED" => AllCompleted(DOMAIN snap.rows)
        /\ \A s \in EarlySteps : s \in DOMAIN snap.rows /\ snap.rows[s] = "COMPLETED"

\* Every completion of an open response either is one its filter knows, or came
\* over the channel and will not come again.
SentOrReplayed ==
    /\ conn \in Before => sent = <<>>
    /\ conn = "attached" =>
         \A i \in DOMAIN sent :
             /\ sent[i] \notin Closing
             /\ sent[i][1] = "step_complete" /\ sent[i][2] \notin replayed =>
                  Published(sent[i][2]) /\ \A j \in DOMAIN wire : wire[j] # sent[i]

\* In the first execution a step that is not completed ends the loop.
FirstExecution ==
    exec <= 1 =>
        /\ at \in {"loop", "completed", "lookup"} \cup InStep =>
             \A s \in DOMAIN rows : s < Len(rows) => rows[s] = "COMPLETED"
        /\ at \in {"loop", "completed", "lookup"} => AllCompleted(DOMAIN rows)
        /\ at \in {"load", "loop"} \cup InStep => status = "RUNNING"
        /\ at \in {"idle", "fresh", "load"} => rows = <<>>
        /\ at = "idle" => status \in {"none", "QUEUED"}
        /\ at = "fresh" => status = "QUEUED"
        /\ status = "COMPLETED" => AllCompleted(DOMAIN rows)

SentCompleted ==
    exec <= 1 =>
        AllCompleted({sent[i][2] : i \in {k \in DOMAIN sent : sent[k][1] = "step_complete"}})

IInv ==
    /\ Types /\ CurrentRow
    /\ WireOnce /\ WirePublished
    /\ AllCompleted(EarlySteps) /\ SnapAgrees
    /\ SentOrReplayed /\ FirstExecution /\ SentCompleted
    /\ CompletedOnce /\ TerminalEventEnds /\ SnapshotCoversEarly

LEMMA InitIInv == Init => IInv
<1> SUFFICES ASSUME Init PROVE IInv
  OBVIOUS
<1>1. Types /\ CurrentRow /\ WireOnce /\ WirePublished
  BY StreamAssumption DEF Init, Types, Ats, Before, CurrentRow, InStep, WireOnce, WirePublished
<1>2. AllCompleted(EarlySteps) /\ SnapAgrees /\ SentOrReplayed
  BY DEF Init, AllCompleted, EarlySteps, SnapAgrees, SentOrReplayed
<1>3. FirstExecution /\ SentCompleted
  BY DEF Init, FirstExecution, SentCompleted, AllCompleted, InStep
<1>4. CompletedOnce /\ TerminalEventEnds /\ SnapshotCoversEarly
  BY DEF Init, CompletedOnce, TerminalEventEnds, SnapshotCoversEarly
<1> QED BY <1>1, <1>2, <1>3, <1>4 DEF IInv

-----------------------------------------------------------------------------
\* The steps of the run.

RunTypes ==
    /\ rows \in Seq(RowStatus)
    /\ status \in {"none", "QUEUED", "RUNNING", "COMPLETED", "FAILED"}
    /\ at \in Ats
    /\ exec \in 0 .. MaxExecs /\ (at = "idle" => exec = 0)
    /\ exec = 0 => at \in {"idle", "givenUp"}
    /\ stray \subseteq Nat

\* What any of them does to the rows: no step is taken back, and what may have
\* been published stays so.
Kept ==
    /\ DOMAIN rows \subseteq DOMAIN rows'
    /\ \A s \in DOMAIN rows : rows[s] = "COMPLETED" => rows'[s] = "COMPLETED"
    /\ \A s : Published(s) => Published(s)'
    /\ exec \in Int /\ exec' \in Int /\ exec <= exec'

\* A completion is published when its row is saved, and for the first time.
Publishes(m) ==
    /\ wire' = Append(wire, m)
    /\ m \in Message
    /\ m[1] = "step_complete" => Published(m[2])' /\ ~ Published(m[2])

RunMove ==
    /\ RunTypes' /\ CurrentRow' /\ FirstExecution'
    /\ Kept
    /\ UNCHANGED wire \/ \E m : Publishes(m)
    /\ UNCHANGED connection

LEMMA RunMoveKeepsIInv ==
  ASSUME IInv, RunMove
  PROVE  IInv'
<1>1. UNCHANGED <<conn, snap, replayed, early, sent>>
  BY DEF RunMove, connection
<1>2. Types'
  <2>1. wire' \in Seq(Message)
    <3>1. CASE UNCHANGED wire
      BY <3>1 DEF IInv, Types
    <3>2. CASE \E m : Publishes(m)
      BY <3>2, AppendProperties DEF IInv, Types, Publishes
    <3> QED BY <3>1, <3>2 DEF RunMove
  <2> QED BY <1>1, <2>1 DEF IInv, Types, RunMove, RunTypes
<1>3. WireOnce' /\ WirePublished'
  <2>1. CASE UNCHANGED wire
    BY <2>1 DEF IInv, WireOnce, WirePublished, RunMove, Kept
  <2>2. CASE \E m : Publishes(m)
    <3>1. PICK m : Publishes(m)
      BY <2>2
    <3> DEFINE n == Len(wire)
    <3>2. /\ n \in Nat /\ DOMAIN wire = 1 .. n /\ DOMAIN wire' = 1 .. n + 1
          /\ wire'[n + 1] = m /\ \A i \in 1 .. n : wire'[i] = wire[i]
      <4>1. wire \in Seq(Message) /\ m \in Message /\ wire' = Append(wire, m)
        BY <3>1 DEF IInv, Types, Publishes
      <4>2. wire' \in Seq(Message) /\ Len(wire') = n + 1
        BY <4>1, AppendProperties
      <4> QED BY <4>1, <4>2, AppendProperties, LenProperties
    <3> HIDE DEF n
    <3>3. WirePublished'
      <4> SUFFICES ASSUME NEW i \in DOMAIN wire', wire'[i][1] = "step_complete"
                   PROVE  Published(wire[i][2])'
        BY DEF WirePublished
      <4>1. CASE i \in 1 .. n
        <5>1. Published(wire[i][2])
          BY <3>2, <4>1 DEF IInv, WirePublished
        <5>2. \A step : wire'[i][2] = step /\ Published(step) => Published(wire[i][2])'
          BY DEF RunMove, Kept, Published
        <5> QED BY <3>2, <4>1, <5>1, <5>2
      <4>2. CASE i = n + 1
        BY <3>1, <3>2, <4>2 DEF Publishes, Published
      <4> QED BY <3>2, <4>1, <4>2
    <3>4. m[1] = "step_complete" => \A i \in 1 .. n : wire[i] # m
      BY <3>1, <3>2 DEF Publishes, IInv, WirePublished
    <3>5. WireOnce'
      BY <3>2, <3>4 DEF IInv, WireOnce
    <3> QED BY <3>3, <3>5
  <2> QED BY <2>1, <2>2 DEF RunMove
<1>4. AllCompleted(EarlySteps)' /\ SnapAgrees'
  BY <1>1 DEF IInv, AllCompleted, EarlySteps, SnapAgrees, RunMove, Kept
<1>5. SentOrReplayed'
  <2>1. conn' \in Before => sent' = <<>>
    BY <1>1 DEF IInv, SentOrReplayed
  <2>2. ASSUME conn' = "attached", NEW i \in DOMAIN sent
        PROVE  /\ sent[i] \notin Closing
               /\ sent[i][1] = "step_complete" /\ sent[i][2] \notin replayed =>
                    Published(sent[i][2])' /\ \A j \in DOMAIN wire' : wire'[j] # sent[i]
    <3>1. /\ sent[i] \notin Closing
          /\ sent[i][1] = "step_complete" /\ sent[i][2] \notin replayed =>
               Published(sent[i][2]) /\ \A j \in DOMAIN wire : wire[j] # sent[i]
      BY <1>1, <2>2 DEF IInv, SentOrReplayed
    <3>2. CASE UNCHANGED wire
      BY <1>1, <3>1, <3>2 DEF RunMove, Kept, Published
    <3>3. CASE \E m : Publishes(m)
      <4>1. PICK m : Publishes(m)
        BY <3>3
      <4>2. sent[i][1] = "step_complete" /\ Published(sent[i][2]) => sent[i] # m
        BY <4>1 DEF Publishes
      <4>3. \A j \in DOMAIN wire' : wire'[j] = m \/ (j \in DOMAIN wire /\ wire'[j] = wire[j])
        <5>1. wire \in Seq(Message) /\ m \in Message /\ wire' = Append(wire, m)
          BY <4>1 DEF IInv, Types, Publishes
        <5>2. DOMAIN wire' = 1 .. Len(wire) + 1 /\ DOMAIN wire = 1 .. Len(wire) /\ Len(wire) \in Nat
          BY <5>1, AppendProperties, LenProperties
        <5> QED BY <5>1, <5>2, AppendProperties
      <4> QED BY <1>1, <3>1, <4>2, <4>3 DEF RunMove, Kept, Published
    <3> QED BY <3>2, <3>3 DEF RunMove
  <2> QED BY <1>1, <2>1, <2>2 DEF SentOrReplayed
<1>6. SentCompleted'
  BY <1>1 DEF IInv, SentCompleted, AllCompleted, RunMove, Kept
<1>7. CompletedOnce' /\ TerminalEventEnds' /\ SnapshotCoversEarly'
  BY <1>1 DEF IInv, CompletedOnce, TerminalEventEnds, SnapshotCoversEarly
<1> QED BY <1>2, <1>3, <1>4, <1>5, <1>6, <1>7 DEF IInv, RunMove

\* The steps that leave the rows alone and publish nothing.
LEMMA SilentMoves ==
  ASSUME IInv,
         \/ Accept \/ Take \/ GiveUp \/ Mark \/ Load
         \/ CompleteRun \/ Lookup \/ FailRun \/ Reject \/ Crash
  PROVE  RunMove
<1>1. /\ UNCHANGED <<rows, connection, wire>>
      /\ at' = at \/ at' \notin InStep
  BY DEF Accept, Take, GiveUp, Mark, Load, CompleteRun, Lookup, FailRun, Reject, Crash,
         Fallen, Silent, InStep
<1>2. Types /\ CurrentRow /\ FirstExecution
  BY DEF IInv
<1>3. RunTypes'
  <2>1. CASE Accept
    BY <1>1, <1>2, <2>1, StreamAssumption DEF Accept, RunTypes, Types, Ats
  <2>2. CASE Take
    BY <1>1, <1>2, <2>2, StreamAssumption DEF Take, Untaken, RunTypes, Types, Ats
  <2>3. CASE Mark
    BY <1>1, <1>2, <2>3, StreamAssumption DEF Mark, RunTypes, Types, Ats
  <2>4. CASE CompleteRun
    BY <1>1, <1>2, <2>4, StreamAssumption DEF CompleteRun, RunTypes, Types, Ats
  <2>5. CASE Lookup
    BY <1>1, <1>2, <2>5, StreamAssumption DEF Lookup, RunTypes, Types, Ats
  <2>6. CASE FailRun
    BY <1>1, <1>2, <2>6, StreamAssumption DEF FailRun, RunTypes, Types, Ats
  <2>7. CASE Reject \/ Crash
    BY <1>1, <1>2, <2>7, StreamAssumption DEF Reject, Crash, Fallen, Untaken, RunTypes, Types, Ats
  <2>8. CASE GiveUp
    BY <1>1, <1>2, <2>8, StreamAssumption DEF GiveUp, Untaken, RunTypes, Types, Ats
  <2>9. CASE Load
    BY <1>1, <1>2, <2>9, StreamAssumption DEF Load, RunTypes, Types, Ats
  <2> QED BY <2>1, <2>2, <2>3, <2>4, <2>5, <2>6, <2>7, <2>8, <2>9
<1>4. exec \in Int /\ exec' \in Int /\ exec <= exec'
  BY <1>2 DEF Accept, Take, GiveUp, Mark, Load, CompleteRun, Lookup, FailRun, Reject, Crash, Types
<1>5. Kept
  BY <1>1, <1>4 DEF Kept, Published
<1>6. CurrentRow'
  BY <1>1, <1>2 DEF CurrentRow, InStep
<1>7. FirstExecution'
  <2>1. CASE Accept
    BY <1>1, <1>2, <2>1, StreamAssumption DEF Accept, FirstExecution, Types, AllCompleted, InStep
  <2>2. CASE Take
    BY <1>1, <1>2, <2>2, StreamAssumption DEF Take, Untaken, FirstExecution, Types, AllCompleted, InStep
  <2>3. CASE Mark
    BY <1>1, <1>2, <2>3, StreamAssumption DEF Mark, FirstExecution, Types, AllCompleted, InStep
  <2>4. CASE CompleteRun
    BY <1>1, <1>2, <2>4, StreamAssumption DEF CompleteRun, FirstExecution, Types, AllCompleted, InStep
  <2>5. CASE Lookup
    BY <1>1, <1>2, <2>5, StreamAssumption DEF Lookup, FirstExecution, Types, AllCompleted, InStep
  <2>6. CASE FailRun
    BY <1>1, <1>2, <2>6, StreamAssumption DEF FailRun, FirstExecution, Types, AllCompleted, InStep
  <2>7. CASE Reject \/ Crash
    BY <1>1, <1>2, <2>7, StreamAssumption DEF Reject, Crash, Fallen, Untaken, FirstExecution, Types, AllCompleted, InStep
  <2>8. CASE GiveUp
    BY <1>1, <1>2, <2>8, StreamAssumption DEF GiveUp, Untaken, FirstExecution, Types, AllCompleted, InStep
  <2>9. CASE Load
    BY <1>1, <1>2, <2>9, StreamAssumption DEF Load, FirstExecution, Types, AllCompleted, InStep
  <2> QED BY <2>1, <2>2, <2>3, <2>4, <2>5, <2>6, <2>7, <2>8, <2>9
<1> QED BY <1>1, <1>3, <1>5, <1>6, <1>7 DEF RunMove

LEMMA PublishMoves ==
  ASSUME IInv, NEW m \in Message, Publish(m), m[1] = "step_complete" => Published(m[2])' /\ ~ Published(m[2])
  PROVE  UNCHANGED wire \/ \E event : Publishes(event)
BY DEF Publish, Publishes

LEMMA CreateStepMoves ==
  ASSUME IInv, CreateStep
  PROVE  RunMove
<1> DEFINE n == Len(rows)
<1>1. /\ at = "loop" /\ at' = "created" /\ rows' = Append(rows, "RUNNING")
      /\ UNCHANGED <<status, exec, stray, connection, wire>>
  BY DEF CreateStep, Silent
<1>2. Types /\ FirstExecution
  BY DEF IInv
<1>3. /\ rows \in Seq(RowStatus) /\ n \in Nat /\ DOMAIN rows = 1 .. n
      /\ rows' \in Seq(RowStatus) /\ Len(rows') = n + 1 /\ DOMAIN rows' = 1 .. n + 1
      /\ rows'[n + 1] = "RUNNING" /\ \A s \in 1 .. n : rows'[s] = rows[s]
  <2>1. rows \in Seq(RowStatus) /\ "RUNNING" \in RowStatus
    BY <1>2 DEF Types, RowStatus
  <2>2. rows' \in Seq(RowStatus) /\ Len(rows') = n + 1
    BY <1>1, <2>1, AppendProperties
  <2> QED BY <1>1, <2>1, <2>2, AppendProperties, LenProperties
<1> HIDE DEF n
<1>4. RunTypes'
  BY <1>1, <1>2, <1>3 DEF RunTypes, Types, Ats
<1>5. Kept
  <2>1. \A s : Published(s) => Published(s)'
    BY <1>1, <1>3 DEF Published
  <2> QED BY <1>1, <1>2, <1>3, <2>1 DEF Kept, Types
<1>6. CurrentRow'
  BY <1>1, <1>3 DEF CurrentRow, InStep
<1>7. FirstExecution'
  BY <1>1, <1>2, <1>3 DEF FirstExecution, AllCompleted, InStep
<1> QED BY <1>1, <1>4, <1>5, <1>6, <1>7 DEF RunMove

LEMMA EndStepMoves ==
  ASSUME IInv, SaveStep \/ FailStep
  PROVE  RunMove
<1> DEFINE n == Len(rows)
<1>1. PICK result \in {"COMPLETED", "FAILED"} :
        /\ rows' = [rows EXCEPT ![n] = result]
        /\ at' = (IF result = "COMPLETED" THEN "saved" ELSE "failing")
  BY DEF SaveStep, FailStep, current
<1>2. /\ at \in {"stream", "streamed"}
      /\ UNCHANGED <<status, exec, connection, wire>>
  BY DEF SaveStep, FailStep, Silent
<1>3. Types /\ FirstExecution /\ CurrentRow
  BY DEF IInv
<1>4. n \in Nat /\ n # 0 /\ DOMAIN rows = 1 .. n /\ rows[n] = "RUNNING" /\ rows \in Seq(RowStatus)
  BY <1>2, <1>3 DEF CurrentRow, Types, InStep
<1>5. /\ rows' \in Seq(RowStatus) /\ Len(rows') = n /\ DOMAIN rows' = 1 .. n
      /\ rows'[n] = result /\ \A s \in 1 .. n : s # n => rows'[s] = rows[s]
  <2>1. result \in RowStatus
    BY DEF RowStatus
  <2>2. rows' \in Seq(RowStatus) /\ Len(rows') = n
    BY <1>1, <1>4, <2>1, ExceptSeq
  <2>3. DOMAIN rows' = 1 .. n
    BY <1>4, <2>2, LenProperties
  <2>4. \A s \in 1 .. n : rows'[s] = IF s = n THEN result ELSE rows[s]
    BY <1>1, <1>4
  <2>5. n \in 1 .. n
    BY <1>4
  <2> QED BY <2>2, <2>3, <2>4, <2>5
<1> HIDE DEF n
<1>6. RunTypes'
  <2>1. stray' \subseteq Nat
    BY <1>3, <1>4 DEF SaveStep, FailStep, current, Types, n
  <2> QED BY <1>1, <1>2, <1>3, <1>5, <2>1 DEF RunTypes, Types, Ats
<1>7. Kept
  <2>1. \A s : Published(s) => Published(s)'
    BY <1>1, <1>2, <1>4, <1>5 DEF Published, InStep
  <2> QED BY <1>2, <1>3, <1>4, <1>5, <2>1 DEF Kept, Types
<1>8. CurrentRow'
  BY <1>1, <1>4, <1>5 DEF CurrentRow, InStep
<1>9. FirstExecution'
  BY <1>1, <1>2, <1>3, <1>4, <1>5 DEF FirstExecution, AllCompleted, InStep
<1> QED BY <1>2, <1>6, <1>7, <1>8, <1>9 DEF RunMove

LEMMA EmissionMoves ==
  ASSUME IInv, Emission \/ StrayToken
  PROVE  RunMove
<1>1. /\ UNCHANGED <<rows, status, exec, connection>>
      /\ Types /\ CurrentRow /\ FirstExecution
  BY DEF Emission, StrayToken, Emit, IInv
<1>2. Len(rows) \in Nat /\ DOMAIN rows = 1 .. Len(rows) /\ (at \in InStep => Len(rows) # 0)
  BY <1>1 DEF Types, CurrentRow
<1>3. CASE Emit("created", <<"step_start", current>>, "stream")
           \/ Emit("stream", <<"token", current>>, "streamed")
           \/ Emit("completed", <<"run_complete", 0>>, "lookup")
           \/ Emit("failed", <<"run_error", 0>>, "over")
           \/ StrayToken
  <2>1. UNCHANGED stray \/ stray' \subseteq Nat
    BY <1>1, <1>3 DEF Emit, StrayToken, Types
  <2>2. \E m \in Message : Publish(m) /\ m[1] # "step_complete"
    <3>1. \A s \in Nat : <<"step_start", s>> \in Message /\ <<"token", s>> \in Message
      BY DEF Message, Kinds
    <3>2. <<"run_complete", 0>> \in Message /\ <<"run_error", 0>> \in Message
      BY DEF Message, Closing
    <3>3. \E m \in {<<"step_start", s>> : s \in Nat} \cup {<<"token", s>> : s \in Nat}
                    \cup {<<"run_complete", 0>>, <<"run_error", 0>>} : Publish(m)
      BY <1>1, <1>2, <1>3 DEF Emit, StrayToken, Types, current
    <3> QED BY <3>1, <3>2, <3>3
  <2>3. UNCHANGED wire \/ \E m : Publishes(m)
    BY <2>2, PublishMoves
  <2>4. RunTypes'
    BY <1>1, <1>3, <2>1 DEF RunTypes, Types, Emit, StrayToken, Ats
  <2>5. Kept
    <3>1. at' \in InStep => at \in InStep
      BY <1>3 DEF Emit, StrayToken, InStep
    <3> QED BY <1>1, <3>1 DEF Kept, Types, Published
  <2>6. CurrentRow'
    BY <1>1, <1>3 DEF CurrentRow, Emit, StrayToken, InStep
  <2>7. FirstExecution'
    BY <1>1, <1>3 DEF FirstExecution, AllCompleted, Emit, StrayToken, InStep
  <2> QED BY <1>1, <2>3, <2>4, <2>5, <2>6, <2>7 DEF RunMove
<1>4. CASE Emit("saved", <<"step_complete", current>>, "loop")
  <2>1. at = "saved" /\ at' = "loop" /\ Publish(<<"step_complete", Len(rows)>>) /\ UNCHANGED stray
    BY <1>4 DEF Emit, current
  <2>2. ~ Published(Len(rows)) /\ Published(Len(rows))'
    BY <1>1, <1>2, <2>1 DEF Published, CurrentRow, InStep
  <2>3. <<"step_complete", Len(rows)>> \in Message
    BY <1>2 DEF Message, Kinds
  <2>4. UNCHANGED wire \/ \E m : Publishes(m)
    BY <1>1, <2>1, <2>2, <2>3, PublishMoves DEF Published
  <2>5. RunTypes'
    BY <1>1, <2>1 DEF RunTypes, Types, Ats
  <2>6. Kept
    BY <1>1, <2>1 DEF Kept, Types, Published, InStep
  <2>7. CurrentRow'
    BY <1>1, <2>1 DEF CurrentRow, InStep
  <2>8. FirstExecution'
    BY <1>1, <1>2, <2>1 DEF FirstExecution, AllCompleted, CurrentRow, InStep
  <2> QED BY <1>1, <2>4, <2>5, <2>6, <2>7, <2>8 DEF RunMove
<1> QED BY <1>3, <1>4 DEF Emission

LEMMA RunKeepsIInv ==
  ASSUME IInv, Execution \/ StrayToken \/ Reject \/ Crash
  PROVE  IInv'
<1>1. RunMove
  BY SilentMoves, CreateStepMoves, EndStepMoves, EmissionMoves DEF Execution
<1> QED BY <1>1, RunMoveKeepsIInv

-----------------------------------------------------------------------------
\* The steps of the connection.

LEMMA RunStandsStill ==
  ASSUME IInv, UNCHANGED run
  PROVE  /\ RunTypes' /\ CurrentRow' /\ FirstExecution'
         /\ \A s : Published(s)' <=> Published(s)
<1>1. UNCHANGED <<status, rows, exec, at, stray>>
  BY DEF run
<1> QED BY <1>1 DEF IInv, Types, RunTypes, CurrentRow, FirstExecution, AllCompleted, InStep, Published

\* The channel loses messages from its front, or all.
Shortened ==
    /\ wire' \in Seq(Message)
    /\ \/ UNCHANGED wire
       \/ wire' = <<>>
       \/ wire # <<>> /\ wire' = Tail(wire)

LEMMA ShortenedKeeps ==
  ASSUME IInv, UNCHANGED run, Shortened
  PROVE  /\ WireOnce' /\ WirePublished'
         /\ \A i \in DOMAIN wire' : \E j \in DOMAIN wire : wire'[i] = wire[j]
<1>1. \A s : Published(s)' <=> Published(s)
  BY RunStandsStill
<1>2. WireOnce /\ WirePublished /\ wire \in Seq(Message)
  BY DEF IInv, Types
<1>3. CASE UNCHANGED wire
  BY <1>1, <1>2, <1>3 DEF WireOnce, WirePublished, Published
<1>4. CASE wire' = <<>>
  BY <1>4 DEF WireOnce, WirePublished
<1>5. CASE wire # <<>> /\ wire' = Tail(wire)
  <2>1. /\ Len(wire) \in Nat \ {0} /\ DOMAIN wire = 1 .. Len(wire)
        /\ DOMAIN wire' = 1 .. Len(wire) - 1
        /\ \A i \in 1 .. Len(wire) - 1 : wire'[i] = wire[i + 1] /\ i + 1 \in DOMAIN wire
    BY <1>2, <1>5
  <2>2. WireOnce'
    BY <1>2, <2>1 DEF WireOnce
  <2>3. WirePublished'
    <3> SUFFICES ASSUME NEW i \in DOMAIN wire', wire'[i][1] = "step_complete"
                 PROVE  Published(wire[i][2])'
      BY DEF WirePublished
    <3>1. Published(wire[i + 1][2])
      BY <1>2, <2>1 DEF WirePublished
    <3>2. \A step : step = wire'[i][2] /\ Published(step) => Published(wire[i][2])'
      BY <1>1 DEF Published
    <3> QED BY <2>1, <3>1, <3>2
  <2> QED BY <2>1, <2>2, <2>3
<1> QED BY <1>3, <1>4, <1>5 DEF Shortened

\* The steps that neither write to the response nor open it.
LEMMA QuietKeepsIInv ==
  ASSUME IInv, UNCHANGED <<run, sent, early>>, Shortened,
         \/ conn' \in Before \ {"snapshotted"} /\ conn \in Before
         \/ conn' = "ended" /\ conn \in {"attached", "ended"}
         \/ conn' = conn /\ UNCHANGED <<snap, replayed>>
  PROVE  IInv'
<1>1. RunTypes' /\ CurrentRow' /\ FirstExecution' /\ \A s : Published(s)' <=> Published(s)
  BY RunStandsStill
<1>2. UNCHANGED <<status, rows, exec, at, sent, early>>
  BY DEF run
<1>3. WireOnce' /\ WirePublished' /\ \A i \in DOMAIN wire' : \E j \in DOMAIN wire : wire'[i] = wire[j]
  BY ShortenedKeeps
<1>4. Types'
  BY <1>1, <1>2 DEF IInv, Types, RunTypes, Shortened, Before
<1>5. AllCompleted(EarlySteps)' /\ SnapAgrees'
  BY <1>2 DEF IInv, AllCompleted, EarlySteps, SnapAgrees, Before
<1>6. SentOrReplayed'
  <2>1. CASE conn' = "attached"
    <3>1. conn = "attached" /\ UNCHANGED replayed
      BY <2>1 DEF Before
    <3> QED BY <1>1, <1>2, <1>3, <2>1, <3>1 DEF IInv, SentOrReplayed, Before, Published
  <2>2. CASE conn' # "attached"
    BY <1>2, <2>2 DEF IInv, SentOrReplayed, Before
  <2> QED BY <2>1, <2>2
<1>7. SentCompleted'
  BY <1>2 DEF IInv, SentCompleted, AllCompleted
<1>8. CompletedOnce' /\ TerminalEventEnds'
  <2>1. conn = "ended" => conn' = "ended"
    BY DEF Before
  <2> QED BY <1>2, <2>1 DEF IInv, CompletedOnce, TerminalEventEnds
<1>9. SnapshotCoversEarly'
  BY <1>2 DEF IInv, SnapshotCoversEarly, Before
<1> QED BY <1>1, <1>3, <1>4, <1>5, <1>6, <1>7, <1>8, <1>9 DEF IInv

LEMMA WaitingKeepsIInv ==
  ASSUME IInv, Subscribe \/ SnapshotFails \/ Disconnect
  PROVE  IInv'
<1>1. UNCHANGED <<run, sent, early, snap, replayed>>
  BY DEF Subscribe, SnapshotFails, Disconnect, Ongoing
<1>2. Shortened
  <2>1. UNCHANGED wire \/ wire' = <<>>
    BY DEF Subscribe, SnapshotFails, Disconnect
  <2>2. wire \in Seq(Message) /\ <<>> \in Seq(Message)
    BY DEF IInv, Types
  <2> QED BY <2>1, <2>2 DEF Shortened
<1>3. \/ conn' \in Before \ {"snapshotted"} /\ conn \in Before
      \/ conn' = "ended" /\ conn \in {"attached", "ended"}
      \/ conn' = conn
  BY DEF Subscribe, SnapshotFails, Disconnect, Before
<1> QED BY <1>1, <1>2, <1>3, QuietKeepsIInv

\* The rows of the snapshot are those of the run.
LEMMA ReadSnapshotKeepsIInv ==
  ASSUME IInv, ReadSnapshot
  PROVE  IInv'
<1>1. /\ UNCHANGED <<run, replayed, early, sent, wire>>
      /\ conn = "subscribed" /\ conn' = "snapshotted"
      /\ snap'.rows = rows /\ snap'.status = status
  BY DEF ReadSnapshot, Ongoing
<1>2. RunTypes' /\ CurrentRow' /\ FirstExecution' /\ \A s : Published(s)' <=> Published(s)
  BY <1>1, RunStandsStill
<1>3. UNCHANGED <<status, rows, exec, at>>
  BY <1>1 DEF run
<1>4. Types'
  BY <1>1, <1>2, <1>3 DEF IInv, Types, RunTypes, Before
<1>5. WireOnce' /\ WirePublished'
  BY <1>1, <1>2 DEF IInv, WireOnce, WirePublished, Published
<1>6. AllCompleted(EarlySteps)' /\ SnapAgrees'
  BY <1>1, <1>3 DEF IInv, AllCompleted, EarlySteps, SnapAgrees, FirstExecution
<1>7. SentOrReplayed' /\ SentCompleted'
  BY <1>1, <1>3 DEF IInv, SentOrReplayed, SentCompleted, AllCompleted, Before
<1>8. CompletedOnce' /\ TerminalEventEnds' /\ SnapshotCoversEarly'
  BY <1>1 DEF IInv, CompletedOnce, TerminalEventEnds, SnapshotCoversEarly
<1> QED BY <1>2, <1>4, <1>5, <1>6, <1>7, <1>8 DEF IInv

\* A dropped message leaves its mark in early or in late.
LEMMA DropKeepsIInv ==
  ASSUME IInv, Drop
  PROVE  IInv'
<1>1. /\ UNCHANGED <<run, conn, snap, replayed, sent>>
      /\ wire # <<>> /\ wire' = Tail(wire) /\ conn \in {"subscribed", "snapshotted"}
  BY DEF Drop, Ongoing
<1>2. wire \in Seq(Message) /\ Head(wire) = wire[1] /\ 1 \in DOMAIN wire /\ Head(wire) \in Message
  BY <1>1 DEF IInv, Types
<1>3. Shortened
  BY <1>1, <1>2 DEF Shortened
<1>4. CASE conn = "snapshotted"
  <2>1. UNCHANGED early
    BY <1>4 DEF Drop
  <2> QED BY <1>1, <1>3, <2>1, QuietKeepsIInv
<1>5. CASE conn = "subscribed"
  <2>1. early' = early \cup ({Head(wire)} \cap Milestone)
    BY <1>5 DEF Drop
  <2>2. RunTypes' /\ CurrentRow' /\ FirstExecution'
    BY <1>1, RunStandsStill
  <2>3. UNCHANGED <<status, rows, exec, at>>
    BY <1>1 DEF run
  <2>4. Types'
    BY <1>1, <1>2, <1>3, <2>1, <2>2 DEF IInv, Types, RunTypes, Shortened
  <2>5. WireOnce' /\ WirePublished'
    BY <1>1, <1>3, ShortenedKeeps
  <2>6. AllCompleted(EarlySteps)'
    <3> SUFFICES ASSUME NEW s \in Nat, Completion(s) \in early'
                 PROVE  s \in DOMAIN rows /\ rows[s] = "COMPLETED"
      BY <2>3 DEF AllCompleted, EarlySteps, Completion
    <3>1. CASE Completion(s) \in early
      BY <3>1 DEF IInv, AllCompleted, EarlySteps
    <3>2. CASE Completion(s) = wire[1]
      BY <1>2, <3>2 DEF IInv, WirePublished, Published, Completion
    <3> QED BY <1>2, <2>1, <3>1, <3>2
  <2>7. SnapAgrees' /\ SnapshotCoversEarly'
    BY <1>1, <1>5 DEF SnapAgrees, SnapshotCoversEarly
  <2>8. SentOrReplayed' /\ SentCompleted'
    BY <1>1, <1>5, <2>3 DEF IInv, SentOrReplayed, SentCompleted, AllCompleted, Before
  <2>9. CompletedOnce' /\ TerminalEventEnds'
    BY <1>1 DEF IInv, CompletedOnce, TerminalEventEnds
  <2> QED BY <2>2, <2>4, <2>5, <2>6, <2>7, <2>8, <2>9 DEF IInv
<1> QED BY <1>1, <1>4, <1>5

-----------------------------------------------------------------------------
\* The steps that write to the response.

\* What both replays send.
LEMMA ReplayFacts ==
  ASSUME IInv, conn = "snapshotted"
  PROVE  /\ Replay(snap) \in Seq(Message) /\ Replay(snap) \in Seq(Kinds \X Nat)
         /\ \A i \in DOMAIN Replay(snap) :
              /\ Replay(snap)[i] \notin Closing
              /\ Replay(snap)[i][1] = "step_complete" =>
                   /\ Replay(snap)[i][2] \in DOMAIN snap.rows
                   /\ Finished(snap, Replay(snap)[i][2])
         /\ \A i, j \in DOMAIN Replay(snap) :
              Replay(snap)[i][1] = "step_complete" /\ Replay(snap)[i] = Replay(snap)[j] => i = j
         /\ \A s \in DOMAIN snap.rows :
              Finished(snap, s) => \E i \in DOMAIN Replay(snap) : Replay(snap)[i] = Completion(s)
<1> DEFINE n == Len(snap.rows)
           events == Replay(snap)
<1>1. snap.rows \in Seq(RowStatus) /\ n \in Nat /\ DOMAIN snap.rows = 1 .. n
  BY DEF IInv, Types
<1>2. Replays(snap, n, events)
  BY <1>1, ReplayReplays
<1> HIDE DEF events, n
<1>3. events \in Seq(Kinds \X (1 .. n))
  BY <1>2 DEF Replays
<1>4. events \in Seq(Message) /\ events \in Seq(Kinds \X Nat)
  <2>1. Kinds \X (1 .. n) \subseteq Message /\ Kinds \X (1 .. n) \subseteq Kinds \X Nat
    BY <1>1 DEF Message
  <2> QED BY <1>3, <2>1, SeqMonotonic
<1>5. \A i \in DOMAIN events : events[i] \in Kinds \X (1 .. n)
  BY <1>3
<1>6. \A i \in DOMAIN events : events[i] \notin Closing
  BY <1>5 DEF Kinds, Closing
<1> QED BY <1>1, <1>2, <1>4, <1>5, <1>6 DEF Replays, events

LEMMA ReplayTerminalKeepsIInv ==
  ASSUME IInv, ReplayTerminal
  PROVE  IInv'
<1> DEFINE last == IF snap.status = "COMPLETED" THEN <<"run_complete", 0>> ELSE <<"run_error", 0>>
           events == Replay(snap)
           n == Len(events)
<1>1. /\ UNCHANGED <<run, replayed, early>>
      /\ conn = "snapshotted" /\ conn' = "ended" /\ wire' = <<>> /\ sent' = events \o <<last>>
  BY DEF ReplayTerminal, Ongoing
<1>2. /\ events \in Seq(Message) /\ n \in Nat /\ DOMAIN events = 1 .. n
      /\ last \in Closing /\ last \in Message /\ <<last>> \in Seq(Message)
  BY <1>1, ReplayFacts DEF Closing, Message
<1>3. /\ sent' \in Seq(Message) /\ Len(sent') = n + 1 /\ DOMAIN sent' = 1 .. n + 1
      /\ \A i \in 1 .. n : sent'[i] = events[i]
      /\ sent'[n + 1] = last
  <2> HIDE DEF events, last
  <2>1. Len(<<last>>) = 1 /\ <<last>>[1] = last
    OBVIOUS
  <2>2. sent' \in Seq(Message) /\ Len(sent') = n + 1
    BY <1>1, <1>2, <2>1, ConcatProperties
  <2>3. \A i \in 1 .. n + 1 : sent'[i] = IF i <= n THEN events[i] ELSE <<last>>[i - n]
    BY <1>1, <1>2, <2>1, ConcatProperties
  <2> QED BY <1>2, <2>1, <2>2, <2>3, LenProperties
<1>4. last[1] # "step_complete"
  BY DEF Closing
<1> HIDE DEF last, n
<1>5. RunTypes' /\ CurrentRow' /\ FirstExecution'
  BY <1>1, RunStandsStill
<1>6. UNCHANGED <<status, rows, exec, at>>
  BY <1>1 DEF run
<1>7. Types'
  BY <1>1, <1>3, <1>5 DEF IInv, Types, RunTypes, Before
<1>8. WireOnce' /\ WirePublished' /\ SnapAgrees' /\ SnapshotCoversEarly'
  BY <1>1 DEF WireOnce, WirePublished, SnapAgrees, SnapshotCoversEarly
<1>9. AllCompleted(EarlySteps)' /\ SentOrReplayed'
  BY <1>1, <1>6 DEF IInv, AllCompleted, EarlySteps, SentOrReplayed, Before
<1>10. SentCompleted'
  <2> SUFFICES ASSUME exec <= 1, NEW i \in DOMAIN sent', sent'[i][1] = "step_complete"
               PROVE  sent'[i][2] \in DOMAIN rows /\ rows[sent'[i][2]] = "COMPLETED"
    BY <1>6 DEF SentCompleted, AllCompleted
  <2>1. i \in 1 .. n /\ sent'[i] = events[i]
    BY <1>2, <1>3, <1>4
  <2>2. events[i][2] \in DOMAIN snap.rows /\ Finished(snap, events[i][2])
    BY <1>1, <1>2, <2>1, ReplayFacts
  <2> HIDE DEF events
  <2> QED BY <1>1, <2>1, <2>2 DEF IInv, SnapAgrees, AllCompleted, Finished
<1>11. CompletedOnce'
  <2> SUFFICES ASSUME NEW i \in DOMAIN sent', NEW j \in DOMAIN sent',
                      sent'[i][1] = "step_complete", sent'[i] = sent'[j]
               PROVE  i = j
    BY DEF CompletedOnce
  <2>1. i \in 1 .. n /\ j \in 1 .. n /\ events[i][1] = "step_complete" /\ events[i] = events[j]
    BY <1>2, <1>3, <1>4
  <2> QED BY <1>1, <1>2, <2>1, ReplayFacts
<1>12. TerminalEventEnds'
  <2> SUFFICES ASSUME NEW i \in DOMAIN sent', sent'[i] \in Closing
               PROVE  i = n + 1
    BY <1>1, <1>3 DEF TerminalEventEnds
  <2>1. i \in 1 .. n => events[i] \notin Closing
    BY <1>1, <1>2, ReplayFacts
  <2> QED BY <1>2, <1>3, <2>1
<1> QED BY <1>5, <1>7, <1>8, <1>9, <1>10, <1>11, <1>12 DEF IInv

LEMMA AttachKeepsIInv ==
  ASSUME IInv, Attach
  PROVE  IInv'
<1> DEFINE events == Replay(snap)
<1>1. /\ UNCHANGED <<run, early, wire>>
      /\ conn = "snapshotted" /\ conn' = "attached" /\ sent' = events
      /\ snap.status # "COMPLETED"
      /\ replayed' = {s \in DOMAIN snap.rows : snap.rows[s] = "COMPLETED"}
  BY DEF Attach, Ongoing
<1>2. /\ events \in Seq(Message)
      /\ \A i \in DOMAIN events :
           /\ events[i] \notin Closing
           /\ events[i][1] = "step_complete" => events[i][2] \in replayed'
      /\ \A i, j \in DOMAIN events : events[i][1] = "step_complete" /\ events[i] = events[j] => i = j
      /\ \A s \in replayed' : \E i \in DOMAIN events : events[i] = Completion(s)
  BY <1>1, ReplayFacts DEF Finished
<1> HIDE DEF events
<1>3. RunTypes' /\ CurrentRow' /\ FirstExecution' /\ \A s : Published(s)' <=> Published(s)
  BY <1>1, RunStandsStill
<1>4. UNCHANGED <<status, rows, exec, at>>
  BY <1>1 DEF run
<1>5. Types'
  BY <1>1, <1>2, <1>3, <1>4 DEF IInv, Types, RunTypes, Before
<1>6. WireOnce' /\ WirePublished'
  BY <1>1, <1>3 DEF IInv, WireOnce, WirePublished, Published
<1>7. AllCompleted(EarlySteps)' /\ SnapAgrees'
  BY <1>1, <1>4 DEF IInv, AllCompleted, EarlySteps, SnapAgrees
<1>8. SentOrReplayed'
  BY <1>1, <1>2 DEF SentOrReplayed, Before
<1>9. SentCompleted'
  BY <1>1, <1>2, <1>4 DEF IInv, SnapAgrees, SentCompleted, AllCompleted
<1>10. CompletedOnce' /\ TerminalEventEnds'
  BY <1>1, <1>2 DEF CompletedOnce, TerminalEventEnds
<1>11. SnapshotCoversEarly'
  <2> SUFFICES ASSUME NEW event \in early, event[1] = "step_complete"
               PROVE  \E i \in DOMAIN events : events[i] = event
    BY <1>1 DEF SnapshotCoversEarly
  <2>1. event \in Message
    BY DEF IInv, Types
  <2>2. event[2] \in Nat /\ event = Completion(event[2])
    BY <2>1 DEF Message, Closing, Completion
  <2>3. event[2] \in replayed'
    BY <1>1, <2>2 DEF IInv, SnapAgrees, EarlySteps
  <2> QED BY <1>2, <2>2, <2>3
<1> QED BY <1>3, <1>5, <1>6, <1>7, <1>8, <1>9, <1>10, <1>11 DEF IInv

LEMMA ForwardKeepsIInv ==
  ASSUME IInv, Forward
  PROVE  IInv'
<1> DEFINE m == Head(wire)
           n == Len(sent)
<1>1. /\ UNCHANGED <<run, snap, replayed, early>> /\ wire # <<>> /\ conn = "attached"
      /\ sent' = (IF m[2] \in replayed THEN sent ELSE Append(sent, m))
      /\ IF m \in Closing THEN conn' = "ended" /\ wire' = <<>>
         ELSE conn' = "attached" /\ wire' = Tail(wire)
  BY DEF Forward, Ongoing
<1>2. /\ wire \in Seq(Message) /\ m \in Message /\ m = wire[1] /\ 1 \in DOMAIN wire
      /\ sent \in Seq(Message) /\ n \in Nat /\ DOMAIN sent = 1 .. n
  BY <1>1 DEF IInv, Types
<1>3. Shortened
  <2>1. Tail(wire) \in Seq(Message) /\ <<>> \in Seq(Message)
    BY <1>1, <1>2
  <2> QED BY <1>1, <2>1 DEF Shortened
<1>4. WireOnce' /\ WirePublished' /\ \A i \in DOMAIN wire' : \E j \in DOMAIN wire : wire'[i] = wire[j]
  BY <1>1, <1>3, ShortenedKeeps
<1>5. RunTypes' /\ CurrentRow' /\ FirstExecution' /\ \A s : Published(s)' <=> Published(s)
  BY <1>1, RunStandsStill
<1>6. UNCHANGED <<status, rows, exec, at>>
  BY <1>1 DEF run
<1>7. m[1] = "step_complete" => /\ Published(m[2]) /\ m \notin Closing
                                /\ \A j \in DOMAIN wire' : wire'[j] # m
  <2> SUFFICES ASSUME m[1] = "step_complete" PROVE /\ Published(m[2]) /\ m \notin Closing
                                                  /\ \A j \in DOMAIN wire' : wire'[j] # m
    OBVIOUS
  <2>1. Published(m[2]) /\ m \notin Closing
    BY <1>2 DEF IInv, WirePublished, Closing
  <2>2. \A j \in DOMAIN wire' : wire'[j] = wire[j + 1] /\ j + 1 \in DOMAIN wire /\ j + 1 # 1
    BY <1>1, <1>2, <2>1
  <2> QED BY <1>2, <2>1, <2>2 DEF IInv, WireOnce
<1> HIDE DEF m, n
<1>8. CASE m[2] \in replayed
  <2>1. sent' = sent
    BY <1>1, <1>8
  <2>2. CASE m \in Closing
    BY <1>1, <1>3, <2>1, <2>2, QuietKeepsIInv
  <2>3. CASE m \notin Closing
    BY <1>1, <1>3, <2>1, <2>3, QuietKeepsIInv
  <2> QED BY <2>2, <2>3
<1>9. CASE m[2] \notin replayed
  <2>1. /\ sent' \in Seq(Message) /\ Len(sent') = n + 1 /\ DOMAIN sent' = 1 .. n + 1
        /\ \A i \in 1 .. n : sent'[i] = sent[i]
        /\ sent'[n + 1] = m
    <3>1. sent' = Append(sent, m)
      BY <1>1, <1>9
    <3>2. sent' \in Seq(Message) /\ Len(sent') = n + 1
      BY <1>2, <3>1, AppendProperties DEF n
    <3> QED BY <1>2, <3>1, <3>2, AppendProperties, LenProperties DEF n
  <2>2. Types'
    BY <1>1, <1>3, <1>5, <2>1 DEF IInv, Types, RunTypes, Shortened, Before
  <2>3. AllCompleted(EarlySteps)' /\ SnapAgrees'
    BY <1>1, <1>6 DEF IInv, AllCompleted, EarlySteps, SnapAgrees
  <2>4. \A i \in 1 .. n :
          /\ sent[i] \notin Closing
          /\ sent[i][1] = "step_complete" /\ sent[i][2] \notin replayed =>
               Published(sent[i][2]) /\ \A j \in DOMAIN wire : wire[j] # sent[i]
    BY <1>1, <1>2 DEF IInv, SentOrReplayed
  <2>5. SentOrReplayed'
    <3>1. ASSUME conn' = "attached", NEW i \in DOMAIN sent'
          PROVE  /\ sent'[i] \notin Closing
                 /\ sent'[i][1] = "step_complete" /\ sent'[i][2] \notin replayed' =>
                      Published(sent[i][2])' /\ \A j \in DOMAIN wire' : wire'[j] # sent'[i]
      <4>1. \A step : step = sent'[i][2] /\ Published(step) => Published(sent[i][2])'
        BY <1>5 DEF Published
      <4>2. CASE i \in 1 .. n
        BY <1>1, <1>4, <2>1, <2>4, <4>1, <4>2
      <4>3. CASE i = n + 1
        BY <1>1, <1>7, <2>1, <3>1, <4>1, <4>3
      <4> QED BY <1>2, <2>1, <4>2, <4>3
    <3>2. conn' \notin Before
      BY <1>1 DEF Before
    <3> QED BY <3>1, <3>2 DEF SentOrReplayed
  <2>6. SentCompleted'
    <3> SUFFICES ASSUME exec <= 1, NEW i \in DOMAIN sent', sent'[i][1] = "step_complete"
                 PROVE  sent'[i][2] \in DOMAIN rows /\ rows[sent'[i][2]] = "COMPLETED"
      BY <1>6 DEF SentCompleted, AllCompleted
    <3>1. CASE i \in 1 .. n
      BY <1>2, <2>1, <3>1 DEF IInv, SentCompleted, AllCompleted
    <3>2. CASE i = n + 1
      BY <1>7, <2>1, <3>2 DEF Published
    <3> QED BY <1>2, <2>1, <3>1, <3>2
  <2>7. CompletedOnce'
    <3>1. m[1] = "step_complete" => \A i \in 1 .. n : sent[i] # m
      BY <1>2, <1>9, <2>4
    <3> QED BY <1>2, <2>1, <3>1 DEF IInv, CompletedOnce
  <2>8. TerminalEventEnds'
    BY <1>1, <1>2, <2>1, <2>4 DEF TerminalEventEnds
  <2>9. SnapshotCoversEarly'
    BY <1>1, <1>2, <2>1 DEF IInv, SnapshotCoversEarly
  <2> QED BY <1>4, <1>5, <2>2, <2>3, <2>5, <2>6, <2>7, <2>8, <2>9 DEF IInv
<1> QED BY <1>8, <1>9

LEMMA NextKeepsIInv == IInv /\ [Next]_vars => IInv'
<1> SUFFICES ASSUME IInv, [Next]_vars PROVE IInv'
  OBVIOUS
<1>1. CASE Execution \/ StrayToken \/ Reject \/ Crash
  BY <1>1, RunKeepsIInv
<1>2. CASE Subscribe \/ SnapshotFails \/ Disconnect
  BY <1>2, WaitingKeepsIInv
<1>3. CASE ReadSnapshot
  BY <1>3, ReadSnapshotKeepsIInv
<1>4. CASE Drop
  BY <1>4, DropKeepsIInv
<1>5. CASE ReplayTerminal \/ Attach \/ Forward
  BY <1>5, ReplayTerminalKeepsIInv, AttachKeepsIInv, ForwardKeepsIInv
<1>6. CASE UNCHANGED vars
  <2>1. UNCHANGED <<run, sent, early, conn, snap, replayed, wire>>
    BY <1>6 DEF vars, connection
  <2>2. Shortened
    BY <2>1 DEF Shortened, IInv, Types
  <2> QED BY <2>1, <2>2, QuietKeepsIInv
<1> QED BY <1>1, <1>2, <1>3, <1>4, <1>5, <1>6 DEF Next

LEMMA AlwaysIInv == Spec => []IInv
BY InitIInv, NextKeepsIInv, PTL DEF Spec

-----------------------------------------------------------------------------

\* However the replay and the channel race, no step is reported complete twice:
\* a completion is published once, and the filter knows those that were replayed.
THEOREM StreamCompletesOnce == Spec => []CompletedOnce
<1>1. IInv => CompletedOnce
  BY DEF IInv
<1> QED BY <1>1, AlwaysIInv, PTL

\* Nothing follows the terminal event of a response, whatever is published.
THEOREM StreamEndsWithTerminalEvent == Spec => []TerminalEventEnds
<1>1. IInv => TerminalEventEnds
  BY DEF IInv
<1> QED BY <1>1, AlwaysIInv, PTL

\* In the first execution of a run a reported completion is a saved row.
THEOREM StreamIsTruthful == Spec => []TruthfulCompletion
<1>1. IInv => TruthfulCompletion
  BY DEF IInv, SentCompleted, AllCompleted, TruthfulCompletion
<1> QED BY <1>1, AlwaysIInv, PTL

\* What the subscriber dropped before the snapshot was read, the replay brings.
THEOREM SnapshotCoversDropped == Spec => []SnapshotCoversEarly
<1>1. IInv => SnapshotCoversEarly
  BY DEF IInv
<1> QED BY <1>1, AlwaysIInv, PTL

-----------------------------------------------------------------------------
\* The publisher a stream follows implements RunRecord.

Phases == [e \in 1 .. MaxExecs |-> Phase(e)]

LEMMA RecordInitially == Init => Record!RecordInit
  BY StreamAssumption DEF Init, Record!RecordInit, Phase

\* A step of the connection leaves the row and the phases alone.
LEMMA ConnectionStutters ==
  ASSUME UNCHANGED run
  PROVE  UNCHANGED <<status, Phases>>
BY DEF run, Phases, Phase

Now == IF at = "fresh" THEN "fresh" ELSE IF at \in Over THEN "over" ELSE "open"

\* Only the current execution is in a phase of its own.
PhasesAre ==
    \A e \in 1 .. MaxExecs :
        Phases[e] = IF e > exec THEN "unborn" ELSE IF e < exec THEN "over" ELSE Now

LEMMA PhasesOf ==
  ASSUME exec \in Nat, exec' \in Nat
  PROVE  PhasesAre /\ PhasesAre'
<1> USE StreamAssumption DEF Phase, Now, Over
<1>1. ASSUME NEW e \in 1 .. MaxExecs
      PROVE  Phase(e) = IF e > exec THEN "unborn" ELSE IF e < exec THEN "over" ELSE Now
  <2>1. CASE e > exec
    BY <2>1
  <2>2. CASE e < exec
    BY <2>2
  <2>3. CASE e = exec
    BY <2>3
  <2> QED BY <2>1, <2>2, <2>3
<1>2. ASSUME NEW e \in 1 .. MaxExecs
      PROVE  Phase(e)' = IF e > exec' THEN "unborn" ELSE IF e < exec' THEN "over" ELSE Now'
  <2>1. CASE e > exec'
    BY <2>1
  <2>2. CASE e < exec'
    BY <2>2
  <2>3. CASE e = exec'
    BY <2>3
  <2> QED BY <2>1, <2>2, <2>3
<1> QED BY <1>1, <1>2 DEF PhasesAre, Phases

\* A step of the current execution, or its beginning.
LEMMA RunStepsRecord ==
  ASSUME IInv, Execution \/ StrayToken \/ Reject \/ Crash
  PROVE  [Record!RecordNext]_<<status, Phases>>
<1>1. /\ at \in Ats /\ exec \in 0 .. MaxExecs /\ (at = "idle" => exec = 0)
      /\ (exec = 0 => at \in {"idle", "givenUp"})
      /\ MaxExecs \in Nat
  BY StreamAssumption DEF IInv, Types
<1>2. exec' \in 0 .. MaxExecs
  <2>1. IInv'
    BY RunKeepsIInv
  <2> QED BY <2>1 DEF IInv, Types
<1>3. PhasesAre /\ PhasesAre'
  BY <1>1, <1>2, PhasesOf
<1>4. /\ DOMAIN Phases = 1 .. MaxExecs /\ DOMAIN Phases' = 1 .. MaxExecs
      /\ Phases = [e \in 1 .. MaxExecs |-> Phases[e]] /\ Phases' = [e \in 1 .. MaxExecs |-> Phases'[e]]
  BY DEF Phases
<1> DEFINE Moves(e, p) == Phases' = [Phases EXCEPT ![e] = p]
<1>5. CASE Accept
  <2>1. status = "none" /\ status' = "QUEUED" /\ UNCHANGED <<exec, at>>
    BY <1>5 DEF Accept
  <2>2. Phases' = Phases
    BY <2>1 DEF Phases, Phase
  <2> QED BY <2>1, <2>2 DEF Record!RecordNext, Record!Accept, Phases
<1>6. CASE Take
  <2>1. /\ exec + 1 \in 1 .. MaxExecs /\ exec' = exec + 1 /\ at' = "fresh"
        /\ status # "none" /\ status' = status /\ at \in Untaken
    BY <1>1, <1>6 DEF Take, Untaken
  <2>2. \A e \in 1 .. MaxExecs : Phases[e] = IF e > exec THEN "unborn" ELSE "over"
    BY <1>1, <1>3, <2>1 DEF PhasesAre, Now, Untaken, Over
  <2>3. Moves(exec + 1, "fresh")
    <3>1. \A e \in 1 .. MaxExecs :
            Phases'[e] = IF e = exec + 1 THEN "fresh" ELSE Phases[e]
      BY <1>1, <1>3, <2>1, <2>2 DEF PhasesAre, Now
    <3> QED BY <1>4, <3>1
  <2> HIDE DEF Moves
  <2>4. Record!Take(exec + 1)
    BY <1>1, <2>1, <2>2, <2>3 DEF Moves, Record!Take, Record!MoveTo, Record!Writing, Phases
  <2> QED BY <2>1, <2>4 DEF Record!RecordNext
<1>7. CASE GiveUp
  <2>1. /\ exec' = exec /\ status' = status /\ at \in Untaken /\ at' \in Over
    BY <1>7 DEF GiveUp, Over
  <2>2. \A e \in 1 .. MaxExecs : Phases'[e] = Phases[e]
    <3>1. exec = 0 \/ (Now = "over" /\ Now' = "over")
      BY <1>1, <2>1 DEF Now, Untaken, Over
    <3> QED BY <1>1, <1>3, <2>1, <3>1 DEF PhasesAre
  <2>3. Phases' = Phases
    BY <1>4, <2>2
  <2> QED BY <2>1, <2>3
<1>8. CASE ~ Accept /\ ~ Take /\ ~ GiveUp
  <2>1. exec' = exec /\ (UNCHANGED <<at, status>> \/ exec \in 1 .. MaxExecs)
    <3>1. exec' = exec
      BY <1>8 DEF Execution, Emission, Emit, Mark, Load, CreateStep, SaveStep, FailStep, CompleteRun,
         Lookup, FailRun, StrayToken, Reject, Crash
    <3>2. CASE StrayToken
      BY <3>1, <3>2 DEF StrayToken
    <3>3. CASE ~ StrayToken
      <4>1. at \notin {"idle", "givenUp"}
        BY <1>8, <3>3 DEF Execution, Emission, Emit, Mark, CreateStep, SaveStep, FailStep,
           Load, CompleteRun, Lookup, FailRun, Reject, Crash, Untaken
      <4> QED BY <1>1, <3>1, <4>1
    <3> QED BY <3>2, <3>3
  <2>2. CASE UNCHANGED <<at, status>>
    BY <2>1, <2>2 DEF Phases, Phase
  <2>3. CASE exec \in 1 .. MaxExecs
    <3>1. Phases[exec] = Now /\ Moves(exec, Now')
      <4>1. \A e \in 1 .. MaxExecs : Phases'[e] = IF e = exec THEN Now' ELSE Phases[e]
        BY <1>1, <1>3, <2>1, <2>3 DEF PhasesAre
      <4>2. Moves(exec, Now')
        BY <1>4, <4>1
      <4> QED BY <1>1, <1>3, <2>3, <4>2 DEF PhasesAre
    <3>2. Now' = Now => Phases' = Phases
      BY <1>4, <3>1
    <3> HIDE DEF Moves
    <3>3. CASE Mark
      <4>1. Now = "fresh" /\ Now' = "open" /\ status' = "RUNNING"
        BY <3>3 DEF Mark, Now, Over
      <4>2. Record!Mark(exec)
        BY <3>1, <4>1 DEF Moves, Record!Mark, Record!MoveTo, Phases
      <4> QED BY <2>3, <4>2 DEF Record!RecordNext
    <3>4. CASE CompleteRun
      <4>1. Now = "open" /\ Now' = "open" /\ status' = "COMPLETED"
        BY <3>4 DEF CompleteRun, Now, Over
      <4>2. Record!Succeed(exec)
        BY <3>1, <4>1 DEF Moves, Record!Succeed, Record!MoveTo, Phases
      <4> QED BY <2>3, <4>2 DEF Record!RecordNext
    <3>5. CASE FailRun
      <4>1. Now = "open" /\ Now' = "over" /\ status' = "FAILED"
        BY <3>5 DEF FailRun, Now, Over
      <4>2. Record!Fail(exec)
        BY <3>1, <4>1 DEF Moves, Record!Fail, Record!MoveTo, Phases
      <4> QED BY <2>3, <4>2 DEF Record!RecordNext
    <3>6. CASE (Lookup \/ Reject \/ Crash) /\ Now' # Now
      <4>1. Now \in {"fresh", "open"} /\ Now' = "over" /\ status' = status
        BY <3>6 DEF Lookup, Reject, Crash, Fallen, Now, Over
      <4>2. Record!Leave(exec)
        BY <3>1, <4>1 DEF Moves, Record!Leave, Record!MoveTo, Record!Writing, Phases
      <4> QED BY <2>3, <4>2 DEF Record!RecordNext
    <3>7. CASE \/ (Lookup \/ Reject \/ Crash) /\ Now' = Now
               \/ Load \/ CreateStep \/ SaveStep \/ FailStep \/ Emission \/ StrayToken
      <4>1. Now' = Now /\ status' = status
        BY <3>7 DEF Lookup, Reject, Crash, Load, CreateStep, SaveStep, FailStep, Emission, Emit,
           StrayToken, Now, Over
      <4> QED BY <3>2, <4>1
    <3> QED BY <1>8, <3>3, <3>4, <3>5, <3>6, <3>7 DEF Execution
  <2> QED BY <2>1, <2>2, <2>3
<1> QED BY <1>5, <1>6, <1>7, <1>8

LEMMA StepsRecord == IInv /\ [Next]_vars => [Record!RecordNext]_<<status, Phases>>
<1> SUFFICES ASSUME IInv, [Next]_vars PROVE [Record!RecordNext]_<<status, Phases>>
  OBVIOUS
<1>1. CASE Execution \/ StrayToken \/ Reject \/ Crash
  BY <1>1, RunStepsRecord
<1>2. CASE \/ Subscribe \/ ReadSnapshot \/ SnapshotFails \/ ReplayTerminal \/ Attach
           \/ Drop \/ Forward \/ Disconnect \/ UNCHANGED vars
  <2>1. UNCHANGED run
    BY <1>2 DEF Subscribe, ReadSnapshot, SnapshotFails, ReplayTerminal, Attach, Drop, Forward,
       Disconnect, Ongoing, vars
  <2> QED BY <2>1, ConnectionStutters
<1> QED BY <1>1, <1>2 DEF Next

\* The row of the run that a stream follows is written as RunRecord promises,
\* by executions that do not overlap.
THEOREM StreamedRunImplementsRecord == Spec => FollowsRecord
<1>1. IInv /\ [Next]_vars => [Record!RecordNext]_<<status, [e \in 1 .. MaxExecs |-> Phase(e)]>>
  BY StepsRecord DEF Phases
<1>2. Spec => [][Record!RecordNext]_<<status, [e \in 1 .. MaxExecs |-> Phase(e)]>>
  BY <1>1, AlwaysIInv, PTL DEF Spec
<1> QED
  BY <1>2, RecordInitially, PTL DEF Spec, FollowsRecord, Record!RecordSpec
==============================================================================
