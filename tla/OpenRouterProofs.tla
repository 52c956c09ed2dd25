-------------------------- MODULE OpenRouterProofs ---------------------------
(***************************************************************************)
(* What OpenRouter promises for any set of streams and of answers, and for *)
(* any way the network cuts them.                                          *)
(***************************************************************************)
EXTENDS OpenRouter, SequenceTheorems, WellFoundedInduction, NaturalsInduction, TLAPS

-----------------------------------------------------------------------------
\* Induction over an interval, from the well-foundedness of < on Nat: the
\* theorems of the library that take a predicate cannot be instantiated here.

LEMMA LeastNumber ==
  ASSUME NEW T, T \subseteq Nat, T # {}
  PROVE  \E n \in T : \A m \in T : n <= m
<1> DEFINE R == {ss \in Nat \X Nat : ss[1] < ss[2]}
<1>1. IsWellFoundedOn(R, Nat)
  BY NatLessThanWellFounded DEF OpToRel
<1> HIDE DEF R
<1>2. \E x \in T : \A y \in T : ~ (<<y, x>> \in R)
  BY <1>1, WFMin
<1>3. \A x, y \in Nat : <<y, x>> \notin R => x <= y
  BY DEF R
<1> QED BY <1>2, <1>3

LEMMA UpTo ==
  ASSUME NEW n \in Nat, NEW S, 0 \in S, \A i \in 0 .. n - 1 : i \in S => i + 1 \in S
  PROVE  \A i \in 0 .. n : i \in S
<1> DEFINE T == {i \in 0 .. n : i \notin S}
<1> SUFFICES ASSUME T # {} PROVE FALSE
  OBVIOUS
<1>1. T \subseteq Nat
  OBVIOUS
<1>2. PICK i \in T : \A j \in T : i <= j
  <2> HIDE DEF T
  <2> QED BY <1>1, LeastNumber
<1>3. i - 1 \in 0 .. n - 1 /\ i - 1 \in S
  BY <1>2
<1> QED BY <1>2, <1>3

-----------------------------------------------------------------------------
\* FlattenSeq defines its result by a recursive function, which exists.

Flattened(f, seqs, n) ==
    f = [i \in 1 .. n |-> IF i = 1 THEN seqs[i] ELSE f[i - 1] \o seqs[i]]

LEMMA FlattenedExists ==
  ASSUME NEW seqs, NEW n \in Nat
  PROVE  \E f : Flattened(f, seqs, n)
<1> DEFINE S == {m \in Nat : \E f : Flattened(f, seqs, m)}
<1>1. 0 \in S
  <2>1. Flattened([i \in 1 .. 0 |-> <<>>], seqs, 0)
    BY DEF Flattened
  <2> QED BY <2>1
<1>2. ASSUME NEW m \in Nat, m \in S PROVE m + 1 \in S
  <2>1. PICK f : Flattened(f, seqs, m)
    BY <1>2
  <2> DEFINE g == [i \in 1 .. m + 1 |-> IF i <= m THEN f[i]
                     ELSE IF i = 1 THEN seqs[i] ELSE f[i - 1] \o seqs[i]]
  <2>2. \A i \in 1 .. m : f[i] = IF i = 1 THEN seqs[i] ELSE f[i - 1] \o seqs[i]
    BY <2>1 DEF Flattened
  <2>3. \A i \in 1 .. m + 1 : g[i] = IF i = 1 THEN seqs[i] ELSE g[i - 1] \o seqs[i]
    <3> SUFFICES ASSUME NEW i \in 1 .. m + 1
                 PROVE  g[i] = IF i = 1 THEN seqs[i] ELSE g[i - 1] \o seqs[i]
      OBVIOUS
    <3>1. i # 1 => g[i - 1] = f[i - 1]
      OBVIOUS
    <3>2. CASE i <= m
      BY <3>1, <3>2, <2>2
    <3>3. CASE i = m + 1
      BY <3>1, <3>3
    <3> QED BY <3>2, <3>3
  <2>4. Flattened(g, seqs, m + 1)
    <3> HIDE DEF g
    <3> QED BY <2>3 DEF Flattened, g
  <2> HIDE DEF g
  <2> QED BY <2>4
<1>3. \A i \in 0 .. n : i \in S
  <2> HIDE DEF S
  <2> QED BY <1>1, <1>2, UpTo
<1> QED BY <1>3

LEMMA FlattenSeqIs ==
  ASSUME NEW seqs, NEW n \in Nat, n # 0, Len(seqs) = n
  PROVE  \E f : Flattened(f, seqs, n) /\ FlattenSeq(seqs) = f[n]
<1> DEFINE f == CHOOSE f : f = [i \in 1 .. n |->
                                  IF i = 1 THEN seqs[i] ELSE f[i - 1] \o seqs[i]]
<1>1. \E g : g = [i \in 1 .. n |-> IF i = 1 THEN seqs[i] ELSE g[i - 1] \o seqs[i]]
  BY FlattenedExists DEF Flattened
<1>2. Flattened(f, seqs, n)
  BY <1>1, Zenon DEF Flattened
<1>3. FlattenSeq(seqs) = f[n]
  BY Zenon DEF FlattenSeq
<1> QED BY <1>2, <1>3

-----------------------------------------------------------------------------
\* FlattenSeq and concatenation.

\* What FlattenSeq has put together after each of the sequences.
Progress(F, seqs, E) ==
    /\ F \in [0 .. Len(seqs) -> Seq(E)]
    /\ F[0] = <<>>
    /\ \A i \in 1 .. Len(seqs) : F[i] = F[i - 1] \o seqs[i]

LEMMA FlattenProgresses ==
  ASSUME NEW E, NEW seqs \in Seq(Seq(E))
  PROVE  \E F : Progress(F, seqs, E) /\ FlattenSeq(seqs) = F[Len(seqs)]
<1> DEFINE n == Len(seqs)
<1>1. n \in Nat /\ \A i \in 1 .. n : seqs[i] \in Seq(E)
  BY LenProperties, ElementOfSeq
<1>2. CASE n = 0
  <2>1. seqs = <<>> /\ FlattenSeq(seqs) = seqs
    BY <1>2, EmptySeq DEF FlattenSeq
  <2>2. Progress([i \in 0 .. 0 |-> <<>>], seqs, E)
    BY <1>2, EmptySeq DEF Progress
  <2>3. [i \in 0 .. 0 |-> <<>>][0] = <<>>
    OBVIOUS
  <2> QED BY <1>2, <2>1, <2>2, <2>3
<1>3. CASE n # 0
  <2>1. PICK f : Flattened(f, seqs, n) /\ FlattenSeq(seqs) = f[n]
    BY <1>1, <1>3, FlattenSeqIs
  <2> HIDE DEF n
  <2>2. \A i \in 1 .. n : f[i] = IF i = 1 THEN seqs[i] ELSE f[i - 1] \o seqs[i]
    BY <2>1 DEF Flattened
  <2> DEFINE F == [i \in 0 .. n |-> IF i = 0 THEN <<>> ELSE f[i]]
             S == {i \in 0 .. n : F[i] \in Seq(E)}
  <2>3. \A i \in 1 .. n : F[i] = F[i - 1] \o seqs[i]
    <3> SUFFICES ASSUME NEW i \in 1 .. n PROVE F[i] = F[i - 1] \o seqs[i]
      OBVIOUS
    <3>1. F[i] = f[i] /\ F[i - 1] = IF i = 1 THEN <<>> ELSE f[i - 1]
      BY <1>1
    <3>2. CASE i = 1
      <4>1. f[1] = seqs[1] /\ seqs[1] \in Seq(E)
        BY <1>1, <2>2, <3>2
      <4>2. <<>> \o seqs[1] = seqs[1]
        BY <4>1, ConcatEmptySeq
      <4> QED BY <3>1, <3>2, <4>1, <4>2
    <3>3. CASE i # 1
      BY <2>2, <3>1, <3>3
    <3> QED BY <3>2, <3>3
  <2>4. F[0] = <<>> /\ DOMAIN F = 0 .. n
    BY <1>1
  <2>5. F[n] = f[n]
    BY <1>1, <1>3
  <2>6. F = [i \in 0 .. n |-> F[i]]
    OBVIOUS
  <2> HIDE DEF F
  <2>7. 0 \in S
    <3>1. 0 \in 0 .. n
      BY <1>1
    <3>2. F[0] \in Seq(E)
      BY <2>4, EmptySeq
    <3> QED BY <3>1, <3>2
  <2>8. ASSUME NEW i \in 0 .. n - 1, i \in S PROVE i + 1 \in S
    <3>1. F[i + 1] = F[i] \o seqs[i + 1] /\ i + 1 \in 1 .. n
      <4>1. i + 1 \in 1 .. n /\ (i + 1) - 1 = i
        BY <1>1
      <4> QED BY <2>3, <4>1
    <3>2. F[i] \in Seq(E) /\ seqs[i + 1] \in Seq(E)
      BY <1>1, <2>8, <3>1
    <3>3. F[i + 1] \in Seq(E)
      BY <3>1, <3>2, ConcatProperties
    <3>4. i + 1 \in 0 .. n
      BY <3>1
    <3> QED BY <3>3, <3>4
  <2> HIDE DEF S
  <2>9. \A i \in 0 .. n : i \in S
    BY <1>1, <2>7, <2>8, UpTo
  <2>10. F \in [0 .. n -> Seq(E)]
    BY <2>6, <2>9 DEF S
  <2>11. Progress(F, seqs, E)
    BY <2>3, <2>4, <2>10 DEF Progress, n
  <2> QED BY <2>1, <2>5, <2>11 DEF n
<1> QED BY <1>2, <1>3

LEMMA FlattenConcat ==
  ASSUME NEW E, NEW s \in Seq(Seq(E)), NEW t \in Seq(Seq(E))
  PROVE  FlattenSeq(s \o t) = FlattenSeq(s) \o FlattenSeq(t)
<1>0. ASSUME NEW x \in Seq(E), NEW y \in Seq(E), NEW z \in Seq(E)
      PROVE  (x \o y) \o z = x \o (y \o z)
  BY SMTT(60)
<1>1. /\ s \o t \in Seq(Seq(E))
      /\ Len(s \o t) = Len(s) + Len(t) /\ Len(s) \in Nat /\ Len(t) \in Nat
      /\ \A i \in 1 .. Len(s) : s[i] \in Seq(E) /\ (s \o t)[i] = s[i]
      /\ \A i \in 1 .. Len(t) : t[i] \in Seq(E) /\ (s \o t)[Len(s) + i] = t[i]
  <2>1. /\ s \o t \in Seq(Seq(E))
        /\ Len(s \o t) = Len(s) + Len(t) /\ Len(s) \in Nat /\ Len(t) \in Nat
        /\ \A i \in 1 .. Len(s) + Len(t) :
              (s \o t)[i] = IF i <= Len(s) THEN s[i] ELSE t[i - Len(s)]
    BY ConcatProperties, LenProperties
  <2>2. \A i \in 1 .. Len(t) : Len(s) + i \in 1 .. Len(s) + Len(t) /\ ~ (Len(s) + i <= Len(s))
                                /\ (Len(s) + i) - Len(s) = i
    BY <2>1
  <2>3. \A i \in 1 .. Len(s) : i \in 1 .. Len(s) + Len(t) /\ i <= Len(s)
    BY <2>1
  <2> QED BY <2>1, <2>2, <2>3, ElementOfSeq
<1>2. PICK F : Progress(F, s, E) /\ FlattenSeq(s) = F[Len(s)]
  BY FlattenProgresses
<1>3. PICK G : Progress(G, t, E) /\ FlattenSeq(t) = G[Len(t)]
  BY FlattenProgresses
<1>4. PICK H : Progress(H, s \o t, E) /\ FlattenSeq(s \o t) = H[Len(s) + Len(t)]
  BY <1>1, FlattenProgresses
<1>5. \A i \in 0 .. Len(s) : i \in {k \in 0 .. Len(s) : H[k] = F[k]}
  <2> DEFINE S == {k \in 0 .. Len(s) : H[k] = F[k]}
  <2>1. 0 \in S
    BY <1>1, <1>2, <1>4 DEF Progress
  <2>2. ASSUME NEW i \in 0 .. Len(s) - 1, i \in S PROVE i + 1 \in S
    <3>1. i + 1 \in 1 .. Len(s) /\ i + 1 \in 1 .. Len(s) + Len(t) /\ (i + 1) - 1 = i
      BY <1>1
    <3>2. F[i + 1] = F[i] \o s[i + 1]
      BY <1>2, <3>1 DEF Progress
    <3>3. H[i + 1] = H[i] \o s[i + 1]
      BY <1>1, <1>4, <3>1 DEF Progress
    <3>4. H[i + 1] = F[i + 1]
      BY <2>2, <3>2, <3>3
    <3>5. i + 1 \in 0 .. Len(s)
      BY <3>1
    <3> QED BY <3>4, <3>5
  <2> HIDE DEF S
  <2>3. \A i \in 0 .. Len(s) : i \in S
    BY <1>1, <2>1, <2>2, UpTo
  <2> QED BY <2>3 DEF S
<1>6. \A i \in 0 .. Len(t) : i \in {k \in 0 .. Len(t) : H[Len(s) + k] = F[Len(s)] \o G[k]}
  <2> DEFINE S == {k \in 0 .. Len(t) : H[Len(s) + k] = F[Len(s)] \o G[k]}
  <2>1. F[Len(s)] \in Seq(E) /\ \A i \in 0 .. Len(t) : G[i] \in Seq(E)
    <3>1. Len(s) \in 0 .. Len(s)
      BY <1>1
    <3>2. F \in [0 .. Len(s) -> Seq(E)] /\ G \in [0 .. Len(t) -> Seq(E)]
      BY <1>2, <1>3 DEF Progress
    <3> QED BY <3>1, <3>2
  <2>2. 0 \in S
    <3>1. G[0] = <<>> /\ H[Len(s)] = F[Len(s)]
      BY <1>1, <1>3, <1>5 DEF Progress
    <3>2. F[Len(s)] \o <<>> = F[Len(s)]
      BY <2>1, ConcatEmptySeq
    <3>3. Len(s) + 0 = Len(s)
      BY <1>1
    <3>4. 0 \in 0 .. Len(t)
      BY <1>1
    <3>5. H[Len(s) + 0] = F[Len(s)] \o G[0]
      BY <3>1, <3>2, <3>3
    <3> QED BY <3>4, <3>5
  <2>3. ASSUME NEW i \in 0 .. Len(t) - 1, i \in S PROVE i + 1 \in S
    <3>1. /\ i \in 0 .. Len(t) /\ i + 1 \in 1 .. Len(t) /\ (i + 1) - 1 = i
          /\ Len(s) + (i + 1) \in 1 .. Len(s) + Len(t)
          /\ (Len(s) + (i + 1)) - 1 = Len(s) + i
      BY <1>1
    <3>2. G[i + 1] = G[i] \o t[i + 1]
      BY <1>3, <3>1 DEF Progress
    <3>3. H[Len(s) + (i + 1)] = H[Len(s) + i] \o t[i + 1]
      BY <1>1, <1>4, <3>1 DEF Progress
    <3>4. (F[Len(s)] \o G[i]) \o t[i + 1] = F[Len(s)] \o (G[i] \o t[i + 1])
      <4>1. F[Len(s)] \in Seq(E) /\ G[i] \in Seq(E) /\ t[i + 1] \in Seq(E)
        BY <1>1, <2>1, <3>1
      <4> QED BY <4>1, <1>0, Zenon
    <3>5. H[Len(s) + (i + 1)] = F[Len(s)] \o G[i + 1]
      <4>1. H[Len(s) + i] = F[Len(s)] \o G[i]
        BY <2>3
      <4> QED BY <3>2, <3>3, <3>4, <4>1
    <3>6. i + 1 \in 0 .. Len(t)
      BY <3>1
    <3> QED BY <3>5, <3>6
  <2> HIDE DEF S
  <2>4. \A i \in 0 .. Len(t) : i \in S
    BY <1>1, <2>2, <2>3, UpTo
  <2> QED BY <2>4 DEF S
<1>7. H[Len(s) + Len(t)] = F[Len(s)] \o G[Len(t)]
  <2>1. Len(t) \in 0 .. Len(t)
    BY <1>1
  <2> QED BY <1>6, <2>1
<1> QED BY <1>2, <1>3, <1>4, <1>7

-----------------------------------------------------------------------------
\* The operators on lines, of a text and of what follows it.

Spoken(lines) ==
    [i \in DOMAIN lines |->
        IF lines[i].content # NoContent THEN <<lines[i].content>> ELSE <<>>]

LEMMA SpokenIs ==
  ASSUME NEW L, NEW p \in Seq(L)
  PROVE  Spoken(p) \in Seq(Seq({l.content : l \in L})) /\ Len(Spoken(p)) = Len(p)
<1> DEFINE E == {l.content : l \in L}
<1>1. Len(p) \in Nat /\ DOMAIN p = 1 .. Len(p) /\ \A i \in 1 .. Len(p) : p[i] \in L
  BY LenProperties, ElementOfSeq
<1>2. \A i \in 1 .. Len(p) : p[i].content \in E
  BY <1>1
<1> HIDE DEF E
<1>3. \A i \in 1 .. Len(p) : Spoken(p)[i] \in Seq(E)
  <2> SUFFICES ASSUME NEW i \in 1 .. Len(p) PROVE Spoken(p)[i] \in Seq(E)
    OBVIOUS
  <2>1. <<p[i].content>> \in Seq(E) /\ <<>> \in Seq(E)
    BY <1>2
  <2> QED BY <1>1, <2>1 DEF Spoken
<1>4. Spoken(p) \in [1 .. Len(p) -> Seq(E)]
  BY <1>1, <1>3 DEF Spoken
<1> QED BY <1>1, <1>4 DEF E

\* The tokens of two texts are those of the first and then those of the second.
LEMMA ContentsConcat ==
  ASSUME NEW L, NEW p \in Seq(L), NEW q \in Seq(L)
  PROVE  Contents(p \o q) = Contents(p) \o Contents(q)
<1> DEFINE E == {l.content : l \in L}
<1>1. /\ Spoken(p) \in Seq(Seq(E)) /\ Len(Spoken(p)) = Len(p)
      /\ Spoken(q) \in Seq(Seq(E)) /\ Len(Spoken(q)) = Len(q)
  BY SpokenIs
<1>2. p \o q \in Seq(L) /\ Len(p \o q) = Len(p) + Len(q)
      /\ \A i \in 1 .. Len(p) + Len(q) : (p \o q)[i] = IF i <= Len(p) THEN p[i] ELSE q[i - Len(p)]
  BY ConcatProperties
<1>3. Spoken(p \o q) \in Seq(Seq(E)) /\ Len(Spoken(p \o q)) = Len(p) + Len(q)
  BY <1>2, SpokenIs
<1>4. Len(p) \in Nat /\ Len(q) \in Nat
      /\ DOMAIN p = 1 .. Len(p) /\ DOMAIN q = 1 .. Len(q)
      /\ DOMAIN (p \o q) = 1 .. Len(p) + Len(q)
  BY <1>2, LenProperties
<1> HIDE DEF E
<1>5. /\ Spoken(p) \o Spoken(q) \in Seq(Seq(E))
      /\ Len(Spoken(p) \o Spoken(q)) = Len(p) + Len(q)
      /\ \A i \in 1 .. Len(p) + Len(q) : (Spoken(p) \o Spoken(q))[i] =
            IF i <= Len(p) THEN Spoken(p)[i] ELSE Spoken(q)[i - Len(p)]
  <2>1. PICK x \in Seq(Seq(E)), y \in Seq(Seq(E)) : x = Spoken(p) /\ y = Spoken(q)
    BY <1>1
  <2>2. /\ x \o y \in Seq(Seq(E))
        /\ Len(x \o y) = Len(x) + Len(y)
        /\ \A i \in 1 .. Len(x) + Len(y) :
             (x \o y)[i] = IF i <= Len(x) THEN x[i] ELSE y[i - Len(x)]
    BY ConcatProperties
  <2> QED BY <1>1, <2>1, <2>2
<1>6. \A i \in 1 .. Len(p) + Len(q) :
         Spoken(p \o q)[i] = (Spoken(p) \o Spoken(q))[i]
  <2> SUFFICES ASSUME NEW i \in 1 .. Len(p) + Len(q)
               PROVE  Spoken(p \o q)[i] = (Spoken(p) \o Spoken(q))[i]
    OBVIOUS
  <2>1. CASE i <= Len(p)
    <3>1. i \in DOMAIN p /\ i \in DOMAIN (p \o q) /\ (p \o q)[i] = p[i]
      BY <1>2, <1>4, <2>1
    <3>2. Spoken(p \o q)[i] = Spoken(p)[i]
      BY <3>1 DEF Spoken
    <3> QED BY <1>5, <2>1, <3>2
  <2>2. CASE ~ (i <= Len(p))
    <3>1. i - Len(p) \in DOMAIN q /\ i \in DOMAIN (p \o q) /\ (p \o q)[i] = q[i - Len(p)]
      BY <1>2, <1>4, <2>2
    <3>2. Spoken(p \o q)[i] = Spoken(q)[i - Len(p)]
      BY <3>1 DEF Spoken
    <3> QED BY <1>5, <2>2, <3>2
  <2> QED BY <2>1, <2>2
<1>7. Spoken(p \o q) = Spoken(p) \o Spoken(q)
  BY <1>3, <1>5, <1>6, SeqEqual
<1>8. \A r : Contents(r) = FlattenSeq(Spoken(r))
  BY DEF Contents, Spoken
<1>9. FlattenSeq(Spoken(p) \o Spoken(q)) = FlattenSeq(Spoken(p)) \o FlattenSeq(Spoken(q))
  BY <1>1, FlattenConcat
<1> QED BY <1>7, <1>8, <1>9

NoDone(lines) == \A i \in DOMAIN lines : ~ lines[i].done

\* BeforeDone is everything, or everything before a first [DONE].
LEMMA BeforeDoneIs ==
  ASSUME NEW L, NEW p \in Seq(L)
  PROVE  \/ NoDone(p) /\ BeforeDone(p) = p
         \/ \E i \in 1 .. Len(p) :
              /\ p[i].done /\ \A j \in 1 .. i - 1 : ~ p[j].done
              /\ BeforeDone(p) = SubSeq(p, 1, i - 1)
<1> DEFINE I == {i \in 1 .. Len(p) : p[i].done}
<1>1. Len(p) \in Nat /\ DOMAIN p = 1 .. Len(p)
  BY LenProperties
<1>2. BeforeDone(p) = IF I # {} /\ Min(I) # 0 THEN SubSeq(p, 1, Min(I) - 1) ELSE p
  BY DEF BeforeDone, SelectInSeq
<1>3. CASE I = {}
  BY <1>1, <1>2, <1>3 DEF NoDone
<1>4. CASE I # {}
  <2>1. PICK i \in I : \A j \in I : i <= j
    <3>1. I \subseteq Nat
      OBVIOUS
    <3> HIDE DEF I
    <3> QED BY <1>4, <3>1, LeastNumber
  <2>2. Min(I) \in I /\ \A j \in I : Min(I) <= j
    BY <2>1 DEF Min
  <2> DEFINE m == Min(I)
  <2>3. m \in 1 .. Len(p) /\ p[m].done /\ \A j \in 1 .. m - 1 : ~ p[j].done
    <3>1. m \in 1 .. Len(p) /\ p[m].done
      BY <2>2
    <3>2. ASSUME NEW j \in 1 .. m - 1, p[j].done PROVE FALSE
      <4>1. j \in 1 .. Len(p) /\ j < m
        BY <1>1, <3>1
      <4>2. j \in I
        BY <3>2, <4>1
      <4> QED BY <2>2, <3>1, <4>1, <4>2
    <3> QED BY <3>1, <3>2
  <2>4. BeforeDone(p) = SubSeq(p, 1, m - 1)
    <3>1. m # 0
      BY <1>1, <2>3
    <3> QED BY <1>2, <1>4, <3>1
  <2> QED BY <2>3, <2>4
<1> QED BY <1>3, <1>4

\* What is left is a text without [DONE], and all of it only if there was none.
LEMMA BeforeDoneHasNone ==
  ASSUME NEW L, NEW p \in Seq(L)
  PROVE  /\ BeforeDone(p) \in Seq(L)
         /\ BeforeDone(p) = p <=> NoDone(p)
<1>1. Len(p) \in Nat /\ DOMAIN p = 1 .. Len(p) /\ \A i \in 1 .. Len(p) : p[i] \in L
  BY LenProperties, ElementOfSeq
<1>2. CASE NoDone(p) /\ BeforeDone(p) = p
  BY <1>2
<1>3. ASSUME NEW i \in 1 .. Len(p), p[i].done, BeforeDone(p) = SubSeq(p, 1, i - 1)
      PROVE  BeforeDone(p) \in Seq(L) /\ BeforeDone(p) # p /\ ~ NoDone(p)
  <2>1. \A j \in 1 .. i - 1 : p[j] \in L
    BY <1>1
  <2>2. SubSeq(p, 1, i - 1) \in Seq(L) /\ Len(SubSeq(p, 1, i - 1)) # Len(p)
    BY <1>1, <2>1, SubSeqProperties
  <2> QED BY <1>1, <1>3, <2>2 DEF NoDone
<1> QED BY <1>2, <1>3, BeforeDoneIs

LEMMA BeforeDoneConcat ==
  ASSUME NEW L, NEW p \in Seq(L), NEW q \in Seq(L), NoDone(p)
  PROVE  BeforeDone(p \o q) = p \o BeforeDone(q)
<1>1. p \o q \in Seq(L) /\ Len(p \o q) = Len(p) + Len(q)
      /\ \A i \in 1 .. Len(p) + Len(q) : (p \o q)[i] = IF i <= Len(p) THEN p[i] ELSE q[i - Len(p)]
  BY ConcatProperties
<1>2. /\ Len(p) \in Nat /\ DOMAIN p = 1 .. Len(p) /\ Len(q) \in Nat /\ DOMAIN q = 1 .. Len(q)
      /\ DOMAIN (p \o q) = 1 .. Len(p) + Len(q)
  BY <1>1, LenProperties
<1>3. \A i \in 1 .. Len(p) : ~ (p \o q)[i].done
  BY <1>1, <1>2 DEF NoDone
<1>4. \A i \in 1 .. Len(q) : (p \o q)[Len(p) + i] = q[i]
  <2>1. \A i \in 1 .. Len(q) : Len(p) + i \in 1 .. Len(p) + Len(q) /\ ~ (Len(p) + i <= Len(p))
                                /\ (Len(p) + i) - Len(p) = i
    BY <1>2
  <2> QED BY <1>1, <2>1
<1>5. CASE NoDone(q) /\ BeforeDone(q) = q
  <2>1. NoDone(p \o q)
    BY <1>1, <1>2, <1>3, <1>5 DEF NoDone
  <2> QED BY <1>1, <1>5, <2>1, BeforeDoneHasNone
<1>6. ASSUME NEW i \in 1 .. Len(q), q[i].done, \A j \in 1 .. i - 1 : ~ q[j].done,
             BeforeDone(q) = SubSeq(q, 1, i - 1)
      PROVE  BeforeDone(p \o q) = p \o BeforeDone(q)
  <2>1. Len(p) + i \in 1 .. Len(p) + Len(q) /\ (p \o q)[Len(p) + i].done
    BY <1>2, <1>4, <1>6
  <2>2. \A j \in 1 .. Len(p) + i - 1 : ~ (p \o q)[j].done
    <3> SUFFICES ASSUME NEW j \in 1 .. Len(p) + i - 1, ~ (j <= Len(p))
                 PROVE  ~ (p \o q)[j].done
      BY <1>2, <1>3
    <3>1. j \in 1 .. Len(p) + Len(q) /\ j - Len(p) \in 1 .. i - 1
      BY <1>2
    <3>2. (p \o q)[j] = q[j - Len(p)]
      BY <1>1, <3>1
    <3> QED BY <1>6, <3>1, <3>2
  <2>3. BeforeDone(p \o q) = SubSeq(p \o q, 1, Len(p) + i - 1)
    <3>1. ~ NoDone(p \o q)
      BY <1>2, <2>1 DEF NoDone
    <3>2. PICK k \in 1 .. Len(p) + Len(q) :
            /\ (p \o q)[k].done /\ \A j \in 1 .. k - 1 : ~ (p \o q)[j].done
            /\ BeforeDone(p \o q) = SubSeq(p \o q, 1, k - 1)
      BY <1>1, <3>1, BeforeDoneIs
    <3>3. k = Len(p) + i
      <4>1. CASE k < Len(p) + i
        <5>1. k \in 1 .. Len(p) + i - 1
          BY <1>2, <4>1
        <5> QED BY <2>2, <3>2, <5>1
      <4>2. CASE k > Len(p) + i
        <5>1. Len(p) + i \in 1 .. k - 1
          BY <1>2, <4>2
        <5> QED BY <2>1, <3>2, <5>1
      <4> QED BY <1>2, <4>1, <4>2
    <3> QED BY <3>2, <3>3
  <2>4. SubSeq(p \o q, 1, Len(p) + i - 1) = p \o SubSeq(q, 1, i - 1)
    <3> DEFINE u == SubSeq(p \o q, 1, Len(p) + i - 1)
               w == SubSeq(q, 1, i - 1)
    <3>1. \A j \in 1 .. Len(p) + i - 1 : (p \o q)[j] \in L
      BY <1>1, <1>2, ElementOfSeq
    <3>2. \A j \in 1 .. i - 1 : q[j] \in L
      BY <1>2, ElementOfSeq
    <3>3. /\ u \in Seq(L) /\ Len(u) = Len(p) + i - 1
          /\ \A j \in 1 .. Len(p) + i - 1 : u[j] = (p \o q)[j]
      BY <1>2, <3>1, SubSeqProperties
    <3>4. w \in Seq(L) /\ Len(w) = i - 1 /\ \A j \in 1 .. i - 1 : w[j] = q[j]
      BY <1>2, <3>2, SubSeqProperties
    <3> HIDE DEF u, w
    <3>5. /\ p \o w \in Seq(L) /\ Len(p \o w) = Len(p) + (i - 1)
          /\ \A j \in 1 .. Len(p) + (i - 1) :
               (p \o w)[j] = IF j <= Len(p) THEN p[j] ELSE w[j - Len(p)]
      <4>1. PICK x \in Seq(L) : x = w
        BY <3>4
      <4>2. /\ p \o x \in Seq(L) /\ Len(p \o x) = Len(p) + Len(x)
            /\ \A j \in 1 .. Len(p) + Len(x) :
                 (p \o x)[j] = IF j <= Len(p) THEN p[j] ELSE x[j - Len(p)]
        BY ConcatProperties
      <4> QED BY <3>4, <4>1, <4>2
    <3>6. \A j \in 1 .. Len(p) + i - 1 : u[j] = (p \o w)[j]
      <4> SUFFICES ASSUME NEW j \in 1 .. Len(p) + i - 1 PROVE u[j] = (p \o w)[j]
        OBVIOUS
      <4>1. j \in 1 .. Len(p) + Len(q) /\ j \in 1 .. Len(p) + (i - 1)
        BY <1>2
      <4>2. ~ (j <= Len(p)) => j - Len(p) \in 1 .. i - 1
        BY <1>2
      <4> QED BY <1>1, <3>3, <3>4, <3>5, <4>1, <4>2
    <3>7. Len(u) = Len(p \o w)
      BY <1>2, <3>3, <3>5
    <3>8. \A j \in 1 .. Len(u) : u[j] = (p \o w)[j]
      BY <3>3, <3>6
    <3>9. u = p \o w
      BY <3>3, <3>5, <3>7, <3>8, SeqEqual
    <3> QED BY <3>9 DEF u, w
  <2> QED BY <1>6, <2>3, <2>4
<1> QED BY <1>5, <1>6, BeforeDoneIs

\* Usage is what was known, or what the last line that reports any says.
LEMMA UsageIs ==
  ASSUME NEW L, NEW p \in Seq(L), NEW known
  PROVE  \/ /\ \A i \in 1 .. Len(p) : ~ (p[i].usage > 0)
            /\ Usage(p, known) = known
         \/ \E i \in 1 .. Len(p) :
              /\ p[i].usage > 0 /\ \A j \in i + 1 .. Len(p) : ~ (p[j].usage > 0)
              /\ Usage(p, known) = p[i].usage
<1> DEFINE I == {i \in 1 .. Len(p) : p[i].usage > 0}
<1>1. Len(p) \in Nat
  BY LenProperties
<1>2. Usage(p, known) = IF I # {} /\ Max(I) # 0 THEN p[Max(I)].usage ELSE known
  BY DEF Usage, SelectLastInSeq
<1>3. CASE I = {}
  BY <1>2, <1>3
<1>4. CASE I # {}
  <2> DEFINE D == {Len(p) - i : i \in I}
  <2>1. PICK d \in D : \A e \in D : d <= e
    <3>1. D \subseteq Nat /\ D # {}
      BY <1>1, <1>4
    <3> HIDE DEF D
    <3> QED BY <3>1, LeastNumber
  <2>2. PICK i \in I : d = Len(p) - i
    OBVIOUS
  <2>3. \A j \in I : i >= j
    <3> SUFFICES ASSUME NEW j \in I PROVE i >= j
      OBVIOUS
    <3>1. d <= Len(p) - j
      BY <2>1
    <3> QED BY <1>1, <2>2, <3>1
  <2>4. Max(I) \in I /\ \A j \in I : Max(I) >= j
    <3> HIDE DEF I
    <3> QED BY <2>3 DEF Max
  <2> DEFINE m == Max(I)
  <2>5. m \in 1 .. Len(p) /\ p[m].usage > 0 /\ m # 0
    BY <1>1, <2>4
  <2>6. ASSUME NEW j \in m + 1 .. Len(p), p[j].usage > 0 PROVE FALSE
    <3>1. j \in 1 .. Len(p) /\ j > m
      BY <1>1, <2>5
    <3>2. j \in I
      BY <2>6, <3>1
    <3> QED BY <2>4, <2>5, <3>1, <3>2
  <2>7. Usage(p, known) = p[m].usage
    BY <1>2, <1>4, <2>5
  <2> QED BY <2>5, <2>6, <2>7
<1> QED BY <1>3, <1>4

\* Reading a text line by line goes on from what was known before it.
UsageGoesOn(p, q) == \A known : Usage(p \o q, known) = Usage(q, Usage(p, known))

LEMMA UsageConcat ==
  ASSUME NEW L, NEW p \in Seq(L), NEW q \in Seq(L)
  PROVE  UsageGoesOn(p, q)
<1> SUFFICES ASSUME NEW known
             PROVE  Usage(p \o q, known) = Usage(q, Usage(p, known))
  BY DEF UsageGoesOn
<1>1. p \o q \in Seq(L) /\ Len(p \o q) = Len(p) + Len(q)
      /\ \A i \in 1 .. Len(p) + Len(q) : (p \o q)[i] = IF i <= Len(p) THEN p[i] ELSE q[i - Len(p)]
  BY ConcatProperties
<1>2. Len(p) \in Nat /\ Len(q) \in Nat
  BY LenProperties
<1>3. /\ \A i \in 1 .. Len(p) : i \in 1 .. Len(p) + Len(q) /\ (p \o q)[i] = p[i]
      /\ \A i \in 1 .. Len(q) : /\ Len(p) + i \in 1 .. Len(p) + Len(q)
                                /\ (p \o q)[Len(p) + i] = q[i]
  <2>1. \A i \in 1 .. Len(q) : Len(p) + i \in 1 .. Len(p) + Len(q) /\ ~ (Len(p) + i <= Len(p))
                                /\ (Len(p) + i) - Len(p) = i
    BY <1>2
  <2>2. \A i \in 1 .. Len(p) : i \in 1 .. Len(p) + Len(q) /\ i <= Len(p)
    BY <1>2
  <2> QED BY <1>1, <2>1, <2>2
<1> DEFINE Says(t, i) == t[i].usage > 0
<1>4. CASE (\A i \in 1 .. Len(p) + Len(q) : ~ Says(p \o q, i)) /\ Usage(p \o q, known) = known
  <2>1. \A i \in 1 .. Len(p) : ~ Says(p, i)
    BY <1>3, <1>4
  <2>2. \A i \in 1 .. Len(q) : ~ Says(q, i)
    BY <1>3, <1>4
  <2>3. Usage(p, known) = known
    BY <2>1, UsageIs
  <2>4. Usage(q, Usage(p, known)) = Usage(p, known)
    BY <2>2, UsageIs
  <2> QED BY <1>4, <2>3, <2>4
<1>5. ASSUME NEW k \in 1 .. Len(p) + Len(q), Says(p \o q, k),
             \A j \in k + 1 .. Len(p) + Len(q) : ~ Says(p \o q, j),
             Usage(p \o q, known) = (p \o q)[k].usage
      PROVE  Usage(p \o q, known) = Usage(q, Usage(p, known))
  <2>1. CASE k <= Len(p)
    <3>1. k \in 1 .. Len(p) /\ (p \o q)[k] = p[k] /\ Says(p, k)
      BY <1>2, <1>3, <1>5, <2>1
    <3>2. \A j \in k + 1 .. Len(p) : ~ Says(p, j)
      <4>1. \A j \in k + 1 .. Len(p) : j \in 1 .. Len(p) /\ j \in k + 1 .. Len(p) + Len(q)
        BY <1>2, <3>1
      <4> QED BY <1>3, <1>5, <4>1
    <3>3. \A j \in 1 .. Len(q) : ~ Says(q, j)
      <4>1. \A j \in 1 .. Len(q) : Len(p) + j \in k + 1 .. Len(p) + Len(q)
        BY <1>2, <3>1
      <4> QED BY <1>3, <1>5, <4>1
    <3>4. Usage(p, known) = p[k].usage
      <4>1. PICK i \in 1 .. Len(p) : /\ Says(p, i) /\ \A j \in i + 1 .. Len(p) : ~ Says(p, j)
                                     /\ Usage(p, known) = p[i].usage
        BY <3>1, UsageIs
      <4>2. ~ (i < k)
        <5>1. i < k => k \in i + 1 .. Len(p)
          BY <1>2, <3>1
        <5> QED BY <3>1, <4>1, <5>1
      <4>3. ~ (i > k)
        <5>1. i > k => i \in k + 1 .. Len(p)
          BY <1>2, <3>1
        <5> QED BY <3>2, <4>1, <5>1
      <4>4. i = k
        BY <3>1, <4>2, <4>3
      <4> QED BY <4>1, <4>4
    <3>5. Usage(q, Usage(p, known)) = Usage(p, known)
      BY <3>3, UsageIs
    <3> QED BY <1>5, <3>1, <3>4, <3>5
  <2>2. CASE ~ (k <= Len(p))
    <3>1. PICK h \in 1 .. Len(q) : k = Len(p) + h
      <4>1. k - Len(p) \in 1 .. Len(q) /\ k = Len(p) + (k - Len(p))
        BY <1>2, <2>2
      <4> QED BY <4>1
    <3>2. (p \o q)[k] = q[h] /\ Says(q, h)
      BY <1>3, <1>5, <3>1
    <3>3. \A j \in h + 1 .. Len(q) : ~ Says(q, j)
      <4>1. \A j \in h + 1 .. Len(q) : j \in 1 .. Len(q) /\ Len(p) + j \in k + 1 .. Len(p) + Len(q)
        BY <1>2, <3>1
      <4> QED BY <1>3, <1>5, <4>1
    <3>4. Usage(q, Usage(p, known)) = q[h].usage
      <4>1. PICK i \in 1 .. Len(q) :
              /\ Says(q, i) /\ \A j \in i + 1 .. Len(q) : ~ Says(q, j)
              /\ Usage(q, Usage(p, known)) = q[i].usage
        BY <3>2, UsageIs
      <4>2. ~ (i < h)
        <5>1. i < h => h \in i + 1 .. Len(q)
          BY <1>2, <3>1
        <5> QED BY <3>2, <4>1, <5>1
      <4>3. ~ (i > h)
        <5>1. i > h => i \in h + 1 .. Len(q)
          BY <1>2, <3>1
        <5> QED BY <3>3, <4>1, <5>1
      <4>4. i = h
        BY <3>1, <4>2, <4>3
      <4> QED BY <4>1, <4>4
    <3> QED BY <1>5, <3>2, <3>4
  <2> QED BY <2>1, <2>2
<1>6. \/ (\A i \in 1 .. Len(p) + Len(q) : ~ Says(p \o q, i)) /\ Usage(p \o q, known) = known
      \/ \E k \in 1 .. Len(p) + Len(q) :
            /\ Says(p \o q, k) /\ \A j \in k + 1 .. Len(p) + Len(q) : ~ Says(p \o q, j)
            /\ Usage(p \o q, known) = (p \o q)[k].usage
  <2>1. PICK r \in Seq(L) : r = p \o q
    BY <1>1
  <2>2. \/ (\A i \in 1 .. Len(r) : ~ Says(r, i)) /\ Usage(r, known) = known
        \/ \E k \in 1 .. Len(r) :
              /\ Says(r, k) /\ \A j \in k + 1 .. Len(r) : ~ Says(r, j)
              /\ Usage(r, known) = r[k].usage
    BY UsageIs
  <2> QED BY <1>1, <2>1, <2>2
<1> QED BY <1>4, <1>5, <1>6

-----------------------------------------------------------------------------
\* The pieces of an answer.

LEMMA PiecesAre ==
  ASSUME NEW L, NEW lines \in Seq(L), NEW cut \in BOOLEAN
  PROVE  /\ Pieces(lines, cut) \in Seq([line : L, last : BOOLEAN])
         /\ Len(Pieces(lines, cut)) \in Nat /\ Len(Pieces(lines, cut)) <= 2 * Len(lines)
         /\ \A i \in 1 .. Len(Pieces(lines, cut)) :
              /\ (i + 1) \div 2 \in 1 .. Len(lines)
              /\ Pieces(lines, cut)[i] = [line |-> lines[(i + 1) \div 2], last |-> i % 2 = 0]
<1> DEFINE pieces == Pieces(lines, cut)
           P == [line : L, last : BOOLEAN]
<1>1. Len(lines) \in Nat /\ \A i \in 1 .. Len(lines) : lines[i] \in L
  BY LenProperties, ElementOfSeq
<1>2. /\ Len(pieces) \in Nat /\ Len(pieces) <= 2 * Len(lines)
      /\ \A i \in 1 .. Len(pieces) :
           /\ (i + 1) \div 2 \in 1 .. Len(lines)
           /\ pieces[i] = [line |-> lines[(i + 1) \div 2], last |-> i % 2 = 0]
  <2> DEFINE N == 2 * Len(lines) - (IF cut THEN 1 ELSE 0)
  <2>1. CASE N \in Nat
    <3>1. pieces = [i \in 1 .. N |-> [line |-> lines[(i + 1) \div 2], last |-> i % 2 = 0]]
      BY DEF Pieces
    <3>2. Len(pieces) = N
      BY <2>1, <3>1
    <3>3. N <= 2 * Len(lines)
      BY <1>1
    <3>4. \A i \in 1 .. N : (i + 1) \div 2 \in 1 .. Len(lines)
      BY <1>1, <2>1, <3>3
    <3> QED BY <2>1, <3>1, <3>2, <3>3, <3>4
  <2>2. CASE N \notin Nat
    <3>1. Len(lines) = 0
      BY <1>1, <2>2
    <3>2. 1 .. N = {} /\ 1 .. 0 = {}
      BY <1>1, <2>2
    <3>3. pieces = [i \in 1 .. 0 |-> [line |-> lines[(i + 1) \div 2], last |-> i % 2 = 0]]
      BY <3>2 DEF Pieces
    <3>4. Len(pieces) = 0
      BY <3>3
    <3> QED BY <3>1, <3>4
  <2> QED BY <2>1, <2>2
<1>3. \A i \in 1 .. Len(pieces) : pieces[i] \in P
  <2> SUFFICES ASSUME NEW i \in 1 .. Len(pieces) PROVE pieces[i] \in P
    OBVIOUS
  <2>1. lines[(i + 1) \div 2] \in L
    BY <1>1, <1>2
  <2>2. PICK e \in BOOLEAN : e = (i % 2 = 0)
    OBVIOUS
  <2>3. pieces[i] = [line |-> lines[(i + 1) \div 2], last |-> e]
    BY <1>2, <2>2
  <2>4. [line |-> lines[(i + 1) \div 2], last |-> e] \in P
    BY <2>1
  <2> QED BY <2>3, <2>4
<1>4. DOMAIN pieces = 1 .. Len(pieces) /\ pieces = [i \in 1 .. Len(pieces) |-> pieces[i]]
  <2> DEFINE N == 2 * Len(lines) - (IF cut THEN 1 ELSE 0)
  <2>1. pieces = [i \in 1 .. N |-> [line |-> lines[(i + 1) \div 2], last |-> i % 2 = 0]]
    BY DEF Pieces
  <2>2. 1 .. N = 1 .. Len(pieces)
    <3>1. CASE N \in Nat
      <4>1. Len(pieces) = N
        BY <2>1, <3>1
      <4> QED BY <4>1
    <3>2. CASE N \notin Nat
      <4>1. 1 .. N = {} /\ Len(lines) = 0
        BY <1>1, <3>2
      <4>2. Len(pieces) = 0
        BY <1>2, <4>1
      <4> QED BY <4>1, <4>2
    <3> QED BY <3>1, <3>2
  <2> QED BY <2>1, <2>2
<1>5. pieces \in [1 .. Len(pieces) -> P]
  <2> HIDE DEF pieces, P
  <2>1. \A i \in 1 .. Len(pieces) : pieces[i] \in P
    BY <1>3, <1>4
  <2> QED BY <1>4, <2>1
<1>6. pieces \in Seq(P)
  <2> HIDE DEF pieces, P
  <2>1. \A k \in Nat : [1 .. k -> P] \subseteq Seq(P)
    OBVIOUS
  <2> QED BY <1>2, <1>5, <2>1
<1> QED BY <1>2, <1>6

\* Whatever follows a whole number of lines of the body is read as the lines
\* that follow them.
LEMMA LinesOfPieces ==
  ASSUME NEW L, NEW lines \in Seq(L), NEW cut \in BOOLEAN, NEW a \in Nat, NEW m \in Nat,
         2 * a <= m, m <= Len(Pieces(lines, cut))
  PROVE  Lines(SubSeq(Pieces(lines, cut), 2 * a + 1, m)) = SubSeq(lines, a + 1, m \div 2)
<1> DEFINE pieces == Pieces(lines, cut)
           n == m - 2 * a
           text == SubSeq(pieces, 2 * a + 1, m)
           bits == [i \in DOMAIN text |-> IF EndsLine(text, i) THEN <<text[i].line>> ELSE <<>>]
           P == [line : L, last : BOOLEAN]
<1>1. Len(lines) \in Nat /\ \A i \in 1 .. Len(lines) : lines[i] \in L
  BY LenProperties, ElementOfSeq
<1>2. /\ Len(pieces) \in Nat /\ Len(pieces) <= 2 * Len(lines)
      /\ \A i \in 1 .. Len(pieces) :
           /\ (i + 1) \div 2 \in 1 .. Len(lines)
           /\ pieces[i] = [line |-> lines[(i + 1) \div 2], last |-> i % 2 = 0]
  BY PiecesAre
<1>3. n \in Nat /\ n = m - 2 * a
  OBVIOUS
<1> HIDE DEF pieces, n
<1>4. \A i \in 1 .. n : 2 * a + i \in 1 .. Len(pieces)
  BY <1>2, <1>3 DEF pieces
<1>5. \A i \in 1 .. Len(pieces) : pieces[i] \in P
  <2>1. pieces \in Seq(P)
    BY PiecesAre DEF pieces
  <2> HIDE DEF P
  <2> QED BY <2>1, ElementOfSeq
<1>6. /\ text \in Seq(P) /\ Len(text) = n
      /\ \A i \in 1 .. n : text[i] = pieces[2 * a + i]
  <2>1. \A i \in 2 * a + 1 .. m : pieces[i] \in P
    <3>1. \A i \in 2 * a + 1 .. m : i \in 1 .. Len(pieces)
      BY <1>2 DEF pieces
    <3> QED BY <1>5, <3>1
  <2> HIDE DEF P
  <2>2. /\ text \in Seq(P)
        /\ Len(text) = IF 2 * a + 1 <= m THEN m - (2 * a + 1) + 1 ELSE 0
        /\ \A i \in 1 .. m - (2 * a + 1) + 1 : text[i] = pieces[2 * a + 1 + i - 1]
    BY <2>1, SubSeqProperties
  <2>3. m - (2 * a + 1) + 1 = n /\ (IF 2 * a + 1 <= m THEN n ELSE 0) = n
    BY <1>3
  <2>4. \A i \in 1 .. n : 2 * a + 1 + i - 1 = 2 * a + i
    BY <1>3
  <2> QED BY <2>2, <2>3, <2>4
<1>7. DOMAIN text = 1 .. n
  BY <1>6, LenProperties
<1> HIDE DEF text, P
\* The second piece of each line ends it.
<1>8. \A i \in 1 .. n :
        /\ text[i].last = ((2 * a + i) % 2 = 0)
        /\ text[i].line = lines[(2 * a + i + 1) \div 2]
        /\ (2 * a + i + 1) \div 2 \in 1 .. Len(lines)
  <2> SUFFICES ASSUME NEW i \in 1 .. n
               PROVE  /\ text[i].last = ((2 * a + i) % 2 = 0)
                      /\ text[i].line = lines[(2 * a + i + 1) \div 2]
                      /\ (2 * a + i + 1) \div 2 \in 1 .. Len(lines)
    OBVIOUS
  <2>1. 2 * a + i \in 1 .. Len(pieces) /\ text[i] = pieces[2 * a + i]
    BY <1>4, <1>6
  <2>2. /\ (2 * a + i + 1) \div 2 \in 1 .. Len(lines)
        /\ pieces[2 * a + i] = [line |-> lines[(2 * a + i + 1) \div 2],
                              last |-> (2 * a + i) % 2 = 0]
    BY <1>2, <2>1
  <2> QED BY <2>1, <2>2
<1>9. \A i \in 1 .. n : EndsLine(text, i) <=> i % 2 = 0
  <2> SUFFICES ASSUME NEW i \in 1 .. n PROVE EndsLine(text, i) <=> i % 2 = 0
    OBVIOUS
  <2>1. (2 * a + i) % 2 = i % 2
    BY <1>3
  <2>2. CASE i = 1
    BY <2>2 DEF EndsLine
  <2>3. CASE i > 1
    <3>1. i - 1 \in 1 .. n
      BY <1>3, <2>3
    <3>2. ((2 * a + (i - 1)) % 2 = 0) <=> (i % 2 # 0)
      BY <1>3
    <3> QED BY <1>8, <2>1, <2>3, <3>1, <3>2 DEF EndsLine
  <2> QED BY <1>3, <2>2, <2>3
<1>10. \A i \in 1 .. n : i % 2 = 0 => text[i].line = lines[a + i \div 2]
                                      /\ a + i \div 2 \in 1 .. Len(lines)
  <2> SUFFICES ASSUME NEW i \in 1 .. n, i % 2 = 0
               PROVE  (2 * a + i + 1) \div 2 = a + i \div 2
    BY <1>8
  <2> QED BY <1>3
<1>11. /\ bits \in Seq(Seq(L)) /\ Len(bits) = n
       /\ \A i \in 1 .. n : bits[i] = IF i % 2 = 0 THEN <<lines[a + i \div 2]>> ELSE <<>>
  <2>1. bits = [i \in 1 .. n |-> IF EndsLine(text, i) THEN <<text[i].line>> ELSE <<>>]
    BY <1>7
  <2> HIDE DEF bits
  <2>2. \A i \in 1 .. n : bits[i] = IF i % 2 = 0 THEN <<lines[a + i \div 2]>> ELSE <<>>
    BY <1>9, <1>10, <2>1
  <2>3. ASSUME NEW i \in 1 .. n PROVE bits[i] \in Seq(L)
    <3>1. CASE i % 2 = 0
      <4>1. lines[a + i \div 2] \in L
        BY <1>1, <1>10, <3>1
      <4>2. <<lines[a + i \div 2]>> \in Seq(L)
        BY <4>1
      <4> QED BY <2>2, <3>1, <4>2
    <3>2. CASE i % 2 # 0
      BY <2>2, <3>2, EmptySeq
    <3> QED BY <3>1, <3>2
  <2>4. bits \in [1 .. n -> Seq(L)]
    BY <2>1, <2>3
  <2> QED BY <1>3, <2>2, <2>4
<1> HIDE DEF bits
<1>12. PICK F : Progress(F, bits, L) /\ FlattenSeq(bits) = F[n]
  BY <1>11, FlattenProgresses
<1> DEFINE S == {i \in 0 .. n : F[i] = SubSeq(lines, a + 1, a + i \div 2)}
<1>13. 0 \in S
  <2>1. SubSeq(lines, a + 1, a + 0 \div 2) = <<>>
    BY SubSeqEmpty
  <2>2. F[0] = <<>>
    BY <1>12 DEF Progress
  <2>3. 0 \in 0 .. n
    BY <1>3
  <2> QED BY <2>1, <2>2, <2>3
<1>14. ASSUME NEW i \in 0 .. n - 1, i \in S PROVE i + 1 \in S
  <2>1. i + 1 \in 1 .. n /\ (i + 1) - 1 = i
    BY <1>3
  <2>2. F[i + 1] = F[i] \o bits[i + 1]
    BY <1>11, <1>12, <2>1 DEF Progress
  <2>3. F[i] = SubSeq(lines, a + 1, a + i \div 2) /\ F[i] \in Seq(L)
    BY <1>11, <1>12, <1>14 DEF Progress
  <2>4. CASE (i + 1) % 2 = 0
    <3>1. (i + 1) \div 2 = (i \div 2) + 1
      BY <1>3, <2>4
    <3> DEFINE k == a + (i + 1) \div 2
    <3>2. k \in a + 1 .. Len(lines) /\ a + 1 \in 1 .. Len(lines) /\ k - 1 = a + i \div 2
      <4>1. a + (i + 1) \div 2 \in 1 .. Len(lines)
        BY <1>10, <2>1, <2>4
      <4> QED BY <1>1, <3>1, <4>1
    <3>3. bits[i + 1] = <<lines[k]>>
      BY <1>11, <2>1, <2>4
    <3> HIDE DEF k
    <3>4. SubSeq(lines, a + 1, k) = SubSeq(lines, a + 1, k - 1) \o <<lines[k]>>
      BY <3>2, SubSeqRecursiveSecond
    <3>5. F[i + 1] = SubSeq(lines, a + 1, k)
      BY <2>2, <2>3, <3>2, <3>3, <3>4
    <3> QED BY <2>1, <3>5 DEF k
  <2>5. CASE (i + 1) % 2 # 0
    <3>1. (i + 1) \div 2 = i \div 2
      BY <1>3, <2>5
    <3>2. bits[i + 1] = <<>>
      BY <1>11, <2>1, <2>5
    <3>3. F[i] \o <<>> = F[i]
      BY <2>3, ConcatEmptySeq
    <3>4. F[i + 1] = SubSeq(lines, a + 1, a + (i + 1) \div 2)
      BY <2>2, <2>3, <3>1, <3>2, <3>3
    <3> QED BY <2>1, <3>4
  <2> QED BY <2>4, <2>5
<1> HIDE DEF S
<1>15. n \in S
  <2>1. \A i \in 0 .. n : i \in S
    BY <1>3, <1>13, <1>14, UpTo
  <2> QED BY <1>3, <2>1
<1>16. a + n \div 2 = m \div 2
  BY <1>3
<1>17. Lines(text) = FlattenSeq(bits)
  BY DEF Lines, bits
<1> QED BY <1>12, <1>15, <1>16, <1>17 DEF S, text, pieces

\* The text is the buffer after g pieces of the body and the n pieces that follow.
ChunkAt(text, lines, cut, g, n) ==
    /\ g \in 0 .. Len(Pieces(lines, cut)) /\ n \in 1 .. Len(Pieces(lines, cut)) - g
    /\ text = (IF g % 2 = 0 THEN <<>> ELSE <<Pieces(lines, cut)[g]>>)
                  \o SubSeq(Pieces(lines, cut), g + 1, g + n)

Completes(text, lines, cut, g, n) ==
    /\ Lines(text) = SubSeq(lines, (g \div 2) + 1, (g + n) \div 2)
    /\ Incomplete(text) = IF (g + n) % 2 = 0 THEN <<>> ELSE <<Pieces(lines, cut)[g + n]>>
    /\ (g + n) \div 2 \in g \div 2 .. Len(lines)

\* The buffer and a chunk of the pieces that follow it hold the lines that the
\* chunk completes, and the piece of the line it leaves incomplete.
LEMMA ChunkOfPieces ==
  ASSUME NEW L, NEW lines \in Seq(L), NEW cut \in BOOLEAN, NEW g, NEW n, NEW text,
         ChunkAt(text, lines, cut, g, n)
  PROVE  Completes(text, lines, cut, g, n)
<1> SUFFICES ASSUME /\ g \in 0 .. Len(Pieces(lines, cut))
                    /\ n \in 1 .. Len(Pieces(lines, cut)) - g
                    /\ text = (IF g % 2 = 0 THEN <<>> ELSE <<Pieces(lines, cut)[g]>>)
                                 \o SubSeq(Pieces(lines, cut), g + 1, g + n)
             PROVE  /\ Lines(text) = SubSeq(lines, (g \div 2) + 1, (g + n) \div 2)
                    /\ Incomplete(text) =
                          IF (g + n) % 2 = 0 THEN <<>> ELSE <<Pieces(lines, cut)[g + n]>>
                    /\ (g + n) \div 2 \in g \div 2 .. Len(lines)
  BY DEF ChunkAt, Completes
<1> DEFINE pieces == Pieces(lines, cut)
           P == [line : L, last : BOOLEAN]
           a == g \div 2
           m == g + n
<1>1. /\ pieces \in Seq(P) /\ Len(pieces) \in Nat /\ Len(pieces) <= 2 * Len(lines)
      /\ \A i \in 1 .. Len(pieces) : pieces[i].last = (i % 2 = 0)
  <2>1. /\ pieces \in Seq(P) /\ Len(pieces) \in Nat /\ Len(pieces) <= 2 * Len(lines)
        /\ \A i \in 1 .. Len(pieces) :
             /\ (i + 1) \div 2 \in 1 .. Len(lines)
             /\ pieces[i] = [line |-> lines[(i + 1) \div 2], last |-> i % 2 = 0]
    BY PiecesAre
  <2> HIDE DEF pieces, P
  <2>2. \A i \in 1 .. Len(pieces) : pieces[i].last = (i % 2 = 0)
    <3> SUFFICES ASSUME NEW i \in 1 .. Len(pieces) PROVE pieces[i].last = (i % 2 = 0)
      OBVIOUS
    <3>1. PICK e \in BOOLEAN : e = (i % 2 = 0)
      OBVIOUS
    <3>2. pieces[i] = [line |-> lines[(i + 1) \div 2], last |-> e]
      BY <2>1, <3>1
    <3> QED BY <3>1, <3>2
  <2> QED BY <2>1, <2>2
<1>2. Len(lines) \in Nat
  BY LenProperties
<1> HIDE DEF pieces, P
<1>3. /\ a \in Nat /\ m \in 1 .. Len(pieces) /\ 2 * a <= m /\ 2 * a + 1 <= m
      /\ g \in 0 .. Len(pieces) /\ g + 1 \in 1 .. m
      /\ m \div 2 \in a .. Len(lines)
  BY <1>1, <1>2 DEF pieces
<1>4. text = SubSeq(pieces, 2 * a + 1, m)
  <2>1. CASE g % 2 = 0
    <3>1. 2 * a = g
      BY <2>1
    <3>2. \A i \in g + 1 .. m : pieces[i] \in P
      <4>1. \A i \in g + 1 .. m : i \in 1 .. Len(pieces)
        BY <1>1, <1>3
      <4> QED BY <1>1, <4>1, ElementOfSeq
    <3>3. SubSeq(pieces, g + 1, m) \in Seq(P)
      BY <1>3, <3>2, SubSeqProperties
    <3>4. PICK x \in Seq(P) : x = SubSeq(pieces, g + 1, m)
      BY <3>3
    <3>5. <<>> \o x = x
      BY ConcatEmptySeq
    <3> QED BY <2>1, <3>1, <3>4, <3>5 DEF pieces
  <2>2. CASE g % 2 # 0
    <3>1. 2 * a + 1 = g /\ g \in 1 .. Len(pieces) /\ m \in g .. Len(pieces)
      BY <1>1, <1>3, <2>2
    <3>2. SubSeq(pieces, g, m) = <<pieces[g]>> \o SubSeq(pieces, g + 1, m)
      BY <1>1, <3>1, SubSeqRecursiveFirst
    <3> QED BY <2>2, <3>1, <3>2 DEF pieces
  <2> QED BY <2>1, <2>2
<1>5. Lines(text) = SubSeq(lines, a + 1, m \div 2)
  <2>1. PICK x \in Nat, y \in Nat : x = a /\ y = m
    BY <1>1, <1>3
  <2>2. 2 * x <= y /\ y <= Len(pieces)
    BY <1>1, <1>3, <2>1
  <2>3. Lines(SubSeq(pieces, 2 * x + 1, y)) = SubSeq(lines, x + 1, y \div 2)
    BY <2>2, LinesOfPieces DEF pieces
  <2> HIDE DEF a, m
  <2> QED BY <1>4, <2>1, <2>3
<1>6. /\ text \in Seq(P) /\ Len(text) = m - 2 * a
      /\ text[m - 2 * a] = pieces[m]
  <2>1. \A i \in 2 * a + 1 .. m : pieces[i] \in P
    <3>1. \A i \in 2 * a + 1 .. m : i \in 1 .. Len(pieces)
      BY <1>1, <1>3
    <3> QED BY <1>1, <3>1, ElementOfSeq
  <2> DEFINE lo == 2 * a + 1
  <2>2. lo \in Int /\ m \in Int /\ lo <= m
    BY <1>3
  <2>3. m - lo + 1 = m - 2 * a /\ m - 2 * a \in 1 .. m - lo + 1 /\ lo + (m - 2 * a) - 1 = m
    BY <1>3
  <2>4. \A i \in lo .. m : pieces[i] \in P
    BY <2>1
  <2>5. text = SubSeq(pieces, lo, m)
    BY <1>4
  <2> HIDE DEF lo, m
  <2>6. PICK x \in Int, y \in Int : x = lo /\ y = m
    BY <2>2
  <2>7. /\ SubSeq(pieces, x, y) \in Seq(P)
        /\ Len(SubSeq(pieces, x, y)) = IF x <= y THEN y - x + 1 ELSE 0
        /\ \A i \in 1 .. y - x + 1 : SubSeq(pieces, x, y)[i] = pieces[x + i - 1]
    BY <2>4, <2>6, SubSeqProperties
  <2> QED BY <2>2, <2>3, <2>5, <2>6, <2>7
<1>7. text # <<>> /\ Last(text) = pieces[m]
  <2>1. Len(text) # 0
    <3> HIDE DEF a, m
    <3>1. m \in Nat
      BY <1>1, <1>3
    <3> QED BY <1>3, <1>6, <3>1
  <2> QED BY <1>6, <2>1, EmptySeq DEF Last
<1>8. Last(text).last = (m % 2 = 0)
  BY <1>1, <1>3, <1>7
<1>9. Incomplete(text) = IF m % 2 = 0 THEN <<>> ELSE <<pieces[m]>>
  BY <1>7, <1>8 DEF Incomplete
<1> QED BY <1>3, <1>5, <1>9 DEF pieces

-----------------------------------------------------------------------------
\* What a chunk adds to what was read.

ReadsOn(read, new, more) ==
    /\ Contents(BeforeDone(more)) = Contents(BeforeDone(read)) \o Contents(BeforeDone(new))
    /\ Usage(BeforeDone(more), 0) = Usage(BeforeDone(new), Usage(BeforeDone(read), 0))
    /\ BeforeDone(new) = new => NoDone(more)

LEMMA ChunkReadsOn ==
  ASSUME NEW L, NEW lines \in Seq(L), NEW cut \in BOOLEAN,
         NEW g, NEW n, NEW text, ChunkAt(text, lines, cut, g, n),
         NEW read, read = SubSeq(lines, 1, g \div 2), NoDone(read),
         NEW more, more = SubSeq(lines, 1, (g + n) \div 2),
         NEW new, new = Lines(text)
  PROVE  ReadsOn(read, new, more)
<1>1. /\ new = SubSeq(lines, (g \div 2) + 1, (g + n) \div 2)
      /\ (g + n) \div 2 \in g \div 2 .. Len(lines)
  <2>1. Completes(text, lines, cut, g, n)
    BY ChunkOfPieces
  <2> QED BY <2>1 DEF Completes
<1>2. /\ Len(lines) \in Nat /\ \A i \in 1 .. Len(lines) : lines[i] \in L
      /\ g \in Nat /\ g \div 2 \in 0 .. Len(lines)
  <2>1. Len(lines) \in Nat /\ Len(Pieces(lines, cut)) \in Nat
    BY LenProperties, PiecesAre
  <2>2. \A i \in 1 .. Len(lines) : lines[i] \in L
    BY ElementOfSeq
  <2>3. g \in Nat /\ g \div 2 \in Nat
    BY <2>1 DEF ChunkAt
  <2> QED BY <1>1, <2>1, <2>2, <2>3
<1>3. PICK x, y : /\ x \in 0 .. Len(lines) /\ y \in x .. Len(lines)
                     /\ x = g \div 2 /\ y = (g + n) \div 2
  BY <1>1, <1>2
<1>4. read \in Seq(L)
  <2>1. \A i \in 1 .. x : lines[i] \in L
    BY <1>2, <1>3
  <2>2. SubSeq(lines, 1, x) \in Seq(L)
    BY <1>3, <2>1, SubSeqProperties
  <2> QED BY <1>3, <2>2
<1>5. new \in Seq(L)
  <2>1. \A i \in x + 1 .. y : lines[i] \in L
    BY <1>2, <1>3
  <2>2. SubSeq(lines, x + 1, y) \in Seq(L)
    <3>1. PICK z \in Int : z = x + 1
      BY <1>3
    <3>2. \A i \in z .. y : lines[i] \in L
      BY <2>1, <3>1
    <3>3. SubSeq(lines, z, y) \in Seq(L)
      BY <1>3, <3>1, <3>2, SubSeqProperties
    <3> QED BY <3>1, <3>3
  <2> QED BY <1>1, <1>3, <2>2
<1>6. more = read \o new
  <2>1. /\ 1 \in 1 .. Len(lines) + 1
        /\ x \in 1 - 1 .. Len(lines)
    BY <1>2, <1>3
  <2>2. SubSeq(lines, 1, x) \o SubSeq(lines, x + 1, y) = SubSeq(lines, 1, y)
    BY <1>3, <2>1, ConcatAdjacentSubSeq
  <2> QED BY <1>1, <1>3, <2>2
<1>7. BeforeDone(read) = read /\ BeforeDone(new) \in Seq(L)
      /\ (BeforeDone(new) = new => NoDone(new))
  BY <1>4, <1>5, BeforeDoneHasNone
<1>8. BeforeDone(more) = read \o BeforeDone(new)
  BY <1>4, <1>5, <1>6, BeforeDoneConcat
<1>9. PICK b \in Seq(L) : b = BeforeDone(new)
  BY <1>7
<1>10. Contents(read \o b) = Contents(read) \o Contents(b)
  BY <1>4, <1>9, ContentsConcat
<1>11. Usage(read \o b, 0) = Usage(b, Usage(read, 0))
  <2>1. UsageGoesOn(read, b)
    BY <1>4, <1>9, UsageConcat
  <2> QED BY <2>1, Zenon DEF UsageGoesOn
<1>12. BeforeDone(new) = new => NoDone(more)
  <2> SUFFICES ASSUME BeforeDone(new) = new PROVE NoDone(more)
    OBVIOUS
  <2>1. BeforeDone(more) = more
    BY <1>6, <1>8
  <2>2. more \in Seq(L)
    <3>1. read \o new \in Seq(L)
      BY <1>4, <1>5, ConcatProperties
    <3> QED BY <1>6, <3>1
  <2> QED BY <2>1, <2>2, BeforeDoneHasNone
<1> QED BY <1>7, <1>8, <1>9, <1>10, <1>11, <1>12 DEF ReadsOn

\* Nothing was said in no lines.
LEMMA NothingSaid ==
  /\ NoDone(<<>>) /\ BeforeDone(<<>>) = <<>>
  /\ Contents(<<>>) = <<>> /\ Usage(<<>>, 0) = 0
<1>1. <<>> \in Seq({}) /\ Len(<<>>) = 0 /\ DOMAIN <<>> = {}
  BY EmptySeq
<1>2. NoDone(<<>>)
  BY <1>1 DEF NoDone
<1>3. BeforeDone(<<>>) = <<>>
  BY <1>1, <1>2, BeforeDoneHasNone
<1>4. Contents(<<>>) = <<>>
  <2>1. PICK z : z = [i \in DOMAIN <<>> |->
          IF <<>>[i].content # NoContent THEN <<<<>>[i].content>> ELSE <<>>]
    OBVIOUS
  <2>2. z = <<>>
    BY <1>1, <2>1
  <2>3. FlattenSeq(<<>>) = <<>>
    BY <1>1 DEF FlattenSeq
  <2> QED BY <2>1, <2>2, <2>3 DEF Contents
<1>5. Usage(<<>>, 0) = 0
  <2>1. \A i \in 1 .. Len(<<>>) : FALSE
    BY <1>1
  <2> QED BY <1>1, <2>1, UsageIs
<1> QED BY <1>2, <1>3, <1>4, <1>5

-----------------------------------------------------------------------------
\* The inductive invariant.

Active == {"idle", "fetching", "delay", "reading"}
Stages == Active \cup {"ended", "finished", "failed"}

\* g pieces of an answer were read: what was yielded and counted is that of
\* the lines they complete, up to [DONE].
ReadUpTo(lines, cut, pieces, g, said, count) ==
    /\ pieces = Pieces(lines, cut)
    /\ g \in 0 .. Len(pieces)
    /\ said = Contents(BeforeDone(SubSeq(lines, 1, g \div 2)))
    /\ count = Usage(BeforeDone(SubSeq(lines, 1, g \div 2)), 0)

\* No [DONE] was read, and the buffer has the line that is not complete.
StillOpen(lines, pieces, g, left) ==
    /\ NoDone(SubSeq(lines, 1, g \div 2))
    /\ left = IF g % 2 = 0 THEN <<>> ELSE <<pieces[g]>>

Reads(s) ==
    \E lines \in Answers \cup {<<>>}, cut \in BOOLEAN :
        /\ ReadUpTo(lines, cut, body[s], got[s], output[s], tokenCount[s])
        /\ at[s] \in Active => StillOpen(lines, body[s], got[s], buffer[s])

\* Nothing is read before the answer is there.
Unread(s) ==
    at[s] \in {"idle", "fetching", "delay"} => body[s] = <<>> /\ got[s] = 0

\* The count is that of a stream which ended and changes no more.
CountOf(t, count) ==
    IF t = NoStream THEN count = 0
    ELSE /\ t \in Stream
         /\ at[t] \in {"ended", "finished"}
         /\ count = tokenCount[t]

Domains ==
    /\ at \in [Stream -> Stages]
    /\ DOMAIN body = Stream /\ DOMAIN got = Stream /\ DOMAIN buffer = Stream
    /\ DOMAIN output = Stream /\ DOMAIN tokenCount = Stream
    /\ DOMAIN stepTokens = Stream /\ DOMAIN takenFrom = Stream

StreamInv ==
    /\ Domains
    /\ \A s \in Stream : Reads(s) /\ Unread(s) /\ CountOf(takenFrom[s], stepTokens[s])
    /\ CountOf(setBy, lastTokenCount)

-----------------------------------------------------------------------------

LEMMA AnswersAreLines ==
  ASSUME OpenRouterAssumption, NEW lines \in Answers \cup {<<>>}
  PROVE  \E L : lines \in Seq(L)
<1>1. CASE lines = <<>>
  BY <1>1, EmptySeq
<1>2. CASE lines \in Answers
  BY <1>2 DEF OpenRouterAssumption
<1> QED BY <1>1, <1>2

\* A chunk of any length keeps what was read true to the answer.
LEMMA ChunkIsReadRight ==
  ASSUME OpenRouterAssumption, NEW lines \in Answers \cup {<<>>}, NEW cut \in BOOLEAN,
         NEW pieces, NEW g, NEW said, NEW count, NEW left,
         ReadUpTo(lines, cut, pieces, g, said, count), StillOpen(lines, pieces, g, left),
         NEW n \in 1 .. Len(pieces) - g,
         NEW text, text = left \o SubSeq(pieces, g + 1, g + n),
         NEW new, new = Lines(text), NEW fresh, fresh = BeforeDone(new)
  PROVE  /\ ReadUpTo(lines, cut, pieces, g + n, said \o Contents(fresh), Usage(fresh, count))
         /\ fresh = new => StillOpen(lines, pieces, g + n, Incomplete(text))
<1>1. PICK L : lines \in Seq(L)
  BY AnswersAreLines
<1>2. pieces = Pieces(lines, cut) /\ g \in 0 .. Len(pieces)
  BY DEF ReadUpTo
<1>3. ChunkAt(text, lines, cut, g, n)
  BY <1>2 DEF ChunkAt, StillOpen
<1>4. PICK read, more : /\ read = SubSeq(lines, 1, g \div 2)
                        /\ more = SubSeq(lines, 1, (g + n) \div 2)
  OBVIOUS
<1>5. NoDone(read) /\ said = Contents(BeforeDone(read)) /\ count = Usage(BeforeDone(read), 0)
  BY <1>4 DEF StillOpen, ReadUpTo
<1>6. /\ Contents(BeforeDone(more)) = said \o Contents(fresh)
      /\ Usage(BeforeDone(more), 0) = Usage(fresh, count)
      /\ fresh = new => NoDone(more)
  <2>1. ReadsOn(read, new, more)
    BY <1>1, <1>3, <1>4, <1>5, ChunkReadsOn
  <2> QED BY <1>5, <2>1 DEF ReadsOn
<1>7. g + n \in 0 .. Len(pieces)
  <2>1. Len(pieces) \in Nat
    BY <1>1, <1>2, PiecesAre
  <2> QED BY <1>2, <2>1
<1>8. Incomplete(text) = IF (g + n) % 2 = 0 THEN <<>> ELSE <<pieces[g + n]>>
  <2>1. Completes(text, lines, cut, g, n)
    BY <1>1, <1>3, ChunkOfPieces
  <2> QED BY <1>2, <2>1 DEF Completes
<1> QED BY <1>2, <1>4, <1>6, <1>7, <1>8 DEF ReadUpTo, StillOpen

\* What was read, taken as one text.
LEMMA ReceivedIs ==
  ASSUME OpenRouterAssumption, NEW s \in Stream, Reads(s)
  PROVE  output[s] = Contents(Received(s)) /\ tokenCount[s] = Usage(Received(s), 0)
<1>1. PICK lines \in Answers \cup {<<>>}, cut \in BOOLEAN :
        ReadUpTo(lines, cut, body[s], got[s], output[s], tokenCount[s])
  BY DEF Reads
<1>2. PICK L : lines \in Seq(L)
  BY AnswersAreLines
<1>3. Len(Pieces(lines, cut)) \in Nat
  BY <1>2, PiecesAre
<1>4. PICK g \in Nat : g = got[s] /\ g <= Len(Pieces(lines, cut))
  BY <1>1, <1>3 DEF ReadUpTo
<1>5. PICK z \in Nat : z = 0 /\ 2 * z <= g /\ 2 * z + 1 = 1 /\ z + 1 = 1
  BY <1>4
<1>6. Lines(SubSeq(Pieces(lines, cut), 2 * z + 1, g)) = SubSeq(lines, z + 1, g \div 2)
  BY <1>2, <1>4, <1>5, LinesOfPieces
<1>7. Lines(SubSeq(body[s], 1, got[s])) = SubSeq(lines, 1, got[s] \div 2)
  BY <1>1, <1>4, <1>5, <1>6 DEF ReadUpTo
<1> QED BY <1>1, <1>7 DEF ReadUpTo, Received

LEMMA InitReads == OpenRouterAssumption /\ Init => StreamInv
<1> SUFFICES ASSUME OpenRouterAssumption, Init PROVE StreamInv
  OBVIOUS
<1>1. Domains
  BY DEF Init, Domains, Stages, Active
<1>2. ASSUME NEW s \in Stream PROVE Reads(s)
  <2>1. PICK e \in Seq({}) : e = <<>> /\ Len(e) = 0
    BY EmptySeq
  <2>2. PICK g : g = 0 /\ g \div 2 = 0 /\ g % 2 = 0 /\ g \in 0 .. Len(e)
    BY <2>1
  <2>3. SubSeq(e, 1, g \div 2) = e
    BY <2>1, <2>2, SubSeqEmpty
  <2>4. Pieces(e, FALSE) = e
    <3>1. /\ Pieces(e, FALSE) \in Seq([line : {}, last : BOOLEAN])
          /\ Len(Pieces(e, FALSE)) \in Nat /\ Len(Pieces(e, FALSE)) <= 2 * Len(e)
      BY PiecesAre
    <3>2. PICK y \in Seq([line : {}, last : BOOLEAN]) : y = Pieces(e, FALSE)
      BY <3>1
    <3>3. Len(y) = 0
      <4>1. PICK j, k : j = Len(y) /\ k = Len(e)
        OBVIOUS
      <4>2. j \in Nat /\ j <= 2 * k
        BY <3>1, <3>2, <4>1, Zenon
      <4>3. k = 0
        BY <2>1, <4>1
      <4>4. j = 0
        BY <4>2, <4>3
      <4> QED BY <4>1, <4>4
    <3> QED BY <2>1, <3>2, <3>3, EmptySeq
  <2>5. ReadUpTo(e, FALSE, e, g, e, 0)
    <3>1. Contents(BeforeDone(e)) = e /\ Usage(BeforeDone(e), 0) = 0
      BY <2>1, NothingSaid
    <3> QED BY <2>2, <2>3, <2>4, <3>1 DEF ReadUpTo
  <2>6. StillOpen(e, e, g, e)
    BY <2>1, <2>2, <2>3, NothingSaid DEF StillOpen
  <2>7. /\ body[s] = e /\ got[s] = g /\ output[s] = e /\ tokenCount[s] = 0 /\ buffer[s] = e
    BY <2>1, <2>2 DEF Init
  <2>8. e \in Answers \cup {<<>>}
    BY <2>1
  <2> QED BY <2>5, <2>6, <2>7, <2>8 DEF Reads
<1>3. \A s \in Stream : Unread(s) /\ CountOf(takenFrom[s], stepTokens[s])
  BY DEF Init, Unread, CountOf
<1>4. CountOf(setBy, lastTokenCount)
  BY DEF Init, CountOf
<1> QED BY <1>1, <1>2, <1>3, <1>4 DEF StreamInv

-----------------------------------------------------------------------------
\* What the steps leave alone.

Same(t) ==
    /\ body'[t] = body[t] /\ got'[t] = got[t] /\ buffer'[t] = buffer[t]
    /\ output'[t] = output[t] /\ tokenCount'[t] = tokenCount[t]

LEMMA SameReads ==
  ASSUME NEW t, Reads(t), Same(t), at'[t] \in Active => at[t] \in Active
  PROVE  Reads(t)'
<1>1. PICK lines \in Answers \cup {<<>>}, cut \in BOOLEAN :
        /\ ReadUpTo(lines, cut, body[t], got[t], output[t], tokenCount[t])
        /\ at[t] \in Active => StillOpen(lines, body[t], got[t], buffer[t])
  BY DEF Reads
<1>2. ReadUpTo(lines, cut, body'[t], got'[t], output'[t], tokenCount'[t])
  BY <1>1 DEF Same
<1>3. at'[t] \in Active => StillOpen(lines, body'[t], got'[t], buffer'[t])
  BY <1>1 DEF Same
<1> QED BY <1>2, <1>3 DEF Reads

\* A stream that ended stays as it is.
EndedStay ==
    \A t \in Stream : at[t] \in {"ended", "finished"} =>
        at'[t] \in {"ended", "finished"} /\ tokenCount'[t] = tokenCount[t]

LEMMA CountStays ==
  ASSUME NEW t, NEW count, CountOf(t, count), EndedStay
  PROVE  CountOf(t, count)'
  BY DEF CountOf, EndedStay

LEMMA CountsStay ==
  ASSUME StreamInv, EndedStay, UNCHANGED <<stepTokens, takenFrom>>
  PROVE  \A t \in Stream : CountOf(takenFrom[t], stepTokens[t])'
<1> SUFFICES ASSUME NEW t \in Stream PROVE CountOf(takenFrom[t], stepTokens[t])'
  OBVIOUS
<1>1. PICK u, c : u = takenFrom[t] /\ c = stepTokens[t]
  OBVIOUS
<1>2. CountOf(u, c)'
  BY <1>1, CountStays DEF StreamInv
<1> QED BY <1>1, <1>2

LEMMA FieldStays ==
  ASSUME StreamInv, EndedStay, UNCHANGED <<lastTokenCount, setBy>>
  PROVE  CountOf(setBy, lastTokenCount)'
<1>1. PICK u, c : u = setBy /\ c = lastTokenCount
  OBVIOUS
<1>2. CountOf(u, c)'
  BY <1>1, CountStays DEF StreamInv
<1> QED BY <1>1, <1>2

\* Steps that move a stream which has not ended, without reading anything.
LEMMA QuietStep ==
  ASSUME StreamInv, NEW s \in Stream, NEW label \in Stages, at[s] \in Active,
         at' = [at EXCEPT ![s] = label],
         label \in {"idle", "fetching", "delay"} => at[s] \in {"idle", "fetching", "delay"},
         UNCHANGED <<body, got, buffer, output, tokenCount, stepTokens, takenFrom, shared>>
  PROVE  StreamInv'
<1>1. Domains'
  BY DEF StreamInv, Domains
<1>2. \A t \in Stream : at'[t] = IF t = s THEN label ELSE at[t]
  BY DEF StreamInv, Domains
<1>3. ASSUME NEW t \in Stream PROVE Reads(t)' /\ Unread(t)'
  <2>1. Same(t)
    BY DEF Same
  <2>2. at'[t] \in Active => at[t] \in Active
    BY <1>2
  <2>3. Reads(t)'
    BY <2>1, <2>2, SameReads DEF StreamInv
  <2>4. Unread(t)'
    BY <1>2 DEF StreamInv, Unread
  <2> QED BY <2>3, <2>4
<1>4. EndedStay
  BY <1>2 DEF EndedStay, Active
<1>5. \A t \in Stream : CountOf(takenFrom[t], stepTokens[t])'
  BY <1>4, CountsStay
<1>6. CountOf(setBy, lastTokenCount)'
  BY <1>4, FieldStays DEF shared
<1> QED BY <1>1, <1>3, <1>5, <1>6 DEF StreamInv

LEMMA AcceptedStep ==
  ASSUME OpenRouterAssumption, StreamInv, NEW s \in Stream, Accepted(s)
  PROVE  StreamInv'
<1>1. PICK lines \in Answers, cut \in BOOLEAN : body' = [body EXCEPT ![s] = Pieces(lines, cut)]
  BY DEF Accepted
<1>2. /\ at[s] = "fetching" /\ at' = [at EXCEPT ![s] = "reading"]
      /\ UNCHANGED <<got, buffer, output, tokenCount, stepTokens, takenFrom,
                     lastTokenCount, setBy>>
  BY DEF Accepted, Goto, shared, result
<1>3. Domains'
  BY <1>1, <1>2 DEF StreamInv, Domains, Stages, Active
<1>4. \A t \in Stream : /\ at'[t] = IF t = s THEN "reading" ELSE at[t]
                        /\ body'[t] = IF t = s THEN Pieces(lines, cut) ELSE body[t]
  BY <1>1, <1>2 DEF StreamInv, Domains
<1>5. Reads(s)'
  <2>1. PICK old \in Answers \cup {<<>>}, c \in BOOLEAN :
          /\ ReadUpTo(old, c, body[s], got[s], output[s], tokenCount[s])
          /\ StillOpen(old, body[s], got[s], buffer[s])
    BY <1>2 DEF StreamInv, Reads, Active
  <2>2. PICK g, n : g = 0 /\ n = g \div 2 /\ n = 0 /\ g % 2 = 0 /\ got[s] = g /\ got'[s] = g
    BY <1>2 DEF StreamInv, Unread
  <2>3. SubSeq(old, 1, n) = <<>> /\ SubSeq(lines, 1, n) = <<>>
    BY <2>2, SubSeqEmpty
  <2>4. g \in 0 .. Len(Pieces(lines, cut))
    <3>1. PICK L : lines \in Seq(L)
      BY AnswersAreLines
    <3>2. Len(Pieces(lines, cut)) \in Nat
      BY <3>1, PiecesAre
    <3> QED BY <2>2, <3>2
  <2>5. ReadUpTo(lines, cut, body'[s], got'[s], output'[s], tokenCount'[s])
    BY <1>2, <1>4, <2>1, <2>2, <2>3, <2>4 DEF ReadUpTo
  <2>6. StillOpen(lines, body'[s], got'[s], buffer'[s])
    BY <1>2, <2>1, <2>2, <2>3 DEF StillOpen
  <2> QED BY <2>5, <2>6 DEF Reads
<1>6. ASSUME NEW t \in Stream PROVE Reads(t)' /\ Unread(t)'
  <2>1. CASE t = s
    <3>1. Unread(t)'
      BY <1>4, <2>1 DEF Unread
    <3> QED BY <1>5, <2>1, <3>1
  <2>2. CASE t # s
    <3>1. Same(t) /\ at'[t] = at[t]
      BY <1>2, <1>4, <2>2 DEF Same
    <3>2. Reads(t)'
      BY <3>1, SameReads DEF StreamInv
    <3> QED BY <3>1, <3>2 DEF StreamInv, Unread, Same
  <2> QED BY <2>1, <2>2
<1>7. EndedStay
  BY <1>2, <1>4 DEF EndedStay
<1>8. \A t \in Stream : CountOf(takenFrom[t], stepTokens[t])'
  BY <1>2, <1>7, CountsStay
<1>9. CountOf(setBy, lastTokenCount)'
  BY <1>2, <1>7, FieldStays
<1> QED BY <1>3, <1>6, <1>8, <1>9 DEF StreamInv

LEMMA ReadChunkStep ==
  ASSUME OpenRouterAssumption, StreamInv, NEW s \in Stream, ReadChunk(s)
  PROVE  StreamInv'
<1> DEFINE All(n) == buffer[s] \o SubSeq(body[s], got[s] + 1, got[s] + n)
           Fresh(n) == BeforeDone(Lines(All(n)))
<1>0. PICK n \in 1 .. (Len(body[s]) - got[s]) :
        /\ got' = [got EXCEPT ![s] = @ + n]
        /\ buffer' = [buffer EXCEPT ![s] = Incomplete(All(n))]
        /\ output' = [output EXCEPT ![s] = @ \o Contents(Fresh(n))]
        /\ tokenCount' = [tokenCount EXCEPT ![s] = Usage(Fresh(n), @)]
        /\ at' = [at EXCEPT ![s] = IF Fresh(n) = Lines(All(n)) THEN "reading" ELSE "ended"]
  BY Zenon DEF ReadChunk, Goto
<1>1. PICK text, new, fresh : text = All(n) /\ new = Lines(All(n)) /\ fresh = Fresh(n)
  OBVIOUS
<1>2. at[s] = "reading" /\ UNCHANGED <<body, stepTokens, takenFrom, lastTokenCount, setBy>>
  BY DEF ReadChunk, shared, result
<1>3. Domains'
  BY <1>0, <1>2 DEF StreamInv, Domains, Stages, Active
<1>4. /\ at'[s] = IF fresh = new THEN "reading" ELSE "ended"
      /\ got'[s] = got[s] + n /\ buffer'[s] = Incomplete(text)
      /\ output'[s] = output[s] \o Contents(fresh)
      /\ tokenCount'[s] = Usage(fresh, tokenCount[s])
  BY <1>0, <1>1 DEF StreamInv, Domains
<1>5. \A t \in Stream : t # s => Same(t) /\ at'[t] = at[t]
  BY <1>0, <1>2 DEF StreamInv, Domains, Same
<1>6. Reads(s)'
  <2>1. PICK lines \in Answers \cup {<<>>}, cut \in BOOLEAN :
          /\ ReadUpTo(lines, cut, body[s], got[s], output[s], tokenCount[s])
          /\ StillOpen(lines, body[s], got[s], buffer[s])
    BY <1>2 DEF StreamInv, Reads, Active
  <2>2. PICK b, g, out, c, left :
          b = body[s] /\ g = got[s] /\ out = output[s] /\ c = tokenCount[s] /\ left = buffer[s]
    OBVIOUS
  <2>3. /\ ReadUpTo(lines, cut, b, g, out, c) /\ StillOpen(lines, b, g, left)
        /\ n \in 1 .. Len(b) - g /\ text = left \o SubSeq(b, g + 1, g + n)
    BY <1>0, <1>1, <2>1, <2>2
  <2>4. /\ ReadUpTo(lines, cut, b, g + n, out \o Contents(fresh), Usage(fresh, c))
        /\ fresh = new => StillOpen(lines, b, g + n, Incomplete(text))
    BY <1>1, <2>3, ChunkIsReadRight
  <2>5. ReadUpTo(lines, cut, body'[s], got'[s], output'[s], tokenCount'[s])
    BY <1>2, <1>4, <2>2, <2>4
  <2>6. at'[s] \in Active => StillOpen(lines, body'[s], got'[s], buffer'[s])
    BY <1>2, <1>4, <2>2, <2>4 DEF Active
  <2> QED BY <2>5, <2>6 DEF Reads
<1>7. ASSUME NEW t \in Stream PROVE Reads(t)' /\ Unread(t)'
  <2>1. CASE t = s
    <3>1. Unread(t)'
      BY <1>4, <2>1 DEF Unread
    <3> QED BY <1>6, <2>1, <3>1
  <2>2. CASE t # s
    <3>1. Same(t) /\ at'[t] = at[t]
      BY <1>5, <2>2
    <3>2. Reads(t)'
      BY <3>1, SameReads DEF StreamInv
    <3> QED BY <3>1, <3>2 DEF StreamInv, Unread, Same
  <2> QED BY <2>1, <2>2
<1>8. EndedStay
  BY <1>2, <1>5 DEF EndedStay, Same
<1>9. \A t \in Stream : CountOf(takenFrom[t], stepTokens[t])'
  BY <1>2, <1>8, CountsStay
<1>10. CountOf(setBy, lastTokenCount)'
  BY <1>2, <1>8, FieldStays
<1> QED BY <1>3, <1>7, <1>9, <1>10 DEF StreamInv

\* Steps that read nothing and write the field or read it.
LEMMA EndOfBodyStep ==
  ASSUME OpenRouterAssumption, StreamInv, NEW s \in Stream, EndOfBody(s)
  PROVE  StreamInv'
<1>1. /\ at[s] = "reading" /\ at' = [at EXCEPT ![s] = "ended"]
      /\ lastTokenCount' = tokenCount[s] /\ setBy' = s
      /\ UNCHANGED <<body, got, buffer, output, tokenCount, stepTokens, takenFrom>>
  BY DEF EndOfBody, Attach, Goto, stream, result
<1>2. Domains'
  BY <1>1 DEF StreamInv, Domains, Stages
<1>3. \A t \in Stream : at'[t] = IF t = s THEN "ended" ELSE at[t]
  BY <1>1 DEF StreamInv, Domains
<1>4. ASSUME NEW t \in Stream PROVE Reads(t)' /\ Unread(t)'
  <2>1. Same(t) /\ (at'[t] \in Active => at[t] \in Active)
    BY <1>1, <1>3 DEF Same, Active
  <2>2. Reads(t)'
    BY <2>1, SameReads DEF StreamInv
  <2> QED BY <1>1, <1>3, <2>2 DEF StreamInv, Unread
<1>5. EndedStay
  BY <1>1, <1>3 DEF EndedStay
<1>6. \A t \in Stream : CountOf(takenFrom[t], stepTokens[t])'
  BY <1>1, <1>5, CountsStay
<1>7. CountOf(setBy, lastTokenCount)'
  BY <1>1, <1>3 DEF CountOf, OpenRouterAssumption
<1> QED BY <1>2, <1>4, <1>6, <1>7 DEF StreamInv

LEMMA TakeCountStep ==
  ASSUME StreamInv, NEW s \in Stream, TakeCount(s)
  PROVE  StreamInv'
<1>1. /\ at[s] = "ended" /\ at' = [at EXCEPT ![s] = "finished"]
      /\ stepTokens' = [stepTokens EXCEPT ![s] = lastTokenCount]
      /\ takenFrom' = [takenFrom EXCEPT ![s] = setBy]
      /\ UNCHANGED <<body, got, buffer, output, tokenCount, lastTokenCount, setBy>>
  BY DEF TakeCount, Goto, stream, shared
<1>2. Domains'
  BY <1>1 DEF StreamInv, Domains, Stages
<1>3. \A t \in Stream : /\ at'[t] = IF t = s THEN "finished" ELSE at[t]
                        /\ stepTokens'[t] = IF t = s THEN lastTokenCount ELSE stepTokens[t]
                        /\ takenFrom'[t] = IF t = s THEN setBy ELSE takenFrom[t]
  BY <1>1 DEF StreamInv, Domains
<1>4. ASSUME NEW t \in Stream PROVE Reads(t)' /\ Unread(t)'
  <2>1. Same(t) /\ (at'[t] \in Active => at[t] \in Active)
    BY <1>1, <1>3 DEF Same, Active
  <2>2. Reads(t)'
    BY <2>1, SameReads DEF StreamInv
  <2> QED BY <1>1, <1>3, <2>2 DEF StreamInv, Unread
<1>5. EndedStay
  BY <1>1, <1>3 DEF EndedStay
<1>6. CountOf(setBy, lastTokenCount)'
  BY <1>1, <1>5, FieldStays
<1>7. ASSUME NEW t \in Stream PROVE CountOf(takenFrom[t], stepTokens[t])'
  <2>1. PICK u, c : u = takenFrom'[t] /\ c = stepTokens'[t]
    OBVIOUS
  <2>2. CountOf(u, c)
    BY <1>3, <2>1 DEF StreamInv
  <2>3. CountOf(u, c)'
    BY <1>5, <2>2, CountStays
  <2> QED BY <2>1, <2>3
<1> QED BY <1>2, <1>4, <1>6, <1>7 DEF StreamInv

LEMMA NextReads == OpenRouterAssumption /\ StreamInv /\ [Next]_vars => StreamInv'
<1> SUFFICES ASSUME OpenRouterAssumption, StreamInv, [Next]_vars PROVE StreamInv'
  OBVIOUS
<1>1. CASE UNCHANGED vars
  <2>1. UNCHANGED <<at, body, got, buffer, output, tokenCount, stepTokens, takenFrom,
                    lastTokenCount, setBy>>
    BY <1>1 DEF vars, stream, shared, result
  <2> QED BY <2>1 DEF StreamInv, Domains, Reads, Unread, CountOf
<1>2. ASSUME NEW s \in Stream, StepTimeout(s) PROVE StreamInv'
  <2>1. UNCHANGED <<at, body, got, buffer, output, tokenCount, stepTokens, takenFrom,
                    lastTokenCount, setBy>>
    BY <1>2 DEF StepTimeout, stream, shared
  <2> QED BY <2>1 DEF StreamInv, Domains, Reads, Unread, CountOf
<1>3. ASSUME NEW s \in Stream, NEW label \in Stages, at[s] \in Active, Goto(s, label),
             label \in {"idle", "fetching", "delay"} => at[s] \in {"idle", "fetching", "delay"},
             UNCHANGED <<body, got, buffer, output, tokenCount, stepTokens, takenFrom, shared>>
      PROVE  StreamInv'
  BY <1>3, QuietStep DEF Goto
<1>4. ASSUME NEW s \in Stream, at[s] \in Active, Throw(s) PROVE StreamInv'
  <2>1. UNCHANGED <<body, got, buffer, output, tokenCount, stepTokens, takenFrom, shared>>
    BY <1>4 DEF Throw, stream
  <2>2. "failed" \in Stages /\ Goto(s, "failed")
    BY <1>4 DEF Throw, Stages
  <2> QED BY <1>3, <1>4, <2>1, <2>2
<1>5. ASSUME NEW s \in Stream, Start(s) PROVE StreamInv'
  <2>1. /\ UNCHANGED <<body, got, buffer, output, tokenCount, stepTokens, takenFrom, shared>>
        /\ at[s] = "idle" /\ Goto(s, "fetching")
    BY <1>5 DEF Start, stream
  <2> QED BY <1>3, <2>1 DEF Stages, Active
<1>6. ASSUME NEW s \in Stream, Busy(s) PROVE StreamInv'
  <2>1. CASE Throw(s)
    BY <1>4, <1>6, <2>1 DEF Busy, Active
  <2>2. CASE Goto(s, "delay") /\ UNCHANGED <<stream, shared, result>>
    <3>1. /\ UNCHANGED <<body, got, buffer, output, tokenCount, stepTokens, takenFrom, shared>>
          /\ at[s] = "fetching"
      BY <1>6, <2>2 DEF Busy, stream, result
    <3> QED BY <1>3, <2>2, <3>1 DEF Stages, Active
  <2> QED BY <1>6, <2>1, <2>2 DEF Busy
<1>7. ASSUME NEW s \in Stream, Retry(s) PROVE StreamInv'
  <2>1. /\ UNCHANGED <<body, got, buffer, output, tokenCount, stepTokens, takenFrom, shared>>
        /\ at[s] = "delay" /\ Goto(s, "fetching")
    BY <1>7 DEF Retry, result
  <2> QED BY <1>3, <2>1 DEF Stages, Active
<1>8. ASSUME NEW s \in Stream, FetchFails(s) PROVE StreamInv'
  BY <1>4, <1>8 DEF FetchFails, Active
<1>9. ASSUME NEW s \in Stream, ReadFails(s) PROVE StreamInv'
  BY <1>4, <1>9 DEF ReadFails, Active
<1> QED
  BY <1>1, <1>2, <1>5, <1>6, <1>7, <1>8, <1>9,
     AcceptedStep, ReadChunkStep, EndOfBodyStep, TakeCountStep DEF Next

-----------------------------------------------------------------------------

\* Whatever the answers and however the network cuts them, a stream yields the
\* tokens of the complete lines it received, each once and in order, up to the
\* first [DONE], and counts the usage they report: the buffer that
\* streamCompletion keeps between two chunks makes the cuts invisible.
THEOREM ChunkingIsInvisible == Spec => []ChunkingInvisible
<1>1. StreamInv => ChunkingInvisible
  BY OpenRouterAssumption, ReceivedIs DEF StreamInv, ChunkingInvisible
<1> QED BY <1>1, InitReads, NextReads, OpenRouterAssumption, PTL DEF Spec

\* A step that completes is charged the usage of the stream that last came to
\* the end of its body in this worker, and nothing before there was one: that
\* and no more is what the shared field _lastTokenCount holds.
THEOREM CountIsOfLastEnded == Spec => []CountOfLastEnded
<1>1. StreamInv => CountOfLastEnded
  <2> SUFFICES ASSUME StreamInv, NEW s \in Stream
               PROVE  stepTokens[s] = IF takenFrom[s] = NoStream THEN 0
                                      ELSE Usage(Received(takenFrom[s]), 0)
    BY DEF CountOfLastEnded
  <2>1. CountOf(takenFrom[s], stepTokens[s])
    BY DEF StreamInv
  <2>2. takenFrom[s] # NoStream =>
          tokenCount[takenFrom[s]] = Usage(Received(takenFrom[s]), 0)
    BY <2>1, OpenRouterAssumption, ReceivedIs DEF StreamInv, CountOf
  <2> QED BY <2>1, <2>2 DEF CountOf
<1> QED BY <1>1, InitReads, NextReads, OpenRouterAssumption, PTL DEF Spec
=============================================================================
