--------------------------- MODULE WorkflowProofs ---------------------------
(***************************************************************************)
(* What Workflow promises for any finite set of agents and of connections, *)
(* and for any graph that can be drawn with them.                          *)
(***************************************************************************)
EXTENDS Workflow, FiniteSetTheorems, SequenceTheorems, TLAPS

Phases == {"check", "refused", "saved", "recheck", "thrown", "degrees", "sort",
           "run", "failed", "completed"}
Running == {"run", "failed", "completed"}

Distinct(seq) == \A i, j \in DOMAIN seq : seq[i] = seq[j] => i = j

-----------------------------------------------------------------------------
\* The inductive invariant.

Types ==
    /\ link \in [Connection -> (Agent \X Agent) \cup {NoLink}]
    /\ enabled \subseteq Agent
    /\ phase \in Phases
    /\ nodes \subseteq Agent
    /\ visited \subseteq nodes
    /\ path \in Seq(visited)
    /\ todo \in [Agent -> SUBSET Connection]
    /\ inDegree \in [Agent -> Int]
    /\ queue \in Seq(Agent) /\ sorted \in Seq(Agent)
    /\ steps \in Seq(Agent)
    /\ inputs \in [Agent -> SUBSET Agent]

\* saveTeamGraph looks at all agents; a run at those that are enabled.
NodesAre ==
    /\ phase \in {"check", "refused", "saved"} => nodes = Agent
    /\ phase \in {"recheck", "thrown", "degrees", "sort"} => nodes = enabled
    /\ phase \in Running /\ Connected => nodes = enabled
    /\ phase \notin {"check", "refused", "recheck", "thrown"} => path = <<>>

\* The nodes that dfs has returned from.
Black == visited \ Elements(path)

\* The stack is a walk through the graph; what hangs off it and is not to be
\* looked at any more is black.
StackIsWalk ==
    /\ Distinct(path)
    /\ \A i \in 1 .. Len(path) - 1 : \E c \in Edges : From(c) = path[i] /\ To(c) = path[i + 1]
    /\ \A i \in DOMAIN path :
         /\ todo[path[i]] \subseteq Children(path[i])
         /\ \A c \in Children(path[i]) \ todo[path[i]] :
              To(c) \in Black \/ (i < Len(path) /\ To(c) = path[i + 1])

\* No edge leads out of the black nodes, and no cycle lies within them.
BlackIsDone ==
    /\ \A c \in Edges : From(c) \in Black => To(c) \in Black
    /\ ~ Cyclic(Black)

\* The edges to n that come from a node which is not sorted yet.
Waiting(n) == {c \in Parents(n) : From(c) \notin Elements(sorted)}

ParentsFirst ==
    \A j \in DOMAIN sorted : \A c \in Parents(sorted[j]) : \E i \in 1 .. j - 1 : From(c) = sorted[i]

\* Kahn's loop: the in-degree counts the edges from nodes that are not sorted,
\* and the queue holds the nodes that are not sorted and have none.
QueueIsReady ==
    /\ Distinct(sorted) /\ Elements(sorted) \subseteq nodes /\ ParentsFirst
    /\ Distinct(queue)
    /\ \A n \in nodes : inDegree[n] = Cardinality(Waiting(n))
    /\ Elements(queue) = {n \in nodes \ Elements(sorted) : inDegree[n] = 0}

\* The order that runPipeline executes.
OrderIsRight ==
    /\ Distinct(sorted) /\ Elements(sorted) = enabled
    /\ Connected => ParentsFirst

\* The steps are a prefix of the order.
StepsFollowOrder ==
    /\ Len(steps) <= Len(sorted)
    /\ \A i \in DOMAIN steps : steps[i] = sorted[i]

IInv ==
    /\ Types /\ NodesAre
    /\ StackIsWalk /\ BlackIsDone
    /\ RefusedIffCyclic /\ AcceptedRuns
    /\ phase \in {"check", "refused", "saved", "recheck", "degrees"} => sorted = <<>>
    /\ phase \notin Running => steps = <<>>
    /\ phase = "sort" => QueueIsReady
    /\ phase \in Running => OrderIsRight
    /\ StepsFollowOrder /\ InputsAreParents

-----------------------------------------------------------------------------
\* Sequences and links.

LEMMA PairIsNoTuple == \A a, b : <<a, b>> # NoLink
<1> SUFFICES ASSUME NEW a, NEW b, <<a, b>> = <<>> PROVE FALSE
  BY DEF NoLink
<1>1. Len(<<a, b>>) = 2 /\ Len(<<>>) = 0
  OBVIOUS
<1> QED BY <1>1

LEMMA LastOrBefore == \A m \in Nat : \A i \in 1 .. m : i = m \/ i < m
OBVIOUS

LEMMA ElementsAppend ==
  ASSUME NEW S, NEW seq \in Seq(S), NEW e \in S
  PROVE  /\ Elements(Append(seq, e)) = Elements(seq) \cup {e}
         /\ Distinct(seq) /\ e \notin Elements(seq) => Distinct(Append(seq, e))
<1> DEFINE longer == Append(seq, e)
<1>1. /\ DOMAIN seq = 1 .. Len(seq) /\ Len(seq) \in Nat
      /\ DOMAIN longer = 1 .. Len(seq) + 1
      /\ \A i \in 1 .. Len(seq) : longer[i] = seq[i]
      /\ longer[Len(seq) + 1] = e
  BY AppendProperties, LenProperties
<1> HIDE DEF longer
<1>2. Elements(longer) = Elements(seq) \cup {e}
  BY <1>1 DEF Elements
<1>3. Distinct(seq) /\ e \notin Elements(seq) => Distinct(longer)
  BY <1>1 DEF Elements, Distinct
<1> QED BY <1>2, <1>3 DEF longer

\* A sequence without its last element.
LEMMA ElementsFront ==
  ASSUME NEW S, NEW seq \in Seq(S), seq # <<>>, Distinct(seq)
  PROVE  LET front == SubSeq(seq, 1, Len(seq) - 1)
         IN  /\ front \in Seq(S) /\ Len(front) = Len(seq) - 1
             /\ \A i \in 1 .. Len(seq) - 1 : front[i] = seq[i]
             /\ Elements(front) = Elements(seq) \ {seq[Len(seq)]}
             /\ Distinct(front)
<1> DEFINE front == SubSeq(seq, 1, Len(seq) - 1)
<1>1. Len(seq) \in Nat \ {0} /\ DOMAIN seq = 1 .. Len(seq)
  BY EmptySeq, LenProperties
<1>2. \A i \in 1 .. Len(seq) - 1 : seq[i] \in S
  BY <1>1, ElementOfSeq
<1>3. /\ front \in Seq(S) /\ Len(front) = Len(seq) - 1
      /\ \A i \in 1 .. Len(seq) - 1 : front[i] = seq[i]
  BY <1>1, <1>2, SubSeqProperties
<1> HIDE DEF front
<1>4. DOMAIN front = 1 .. Len(seq) - 1
  BY <1>1, <1>3, LenProperties
<1>5. Elements(front) = Elements(seq) \ {seq[Len(seq)]}
  <2>1. Elements(seq) = {seq[i] : i \in 1 .. Len(seq)}
    BY <1>1 DEF Elements
  <2>2. Elements(front) = {seq[i] : i \in 1 .. Len(seq) - 1}
    BY <1>3, <1>4 DEF Elements
  <2>3. \A i \in 1 .. Len(seq) - 1 : seq[i] # seq[Len(seq)]
    BY <1>1 DEF Distinct
  <2> QED BY <1>1, <2>1, <2>2, <2>3
<1>6. Distinct(front)
  BY <1>1, <1>3, <1>4 DEF Distinct
<1> QED BY <1>1, <1>3, <1>5, <1>6 DEF front

LEMMA SeqFacts ==
  ASSUME Types
  PROVE  /\ Len(path) \in Nat /\ DOMAIN path = 1 .. Len(path)
         /\ \A i \in 1 .. Len(path) : path[i] \in visited
         /\ Elements(path) \subseteq visited
         /\ path # <<>> => Len(path) # 0 /\ Top \in visited /\ Top \in Elements(path)
<1>1. Len(path) \in Nat /\ DOMAIN path = 1 .. Len(path) /\ \A i \in 1 .. Len(path) : path[i] \in visited
  BY LenProperties, ElementOfSeq DEF Types
<1>2. path # <<>> => Len(path) # 0
  BY EmptySeq DEF Types
<1> QED BY <1>1, <1>2 DEF Elements, Top

LEMMA EdgeFacts ==
  ASSUME Types
  PROVE  /\ Edges \subseteq Connection
         /\ \A c \in Edges : From(c) \in nodes /\ To(c) \in nodes /\ link[c] = <<From(c), To(c)>>
         /\ \A c \in Connection, n, m \in nodes : link[c] = <<n, m>> => c \in Edges /\ From(c) = n /\ To(c) = m
<1>1. ASSUME NEW c \in Edges
      PROVE  c \in Connection /\ From(c) \in nodes /\ To(c) \in nodes /\ link[c] = <<From(c), To(c)>>
  <2>1. c \in Connection /\ link[c] \in nodes \X nodes
    BY DEF Edges
  <2> QED BY <2>1 DEF From, To
<1>2. ASSUME NEW c \in Connection, NEW n \in nodes, NEW m \in nodes, link[c] = <<n, m>>
      PROVE  c \in Edges /\ From(c) = n /\ To(c) = m
  BY <1>2 DEF Edges, From, To
<1> QED BY <1>1, <1>2

-----------------------------------------------------------------------------
\* detectCycle.

Search == StackIsWalk /\ BlackIsDone

LEMMA EdgesStay ==
  ASSUME UNCHANGED <<link, nodes>>
  PROVE  /\ Edges' = Edges
         /\ \A c : From(c)' = From(c) /\ To(c)' = To(c)
         /\ \A n : Children(n)' = Children(n) /\ Parents(n)' = Parents(n)
         /\ \A S : Cyclic(S)' <=> Cyclic(S)
<1>1. Edges' = Edges
  BY DEF Edges
<1>2. \A c : From(c)' = From(c) /\ To(c)' = To(c)
  BY DEF From, To
<1>3. \A n : Children(n)' = Children(n) /\ Parents(n)' = Parents(n)
  BY <1>1, <1>2 DEF Children, Parents
<1>4. \A S : Cyclic(S)' <=> Cyclic(S)
  BY <1>2 DEF Cyclic
<1> QED BY <1>1, <1>2, <1>3, <1>4

LEMMA SearchStays ==
  ASSUME Search, UNCHANGED <<link, nodes, dfs>>
  PROVE  Search'
<1>1. Edges' = Edges /\ \A c : From(c)' = From(c) /\ To(c)' = To(c)
  BY EdgesStay
<1>2. path' = path /\ todo' = todo /\ visited' = visited /\ link' = link
  BY DEF dfs
<1> QED BY <1>1, <1>2 DEF Search, StackIsWalk, BlackIsDone, Black, Cyclic, Distinct, Elements, Children,
           From, To

\* A call of dfs, from the outer loop or for a child of the node on top.
LEMMA EnterKeepsSearch ==
  ASSUME IInv, NEW n \in nodes \ visited, Enter(n), UNCHANGED <<link, nodes>>,
         path # <<>> => \E c \in Edges : From(c) = Top /\ To(c) = n,
         todo'[n] = Children(n),
         \A i \in DOMAIN path :
            /\ todo'[path[i]] \subseteq Children(path[i])
            /\ \A c \in Children(path[i]) \ todo'[path[i]] :
                 c \in todo[path[i]] => i = Len(path) /\ To(c) = n
  PROVE  Search' /\ visited' \subseteq nodes' /\ path' \in Seq(visited')
<1>1. /\ Len(path) \in Nat /\ DOMAIN path = 1 .. Len(path)
      /\ \A i \in 1 .. Len(path) : path[i] \in visited
      /\ path # <<>> => Len(path) # 0
      /\ Elements(path) \subseteq visited
  BY SeqFacts DEF IInv
<1>2. path \in Seq(visited \cup {n}) /\ visited \subseteq nodes /\ nodes \subseteq Agent
  BY SeqMonotonic DEF IInv, Types
<1>3. /\ path' \in Seq(visited \cup {n})
      /\ Len(path') = Len(path) + 1
      /\ \A i \in 1 .. Len(path) : path'[i] = path[i]
      /\ path'[Len(path) + 1] = n
      /\ DOMAIN path' = 1 .. Len(path) + 1
  <2>1. path' = Append(path, n)
    BY DEF Enter
  <2>2. path' \in Seq(visited \cup {n}) /\ Len(path') = Len(path) + 1
        /\ (\A i \in 1 .. Len(path) : path'[i] = path[i]) /\ path'[Len(path) + 1] = n
    BY <1>2, <2>1, AppendProperties
  <2> QED BY <2>2, LenProperties
<1>4. Elements(path)' = Elements(path) \cup {n} /\ Distinct(path)'
  <2>1. Distinct(path) /\ n \notin Elements(path)
    BY <1>1 DEF IInv, StackIsWalk
  <2>2. Elements(Append(path, n)) = Elements(path) \cup {n} /\ Distinct(Append(path, n))
    BY <1>2, <2>1, ElementsAppend
  <2> QED BY <2>2 DEF Enter, Elements, Distinct
<1>5. Black' = Black
  BY <1>1, <1>4 DEF Black, Enter
<1>6. /\ Edges' = Edges
      /\ \A c : From(c)' = From(c) /\ To(c)' = To(c)
      /\ \A m : Children(m)' = Children(m)
  BY EdgesStay
<1>7. BlackIsDone'
  <2>1. BlackIsDone
    BY DEF IInv
  <2>2. \A c \in Edges' : From(c)' \in Black' => To(c)' \in Black'
    BY <1>5, <1>6, <2>1 DEF BlackIsDone
  <2>3. ~ Cyclic(Black)'
    BY <1>5, <1>6, <2>1 DEF BlackIsDone, Cyclic
  <2> QED BY <2>2, <2>3 DEF BlackIsDone
<1>8. \A i \in 1 .. Len(path') - 1 : \E c \in Edges : From(c) = path'[i] /\ To(c) = path'[i + 1]
  <2> SUFFICES ASSUME NEW i \in 1 .. Len(path)
               PROVE  \E c \in Edges : From(c) = path'[i] /\ To(c) = path'[i + 1]
    BY <1>3
  <2>1. CASE i = Len(path)
    BY <1>1, <1>3, <2>1, EmptySeq DEF Top
  <2>2. CASE i < Len(path)
    BY <1>1, <1>3, <2>2 DEF IInv, StackIsWalk
  <2>3. i = Len(path) \/ i < Len(path)
    BY <1>1, LastOrBefore
  <2> QED BY <2>1, <2>2, <2>3, Zenon
<1>9. ASSUME NEW i \in DOMAIN path'
      PROVE  /\ todo'[path'[i]] \subseteq Children(path'[i])
             /\ \A c \in Children(path'[i]) \ todo'[path'[i]] :
                  To(c) \in Black \/ (i < Len(path') /\ To(c) = path'[i + 1])
  <2>1. CASE i = Len(path) + 1
    BY <1>3, <2>1
  <2>2. CASE i \in 1 .. Len(path)
    <3>1. path'[i] = path[i] /\ i \in DOMAIN path
      BY <1>1, <1>3, <2>2
    <3>2. \A c \in Children(path[i]) \ todo[path[i]] :
            To(c) \in Black \/ (i < Len(path) /\ To(c) = path[i + 1])
      BY <3>1 DEF IInv, StackIsWalk
    <3>3. i < Len(path) => path'[i + 1] = path[i + 1]
      BY <1>1, <1>3, <2>2
    <3> QED BY <1>1, <1>3, <2>2, <3>1, <3>2, <3>3
  <2> QED BY <1>3, <2>1, <2>2
<1>10. StackIsWalk'
  <2>1. \A m : Children(m) = {c \in Edges : From(c) = m}
    BY DEF Children
  <2> QED BY <1>4, <1>5, <1>6, <1>8, <1>9, <2>1 DEF StackIsWalk, Children
<1>11. visited' \subseteq nodes' /\ path' \in Seq(visited')
  BY <1>2, <1>3 DEF Enter
<1> QED BY <1>7, <1>10, <1>11 DEF Search

\* The stack holds every node on it once.
LEMMA SameNodeSameIndex ==
  ASSUME Types, Distinct(path), NEW i \in 1 .. Len(path), NEW j \in 1 .. Len(path), path[i] = path[j]
  PROVE  i = j
BY SeqFacts DEF Distinct

LEMMA VisitRootKeepsSearch ==
  ASSUME IInv, VisitRoot
  PROVE  Search' /\ visited' \subseteq nodes' /\ path' \in Seq(visited')
<1>1. PICK n \in nodes \ visited : Enter(n) /\ todo' = [todo EXCEPT ![n] = Children(n)]
  BY DEF VisitRoot
<1>2. UNCHANGED <<link, nodes>> /\ path = <<>> /\ DOMAIN path = {}
  <2>1. path = <<>> /\ Len(path) = 0
    BY EmptySeq DEF VisitRoot
  <2> QED BY <2>1, SeqFacts DEF VisitRoot, graph, IInv
<1>3. todo'[n] = Children(n)
  BY <1>1 DEF IInv, Types
<1> QED BY <1>1, <1>2, <1>3, EnterKeepsSearch

\* A child that is visited and not in the stack is black.
LEMMA SkipKeepsSearch ==
  ASSUME IInv, UNCHANGED <<link, nodes, visited, path>>, path # <<>>,
         NEW c \in todo[Top], To(c) \in visited \ Elements(path),
         todo' = [todo EXCEPT ![Top] = @ \ {c}]
  PROVE  Search'
<1>1. /\ Edges' = Edges
      /\ \A d : From(d)' = From(d) /\ To(d)' = To(d)
  BY EdgesStay
<1>2. Black' = Black
  BY DEF Black, Elements
<1>3. BlackIsDone'
  <2>1. BlackIsDone
    BY DEF IInv
  <2>2. \A d \in Edges' : From(d)' \in Black' => To(d)' \in Black'
    BY <1>1, <1>2, <2>1 DEF BlackIsDone
  <2>3. ~ Cyclic(Black)'
    BY <1>1, <1>2, <2>1 DEF BlackIsDone, Cyclic
  <2> QED BY <2>2, <2>3 DEF BlackIsDone
<1>4. \A i \in DOMAIN path :
        /\ todo'[path[i]] \subseteq todo[path[i]]
        /\ todo[path[i]] \subseteq todo'[path[i]] \cup {c}
  <2> SUFFICES ASSUME NEW i \in DOMAIN path
               PROVE  /\ todo'[path[i]] \subseteq todo[path[i]]
                      /\ todo[path[i]] \subseteq todo'[path[i]] \cup {c}
    OBVIOUS
  <2>1. path[i] \in Agent /\ todo \in [Agent -> SUBSET Connection]
    BY SeqFacts DEF IInv, Types
  <2> QED BY <2>1
<1>5. \A i \in DOMAIN path :
        /\ todo'[path[i]] \subseteq Children(path[i])
        /\ \A d \in Children(path[i]) \ todo'[path[i]] :
             To(d) \in Black \/ (i < Len(path) /\ To(d) = path[i + 1])
  <2>1. StackIsWalk
    BY DEF IInv
  <2> QED BY <1>4, <2>1 DEF StackIsWalk, Black
<1>6. StackIsWalk'
  <2>1. StackIsWalk /\ path' = path
    BY DEF IInv
  <2>2. Distinct(path)'
    BY <2>1 DEF StackIsWalk, Distinct
  <2>3. \A m : Children(m) = {d \in Edges : From(d) = m}
    BY DEF Children
  <2> QED BY <1>1, <1>2, <1>5, <2>1, <2>2, <2>3 DEF StackIsWalk, Children
<1> QED BY <1>3, <1>6 DEF Search

\* dfs returns from a node all of whose children are black.
LEMMA BacktrackKeepsSearch ==
  ASSUME IInv, Backtrack
  PROVE  Search' /\ path' \in Seq(visited)
<1>1. /\ path # <<>> /\ todo[Top] = {} /\ path' = SubSeq(path, 1, Len(path) - 1)
      /\ UNCHANGED <<link, nodes, visited, todo>>
  BY DEF Backtrack, graph
<1>2. /\ Len(path) \in Nat \ {0} /\ DOMAIN path = 1 .. Len(path)
      /\ Top = path[Len(path)] /\ Top \in visited /\ Top \in nodes
      /\ Elements(path) \subseteq visited
  BY <1>1, SeqFacts DEF IInv, Types, Top
<1>3. StackIsWalk /\ BlackIsDone /\ Distinct(path)
  BY DEF IInv, StackIsWalk
<1>4. /\ path' \in Seq(visited) /\ Len(path') = Len(path) - 1
      /\ \A i \in 1 .. Len(path) - 1 : path'[i] = path[i]
      /\ Elements(path)' = Elements(path) \ {Top} /\ Distinct(path)'
      /\ DOMAIN path' = 1 .. Len(path) - 1
  <2>1. path \in Seq(visited)
    BY DEF IInv, Types
  <2> DEFINE front == SubSeq(path, 1, Len(path) - 1)
  <2>2. /\ front \in Seq(visited) /\ Len(front) = Len(path) - 1
        /\ \A i \in 1 .. Len(path) - 1 : front[i] = path[i]
        /\ Elements(front) = Elements(path) \ {path[Len(path)]} /\ Distinct(front)
    BY <1>1, <1>3, <2>1, ElementsFront
  <2>3. DOMAIN front = 1 .. Len(front)
    BY <2>2, LenProperties
  <2>4. path' = front
    BY <1>1
  <2> HIDE DEF front
  <2>5. Elements(path)' = Elements(front) /\ (Distinct(path)' <=> Distinct(front))
    BY <2>4 DEF Elements, Distinct
  <2> QED BY <1>2, <2>2, <2>3, <2>4, <2>5
<1>5. Black' = Black \cup {Top}
  BY <1>1, <1>2, <1>4 DEF Black
<1>6. /\ Edges' = Edges
      /\ \A c : From(c)' = From(c) /\ To(c)' = To(c)
  BY <1>1, EdgesStay
<1>7. \A c \in Edges : From(c) = Top => To(c) \in Black
  <2>1. \A c \in Children(Top) \ todo[Top] : To(c) \in Black
    BY <1>2, <1>3 DEF StackIsWalk
  <2> QED BY <1>1, <2>1 DEF Children
<1>8. \A c \in Edges' : From(c)' \in Black' => To(c)' \in Black'
  BY <1>3, <1>5, <1>6, <1>7 DEF BlackIsDone
<1>9. ~ Cyclic(Black \cup {Top})
  <2> SUFFICES ASSUME NEW T \in SUBSET (Black \cup {Top}), T # {},
                      \A n \in T : \E c \in Connection : link[c] \in T \X T /\ To(c) = n
               PROVE  FALSE
    BY DEF Cyclic
  <2>1. Top \in T
    BY <1>3 DEF BlackIsDone, Cyclic
  <2>2. PICK c \in Connection : link[c] \in T \X T /\ To(c) = Top
    BY <2>1
  <2>3. T \subseteq nodes
    BY <1>2 DEF Black, IInv, Types
  <2>4. c \in Edges /\ From(c) \in T
    BY <2>2, <2>3 DEF Edges, From
  <2>5. Top \in Black
    BY <1>3, <1>7, <2>2, <2>4 DEF BlackIsDone
  <2> QED BY <1>2, <2>5 DEF Black, Elements
<1>10. BlackIsDone'
  <2>1. ~ Cyclic(Black)'
    BY <1>5, <1>6, <1>9, <1>1 DEF Cyclic
  <2> QED BY <1>8, <2>1 DEF BlackIsDone
<1>11. ASSUME NEW i \in DOMAIN path'
       PROVE  /\ todo[path'[i]] \subseteq Children(path'[i])
              /\ \A c \in Children(path'[i]) \ todo[path'[i]] :
                   To(c) \in Black' \/ (i < Len(path') /\ To(c) = path'[i + 1])
  <2>1. i \in DOMAIN path /\ i < Len(path) /\ path'[i] = path[i]
    BY <1>2, <1>4
  <2>2. path[i + 1] = Top \/ (i < Len(path') /\ path'[i + 1] = path[i + 1])
    BY <1>2, <1>4, <2>1
  <2> QED BY <1>3, <1>5, <2>1, <2>2 DEF StackIsWalk
<1>12. \A i \in 1 .. Len(path') - 1 : \E c \in Edges : From(c) = path'[i] /\ To(c) = path'[i + 1]
  BY <1>2, <1>3, <1>4 DEF StackIsWalk
<1>13. StackIsWalk'
  <2>1. \A m : Children(m) = {c \in Edges : From(c) = m}
    BY DEF Children
  <2> QED BY <1>1, <1>4, <1>6, <1>11, <1>12, <2>1 DEF StackIsWalk, Children
<1> QED BY <1>4, <1>10, <1>13 DEF Search

\* A child of the node on top that is in the stack closes a cycle.
LEMMA StackClosesCycle ==
  ASSUME IInv, path # <<>>, NEW c \in todo[Top], To(c) \in Elements(path)
  PROVE  Cyclic(nodes)
<1>1. /\ Len(path) \in Nat \ {0} /\ DOMAIN path = 1 .. Len(path) /\ Top = path[Len(path)]
      /\ \A i \in 1 .. Len(path) : path[i] \in nodes
  BY SeqFacts DEF IInv, Types, Top
<1>2. StackIsWalk
  BY DEF IInv
<1>3. PICK k \in 1 .. Len(path) : To(c) = path[k]
  BY <1>1 DEF Elements
<1>4. c \in Edges /\ From(c) = Top
  BY <1>1, <1>2 DEF StackIsWalk, Children
<1> DEFINE T == {path[i] : i \in k .. Len(path)}
<1>5. T \in SUBSET nodes /\ T # {}
  BY <1>1, <1>3
<1>6. ASSUME NEW i \in k .. Len(path)
      PROVE  \E d \in Edges : From(d) \in T /\ To(d) = path[i]
  <2>1. CASE i = k
    BY <1>1, <1>3, <1>4, <2>1
  <2>2. CASE i # k
    <3>1. i - 1 \in 1 .. Len(path) - 1 /\ i - 1 \in k .. Len(path) /\ (i - 1) + 1 = i
      BY <1>1, <1>3, <2>2
    <3>2. \E d \in Edges : From(d) = path[i - 1] /\ To(d) = path[i]
      BY <1>2, <3>1 DEF StackIsWalk
    <3> QED BY <3>1, <3>2
  <2> QED BY <2>1, <2>2
<1>7. ASSUME NEW n \in T
      PROVE  \E d \in Connection : link[d] \in T \X T /\ To(d) = n
  <2>1. PICK d \in Edges : From(d) \in T /\ To(d) = n
    BY <1>6
  <2> HIDE DEF T
  <2>2. d \in Connection /\ link[d] = <<From(d), To(d)>>
    BY EdgeFacts DEF IInv
  <2>3. link[d] = <<From(d), n>> /\ From(d) \in T /\ n \in T
    BY <1>7, <2>1, <2>2
  <2>4. link[d] \in T \X T
    BY <2>3
  <2> QED BY <2>1, <2>2, <2>4
<1> QED BY <1>5, <1>7 DEF Cyclic

LEMMA DescendKeepsSearch ==
  ASSUME IInv, Descend
  PROVE  Search' /\ visited' \subseteq nodes' /\ path' \in Seq(visited')
<1>1. path # <<>> /\ UNCHANGED <<link, nodes>>
  BY DEF Descend, VisitChild, graph
<1>2. PICK c \in todo[Top] : VisitChild(c)
  BY DEF Descend
<1>3. /\ Len(path) \in Nat \ {0} /\ DOMAIN path = 1 .. Len(path)
      /\ Top = path[Len(path)] /\ Top \in visited /\ visited \subseteq nodes /\ nodes \subseteq Agent
      /\ \A i \in 1 .. Len(path) : path[i] \in visited
      /\ path \in Seq(visited) /\ todo \in [Agent -> SUBSET Connection]
  BY <1>1, SeqFacts DEF IInv, Types, Top
<1>4. StackIsWalk /\ Search /\ Distinct(path)
  BY DEF IInv, Search, StackIsWalk
<1>5. c \in Edges /\ From(c) = Top /\ To(c) \in nodes
  <2>1. c \in Edges /\ From(c) = Top
    BY <1>3, <1>4 DEF StackIsWalk, Children
  <2> QED BY <2>1, EdgeFacts DEF IInv
<1>6. CASE To(c) \in Elements(path)
  <2>1. UNCHANGED <<link, nodes, dfs>>
    BY <1>1, <1>2, <1>6 DEF VisitChild
  <2> QED BY <1>3, <1>4, <2>1, SearchStays DEF dfs
<1>7. CASE To(c) \in visited \ Elements(path)
  <2>1. /\ UNCHANGED <<link, nodes, visited, path>>
        /\ todo' = [todo EXCEPT ![Top] = @ \ {c}]
    BY <1>1, <1>2, <1>7 DEF VisitChild
  <2> QED BY <1>1, <1>3, <1>7, <2>1, SkipKeepsSearch
<1>8. CASE To(c) \in nodes \ visited
  <2>1. To(c) \notin Elements(path)
    BY <1>3, <1>8 DEF Elements
  <2>2. /\ Enter(To(c))
        /\ todo' = [todo EXCEPT ![Top] = @ \ {c}, ![To(c)] = Children(To(c))]
    BY <1>2, <1>8, <2>1 DEF VisitChild
  <2>3. To(c) # Top /\ To(c) \in Agent /\ Top \in Agent
    BY <1>3, <1>8
  <2>4. /\ todo'[To(c)] = Children(To(c))
        /\ todo'[Top] = todo[Top] \ {c}
        /\ \A n \in Agent \ {Top, To(c)} : todo'[n] = todo[n]
    BY <1>3, <2>2, <2>3
  <2>5. ASSUME NEW i \in DOMAIN path
        PROVE  /\ todo'[path[i]] \subseteq Children(path[i])
               /\ \A d \in Children(path[i]) \ todo'[path[i]] :
                    d \in todo[path[i]] => i = Len(path) /\ To(d) = To(c)
    <3>1. path[i] \in Agent \ {To(c)} /\ todo[path[i]] \subseteq Children(path[i])
      BY <1>3, <1>4, <1>8 DEF StackIsWalk
    <3>2. path[i] = Top => i = Len(path)
      BY <1>3, <1>4 DEF Distinct
    <3> QED BY <2>4, <3>1, <3>2
  <2> QED BY <1>1, <1>5, <1>8, <2>2, <2>4, <2>5, EnterKeepsSearch
<1> QED BY <1>5, <1>6, <1>7, <1>8

-----------------------------------------------------------------------------
\* The search as a whole: what it decides.

LEMMA NothingIsAcyclic == ~ Cyclic({})
BY DEF Cyclic

LEMMA CyclicGrows == \A S, T : S \subseteq T /\ Cyclic(S) => Cyclic(T)
BY DEF Cyclic

\* The outer loop ends with every node black.
LEMMA AllBlackIsAcyclic ==
  ASSUME IInv, NoCycle
  PROVE  ~ Cyclic(nodes)
<1>1. path = <<>> /\ nodes \subseteq visited
  BY DEF NoCycle
<1>2. Elements(path) = {}
  BY <1>1 DEF Elements
<1>3. Black = nodes
  BY <1>1, <1>2 DEF Black, IInv, Types
<1> QED BY <1>3 DEF IInv, BlackIsDone

LEMMA LoadKeepsSearch ==
  ASSUME IInv, Load
  PROVE  Search' /\ visited' \subseteq nodes' /\ path' \in Seq(visited')
<1>1. path = <<>> /\ path' = <<>> /\ UNCHANGED <<link, todo>>
  BY DEF IInv, NodesAre, Load, graph
<1>2. CASE UNCHANGED <<nodes, visited>>
  <2>1. UNCHANGED <<link, nodes, dfs>>
    BY <1>1, <1>2 DEF dfs
  <2> QED BY <1>1, <1>2, <2>1, SearchStays DEF IInv, Search, Types
<1>3. CASE visited' = {}
  <2>1. DOMAIN path' = {} /\ Len(path') = 0 /\ Elements(path)' = {} /\ path' \in Seq(visited')
    <3>1. Len(<<>>) = 0 /\ DOMAIN <<>> = {} /\ <<>> \in Seq(visited')
      BY EmptySeq
    <3> QED BY <1>1, <3>1 DEF Elements
  <2>2. Black' = {}
    BY <1>3, <2>1 DEF Black
  <2>3. BlackIsDone'
    BY <1>1, <2>2, NothingIsAcyclic DEF BlackIsDone, Cyclic
  <2>4. StackIsWalk'
    BY <2>1 DEF StackIsWalk, Distinct
  <2> QED BY <1>3, <2>1, <2>3, <2>4 DEF Search
<1> QED BY <1>2, <1>3 DEF Load

LEMMA NextKeepsSearch ==
  ASSUME IInv, Next
  PROVE  Search' /\ visited' \subseteq nodes' /\ path' \in Seq(visited')
<1>1. CASE VisitRoot
  BY <1>1, VisitRootKeepsSearch
<1>2. CASE Descend
  BY <1>2, DescendKeepsSearch
<1>3. CASE Backtrack
  BY <1>3, BacktrackKeepsSearch DEF Backtrack, IInv, Types
<1>4. CASE Load
  BY <1>4, LoadKeepsSearch
<1>5. CASE NoCycle \/ CountDegrees \/ Dequeue \/ Sorted \/ RunStep \/ RunFails \/ RunCompletes
  <2>1. UNCHANGED <<link, nodes, dfs>>
    BY <1>5 DEF NoCycle, CountDegrees, Dequeue, Sorted, RunStep, RunFails, RunCompletes, graph
  <2> QED BY <2>1, SearchStays DEF dfs, Search, IInv, Types
<1> QED BY <1>1, <1>2, <1>3, <1>4, <1>5 DEF Next

\* Nothing that is saved has a cycle, so that no later check can find one.
LEMMA NextKeepsVerdict ==
  ASSUME IInv, Next
  PROVE  RefusedIffCyclic' /\ AcceptedRuns'
<1>1. link' = link /\ nodes \subseteq Agent /\ (phase = "check" => nodes = Agent)
  BY DEF Next, VisitRoot, Descend, VisitChild, Backtrack, Load, NoCycle, CountDegrees, Dequeue, Sorted,
     RunStep, RunFails, RunCompletes, graph, IInv, Types, NodesAre
<1>2. Cyclic(Agent)' <=> Cyclic(Agent)
  BY <1>1 DEF Cyclic, To
<1>3. RefusedIffCyclic /\ AcceptedRuns
  BY DEF IInv
<1>4. CASE phase' = phase
  BY <1>2, <1>3, <1>4 DEF RefusedIffCyclic, AcceptedRuns
<1>5. CASE NoCycle
  <2>1. phase = "check" => ~ Cyclic(Agent)
    BY <1>1, <1>5, AllBlackIsAcyclic
  <2> QED BY <1>2, <1>3, <1>5, <2>1 DEF NoCycle, Checking, RefusedIffCyclic, AcceptedRuns
<1>6. CASE Descend /\ phase' # phase
  <2>1. PICK c \in todo[Top] : VisitChild(c)
    BY <1>6 DEF Descend
  <2>2. To(c) \in Elements(path) /\ phase' = IF phase = "check" THEN "refused" ELSE "thrown"
    BY <1>6, <2>1 DEF VisitChild
  <2>3. Cyclic(nodes)
    BY <1>6, <2>1, <2>2, StackClosesCycle DEF Descend
  <2>4. Cyclic(Agent)
    BY <1>1, <2>3, CyclicGrows
  <2> QED BY <1>2, <1>3, <1>6, <2>2, <2>4 DEF Descend, Checking, RefusedIffCyclic, AcceptedRuns
<1>7. CASE Load \/ CountDegrees \/ Sorted \/ RunFails \/ RunCompletes
  BY <1>2, <1>3, <1>7 DEF Load, CountDegrees, Sorted, RunFails, RunCompletes, RefusedIffCyclic, AcceptedRuns
<1>8. CASE VisitRoot \/ Backtrack \/ Dequeue \/ RunStep
  BY <1>4, <1>8 DEF VisitRoot, Backtrack, Dequeue, RunStep
<1> QED BY <1>4, <1>5, <1>6, <1>7, <1>8 DEF Next

-----------------------------------------------------------------------------
\* Orders of finite sets, and the queue as a sequence.

LEMMA OrderingFacts ==
  ASSUME NEW S, IsFiniteSet(S), NEW seq \in Orderings(S)
  PROVE  /\ seq \in Seq(S) /\ Len(seq) = Cardinality(S) /\ Distinct(seq) /\ Elements(seq) = S
<1>1. Cardinality(S) \in Nat
  BY FS_CardinalityType
<1>2. /\ seq \in [1 .. Cardinality(S) -> S]
      /\ \A i, j \in 1 .. Cardinality(S) : seq[i] = seq[j] => i = j
  BY DEF Orderings
<1>3. seq \in Seq(S) /\ Len(seq) = Cardinality(S) /\ DOMAIN seq = 1 .. Cardinality(S)
  <2>1. seq \in Seq(S)
    BY <1>1, <1>2, SeqDef
  <2>2. DOMAIN seq = 1 .. Cardinality(S) /\ DOMAIN seq = 1 .. Len(seq) /\ Len(seq) \in Nat
    BY <1>2, <2>1, LenProperties
  <2>3. Len(seq) = Cardinality(S)
    BY <1>1, <2>1, <2>2, LenProperties
  <2> QED BY <2>1, <2>2, <2>3
<1>4. seq \in Injection(1 .. Cardinality(S), S)
  BY <1>2 DEF Injection, IsInjective
<1>5. Cardinality(1 .. Cardinality(S)) = Cardinality(S)
  BY <1>1, FS_Interval
<1>6. seq \in Surjection(1 .. Cardinality(S), S)
  BY <1>4, <1>5, FS_Injection
<1>7. Elements(seq) = S
  BY <1>2, <1>3, <1>6 DEF Elements, Surjection
<1> QED BY <1>2, <1>3, <1>7 DEF Distinct

\* Without its first element, and with others behind it.
LEMMA ElementsTail ==
  ASSUME NEW S, NEW seq \in Seq(S), seq # <<>>, Distinct(seq)
  PROVE  /\ Tail(seq) \in Seq(S) /\ Distinct(Tail(seq)) /\ Head(seq) \in Elements(seq)
         /\ Elements(Tail(seq)) = Elements(seq) \ {Head(seq)}
<1> DEFINE rest == Tail(seq)
<1>1. /\ Len(seq) \in Nat \ {0} /\ DOMAIN seq = 1 .. Len(seq) /\ Head(seq) = seq[1]
      /\ rest \in Seq(S) /\ Len(rest) = Len(seq) - 1
      /\ \A i \in 1 .. Len(rest) : rest[i] = seq[i + 1]
  BY EmptySeq, LenProperties, HeadTailProperties
<1>2. DOMAIN rest = 1 .. Len(seq) - 1
  BY <1>1, LenProperties
<1> HIDE DEF rest
<1>3. Distinct(rest) /\ Head(seq) \in Elements(seq)
  <2>1. Distinct(rest)
    <3>1. \A i \in DOMAIN rest : i + 1 \in DOMAIN seq /\ rest[i] = seq[i + 1] /\ i \in Nat
      BY <1>1, <1>2
    <3> SUFFICES ASSUME NEW i \in DOMAIN rest, NEW j \in DOMAIN rest, rest[i] = rest[j]
                 PROVE  i = j
      BY DEF Distinct
    <3>2. i + 1 = j + 1
      BY <3>1 DEF Distinct
    <3> QED BY <3>1, <3>2
  <2>2. Head(seq) \in Elements(seq)
    BY <1>1 DEF Elements
  <2> QED BY <2>1, <2>2
<1>4. Elements(rest) = {seq[i] : i \in 2 .. Len(seq)}
  <2>1. \A i \in 2 .. Len(seq) : i - 1 \in 1 .. Len(rest) /\ rest[i - 1] = seq[i]
    BY <1>1
  <2>2. \A i \in 1 .. Len(rest) : i + 1 \in 2 .. Len(seq)
    BY <1>1
  <2> QED BY <1>1, <1>2, <2>1, <2>2 DEF Elements
<1>5. \A i \in 2 .. Len(seq) : seq[i] # seq[1]
  BY <1>1 DEF Distinct
<1>6. Elements(seq) = {seq[i] : i \in 1 .. Len(seq)}
  BY <1>1 DEF Elements
<1>7. Elements(rest) = Elements(seq) \ {Head(seq)}
  BY <1>1, <1>4, <1>5, <1>6
<1> QED BY <1>1, <1>3, <1>7 DEF rest

LEMMA ElementsConcat ==
  ASSUME NEW S, NEW left \in Seq(S), NEW right \in Seq(S)
  PROVE  /\ left \o right \in Seq(S)
         /\ Elements(left \o right) = Elements(left) \cup Elements(right)
         /\ Distinct(left) /\ Distinct(right) /\ Elements(left) \cap Elements(right) = {}
            => Distinct(left \o right)
<1> DEFINE both == left \o right
<1>1. /\ both \in Seq(S) /\ Len(both) = Len(left) + Len(right)
      /\ \A i \in 1 .. Len(left) + Len(right) :
           both[i] = IF i <= Len(left) THEN left[i] ELSE right[i - Len(left)]
      /\ Len(left) \in Nat /\ Len(right) \in Nat
      /\ DOMAIN left = 1 .. Len(left) /\ DOMAIN right = 1 .. Len(right)
  BY ConcatProperties, LenProperties
<1>2. DOMAIN both = 1 .. Len(left) + Len(right)
  BY <1>1, LenProperties
<1> HIDE DEF both
<1>3. /\ \A i \in 1 .. Len(left) : i \in DOMAIN both /\ both[i] = left[i]
      /\ \A i \in 1 .. Len(right) : Len(left) + i \in DOMAIN both /\ both[Len(left) + i] = right[i]
  <2>1. ASSUME NEW i \in 1 .. Len(left) PROVE i \in DOMAIN both /\ both[i] = left[i]
    BY <1>1, <1>2
  <2>2. ASSUME NEW i \in 1 .. Len(right)
        PROVE  Len(left) + i \in DOMAIN both /\ both[Len(left) + i] = right[i]
    <3> DEFINE k == Len(left) + i
    <3>1. /\ k \in 1 .. Len(left) + Len(right) /\ ~ (k <= Len(left)) /\ k - Len(left) = i
      BY <1>1
    <3> HIDE DEF k
    <3>2. k \in DOMAIN both /\ both[k] = right[i]
      BY <1>1, <1>2, <3>1
    <3> QED BY <3>2 DEF k
  <2> QED BY <2>1, <2>2
<1>4. \A i \in DOMAIN both : \/ i \in 1 .. Len(left)
                             \/ i - Len(left) \in 1 .. Len(right) /\ i = Len(left) + (i - Len(left))
  BY <1>1, <1>2
<1>5. Elements(both) = Elements(left) \cup Elements(right)
  <2>1. Elements(left) \cup Elements(right) \subseteq Elements(both)
    <3>1. Elements(left) \subseteq Elements(both)
      BY <1>1, <1>3 DEF Elements
    <3>2. Elements(right) \subseteq Elements(both)
      BY <1>1, <1>3 DEF Elements
    <3> QED BY <3>1, <3>2
  <2>2. Elements(both) \subseteq Elements(left) \cup Elements(right)
    BY <1>1, <1>3, <1>4 DEF Elements
  <2> QED BY <2>1, <2>2
<1>6. ASSUME Distinct(left), Distinct(right), Elements(left) \cap Elements(right) = {}
      PROVE  Distinct(both)
  <2> SUFFICES ASSUME NEW i \in DOMAIN both, NEW j \in DOMAIN both, both[i] = both[j]
               PROVE  i = j
    BY DEF Distinct
  <2>1. \A k \in 1 .. Len(left), m \in 1 .. Len(right) : left[k] # right[m]
    BY <1>1, <1>6 DEF Elements
  <2>2. CASE i \in 1 .. Len(left) /\ j \in 1 .. Len(left)
    BY <1>1, <1>3, <1>6, <2>2 DEF Distinct
  <2>3. CASE i \notin 1 .. Len(left) /\ j \notin 1 .. Len(left)
    <3>1. i - Len(left) = j - Len(left)
      BY <1>1, <1>3, <1>4, <1>6, <2>3 DEF Distinct
    <3> QED BY <1>1, <1>2, <3>1
  <2>4. CASE ~ (i \in 1 .. Len(left) <=> j \in 1 .. Len(left))
    BY <1>1, <1>3, <1>4, <2>1, <2>4
  <2> QED BY <2>2, <2>3, <2>4
<1> QED BY <1>1, <1>5, <1>6 DEF both

-----------------------------------------------------------------------------
\* topologicalSort.

LEMMA FiniteGraph ==
  ASSUME Types
  PROVE  /\ IsFiniteSet(nodes) /\ IsFiniteSet(enabled)
         /\ \A n : /\ IsFiniteSet(Parents(n)) /\ IsFiniteSet(Children(n)) /\ IsFiniteSet(Waiting(n))
                   /\ Cardinality(Parents(n)) \in Nat /\ Cardinality(Waiting(n)) \in Nat
         /\ \A T \in SUBSET nodes : IsFiniteSet(T)
<1>1. \A T \in SUBSET nodes : IsFiniteSet(T)
  <2> SUFFICES ASSUME NEW T \in SUBSET nodes PROVE IsFiniteSet(T)
    OBVIOUS
  <2>1. T \in SUBSET Agent
    BY DEF Types
  <2> QED BY <2>1, WorkflowAssumption, FS_Subset
<1>2. IsFiniteSet(enabled)
  <2>1. enabled \in SUBSET Agent
    BY DEF Types
  <2> QED BY <2>1, WorkflowAssumption, FS_Subset
<1>3. ASSUME NEW n
      PROVE  /\ IsFiniteSet(Parents(n)) /\ IsFiniteSet(Children(n)) /\ IsFiniteSet(Waiting(n))
             /\ Cardinality(Parents(n)) \in Nat /\ Cardinality(Waiting(n)) \in Nat
  <2>1. /\ Parents(n) \in SUBSET Connection /\ Children(n) \in SUBSET Connection
        /\ Waiting(n) \in SUBSET Connection
    BY DEF Parents, Children, Waiting, Edges
  <2>2. IsFiniteSet(Parents(n)) /\ IsFiniteSet(Children(n)) /\ IsFiniteSet(Waiting(n))
    BY <2>1, WorkflowAssumption, FS_Subset
  <2> QED BY <2>2, FS_CardinalityType
<1> QED BY <1>1, <1>2, <1>3

LEMMA CountDegreesReadies ==
  ASSUME IInv, CountDegrees
  PROVE  QueueIsReady' /\ queue' \in Seq(Agent) /\ inDegree' \in [Agent -> Int]
<1>1. Types /\ sorted = <<>> /\ UNCHANGED <<link, nodes, sorted>> /\ nodes \subseteq Agent
  BY DEF IInv, Types, CountDegrees, graph
<1> DEFINE ready == {n \in nodes : Degree(n) = 0}
<1>2. /\ inDegree' = [n \in Agent |-> IF n \in nodes THEN Degree(n) ELSE 0]
      /\ queue' \in Orderings(ready)
  BY DEF CountDegrees
<1>3. Elements(sorted) = {} /\ DOMAIN sorted = {}
  BY <1>1 DEF Elements
<1>4. \A n : Waiting(n)' = Parents(n) /\ Parents(n)' = Parents(n)
  <2>1. /\ \A n : Parents(n)' = Parents(n)
        /\ \A c : From(c)' = From(c)
        /\ Elements(sorted)' = {}
    BY <1>1, <1>3, EdgesStay DEF Elements
  <2> QED BY <2>1 DEF Waiting
<1>5. IsFiniteSet(ready) /\ ready \subseteq Agent
  <2>1. ready \in SUBSET nodes
    OBVIOUS
  <2> QED BY <1>1, <2>1, FiniteGraph
<1> HIDE DEF ready
<1>6. queue' \in Seq(ready) /\ Distinct(queue') /\ Elements(queue') = ready
  BY <1>2, <1>5, OrderingFacts
<1>7. queue' \in Seq(Agent)
  BY <1>5, <1>6, SeqMonotonic
<1>8. inDegree' \in [Agent -> Int]
  BY <1>1, <1>2, FiniteGraph DEF Degree
<1>9. \A n \in nodes : inDegree'[n] = Cardinality(Waiting(n)')
  BY <1>1, <1>2, <1>4 DEF Degree
<1>10. ready = {n \in nodes \ {} : inDegree'[n] = 0}
  BY <1>1, <1>2 DEF ready
<1>11. Distinct(sorted)' /\ Elements(sorted)' = {} /\ DOMAIN sorted' = {}
  BY <1>1, <1>3 DEF Distinct, Elements
<1>12. Distinct(queue)' /\ Elements(queue)' = ready
  BY <1>6 DEF Distinct, Elements
<1>13. ParentsFirst'
  BY <1>11 DEF ParentsFirst
<1>14. QueueIsReady'
  BY <1>1, <1>9, <1>10, <1>11, <1>12, <1>13 DEF QueueIsReady
<1> QED BY <1>7, <1>8, <1>14

\* The node that is sorted next has no parent left to wait for.
LEMMA HeadIsReady ==
  ASSUME Types, QueueIsReady, queue # <<>>
  PROVE  /\ Head(queue) \in nodes \ Elements(sorted) /\ inDegree[Head(queue)] = 0
         /\ Waiting(Head(queue)) = {}
         /\ Tail(queue) \in Seq(Agent) /\ Distinct(Tail(queue))
         /\ Elements(Tail(queue)) = Elements(queue) \ {Head(queue)}
<1>1. queue \in Seq(Agent) /\ Distinct(queue)
  BY DEF Types, QueueIsReady
<1>2. /\ Tail(queue) \in Seq(Agent) /\ Distinct(Tail(queue)) /\ Head(queue) \in Elements(queue)
      /\ Elements(Tail(queue)) = Elements(queue) \ {Head(queue)}
  BY <1>1, ElementsTail
<1>3. Head(queue) \in nodes \ Elements(sorted) /\ inDegree[Head(queue)] = 0
  BY <1>2 DEF QueueIsReady
<1>4. Cardinality(Waiting(Head(queue))) = 0 /\ IsFiniteSet(Waiting(Head(queue)))
  BY <1>3, FiniteGraph DEF QueueIsReady
<1> QED BY <1>2, <1>3, <1>4, FS_EmptySet

\* What sorting a node takes from the in-degree of another.
LEMMA WaitingShrinks ==
  ASSUME Types, NEW h, h \notin Elements(sorted), NEW n
  PROVE  LET still == {c \in Parents(n) : From(c) \notin Elements(sorted) \cup {h}}
         IN  /\ Cardinality(still) = Cardinality(Waiting(n)) - Cardinality(Children(h) \cap Parents(n))
             /\ IsFiniteSet(still) /\ Cardinality(still) \in Nat
             /\ still \subseteq Waiting(n)
<1> DEFINE still == {c \in Parents(n) : From(c) \notin Elements(sorted) \cup {h}}
           through == Children(h) \cap Parents(n)
<1>1. still = Waiting(n) \ through /\ Waiting(n) \cap through = through
  BY DEF Waiting, Children, Parents
<1>2. IsFiniteSet(Waiting(n))
  BY FiniteGraph
<1>3. IsFiniteSet(still) /\ Cardinality(still) = Cardinality(Waiting(n)) - Cardinality(through)
  <2> HIDE DEF still, through
  <2>1. /\ IsFiniteSet(Waiting(n) \ through)
        /\ Cardinality(Waiting(n) \ through) = Cardinality(Waiting(n)) - Cardinality(Waiting(n) \cap through)
    BY <1>2, FS_Difference
  <2> QED BY <1>1, <2>1
<1>4. Cardinality(still) \in Nat
  BY <1>3, FS_CardinalityType
<1> QED BY <1>1, <1>3, <1>4

LEMMA DequeueKeepsReady ==
  ASSUME IInv, Dequeue
  PROVE  /\ QueueIsReady' /\ queue' \in Seq(Agent) /\ sorted' \in Seq(Agent)
         /\ inDegree' \in [Agent -> Int]
<1> DEFINE h == Head(queue)
           left(n) == inDegree[n] - Cardinality(Children(h) \cap Parents(n))
           freed == {n \in nodes : inDegree[n] > 0 /\ left(n) <= 0}
<1>1. /\ Types /\ QueueIsReady /\ queue # <<>> /\ UNCHANGED <<link, nodes>>
      /\ nodes \subseteq Agent /\ inDegree \in [Agent -> Int] /\ sorted \in Seq(Agent)
  BY DEF IInv, Types, Dequeue, graph
<1>2. /\ sorted' = Append(sorted, h)
      /\ inDegree' = [n \in Agent |-> IF n \in nodes THEN left(n) ELSE inDegree[n]]
      /\ \E order \in Orderings(freed) : queue' = Tail(queue) \o order
  BY DEF Dequeue
<1>3. /\ h \in nodes \ Elements(sorted) /\ inDegree[h] = 0 /\ Waiting(h) = {} /\ h \in Agent
      /\ Tail(queue) \in Seq(Agent) /\ Distinct(Tail(queue))
      /\ Elements(Tail(queue)) = Elements(queue) \ {h}
  BY <1>1, HeadIsReady
<1> DEFINE after == Elements(sorted) \cup {h}
<1>4. /\ Len(sorted) \in Nat /\ DOMAIN sorted = 1 .. Len(sorted)
      /\ sorted' \in Seq(Agent) /\ DOMAIN sorted' = 1 .. Len(sorted) + 1
      /\ \A i \in 1 .. Len(sorted) : sorted'[i] = sorted[i]
      /\ sorted'[Len(sorted) + 1] = h
      /\ Elements(sorted)' = after /\ Distinct(sorted)'
  <2> DEFINE longer == Append(sorted, h)
  <2>1. /\ longer \in Seq(Agent) /\ Len(longer) = Len(sorted) + 1
        /\ \A i \in 1 .. Len(sorted) : longer[i] = sorted[i]
        /\ longer[Len(sorted) + 1] = h
    BY <1>1, <1>3, AppendProperties
  <2>2. /\ Len(sorted) \in Nat /\ DOMAIN sorted = 1 .. Len(sorted)
        /\ DOMAIN longer = 1 .. Len(longer)
    BY <1>1, <2>1, LenProperties
  <2>3. Elements(longer) = after /\ Distinct(longer)
    BY <1>1, <1>3, ElementsAppend DEF QueueIsReady
  <2>4. sorted' = longer
    BY <1>2
  <2> HIDE DEF longer
  <2>5. Elements(sorted)' = Elements(longer) /\ (Distinct(sorted)' <=> Distinct(longer))
    BY <2>4 DEF Elements, Distinct
  <2> QED BY <2>1, <2>2, <2>3, <2>4, <2>5
<1>5. /\ \A n : Parents(n)' = Parents(n)
      /\ \A c : From(c)' = From(c)
  BY <1>1, EdgesStay
<1>6. \A n : Waiting(n)' = {c \in Parents(n) : From(c) \notin after}
  BY <1>4, <1>5 DEF Waiting
<1>7. \A n \in nodes : left(n) = Cardinality(Waiting(n)') /\ left(n) \in Nat
  <2> SUFFICES ASSUME NEW n \in nodes PROVE left(n) = Cardinality(Waiting(n)') /\ left(n) \in Nat
    OBVIOUS
  <2>1. inDegree[n] = Cardinality(Waiting(n))
    BY <1>1 DEF QueueIsReady
  <2> DEFINE still == {c \in Parents(n) : From(c) \notin after}
  <2>2. /\ Cardinality(still) = Cardinality(Waiting(n)) - Cardinality(Children(h) \cap Parents(n))
        /\ Cardinality(still) \in Nat
    BY <1>1, <1>3, WaitingShrinks
  <2>3. Waiting(n)' = still
    BY <1>6
  <2> QED BY <2>1, <2>2, <2>3
<1>8. \A n \in nodes : inDegree[n] \in Nat /\ inDegree'[n] = left(n)
  <2>1. \A n \in nodes : inDegree[n] = Cardinality(Waiting(n)) /\ Cardinality(Waiting(n)) \in Nat
    BY <1>1, FiniteGraph DEF QueueIsReady
  <2> QED BY <1>1, <1>2, <2>1
<1>9. ParentsFirst'
  <2>1. \A j \in 1 .. Len(sorted) + 1 : \A c \in Parents(sorted'[j]) :
          \E i \in 1 .. j - 1 : From(c) = sorted'[i]
    <3> SUFFICES ASSUME NEW j \in 1 .. Len(sorted) + 1, NEW c \in Parents(sorted'[j])
                 PROVE  \E i \in 1 .. j - 1 : From(c) = sorted'[i]
      OBVIOUS
    <3>1. CASE j \in 1 .. Len(sorted)
      <4>1. c \in Parents(sorted[j]) /\ j \in DOMAIN sorted
        BY <1>4, <3>1
      <4>2. PICK i \in 1 .. j - 1 : From(c) = sorted[i]
        BY <1>1, <4>1 DEF QueueIsReady, ParentsFirst
      <4>3. i \in 1 .. Len(sorted)
        BY <1>4, <3>1
      <4> QED BY <1>4, <4>2, <4>3
    <3>2. CASE j = Len(sorted) + 1
      <4>1. c \in Parents(h)
        BY <1>4, <3>2
      <4>2. From(c) \in Elements(sorted)
        BY <1>3, <4>1 DEF Waiting
      <4>3. PICK i \in 1 .. Len(sorted) : From(c) = sorted[i]
        BY <1>4, <4>2 DEF Elements
      <4>4. i \in 1 .. j - 1
        BY <1>4, <3>2
      <4> QED BY <1>4, <4>3, <4>4
    <3> QED BY <1>4, <3>1, <3>2
  <2>2. Edges' = Edges /\ \A c : To(c)' = To(c) /\ From(c)' = From(c)
    BY <1>1, EdgesStay
  <2>3. \A n : Parents(n) = {c \in Edges : To(c) = n}
    BY DEF Parents
  <2> QED BY <1>4, <2>1, <2>2, <2>3 DEF ParentsFirst, Parents
<1>10. \A n \in Elements(sorted) : inDegree[n] = 0
  <2> SUFFICES ASSUME NEW n \in Elements(sorted) PROVE inDegree[n] = 0
    OBVIOUS
  <2>1. n \in nodes
    BY <1>1 DEF QueueIsReady
  <2>2. PICK j \in 1 .. Len(sorted) : n = sorted[j]
    BY <1>4 DEF Elements
  <2>3. ASSUME NEW c \in Parents(n) PROVE From(c) \in Elements(sorted)
    <3>1. j \in DOMAIN sorted /\ c \in Parents(sorted[j])
      BY <1>4, <2>2
    <3>2. PICK i \in 1 .. j - 1 : From(c) = sorted[i]
      BY <1>1, <3>1 DEF QueueIsReady, ParentsFirst
    <3>3. i \in 1 .. Len(sorted)
      BY <1>4
    <3> QED BY <1>4, <3>2, <3>3 DEF Elements
  <2>4. Waiting(n) = {}
    BY <2>3 DEF Waiting
  <2> QED BY <1>1, <2>1, <2>4, FS_EmptySet DEF QueueIsReady
<1>11. IsFiniteSet(freed) /\ freed \subseteq Agent
  <2>1. freed \in SUBSET nodes
    OBVIOUS
  <2> QED BY <1>1, <2>1, FiniteGraph
<1>12. /\ freed \cap Elements(queue) = {}
       /\ (Elements(queue) \ {h}) \cup freed = {n \in nodes \ after : inDegree'[n] = 0}
  <2>1. Elements(queue) = {n \in nodes \ Elements(sorted) : inDegree[n] = 0}
    BY <1>1 DEF QueueIsReady
  <2>2. freed \cap Elements(queue) = {}
    BY <2>1
  <2>3. \A n \in nodes : inDegree[n] \in Nat /\ inDegree'[n] = left(n) /\ left(n) \in Nat
    BY <1>7, <1>8
  <2>4. \A n \in nodes : inDegree[n] = 0 => inDegree'[n] = 0
    <3> SUFFICES ASSUME NEW n \in nodes, inDegree[n] = 0 PROVE inDegree'[n] = 0
      OBVIOUS
    <3>1. Cardinality(Children(h) \cap Parents(n)) \in Nat
      <4>1. IsFiniteSet(Children(h) \cap Parents(n))
        BY <1>1, FiniteGraph, FS_Intersection
      <4> QED BY <4>1, FS_CardinalityType
    <3> QED BY <2>3, <3>1
  <2>5. \A n \in nodes : n \in freed <=> inDegree[n] # 0 /\ inDegree'[n] = 0
    <3> HIDE DEF left
    <3> QED BY <2>3
  <2>6. freed \subseteq nodes
    OBVIOUS
  <2> HIDE DEF freed
  <2> QED BY <1>3, <1>10, <2>1, <2>2, <2>4, <2>5, <2>6
<1> HIDE DEF freed
<1>13. queue' \in Seq(Agent) /\ Distinct(queue)' /\ Elements(queue)' = (Elements(queue) \ {h}) \cup freed
  <2>1. PICK order \in Orderings(freed) : queue' = Tail(queue) \o order
    BY <1>2
  <2>2. order \in Seq(freed) /\ Distinct(order) /\ Elements(order) = freed
    BY <1>11, OrderingFacts
  <2>3. order \in Seq(Agent)
    BY <1>11, <2>2, SeqMonotonic
  <2> DEFINE both == Tail(queue) \o order
  <2>4. both \in Seq(Agent) /\ Distinct(both) /\ Elements(both) = (Elements(queue) \ {h}) \cup freed
    <3>1. /\ both \in Seq(Agent)
          /\ Elements(both) = Elements(Tail(queue)) \cup Elements(order)
          /\ Distinct(Tail(queue)) /\ Distinct(order) /\ Elements(Tail(queue)) \cap Elements(order) = {}
             => Distinct(both)
      BY <1>3, <2>3, ElementsConcat
    <3>2. Elements(Tail(queue)) \cap Elements(order) = {}
      BY <1>3, <1>12, <2>2
    <3> HIDE DEF both
    <3> QED BY <1>3, <2>2, <3>1, <3>2
  <2>5. queue' = both
    BY <2>1
  <2> HIDE DEF both
  <2> QED BY <2>4, <2>5 DEF Elements, Distinct
<1>14. inDegree' \in [Agent -> Int]
  <2>1. \A n \in nodes : left(n) \in Int
    BY <1>7
  <2> HIDE DEF left
  <2> QED BY <1>1, <1>2, <2>1
<1>15. QueueIsReady'
  <2>1. after \subseteq nodes
    BY <1>1, <1>3 DEF QueueIsReady
  <2>2. \A n \in nodes : inDegree'[n] = Cardinality(Waiting(n)')
    BY <1>7, <1>8
  <2> QED BY <1>1, <1>4, <1>9, <1>12, <1>13, <2>1, <2>2 DEF QueueIsReady
<1> QED BY <1>4, <1>13, <1>14, <1>15

\* When the queue runs dry, what is not sorted would wait for itself.
LEMMA DryQueueSortsAll ==
  ASSUME Types, QueueIsReady, queue = <<>>, ~ Cyclic(nodes)
  PROVE  Elements(sorted) = nodes
<1> DEFINE T == nodes \ Elements(sorted)
<1>1. Elements(queue) = {}
  BY DEF Elements
<1>2. ASSUME NEW n \in T PROVE \E c \in Connection : link[c] \in T \X T /\ To(c) = n
  <2>1. Cardinality(Waiting(n)) # 0 /\ IsFiniteSet(Waiting(n))
    BY <1>1, FiniteGraph DEF QueueIsReady
  <2>2. PICK c \in Parents(n) : From(c) \notin Elements(sorted)
    BY <2>1, FS_EmptySet DEF Waiting
  <2>3. c \in Connection /\ From(c) \in nodes /\ To(c) = n /\ link[c] = <<From(c), n>>
    BY EdgeFacts DEF Parents
  <2>4. From(c) \in T /\ n \in T
    BY <2>2, <2>3
  <2> HIDE DEF T
  <2>5. link[c] \in T \X T
    BY <2>3, <2>4
  <2> QED BY <2>3, <2>5
<1>3. T = {}
  BY <1>2 DEF Cyclic
<1> QED BY <1>3 DEF QueueIsReady

-----------------------------------------------------------------------------
\* The step loop.

\* A run that was never connected has no connection to respect.
LEMMA LoadOrders ==
  ASSUME IInv, Load, ~ Connected
  PROVE  OrderIsRight' /\ sorted' \in Seq(Agent)
<1>1. sorted' \in Orderings(enabled) /\ UNCHANGED <<link, enabled>> /\ enabled \subseteq Agent
  BY DEF Load, graph, IInv, Types
<1>2. sorted' \in Seq(enabled) /\ Distinct(sorted') /\ Elements(sorted') = enabled
  BY <1>1, FiniteGraph, OrderingFacts DEF IInv
<1>3. sorted' \in Seq(Agent)
  BY <1>1, <1>2, SeqMonotonic
<1>4. ~ Connected'
  BY <1>1 DEF Connected
<1>5. Distinct(sorted)' /\ Elements(sorted)' = enabled'
  BY <1>1, <1>2 DEF Distinct, Elements
<1> QED BY <1>3, <1>4, <1>5 DEF OrderIsRight

\* What a step is handed, once the agents before it are done.
LEMMA OutputsOfParents ==
  ASSUME IInv, RunStep, NEW n, n = sorted[Len(steps) + 1]
  PROVE  PreviousOutputs(n) =
            IF Connected THEN {p \in enabled : \E c \in Connection : link[c] = <<p, n>>}
                         ELSE {sorted[k] : k \in 1 .. Len(steps)}
<1>1. /\ Types /\ StepsFollowOrder /\ OrderIsRight /\ phase \in Running
      /\ Len(steps) < Len(sorted) /\ steps \in Seq(Agent) /\ sorted \in Seq(Agent)
  BY DEF IInv, Types, RunStep, Running
<1>2. /\ Len(steps) \in Nat /\ DOMAIN steps = 1 .. Len(steps)
      /\ Len(sorted) \in Nat /\ DOMAIN sorted = 1 .. Len(sorted)
  BY <1>1, LenProperties
<1>3. Elements(steps) = {sorted[k] : k \in 1 .. Len(steps)}
  BY <1>1, <1>2 DEF StepsFollowOrder, Elements
<1>4. Len(steps) + 1 \in DOMAIN sorted /\ n \in enabled
  <2>1. Len(steps) + 1 \in DOMAIN sorted
    BY <1>1, <1>2
  <2> QED BY <1>1, <2>1 DEF OrderIsRight, Elements
<1>5. CASE Connected
  <2>1. nodes = enabled
    BY <1>1, <1>5 DEF IInv, NodesAre
  <2>2. Elements(steps) \cap {From(c) : c \in Parents(n)}
          \subseteq {p \in enabled : \E c \in Connection : link[c] = <<p, n>>}
    <3> SUFFICES ASSUME NEW c \in Parents(n)
                 PROVE  c \in Connection /\ From(c) \in enabled /\ link[c] = <<From(c), n>>
      OBVIOUS
    <3> QED BY <1>1, <2>1, EdgeFacts DEF Parents
  <2>3. {p \in enabled : \E c \in Connection : link[c] = <<p, n>>}
          \subseteq Elements(steps) \cap {From(c) : c \in Parents(n)}
    <3> SUFFICES ASSUME NEW p \in enabled, NEW c \in Connection, link[c] = <<p, n>>
                 PROVE  p \in Elements(steps) /\ c \in Parents(n) /\ From(c) = p
      OBVIOUS
    <3>1. c \in Parents(n) /\ From(c) = p
      BY <1>1, <1>4, <2>1, EdgeFacts DEF Parents
    <3>2. PICK i \in 1 .. Len(steps) : p = sorted[i]
      <4> DEFINE j == Len(steps) + 1
      <4>1. j \in DOMAIN sorted /\ c \in Parents(sorted[j]) /\ 1 .. j - 1 = 1 .. Len(steps)
        BY <1>2, <1>4, <3>1
      <4> HIDE DEF j
      <4>2. \E i \in 1 .. j - 1 : From(c) = sorted[i]
        BY <1>1, <1>5, <4>1 DEF OrderIsRight, ParentsFirst
      <4> QED BY <3>1, <4>1, <4>2
    <3>3. i \in 1 .. Len(steps)
      OBVIOUS
    <3> QED BY <1>3, <3>1, <3>2, <3>3
  <2> QED BY <1>5, <2>2, <2>3 DEF PreviousOutputs
<1>6. CASE ~ Connected
  BY <1>3, <1>6 DEF PreviousOutputs
<1> QED BY <1>5, <1>6

LEMMA RunStepKeeps ==
  ASSUME IInv, RunStep
  PROVE  /\ StepsFollowOrder' /\ InputsAreParents'
         /\ steps' \in Seq(Agent) /\ inputs' \in [Agent -> SUBSET Agent]
<1> DEFINE n == sorted[Len(steps) + 1]
<1>1. /\ Types /\ StepsFollowOrder /\ OrderIsRight /\ InputsAreParents
      /\ Len(steps) < Len(sorted) /\ steps \in Seq(Agent) /\ sorted \in Seq(Agent)
      /\ inputs \in [Agent -> SUBSET Agent] /\ enabled \subseteq Agent
      /\ UNCHANGED <<link, enabled, sorted>>
  BY DEF IInv, Types, RunStep, Running, graph, kahn
<1>2. /\ Len(steps) \in Nat /\ DOMAIN steps = 1 .. Len(steps)
      /\ Len(sorted) \in Nat /\ DOMAIN sorted = 1 .. Len(sorted)
  BY <1>1, LenProperties
<1>3. Len(steps) + 1 \in DOMAIN sorted /\ n \in Agent
  BY <1>1, <1>2, ElementOfSeq
<1>4. steps' = Append(steps, n) /\ inputs' = [inputs EXCEPT ![n] = PreviousOutputs(n)]
  BY DEF RunStep
<1>5. /\ steps' \in Seq(Agent) /\ Len(steps') = Len(steps) + 1
      /\ DOMAIN steps' = 1 .. Len(steps) + 1
      /\ \A i \in 1 .. Len(steps) : steps'[i] = steps[i]
      /\ steps'[Len(steps) + 1] = n
  <2>1. /\ steps' \in Seq(Agent) /\ Len(steps') = Len(steps) + 1
        /\ \A i \in 1 .. Len(steps) : steps'[i] = steps[i]
        /\ steps'[Len(steps) + 1] = n
    BY <1>1, <1>3, <1>4, AppendProperties
  <2> QED BY <2>1, LenProperties
<1>6. \A i \in 1 .. Len(steps) + 1 : steps'[i] = sorted[i]
  BY <1>1, <1>2, <1>5 DEF StepsFollowOrder
<1>7. StepsFollowOrder'
  BY <1>1, <1>2, <1>5, <1>6 DEF StepsFollowOrder
<1>8. PreviousOutputs(n) = IF Connected THEN {p \in enabled : \E c \in Connection : link[c] = <<p, n>>}
                                        ELSE {sorted[k] : k \in 1 .. Len(steps)}
  BY OutputsOfParents
<1>9. PreviousOutputs(n) \subseteq Agent
  <2>1. \A k \in 1 .. Len(steps) : sorted[k] \in Agent
    BY <1>1, <1>2, ElementOfSeq
  <2> QED BY <1>1, <1>8, <2>1
<1> HIDE DEF n
<1>10. \A i \in 1 .. Len(steps) : sorted[i] # n
  BY <1>1, <1>2, <1>3 DEF OrderIsRight, Distinct, n
<1>11. ASSUME NEW i \in 1 .. Len(steps) + 1
       PROVE  inputs'[sorted[i]] =
                 IF Connected
                   THEN {p \in enabled : \E c \in Connection : link[c] = <<p, sorted[i]>>}
                   ELSE {sorted[k] : k \in 1 .. i - 1}
  <2>1. CASE i = Len(steps) + 1
    <3>1. sorted[i] = n /\ i - 1 = Len(steps)
      BY <1>2, <2>1 DEF n
    <3>2. inputs'[n] = PreviousOutputs(n)
      BY <1>1, <1>3, <1>4
    <3> QED BY <1>8, <3>1, <3>2
  <2>2. CASE i \in 1 .. Len(steps)
    <3>1. sorted[i] # n /\ sorted[i] \in Agent /\ steps[i] = sorted[i] /\ i \in DOMAIN steps
      BY <1>1, <1>2, <1>10, <2>2, ElementOfSeq DEF StepsFollowOrder
    <3>2. inputs'[sorted[i]] = inputs[sorted[i]]
      BY <1>1, <1>4, <3>1
    <3>3. {steps[k] : k \in 1 .. i - 1} = {sorted[k] : k \in 1 .. i - 1}
      <4>1. \A k \in 1 .. i - 1 : steps[k] = sorted[k]
        BY <1>1, <1>2, <2>2 DEF StepsFollowOrder
      <4> QED BY <4>1
    <3>4. inputs[steps[i]] =
             IF Connected THEN {p \in enabled : \E c \in Connection : link[c] = <<p, steps[i]>>}
                          ELSE {steps[k] : k \in 1 .. i - 1}
      BY <1>1, <3>1 DEF InputsAreParents
    <3> QED BY <3>1, <3>2, <3>3, <3>4
  <2> QED BY <1>2, <2>1, <2>2
<1>12. InputsAreParents'
  <2>1. Connected' <=> Connected
    BY <1>1 DEF Connected
  <2>2. ASSUME NEW i \in 1 .. Len(steps) + 1
        PROVE  /\ steps'[i] = sorted[i]
               /\ {steps'[k] : k \in 1 .. i - 1} = {sorted[k] : k \in 1 .. i - 1}
    <3>1. \A k \in 1 .. i - 1 : steps'[k] = sorted[k]
      BY <1>2, <1>6
    <3> QED BY <1>6, <3>1
  <2>3. ASSUME NEW i \in 1 .. Len(steps) + 1
        PROVE  inputs'[steps'[i]] =
                  IF Connected'
                    THEN {p \in enabled' : \E c \in Connection : link'[c] = <<p, steps'[i]>>}
                    ELSE {steps'[k] : k \in 1 .. i - 1}
    <3>1. steps'[i] = sorted[i] /\ link' = link /\ enabled' = enabled
      BY <1>1, <2>2
    <3>2. {steps'[k] : k \in 1 .. i - 1} = {sorted[k] : k \in 1 .. i - 1}
      BY <2>2
    <3>3. CASE Connected
      <4>1. inputs'[sorted[i]] = {p \in enabled : \E c \in Connection : link[c] = <<p, sorted[i]>>}
        BY <1>11, <3>3
      <4> QED BY <2>1, <3>1, <3>3, <4>1
    <3>4. CASE ~ Connected
      <4>1. inputs'[sorted[i]] = {sorted[k] : k \in 1 .. i - 1}
        BY <1>11, <3>4
      <4> QED BY <2>1, <3>1, <3>2, <3>4, <4>1
    <3> QED BY <3>3, <3>4
  <2> QED BY <1>5, <2>3 DEF InputsAreParents
<1>13. inputs' \in [Agent -> SUBSET Agent]
  BY <1>1, <1>3, <1>4, <1>9
<1> QED BY <1>5, <1>7, <1>12, <1>13

-----------------------------------------------------------------------------
\* The invariant.

OrderSoFar ==
    /\ phase \in {"check", "refused", "saved", "recheck", "degrees"} => sorted = <<>>
    /\ phase \notin Running => steps = <<>>
    /\ phase = "sort" => QueueIsReady
    /\ phase \in Running => OrderIsRight
    /\ StepsFollowOrder /\ InputsAreParents

LEMMA NoStepsFollow ==
  ASSUME steps' = <<>>, sorted' \in Seq(Agent)
  PROVE  StepsFollowOrder' /\ InputsAreParents'
<1>1. Len(steps') = 0 /\ DOMAIN steps' = {} /\ Len(sorted') \in Nat
  BY LenProperties
<1> QED BY <1>1 DEF StepsFollowOrder, InputsAreParents

LEMMA InitIInv == Init => IInv
<1> SUFFICES ASSUME Init PROVE IInv
  OBVIOUS
<1>1. /\ Len(<<>>) = 0 /\ DOMAIN <<>> = {} /\ \A S : <<>> \in Seq(S)
  BY EmptySeq
<1>2. Types
  BY <1>1 DEF Init, Types, Phases
<1>3. NodesAre
  BY DEF Init, NodesAre, Running
<1>4. StackIsWalk
  BY <1>1 DEF Init, StackIsWalk, Distinct
<1>5. BlackIsDone
  <2>1. Black = {}
    BY DEF Black, Init
  <2> QED BY <2>1, NothingIsAcyclic DEF BlackIsDone
<1>6. RefusedIffCyclic /\ AcceptedRuns
  BY DEF Init, RefusedIffCyclic, AcceptedRuns
<1>7. OrderSoFar
  BY <1>1 DEF Init, OrderSoFar, Running, StepsFollowOrder, InputsAreParents
<1> QED BY <1>2, <1>3, <1>4, <1>5, <1>6, <1>7 DEF IInv, OrderSoFar

LEMMA NextKeepsNodes == ASSUME IInv, Next PROVE NodesAre'
<1>1. Types /\ NodesAre
  BY DEF IInv
<1>2. Connected' <=> Connected
  BY DEF Next, VisitRoot, Descend, VisitChild, Backtrack, Load, NoCycle, CountDegrees, Dequeue, Sorted,
     RunStep, RunFails, RunCompletes, graph, Connected
<1>3. CASE VisitRoot \/ Backtrack
  BY <1>1, <1>2, <1>3 DEF VisitRoot, Backtrack, Checking, graph, NodesAre, Running
<1>4. CASE Descend
  BY <1>1, <1>2, <1>4 DEF Descend, VisitChild, Checking, graph, NodesAre, Running
<1>5. CASE NoCycle \/ CountDegrees \/ Dequeue \/ Sorted \/ RunStep \/ RunFails \/ RunCompletes
  <2>1. UNCHANGED <<link, enabled, nodes, path>>
    BY <1>5 DEF NoCycle, CountDegrees, Dequeue, Sorted, RunStep, RunFails, RunCompletes, graph, dfs
  <2> QED BY <1>1, <1>2, <1>5, <2>1 DEF NoCycle, CountDegrees, Dequeue, Sorted, RunStep, RunFails,
        RunCompletes, Checking, NodesAre, Running
<1>6. CASE Load
  BY <1>1, <1>2, <1>6 DEF Load, graph, NodesAre, Running
<1> QED BY <1>3, <1>4, <1>5, <1>6 DEF Next

LEMMA NextKeepsOrder ==
  ASSUME IInv, Next
  PROVE  /\ OrderSoFar'
         /\ queue' \in Seq(Agent) /\ sorted' \in Seq(Agent) /\ inDegree' \in [Agent -> Int]
         /\ steps' \in Seq(Agent) /\ inputs' \in [Agent -> SUBSET Agent]
<1>1. Types /\ OrderSoFar
  BY DEF IInv, OrderSoFar
<1>2. ASSUME UNCHANGED <<link, enabled, nodes, kahn, pipe>>
      PROVE  /\ UNCHANGED <<queue, sorted, inDegree, steps, inputs>>
             /\ QueueIsReady => QueueIsReady'
             /\ OrderIsRight => OrderIsRight'
             /\ StepsFollowOrder' /\ InputsAreParents'
  <2>1. UNCHANGED <<queue, sorted, inDegree, steps, inputs>> /\ link' = link /\ enabled' = enabled
    BY <1>2 DEF kahn, pipe
  <2>2. Edges' = Edges /\ (\A c : From(c)' = From(c) /\ To(c)' = To(c)) /\ nodes' = nodes
    BY <1>2, EdgesStay
  <2>3. (Connected' <=> Connected) /\ (ParentsFirst' <=> ParentsFirst)
    BY <2>1, <2>2 DEF Connected, ParentsFirst, Parents
  <2>4. (QueueIsReady => QueueIsReady')
    <3>1. \A n : Waiting(n)' = Waiting(n)
      BY <2>1, <2>2 DEF Waiting, Parents, Elements
    <3> QED BY <2>1, <2>2, <2>3, <3>1 DEF QueueIsReady, Elements, Distinct
  <2>5. (OrderIsRight => OrderIsRight')
    BY <2>1, <2>3 DEF OrderIsRight, Elements, Distinct
  <2>6. StepsFollowOrder'
    BY <1>1, <2>1 DEF OrderSoFar, StepsFollowOrder
  <2>7. InputsAreParents'
    BY <1>1, <2>1, <2>3 DEF OrderSoFar, InputsAreParents
  <2> QED BY <2>1, <2>4, <2>5, <2>6, <2>7
<1>3. CASE VisitRoot \/ Backtrack \/ Descend \/ NoCycle \/ RunFails \/ RunCompletes
  <2>1. UNCHANGED <<link, enabled, nodes, kahn, pipe>>
    BY <1>3 DEF VisitRoot, Backtrack, Descend, VisitChild, NoCycle, RunFails, RunCompletes, graph
  <2>2. /\ phase' = "sort" => phase = "sort"
        /\ phase' \in Running => phase \in Running
        /\ phase' \notin Running => phase \notin Running
        /\ phase' \in {"check", "refused", "saved", "recheck", "degrees"} => phase \in {"check", "recheck"}
    BY <1>3 DEF VisitRoot, Backtrack, Descend, VisitChild, NoCycle, RunFails, RunCompletes, Checking,
       Running
  <2>3. /\ UNCHANGED <<queue, sorted, inDegree, steps, inputs>>
        /\ QueueIsReady => QueueIsReady'
        /\ OrderIsRight => OrderIsRight'
        /\ StepsFollowOrder' /\ InputsAreParents'
    BY <1>2, <2>1
  <2>4. OrderSoFar'
    <3>1. phase' \in {"check", "refused", "saved", "recheck", "degrees"} => sorted' = <<>>
      BY <1>1, <2>2, <2>3 DEF OrderSoFar
    <3>2. phase' \notin Running => steps' = <<>>
      BY <1>1, <2>2, <2>3 DEF OrderSoFar
    <3>3. (phase' = "sort" => QueueIsReady') /\ (phase' \in Running => OrderIsRight')
      BY <1>1, <2>2, <2>3 DEF OrderSoFar
    <3> QED BY <2>3, <3>1, <3>2, <3>3 DEF OrderSoFar
  <2> QED BY <1>1, <2>3, <2>4 DEF Types
<1>4. CASE CountDegrees
  <2>1. QueueIsReady' /\ queue' \in Seq(Agent) /\ inDegree' \in [Agent -> Int]
    BY <1>4, CountDegreesReadies
  <2>2. /\ UNCHANGED <<sorted, steps, inputs>> /\ phase = "degrees" /\ phase' = "sort"
        /\ sorted \in Seq(Agent) /\ steps = <<>>
    BY <1>1, <1>4 DEF CountDegrees, pipe, Types, OrderSoFar, Running
  <2>3. StepsFollowOrder' /\ InputsAreParents'
    BY <2>2, NoStepsFollow
  <2> QED BY <1>1, <2>1, <2>2, <2>3 DEF OrderSoFar, Types, Running
<1>5. CASE Dequeue
  <2>1. /\ QueueIsReady' /\ queue' \in Seq(Agent) /\ sorted' \in Seq(Agent)
        /\ inDegree' \in [Agent -> Int]
    BY <1>5, DequeueKeepsReady
  <2>2. UNCHANGED <<steps, inputs>> /\ phase = "sort" /\ phase' = "sort" /\ steps = <<>>
    BY <1>1, <1>5 DEF Dequeue, pipe, OrderSoFar, Running
  <2>3. StepsFollowOrder' /\ InputsAreParents'
    BY <2>1, <2>2, NoStepsFollow
  <2> QED BY <1>1, <2>1, <2>2, <2>3 DEF OrderSoFar, Types, Running
<1>6. CASE Sorted
  <2>1. /\ UNCHANGED <<link, enabled, nodes, queue, sorted, inDegree, steps, inputs>>
        /\ phase = "sort" /\ phase' = "run" /\ queue = <<>> /\ steps = <<>>
    BY <1>1, <1>6 DEF Sorted, graph, kahn, pipe, OrderSoFar, Running
  <2>2. ~ Cyclic(Agent) /\ nodes = enabled /\ nodes \subseteq Agent
    BY <2>1 DEF IInv, Types, NodesAre, RefusedIffCyclic
  <2>3. ~ Cyclic(nodes)
    BY <2>2, CyclicGrows
  <2>4. QueueIsReady
    BY <1>1, <2>1 DEF OrderSoFar
  <2>5. Elements(sorted) = enabled
    BY <1>1, <2>1, <2>2, <2>3, <2>4, DryQueueSortsAll
  <2>6. QueueIsReady'
    <3>1. UNCHANGED <<link, enabled, nodes, kahn, pipe>>
      BY <2>1 DEF kahn, pipe
    <3> QED BY <1>2, <2>4, <3>1
  <2>7. OrderIsRight'
    BY <2>1, <2>5, <2>6 DEF QueueIsReady, OrderIsRight, Elements
  <2>8. StepsFollowOrder' /\ InputsAreParents'
    BY <1>1, <2>1, NoStepsFollow DEF Types
  <2> QED BY <1>1, <2>1, <2>7, <2>8 DEF OrderSoFar, Types, Running
<1>7. CASE RunStep
  <2>1. /\ StepsFollowOrder' /\ InputsAreParents'
        /\ steps' \in Seq(Agent) /\ inputs' \in [Agent -> SUBSET Agent]
    BY <1>7, RunStepKeeps
  <2>2. UNCHANGED <<link, enabled, nodes, queue, sorted, inDegree>> /\ phase = "run" /\ phase' = "run"
    BY <1>7 DEF RunStep, graph, kahn
  <2>3. OrderIsRight
    BY <1>1, <2>2 DEF OrderSoFar, Running
  <2>4. OrderIsRight'
    <3>1. Edges' = Edges /\ \A c : From(c)' = From(c) /\ To(c)' = To(c)
      BY <2>2, EdgesStay
    <3>2. (Connected' <=> Connected) /\ (ParentsFirst' <=> ParentsFirst)
      BY <2>2, <3>1 DEF Connected, ParentsFirst, Parents
    <3> QED BY <2>2, <2>3, <3>2 DEF OrderIsRight, Elements, Distinct
  <2> QED BY <1>1, <2>1, <2>2, <2>4 DEF OrderSoFar, Types, Running
<1>8. CASE Load
  <2>1. /\ UNCHANGED <<queue, inDegree, steps, inputs>> /\ phase = "saved" /\ steps = <<>>
        /\ sorted = <<>> /\ steps' = <<>>
    BY <1>1, <1>8 DEF Load, pipe, OrderSoFar, Running
  <2>2. /\ sorted' \in Seq(Agent)
        /\ \/ phase' = "recheck" /\ sorted' = <<>>
           \/ phase' = "run" /\ OrderIsRight'
    <3>1. CASE Connected
      BY <1>1, <1>8, <2>1, <3>1 DEF Load, Types
    <3>2. CASE ~ Connected
      BY <1>8, <3>2, LoadOrders DEF Load
    <3> QED BY <3>1, <3>2
  <2>3. StepsFollowOrder' /\ InputsAreParents'
    BY <2>1, <2>2, NoStepsFollow
  <2> QED BY <1>1, <2>1, <2>2, <2>3 DEF OrderSoFar, Types, Running
<1> QED BY <1>3, <1>4, <1>5, <1>6, <1>7, <1>8 DEF Next

LEMMA NextKeepsTypes == ASSUME IInv, Next PROVE Types'
<1>1. Types
  BY DEF IInv
<1>2. visited' \subseteq nodes' /\ path' \in Seq(visited')
  BY NextKeepsSearch
<1>3. /\ queue' \in Seq(Agent) /\ sorted' \in Seq(Agent) /\ inDegree' \in [Agent -> Int]
      /\ steps' \in Seq(Agent) /\ inputs' \in [Agent -> SUBSET Agent]
  BY NextKeepsOrder
<1>4. link' = link /\ enabled' = enabled /\ nodes' \in {nodes, enabled}
  BY DEF Next, VisitRoot, Descend, VisitChild, Backtrack, Load, NoCycle, CountDegrees, Dequeue, Sorted,
     RunStep, RunFails, RunCompletes, graph
<1>5. phase' \in Phases
  BY <1>1 DEF Next, VisitRoot, Descend, VisitChild, Backtrack, Load, NoCycle, CountDegrees, Dequeue,
     Sorted, RunStep, RunFails, RunCompletes, Types, Phases
<1>6. todo' \in [Agent -> SUBSET Connection]
  <2>1. /\ todo \in [Agent -> SUBSET Connection] /\ nodes \subseteq Agent
        /\ \A n : Children(n) \subseteq Connection
    BY <1>1 DEF Types, Children, Edges
  <2>2. CASE VisitRoot
    BY <2>1, <2>2 DEF VisitRoot
  <2>3. CASE Descend
    <3>1. PICK c \in todo[Top] : VisitChild(c)
      BY <2>3 DEF Descend
    <3>2. \/ UNCHANGED todo
          \/ todo' = [todo EXCEPT ![Top] = @ \ {c}]
          \/ todo' = [todo EXCEPT ![Top] = @ \ {c}, ![To(c)] = Children(To(c))]
      BY <3>1 DEF VisitChild, dfs
    <3> QED BY <2>1, <3>2
  <2>4. CASE Next /\ ~ VisitRoot /\ ~ Descend
    <3>1. UNCHANGED todo
      BY <2>4 DEF Next, Backtrack, Load, NoCycle, CountDegrees, Dequeue, Sorted, RunStep, RunFails,
         RunCompletes, dfs
    <3> QED BY <2>1, <3>1
  <2> QED BY <2>2, <2>3, <2>4
<1> QED BY <1>1, <1>2, <1>3, <1>4, <1>5, <1>6 DEF Types

LEMMA NextKeepsIInv == IInv /\ [Next]_vars => IInv'
<1> SUFFICES ASSUME IInv, [Next]_vars PROVE IInv'
  OBVIOUS
<1>1. CASE Next
  <2>1. Types' /\ NodesAre' /\ Search' /\ RefusedIffCyclic' /\ AcceptedRuns' /\ OrderSoFar'
    BY <1>1, NextKeepsTypes, NextKeepsNodes, NextKeepsSearch, NextKeepsVerdict, NextKeepsOrder
  <2> QED BY <2>1 DEF IInv, Search, OrderSoFar
<1>2. CASE UNCHANGED vars
  <2>1. /\ UNCHANGED <<link, enabled, phase, nodes, visited, path, todo>>
        /\ UNCHANGED <<inDegree, queue, sorted, steps, inputs>>
    BY <1>2 DEF vars, graph, dfs, kahn, pipe
  <2>2. Edges' = Edges /\ \A c : From(c)' = From(c) /\ To(c)' = To(c)
    BY <2>1, EdgesStay
  <2>3. Types' /\ NodesAre'
    BY <2>1 DEF IInv, Types, NodesAre, Connected
  <2>4. Search'
    BY <2>1, SearchStays DEF IInv, Search, dfs
  <2>5. RefusedIffCyclic' /\ AcceptedRuns'
    <3>1. Cyclic(Agent)' <=> Cyclic(Agent)
      BY <2>1, <2>2 DEF Cyclic
    <3> QED BY <2>1, <3>1 DEF IInv, RefusedIffCyclic, AcceptedRuns
  <2>6. (Connected' <=> Connected) /\ (ParentsFirst' <=> ParentsFirst)
    BY <2>1, <2>2 DEF Connected, ParentsFirst, Parents
  <2>7. (QueueIsReady' <=> QueueIsReady) /\ (OrderIsRight' <=> OrderIsRight)
    <3>1. \A n : Waiting(n)' = Waiting(n)
      BY <2>1, <2>2 DEF Waiting, Parents, Elements
    <3> QED BY <2>1, <2>6, <3>1 DEF QueueIsReady, OrderIsRight, Elements, Distinct
  <2>8. StepsFollowOrder' /\ InputsAreParents'
    <3>1. StepsFollowOrder /\ InputsAreParents
      BY DEF IInv
    <3>2. StepsFollowOrder'
      BY <2>1, <3>1 DEF StepsFollowOrder
    <3>3. InputsAreParents'
      BY <2>1, <2>6, <3>1 DEF InputsAreParents
    <3> QED BY <3>2, <3>3
  <2>9. OrderSoFar'
    BY <2>1, <2>7, <2>8 DEF IInv, OrderSoFar
  <2> QED BY <2>3, <2>4, <2>5, <2>9 DEF IInv, Search, OrderSoFar
<1> QED BY <1>1, <1>2

LEMMA AlwaysIInv == Spec => []IInv
<1> QED BY InitIInv, NextKeepsIInv, PTL DEF Spec

-----------------------------------------------------------------------------
\* The properties.

\* saveTeamGraph refuses exactly the workflows in which some agents would wait
\* for each other for ever.
THEOREM RefusalIsExact == Spec => []RefusedIffCyclic
<1>1. IInv => RefusedIffCyclic
  BY DEF IInv
<1> QED BY <1>1, AlwaysIInv, PTL

\* topologicalSort never throws on a workflow that was saved, whatever agents
\* were disabled since.
THEOREM SavedWorkflowsRun == Spec => []AcceptedRuns
<1>1. IInv => AcceptedRuns
  BY DEF IInv
<1> QED BY <1>1, AlwaysIInv, PTL

\* topologicalSort returns every enabled agent once, after all its parents.
THEOREM OrderRespectsConnections == Spec => []EveryAgentAfterItsParents
<1>1. IInv => EveryAgentAfterItsParents
  <2> SUFFICES ASSUME IInv, phase \in Running
               PROVE  /\ Elements(sorted) = enabled /\ Len(sorted) = Cardinality(enabled)
                      /\ \A i, j \in DOMAIN sorted :
                            (\E c \in Connection : link[c] = <<sorted[i], sorted[j]>>) => i < j
    BY DEF EveryAgentAfterItsParents, Running
  <2>1. Types /\ OrderIsRight
    BY DEF IInv
  <2>2. Len(sorted) \in Nat /\ DOMAIN sorted = 1 .. Len(sorted) /\ Elements(sorted) = enabled
        /\ Distinct(sorted)
    BY <2>1, LenProperties DEF Types, OrderIsRight
  <2>3. Len(sorted) = Cardinality(enabled)
    <3>1. sorted \in Injection(1 .. Len(sorted), enabled)
      <4>1. sorted \in [1 .. Len(sorted) -> enabled]
        BY <2>1, <2>2, LenProperties DEF Types, Elements
      <4> QED BY <2>2, <4>1 DEF Injection, IsInjective, Distinct
    <3>2. sorted \in Surjection(1 .. Len(sorted), enabled)
      BY <2>2, <3>1 DEF Injection, Surjection, Elements
    <3>3. ExistsBijection(1 .. Len(sorted), enabled)
      BY <3>1, <3>2 DEF ExistsBijection, Bijection
    <3> QED BY <2>2, <3>3, FS_CountingElements
  <2>4. ASSUME NEW i \in DOMAIN sorted, NEW j \in DOMAIN sorted,
               NEW c \in Connection, link[c] = <<sorted[i], sorted[j]>>
        PROVE  i < j
    <3>1. Connected
      BY <2>4, PairIsNoTuple DEF Connected
    <3>2. nodes = enabled
      BY <3>1 DEF IInv, NodesAre
    <3>3. c \in Parents(sorted[j]) /\ From(c) = sorted[i]
      BY <2>1, <2>2, <2>4, <3>2, EdgeFacts DEF Parents, Elements
    <3>4. PICK k \in 1 .. j - 1 : sorted[i] = sorted[k]
      BY <2>1, <2>4, <3>1, <3>3 DEF OrderIsRight, ParentsFirst
    <3>5. k \in DOMAIN sorted
      BY <2>2
    <3>6. i = k
      BY <2>2, <3>4, <3>5 DEF Distinct
    <3> QED BY <2>2, <3>6
  <2> QED BY <2>2, <2>3, <2>4
<1> QED BY <1>1, AlwaysIInv, PTL

\* A step is handed the outputs of its enabled parents and of no other agent.
THEOREM StepsSeeTheirParents == Spec => []InputsAreParents
<1>1. IInv => InputsAreParents
  BY DEF IInv
<1> QED BY <1>1, AlwaysIInv, PTL
=============================================================================
