------------------------------- MODULE Workflow -------------------------------
(***************************************************************************)
(* From a drawn workflow to the steps of a run: saveTeamGraph refuses a    *)
(* graph in which detectCycle finds a cycle; later runPipeline loads the   *)
(* enabled agents and the connections, orders the agents by                *)
(* topologicalSort, and hands each step the outputs of its parents.        *)
(*                                                                         *)
(* dag-utils.ts runs without an await; its loops and its recursion are     *)
(* steps here because they are loops, not because anything comes between.  *)
(* A query without an orderBy, or one that orders by the `order' column,   *)
(* which saveTeamGraph sets to 0 for every agent, returns its rows in any  *)
(* order.                                                                  *)
(***************************************************************************)
EXTENDS Integers, Sequences, FiniteSets

CONSTANTS
    Agent,         \* the agents of one team
    Connection     \* rows of AgentConnection

ASSUME WorkflowAssumption == IsFiniteSet(Agent) /\ IsFiniteSet(Connection)

VARIABLES
    link,        \* fromAgentId and toAgentId of each connection that exists
    enabled,     \* the agents that are enabled
    phase,       \* what the code is doing
    nodes,       \* the keys of the DAG that buildDAG built
    visited,     \* detectCycle: visited
    path,        \* detectCycle: the calls of dfs in progress; inStack is its range
    todo,        \* detectCycle: per call, the children it has not looked at
    inDegree,    \* topologicalSort: inDegree
    queue,       \* topologicalSort: queue
    sorted,      \* topologicalSort: sorted, then runPipeline's executionOrder
    steps,       \* runPipeline: completedSteps
    inputs       \* per agent: whose outputs it was given

graph == <<link, enabled>>
dfs   == <<visited, path, todo>>
kahn  == <<inDegree, queue, sorted>>
pipe  == <<steps, inputs>>
vars  == <<graph, phase, nodes, dfs, kahn, pipe>>

NoLink == <<>>

\* buildDAG keeps the connections both of whose ends are nodes.
From(c) == link[c][1]
To(c) == link[c][2]
Edges == {c \in Connection : link[c] \in nodes \X nodes}
Children(n) == {c \in Edges : From(c) = n}
Parents(n) == {c \in Edges : To(c) = n}

Elements(seq) == {seq[i] : i \in DOMAIN seq}
Orderings(S) ==
    {f \in [1 .. Cardinality(S) -> S] :
        \A i, j \in 1 .. Cardinality(S) : f[i] = f[j] => i = j}

Init ==
    /\ link \in [Connection -> (Agent \X Agent) \cup {NoLink}]
    /\ enabled \in SUBSET Agent
    /\ phase = "check"
    /\ nodes = Agent
    /\ visited = {} /\ path = <<>> /\ todo = [n \in Agent |-> {}]
    /\ inDegree = [n \in Agent |-> 0] /\ queue = <<>> /\ sorted = <<>>
    /\ steps = <<>> /\ inputs = [n \in Agent |-> {}]

-----------------------------------------------------------------------------
\* detectCycle, called by saveTeamGraph and again by topologicalSort.

Checking == phase \in {"check", "recheck"}
Top == path[Len(path)]

\* A call of dfs for a node that is neither visited nor in the stack.
Enter(n) ==
    /\ visited' = visited \cup {n}
    /\ path' = Append(path, n)

VisitRoot ==
    /\ Checking /\ path = <<>>
    /\ \E n \in nodes \ visited :
          /\ Enter(n)
          /\ todo' = [todo EXCEPT ![n] = Children(n)]
    /\ UNCHANGED <<graph, phase, nodes, kahn, pipe>>

\* Mutation: a child in the stack is taken for one already done.
MutVisitChild(c) ==
    /\ IF To(c) \in visited
         THEN /\ todo' = [todo EXCEPT ![Top] = @ \ {c}]
              /\ UNCHANGED <<phase, visited, path>>
         ELSE /\ Enter(To(c))
              /\ todo' = [todo EXCEPT ![Top] = @ \ {c}, ![To(c)] = Children(To(c))]
              /\ UNCHANGED phase
    /\ UNCHANGED <<graph, nodes, kahn, pipe>>

\* Mutation: a node is taken for one in the stack once it was visited.
MutVisitChildVisited(c) ==
    /\ IF To(c) \in visited
         THEN /\ phase' = IF phase = "check" THEN "refused" ELSE "thrown"
              /\ UNCHANGED dfs
         ELSE /\ Enter(To(c))
              /\ todo' = [todo EXCEPT ![Top] = @ \ {c}, ![To(c)] = Children(To(c))]
              /\ UNCHANGED phase
    /\ UNCHANGED <<graph, nodes, kahn, pipe>>

VisitChild(c) ==
    /\ IF To(c) \in Elements(path)
         THEN /\ phase' = IF phase = "check" THEN "refused" ELSE "thrown"
              /\ UNCHANGED dfs
         ELSE IF To(c) \in visited
         THEN /\ todo' = [todo EXCEPT ![Top] = @ \ {c}]
              /\ UNCHANGED <<phase, visited, path>>
         ELSE /\ Enter(To(c))
              /\ todo' = [todo EXCEPT ![Top] = @ \ {c}, ![To(c)] = Children(To(c))]
              /\ UNCHANGED phase
    /\ UNCHANGED <<graph, nodes, kahn, pipe>>

Descend ==
    /\ Checking /\ path # <<>>
    /\ \E c \in todo[Top] : VisitChild(c)

Backtrack ==
    /\ Checking /\ path # <<>>
    /\ todo[Top] = {}
    /\ path' = SubSeq(path, 1, Len(path) - 1)
    /\ UNCHANGED <<graph, phase, nodes, visited, todo, kahn, pipe>>

NoCycle ==
    /\ Checking /\ path = <<>> /\ nodes \subseteq visited
    /\ phase' = IF phase = "check" THEN "saved" ELSE "degrees"
    /\ UNCHANGED <<graph, nodes, dfs, kahn, pipe>>

-----------------------------------------------------------------------------
\* runPipeline loads the team.

Connected == \E c \in Connection : link[c] # NoLink

Load ==
    /\ phase = "saved"
    /\ IF Connected
         THEN /\ phase' = "recheck"
              /\ nodes' = enabled
              /\ visited' = {}
              /\ UNCHANGED sorted
         ELSE /\ phase' = "run"
              /\ sorted' \in Orderings(enabled)
              /\ UNCHANGED <<nodes, visited>>
    /\ UNCHANGED <<graph, path, todo, inDegree, queue, pipe>>

-----------------------------------------------------------------------------
\* topologicalSort, after its call of detectCycle.

Degree(n) == Cardinality(Parents(n))

CountDegrees ==
    /\ phase = "degrees"
    /\ phase' = "sort"
    /\ inDegree' = [n \in Agent |-> IF n \in nodes THEN Degree(n) ELSE 0]
    /\ queue' \in Orderings({n \in nodes : Degree(n) = 0})
    /\ UNCHANGED <<graph, nodes, dfs, sorted, pipe>>

\* Mutation: a child is queued at its first parent and its degree runs on.
MutDequeue ==
    /\ phase = "sort" /\ queue # <<>>
    /\ sorted' = Append(sorted, Head(queue))
    /\ LET left(n) == inDegree[n] - 1
           freed == {n \in nodes : Children(Head(queue)) \cap Parents(n) # {}}
       IN  /\ inDegree' = [n \in Agent |-> IF n \in freed THEN left(n) ELSE inDegree[n]]
           /\ \E order \in Orderings(freed) : queue' = Tail(queue) \o order
    /\ UNCHANGED <<graph, phase, nodes, dfs, pipe>>

\* The first of the queue is sorted, and its children whose last parent it
\* was are queued.
Dequeue ==
    /\ phase = "sort" /\ queue # <<>>
    /\ sorted' = Append(sorted, Head(queue))
    /\ LET left(n) == inDegree[n] - Cardinality(Children(Head(queue)) \cap Parents(n))
           freed == {n \in nodes : inDegree[n] > 0 /\ left(n) <= 0}
       IN  /\ inDegree' = [n \in Agent |-> IF n \in nodes THEN left(n) ELSE inDegree[n]]
           /\ \E order \in Orderings(freed) : queue' = Tail(queue) \o order
    /\ UNCHANGED <<graph, phase, nodes, dfs, pipe>>

Sorted ==
    /\ phase = "sort" /\ queue = <<>>
    /\ phase' = "run"
    /\ UNCHANGED <<graph, nodes, dfs, kahn, pipe>>

-----------------------------------------------------------------------------
\* The step loop.

\* Mutation: every earlier output, although the team has connections.
MutPreviousOutputs(n) == Elements(steps)

\* The completed steps of the parents, or of all if nothing is connected.
PreviousOutputs(n) ==
    IF Connected
      THEN Elements(steps) \cap {From(c) : c \in Parents(n)}
      ELSE Elements(steps)

RunStep ==
    /\ phase = "run" /\ Len(steps) < Len(sorted)
    /\ LET n == sorted[Len(steps) + 1]
       IN  /\ inputs' = [inputs EXCEPT ![n] = PreviousOutputs(n)]
           /\ steps' = Append(steps, n)
    /\ UNCHANGED <<graph, phase, nodes, dfs, kahn>>

\* A step fails, or the run times out or runs out of tokens.
RunFails ==
    /\ phase = "run" /\ Len(steps) < Len(sorted)
    /\ phase' = "failed"
    /\ UNCHANGED <<graph, nodes, dfs, kahn, pipe>>

RunCompletes ==
    /\ phase = "run" /\ Len(steps) = Len(sorted)
    /\ phase' = "completed"
    /\ UNCHANGED <<graph, nodes, dfs, kahn, pipe>>

Next ==
    \/ VisitRoot \/ Descend \/ Backtrack \/ NoCycle
    \/ Load
    \/ CountDegrees \/ Dequeue \/ Sorted
    \/ RunStep \/ RunFails \/ RunCompletes

Spec == Init /\ [][Next]_vars

-----------------------------------------------------------------------------
\* Correctness.

\* What a cycle is: agents each of which waits for another of them.
Cyclic(S) ==
    \E T \in SUBSET S :
        /\ T # {}
        /\ \A n \in T : \E c \in Connection : link[c] \in T \X T /\ To(c) = n

\* saveTeamGraph refuses a workflow exactly if some of its agents would wait
\* for each other for ever (detectCycle, the stack against the visited set).
RefusedIffCyclic ==
    /\ phase = "refused" => Cyclic(Agent)
    /\ phase \notin {"check", "refused"} => ~ Cyclic(Agent)

\* A workflow that was accepted when it was saved is not refused when it is
\* run, whatever agents have been disabled (topologicalSort's own check).
AcceptedRuns == phase # "thrown"

\* A run executes every enabled agent, once, and after all the enabled agents
\* that are connected to it, however often (topologicalSort's in-degrees).
EveryAgentAfterItsParents ==
    phase \in {"run", "failed", "completed"} =>
        /\ Elements(sorted) = enabled /\ Len(sorted) = Cardinality(enabled)
        /\ \A i, j \in DOMAIN sorted :
              (\E c \in Connection : link[c] = <<sorted[i], sorted[j]>>) => i < j

\* When a step has run it was given the output of every enabled agent
\* connected to it, and of no other, unless the team has no connection at all.
InputsAreParents ==
    \A i \in DOMAIN steps :
        inputs[steps[i]] =
            IF Connected
              THEN {p \in enabled : \E c \in Connection : link[c] = <<p, steps[i]>>}
              ELSE {steps[k] : k \in 1 .. i - 1}
=============================================================================
