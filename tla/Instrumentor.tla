----------------------------- MODULE Instrumentor -----------------------------
(***************************************************************************)
(* otelmind/instrumentation/instrumentor.py: OtelMindInstrumentor patches  *)
(* CompiledGraph.invoke; every traced invocation wraps the node functions  *)
(* of its graph before it runs and puts them back after it.  The instru-   *)
(* mentor remembers what it wrapped by the name of the node only.          *)
(*                                                                         *)
(* Invocations overlap: a node invokes another graph, or threads invoke    *)
(* graphs of one instrumentor.  A switch inside _patch_nodes or            *)
(* _unpatch_nodes is left out.  A function is the graph it was defined for *)
(* and the number of wrappers around it.                                   *)
(***************************************************************************)
EXTENDS Naturals, FiniteSets, Functions

CONSTANTS Graph, Node, Invocation,
  NodesOf,        \* the names of the nodes of each graph
  MaxInvocations  \* bound

\* Assumed by the module that instantiates this one.
InstrumentorAssumption ==
  "none" \notin Graph /\ NodesOf \in [Graph -> SUBSET Node] /\ MaxInvocations \in Nat

VARIABLES
  installed,  \* CompiledGraph.invoke is patched, and _original_invoke is not None
  nodes,      \* graph.nodes
  patched,    \* _patched_nodes: the function of each name that was wrapped
  running,    \* the graph that each invocation runs, and how far it is
  started,    \* how many invocations there were
  overlapped  \* history: the graphs of which two invocations overlapped

vars == <<installed, nodes, patched, running, started, overlapped>>

Idle == [at |-> "idle", graph |-> "none"]

Init ==
  /\ installed = FALSE
  /\ nodes = [g \in Graph |-> [n \in NodesOf[g] |-> [graph |-> g, wrappers |-> 0]]]
  /\ patched = [n \in {} |-> 0]
  /\ running = [i \in Invocation |-> Idle]
  /\ started = 0
  /\ overlapped = {}

\* instrument() does nothing if the class is patched already.
Instrument ==
  /\ ~installed
  /\ installed' = TRUE
  /\ UNCHANGED <<nodes, patched, running, started, overlapped>>

Uninstrument ==
  /\ installed
  /\ installed' = FALSE
  /\ UNCHANGED <<nodes, patched, running, started, overlapped>>

Active == {i \in Invocation : running[i].at # "idle"}

\* _traced_invoke() starts the root span.  An invocation of a class that is not
\* patched changes nothing here.
Invoke(i, g) ==
  /\ installed /\ running[i].at = "idle" /\ started < MaxInvocations
  /\ running' = [running EXCEPT ![i] = [at |-> "traced", graph |-> g]]
  /\ started' = started + 1
  /\ overlapped' = IF Active = {} THEN overlapped
                   ELSE overlapped \cup {g} \cup {running[j].graph : j \in Active}
  /\ UNCHANGED <<installed, nodes, patched>>

\* _create_node_wrapper()
Wrap(function) == [function EXCEPT !.wrappers = @ + 1]

\* _patch_nodes(): a name that is wrapped already is passed over.
Patch(i) ==
  LET g == running[i].graph
      new == NodesOf[g] \ DOMAIN patched
  IN  /\ running[i].at = "traced"
      /\ patched' = [n \in DOMAIN patched \cup new |-> IF n \in new THEN nodes[g][n] ELSE patched[n]]
      /\ nodes' = [nodes EXCEPT ![g] = [n \in NodesOf[g] |-> IF n \in new THEN Wrap(@[n]) ELSE @[n]]]
      /\ running' = [running EXCEPT ![i].at = "patched"]
      /\ UNCHANGED <<installed, started, overlapped>>

\* The original invoke() is called by its global name, which is None after
\* uninstrument(): the invocation fails.
CallInvoke(i) ==
  /\ running[i].at = "patched"
  /\ running' = [running EXCEPT ![i].at = IF installed THEN "running" ELSE "leaving"]
  /\ UNCHANGED <<installed, nodes, patched, started, overlapped>>

\* The graph returns or raises.
Return(i) ==
  /\ running[i].at = "running"
  /\ running' = [running EXCEPT ![i].at = "leaving"]
  /\ UNCHANGED <<installed, nodes, patched, started, overlapped>>

PutBack(g) ==
  nodes' = [nodes EXCEPT ![g] = [n \in NodesOf[g] |-> IF n \in DOMAIN patched THEN patched[n] ELSE @[n]]]

\* Mutant of Unpatch: the names are not forgotten.
UnpatchRemembers(i) ==
  /\ running[i].at = "leaving"
  /\ PutBack(running[i].graph)
  /\ running' = [running EXCEPT ![i] = Idle]
  /\ UNCHANGED <<installed, patched, started, overlapped>>

\* _unpatch_nodes(), in the finally clause
Unpatch(i) ==
  /\ running[i].at = "leaving"
  /\ PutBack(running[i].graph)
  /\ patched' = [n \in {} |-> 0]
  /\ running' = [running EXCEPT ![i] = Idle]
  /\ UNCHANGED <<installed, started, overlapped>>

Next ==
  \/ Instrument \/ Uninstrument
  \/ \E i \in Invocation :
       (\E g \in Graph : Invoke(i, g)) \/ Patch(i) \/ CallInvoke(i) \/ Return(i) \/ Unpatch(i)

-----------------------------------------------------------------------------
\* The nodes of a graph whose invocations were alone are wrapped once while it
\* runs, which is one span for each node, and not at all afterwards.
WrappedWhileRunning(g) ==
  LET wrapping == \E i \in Active : running[i].graph = g /\ running[i].at # "traced"
  IN  g \notin overlapped => \A n \in NodesOf[g] : nodes[g][n].wrappers = IF wrapping THEN 1 ELSE 0

\* A graph calls the function of another graph only if they have a node of the same
\* name and their invocations overlapped.
OwnFunction(g) ==
  \A n \in NodesOf[g] : LET other == nodes[g][n].graph IN
    other # g => {g, other} \subseteq overlapped /\ n \in NodesOf[other]

\* Invocations that do not overlap leave every graph as it was, and give each node
\* one span (instrumentor.py:230, "Restore original node functions"); the others
\* leave wrappers behind, and functions of graphs with nodes of the same name.
NodesRestored == \A g \in Graph : WrappedWhileRunning(g) /\ OwnFunction(g)

=============================================================================
