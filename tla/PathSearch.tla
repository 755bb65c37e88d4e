------------------------------ MODULE PathSearch ------------------------------
(***************************************************************************)
(* find_paths(): the breadth-first, context-sensitive search of directed   *)
(* flow for the paths from a start node to a goal node of the inter-       *)
(* procedural CFG.  An item of the queue carries its own return stack,     *)
(* call depth and history, so a return goes back to the call the path came *)
(* through.                                                                *)
(*                                                                         *)
(* A graph gives each node the sequence of its out-edges, an edge being    *)
(* [kind, dst]; dst 0 is an edge without a destination in the graph.       *)
(***************************************************************************)
EXTENDS Naturals, Sequences, SequencesExt, FiniteSets

CONSTANTS
  Nodes,          \* the CFG's nodes, 1 .. n
  Graphs,         \* the graphs to search
  Depths,         \* the values of --function-depth
  StateLimits,    \* the values of --max-states, 0 for no limit
  PathLimits      \* the resolved values of --max-paths

Kinds == {"jump", "call", "callreturn", "tail", "return"}
Edge  == [kind : Kinds, dst : Nodes \cup {0}]

ASSUME SearchAssumption ==
  /\ IsFiniteSet(Nodes) /\ Nodes = 1 .. Cardinality(Nodes)
  /\ \A g \in Graphs : DOMAIN g = Nodes /\ \A n \in Nodes : g[n] \in Seq(Edge)
  /\ Depths \subseteq Nat /\ StateLimits \subseteq Nat
  /\ PathLimits \subseteq Nat \ {0}

VARIABLES
  graph, start, goal, functionDepth, maxStates, pathLimit,   \* the search's inputs
  stopped,       \* the token was requested or the time has passed
  queue,         \* the breadth-first queue of items
  found,         \* the paths found, in the order found
  searchStates,  \* items taken from the queue
  limited,       \* result.completion was set to limited
  pc             \* "searching" or "done"

inputs == <<graph, start, goal, functionDepth, maxStates, pathLimit>>
vars == <<inputs, stopped, queue, found, searchStates, limited, pc>>

\* A path is its nodes, the edges between them and the deepest call on it.  A
\* key of the history is a node at a call depth, whatever the return stack.
Paths == [nodes : Seq(Nodes), edges : Seq(Nodes \X Nat), depth : Nat]

Items == [node : Nodes, stack : Seq(Nodes \cup {0}), path : Paths,
          depth : Nat, history : SUBSET (Nat \X Nodes)]

TypeOK ==
  /\ graph \in Graphs /\ start \in Nodes /\ goal \in Nodes
  /\ functionDepth \in Depths /\ maxStates \in StateLimits
  /\ pathLimit \in PathLimits
  /\ stopped \in BOOLEAN /\ limited \in BOOLEAN
  /\ \A i \in DOMAIN queue : queue[i] \in Items
  /\ \A i \in DOMAIN found : found[i] \in Paths
  /\ searchStates \in Nat
  /\ pc \in {"searching", "done"}

InitialItem ==
  [node |-> start, stack |-> <<>>, depth |-> 0, history |-> {<<0, start>>},
   path |-> [nodes |-> <<start>>, edges |-> <<>>, depth |-> 0]]

Init ==
  /\ graph \in Graphs /\ start \in Nodes /\ goal \in Nodes
  /\ functionDepth \in Depths /\ maxStates \in StateLimits
  /\ pathLimit \in PathLimits
  /\ stopped = FALSE /\ queue = <<InitialItem>> /\ found = <<>>
  /\ searchStates = 0 /\ limited = FALSE /\ pc = "searching"

-----------------------------------------------------------------------------
\* Where a call from the node continues: its first call-return edge.
Continuation(node) ==
  LET returns == {i \in DOMAIN graph[node] : graph[node][i].kind = "callreturn"}
  IN  IF returns = {} THEN 0
      ELSE graph[node][CHOOSE i \in returns : \A j \in returns : i <= j].dst

EntersCall(edge) == edge.kind \in {"call", "tail"}
Returns(item, edge) == edge.kind = "return" /\ item.stack # <<>>

\* Variant of Destination: a return goes back to the oldest call.
DestinationOldest(item, edge) ==
  IF Returns(item, edge) THEN Head(item.stack) ELSE edge.dst

Destination(item, edge) ==
  IF Returns(item, edge) THEN Last(item.stack) ELSE edge.dst

NextStack(item, edge) ==
  IF edge.kind = "call" THEN Append(item.stack, Continuation(item.node))
  ELSE IF Returns(item, edge) THEN Front(item.stack)
  ELSE item.stack

NextDepth(item, edge) ==
  IF EntersCall(edge) THEN item.depth + 1
  ELSE IF Returns(item, edge) /\ item.depth # 0 THEN item.depth - 1
  ELSE item.depth

\* Variant of Visited: no history.
VisitedNever(item, edge) == FALSE

\* An edge is followed unless it exceeds the call depth, leads nowhere, or
\* leads to a node this path has been at with this depth.
Visited(item, edge) ==
  <<NextDepth(item, edge), Destination(item, edge)>> \in item.history

\* Variants of Followed: the depth test one too strict, one too weak, and a
\* destination outside the graph.
FollowedAnywhere(item, edge) ==
  /\ EntersCall(edge) => item.depth < functionDepth
  /\ ~ Visited(item, edge)
FollowedStrict(item, edge) ==
  /\ EntersCall(edge) => item.depth + 1 < functionDepth
  /\ Destination(item, edge) \in Nodes
  /\ ~ Visited(item, edge)
FollowedWeak(item, edge) ==
  /\ EntersCall(edge) => item.depth <= functionDepth
  /\ Destination(item, edge) \in Nodes
  /\ ~ Visited(item, edge)

Followed(item, edge) ==
  /\ EntersCall(edge) => item.depth < functionDepth
  /\ Destination(item, edge) \in Nodes
  /\ ~ Visited(item, edge)

Follow(item, i) ==
  LET edge == graph[item.node][i]
      to   == Destination(item, edge)
      deep == NextDepth(item, edge)
  IN  [node |-> to, stack |-> NextStack(item, edge), depth |-> deep,
       history |-> item.history \cup {<<deep, to>>},
       path |-> [nodes |-> Append(item.path.nodes, to),
                 edges |-> Append(item.path.edges, <<item.node, i>>),
                 depth |-> IF EntersCall(edge) /\ deep > item.path.depth
                           THEN deep ELSE item.path.depth]]

\* The edges an item is followed along, by their index in the node's sequence.
FollowedEdges(item) ==
  {i \in DOMAIN graph[item.node] : Followed(item, graph[item.node][i])}

Rank(edges, i) == Cardinality({j \in edges : j <= i})

\* The items that follow one, in the order of the node's edges.
Successors(item) ==
  LET edges == FollowedEdges(item)
  IN  [k \in 1 .. Cardinality(edges) |->
         Follow(item, CHOOSE i \in edges : Rank(edges, i) = k)]

-----------------------------------------------------------------------------
\* The token or the clock: read once per item.
Stop ==
  /\ pc = "searching" /\ ~ stopped /\ stopped' = TRUE
  /\ UNCHANGED <<inputs, queue, found, searchStates, limited, pc>>

OutOfStates == maxStates # 0 /\ searchStates >= maxStates

\* The loop ends: nothing queued, stopped, or out of states.  Only the last
\* marks the result.
Finish ==
  /\ pc = "searching" /\ pc' = "done"
  /\ \/ queue = <<>> /\ UNCHANGED limited
     \/ queue # <<>> /\ stopped /\ UNCHANGED limited
     \/ queue # <<>> /\ ~ stopped /\ OutOfStates /\ limited' = TRUE
  /\ UNCHANGED <<inputs, stopped, queue, found, searchStates>>

Takes == pc = "searching" /\ queue # <<>> /\ ~ stopped /\ ~ OutOfStates

\* An item at the goal is a path found and is not followed further; the last
\* one the limit allows ends the search.
TakeGoal ==
  /\ Takes /\ Head(queue).node = goal
  /\ found' = Append(found, Head(queue).path)
  /\ queue' = Tail(queue) /\ searchStates' = searchStates + 1
  /\ pc' = IF Len(found') >= pathLimit THEN "done" ELSE pc
  /\ UNCHANGED <<inputs, stopped, limited>>

\* Variant of TakeItem: the queue is a stack.
TakeItemDepthFirst ==
  /\ Takes /\ Head(queue).node # goal
  /\ queue' = Successors(Head(queue)) \o Tail(queue)
  /\ searchStates' = searchStates + 1
  /\ UNCHANGED <<inputs, stopped, found, limited, pc>>

TakeItem ==
  /\ Takes /\ Head(queue).node # goal
  /\ queue' = Tail(queue) \o Successors(Head(queue))
  /\ searchStates' = searchStates + 1
  /\ UNCHANGED <<inputs, stopped, found, limited, pc>>

Terminated == pc = "done" /\ UNCHANGED vars

Next == Finish \/ TakeGoal \/ TakeItem \/ Stop \/ Terminated

Spec == Init /\ [][Next]_vars

-----------------------------------------------------------------------------
(* What the search is for, stated without its stack, queue and history.    *)

EdgeAt(path, i) == graph[path.edges[i][1]][path.edges[i][2]]

Calls(path, i, j)   == {k \in i .. j : EdgeAt(path, k).kind = "call"}
Returned(path, i, j) == {k \in i .. j : EdgeAt(path, k).kind = "return"}

\* The edges strictly between a call at i and a return at j are balanced.
Matches(path, i, j) ==
  /\ i < j
  /\ EdgeAt(path, i).kind = "call" /\ EdgeAt(path, j).kind = "return"
  /\ Cardinality(Calls(path, i + 1, j - 1)) = Cardinality(Returned(path, i + 1, j - 1))
  /\ \A k \in i + 1 .. j - 1 :
       Cardinality(Returned(path, i + 1, k)) <= Cardinality(Calls(path, i + 1, k))

\* A path is one of the program: from start to goal, along edges of the graph,
\* each return leading to where the call it matches continues.
Realisable(path) ==
  LET last == Len(path.edges)
  IN  /\ Head(path.nodes) = start /\ Last(path.nodes) = goal
      /\ Len(path.nodes) = last + 1
      /\ \A j \in 1 .. last :
           /\ path.edges[j][1] = path.nodes[j]
           /\ IF \E i \in 1 .. j : Matches(path, i, j)
              THEN \A i \in 1 .. j : Matches(path, i, j) =>
                     path.nodes[j + 1] = Continuation(path.nodes[i])
              ELSE path.nodes[j + 1] = EdgeAt(path, j).dst

-----------------------------------------------------------------------------
(* Properties.                                                             *)

\* Every path found is a path of the program: no return of a callee leaks into
\* a caller the path did not come through.
FoundIsRealisable == \A i \in DOMAIN found : Realisable(found[i])

\* No path found has more calls open at once than --function-depth allows, and
\* the depth reported for it covers them: "0 stays inside one function".
FoundWithinDepth ==
  \A i \in DOMAIN found :
    LET path == found[i]
    IN  /\ path.depth <= functionDepth
        /\ \A k \in 1 .. Len(path.edges) :
             Cardinality(Calls(path, 1, k))
               <= path.depth + Cardinality(Returned(path, 1, k))

\* No path is found twice, and none is found before a shorter one.
FoundShortestFirst ==
  \A i, j \in DOMAIN found : i < j =>
    /\ found[i].edges # found[j].edges
    /\ Len(found[i].edges) <= Len(found[j].edges)

\* What is found can be relied on: see the three parts.
FoundSound == FoundIsRealisable /\ FoundWithinDepth /\ FoundShortestFirst

\* The nodes a program at call depth 0 in start can reach with at most
\* functionDepth calls open, as <<calls open, node>>: a call that returns is one
\* step to its continuation.
Steps(at) ==
  {<<at[1] + (IF EntersCall(edge) THEN 1 ELSE 0), edge.dst>> :
     edge \in {e \in ToSet(graph[at[2]]) : e.kind # "return"}}

Reached[n \in Nat] ==
  IF n = 0 THEN {<<0, start>>}
  ELSE LET before == Reached[n - 1]
       IN  before \cup {at \in UNION {Steps(b) : b \in before} :
                        at[1] <= functionDepth /\ at[2] \in Nodes}

Reachable == {at[2] : at \in Reached[Cardinality(Nodes) * (functionDepth + 1)]}

\* A search that ran to its end finds the goal whenever the program can reach
\* it within the call depth: pruning by the history, which ignores the return
\* stack, loses paths but never the last one.
GoalFound ==
  pc = "done" /\ queue = <<>> /\ found = <<>> => goal \notin Reachable

\* The history bounds every path, so the search ends without --max-states on a
\* graph with loops and recursion.
PathsBounded ==
  \A i \in DOMAIN queue :
    Len(queue[i].path.nodes) <= (functionDepth + 1) * Cardinality(Nodes)

=============================================================================
