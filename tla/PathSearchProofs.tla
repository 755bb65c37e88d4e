--------------------------- MODULE PathSearchProofs ---------------------------
(***************************************************************************)
(* Proofs about PathSearch, for every finite graph, start, goal, call      *)
(* depth and limit.  The invariants are about the items of the queue: what *)
(* the path, the return stack and the history of an item have to do with   *)
(* one another.                                                            *)
(***************************************************************************)
EXTENDS PathSearch, FiniteSetTheorems, NaturalsInduction, SequenceTheorems, TLAPS

-----------------------------------------------------------------------------
(* Facts about the model's operators.                                      *)

\* A set of natural numbers that is not empty has a least element.
LEMMA LeastNatural ==
  ASSUME NEW T \in SUBSET Nat, T # {}
  PROVE  \E n \in T : \A m \in T : n <= m
<1>1. PICK n \in T : \A m \in T : <<m, n>> \notin OpToRel(<, Nat)
  <2>1. IsWellFoundedOn(OpToRel(<, Nat), Nat)
    BY NatLessThanWellFounded
  <2> QED
    BY <2>1, WFMin
<1>2. ASSUME NEW m \in T PROVE n <= m
  <2>1. ~(m < n)
    BY <1>1 DEF OpToRel
  <2> QED
    BY <2>1
<1> QED
  BY <1>2

LEMMA Sizes ==
  /\ IsFiniteSet(Nodes) /\ Cardinality(Nodes) \in Nat
  /\ Nodes = 1 .. Cardinality(Nodes) /\ 0 \notin Nodes
  /\ Depths \subseteq Nat /\ PathLimits \subseteq Nat
BY SearchAssumption, FS_CardinalityType DEF SearchAssumption

\* What TypeOK says of the queue and of the paths, as sequences.
SearchTypes == TypeOK /\ queue \in Seq(Items) /\ found \in Seq(Paths)

\* The out-edges of a node.
LEMMA EdgeType ==
  ASSUME TypeOK, NEW n \in Nodes
  PROVE  /\ graph[n] \in Seq(Edge)
         /\ DOMAIN graph[n] \in SUBSET (Nat \ {0})
         /\ \A i \in DOMAIN graph[n] :
              graph[n][i].kind \in Kinds /\ graph[n][i].dst \in Nodes \cup {0}
<1>1. graph[n] \in Seq(Edge)
  BY SearchAssumption DEF SearchAssumption, TypeOK
<1>2. \A i \in DOMAIN graph[n] : graph[n][i] \in Edge /\ i \in Nat \ {0}
  BY <1>1
<1> QED
  BY <1>1, <1>2 DEF Edge

LEMMA ContinuationType ==
  ASSUME TypeOK, NEW n \in Nodes
  PROVE  Continuation(n) \in Nodes \cup {0}
<1> DEFINE returns == {i \in DOMAIN graph[n] : graph[n][i].kind = "callreturn"}
<1>1. CASE returns = {}
  BY <1>1 DEF Continuation
<1>2. CASE returns # {}
  <2>1. returns \in SUBSET Nat
    BY EdgeType
  <2>2. \E i \in returns : \A j \in returns : i <= j
    BY <1>2, <2>1, LeastNatural
  <2> DEFINE first == CHOOSE i \in returns : \A j \in returns : i <= j
  <2>3. first \in returns
    BY <2>2
  <2> HIDE DEF first
  <2>4. graph[n][first].dst \in Nodes \cup {0}
    BY <2>3, EdgeType
  <2> QED
    BY <1>2, <2>4 DEF Continuation, first
<1> QED
  BY <1>1, <1>2

\* An item's successor along a followed edge is an item.
LEMMA FollowType ==
  ASSUME TypeOK, NEW item \in Items, NEW i \in FollowedEdges(item)
  PROVE  Follow(item, i) \in Items
<1> DEFINE edge == graph[item.node][i]
           next == Follow(item, i)
<1>1. /\ item.node \in Nodes /\ item.stack \in Seq(Nodes \cup {0}) /\ item.depth \in Nat
      /\ item.history \in SUBSET (Nat \X Nodes)
      /\ item.path.nodes \in Seq(Nodes) /\ item.path.edges \in Seq(Nodes \X Nat)
      /\ item.path.depth \in Nat
  BY DEF Items, Paths
<1>2. i \in Nat /\ Destination(item, edge) \in Nodes
  BY <1>1, EdgeType DEF FollowedEdges, Followed
<1>3. NextStack(item, edge) \in Seq(Nodes \cup {0})
  <2>1. Append(item.stack, Continuation(item.node)) \in Seq(Nodes \cup {0})
    BY <1>1, ContinuationType
  <2>2. item.stack # <<>> => Front(item.stack) \in Seq(Nodes \cup {0})
    BY <1>1 DEF Front
  <2> QED
    BY <1>1, <2>1, <2>2 DEF NextStack, Returns
<1>4. NextDepth(item, edge) \in Nat
  BY <1>1 DEF NextDepth
<1>5. next.path \in Paths
  <2>1. Append(item.path.nodes, Destination(item, edge)) \in Seq(Nodes)
    BY <1>1, <1>2
  <2>2. Append(item.path.edges, <<item.node, i>>) \in Seq(Nodes \X Nat)
    BY <1>1, <1>2
  <2> QED
    BY <1>1, <1>4, <2>1, <2>2 DEF Follow, Paths
<1>6. item.history \cup {<<NextDepth(item, edge), Destination(item, edge)>>} \in SUBSET (Nat \X Nodes)
  BY <1>1, <1>2, <1>4
<1> QED
  BY <1>2, <1>3, <1>4, <1>5, <1>6 DEF Follow, Items

\* The k-th element of a finite set of natural numbers exists and is unique.
LEMMA RankOrders ==
  ASSUME NEW n \in Nat, NEW S \in SUBSET (1 .. n)
  PROVE  /\ IsFiniteSet(S) /\ Cardinality(S) \in Nat
         /\ \A i \in S : Rank(S, i) \in 1 .. Cardinality(S)
         /\ \A i, j \in S : Rank(S, i) = Rank(S, j) => i = j
         /\ \A k \in 1 .. Cardinality(S) : \E i \in S : Rank(S, i) = k
<1>1. IsFiniteSet(S) /\ Cardinality(S) \in Nat
  <2>1. IsFiniteSet(1 .. n)
    BY FS_Interval
  <2> QED
    BY <2>1, FS_Subset, FS_CardinalityType
<1> DEFINE Upto(i) == {j \in S : j <= i}
<1>2. ASSUME NEW i \in S
      PROVE  /\ IsFiniteSet(Upto(i)) /\ Rank(S, i) = Cardinality(Upto(i))
             /\ Rank(S, i) \in 1 .. Cardinality(S)
  <2>1. Upto(i) \in SUBSET S /\ i \in Upto(i)
    OBVIOUS
  <2>2. Rank(S, i) = Cardinality(Upto(i))
    BY DEF Rank
  <2> HIDE DEF Upto
  <2>3. IsFiniteSet(Upto(i)) /\ Cardinality(Upto(i)) <= Cardinality(S)
        /\ Cardinality(Upto(i)) \in Nat
    BY <1>1, <2>1, FS_Subset, FS_CardinalityType
  <2>4. Cardinality(Upto(i)) # 0
    BY <2>1, <2>3, FS_EmptySet
  <2> QED
    BY <1>1, <2>2, <2>3, <2>4
<1>3. ASSUME NEW i \in S, NEW j \in S, i < j PROVE Rank(S, i) # Rank(S, j)
  <2>1. Upto(i) \in SUBSET Upto(j) /\ Upto(i) # Upto(j)
    <3>1. j \in Upto(j) /\ j \notin Upto(i)
      BY <1>3
    <3>2. \A k \in S : k <= i => k <= j
      BY <1>3
    <3> QED
      BY <3>1, <3>2
  <2> HIDE DEF Upto
  <2> QED
    BY <1>2, <2>1, FS_Subset
<1>4. \A i, j \in S : Rank(S, i) = Rank(S, j) => i = j
  BY <1>3
<1>5. \A k \in 1 .. Cardinality(S) : \E i \in S : Rank(S, i) = k
  <2> DEFINE f == [i \in S |-> Rank(S, i)]
             T == 1 .. Cardinality(S)
  <2>1. f \in Injection(S, T)
    BY <1>2, <1>4 DEF Injection, IsInjective
  <2>2. IsFiniteSet(T) /\ Cardinality(T) = Cardinality(S)
    BY <1>1, FS_Interval
  <2> HIDE DEF f, T
  <2>3. f \in Surjection(S, T)
    BY <2>1, <2>2, FS_Injection
  <2> QED
    BY <2>3 DEF Surjection, f, T
<1> QED
  BY <1>1, <1>2, <1>4, <1>5

\* The successors of an item are the items it is followed to, one per followed
\* edge.
LEMMA SuccessorsFacts ==
  ASSUME TypeOK, NEW item \in Items
  PROVE  /\ Successors(item) \in Seq(Items)
         /\ \E nth \in [1 .. Len(Successors(item)) -> FollowedEdges(item)] :
              /\ \A k \in 1 .. Len(Successors(item)) : Successors(item)[k] = Follow(item, nth[k])
              /\ \A k, m \in 1 .. Len(Successors(item)) : nth[k] = nth[m] => k = m
              /\ \A e \in FollowedEdges(item) :
                   \E k \in 1 .. Len(Successors(item)) : nth[k] = e
<1> DEFINE S == FollowedEdges(item)
           c == Cardinality(S)
           nth == [k \in 1 .. c |-> CHOOSE i \in S : Rank(S, i) = k]
<1>1. item.node \in Nodes
  BY DEF Items
<1>2. S \in SUBSET (1 .. Len(graph[item.node])) /\ Len(graph[item.node]) \in Nat
  BY <1>1, EdgeType DEF FollowedEdges
<1>3. /\ c \in Nat
      /\ \A i \in S : Rank(S, i) \in 1 .. c
      /\ \A k \in 1 .. c : \E i \in S : Rank(S, i) = k
  <2> HIDE DEF S
  <2> QED
    BY <1>2, RankOrders
<1>4. Successors(item) = [k \in 1 .. c |-> Follow(item, nth[k])]
  BY DEF Successors
<1>5. \A k \in 1 .. c : nth[k] \in S /\ Rank(S, nth[k]) = k
  <2> HIDE DEF S
  <2> QED
    BY <1>3
<1>6. nth \in [1 .. c -> S]
  <2>1. nth = [k \in 1 .. c |-> nth[k]]
    OBVIOUS
  <2> HIDE DEF nth, S, c
  <2> QED
    BY <1>5, <2>1
<1>7. \A k, m \in 1 .. c : nth[k] = nth[m] => k = m
  <2> HIDE DEF nth, S, c
  <2> QED
    BY <1>5
<1>8. \A e \in S : \E k \in 1 .. c : nth[k] = e
  <2> SUFFICES ASSUME NEW e \in S PROVE nth[Rank(S, e)] = e /\ Rank(S, e) \in 1 .. c
    OBVIOUS
  <2>1. \A i, j \in S : Rank(S, i) = Rank(S, j) => i = j
    <3> HIDE DEF S
    <3> QED
      BY <1>2, RankOrders
  <2> HIDE DEF nth, S, c
  <2> QED
    BY <1>3, <1>5, <2>1
<1>9. \A k \in 1 .. c : Follow(item, nth[k]) \in Items
  <2>1. \A e \in FollowedEdges(item) : Follow(item, e) \in Items
    BY FollowType
  <2> HIDE DEF nth, c
  <2> QED
    BY <1>5, <2>1
<1>10. Len(Successors(item)) = c /\ Successors(item) \in Seq(Items)
  <2> HIDE DEF nth, c
  <2> QED
    BY <1>3, <1>4, <1>9
<1>11. \A k \in 1 .. c : Successors(item)[k] = Follow(item, nth[k])
  <2> HIDE DEF nth, c
  <2> QED
    BY <1>4
<1> HIDE DEF nth, c, S
<1> QED
  BY <1>6, <1>7, <1>8, <1>10, <1>11 DEF S

\* What the queue holds after a step: what it held but the head, in the same
\* order, then the head's successors.
LEMMA QueueAfterItem ==
  ASSUME SearchTypes, TakeItem
  PROVE  /\ queue' \in Seq(Items) /\ Head(queue) \in Items /\ Head(queue) = queue[1]
         /\ Len(queue) \in Nat \ {0} /\ Len(queue') \in Nat
         /\ Len(queue') >= Len(queue) - 1
         /\ \A i \in 1 .. Len(queue) - 1 : queue'[i] = queue[i + 1]
         /\ \E nth \in [Len(queue) .. Len(queue') -> FollowedEdges(Head(queue))] :
              /\ \A i \in Len(queue) .. Len(queue') : queue'[i] = Follow(Head(queue), nth[i])
              /\ \A i, j \in Len(queue) .. Len(queue') : nth[i] = nth[j] => i = j
              /\ \A e \in FollowedEdges(Head(queue)) :
                   \E i \in Len(queue) .. Len(queue') : nth[i] = e
<1> DEFINE item == Head(queue)
           more == Successors(item)
           n == Len(queue)
<1>1. /\ queue \in Seq(Items) /\ queue # <<>> /\ TypeOK
      /\ queue' = Tail(queue) \o Successors(item)
  BY DEF SearchTypes, TakeItem, Takes
<1>2. item \in Items /\ item = queue[1] /\ n \in Nat \ {0}
  BY <1>1
<1>3. /\ more \in Seq(Items)
      /\ \E nth \in [1 .. Len(more) -> FollowedEdges(item)] :
           /\ \A k \in 1 .. Len(more) : more[k] = Follow(item, nth[k])
           /\ \A k, m \in 1 .. Len(more) : nth[k] = nth[m] => k = m
           /\ \A e \in FollowedEdges(item) : \E k \in 1 .. Len(more) : nth[k] = e
  <2> HIDE DEF item
  <2> QED
    BY <1>1, <1>2, SuccessorsFacts
<1> HIDE DEF more, item
<1>4. queue' \in Seq(Items) /\ Len(queue') = n - 1 + Len(more) /\ Len(more) \in Nat
  BY <1>1, <1>2, <1>3 DEF more
<1>5. \A i \in 1 .. n - 1 : queue'[i] = queue[i + 1]
  BY <1>1, <1>2, <1>3 DEF more
<1>6. \A i \in n .. Len(queue') : queue'[i] = more[i - n + 1] /\ i - n + 1 \in 1 .. Len(more)
  BY <1>1, <1>2, <1>3, <1>4 DEF more
<1>7. PICK old \in [1 .. Len(more) -> FollowedEdges(item)] :
           /\ \A k \in 1 .. Len(more) : more[k] = Follow(item, old[k])
           /\ \A k, m \in 1 .. Len(more) : old[k] = old[m] => k = m
           /\ \A e \in FollowedEdges(item) : \E k \in 1 .. Len(more) : old[k] = e
  BY <1>3
<1> DEFINE nth == [i \in n .. Len(queue') |-> old[i - n + 1]]
<1>8. nth \in [n .. Len(queue') -> FollowedEdges(item)]
  BY <1>6, <1>7
<1>9. \A i \in n .. Len(queue') : queue'[i] = Follow(item, nth[i])
  BY <1>6, <1>7
<1>10. \A i, j \in n .. Len(queue') : nth[i] = nth[j] => i = j
  BY <1>2, <1>4, <1>6, <1>7
<1>11. \A e \in FollowedEdges(item) : \E i \in n .. Len(queue') : nth[i] = e
  <2> SUFFICES ASSUME NEW e \in FollowedEdges(item)
               PROVE  \E i \in n .. Len(queue') : nth[i] = e
    OBVIOUS
  <2>1. PICK k \in 1 .. Len(more) : old[k] = e
    BY <1>7
  <2>2. k + n - 1 \in n .. Len(queue') /\ (k + n - 1) - n + 1 = k
    BY <1>2, <1>4
  <2> QED
    BY <2>1, <2>2
<1>12. Len(queue') \in Nat /\ Len(queue') >= n - 1
  BY <1>2, <1>4
<1> HIDE DEF nth, n
<1>13. \E f \in [n .. Len(queue') -> FollowedEdges(item)] :
         /\ \A i \in n .. Len(queue') : queue'[i] = Follow(item, f[i])
         /\ \A i, j \in n .. Len(queue') : f[i] = f[j] => i = j
         /\ \A e \in FollowedEdges(item) : \E i \in n .. Len(queue') : f[i] = e
  BY <1>8, <1>9, <1>10, <1>11
<1> QED
  BY <1>2, <1>4, <1>5, <1>12, <1>13 DEF item, n

LEMMA QueueAfterGoal ==
  ASSUME SearchTypes, TakeGoal
  PROVE  /\ queue' \in Seq(Items) /\ Head(queue) \in Items /\ Head(queue) = queue[1]
         /\ Len(queue) \in Nat \ {0} /\ Len(queue') = Len(queue) - 1
         /\ \A i \in 1 .. Len(queue) - 1 : queue'[i] = queue[i + 1]
         /\ found' \in Seq(Paths) /\ Len(found') = Len(found) + 1 /\ Len(found) \in Nat
         /\ \A i \in 1 .. Len(found) : found'[i] = found[i]
         /\ found'[Len(found')] = Head(queue).path
<1>1. /\ queue \in Seq(Items) /\ queue # <<>> /\ found \in Seq(Paths)
      /\ queue' = Tail(queue) /\ found' = Append(found, Head(queue).path)
  BY DEF SearchTypes, TakeGoal, Takes
<1>2. Head(queue) \in Items
  BY <1>1
<1>3. Head(queue).path \in Paths
  BY <1>2 DEF Items
<1> QED
  BY <1>1, <1>2, <1>3

-----------------------------------------------------------------------------
(* Types.                                                                  *)

LEMMA InitTypes == Init => SearchTypes
<1> SUFFICES ASSUME Init PROVE SearchTypes
  OBVIOUS
<1>1. InitialItem \in Items
  BY DEF Init, InitialItem, Items, Paths
<1>2. queue \in Seq(Items) /\ \A i \in DOMAIN queue : queue[i] \in Items
  BY <1>1 DEF Init
<1>3. found \in Seq(Paths) /\ \A i \in DOMAIN found : found[i] \in Paths
  BY DEF Init
<1> QED
  BY <1>2, <1>3 DEF Init, SearchTypes, TypeOK

LEMMA SearchTypesHold == Spec => []SearchTypes
<1>1. Init => SearchTypes
  BY InitTypes
<1>2. SearchTypes /\ [Next]_vars => SearchTypes'
  <2> SUFFICES ASSUME SearchTypes, [Next]_vars PROVE SearchTypes'
    OBVIOUS
  <2> USE DEF SearchTypes
  <2>1. CASE Finish
    BY <2>1 DEF Finish, inputs, TypeOK
  <2>2. CASE TakeGoal
    <3>1. queue' \in Seq(Items) /\ found' \in Seq(Paths)
      BY <2>2, QueueAfterGoal
    <3>2. \A i \in DOMAIN queue' : queue'[i] \in Items
      BY <3>1
    <3>3. \A i \in DOMAIN found' : found'[i] \in Paths
      BY <3>1
    <3> HIDE DEF Items, Paths
    <3> QED
      BY <2>2, <3>1, <3>2, <3>3 DEF TakeGoal, inputs, TypeOK
  <2>3. CASE TakeItem
    <3>1. queue' \in Seq(Items)
      BY <2>3, QueueAfterItem
    <3>2. \A i \in DOMAIN queue' : queue'[i] \in Items
      BY <3>1
    <3> QED
      BY <2>3, <3>1, <3>2 DEF TakeItem, inputs, TypeOK
  <2>4. CASE Stop
    BY <2>4 DEF Stop, inputs, TypeOK
  <2>5. CASE UNCHANGED vars
    BY <2>5 DEF vars, inputs, TypeOK
  <2> QED
    BY <2>1, <2>2, <2>3, <2>4, <2>5 DEF Next, Terminated
<1> QED
  BY <1>1, <1>2, PTL DEF Spec

\* Every variable of the search keeps its type: in particular each item put
\* into the queue by an edge of the graph, a call's continuation or a return
\* is at a node of the graph.
THEOREM SearchTypeOK == Spec => []TypeOK
BY SearchTypesHold, PTL DEF SearchTypes

-----------------------------------------------------------------------------
(* An item's path, and its successor's.                                    *)

\* The path leads from the start to the item's node along edges of the graph.
Walks(item) ==
  /\ Len(item.path.nodes) = Len(item.path.edges) + 1
  /\ item.path.nodes[1] = start
  /\ item.path.nodes[Len(item.path.nodes)] = item.node
  /\ \A j \in 1 .. Len(item.path.edges) :
       /\ item.path.edges[j][1] = item.path.nodes[j]
       /\ item.path.edges[j][2] \in DOMAIN graph[item.path.nodes[j]]

\* Following an edge adds it and its destination to the path.
Extends(old, new, at, e, to) ==
  LET n == Len(old.edges)
  IN  /\ n \in Nat
      /\ Len(old.nodes) = n + 1 /\ Len(new.nodes) = n + 2 /\ Len(new.edges) = n + 1
      /\ \A j \in 1 .. n + 1 : new.nodes[j] = old.nodes[j]
      /\ new.nodes[n + 2] = to
      /\ \A j \in 1 .. n : new.edges[j] = old.edges[j]
      /\ new.edges[n + 1] = <<at, e>>

LEMMA FollowExtends ==
  ASSUME TypeOK, NEW item \in Items, Walks(item), NEW e \in FollowedEdges(item)
  PROVE  Extends(item.path, Follow(item, e).path, item.node, e,
                 Destination(item, graph[item.node][e]))
<1> DEFINE old == item.path
           new == Follow(item, e).path
           n == Len(old.edges)
<1>1. old.nodes \in Seq(Nodes) /\ old.edges \in Seq(Nodes \X Nat)
  BY DEF Items, Paths
<1>3. /\ new.nodes = Append(old.nodes, Destination(item, graph[item.node][e]))
      /\ new.edges = Append(old.edges, <<item.node, e>>)
  BY DEF Follow
<1>4. n \in Nat /\ n = Len(old.edges) /\ Len(old.nodes) = n + 1
  BY <1>1 DEF Walks
<1> HIDE DEF old, new, n
<1>5. \A j \in 1 .. n : new.edges[j] = old.edges[j]
  BY <1>1, <1>3, <1>4
<1>6. new.edges[n + 1] = <<item.node, e>>
  BY <1>1, <1>3, <1>4
<1>7. /\ Len(new.nodes) = n + 2 /\ Len(new.edges) = n + 1
      /\ \A j \in 1 .. n + 1 : new.nodes[j] = old.nodes[j]
      /\ new.nodes[n + 2] = Destination(item, graph[item.node][e])
  BY <1>1, <1>3, <1>4
<1> QED
  BY <1>4, <1>5, <1>6, <1>7 DEF Extends, old, new

LEMMA FollowWalks ==
  ASSUME TypeOK, NEW item \in Items, Walks(item), NEW e \in FollowedEdges(item)
  PROVE  Walks(Follow(item, e))
<1> DEFINE old == item.path
           next == Follow(item, e)
           new == next.path
           n == Len(old.edges)
<1>1. /\ n \in Nat
      /\ Len(old.nodes) = n + 1 /\ Len(new.nodes) = n + 2 /\ Len(new.edges) = n + 1
      /\ \A j \in 1 .. n + 1 : new.nodes[j] = old.nodes[j]
      /\ new.nodes[n + 2] = Destination(item, graph[item.node][e])
      /\ \A j \in 1 .. n : new.edges[j] = old.edges[j]
      /\ new.edges[n + 1] = <<item.node, e>>
  <2> HIDE DEF new, old
  <2>1. Extends(old, new, item.node, e, Destination(item, graph[item.node][e]))
    BY FollowExtends DEF old, new, next
  <2> QED
    BY <2>1 DEF Extends
<1>2. next.node = Destination(item, graph[item.node][e])
  BY DEF Follow
<1>3. /\ old.nodes[1] = start /\ old.nodes[n + 1] = item.node
      /\ \A j \in 1 .. n : /\ old.edges[j][1] = old.nodes[j]
                           /\ old.edges[j][2] \in DOMAIN graph[old.nodes[j]]
  BY <1>1 DEF Walks
<1>4. e \in DOMAIN graph[item.node]
  BY DEF FollowedEdges
<1> HIDE DEF next, old, n, new
<1>5. ASSUME NEW j \in 1 .. n + 1
      PROVE  /\ new.edges[j][1] = new.nodes[j]
             /\ new.edges[j][2] \in DOMAIN graph[new.nodes[j]]
  <2>1. CASE j \in 1 .. n
    BY <1>1, <1>3, <2>1
  <2>2. CASE j = n + 1
    BY <1>1, <1>3, <1>4, <2>2
  <2> QED
    BY <1>1, <2>1, <2>2
<1>6. Len(new.nodes) = Len(new.edges) + 1 /\ new.nodes[1] = start
      /\ new.nodes[Len(new.nodes)] = next.node
  BY <1>1, <1>2, <1>3
<1> QED
  BY <1>1, <1>5, <1>6 DEF Walks, next, new

\* The history holds the key of every node of the path, each once: a followed
\* edge adds one that was not there.
Remembers(item) ==
  /\ item.depth <= functionDepth
  /\ item.history \subseteq (0 .. functionDepth) \X Nodes
  /\ IsFiniteSet(item.history)
  /\ Cardinality(item.history) = Len(item.path.nodes)
  /\ <<item.depth, item.node>> \in item.history

LEMMA FollowRemembers ==
  ASSUME TypeOK, NEW item \in Items, Walks(item), Remembers(item),
         NEW e \in FollowedEdges(item)
  PROVE  Remembers(Follow(item, e))
<1> DEFINE edge == graph[item.node][e]
           key == <<NextDepth(item, edge), Destination(item, edge)>>
           next == Follow(item, e)
<1>1. /\ EntersCall(edge) => item.depth < functionDepth
      /\ Destination(item, edge) \in Nodes /\ key \notin item.history
  BY DEF FollowedEdges, Followed, Visited
<1>2. functionDepth \in Nat /\ item.depth \in Nat /\ item.depth <= functionDepth
  BY Sizes DEF TypeOK, Items, Remembers
<1>3. NextDepth(item, edge) \in 0 .. functionDepth
  BY <1>1, <1>2 DEF NextDepth
<1>4. /\ next.history = item.history \cup {key} /\ next.depth = NextDepth(item, edge)
      /\ next.node = Destination(item, edge)
  BY DEF Follow
<1>5. Len(next.path.nodes) = Len(item.path.nodes) + 1
  <2>1. Len(next.path.nodes) = Len(item.path.edges) + 2
        /\ Len(item.path.nodes) = Len(item.path.edges) + 1 /\ Len(item.path.edges) \in Nat
    BY FollowExtends DEF Extends
  <2> QED
    BY <2>1
<1>6. /\ IsFiniteSet(item.history \cup {key})
      /\ Cardinality(item.history \cup {key}) = Cardinality(item.history) + 1
  <2> HIDE DEF key
  <2> QED
    BY <1>1, FS_AddElement DEF Remembers
<1>7. next.history \subseteq (0 .. functionDepth) \X Nodes
  BY <1>1, <1>3, <1>4 DEF Remembers
<1>8. <<next.depth, next.node>> \in next.history
  BY <1>4
<1> HIDE DEF key, next, edge
<1>9. next.depth <= functionDepth
  BY <1>2, <1>3, <1>4
<1> QED
  BY <1>4, <1>5, <1>6, <1>7, <1>8, <1>9 DEF Remembers, next

-----------------------------------------------------------------------------
(* The calls and the returns of a stretch of a path.                       *)

CallsOf(path, i, k) == Cardinality(Calls(path, i, k))
ReturnsOf(path, i, k) == Cardinality(Returned(path, i, k))

LEMMA CountsAreNatural ==
  ASSUME NEW path, NEW i \in Nat, NEW k \in Int
  PROVE  /\ IsFiniteSet(Calls(path, i, k)) /\ CallsOf(path, i, k) \in Nat
         /\ IsFiniteSet(Returned(path, i, k)) /\ ReturnsOf(path, i, k) \in Nat
         /\ i > k => CallsOf(path, i, k) = 0 /\ ReturnsOf(path, i, k) = 0
<1>1. IsFiniteSet(i .. k)
  BY FS_Interval
<1>2. Calls(path, i, k) \subseteq i .. k /\ Returned(path, i, k) \subseteq i .. k
  BY DEF Calls, Returned
<1>3. IsFiniteSet(Calls(path, i, k)) /\ IsFiniteSet(Returned(path, i, k))
  BY <1>1, <1>2, FS_Subset
<1>4. i > k => Calls(path, i, k) = {} /\ Returned(path, i, k) = {}
  BY DEF Calls, Returned
<1> QED
  BY <1>3, <1>4, FS_CardinalityType, FS_EmptySet DEF CallsOf, ReturnsOf

\* One edge more adds one to the count its kind names.
LEMMA CountsGrow ==
  ASSUME NEW path, NEW i \in Nat, NEW k \in Int, i <= k + 1
  PROVE  /\ CallsOf(path, i, k + 1) =
              CallsOf(path, i, k) + (IF EdgeAt(path, k + 1).kind = "call" THEN 1 ELSE 0)
         /\ ReturnsOf(path, i, k + 1) =
              ReturnsOf(path, i, k) + (IF EdgeAt(path, k + 1).kind = "return" THEN 1 ELSE 0)
<1>1. k + 1 \notin Calls(path, i, k) /\ k + 1 \notin Returned(path, i, k)
  BY DEF Calls, Returned
<1>2. /\ IsFiniteSet(Calls(path, i, k)) /\ CallsOf(path, i, k) \in Nat
      /\ IsFiniteSet(Returned(path, i, k)) /\ ReturnsOf(path, i, k) \in Nat
  BY CountsAreNatural
<1>3. i .. k + 1 = (i .. k) \cup {k + 1}
  OBVIOUS
<1>4. CASE EdgeAt(path, k + 1).kind = "call"
  <2>1. /\ Calls(path, i, k + 1) = Calls(path, i, k) \cup {k + 1}
        /\ Returned(path, i, k + 1) = Returned(path, i, k)
    BY <1>3, <1>4 DEF Calls, Returned
  <2>2. Cardinality(Calls(path, i, k) \cup {k + 1}) = Cardinality(Calls(path, i, k)) + 1
    BY <1>1, <1>2, FS_AddElement
  <2> QED
    BY <1>2, <1>4, <2>1, <2>2 DEF CallsOf, ReturnsOf
<1>5. CASE EdgeAt(path, k + 1).kind = "return"
  <2>1. /\ Returned(path, i, k + 1) = Returned(path, i, k) \cup {k + 1}
        /\ Calls(path, i, k + 1) = Calls(path, i, k)
    BY <1>3, <1>5 DEF Calls, Returned
  <2>2. Cardinality(Returned(path, i, k) \cup {k + 1}) = Cardinality(Returned(path, i, k)) + 1
    BY <1>1, <1>2, FS_AddElement
  <2> QED
    BY <1>2, <1>5, <2>1, <2>2 DEF CallsOf, ReturnsOf
<1>6. CASE EdgeAt(path, k + 1).kind \notin {"call", "return"}
  <2>1. /\ Returned(path, i, k + 1) = Returned(path, i, k)
        /\ Calls(path, i, k + 1) = Calls(path, i, k)
    BY <1>3, <1>6 DEF Calls, Returned
  <2> QED
    BY <1>2, <1>6, <2>1 DEF CallsOf, ReturnsOf
<1> QED
  BY <1>4, <1>5, <1>6

LEMMA EdgesKept ==
  ASSUME NEW old, NEW new, NEW at, NEW e, NEW to, Extends(old, new, at, e, to)
  PROVE  /\ \A j \in 1 .. Len(old.edges) : EdgeAt(new, j) = EdgeAt(old, j)
         /\ EdgeAt(new, Len(old.edges) + 1) = graph[at][e]
BY DEF Extends, EdgeAt

\* Following an edge leaves the counts of the stretches it is not in.
LEMMA CountsKept ==
  ASSUME NEW old, NEW new, NEW at, NEW e, NEW to, Extends(old, new, at, e, to),
         NEW i \in Nat \ {0}, NEW k \in Int, k <= Len(old.edges)
  PROVE  /\ CallsOf(new, i, k) = CallsOf(old, i, k)
         /\ ReturnsOf(new, i, k) = ReturnsOf(old, i, k)
<1>1. \A j \in i .. k : EdgeAt(new, j) = EdgeAt(old, j)
  <2>1. Len(old.edges) \in Nat
    BY DEF Extends
  <2>2. \A j \in i .. k : j \in 1 .. Len(old.edges)
    BY <2>1
  <2> QED
    BY <2>2, EdgesKept
<1>2. Calls(new, i, k) = Calls(old, i, k) /\ Returned(new, i, k) = Returned(old, i, k)
  BY <1>1 DEF Calls, Returned
<1> QED
  BY <1>2 DEF CallsOf, ReturnsOf

-----------------------------------------------------------------------------
(* The call depth.                                                         *)

\* The depth counts at least the calls still open, and the path's depth is the
\* largest it had.
CountsDepth(item) ==
  LET path == item.path
      n    == Len(path.edges)
  IN  /\ item.depth <= path.depth /\ path.depth <= functionDepth
      /\ CallsOf(path, 1, n) <= item.depth + ReturnsOf(path, 1, n)
      /\ \A k \in 1 .. n : CallsOf(path, 1, k) <= path.depth + ReturnsOf(path, 1, k)

LEMMA FollowCountsDepth ==
  ASSUME TypeOK, NEW item \in Items, Walks(item), CountsDepth(item),
         NEW e \in FollowedEdges(item)
  PROVE  CountsDepth(Follow(item, e))
<1> DEFINE old == item.path
           next == Follow(item, e)
           new == next.path
           edge == graph[item.node][e]
           n == Len(old.edges)
<1>1. Extends(old, new, item.node, e, Destination(item, edge))
  BY FollowExtends
<1>2. n \in Nat /\ Len(new.edges) = n + 1 /\ EdgeAt(new, n + 1) = edge
  <2> HIDE DEF new, old
  <2>1. EdgeAt(new, Len(old.edges) + 1) = edge
    BY <1>1, EdgesKept
  <2>2. n \in Nat /\ Len(new.edges) = n + 1
    BY <1>1 DEF Extends
  <2> QED
    BY <2>1, <2>2
<1>3. /\ functionDepth \in Nat /\ item.depth \in Nat /\ old.depth \in Nat
      /\ EntersCall(edge) => item.depth < functionDepth
  BY Sizes DEF TypeOK, Items, Paths, FollowedEdges, Followed
<1>4. /\ next.depth = NextDepth(item, edge)
      /\ new.depth = IF EntersCall(edge) /\ next.depth > old.depth THEN next.depth ELSE old.depth
  BY DEF Follow
<1>5. /\ item.depth <= old.depth /\ old.depth <= functionDepth
      /\ CallsOf(old, 1, n) <= item.depth + ReturnsOf(old, 1, n)
      /\ \A k \in 1 .. n : CallsOf(old, 1, k) <= old.depth + ReturnsOf(old, 1, k)
  BY DEF CountsDepth
<1> HIDE DEF next, new, old, n, edge
<1>6. \A k \in 1 .. n : CallsOf(new, 1, k) = CallsOf(old, 1, k)
                        /\ ReturnsOf(new, 1, k) = ReturnsOf(old, 1, k)
  BY <1>1, <1>2, CountsKept DEF n
<1>7. CallsOf(new, 1, n) = CallsOf(old, 1, n) /\ ReturnsOf(new, 1, n) = ReturnsOf(old, 1, n)
  BY <1>1, <1>2, CountsKept DEF n
<1>8. /\ CallsOf(new, 1, n + 1) = CallsOf(old, 1, n) + (IF edge.kind = "call" THEN 1 ELSE 0)
      /\ ReturnsOf(new, 1, n + 1) = ReturnsOf(old, 1, n) + (IF edge.kind = "return" THEN 1 ELSE 0)
  BY <1>2, <1>7, CountsGrow
<1>9. \A k \in 1 .. n + 1 : CallsOf(new, 1, k) \in Nat /\ ReturnsOf(new, 1, k) \in Nat
  BY <1>2, CountsAreNatural
<1>10. CallsOf(old, 1, n) \in Nat /\ ReturnsOf(old, 1, n) \in Nat
  BY <1>2, CountsAreNatural
<1>11. next.depth \in Nat /\ next.depth <= new.depth /\ new.depth <= functionDepth
       /\ old.depth <= new.depth /\ new.depth \in Nat
  BY <1>3, <1>4, <1>5 DEF NextDepth, EntersCall
<1>12. CallsOf(new, 1, n + 1) <= next.depth + ReturnsOf(new, 1, n + 1)
  <2>1. CASE edge.kind = "call"
    <3>1. next.depth = item.depth + 1
      BY <1>4, <2>1 DEF NextDepth, EntersCall
    <3> QED
      BY <1>3, <1>5, <1>8, <1>10, <2>1, <3>1
  <2>2. CASE edge.kind = "return"
    <3>1. next.depth >= item.depth - 1 /\ next.depth \in Nat
      BY <1>3, <1>4, <1>11, <2>2 DEF NextDepth, EntersCall
    <3> QED
      BY <1>3, <1>5, <1>8, <1>10, <2>2, <3>1
  <2>3. CASE edge.kind \notin {"call", "return"}
    <3>1. next.depth >= item.depth
      BY <1>3, <1>4, <2>3 DEF NextDepth, EntersCall, Returns
    <3> QED
      BY <1>3, <1>5, <1>8, <1>10, <1>11, <2>3, <3>1
  <2> QED
    BY <2>1, <2>2, <2>3
<1>13. ASSUME NEW k \in 1 .. n
       PROVE  CallsOf(new, 1, k) <= new.depth + ReturnsOf(new, 1, k)
  <2>1. CallsOf(old, 1, k) <= old.depth + ReturnsOf(old, 1, k)
    BY <1>5
  <2>2. k \in 1 .. n + 1
    BY <1>2
  <2>3. CallsOf(new, 1, k) \in Nat /\ ReturnsOf(new, 1, k) \in Nat
    BY <1>9, <2>2
  <2> QED
    BY <1>3, <1>6, <1>11, <2>1, <2>3
<1>14. ASSUME NEW k \in 1 .. n + 1
       PROVE  CallsOf(new, 1, k) <= new.depth + ReturnsOf(new, 1, k)
  <2>1. k \in 1 .. n \/ k = n + 1
    BY <1>2
  <2>2. CallsOf(new, 1, n + 1) \in Nat /\ ReturnsOf(new, 1, n + 1) \in Nat
    BY <1>2, <1>9
  <2>3. CallsOf(new, 1, n + 1) <= new.depth + ReturnsOf(new, 1, n + 1)
    BY <1>11, <1>12, <2>2
  <2> QED
    BY <1>13, <2>1, <2>3
<1> QED
  BY <1>2, <1>11, <1>12, <1>14 DEF CountsDepth, new, next

-----------------------------------------------------------------------------
(* The return stack.                                                       *)

\* The call at i has not been returned from by the path's first n edges.
Open(path, i, n) ==
  /\ EdgeAt(path, i).kind = "call"
  /\ \A k \in i + 1 .. n : ReturnsOf(path, i + 1, k) <= CallsOf(path, i + 1, k)

\* The calls open above the one at i.
Above(path, i, n) == CallsOf(path, i + 1, n) - ReturnsOf(path, i + 1, n)

\* The stack holds the continuations of the calls still open, the latest last.
Stacked(item) ==
  LET path == item.path
      n    == Len(path.edges)
      m    == Len(item.stack)
  IN  /\ \A i \in 1 .. n : Open(path, i, n) =>
           /\ Above(path, i, n) \in 0 .. m - 1
           /\ item.stack[m - Above(path, i, n)] = Continuation(path.nodes[i])
      /\ \A a \in 0 .. m - 1 : \E i \in 1 .. n : Open(path, i, n) /\ Above(path, i, n) = a

LEMMA MatchesOpen ==
  ASSUME NEW path, NEW i \in Nat, NEW j \in Nat
  PROVE  Matches(path, i, j) <=>
           /\ i < j /\ Open(path, i, j - 1)
           /\ EdgeAt(path, j).kind = "return" /\ Above(path, i, j - 1) = 0
<1>1. CallsOf(path, i + 1, j - 1) \in Nat /\ ReturnsOf(path, i + 1, j - 1) \in Nat
  BY CountsAreNatural
<1>2. Above(path, i, j - 1) = 0 <=> CallsOf(path, i + 1, j - 1) = ReturnsOf(path, i + 1, j - 1)
  BY <1>1 DEF Above
<1> QED
  BY <1>2 DEF Matches, Open, CallsOf, ReturnsOf

\* How one edge more changes what is open.
LEMMA OpenGrows ==
  ASSUME NEW path, NEW n \in Nat, NEW i \in 1 .. n
  PROVE  LET kind == EdgeAt(path, n + 1).kind
         IN  /\ Above(path, i, n) \in Int
             /\ Open(path, i, n) => Above(path, i, n) >= 0
             /\ Above(path, i, n + 1) = IF kind = "call" THEN Above(path, i, n) + 1
                                        ELSE IF kind = "return" THEN Above(path, i, n) - 1
                                        ELSE Above(path, i, n)
             /\ Open(path, i, n + 1) <=> Open(path, i, n) /\ Above(path, i, n + 1) >= 0
<1> DEFINE kind == EdgeAt(path, n + 1).kind
<1>1. /\ CallsOf(path, i + 1, n) \in Nat /\ ReturnsOf(path, i + 1, n) \in Nat
      /\ CallsOf(path, i + 1, n + 1) \in Nat /\ ReturnsOf(path, i + 1, n + 1) \in Nat
      /\ i + 1 > n => CallsOf(path, i + 1, n) = 0 /\ ReturnsOf(path, i + 1, n) = 0
  BY CountsAreNatural
<1>2. /\ CallsOf(path, i + 1, n + 1) = CallsOf(path, i + 1, n) + (IF kind = "call" THEN 1 ELSE 0)
      /\ ReturnsOf(path, i + 1, n + 1) = ReturnsOf(path, i + 1, n) + (IF kind = "return" THEN 1 ELSE 0)
  BY CountsGrow
<1> HIDE DEF kind
<1>3. Above(path, i, n) \in Int
  BY <1>1 DEF Above
<1>4. Open(path, i, n) => Above(path, i, n) >= 0
  <2> SUFFICES ASSUME Open(path, i, n) PROVE Above(path, i, n) >= 0
    OBVIOUS
  <2>1. CASE i = n
    BY <1>1, <2>1 DEF Above
  <2>2. CASE i # n
    <3>1. n \in i + 1 .. n
      BY <2>2
    <3>2. ReturnsOf(path, i + 1, n) <= CallsOf(path, i + 1, n)
      BY <3>1 DEF Open
    <3> QED
      BY <1>1, <3>2 DEF Above
  <2> QED
    BY <2>1, <2>2
<1>5. Above(path, i, n + 1) = IF kind = "call" THEN Above(path, i, n) + 1
                              ELSE IF kind = "return" THEN Above(path, i, n) - 1
                              ELSE Above(path, i, n)
  BY <1>1, <1>2 DEF Above
<1>6. Open(path, i, n + 1) <=> Open(path, i, n) /\ Above(path, i, n + 1) >= 0
  <2>1. i + 1 .. n + 1 = (i + 1 .. n) \cup {n + 1}
    OBVIOUS
  <2>2. Above(path, i, n + 1) >= 0 <=>
          ReturnsOf(path, i + 1, n + 1) <= CallsOf(path, i + 1, n + 1)
    BY <1>1 DEF Above
  <2> QED
    BY <2>1, <2>2 DEF Open
<1> QED
  BY <1>3, <1>4, <1>5, <1>6 DEF kind

\* Following an edge leaves what was open before it as it was.
LEMMA OpenKept ==
  ASSUME NEW old, NEW new, NEW at, NEW e, NEW to, Extends(old, new, at, e, to),
         NEW i \in 1 .. Len(old.edges), NEW k \in Int, k <= Len(old.edges)
  PROVE  /\ Open(new, i, k) <=> Open(old, i, k)
         /\ Above(new, i, k) = Above(old, i, k)
<1>1. \A j \in Int : j <= Len(old.edges) =>
        /\ CallsOf(new, i + 1, j) = CallsOf(old, i + 1, j)
        /\ ReturnsOf(new, i + 1, j) = ReturnsOf(old, i + 1, j)
  BY CountsKept
<1>2. \A j \in i + 1 .. k : j \in Int /\ j <= Len(old.edges)
  BY DEF Extends
<1>3. EdgeAt(new, i) = EdgeAt(old, i)
  BY EdgesKept
<1> QED
  BY <1>1, <1>2, <1>3 DEF Open, Above

LEMMA FollowStacked ==
  ASSUME TypeOK, NEW item \in Items, Walks(item), Stacked(item),
         NEW e \in FollowedEdges(item)
  PROVE  Stacked(Follow(item, e))
<1> DEFINE old == item.path
           next == Follow(item, e)
           new == next.path
           edge == graph[item.node][e]
           n == Len(old.edges)
           m == Len(item.stack)
<1>1. Extends(old, new, item.node, e, Destination(item, edge))
  BY FollowExtends
<1>2. item.stack \in Seq(Nodes \cup {0}) /\ m \in Nat
  BY DEF Items
<1>3. next.stack = NextStack(item, edge)
  BY DEF Follow
<1>4. old.nodes[n + 1] = item.node
  BY DEF Walks
<1>5. /\ \A i \in 1 .. n : Open(old, i, n) =>
           /\ Above(old, i, n) \in 0 .. m - 1
           /\ item.stack[m - Above(old, i, n)] = Continuation(old.nodes[i])
      /\ \A a \in 0 .. m - 1 : \E i \in 1 .. n : Open(old, i, n) /\ Above(old, i, n) = a
  BY DEF Stacked
<1> HIDE DEF next, new, old, edge
<1>6. n \in Nat /\ Len(new.edges) = n + 1 /\ \A i \in 1 .. n + 1 : new.nodes[i] = old.nodes[i]
  BY <1>1 DEF Extends
<1>7. EdgeAt(new, n + 1) = edge
  BY <1>1, EdgesKept DEF edge
<1> DEFINE Now(i) == Open(new, i, n + 1)
           High(i) == Above(new, i, n + 1)
           Was(i) == Open(old, i, n)
           Low(i) == Above(old, i, n)
<1>8. ASSUME NEW i \in 1 .. n
      PROVE  /\ Low(i) \in Int /\ (Was(i) => Low(i) >= 0)
             /\ High(i) = IF edge.kind = "call" THEN Low(i) + 1
                          ELSE IF edge.kind = "return" THEN Low(i) - 1
                          ELSE Low(i)
             /\ Now(i) <=> Was(i) /\ High(i) >= 0
  <2>1. (Open(new, i, n) <=> Was(i)) /\ Above(new, i, n) = Low(i)
    BY <1>1, <1>6, OpenKept
  <2> QED
    BY <1>6, <1>7, <2>1, OpenGrows
<1>9. edge.kind = "call" => Now(n + 1) /\ High(n + 1) = 0
  <2>1. CallsOf(new, n + 2, n + 1) = 0 /\ ReturnsOf(new, n + 2, n + 1) = 0
    BY <1>6, CountsAreNatural
  <2>2. (n + 1) + 1 = n + 2 /\ (n + 1) + 1 .. n + 1 = {}
    BY <1>6
  <2> QED
    BY <1>7, <2>1, <2>2 DEF Open, Above
<1>10. edge.kind # "call" => ~ Now(n + 1)
  BY <1>7 DEF Open
<1> DEFINE Holds(s) == /\ \A i \in 1 .. n + 1 : Now(i) =>
                            /\ High(i) \in 0 .. Len(s) - 1
                            /\ s[Len(s) - High(i)] = Continuation(new.nodes[i])
                       /\ \A a \in 0 .. Len(s) - 1 : \E i \in 1 .. n + 1 : Now(i) /\ High(i) = a
<1> SUFFICES Holds(next.stack)
  BY <1>6 DEF Stacked, next, new
<1> HIDE DEF Now, High, Was, Low, n, m
<1>11. CASE edge.kind = "call"
  <2> DEFINE s == Append(item.stack, Continuation(item.node))
  <2>1. next.stack = s
    BY <1>3, <1>11 DEF NextStack
  <2>2. Len(s) = m + 1 /\ s[m + 1] = Continuation(item.node) /\ \A k \in 1 .. m : s[k] = item.stack[k]
    BY <1>2 DEF m
  <2> HIDE DEF s
  <2>3. ASSUME NEW i \in 1 .. n, Now(i)
        PROVE  High(i) \in 0 .. m /\ s[m + 1 - High(i)] = Continuation(new.nodes[i])
    <3>1. High(i) = Low(i) + 1 /\ Was(i)
      BY <1>8, <1>11, <2>3
    <3>2. Low(i) \in 0 .. m - 1 /\ item.stack[m - Low(i)] = Continuation(old.nodes[i])
      BY <1>5, <3>1 DEF Was, Low
    <3>3. m + 1 - High(i) = m - Low(i) /\ m - Low(i) \in 1 .. m
      BY <1>2, <3>1, <3>2
    <3> QED
      BY <1>2, <1>6, <2>2, <3>1, <3>2, <3>3
  <2>4. High(n + 1) = 0 /\ Now(n + 1) /\ s[m + 1 - 0] = Continuation(new.nodes[n + 1])
    BY <1>2, <1>4, <1>6, <1>9, <1>11, <2>2
  <2>5. ASSUME NEW a \in 0 .. m PROVE \E i \in 1 .. n + 1 : Now(i) /\ High(i) = a
    <3>1. CASE a = 0
      BY <1>6, <2>4, <3>1
    <3>2. CASE a # 0
      <4>1. a - 1 \in 0 .. m - 1
        BY <1>2, <3>2
      <4>2. PICK i \in 1 .. n : Was(i) /\ Low(i) = a - 1
        BY <1>5, <4>1 DEF Was, Low
      <4>3. Now(i) /\ High(i) = a
        BY <1>8, <1>11, <4>1, <4>2
      <4> QED
        BY <1>6, <4>3
    <3> QED
      BY <3>1, <3>2
  <2>6. \A i \in 1 .. n + 1 : i \in 1 .. n \/ i = n + 1
    BY <1>6
  <2>7. Len(s) - 1 = m
    BY <1>2, <2>2
  <2>8. \A i \in 1 .. n + 1 : Now(i) =>
           High(i) \in 0 .. m /\ s[m + 1 - High(i)] = Continuation(new.nodes[i])
    BY <1>2, <2>3, <2>4, <2>6
  <2> QED
    BY <2>1, <2>2, <2>5, <2>7, <2>8
<1>12. CASE edge.kind = "return" /\ item.stack # <<>>
  <2> DEFINE s == Front(item.stack)
  <2>1. next.stack = s
    BY <1>3, <1>12 DEF NextStack, Returns
  <2>2. m # 0 /\ Len(s) = m - 1 /\ \A k \in 1 .. m - 1 : s[k] = item.stack[k]
    BY <1>2, <1>12 DEF m, Front
  <2> HIDE DEF s
  <2>3. ASSUME NEW i \in 1 .. n, Now(i)
        PROVE  High(i) \in 0 .. m - 2 /\ s[m - 1 - High(i)] = Continuation(new.nodes[i])
    <3>1. High(i) = Low(i) - 1 /\ Was(i) /\ High(i) >= 0
      BY <1>8, <1>12, <2>3
    <3>2. Low(i) \in 0 .. m - 1 /\ item.stack[m - Low(i)] = Continuation(old.nodes[i])
      BY <1>5, <3>1 DEF Was, Low
    <3>3. m - 1 - High(i) = m - Low(i) /\ m - Low(i) \in 1 .. m - 1 /\ High(i) \in 0 .. m - 2
      BY <1>2, <3>1, <3>2
    <3>4. s[m - Low(i)] = item.stack[m - Low(i)]
      BY <2>2, <3>3
    <3>5. new.nodes[i] = old.nodes[i]
      BY <1>6
    <3> QED
      BY <3>2, <3>3, <3>4, <3>5
  <2>4. ASSUME NEW a \in 0 .. m - 2 PROVE \E i \in 1 .. n + 1 : Now(i) /\ High(i) = a
    <3>1. a + 1 \in 0 .. m - 1
      BY <1>2
    <3>2. PICK i \in 1 .. n : Was(i) /\ Low(i) = a + 1
      BY <1>5, <3>1 DEF Was, Low
    <3>3. Now(i) /\ High(i) = a
      BY <1>8, <1>12, <3>1, <3>2
    <3> QED
      BY <1>6, <3>3
  <2>5. \A i \in 1 .. n + 1 : Now(i) => i \in 1 .. n
    BY <1>6, <1>10, <1>12
  <2>6. Len(s) - 1 = m - 2
    BY <1>2, <2>2
  <2> QED
    BY <2>1, <2>2, <2>3, <2>4, <2>5, <2>6
<1>13. CASE edge.kind = "return" /\ item.stack = <<>>
  <2>1. next.stack = <<>> /\ m = 0 /\ Len(<<>>) = 0
    BY <1>3, <1>13 DEF NextStack, Returns, m
  <2>2. \A i \in 1 .. n : ~ Was(i)
    BY <1>5, <2>1 DEF Was
  <2>3. \A i \in 1 .. n + 1 : ~ Now(i)
    BY <1>6, <1>8, <1>10, <1>13, <2>2
  <2> QED
    BY <2>1, <2>3
<1>14. CASE edge.kind \notin {"call", "return"}
  <2>1. next.stack = item.stack
    BY <1>3, <1>14 DEF NextStack, Returns
  <2>2. \A i \in 1 .. n : (Now(i) <=> Was(i)) /\ High(i) = Low(i)
    BY <1>8, <1>14
  <2>3. \A i \in 1 .. n + 1 : Now(i) => i \in 1 .. n
    BY <1>6, <1>10, <1>14
  <2>4. \A i \in 1 .. n : Was(i) =>
           Low(i) \in 0 .. m - 1 /\ item.stack[m - Low(i)] = Continuation(old.nodes[i])
    BY <1>5 DEF Was, Low
  <2>5. \A a \in 0 .. m - 1 : \E i \in 1 .. n : Was(i) /\ Low(i) = a
    BY <1>5 DEF Was, Low
  <2>6. \A i \in 1 .. n : i \in 1 .. n + 1
    BY <1>6
  <2> QED
    BY <1>6, <2>1, <2>2, <2>3, <2>4, <2>5, <2>6 DEF m
<1> QED
  BY <1>11, <1>12, <1>13, <1>14

-----------------------------------------------------------------------------
(* The path is one of the program.                                         *)

\* The path's j-th edge leads where the program goes.
Leads(path, j) ==
  IF \E i \in 1 .. j : Matches(path, i, j)
  THEN \A i \in 1 .. j : Matches(path, i, j) => path.nodes[j + 1] = Continuation(path.nodes[i])
  ELSE path.nodes[j + 1] = EdgeAt(path, j).dst

LEMMA FollowLeads ==
  ASSUME TypeOK, NEW item \in Items, Walks(item), Stacked(item),
         NEW e \in FollowedEdges(item),
         \A j \in 1 .. Len(item.path.edges) : Leads(item.path, j)
  PROVE  \A j \in 1 .. Len(Follow(item, e).path.edges) : Leads(Follow(item, e).path, j)
<1> DEFINE old == item.path
           new == Follow(item, e).path
           edge == graph[item.node][e]
           n == Len(old.edges)
           m == Len(item.stack)
<1>1. Extends(old, new, item.node, e, Destination(item, edge))
  BY FollowExtends
<1>2. item.stack \in Seq(Nodes \cup {0}) /\ m \in Nat
  BY DEF Items
<1>3. /\ \A i \in 1 .. n : Open(old, i, n) =>
           /\ Above(old, i, n) \in 0 .. m - 1
           /\ item.stack[m - Above(old, i, n)] = Continuation(old.nodes[i])
      /\ \A a \in 0 .. m - 1 : \E i \in 1 .. n : Open(old, i, n) /\ Above(old, i, n) = a
  BY DEF Stacked
<1>4. \A j \in 1 .. n : Leads(old, j)
  OBVIOUS
<1> HIDE DEF new, old, edge
<1>5. /\ n \in Nat /\ Len(new.edges) = n + 1
      /\ \A i \in 1 .. n + 1 : new.nodes[i] = old.nodes[i]
      /\ new.nodes[n + 2] = Destination(item, edge)
  BY <1>1 DEF Extends
<1>6. EdgeAt(new, n + 1) = edge /\ \A j \in 1 .. n : EdgeAt(new, j) = EdgeAt(old, j)
  BY <1>1, EdgesKept DEF edge
<1>7. ASSUME NEW i \in 1 .. n, NEW k \in Int, k <= n
      PROVE  (Open(new, i, k) <=> Open(old, i, k)) /\ Above(new, i, k) = Above(old, i, k)
  BY <1>1, <1>7, OpenKept
<1> HIDE DEF n
<1>8. ASSUME NEW j \in 1 .. n PROVE Leads(new, j)
  <2>1. ASSUME NEW i \in 1 .. j PROVE Matches(new, i, j) <=> Matches(old, i, j)
    <3>1. i \in 1 .. n /\ j - 1 \in Int /\ j - 1 <= n /\ i \in Nat /\ j \in Nat
      BY <1>5
    <3> QED
      BY <1>6, <1>7, <3>1, MatchesOpen
  <2>2. \A i \in 1 .. j : new.nodes[i] = old.nodes[i]
    BY <1>5
  <2>3. new.nodes[j + 1] = old.nodes[j + 1]
    BY <1>5
  <2> QED
    BY <1>4, <1>6, <2>1, <2>2, <2>3 DEF Leads
<1>9. Leads(new, n + 1)
  <2>1. ASSUME NEW i \in 1 .. n + 1
        PROVE  Matches(new, i, n + 1) <=>
                 /\ i \in 1 .. n /\ Open(old, i, n) /\ Above(old, i, n) = 0
                 /\ edge.kind = "return"
    <3>1. i \in Nat /\ n + 1 \in Nat /\ (n + 1) - 1 = n /\ (i < n + 1 <=> i \in 1 .. n)
      BY <1>5
    <3> QED
      BY <1>5, <1>6, <1>7, <3>1, MatchesOpen
  <2>2. CASE edge.kind = "return" /\ item.stack # <<>>
    <3>1. m > 0 /\ Destination(item, edge) = item.stack[m]
      BY <1>2, <2>2 DEF Destination, Returns, Last
    <3>2. \E i \in 1 .. n + 1 : Matches(new, i, n + 1)
      <4>1. 0 \in 0 .. m - 1
        BY <1>2, <3>1
      <4>2. PICK i \in 1 .. n : Open(old, i, n) /\ Above(old, i, n) = 0
        BY <1>3, <4>1 DEF n
      <4>3. i \in 1 .. n + 1
        BY <1>5
      <4> QED
        BY <2>1, <2>2, <4>2, <4>3
    <3>3. ASSUME NEW i \in 1 .. n + 1, Matches(new, i, n + 1)
          PROVE  item.stack[m] = Continuation(new.nodes[i])
      <4>1. i \in 1 .. n /\ Open(old, i, n) /\ Above(old, i, n) = 0
        BY <2>1, <3>3
      <4>2. item.stack[m - 0] = Continuation(old.nodes[i])
        BY <1>3, <4>1 DEF n
      <4> QED
        BY <1>2, <1>5, <4>2
    <3> QED
      BY <1>5, <3>1, <3>2, <3>3 DEF Leads
  <2>3. CASE ~(edge.kind = "return" /\ item.stack # <<>>)
    <3>1. Destination(item, edge) = edge.dst
      BY <2>3 DEF Destination, Returns
    <3>2. \A i \in 1 .. n + 1 : ~ Matches(new, i, n + 1)
      <4>1. SUFFICES ASSUME NEW i \in 1 .. n, Open(old, i, n), Above(old, i, n) = 0,
                            edge.kind = "return"
                     PROVE  FALSE
        BY <2>1
      <4>2. m = 0
        BY <2>3, <4>1
      <4> QED
        BY <1>3, <4>1, <4>2 DEF n
    <3> QED
      BY <1>5, <1>6, <3>1, <3>2 DEF Leads
  <2> QED
    BY <2>2, <2>3
<1> QED
  BY <1>5, <1>8, <1>9 DEF new

-----------------------------------------------------------------------------
(* The invariant of the items and of what is found.                        *)

\* What holds of every item of the queue.
ItemSound(item) ==
  /\ Walks(item) /\ Remembers(item) /\ CountsDepth(item) /\ Stacked(item)
  /\ \A j \in 1 .. Len(item.path.edges) : Leads(item.path, j)

\* What holds of every path found: the parts of FoundSound that are about one
\* path.
PathSound(path) ==
  /\ Realisable(path)
  /\ path.depth <= functionDepth
  /\ \A k \in 1 .. Len(path.edges) : CallsOf(path, 1, k) <= path.depth + ReturnsOf(path, 1, k)

LEMMA FollowSound ==
  ASSUME TypeOK, NEW item \in Items, ItemSound(item), NEW e \in FollowedEdges(item)
  PROVE  ItemSound(Follow(item, e))
BY FollowWalks, FollowRemembers, FollowCountsDepth, FollowStacked, FollowLeads DEF ItemSound

LEMMA GoalSound ==
  ASSUME TypeOK, NEW item \in Items, ItemSound(item), item.node = goal
  PROVE  PathSound(item.path)
<1> DEFINE path == item.path
<1>1. path.nodes \in Seq(Nodes) /\ path.edges \in Seq(Nodes \X Nat)
  BY DEF Items, Paths
<1>2. /\ Len(path.nodes) = Len(path.edges) + 1
      /\ path.nodes[1] = start /\ path.nodes[Len(path.nodes)] = goal
      /\ \A j \in 1 .. Len(path.edges) : path.edges[j][1] = path.nodes[j]
  BY DEF ItemSound, Walks
<1>3. /\ path.depth <= functionDepth
      /\ \A k \in 1 .. Len(path.edges) : CallsOf(path, 1, k) <= path.depth + ReturnsOf(path, 1, k)
  <2>1. functionDepth \in Nat /\ item.depth \in Nat /\ path.depth \in Nat
    BY Sizes DEF TypeOK, Items, Paths
  <2> QED
    BY <2>1 DEF ItemSound, CountsDepth
<1>4. \A j \in 1 .. Len(path.edges) : Leads(path, j)
  BY DEF ItemSound
<1> HIDE DEF path
<1>5. Head(path.nodes) = start /\ Last(path.nodes) = goal
  BY <1>1, <1>2 DEF Last
<1>6. Realisable(path)
  BY <1>2, <1>4, <1>5 DEF Realisable, Leads
<1> QED
  BY <1>3, <1>6 DEF PathSound, path

LEMMA InitialSound ==
  ASSUME Init
  PROVE  ItemSound(InitialItem) /\ InitialItem \in Items
<1> DEFINE item == InitialItem
<1>1. /\ item.node = start /\ item.stack = <<>> /\ item.depth = 0
      /\ item.history = {<<0, start>>}
      /\ item.path.nodes = <<start>> /\ item.path.edges = <<>> /\ item.path.depth = 0
  BY DEF InitialItem
<1>2. InitialItem \in Items
  BY DEF Init, InitialItem, Items, Paths
<1>3. start \in Nodes /\ functionDepth \in Nat
  BY Sizes DEF Init
<1> HIDE DEF item
<1>4. Len(item.path.edges) = 0 /\ Len(item.path.nodes) = 1 /\ Len(item.stack) = 0
      /\ 1 .. Len(item.path.edges) = {} /\ 0 .. Len(item.stack) - 1 = {}
  BY <1>1
<1>5. Walks(item)
  BY <1>1, <1>4 DEF Walks
<1>6. Remembers(item)
  <2>1. IsFiniteSet(item.history) /\ Cardinality(item.history) = 1
    BY <1>1, FS_Singleton
  <2>2. item.history \subseteq (0 .. functionDepth) \X Nodes
    BY <1>1, <1>3
  <2> QED
    BY <1>1, <1>3, <1>4, <2>1, <2>2 DEF Remembers
<1>7. CountsDepth(item)
  <2>1. CallsOf(item.path, 1, 0) = 0 /\ ReturnsOf(item.path, 1, 0) = 0
    BY CountsAreNatural
  <2> QED
    BY <1>1, <1>3, <1>4, <2>1 DEF CountsDepth
<1>8. Stacked(item)
  BY <1>4 DEF Stacked
<1> QED
  BY <1>2, <1>4, <1>5, <1>6, <1>7, <1>8 DEF ItemSound, item

\* The inputs do not change, and the properties of an item read nothing else.
LEMMA SoundKept ==
  ASSUME UNCHANGED inputs, NEW x
  PROVE  (ItemSound(x) <=> ItemSound(x)') /\ (PathSound(x) <=> PathSound(x)')
<1> USE DEF inputs
<1>1. \A p, i : EdgeAt(p, i)' = EdgeAt(p, i)
  BY DEF EdgeAt
<1>2. \A p, i, k : Calls(p, i, k)' = Calls(p, i, k) /\ Returned(p, i, k)' = Returned(p, i, k)
  BY <1>1 DEF Calls, Returned
<1>3. \A p, i, k : /\ CallsOf(p, i, k)' = CallsOf(p, i, k)
                   /\ ReturnsOf(p, i, k)' = ReturnsOf(p, i, k)
  BY <1>2 DEF CallsOf, ReturnsOf
<1>4. \A p, i, k : /\ Open(p, i, k)' <=> Open(p, i, k)
                   /\ Above(p, i, k)' = Above(p, i, k)
                   /\ Matches(p, i, k)' <=> Matches(p, i, k)
  BY <1>1, <1>2, <1>3 DEF Open, Above, Matches
<1>5. \A n : Continuation(n)' = Continuation(n)
  BY DEF Continuation
<1>6. \A p, j : Leads(p, j)' <=> Leads(p, j)
  BY <1>1, <1>4, <1>5 DEF Leads
<1>7. Walks(x)' <=> Walks(x)
  BY DEF Walks
<1>8. Remembers(x)' <=> Remembers(x)
  BY DEF Remembers
<1>9. CountsDepth(x)' <=> CountsDepth(x)
  BY <1>3 DEF CountsDepth
<1>10. Stacked(x)' <=> Stacked(x)
  BY <1>4, <1>5 DEF Stacked
<1>11. Realisable(x)' <=> Realisable(x)
  BY <1>1, <1>4, <1>5 DEF Realisable
<1>12. ItemSound(x)' <=> ItemSound(x)
  BY <1>6, <1>7, <1>8, <1>9, <1>10 DEF ItemSound
<1>13. PathSound(x)' <=> PathSound(x)
  BY <1>3, <1>11 DEF PathSound
<1> QED
  BY <1>12, <1>13

\* Every item queued and every path found is sound.
SearchSound ==
  /\ SearchTypes
  /\ \A i \in 1 .. Len(queue) : ItemSound(queue[i])
  /\ \A i \in 1 .. Len(found) : PathSound(found[i])

LEMMA SearchSoundHolds == Spec => []SearchSound
<1>1. Init => SearchSound
  <2> SUFFICES ASSUME Init, SearchTypes PROVE SearchSound
    BY InitTypes
  <2>1. queue = <<InitialItem>> /\ found = <<>>
    BY DEF Init
  <2>2. \A i \in 1 .. Len(queue) : queue[i] = InitialItem
    BY <2>1
  <2>3. 1 .. Len(found) = {}
    BY <2>1
  <2> QED
    BY <2>2, <2>3, InitialSound DEF SearchSound
<1>2. SearchSound /\ SearchTypes' /\ [Next]_vars => SearchSound'
  <2> SUFFICES ASSUME SearchSound, SearchTypes', [Next]_vars PROVE SearchSound'
    OBVIOUS
  <2>1. UNCHANGED inputs
    BY DEF Next, Finish, TakeGoal, TakeItem, Stop, Terminated, vars
  <2>2. \A x : (ItemSound(x) <=> ItemSound(x)') /\ (PathSound(x) <=> PathSound(x)')
    BY <2>1, SoundKept
  <2>3. SearchTypes /\ TypeOK
    BY DEF SearchSound, SearchTypes
  <2>4. /\ \A i \in 1 .. Len(queue) : ItemSound(queue[i])
        /\ \A i \in 1 .. Len(found) : PathSound(found[i])
    BY DEF SearchSound
  <2>5. SUFFICES /\ \A i \in 1 .. Len(queue') : ItemSound(queue'[i])
                 /\ \A i \in 1 .. Len(found') : PathSound(found'[i])
    BY <2>2 DEF SearchSound
  <2> HIDE DEF ItemSound, PathSound
  <2>6. CASE TakeItem
    <3>1. UNCHANGED found
      BY <2>6 DEF TakeItem
    <3>2. /\ Head(queue) \in Items /\ Head(queue) = queue[1] /\ Len(queue) \in Nat \ {0}
          /\ Len(queue') \in Nat
          /\ \A i \in 1 .. Len(queue) - 1 : queue'[i] = queue[i + 1]
          /\ \A i \in Len(queue) .. Len(queue') :
               \E e \in FollowedEdges(Head(queue)) : queue'[i] = Follow(Head(queue), e)
      BY <2>3, <2>6, QueueAfterItem
    <3>3. ItemSound(Head(queue))
      BY <2>4, <3>2
    <3>4. \A i \in Len(queue) .. Len(queue') : ItemSound(queue'[i])
      BY <2>3, <3>2, <3>3, FollowSound
    <3>5. \A i \in 1 .. Len(queue) - 1 : ItemSound(queue'[i])
      BY <2>4, <3>2
    <3>6. \A i \in 1 .. Len(queue') : i \in 1 .. Len(queue) - 1 \/ i \in Len(queue) .. Len(queue')
      BY <3>2
    <3> QED
      BY <2>4, <3>1, <3>4, <3>5, <3>6
  <2>7. CASE TakeGoal
    <3>1. /\ Head(queue) \in Items /\ Head(queue) = queue[1]
          /\ Len(queue) \in Nat \ {0} /\ Len(queue') = Len(queue) - 1
          /\ \A i \in 1 .. Len(queue) - 1 : queue'[i] = queue[i + 1]
          /\ Len(found') = Len(found) + 1 /\ Len(found) \in Nat
          /\ \A i \in 1 .. Len(found) : found'[i] = found[i]
          /\ found'[Len(found')] = Head(queue).path
      BY <2>3, <2>7, QueueAfterGoal
    <3>2. ItemSound(Head(queue)) /\ Head(queue).node = goal
      BY <2>4, <2>7, <3>1 DEF TakeGoal
    <3>3. PathSound(Head(queue).path)
      BY <2>3, <3>1, <3>2, GoalSound
    <3>4. \A i \in 1 .. Len(queue') : ItemSound(queue'[i])
      BY <2>4, <3>1
    <3>5. \A i \in 1 .. Len(found') : i \in 1 .. Len(found) \/ i = Len(found')
      BY <3>1
    <3> QED
      BY <2>4, <3>1, <3>3, <3>4, <3>5
  <2>8. CASE UNCHANGED <<queue, found>>
    BY <2>4, <2>8
  <2> QED
    BY <2>6, <2>7, <2>8 DEF Next, Finish, Stop, Terminated, vars
<1> QED
  BY <1>1, <1>2, SearchTypesHold, PTL DEF Spec

\* The history of an item has no more keys than there are pairs of a call depth
\* and a node, so no path grows past their number: the search ends without
\* --max-states on a graph with loops and recursion.
THEOREM SearchPathsBounded == Spec => []PathsBounded
<1>1. SearchSound => PathsBounded
  <2> SUFFICES ASSUME SearchSound, NEW i \in DOMAIN queue
               PROVE  Len(queue[i].path.nodes) <= (functionDepth + 1) * Cardinality(Nodes)
    BY DEF PathsBounded
  <2>1. i \in 1 .. Len(queue) /\ functionDepth \in Nat
    BY Sizes DEF SearchSound, SearchTypes, TypeOK
  <2> DEFINE h == queue[i].history
             keys == (0 .. functionDepth) \X Nodes
  <2>2. h \subseteq keys /\ Cardinality(h) = Len(queue[i].path.nodes)
    BY <2>1 DEF SearchSound, ItemSound, Remembers
  <2>3. IsFiniteSet(0 .. functionDepth) /\ Cardinality(0 .. functionDepth) = functionDepth + 1
    <3>1. 0 \in Int /\ functionDepth \in Int /\ ~(0 > functionDepth)
          /\ functionDepth - 0 + 1 = functionDepth + 1
      BY <2>1
    <3>2. /\ IsFiniteSet(0 .. functionDepth)
          /\ Cardinality(0 .. functionDepth)
               = IF 0 > functionDepth THEN 0 ELSE functionDepth - 0 + 1
      BY <3>1, FS_Interval, Zenon
    <3> QED
      BY <3>1, <3>2
  <2>4. IsFiniteSet(keys) /\ Cardinality(keys) = (functionDepth + 1) * Cardinality(Nodes)
    BY <2>3, Sizes, FS_Product
  <2>5. Cardinality(h) <= Cardinality(keys)
    BY <2>2, <2>4, FS_Subset
  <2> QED
    BY <2>2, <2>4, <2>5
<1> QED
  BY <1>1, SearchSoundHolds, PTL

\* Every path found runs from the start to the goal along edges of the graph,
\* and each return on it leads to where the call it matches continues, so no
\* return of a callee leaks into a caller the path did not come through.
THEOREM SearchFoundIsRealisable == Spec => []FoundIsRealisable
<1>1. SearchSound => FoundIsRealisable
  BY DEF SearchSound, SearchTypes, FoundIsRealisable, PathSound
<1> QED
  BY <1>1, SearchSoundHolds, PTL

\* No path found has more calls open at once than --function-depth allows, and
\* the depth reported for it covers them.
THEOREM SearchFoundWithinDepth == Spec => []FoundWithinDepth
<1>1. SearchSound => FoundWithinDepth
  BY DEF SearchSound, SearchTypes, FoundWithinDepth, PathSound, CallsOf, ReturnsOf
<1> QED
  BY <1>1, SearchSoundHolds, PTL

-----------------------------------------------------------------------------
(* The order of the search.                                                *)

\* Two paths part at an edge: neither continues the other.
Apart(old, new) ==
  \E k \in Nat \ {0} : /\ k <= Len(old.edges) /\ k <= Len(new.edges)
                       /\ old.edges[k] # new.edges[k]

Longer(new, old) == Len(old.edges) <= Len(new.edges)

\* The queue goes from shorter paths to longer ones, by one edge at most, what
\* is found is no longer than what is queued, and all of them part.
SearchOrdered ==
  /\ \A i, j \in 1 .. Len(queue) : i < j =>
       Longer(queue[j].path, queue[i].path) /\ Apart(queue[i].path, queue[j].path)
  /\ \A j \in 1 .. Len(queue) :
       Len(queue[j].path.edges) <= Len(queue[1].path.edges) + 1
  /\ \A i \in 1 .. Len(found), j \in 1 .. Len(queue) :
       Longer(queue[j].path, found[i]) /\ Apart(found[i], queue[j].path)
  /\ \A i, j \in 1 .. Len(found) : i < j =>
       Longer(found[j], found[i]) /\ Apart(found[i], found[j])

LEMMA SearchOrderedHolds == Spec => []SearchOrdered
<1>1. Init => SearchOrdered
  <2> SUFFICES ASSUME Init PROVE SearchOrdered
    OBVIOUS
  <2>1. queue = <<InitialItem>> /\ found = <<>> /\ InitialItem.path.edges = <<>>
    BY DEF Init, InitialItem
  <2>2. Len(queue) = 1 /\ 1 .. Len(found) = {} /\ Len(queue[1].path.edges) = 0
    BY <2>1
  <2> QED
    BY <2>2 DEF SearchOrdered
<1>2. SearchOrdered /\ SearchSound /\ [Next]_vars => SearchOrdered'
  <2> SUFFICES ASSUME SearchOrdered, SearchSound, [Next]_vars PROVE SearchOrdered'
    OBVIOUS
  <2>1. /\ SearchTypes /\ TypeOK /\ queue \in Seq(Items) /\ found \in Seq(Paths)
        /\ Len(queue) \in Nat /\ Len(found) \in Nat
        /\ \A i \in 1 .. Len(queue) : ItemSound(queue[i])
    BY DEF SearchSound, SearchTypes
  <2> DEFINE L(i) == Len(queue[i].path.edges)
             M(i) == Len(queue'[i].path.edges)
             F(i) == Len(found[i].edges)
             G(i) == Len(found'[i].edges)
  <2>2. /\ \A i \in 1 .. Len(queue) : L(i) \in Nat
        /\ \A i \in 1 .. Len(found) : F(i) \in Nat
    <3>1. \A p \in Paths : Len(p.edges) \in Nat
      BY DEF Paths
    <3>2. \A x \in Items : x.path \in Paths
      BY DEF Items
    <3> QED
      BY <2>1, <3>1, <3>2
  <2>3. /\ \A i, j \in 1 .. Len(queue) : i < j =>
             L(i) <= L(j) /\ Apart(queue[i].path, queue[j].path)
        /\ \A j \in 1 .. Len(queue) : L(j) <= L(1) + 1
        /\ \A i \in 1 .. Len(found), j \in 1 .. Len(queue) :
             F(i) <= L(j) /\ Apart(found[i], queue[j].path)
        /\ \A i, j \in 1 .. Len(found) : i < j =>
             F(i) <= F(j) /\ Apart(found[i], found[j])
    BY DEF SearchOrdered, Longer
  <2>4. SUFFICES
        /\ \A i, j \in 1 .. Len(queue') : i < j =>
             M(i) <= M(j) /\ Apart(queue'[i].path, queue'[j].path)
        /\ \A j \in 1 .. Len(queue') : M(j) <= M(1) + 1
        /\ \A i \in 1 .. Len(found'), j \in 1 .. Len(queue') :
             G(i) <= M(j) /\ Apart(found'[i], queue'[j].path)
        /\ \A i, j \in 1 .. Len(found') : i < j =>
             G(i) <= G(j) /\ Apart(found'[i], found'[j])
    BY DEF SearchOrdered, Longer, Apart
  <2>5. CASE TakeItem
    <3> DEFINE item == Head(queue)
               n == Len(queue)
    <3>1. UNCHANGED found
      BY <2>5 DEF TakeItem
    <3>2. /\ item \in Items /\ item = queue[1] /\ n \in Nat \ {0} /\ Len(queue') \in Nat
          /\ Len(queue') >= n - 1
          /\ \A i \in 1 .. n - 1 : queue'[i] = queue[i + 1]
          /\ \E nth \in [n .. Len(queue') -> FollowedEdges(item)] :
               /\ \A i \in n .. Len(queue') : queue'[i] = Follow(item, nth[i])
               /\ \A i, j \in n .. Len(queue') : nth[i] = nth[j] => i = j
      BY <2>1, <2>5, QueueAfterItem
    <3>3. PICK nth \in [n .. Len(queue') -> FollowedEdges(item)] :
               /\ \A i \in n .. Len(queue') : queue'[i] = Follow(item, nth[i])
               /\ \A i, j \in n .. Len(queue') : nth[i] = nth[j] => i = j
      BY <3>2
    <3>4. Walks(item)
      BY <2>1, <3>2 DEF ItemSound
    <3> HIDE DEF item, L, M
    <3>5. ASSUME NEW i \in n .. Len(queue')
          PROVE  Extends(item.path, queue'[i].path, item.node, nth[i],
                         Destination(item, graph[item.node][nth[i]]))
      BY <2>1, <3>2, <3>3, <3>4, FollowExtends
    <3>6. ASSUME NEW i \in n .. Len(queue')
          PROVE  /\ M(i) = L(1) + 1
                 /\ \A k \in 1 .. L(1) : queue'[i].path.edges[k] = queue[1].path.edges[k]
                 /\ queue'[i].path.edges[L(1) + 1] = <<item.node, nth[i]>>
      BY <3>2, <3>5 DEF Extends, L, M
    <3> HIDE DEF n
    <3>7. ASSUME NEW i \in 1 .. n - 1
          PROVE  /\ i + 1 \in 1 .. n /\ 1 < i + 1 /\ M(i) = L(i + 1)
                 /\ queue'[i].path = queue[i + 1].path
      BY <3>2 DEF L, M
    <3>8. \A i \in 1 .. Len(queue') : i \in 1 .. n - 1 \/ i \in n .. Len(queue')
      BY <3>2
    \* What parts from the head parts from its successors.
    <3>9. ASSUME NEW p, Apart(p, queue[1].path), NEW j \in n .. Len(queue')
          PROVE  Apart(p, queue'[j].path)
      <4>1. PICK k \in Nat \ {0} : /\ k <= Len(p.edges) /\ k <= L(1)
                                   /\ p.edges[k] # queue[1].path.edges[k]
        BY <3>9 DEF Apart, L
      <4>2. k \in 1 .. L(1) /\ k <= M(j)
        <5>1. 1 \in 1 .. n /\ M(j) = L(1) + 1
          BY <3>2, <3>6, <3>9
        <5>2. L(1) \in Nat
          BY <2>2, <5>1 DEF n
        <5> QED
          BY <4>1, <5>1, <5>2
      <4>3. queue'[j].path.edges[k] = queue[1].path.edges[k]
        BY <3>6, <4>2
      <4> QED
        BY <4>1, <4>2, <4>3 DEF Apart, M
    <3>10. 1 \in 1 .. n /\ L(1) \in Nat
      BY <2>2, <3>2 DEF n
    <3>11. ASSUME NEW i \in 1 .. Len(queue'), NEW j \in 1 .. Len(queue'), i < j
           PROVE  M(i) <= M(j) /\ Apart(queue'[i].path, queue'[j].path)
      <4>1. CASE i \in 1 .. n - 1 /\ j \in 1 .. n - 1
        <5>1. i + 1 < j + 1
          BY <3>11
        <5> QED
          BY <2>3, <3>7, <4>1, <5>1 DEF n
      <4>2. CASE i \in 1 .. n - 1 /\ j \in n .. Len(queue')
        <5>1. L(i + 1) <= L(1) + 1 /\ Apart(queue[1].path, queue[i + 1].path)
          BY <2>3, <3>7, <3>10, <4>2 DEF n
        <5>2. Apart(queue[i + 1].path, queue[1].path)
          BY <5>1 DEF Apart
        <5>3. Apart(queue[i + 1].path, queue'[j].path)
          BY <3>9, <4>2, <5>2
        <5>4. M(i) = L(i + 1) /\ M(j) = L(1) + 1
          BY <3>6, <3>7, <4>2
        <5>5. M(i) <= M(j)
          BY <5>1, <5>4
        <5> QED
          BY <3>7, <4>2, <5>3, <5>5
      <4>3. CASE i \in n .. Len(queue') /\ j \in n .. Len(queue')
        <5>1. nth[i] # nth[j]
          BY <3>3, <3>11, <4>3
        <5>2. queue'[i].path.edges[L(1) + 1] # queue'[j].path.edges[L(1) + 1]
          <6>1. /\ queue'[i].path.edges[L(1) + 1] = <<item.node, nth[i]>>
                /\ queue'[j].path.edges[L(1) + 1] = <<item.node, nth[j]>>
            BY <3>6, <4>3
          <6> QED
            BY <5>1, <6>1
        <5>3. M(i) = L(1) + 1 /\ M(j) = L(1) + 1 /\ L(1) + 1 \in Nat \ {0}
          BY <3>6, <3>10, <4>3
        <5> QED
          <6>1. M(i) <= M(j)
            BY <5>3
          <6>2. Apart(queue'[i].path, queue'[j].path)
            <7> DEFINE k == L(1) + 1
            <7>1. k \in Nat \ {0} /\ k <= M(i) /\ k <= M(j)
              BY <5>3
            <7>2. queue'[i].path.edges[k] # queue'[j].path.edges[k]
              BY <5>2
            <7> HIDE DEF k
            <7> QED
              BY <7>1, <7>2 DEF Apart, M
          <6> QED
            BY <6>1, <6>2
      <4> QED
        BY <3>2, <3>8, <3>11, <4>1, <4>2, <4>3
    <3>12. ASSUME NEW j \in 1 .. Len(queue') PROVE M(j) <= M(1) + 1
      <4>1. M(j) <= L(1) + 1 /\ M(j) \in Nat
        <5>1. CASE j \in 1 .. n - 1
          <6>1. j + 1 \in 1 .. n /\ M(j) = L(j + 1)
            BY <3>7, <5>1
          <6>2. L(j + 1) <= L(1) + 1 /\ L(j + 1) \in Nat
            BY <2>2, <2>3, <6>1 DEF n
          <6> QED
            BY <6>1, <6>2
        <5>2. CASE j \in n .. Len(queue')
          <6>1. M(j) = L(1) + 1
            BY <3>6, <5>2
          <6> QED
            BY <3>10, <6>1
        <5> QED
          BY <3>8, <5>1, <5>2
      <4>2. L(1) <= M(1) /\ M(1) \in Nat
        <5>1. CASE 1 \in 1 .. n - 1
          BY <2>2, <2>3, <3>7, <3>10, <5>1 DEF n
        <5>2. CASE 1 \in n .. Len(queue')
          BY <3>6, <3>10, <5>2
        <5>3. 1 \in 1 .. Len(queue')
          BY <3>2
        <5> QED
          BY <3>8, <5>1, <5>2, <5>3
      <4> QED
        BY <3>10, <4>1, <4>2
    <3>13. ASSUME NEW i \in 1 .. Len(found), NEW j \in 1 .. Len(queue')
           PROVE  F(i) <= M(j) /\ Apart(found[i], queue'[j].path)
      <4>1. CASE j \in 1 .. n - 1
        BY <2>3, <3>7, <4>1 DEF n
      <4>2. CASE j \in n .. Len(queue')
        <5>1. F(i) <= L(1) /\ Apart(found[i], queue[1].path)
          BY <2>3, <3>10 DEF n
        <5>2. Apart(found[i], queue'[j].path)
          BY <3>9, <4>2, <5>1
        <5> HIDE DEF F
        <5> QED
          BY <2>2, <3>6, <3>10, <4>2, <5>1, <5>2
      <4> QED
        BY <3>8, <4>1, <4>2
    <3> QED
      BY <2>3, <3>1, <3>11, <3>12, <3>13 DEF L, M
  <2>6. CASE TakeGoal
    <3> DEFINE m == Len(found)
    <3>1. /\ Head(queue) = queue[1] /\ Len(queue) \in Nat \ {0} /\ Len(queue') = Len(queue) - 1
          /\ \A i \in 1 .. Len(queue) - 1 : queue'[i] = queue[i + 1]
          /\ Len(found') = m + 1 /\ m \in Nat
          /\ \A i \in 1 .. m : found'[i] = found[i]
          /\ found'[m + 1] = queue[1].path
      BY <2>1, <2>6, QueueAfterGoal
    <3> HIDE DEF m
    <3>2. ASSUME NEW i \in 1 .. Len(queue')
          PROVE  /\ i + 1 \in 1 .. Len(queue) /\ 1 < i + 1 /\ M(i) = L(i + 1)
                 /\ queue'[i].path = queue[i + 1].path
      BY <3>1
    <3>3. 1 \in 1 .. Len(queue) /\ L(1) \in Nat
      BY <2>2, <3>1
    <3>4. ASSUME NEW i \in 1 .. m PROVE G(i) = F(i) /\ found'[i] = found[i]
      BY <3>1, <3>4
    <3>5. G(m + 1) = L(1) /\ found'[m + 1] = queue[1].path
      BY <3>1
    <3>6. \A i \in 1 .. Len(found') : i \in 1 .. m \/ i = m + 1
      BY <3>1
    <3>7. ASSUME NEW i \in 1 .. Len(queue'), NEW j \in 1 .. Len(queue'), i < j
          PROVE  M(i) <= M(j) /\ Apart(queue'[i].path, queue'[j].path)
      <4>1. i + 1 < j + 1
        BY <3>1, <3>7
      <4> QED
        BY <2>3, <3>2, <4>1
    <3>8. ASSUME NEW j \in 1 .. Len(queue') PROVE M(j) <= M(1) + 1
      <4>1. 1 \in 1 .. Len(queue')
        BY <3>1
      <4>2. M(j) <= L(1) + 1 /\ L(1) <= M(1) /\ M(1) \in Nat /\ M(j) \in Nat
        BY <2>2, <2>3, <3>2, <3>3, <4>1
      <4> HIDE DEF L, M
      <4> QED
        BY <3>3, <4>2
    <3>9. ASSUME NEW i \in 1 .. Len(found'), NEW j \in 1 .. Len(queue')
          PROVE  G(i) <= M(j) /\ Apart(found'[i], queue'[j].path)
      <4>1. CASE i \in 1 .. m
        BY <2>3, <3>2, <3>4, <4>1 DEF m
      <4>2. CASE i = m + 1
        BY <2>3, <3>2, <3>3, <3>5, <4>2
      <4> QED
        BY <3>6, <4>1, <4>2
    <3>10. ASSUME NEW i \in 1 .. Len(found'), NEW j \in 1 .. Len(found'), i < j
           PROVE  G(i) <= G(j) /\ Apart(found'[i], found'[j])
      <4>1. CASE j \in 1 .. m
        <5>1. i \in 1 .. m
          BY <3>1, <3>10, <4>1
        <5> QED
          BY <2>3, <3>4, <3>10, <4>1, <5>1 DEF m
      <4>2. CASE j = m + 1
        <5>1. i \in 1 .. m
          BY <3>1, <3>6, <3>10, <4>2
        <5> QED
          BY <2>3, <3>3, <3>4, <3>5, <4>2, <5>1 DEF m
      <4> QED
        BY <3>6, <4>1, <4>2
    <3> QED
      BY <3>7, <3>8, <3>9, <3>10
  <2>7. CASE UNCHANGED <<queue, found>>
    BY <2>3, <2>7
  <2> QED
    BY <2>5, <2>6, <2>7 DEF Next, Finish, Stop, Terminated, vars
<1> QED
  BY <1>1, <1>2, SearchSoundHolds, PTL DEF Spec

\* No path is found twice, and none is found before a shorter one.
THEOREM SearchFoundShortestFirst == Spec => []FoundShortestFirst
<1>1. SearchOrdered /\ SearchTypes => FoundShortestFirst
  <2> SUFFICES ASSUME SearchOrdered, SearchTypes,
                      NEW i \in DOMAIN found, NEW j \in DOMAIN found, i < j
               PROVE  /\ found[i].edges # found[j].edges
                      /\ Len(found[i].edges) <= Len(found[j].edges)
    BY DEF FoundShortestFirst
  <2>1. i \in 1 .. Len(found) /\ j \in 1 .. Len(found)
    BY DEF SearchTypes
  <2> QED
    BY <2>1 DEF SearchOrdered, Apart, Longer
<1> QED
  BY <1>1, SearchOrderedHolds, SearchTypesHold, PTL

\* What the search finds can be relied on: every path found is one of the
\* program, within the call depth, and the shortest come first.
THEOREM SearchFoundSound == Spec => []FoundSound
BY SearchFoundIsRealisable, SearchFoundWithinDepth, SearchFoundShortestFirst, PTL DEF FoundSound

-----------------------------------------------------------------------------
(* The search against what the program can reach.                          *)

\* One more step of the program from the positions of a set.
Grow(S) ==
  S \cup {at \in UNION {Steps(b) : b \in S} : at[1] <= functionDepth /\ at[2] \in Nodes}

\* The first m steps, as a function: what Reached is defined to be, on 0 .. m.
Approximates(g, m) ==
  /\ DOMAIN g = 0 .. m
  /\ g[0] = {<<0, start>>}
  /\ \A k \in 1 .. m : g[k] = Grow(g[k - 1])

LEMMA ApproximationExists == \A m \in Nat : \E g : Approximates(g, m)
<1> DEFINE bad == {m \in Nat : \A g : ~ Approximates(g, m)}
<1> SUFFICES ASSUME bad # {} PROVE FALSE
  OBVIOUS
<1>1. PICK m \in bad : \A k \in bad : m <= k
  <2>1. bad \in SUBSET Nat
    OBVIOUS
  <2> HIDE DEF bad
  <2> QED
    BY <2>1, LeastNatural
<1>2. m \in Nat /\ \A g : ~ Approximates(g, m)
  OBVIOUS
<1>3. m # 0
  <2> DEFINE g == [k \in 0 .. 0 |-> {<<0, start>>}]
  <2>1. DOMAIN g = 0 .. 0 /\ g[0] = {<<0, start>>} /\ 1 .. 0 = {}
    OBVIOUS
  <2> HIDE DEF g
  <2>2. Approximates(g, 0)
    BY <2>1 DEF Approximates
  <2> QED
    BY <1>2, <2>2
<1>4. m - 1 \in Nat /\ m - 1 \notin bad
  BY <1>1, <1>2, <1>3
<1>5. PICK g : Approximates(g, m - 1)
  BY <1>4
<1> DEFINE h == [k \in 0 .. m |-> IF k = m THEN Grow(g[m - 1]) ELSE g[k]]
<1>6. DOMAIN h = 0 .. m /\ h[0] = {<<0, start>>}
  BY <1>2, <1>3, <1>5 DEF Approximates
<1>7. ASSUME NEW k \in 1 .. m PROVE h[k] = Grow(h[k - 1])
  <2>1. CASE k = m
    BY <1>2, <1>3, <2>1
  <2>2. CASE k # m
    <3>1. k \in 1 .. m - 1 /\ k \in 0 .. m /\ k - 1 \in 0 .. m /\ k - 1 # m
      BY <1>2, <2>2
    <3>2. h[k] = g[k] /\ h[k - 1] = g[k - 1]
      BY <2>2, <3>1
    <3> HIDE DEF h
    <3> QED
      BY <1>5, <3>1, <3>2 DEF Approximates
  <2> QED
    BY <2>1, <2>2
<1> HIDE DEF h
<1>8. Approximates(h, m)
  BY <1>6, <1>7 DEF Approximates
<1> QED
  BY <1>2, <1>8

LEMMA ApproximationsAgree ==
  ASSUME NEW m \in Nat, NEW n \in Nat, m <= n,
         NEW g, Approximates(g, m), NEW h, Approximates(h, n)
  PROVE  \A k \in 0 .. m : g[k] = h[k]
<1> DEFINE bad == {k \in 0 .. m : g[k] # h[k]}
<1> SUFFICES ASSUME bad # {} PROVE FALSE
  OBVIOUS
<1>1. PICK k \in bad : \A j \in bad : k <= j
  <2>1. bad \in SUBSET Nat
    OBVIOUS
  <2> HIDE DEF bad
  <2> QED
    BY <2>1, LeastNatural
<1>2. k \in 0 .. m /\ g[k] # h[k]
  OBVIOUS
<1>3. k # 0
  BY <1>2 DEF Approximates
<1>4. k - 1 \in 0 .. m /\ k - 1 \notin bad /\ k \in 1 .. m /\ k \in 1 .. n
  BY <1>1, <1>2, <1>3
<1>5. g[k - 1] = h[k - 1]
  BY <1>4
<1> QED
  BY <1>2, <1>4, <1>5 DEF Approximates

\* Reached is what its definition says.
LEMMA ReachedSteps ==
  /\ Reached[0] = {<<0, start>>}
  /\ \A n \in Nat \ {0} : Reached[n] = Grow(Reached[n - 1])
<1> DEFINE G(n) == CHOOSE g : Approximates(g, n)
           F == [n \in Nat |-> G(n)[n]]
           Body(f) == [n \in Nat |-> IF n = 0 THEN {<<0, start>>} ELSE Grow(f[n - 1])]
<1>1. \A n \in Nat : Approximates(G(n), n)
  BY ApproximationExists
<1>2. \A n \in Nat : F[n] = G(n)[n]
  OBVIOUS
<1> HIDE DEF G, F
<1>3. F[0] = {<<0, start>>}
  BY <1>1, <1>2 DEF Approximates
<1>4. ASSUME NEW n \in Nat \ {0} PROVE F[n] = Grow(F[n - 1])
  <2>1. n - 1 \in Nat /\ n - 1 <= n /\ n \in 1 .. n /\ n - 1 \in 0 .. n - 1
    OBVIOUS
  <2>2. G(n)[n] = Grow(G(n)[n - 1])
    BY <1>1, <2>1 DEF Approximates
  <2>3. G(n - 1)[n - 1] = G(n)[n - 1]
    BY <1>1, <2>1, ApproximationsAgree
  <2> QED
    BY <1>2, <2>1, <2>2, <2>3
<1>5. F = Body(F)
  <2>1. F = [n \in Nat |-> F[n]]
    BY DEF F
  <2>2. \A n \in Nat : F[n] = IF n = 0 THEN {<<0, start>>} ELSE Grow(F[n - 1])
    BY <1>3, <1>4
  <2> QED
    BY <2>1, <2>2
<1>6. Reached = CHOOSE f : f = Body(f)
  BY DEF Reached, Grow
<1>7. Reached = Body(Reached)
  BY <1>5, <1>6
<1> QED
  BY <1>7


\* A set of positions that holds the start and is closed under the program's
\* steps holds all that is reached.
LEMMA ReachedWithin ==
  ASSUME NEW T, <<0, start>> \in T,
         \A t \in T : \A at \in Steps(t) : at[1] <= functionDepth /\ at[2] \in Nodes => at \in T
  PROVE  \A n \in Nat : Reached[n] \subseteq T
<1> DEFINE bad == {n \in Nat : ~(Reached[n] \subseteq T)}
<1> SUFFICES ASSUME bad # {} PROVE FALSE
  OBVIOUS
<1>1. PICK n \in bad : \A m \in bad : n <= m
  <2>1. bad \in SUBSET Nat
    OBVIOUS
  <2> HIDE DEF bad
  <2> QED
    BY <2>1, LeastNatural
<1>2. n \in Nat /\ ~(Reached[n] \subseteq T)
  OBVIOUS
<1>3. n # 0
  BY <1>2, ReachedSteps
<1>4. n - 1 \in Nat /\ Reached[n - 1] \subseteq T /\ Reached[n] = Grow(Reached[n - 1])
  BY <1>1, <1>2, <1>3, ReachedSteps
<1>5. Grow(Reached[n - 1]) \subseteq T
  BY <1>4 DEF Grow
<1> QED
  BY <1>2, <1>4, <1>5

At(item) == <<item.depth, item.node>>

\* While nothing is found there is a set of positions, those of the items taken,
\* none of them at the goal, that with the positions queued holds the start and
\* every step from it, and that holds the history of every item queued.
Explored(T) ==
  /\ \A t \in T : t[2] # goal
  /\ \A i \in 1 .. Len(queue) : queue[i].history \subseteq T \cup {At(queue[i])}
  /\ \A t \in T : \A at \in Steps(t) : at[1] <= functionDepth /\ at[2] \in Nodes =>
       at \in T \/ \E i \in 1 .. Len(queue) : at = At(queue[i])
  /\ <<0, start>> \in T \/ \E i \in 1 .. Len(queue) : <<0, start>> = At(queue[i])

SearchExplores == found = <<>> => \E T : Explored(T)

LEMMA SearchExploresHolds == Spec => []SearchExplores
<1>1. Init => SearchExplores
  <2> SUFFICES ASSUME Init PROVE Explored({})
    BY DEF SearchExplores
  <2>1. Len(queue) = 1 /\ queue[1].history = {<<0, start>>} /\ At(queue[1]) = <<0, start>>
    BY DEF Init, InitialItem, At
  <2> QED
    BY <2>1 DEF Explored
<1>2. SearchExplores /\ SearchTypes /\ [Next]_vars => SearchExplores'
  <2> SUFFICES ASSUME SearchExplores, SearchTypes, [Next]_vars, found' = <<>>
               PROVE  \E T : Explored(T)'
    BY DEF SearchExplores
  <2>1. UNCHANGED inputs
    BY DEF Next, Finish, TakeGoal, TakeItem, Stop, Terminated, vars
  <2>2. UNCHANGED <<graph, start, goal, functionDepth>> /\ \A at : Steps(at)' = Steps(at)
    BY <2>1 DEF inputs, Steps, EntersCall
  <2>3. CASE TakeItem
    <3> DEFINE item == Head(queue)
               n == Len(queue)
    <3>1. found = <<>> /\ item.node # goal
      BY <2>3 DEF TakeItem
    <3>2. PICK T : Explored(T)
      BY <3>1 DEF SearchExplores
    <3> DEFINE U == T \cup {At(item)}
    <3>3. /\ item \in Items /\ item = queue[1] /\ n \in Nat \ {0} /\ Len(queue') \in Nat
          /\ Len(queue') >= n - 1
          /\ \A i \in 1 .. n - 1 : queue'[i] = queue[i + 1]
          /\ \E nth \in [n .. Len(queue') -> FollowedEdges(item)] :
               /\ \A i \in n .. Len(queue') : queue'[i] = Follow(item, nth[i])
               /\ \A e \in FollowedEdges(item) : \E i \in n .. Len(queue') : nth[i] = e
      BY <2>3, QueueAfterItem
    <3>4. /\ \A i \in n .. Len(queue') : \E e \in FollowedEdges(item) : queue'[i] = Follow(item, e)
          /\ \A e \in FollowedEdges(item) : \E i \in n .. Len(queue') : queue'[i] = Follow(item, e)
      BY <3>3
    <3>5. /\ \A t \in T : t[2] # goal
          /\ \A i \in 1 .. n : queue[i].history \subseteq T \cup {At(queue[i])}
          /\ \A t \in T : \A at \in Steps(t) : at[1] <= functionDepth /\ at[2] \in Nodes =>
               at \in T \/ \E i \in 1 .. n : at = At(queue[i])
          /\ <<0, start>> \in T \/ \E i \in 1 .. n : <<0, start>> = At(queue[i])
      BY <3>2 DEF Explored
    <3> HIDE DEF n
    <3>6. n \in Nat \ {0} /\ 1 \in 1 .. n /\ (\A i \in n .. Len(queue') : i \in 1 .. Len(queue'))
          /\ \A i \in 1 .. n - 1 : i \in 1 .. Len(queue')
      BY <3>3
    \* What was queued is queued still, or was taken.
    <3>7. ASSUME NEW i \in 1 .. n
          PROVE  At(queue[i]) \in U \/ \E j \in 1 .. Len(queue') : At(queue[i]) = At(queue'[j])
      <4>1. CASE i = 1
        BY <3>3, <4>1
      <4>2. CASE i # 1
        <5>1. i - 1 \in 1 .. n - 1 /\ (i - 1) + 1 = i
          BY <3>6, <4>2
        <5> QED
          BY <3>3, <3>6, <5>1
      <4> QED
        BY <4>1, <4>2
    <3>8. item.history \subseteq U
      BY <3>3, <3>5, <3>6
    <3>9. \A t \in U : t[2] # goal
      BY <3>1, <3>5 DEF At
    <3>10. ASSUME NEW i \in 1 .. Len(queue')
           PROVE  queue'[i].history \subseteq U \cup {At(queue'[i])}
      <4>1. CASE i \in 1 .. n - 1
        <5>1. i + 1 \in 1 .. n /\ queue'[i] = queue[i + 1]
          BY <3>3, <3>6, <4>1
        <5> QED
          BY <3>5, <5>1
      <4>2. CASE i \in n .. Len(queue')
        <5>1. PICK e \in FollowedEdges(item) : queue'[i] = Follow(item, e)
          BY <3>4, <4>2
        <5>2. Follow(item, e).history = item.history \cup {At(Follow(item, e))}
          BY DEF Follow, At
        <5> QED
          BY <3>8, <5>1, <5>2
      <4>3. i \in 1 .. n - 1 \/ i \in n .. Len(queue')
        BY <3>3, <3>6
      <4> QED
        BY <4>1, <4>2, <4>3
    \* A step from the item taken is followed, or was taken before on its path.
    <3>11. ASSUME NEW at \in Steps(At(item)), at[1] <= functionDepth, at[2] \in Nodes
           PROVE  at \in U \/ \E j \in 1 .. Len(queue') : at = At(queue'[j])
      <4>1. item.node \in Nodes /\ item.depth \in Nat /\ functionDepth \in Nat
        BY <3>3, Sizes DEF Items, SearchTypes, TypeOK
      <4>2. PICK e \in DOMAIN graph[item.node] :
              /\ graph[item.node][e].kind # "return"
              /\ at = <<item.depth + (IF EntersCall(graph[item.node][e]) THEN 1 ELSE 0),
                        graph[item.node][e].dst>>
        BY DEF Steps, At, ToSet
      <4> DEFINE edge == graph[item.node][e]
      <4>3. ~ Returns(item, edge)
        BY <4>2 DEF Returns
      <4>4. at = <<NextDepth(item, edge), Destination(item, edge)>>
        BY <4>1, <4>2, <4>3 DEF NextDepth, Destination
      <4>5. EntersCall(edge) => item.depth < functionDepth
        BY <3>11, <4>1, <4>2
      <4>6. CASE Visited(item, edge)
        BY <3>8, <4>4, <4>6 DEF Visited
      <4>7. CASE ~ Visited(item, edge)
        <5>1. e \in FollowedEdges(item)
          BY <3>11, <4>4, <4>5, <4>7 DEF FollowedEdges, Followed
        <5>2. At(Follow(item, e)) = at
          BY <4>4 DEF Follow, At
        <5> QED
          BY <3>4, <3>6, <5>1, <5>2
      <4> QED
        BY <4>6, <4>7
    <3>12. ASSUME NEW t \in U, NEW at \in Steps(t), at[1] <= functionDepth, at[2] \in Nodes
           PROVE  at \in U \/ \E j \in 1 .. Len(queue') : at = At(queue'[j])
      BY <3>5, <3>7, <3>11, <3>12
    <3>13. <<0, start>> \in U \/ \E j \in 1 .. Len(queue') : <<0, start>> = At(queue'[j])
      BY <3>5, <3>7
    <3> HIDE DEF U, item
    <3> PICK V : V = U
      OBVIOUS
    <3>14. Explored(V)'
      BY <2>2, <3>9, <3>10, <3>12, <3>13 DEF Explored, At
    <3> QED
      BY <3>14
  <2>4. CASE TakeGoal
    BY <2>4, QueueAfterGoal
  <2>5. CASE UNCHANGED <<queue, found>>
    <3>1. PICK T : Explored(T)
      BY <2>5 DEF SearchExplores
    <3>2. Explored(T)'
      BY <2>2, <2>5, <3>1 DEF Explored, At
    <3> QED
      BY <3>2
  <2> QED
    BY <2>3, <2>4, <2>5 DEF Next, Finish, Stop, Terminated, vars
<1> QED
  BY <1>1, <1>2, SearchTypesHold, PTL DEF Spec

\* A search that ran to its end finds the goal whenever the program can reach it
\* within the call depth: pruning by the history, which ignores the return
\* stack, loses paths but never the last one.
THEOREM SearchGoalFound == Spec => []GoalFound
<1>1. SearchExplores /\ SearchTypes => GoalFound
  <2> SUFFICES ASSUME SearchExplores, SearchTypes, queue = <<>>, found = <<>>, goal \in Reachable
               PROVE  FALSE
    BY DEF GoalFound
  <2>1. PICK T : Explored(T)
    BY DEF SearchExplores
  <2>2. 1 .. Len(queue) = {}
    OBVIOUS
  <2>3. \A n \in Nat : Reached[n] \subseteq T
    BY <2>1, <2>2, ReachedWithin DEF Explored
  <2>4. Cardinality(Nodes) * (functionDepth + 1) \in Nat
    BY Sizes DEF SearchTypes, TypeOK
  <2>5. PICK at \in T : at[2] = goal
    BY <2>3, <2>4 DEF Reachable
  <2> QED
    BY <2>1, <2>5 DEF Explored
<1> QED
  BY <1>1, SearchExploresHolds, SearchTypesHold, PTL
=============================================================================
