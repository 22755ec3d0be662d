--------------------------- MODULE RelianceGroups ---------------------------
(***************************************************************************)
(* computeRelianceGroups (reliances/common.cpp): strongly connected        *)
(* components of the active part of a graph, by two iterative depth-first  *)
(* passes.  The first pass pushes a node on nodeStack once everything it   *)
(* leads to has been pushed; the second one takes nodes off that stack and *)
(* collects what the transposed graph leads to.  The order of an adjacency *)
(* list is not fixed by the callers, so every order is allowed.            *)
(***************************************************************************)
EXTENDS Integers, Sequences, FiniteSets, SequencesExt, RelianceGraph

CONSTANTS
  NumNodes,       \* numberOfInitialNodes
  Inputs          \* the arguments to run on: <<edges, active nodes>>

Nodes == 0 .. NumNodes - 1

NoGroup == -1     \* assignments of a node in no group; minimumGroup unset

ASSUME InputAssumption ==
  /\ NumNodes \in Nat \ {0}
  /\ \A input \in Inputs : input[1] \subseteq Nodes \X Nodes /\ input[2] \subseteq Nodes

VARIABLES
  edges, activeNodes,      \* the arguments
  pc,
  node,                    \* of the loop over all nodes
  visited,
  dfsStack,                \* first pass: <<node, post>>; second pass: nodes
  nodeStack,
  currentGroup,
  groups, assignments, minimumGroup, minFound

arguments == <<edges, activeNodes>>
result == <<groups, assignments, minimumGroup, minFound>>
vars == <<arguments, pc, node, visited, dfsStack, nodeStack, currentGroup, result>>

Init ==
  /\ \E input \in Inputs : edges = input[1] /\ activeNodes = input[2]
  /\ pc = "scan"
  /\ node = NumNodes - 1
  /\ visited = {}
  /\ dfsStack = << >>
  /\ nodeStack = << >>
  /\ currentGroup = {}
  /\ groups = << >>
  /\ assignments = [n \in Nodes |-> NoGroup]
  /\ minimumGroup = NoGroup
  /\ minFound = FALSE

\* (mutant) without the test of activeNodes.
AllNeighbours(E, n, seen) == SetToSeqs(Successors(E, n) \ seen)

\* The active neighbours of n that are not among the visited nodes, in any order.
Neighbours(E, n, seen) == SetToSeqs((Successors(E, n) \cap activeNodes) \ seen)

-----------------------------------------------------------------------------
(* First pass: fillOrderNonRecursive from every unvisited active node      *)

StartFill ==
  /\ pc = "scan" /\ node >= 0
  /\ node \in activeNodes \ visited
  /\ dfsStack' = << <<node, FALSE>> >>
  /\ pc' = "fill"
  /\ UNCHANGED <<arguments, node, visited, nodeStack, currentGroup, result>>

\* (mutant) the loop variable is unsigned, its test always true.
SkipNodeUnsigned ==
  /\ pc = "scan" /\ node >= 0
  /\ node \notin activeNodes \ visited
  /\ node' = (node - 1) % NumNodes
  /\ UNCHANGED <<arguments, pc, visited, dfsStack, nodeStack, currentGroup, result>>

SkipNode ==
  /\ pc = "scan" /\ node >= 0
  /\ node \notin activeNodes \ visited
  /\ node' = node - 1
  /\ UNCHANGED <<arguments, pc, visited, dfsStack, nodeStack, currentGroup, result>>

Fill ==
  /\ pc = "fill" /\ dfsStack # << >>
  /\ LET currentNode == Head(dfsStack)[1]
         currentNodePost == Head(dfsStack)[2]
     IN \/ /\ currentNodePost
           /\ nodeStack' = <<currentNode>> \o nodeStack
           /\ dfsStack' = Tail(dfsStack)
           /\ UNCHANGED visited
        \/ /\ ~ currentNodePost /\ currentNode \in visited
           /\ dfsStack' = Tail(dfsStack)
           /\ UNCHANGED <<visited, nodeStack>>
        \/ /\ ~ currentNodePost /\ currentNode \notin visited
           /\ visited' = visited \cup {currentNode}
           /\ \E next \in Neighbours(edges, currentNode, visited') :
                dfsStack' = [ i \in DOMAIN next |-> <<next[i], FALSE>> ]
                              \o << <<currentNode, TRUE>> >> \o Tail(dfsStack)
           /\ UNCHANGED nodeStack
  /\ UNCHANGED <<arguments, pc, node, currentGroup, result>>

EndFill ==
  /\ pc = "fill" /\ dfsStack = << >>
  /\ pc' = "scan"
  /\ node' = node - 1
  /\ UNCHANGED <<arguments, visited, dfsStack, nodeStack, currentGroup, result>>

\* (mutant) visited is not reset between the passes.
EndScanUnreset ==
  /\ pc = "scan" /\ node < 0
  /\ pc' = "collect"
  /\ UNCHANGED <<arguments, node, visited, dfsStack, nodeStack, currentGroup, result>>

EndScan ==
  /\ pc = "scan" /\ node < 0
  /\ pc' = "collect"
  /\ visited' = {}
  /\ UNCHANGED <<arguments, node, dfsStack, nodeStack, currentGroup, result>>

-----------------------------------------------------------------------------
(* Second pass: dfsUntilNonRecursive on the transposed graph               *)

StartGroup ==
  /\ pc = "collect" /\ nodeStack # << >>
  /\ nodeStack' = Tail(nodeStack)
  /\ IF Head(nodeStack) \in visited
     THEN UNCHANGED <<pc, dfsStack>>
     ELSE pc' = "group" /\ dfsStack' = <<Head(nodeStack)>>
  /\ UNCHANGED <<arguments, node, visited, currentGroup, result>>

Collect ==
  /\ pc = "group" /\ dfsStack # << >>
  /\ LET currentNode == Head(dfsStack) IN
     IF currentNode \in visited
     THEN /\ dfsStack' = Tail(dfsStack)
          /\ UNCHANGED <<visited, currentGroup>>
     ELSE /\ visited' = visited \cup {currentNode}
          /\ currentGroup' = currentGroup \cup {currentNode}
          /\ \E next \in Neighbours(Transposed(edges), currentNode, visited') :
               dfsStack' = next \o Tail(dfsStack)
  /\ UNCHANGED <<arguments, pc, node, nodeStack, result>>

\* (mutant) inactive predecessors count as well.
HasAnyPredecessor(member) == Predecessors(edges, member) \ currentGroup # {}

\* A member without an active predecessor outside the group makes the group the
\* minimum (when the caller passes the active nodes).
HasPredecessors(member) == (Predecessors(edges, member) \cap activeNodes) \ currentGroup # {}

EndGroup ==
  /\ pc = "group" /\ dfsStack = << >>
  /\ groups' = Append(groups, currentGroup)
  /\ assignments' = [n \in Nodes |-> IF n \in currentGroup THEN Len(groups) ELSE assignments[n]]
  /\ IF ~ minFound /\ \E member \in currentGroup : ~ HasPredecessors(member)
     THEN minimumGroup' = Len(groups) /\ minFound' = TRUE
     ELSE UNCHANGED <<minimumGroup, minFound>>
  /\ currentGroup' = {}
  /\ pc' = "collect"
  /\ UNCHANGED <<arguments, node, visited, dfsStack, nodeStack>>

Return ==
  /\ pc = "collect" /\ nodeStack = << >>
  /\ pc' = "done"
  /\ UNCHANGED <<arguments, node, visited, dfsStack, nodeStack, currentGroup, result>>

Done == pc = "done" /\ UNCHANGED vars

Next ==
  \/ StartFill \/ SkipNode \/ Fill \/ EndFill \/ EndScan
  \/ StartGroup \/ Collect \/ EndGroup \/ Return \/ Done

Spec == Init /\ [][Next]_vars

FairSpec == Spec /\ WF_vars(Next)

-----------------------------------------------------------------------------
(* Properties                                                              *)

TypeOK ==
  /\ pc \in {"scan", "fill", "collect", "group", "done"}
  /\ node \in -1 .. NumNodes - 1
  /\ visited \subseteq activeNodes
  /\ nodeStack \in Seq(activeNodes)
  /\ pc # "group" => dfsStack \in Seq(activeNodes \X BOOLEAN)
  /\ pc = "group" => dfsStack \in Seq(activeNodes)
  /\ currentGroup \subseteq visited
  /\ groups \in Seq(SUBSET activeNodes)
  /\ assignments \in [Nodes -> Nat \cup {NoGroup}]
  /\ minimumGroup \in Nat \cup {NoGroup}

\* At the end the groups are the components of the active graph, each once, and
\* assignments inverts them: what computePositiveGroups indexes by.
ResultIsPartition ==
  pc = "done" =>
    /\ ToSet(groups) = Components(edges, activeNodes)
    /\ Len(groups) = Cardinality(Components(edges, activeNodes))
    /\ \A n \in Nodes :
         IF n \in activeNodes THEN n \in groups[assignments[n] + 1]
                              ELSE assignments[n] = NoGroup

\* minimumGroup, chosen as soon as one member of a group lacks an outside
\* predecessor, designates a group none of whose members has one: the callers
\* execute it first.
MinimumIsSource ==
  pc = "done" /\ activeNodes # {} =>
    /\ minimumGroup # NoGroup
    /\ groups[minimumGroup + 1] \in SourceComponents(edges, activeNodes)

\* Groups come out sources first: no edge leads back to an earlier group.
SourcesFirst ==
  \A i, j \in DOMAIN groups : i < j =>
    \A e \in edges : ~ (e[1] \in groups[j] /\ e[2] \in groups[i])

\* Both passes end, whatever the graph.
Terminates == <>(pc = "done")

=============================================================================
