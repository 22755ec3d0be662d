--------------------------- MODULE RelianceGraph ---------------------------
(***************************************************************************)
(* Directed graphs over rules: SimpleGraph of reliances.h seen as a set of *)
(* edges <<from, to>>, and what computeRelianceGroups (common.cpp)         *)
(* promises to its callers.  The definitions quantify over closed sets of  *)
(* nodes instead of recursing, so that theorems can be proved about them;  *)
(* module RelianceGroups models the two depth-first passes of the code and *)
(* shows that they deliver exactly these components.                       *)
(***************************************************************************)

Successors(E, n) == { e[2] : e \in { d \in E : d[1] = n } }

Predecessors(E, n) == { e[1] : e \in { d \in E : d[2] = n } }

\* (mutant) the graph itself is passed for its transposition.
NotTransposed(E) == E

Transposed(E) == { <<e[2], e[1]>> : e \in E }

\* The edges that survive when only the nodes of N are active.
Within(E, N) == { e \in E : e[1] \in N /\ e[2] \in N }

Closed(E, S) == \A e \in E : e[1] \in S => e[2] \in S

\* The nodes of N a path inside N leads to from a (a itself included): those
\* in every set that contains a and is closed under the edges inside N.
Reachable(E, N, a) ==
  { b \in N : \A S \in SUBSET N : a \in S /\ Closed(Within(E, N), S) => b \in S }

\* The strongly connected component of a among the active nodes N: one entry
\* of RelianceGroupResult.groups.
Component(E, N, a) == { b \in Reachable(E, N, a) : a \in Reachable(E, N, b) }

Components(E, N) == { Component(E, N, a) : a \in N }

\* The components no active node outside leads into: what
\* RelianceGroupResult.minimumGroup designates.
SourceComponents(E, N) ==
  { C \in Components(E, N) : \A e \in E : e[2] \in C /\ e[1] \in N => e[1] \in C }

=============================================================================
