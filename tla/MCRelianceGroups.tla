------------------------- MODULE MCRelianceGroups -------------------------
(***************************************************************************)
(* Inputs of computeRelianceGroups for TLC.                                *)
(***************************************************************************)
EXTENDS RelianceGroups

\* Every graph on the nodes 0, 1 and 2, self loops included, with every active set.
SmallInputs == (SUBSET ((0 .. 2) \X (0 .. 2))) \X (SUBSET (0 .. 2))

\* On five nodes: the graph of reliance_group_test (tests.cpp) and denser ones
\* around it, with each set of at least four active nodes.
TestGraph == { <<0, 2>>, <<2, 1>>, <<1, 0>>, <<0, 3>>, <<3, 4>> }
ExtraEdges == { <<4, 3>>, <<3, 0>>, <<2, 4>>, <<4, 4>>, <<1, 2>> }
TestGraphs == { TestGraph \cup extra : extra \in SUBSET ExtraEdges }
TestInputs == TestGraphs \X { A \in SUBSET (0 .. 4) : Cardinality(A) >= 4 }

AllInputs == SmallInputs \cup TestInputs

=============================================================================
