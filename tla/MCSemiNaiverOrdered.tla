------------------------ MODULE MCSemiNaiverOrdered ------------------------
(***************************************************************************)
(* Small programs for TLC.  Members is what sortRuleVectorById makes of a  *)
(* positive group.                                                         *)
(***************************************************************************)
EXTENDS OrderedImplements

CONSTANTS p, q   \* predicates

SortedMembers ==
  [g \in Groups |->
    [i \in 0 .. Cardinality(g) - 1 |->
      CHOOSE r \in g : Cardinality({ s \in g : s < r }) = i]]

\* Heads with one and with two predicates, some of them shared.
SharedHeads == [r \in Rules |-> IF r \in {0, 4} THEN {p, q} ELSE IF r = 1 THEN {p} ELSE {q}]

\* The graph of the reliance group test (tests.cpp), and a recursive rule 5
\* beside it: the positive cycle {0, 1, 2} feeds 3 and 4.  Through restraints
\* {0, 1, 2}, {3} and {4} form one component of the union graph and fall apart
\* as groups are removed; rule 5 must come before rule 0.
CyclePos == { <<0, 2>>, <<2, 1>>, <<1, 0>>, <<0, 3>>, <<3, 4>>, <<5, 5>>, <<5, 4>> }
CycleRes == { <<4, 2>>, <<2, 4>>, <<5, 0>>, <<3, 3>> }
CycleEDB == {0, 5}

\* Chains that only restraints order: core stratified.
StratPos == { <<0, 1>>, <<2, 3>>, <<1, 1>> }
StratRes == { <<3, 1>>, <<1, 4>>, <<0, 4>> }
StratEDB == {0, 2, 4}

=============================================================================
