------------------------------ MODULE MCFCTable ------------------------------
(***************************************************************************)
(* Small programs for TLC, over the constants c1 and c2.                   *)
(***************************************************************************)
EXTENDS FCTable

CONSTANTS c1, c2, X, Y, r1, r2

\* Two datalog rules with one head each; r1 has two plans.
SingleHeads == [r \in Rules |-> IF r = r1 THEN << <<X, Y>> >> ELSE << <<c1, X>> >>]

OneQuery == { <<c1, X>> }

TwoPlans == [r \in Rules |-> IF r = r1 THEN 2 ELSE 1]

=============================================================================
