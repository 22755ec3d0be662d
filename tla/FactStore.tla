----------------------------- MODULE FactStore -----------------------------
(***************************************************************************)
(* What the table of a predicate promises its readers: it is a set of      *)
(* facts that only grows, and a query returns the facts that match it.     *)
(***************************************************************************)
CONSTANTS Rows, Queries, Matching      \* Matching: the rows each query matches

VARIABLES facts, answer

vars == <<facts, answer>>

Init == facts = {} /\ answer = [query |-> << >>, rows |-> {}]

Insert(new) ==
  /\ facts' = facts \cup new
  /\ UNCHANGED answer

Ask(q) ==
  /\ answer' = [query |-> q, rows |-> facts \cap Matching[q]]
  /\ UNCHANGED facts

Next ==
  \/ \E new \in SUBSET Rows : Insert(new)
  \/ \E q \in Queries : Ask(q)

Spec == Init /\ [][Next]_vars

=============================================================================
