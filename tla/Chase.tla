------------------------------- MODULE Chase -------------------------------
(***************************************************************************)
(* What evaluation promises: facts are derived by applying instances of    *)
(* rules whose body holds, any number at a time and in any order, until    *)
(* the head of each such instance is satisfied.                            *)
(***************************************************************************)
CONSTANTS Databases, Program    \* [edb, positive, negative, head, satisfiedBy]

VARIABLES db, facts, done

vars == <<db, facts, done>>

Init == db \in Databases /\ facts = {} /\ done = FALSE

BodyHolds(i) == i.edb \subseteq db /\ i.positive \subseteq facts /\ i.negative \cap facts = {}

HeadHolds(i) == i.head \subseteq facts \/ \E w \in i.satisfiedBy : w \subseteq facts

\* The instances applied are those whose head holds afterwards, for the first time.
Apply ==
  /\ ~done
  /\ LET applied == { i \in Program : BodyHolds(i) /\ ~HeadHolds(i) /\ i.head \subseteq facts' }
     IN facts' = facts \cup UNION { i.head : i \in applied }
  /\ UNCHANGED <<db, done>>

Finish ==
  /\ \A i \in Program : BodyHolds(i) => HeadHolds(i)
  /\ done' = TRUE
  /\ UNCHANGED <<db, facts>>

Next == Apply \/ Finish

Spec == Init /\ [][Next]_vars

=============================================================================
