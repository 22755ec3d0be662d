------------------------ MODULE MCTerminationChecks ------------------------
(***************************************************************************)
(* Small programs for TLC: the subsets of a pool of rules over a unary and *)
(* two binary predicates, and a program that MFA accepts and MSA does not. *)
(***************************************************************************)
EXTENDS TerminationChecks

Arities == [q \in Predicates |-> IF q \in {"A", "B", "D"} THEN 1 ELSE 2]

Ids == [q \in Predicates |->
  CASE q = "A" -> 1 [] q = "B" -> 2 [] q = "D" -> 3 [] q = "R" -> 4 [] OTHER -> 5]

A(x) == [p |-> "A", t |-> <<x>>]
R(x, y) == [p |-> "R", t |-> <<x, y>>]
S(x, y) == [p |-> "S", t |-> <<x, y>>]

B(x) == [p |-> "B", t |-> <<x>>]
D(x) == [p |-> "D", t |-> <<x>>]

Rule(body, heads) == [body |-> body, heads |-> heads]

Pool == <<
  Rule(<< R(1, 2) >>, << A(2) >>),
  Rule(<< S(1, 2) >>, << R(2, 1) >>),
  Rule(<< R(1, 2) >>, << R(2, 1) >>),
  Rule(<< R(1, 2), S(2, 3) >>, << S(1, 3) >>),
  Rule(<< A(1), R(1, 2) >>, << S(1, 2) >>),
  Rule(<< A(1) >>, << R(1, 2) >>),
  Rule(<< A(1) >>, << R(1, 2), S(1, 3) >>),
  Rule(<< A(1) >>, << R(1, 2), S(2, 1) >>),
  Rule(<< R(1, 2) >>, << S(1, 3) >>),
  Rule(<< R(1, 2) >>, << S(2, 3) >>),
  Rule(<< S(1, 2) >>, << R(3, 1) >>),
  Rule(<< S(1, 1) >>, << R(1, 2) >>) >>

Subsequences(n) == { s \in SUBSET (DOMAIN Pool) : Cardinality(s) \in 1 .. n }

ProgramOf(s) ==
  [k \in 1 .. Cardinality(s) |->
     Pool[CHOOSE i \in s : Cardinality({ j \in s : j < i }) = k - 1]]

\* The terms of rules 1 and 2 nest in each other, but only once.
NestOnce == <<
  Rule(<< A(1) >>, << R(1, 2) >>),
  Rule(<< B(1) >>, << S(1, 2) >>),
  Rule(<< R(1, 2), D(1) >>, << B(2) >>),
  Rule(<< S(1, 2), D(1) >>, << A(2) >>) >>

\* An existential rule with a join in its body.
JoinedBody == <<
  Rule(<< S(1, 2), R(2, 3) >>, << S(3, 4) >>),
  Rule(<< R(1, 2), S(2, 3) >>, << R(1, 3), A(4) >>) >>

\* Three symbols nest in each other, round and round.
RoundThree == <<
  Rule(<< A(1) >>, << R(1, 2) >>),
  Rule(<< R(1, 2) >>, << S(2, 3) >>),
  Rule(<< S(1, 2) >>, << A(3), B(2) >>) >>

PoolPrograms ==
  { ProgramOf(s) : s \in Subsequences(3) } \cup { NestOnce, JoinedBody, RoundThree }

SomeDatabases == {
  [q \in Predicates |-> CASE q = "A" -> << <<1>> >> [] q = "R" -> << <<1, 3>>, <<2, 1>> >> [] q = "D" -> << <<1>> >> [] OTHER -> << >>],
  [q \in Predicates |-> CASE q = "A" -> << <<1>>, <<2>> >> [] q = "R" -> << <<1, 2>> >> [] q = "S" -> << <<1, 1>>, <<2, 3>> >> [] OTHER -> << <<1>> >>] }

\* What RMFA accepts is chased when the head check is exact on it.
InOrder(p) == \A i \in DOMAIN p : IsExistential(p[i]) => HeadsInOrder(p[i])

=============================================================================
