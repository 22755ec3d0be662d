---------------------------- MODULE MCQueryModes ----------------------------
(***************************************************************************)
(* Programs over two EDB and two IDB predicates for TLC, made of a pool of *)
(* rules.                                                                  *)
(***************************************************************************)
EXTENDS QueryModes

CONSTANTS Pool, MaxRules

Lit(p, args) == [pred |-> p, args |-> args]
Rule(head, body) == [head |-> head, body |-> body]

PairArity == [p \in {"e", "f", "p", "q"} |-> IF p = "f" THEN 1 ELSE 2]

P(s, t) == Lit("p", <<s, t>>)
Q(s, t) == Lit("q", <<s, t>>)
E(s, t) == Lit("e", <<s, t>>)
F(s) == Lit("f", <<s>>)

\* Transitive closure from the right, from the left and by doubling, mutual
\* recursion, constants in head and body, a repeated variable in a head and in a
\* body, a product that cannot be planned unless both arguments are bound, and one
\* that is planned but not evaluated.
Recursive == <<
  Rule(P("x", "y"), <<E("x", "y")>>),
  Rule(P("x", "y"), <<E("x", "z"), P("z", "y")>>),
  Rule(P("x", "y"), <<P("x", "z"), Q("z", "y")>>),
  Rule(P("x", "y"), <<P("x", "z"), P("z", "y")>>),
  Rule(Q("x", "y"), <<P("x", "z"), E("y", "z"), F("x")>>),
  Rule(Q("x", "x"), <<F("x"), P("x", "y")>>),
  Rule(Q("a", "y"), <<P("y", "b")>>),
  Rule(Q("x", "y"), <<F("x"), P("x", "x"), E("x", "y")>>),
  Rule(Q("x", "y"), <<F("x"), F("y")>>),
  Rule(Q("x", "y"), <<F("x"), E("y", "z"), F("z")>>) >>

\* p is symmetric.
Symmetric == <<
  Rule(P("x", "y"), <<E("x", "y")>>),
  Rule(P("x", "y"), <<P("y", "x")>>) >>

\* The first rule of the pool with at most MaxRules others.
PoolPrograms ==
  { [k \in 1 .. Cardinality(S) |-> Pool[Pick([i \in DOMAIN Pool |-> i], S)[k]]] :
      S \in { T \in SUBSET DOMAIN Pool : 1 \in T /\ Cardinality(T) <= 1 + MaxRules } }

\* What the proofs of AnswersSound and TopDownExact assume holds of the pools.
ASSUME PoolRepeatsAreBound == RepeatsAreBound
ASSUME PoolRepeatsInPlace == RepeatsInPlace

\* What the proof of MagicExact assumes holds of the first pool, and is what
\* the other fails.
ASSUME PoolLeftOutPassed == LeftOutPassed <=> Pool # Symmetric

Graphs == { {<<"a", "b">>, <<"b", "a">>, <<"b", "c">>}, {<<"a", "a">>, <<"c", "b">>, <<"b", "a">>} }

GraphDatabases == { [p \in {"e", "f"} |-> IF p = "e" THEN g ELSE {<<"a">>, <<"b">>}] : g \in Graphs }

Ask(p, s, t) == [pred |-> p, args |-> <<s, t>>, joins |-> {}, values |-> {<< >>}]

\* Nothing bound, either side, both, and one side given by a list of values with
\* the other side free or bound.
AskFor(list, ask) ==
  [ask EXCEPT !.joins = {1}, !.values = { <<v, v>> : v \in list }]

PairQueries ==
  { Ask("p", "x", "y"), Ask("p", "a", "y"), Ask("q", "x", "a"), Ask("p", "c", "b"), Ask("q", "a", "b"),
    AskFor({"a", "c"}, Ask("p", "x", "y")), AskFor({"a", "b", "c"}, Ask("q", "x", "b")) }

=============================================================================
