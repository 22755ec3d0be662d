---------------------------- MODULE MCSemiNaive ----------------------------
(***************************************************************************)
(* A small program for TLC.  A fact is a tuple that starts with its        *)
(* predicate.                                                              *)
(***************************************************************************)
EXTENDS SemiNaive

FirstOf == [f \in Facts |-> f[1]]

Lit(p) == [pred |-> p, negated |-> FALSE]
Not(p) == [pred |-> p, negated |-> TRUE]

Inst(r, edb, body, head) ==
  [rule |-> r, edb |-> edb, body |-> body, head |-> {head}, satisfiedBy |-> {}]

-----------------------------------------------------------------------------
(* Terms:  copy    p(x) :- d(x)                                            *)
(*         base    exists y: q(x, y) :- c(x)                               *)
(*         link    exists y: q(x, y) :- p(x)                               *)
(*         seen    s(y) :- q(x, y)                                         *)
(*         witness exists z: v(y, z) :- q(x, y), s(y)                      *)
(*         pass    p(x') :- v(y, z), q(x, y), next(x, x')                  *)
(*         mark    m(x) :- p(x), s(y), k(x)                                *)
(*         lone    n(x) :- not m(x), p(x)                                  *)
(*         last    exists w: u(x, w) :- n(x)                               *)
(* base makes the term x + 3 for y, link x + 6; lone and last are in the   *)
(* second class.                                                           *)

TermRules == {"copy", "base", "link", "seen", "witness", "pass", "mark", "lone", "last"}
TermDatabases ==
  { D \cup {<<"k", 1>>, <<"next", 1, 2>>, <<"next", 2, 3>>} : D \in SUBSET {<<"d", 1>>, <<"d", 2>>, <<"c", 1>>} }

Links == { <<x, y>> \in (1 .. 3) \X (4 .. 9) : y \in {x + 3, x + 6} }

TermFacts ==
  ({"p", "m", "n", "u"} \X (1 .. 3)) \cup { <<"q", l[1], l[2]>> : l \in Links }
  \cup ({"s", "v"} \X (4 .. 9))

TermBody == [r \in TermRules |->
  CASE r \in {"copy", "base"} -> << >>
    [] r = "link" -> << Lit("p") >>
    [] r = "seen" -> << Lit("q") >>
    [] r = "witness" -> << Lit("q"), Lit("s") >>
    [] r = "pass" -> << Lit("v"), Lit("q") >>
    [] r = "mark" -> << Lit("p"), Lit("s") >>
    [] r = "lone" -> << Not("m"), Lit("p") >>
    [] r = "last" -> << Lit("n") >>]

TermHeads == [r \in TermRules |->
  CASE r \in {"base", "link"} -> <<"q">>
    [] r = "seen" -> <<"s">>
    [] r = "witness" -> <<"v">>
    [] r = "mark" -> <<"m">>
    [] r = "lone" -> <<"n">>
    [] r = "last" -> <<"u">>
    [] OTHER -> <<"p">>]

LinkInst(r, edb, body, l) ==
  [Inst(r, edb, body, <<"q", l[1], l[2]>>) EXCEPT
     !.satisfiedBy = { {<<"q", k[1], k[2]>>} : k \in { m \in Links : m[1] = l[1] } }]

TermInstances ==
  { Inst("copy", {<<"d", x>>}, << >>, <<"p", x>>) : x \in {1, 2} }
  \cup { LinkInst("base", {<<"c", x>>}, << >>, <<x, x + 3>>) : x \in {1, 2} }
  \cup { LinkInst("link", {}, << <<"p", x>> >>, <<x, x + 6>>) : x \in 1 .. 3 }
  \cup { Inst("seen", {}, << <<"q", l[1], l[2]>> >>, <<"s", l[2]>>) : l \in Links }
  \cup { Inst("witness", {}, << <<"q", l[1], l[2]>>, <<"s", l[2]>> >>, <<"v", l[2]>>) : l \in Links }
  \cup { Inst("pass", {<<"next", l[1], l[1] + 1>>}, << <<"v", l[2]>>, <<"q", l[1], l[2]>> >>, <<"p", l[1] + 1>>) :
           l \in { m \in Links : m[1] < 3 } }
  \cup { Inst("mark", {<<"k", x>>}, << <<"p", x>>, <<"s", y>> >>, <<"m", x>>) :
           x \in 1 .. 3, y \in 4 .. 9 }
  \cup { Inst("lone", {}, << <<"m", x>>, <<"p", x>> >>, <<"n", x>>) : x \in 1 .. 3 }
  \cup { Inst("last", {}, << <<"n", x>> >>, <<"u", x>>) : x \in 1 .. 3 }

\* Only the order of the rules executed in the same loop matters.
TermOrders ==
  { <<"copy", "base", "mark", "seen", "pass", "lone", "link", "witness", "last">>,
    <<"copy", "base", "mark", "pass", "seen", "lone", "witness", "link", "last">>,
    <<"copy", "base", "lone", "pass", "seen", "mark", "witness", "link", "last">> }

TermStratification == [f \in {"p", "q", "s", "v", "m", "n", "u"} |-> IF f \in {"n", "u"} THEN 1 ELSE 0]

=============================================================================
