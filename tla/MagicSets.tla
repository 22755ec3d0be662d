----------------------------- MODULE MagicSets -----------------------------
(***************************************************************************)
(* The magic sets rewriting (magic/wizard.cpp), the other way in which     *)
(* Reasoner::getIterator answers a query: the program is adorned for the   *)
(* query, every adorned rule is guarded by a magic predicate that holds    *)
(* the bindings asked for, and rules that pass bindings on to the IDB      *)
(* atoms are added.  SemiNaiver materializes the result from the bindings  *)
(* of the query; here by what that computes, a least model.                *)
(*                                                                         *)
(* A rule of the rewritten program is [guard, body, head, passes]: guard   *)
(* stands for its magic predicate, the bound arguments of an adorned       *)
(* literal; passes says that the head is magic, too.                       *)
(***************************************************************************)
EXTENDS AdornedRules

RulesOf(program, key) == { r \in ToSet(program) : r.head.pred = key[1] }

IsIDB(l) == l.pred \notin EDBPreds

\* Wizard::getAdornedProgram: the adorned predicates that the query reaches.
AdornedPredicates(program, query) ==
  LET CalledBy(key) ==
        UNION { { KeyOf(l) : l \in { m \in ToSet(AdornedRule[<<r, key[2]>>].body) : IsIDB(m) } } :
                r \in RulesOf(program, key) }
      queries[n \in 0 .. Cardinality(Keys)] ==
        IF n = 0 THEN {query}
        ELSE LET last == queries[n - 1] IN last \cup UNION { CalledBy(key) : key \in last }
  IN  queries[Cardinality(Keys)]

AdornedProgram(program, query) ==
  UNION { { AdornedRule[<<r, key[2]>>] : r \in RulesOf(program, key) } :
          key \in AdornedPredicates(program, query) }

\* The program is adorned and the query has rules.
Rewritable(program, query) ==
  /\ RulesOf(program, query) # {}
  /\ \A key \in AdornedPredicates(program, query) : \A r \in RulesOf(program, key) : Plannable(r, key[2])

\* (mutant) nothing is passed to an atom that comes first.
LeftOutWhenFirst(r, j) == j = 1

\* No rule passes bindings to atom j of r when only the guard would be left in
\* its body and the two magic predicates are the same; what the arguments are
\* is not looked at.
LeftOut(r, j) == j = 1 /\ KeyOf(r.body[1]) = KeyOf(r.head)

\* Wizard::doMagic
MagicProgram(adorned) ==
  { [guard |-> r.head, body |-> r.body, head |-> r.head, passes |-> FALSE] : r \in adorned }
  \cup
  UNION { { [guard |-> r.head, body |-> SubSeq(r.body, 1, j - 1), head |-> r.body[j], passes |-> TRUE] :
              j \in { i \in DOMAIN r.body : IsIDB(r.body[i]) /\ ~LeftOut(r, i) } } : r \in adorned }

\* The bindings asked for and the facts, after one more round of the rules.
MagicRound(rewritten, magic, facts) ==
  LET Matches(m) ==
        LET asked == Pick(m.guard.args, m.guard.bound)
        IN  { s \in Substitutions({m.guard, m.head} \cup ToSet(m.body)) :
                /\ Substituted(asked, s) \in magic[KeyOf(m.guard)]
                /\ \A l \in ToSet(m.body) : Holds(l, s, facts) }
  IN  [magic |-> [k \in Keys |-> magic[k] \cup
         UNION { { Substituted(Pick(m.head.args, m.head.bound), s) : s \in Matches(m) } :
                 m \in { n \in rewritten : n.passes /\ KeyOf(n.head) = k } }],
       facts |-> [p \in Preds |-> facts[p] \cup
         UNION { { Substituted(m.head.args, s) : s \in Matches(m) } :
                 m \in { n \in rewritten : ~n.passes /\ n.head.pred = p } }]]

=============================================================================
