---------------------------- MODULE RelianceMeaning ----------------------------
(***************************************************************************)
(* What a positive reliance is, independently of how it is searched: an    *)
(* application of the first rule to some database gives the second rule a  *)
(* match that it did not have and that is not satisfied. Rules are marked, *)
(* as in RelianceChecks; databases are sets of atoms over constants and    *)
(* nulls.                                                                  *)
(***************************************************************************)
EXTENDS RelianceChecks

Universal(rule) == {t \in TermsOf(rule.body) : ~IsConstant(t)}
Existential(atoms) == {t \in TermsOf(atoms) : t < 0}
ConstantsOf(rule) == {t \in TermsOf(rule.body) \cup TermsOf(rule.heads) : IsConstant(t)}

(* The facts the atoms become when h replaces their variables. *)
Facts(atoms, h) ==
  {[pred |-> l.pred, terms |-> [k \in DOMAIN l.terms |->
      IF l.terms[k] \in DOMAIN h THEN h[l.terms[k]] ELSE l.terms[k]]] : l \in ToSet(atoms)}

(* The heads hold in db for the match h, for some choice of the existential *)
(* variables.                                                               *)
HeadHolds(rule, h, db) ==
  \E e \in [Existential(rule.heads) -> UNION {ToSet(f.terms) : f \in db}] :
    Facts(rule.heads, h @@ e) \subseteq db

(* It is enough to look at the smallest database: the first rule's match    *)
(* and the part of the second one's that the first rule does not derive.    *)
PositivelyRelies(from, to) ==
  LET known == ConstantsOf(from) \cup ConstantsOf(to)
                 \cup {2 * ConstantBase + i : i \in 1 .. Cardinality(Universal(from))}
      other == {3 * ConstantBase + i : i \in 1 .. Cardinality(Universal(to))}
      null == [t \in Existential(from.heads) |-> t - ConstantBase]
      nulls == {null[t] : t \in DOMAIN null}
  IN  \E h1 \in [Universal(from) -> known] :
        LET new == Facts(from.heads, h1 @@ null)
        IN  \E h2 \in [Universal(to) -> known \cup other \cup nulls] :
              LET body == Facts(to.body, h2)
                  rest == body \ new
                  db == Facts(from.body, h1) \cup rest
              IN  /\ body \cap new # {}
                  /\ \A f \in rest : ToSet(f.terms) \cap nulls = {}
                  /\ ~(body \subseteq db)
                  /\ ~HeadHolds(from, h1, db)
                  /\ ~HeadHolds(to, h2, db \cup new)
=============================================================================
