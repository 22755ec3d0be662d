---------------------------- MODULE RelianceChecks ----------------------------
(***************************************************************************)
(* How atoms of two rules are unified, and the checks that decide whether  *)
(* a unification witnesses a positive reliance (positiveCheck), a          *)
(* restraint (restrainCheck) or a restraint of a rule on itself            *)
(* (selfRestrainCheck).                                                    *)
(*                                                                         *)
(* An atom is [pred, terms]; a rule is [heads, body], sequences of atoms,  *)
(* with its existential variables negated in the heads.                    *)
(***************************************************************************)
EXTENDS VariableAssignments, SequencesExt, TLC

TermsOf(atoms) == UNION {ToSet(l.terms) : l \in ToSet(atoms)}
HasExistential(l) == \E t \in ToSet(l.terms) : t < 0
IsExistential(rule) == \E l \in ToSet(rule.heads) : HasExistential(l)

(* The heads with existential variables negated. *)
MarkExistential(rule) ==
  LET inBody == TermsOf(rule.body)
      mark(t) == IF IsConstant(t) \/ t \in inBody THEN t ELSE -t
      marked(l) == [l EXCEPT !.terms = [k \in DOMAIN l.terms |-> mark(l.terms[k])]]
  IN  [rule EXCEPT !.heads = [i \in DOMAIN rule.heads |-> marked(rule.heads[i])]]

HighestId(rule) ==
  LET terms == TermsOf(rule.heads) \cup TermsOf(rule.body)
      ids == {0} \cup {IF t < 0 THEN -t ELSE t : t \in {t \in terms : ~IsConstant(t)}}
  IN  CHOOSE v \in ids : \A w \in ids : w <= v
-----------------------------------------------------------------------------
(* What is known of a term while atoms are unified: existential variables   *)
(* of the first rule stand for the nulls that its application creates. The  *)
(* search for a restraint of a rule on itself keeps both roles of the rule  *)
(* in the same variables.                                                   *)
InfoUnify(t, rel, kind, a) ==
  LET place == IF kind = "self" THEN "From" ELSE rel
  IN  IF IsConstant(t) \/ (t < 0 /\ rel = "From")
      THEN [type |-> "constant", constant |-> t, group |-> NoGroup, term |-> t, rel |-> place]
      ELSE [type |-> IF t > 0 THEN "universal" ELSE "existential", term |-> t, rel |-> place,
            constant |-> ConstantOf(a, t, place), group |-> GroupOfVar(a, t, place)]

(* Mutant: an application's nulls are confused with another one's. *)
InfoModelsNoFresh(t, rel, a, fresh) ==
  LET info == [type |-> IF t > 0 THEN "universal" ELSE "existential", term |-> t, rel |-> rel,
               constant |-> ConstantOf(a, t, rel), group |-> GroupOfVar(a, t, rel)]
  IN  IF IsConstant(t)
      THEN [type |-> "constant", constant |-> t, group |-> NoGroup, term |-> t, rel |-> rel]
      ELSE IF t < 0 /\ info.group = NoGroup /\ info.constant = NotAssigned
           THEN [info EXCEPT !.constant = t] ELSE info

(* What is known of a term when unified atoms are compared. With fresh set, *)
(* existential variables stand for nulls of another application.            *)
InfoModels(t, rel, a, fresh) ==
  LET info == [type |-> IF t > 0 THEN "universal" ELSE "existential", term |-> t, rel |-> rel,
               constant |-> ConstantOf(a, t, rel), group |-> GroupOfVar(a, t, rel)]
  IN  CASE IsConstant(t) -> [type |-> "constant", constant |-> t, group |-> NoGroup,
                             term |-> t, rel |-> rel]
        [] t < 0 /\ fresh -> [info EXCEPT !.constant = t - a.offset, !.group = NoGroup]
        [] t < 0 /\ ~fresh /\ info.group = NoGroup /\ info.constant = NotAssigned
             -> [info EXCEPT !.constant = t]
        [] OTHER -> info

TermsEqual(x, y) ==
  IF "constant" \in {x.type, y.type} THEN x.constant = y.constant
  ELSE \/ x.constant # NotAssigned /\ x.constant = y.constant
       \/ x.group # NoGroup /\ x.group = y.group
       \/ /\ x.group = NoGroup /\ y.group = NoGroup
          /\ x.term = y.term /\ x.rel = y.rel

(* [ok, a]: whether the two terms can be made equal, and how. *)
UnifyTerms(x, y, a) ==
  LET xc == x.type = "constant"  yc == y.type = "constant"
  IN  IF NotAssigned \notin {x.constant, y.constant} /\ x.constant # y.constant
      THEN [ok |-> FALSE, a |-> a]
      ELSE CASE xc /\ yc -> [ok |-> TRUE, a |-> a]
             [] ~xc /\ yc -> [ok |-> TRUE, a |->
                  AssignConstantsNext(a, TrueId(a, x.term, x.rel), y.constant)]
             [] xc /\ ~yc -> [ok |-> TRUE, a |->
                  AssignConstantsNext(a, TrueId(a, y.term, y.rel), x.constant)]
             [] OTHER -> [ok |-> TRUE, a |->
                  Connect(a, TrueId(a, x.term, x.rel), TrueId(a, y.term, y.rel))]

(* A universal variable is never bound to a null: the search gives up early. *)
BindsNull(kind, x, y) ==
  CASE kind = "positive" -> x.type = "universal" /\ y.constant < 0
    [] kind = "restraint" -> "universal" \in {x.type, y.type} /\ (x.constant < 0 \/ y.constant < 0)
    [] kind = "self" -> FALSE

(* Unifies two atoms of the same predicate, term by term. *)
ExtendAssignment(kind, from, to, a, early) ==
  LET unify[k \in 0 .. Len(from.terms)] ==
        IF k = 0 THEN [ok |-> TRUE, a |-> a]
        ELSE LET sofar == unify[k - 1]
                 x == InfoUnify(from.terms[k], "From", kind, sofar.a)
                 y == InfoUnify(to.terms[k], "To", kind, sofar.a)
                 both == UnifyTerms(x, y, sofar.a)
             IN  CASE ~sofar.ok -> sofar
                   [] sofar.ok /\ early /\ BindsNull(kind, x, y) -> [ok |-> FALSE, a |-> sofar.a]
                   [] sofar.ok /\ ~(early /\ BindsNull(kind, x, y)) ->
                        IF both.ok /\ kind = "restraint" /\ y.type = "existential"
                        THEN [both EXCEPT !.a.mappedExistential = TRUE] ELSE both
      all == unify[Len(from.terms)]
  IN  IF all.ok THEN [ok |-> TRUE, a |-> FinishGroupAssignments(all.a)] ELSE all
-----------------------------------------------------------------------------
(* Atoms on the left of relianceModels: of one rule, and with fresh nulls   *)
(* for its existential variables or not.                                    *)
Part(atoms, rel) == [atoms |-> ToSet(atoms), rel |-> rel, fresh |-> FALSE]

(* The ways in which an atom of the parts is the atom r: the terms that the *)
(* existential variables of r are then mapped to, when they are variables.  *)
Matches(parts, r, rel, a, variables) ==
  LET free(k) == variables /\ r.terms[k] < 0
      left(p, l, k) == InfoModels(l.terms[k], p.rel, a, p.fresh)
      first(t) == CHOOSE k \in DOMAIN r.terms :
                     r.terms[k] = t /\ \A j \in 1 .. k - 1 : r.terms[j] # t
      equal(p, l, k) ==
        IF free(k) THEN TermsEqual(left(p, l, first(r.terms[k])), left(p, l, k))
        ELSE TermsEqual(left(p, l, k), InfoModels(r.terms[k], rel, a, FALSE))
  IN  UNION {{[t \in {r.terms[k] : k \in {k \in DOMAIN r.terms : free(k)}} |-> left(p, l, first(t))] :
                l \in {l \in p.atoms : l.pred = r.pred /\ \A k \in DOMAIN r.terms : equal(p, l, k)}} :
             p \in parts}

(* The mappings that extend one of every atom to all of them: where two     *)
(* atoms map a variable, the first one counts, if their terms are equal.    *)
Combined(mappings) ==
  LET agree(m, n) == \A t \in DOMAIN m \cap DOMAIN n : TermsEqual(m[t], n[t])
      combine[i \in 0 .. Len(mappings)] ==
        IF i = 0 THEN {<< >>}
        ELSE UNION {{m @@ n : n \in {n \in mappings[i] : agree(m, n)}} : m \in combine[i - 1]}
  IN  combine[Len(mappings)]

(* relianceModels and, where it says no, checkConsistentExistential. The    *)
(* latter only looks at atoms with existential variables: the others need   *)
(* not have a match then.                                                   *)
Satisfied(right, rel, parts, a, variables) ==
  LET matches == [i \in DOMAIN right |-> Matches(parts, right[i], rel, a, variables)]
      open == SelectSeq([i \in DOMAIN right |-> i],
                        LAMBDA i : variables /\ HasExistential(right[i]))
  IN  IF open = << >> THEN \A i \in DOMAIN right : matches[i] # {}
      ELSE Combined([j \in DOMAIN open |-> matches[open[j]]]) # {}

PossiblySatisfied(right, parts) ==
  \A r \in ToSet(right) : \E p \in parts : \E l \in p.atoms : l.pred = r.pred

(* Some variable, universal or existential, of the atom is bound to a null. *)
HasNull(l, rel, a, existential) ==
  \E t \in ToSet(l.terms) : /\ ~IsConstant(t) /\ (t < 0) = existential
                            /\ ConstantOf(a, t, rel) < 0
NullsIn(atoms, rel, a) == \E l \in ToSet(atoms) : HasNull(l, rel, a, FALSE)

(* The atoms that no atom of the first rule is mapped to, in order; domain  *)
(* is the set of positions that are mapped.                                 *)
NotMapped(domain, atoms) ==
  SelectSeq([i \in DOMAIN atoms |-> i], LAMBDA i : i \notin domain)
Select(atoms, positions) == [k \in DOMAIN positions |-> atoms[positions[k]]]

(* What to do when the first unmapped atom with a null stands at position   *)
(* i: give up if a later atom is mapped already, else try to map it too.    *)
NullAt(i, domain) == IF \E j \in domain : i < j THEN "False" ELSE "Extend"
UnmappedNulls(atoms, positions, rel, a, existential) ==
  SelectSeq(positions, LAMBDA i : HasNull(atoms[i], rel, a, existential))
-----------------------------------------------------------------------------
(* Mutant: the second rule may have had its match before. *)
PositiveCheckOldMatch(domain, from, to, a) ==
  LET open == NotMapped(domain, to.body)
      nulls == UnmappedNulls(to.body, open, "To", a, FALSE)
      before == {Part(from.body, "From"), Part(Select(to.body, open), "To")}
      after == before \cup {Part(from.heads, "From")}
      holds(atoms, rel, parts) ==
        PossiblySatisfied(atoms, parts) /\ Satisfied(atoms, rel, parts, a, TRUE)
  IN  IF NullsIn(from.body, "From", a) THEN "False"
      ELSE IF nulls # << >> THEN NullAt(nulls[1], domain)
      ELSE IF holds(from.heads, "From", before) THEN "Extend"
      ELSE IF holds(to.heads, "To", after) THEN "False" ELSE "True"

(* "True": applying the first rule enables the second one. "Extend": maybe  *)
(* if more atoms are mapped. "False": not with this mapping, nor a larger   *)
(* one.                                                                     *)
PositiveCheck(domain, from, to, a) ==
  LET open == NotMapped(domain, to.body)
      nulls == UnmappedNulls(to.body, open, "To", a, FALSE)
      before == {Part(from.body, "From"), Part(Select(to.body, open), "To")}
      after == before \cup {Part(from.heads, "From")}
      holds(atoms, rel, parts) ==
        PossiblySatisfied(atoms, parts) /\ Satisfied(atoms, rel, parts, a, TRUE)
  IN  IF NullsIn(from.body, "From", a) THEN "False"
      ELSE IF nulls # << >> THEN NullAt(nulls[1], domain)
      ELSE IF holds(from.heads, "From", before) \/ holds(to.body, "To", before) THEN "Extend"
      ELSE IF holds(to.heads, "To", after) THEN "False" ELSE "True"

(* "True": the first rule, applied after the second one, makes the second   *)
(* application redundant.                                                   *)
RestrainCheck(domain, from, to, a) ==
  LET open == NotMapped(domain, to.heads)
      nulls == UnmappedNulls(to.heads, open, "To", a, TRUE)
      body == Part(to.body, "To")
      again == [Part(to.heads, "To") EXCEPT !.fresh = TRUE]
      others == {body, again, Part(from.body, "From"), Part(Select(to.heads, open), "To")}
  IN  IF NullsIn(from.body, "From", a) \/ NullsIn(to.body, "To", a) THEN "False"
      ELSE IF ~a.mappedExistential THEN "Extend"
      ELSE IF nulls # << >> THEN NullAt(nulls[1], domain)
      ELSE IF PossiblySatisfied(to.heads, {body}) /\ Satisfied(to.heads, "To", {body}, a, TRUE)
           THEN "False"
      ELSE IF Satisfied(to.heads, "To", others, a, FALSE) THEN "Extend"
      ELSE IF PossiblySatisfied(from.heads, others) /\ Satisfied(from.heads, "From", others, a, TRUE)
           THEN "Extend" ELSE "True"

(* Some existential variable of the rule is mapped to a term of the         *)
(* database, or two of them to the same null.                               *)
NullReducing(rule, a) ==
  LET nulls == {t \in TermsOf(rule.heads) : t < 0}
      images == {ConstantOf(a, t, "From") : t \in nulls}
  IN  (\E c \in images : c >= 0) \/ Cardinality(images) < Cardinality(nulls)

SelfRestrainCheck(domain, rule, a) ==
  LET open == NotMapped(domain, rule.heads)
      nulls == UnmappedNulls(rule.heads, open, "From", a, TRUE)
      parts == {Part(rule.body, "From"), Part(Select(rule.heads, open), "From")}
  IN  IF NullsIn(rule.body, "From", a) \/ ~NullReducing(rule, a) THEN "False"
      ELSE IF nulls # << >> THEN NullAt(nulls[1], domain)
      ELSE IF PossiblySatisfied(rule.heads, parts) /\ Satisfied(rule.heads, "From", parts, a, TRUE)
           THEN "Extend" ELSE "True"

Check(kind, domain, from, to, a) ==
  CASE kind = "positive" -> PositiveCheck(domain, from, to, a)
    [] kind = "restraint" -> RestrainCheck(domain, from, to, a)
    [] kind = "self" -> SelfRestrainCheck(domain, from, a)
=============================================================================
