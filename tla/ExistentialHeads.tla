-------------------------- MODULE ExistentialHeads --------------------------
(***************************************************************************)
(* What ExistentialRuleProcessor (forward/extresultjoinproc.cpp) does with *)
(* the matches of a rule before it creates terms for them: the head check  *)
(* of the restricted chase, the blocked check of the termination tests and *)
(* the filter for recursive terms.                                         *)
(*                                                                         *)
(* A rule is [body, heads], sequences of atoms [p, t]: a predicate and the *)
(* sequence of its variables.  A match maps the variables of the body to   *)
(* terms.  A table is a sequence of blocks, a block a sorted sequence of   *)
(* rows.                                                                   *)
(***************************************************************************)
EXTENDS ChaseTerms, FiniteSets

Unique(s) == FoldLeft(LAMBDA a, x : IF Contains(a, x) THEN a ELSE Append(a, x), << >>, s)

\* The elements of s that are in S, in their order.
Selected(s, S) == FoldLeft(LAMBDA a, x : IF x \in S THEN Append(a, x) ELSE a, << >>, s)

VarsOf(atoms) == Unique(FlattenSeq([i \in DOMAIN atoms |-> atoms[i].t]))

BodyVars(r) == VarsOf(r.body)

Frontier(r) == Selected(VarsOf(r.heads), ToSet(BodyVars(r)))

ExistentialVars(r) == Selected(VarsOf(r.heads), ToSet(VarsOf(r.heads)) \ ToSet(BodyVars(r)))

IsExistential(r) == ExistentialVars(r) # << >>

Apply(b, atom) == [k \in DOMAIN atom.t |-> b[atom.t[k]]]

LessRow(a, b) ==
  \E k \in DOMAIN a : a[k] < b[k] /\ \A l \in 1 .. k - 1 : a[l] = b[l]

Sorted(rows) == SortSeq(rows, LessRow)

-----------------------------------------------------------------------------
(* The restricted chase: filterDerivations and retainNonExisting           *)

\* A head atom under match b, with the dummy 0 for existential variables.
Query(b, atom) == [k \in DOMAIN atom.t |-> IF atom.t[k] \in DOMAIN b THEN b[atom.t[k]] ELSE 0]

ColumnsToCheck(b, atom) == { k \in DOMAIN atom.t : atom.t[k] \in DOMAIN b }

\* Positions of an existential variable that must hold the same value.
AgreesOnDuplicates(b, atom, row) ==
  \A k, l \in DOMAIN atom.t \ ColumnsToCheck(b, atom) : atom.t[k] = atom.t[l] => row[k] = row[l]

Before(x, y, cols) ==
  \E k \in cols : x[k] < y[k] /\ \A l \in cols : l < k => x[l] = y[l]

Same(x, y, cols) == \A k \in cols : x[k] = y[k]

\* The merge of the sorted queries with the rows of a block, of which some agree with
\* the atom: the indices of the queries that were met.
MergeBlock(queries, block, cols, agreeing) ==
  LET Met[i \in 1 .. Len(queries) + 1, j \in 1 .. Len(block) + 1] ==
        IF i > Len(queries) \/ j > Len(block) THEN {}
        ELSE IF Before(block[j], queries[i], cols) THEN Met[i, j + 1]
        ELSE IF Before(queries[i], block[j], cols) THEN Met[i + 1, j]
        ELSE IF block[j] \notin agreeing THEN Met[i, j + 1]
        ELSE {i} \cup Met[i + 1, j]
  IN Met[1, 1]

\* filterDerivations for one head atom.
FilterDerivations(table, atom, matches) ==
  LET queries == Sorted([i \in DOMAIN matches |-> Query(matches[i], atom)])
      b == matches[1]
      agreeing(block) == { row \in ToSet(block) : AgreesOnDuplicates(b, atom, row) }
  IN UNION { MergeBlock(queries, table[n], ColumnsToCheck(b, atom), agreeing(table[n])) :
             n \in DOMAIN table }

\* (mutant) the matches that some head atom meets are dropped.
RetainUnlessSomeAtom(tables, r, matches) ==
  LET met == [h \in DOMAIN r.heads |-> FilterDerivations(tables[r.heads[h].p], r.heads[h], matches)]
  IN { i \in DOMAIN matches : \A h \in DOMAIN r.heads : i \notin met[h] }

\* The matches that are kept: an index is dropped when every head atom met it.  The
\* index counts sorted queries in FilterDerivations, and matches here.
RetainNonExisting(tables, r, matches) ==
  LET met == [h \in DOMAIN r.heads |-> FilterDerivations(tables[r.heads[h].p], r.heads[h], matches)]
  IN { i \in DOMAIN matches : \E h \in DOMAIN r.heads : i \notin met[h] }

-----------------------------------------------------------------------------
(* retainNonRecursive: the readers of the columns after one with a         *)
(* recursive term are not moved, so later rows are read out of step        *)

RetainNonRecursive(columns, n, recursive) ==
  LET Step(s, i) ==
        LET cells == [j \in DOMAIN columns |-> columns[j][s.at[j]]]
            stop == { j \in DOMAIN columns : cells[j] \in recursive }
            reads(j) == \A k \in stop : j <= k
        IN [at |-> [j \in DOMAIN columns |-> IF reads(j) THEN s.at[j] + 1 ELSE s.at[j]],
            out |-> IF stop = {} THEN Append(s.out, cells) ELSE s.out]
  IN FoldLeft(Step, [at |-> [j \in DOMAIN columns |-> 1], out |-> << >>],
              [i \in 1 .. n |-> i]).out

-----------------------------------------------------------------------------
(* The blocked check of RMFA and RMSA                                      *)

\* All ways to map the variables of atoms to rows of facts, a set of <<p, row>>.
Matches(atoms, facts) ==
  FoldLeft(LAMBDA bs, atom :
             UNION { LET new == { f \in facts :
                           /\ f[1] = atom.p
                           /\ \A k, l \in DOMAIN atom.t : atom.t[k] = atom.t[l] => f[2][k] = f[2][l]
                           /\ \A k \in DOMAIN atom.t :
                                atom.t[k] \in DOMAIN b => f[2][k] = b[atom.t[k]] }
                     IN { [v \in DOMAIN b \cup ToSet(atom.t) |->
                             IF v \in DOMAIN b THEN b[v]
                             ELSE f[2][CHOOSE k \in DOMAIN atom.t : atom.t[k] = v]] : f \in new } :
                     b \in bs },
           { << >> }, atoms)

Instance(b, atoms) == { <<atoms[i].p, Apply(b, atoms[i])>> : i \in DOMAIN atoms }

\* A head holds in facts under match b.
HeadHolds(r, b, facts) ==
  \E m \in Matches(r.heads, facts) : \A v \in DOMAIN m \cap DOMAIN b : m[v] = b[v]

Consequences(prog, facts) ==
  UNION { UNION { Instance(b, prog[i].heads) : b \in Matches(prog[i].body, facts) } :
          i \in { i \in DOMAIN prog : ~IsExistential(prog[i]) } }

\* saturateInput: the rules without existential variables run to the end.
SaturateInput(prog, input) ==
  LET Values == UNION { ToSet(f[2]) : f \in input }
      All == UNION { { <<a.p, row>> : row \in [DOMAIN a.t -> Values] } :
                     a \in UNION { ToSet(prog[i].body) \cup ToSet(prog[i].heads) : i \in DOMAIN prog } }
      Saturate[facts \in SUBSET All] ==
        LET more == facts \cup Consequences(prog, facts)
        IN IF more = facts THEN facts ELSE Saturate[more]
  IN Saturate[input]

\* A constant of its own for variable v of the rule that made term t.
Fresh(t, v) == 0 - (t * VarWidth + v)

\* The match from which chase term t was made, as far as the rows tell: variables
\* outside the frontier get fresh constants, the other existential variables the
\* terms of the same row.
MatchOf(prog, rows, sum, t) ==
  LET r == prog[RuleOf(SymbolOf(t))]
      row == Arguments(rows, t)
      frontier == Frontier(r)
  IN [v \in ToSet(VarsOf(r.body \o r.heads)) |->
        IF Contains(frontier, v)
        THEN row[CHOOSE k \in DOMAIN frontier : frontier[k] = v]
        ELSE IF Contains(BodyVars(r), v) THEN Fresh(t, v)
        ELSE TermFor(rows, sum, Symbol(RuleOf(SymbolOf(t)), v), row)]

FactsAbout(prog, rows, sum, t) ==
  LET r == prog[RuleOf(SymbolOf(t))]
  IN Instance(MatchOf(prog, rows, sum, t), r.body \o r.heads)

\* enhanceFunctionTerms: the facts that made the terms, and the terms inside them.
EnhanceFunctionTerms(prog, rows, sum, facts) ==
  LET TermsIn(fs) == UNION { Functions(f[2]) : f \in fs }
      Close[ts \in SUBSET Terms(rows, sum)] ==
        LET more == ts \cup UNION { TermsIn(FactsAbout(prog, rows, sum, t)) : t \in ts }
        IN IF more = ts THEN ts ELSE Close[more]
  IN facts \cup UNION { FactsAbout(prog, rows, sum, t) : t \in Close[TermsIn(facts)] }

\* blocked_check: what made the match, saturated, already satisfies the head, without
\* the atoms of the predicate to ignore.
BlockedCheck(prog, rows, sum, ignore, r, b) ==
  HeadHolds([r EXCEPT !.heads = SelectSeq(@, LAMBDA a : a.p # ignore)], b,
            SaturateInput(prog, EnhanceFunctionTerms(prog, rows, sum, Instance(b, r.body))))

=============================================================================
