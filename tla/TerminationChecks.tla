------------------------- MODULE TerminationChecks -------------------------
(***************************************************************************)
(* The static checks for termination of the chase (cycles/checker.cpp) and *)
(* the chase they vouch for.  JA looks at positions only, RJA also at what *)
(* a rule would find there; MSA and MFA chase the critical instance, with  *)
(* summarised or Skolem terms, until nothing is new or a cyclic term       *)
(* appears, RMSA and RMFA do so under the blocked check; MFC chases the    *)
(* body of one rule after the other, to show that the Skolem chase does    *)
(* not end.  The checks are run one after the other on a program; a        *)
(* program they accept is then materialised by the restricted chase.       *)
(***************************************************************************)
EXTENDS ExistentialHeads

CONSTANTS
  Programs,           \* programs: sequences of rules
  Databases,          \* databases: [Predicates -> sequence of rows]
  Predicates,
  Arity,
  PredId,             \* the ids of predicates, which order positions
  MayChase(_)         \* programs materialised when RMFA accepts them, MFA or not

Star == 0             \* the constant of the critical instance

\* Variables of a rule are numbers below VarWidth, constants below CounterWidth.
Atom ==
  { a \in [p : Predicates, t : Seq(1 .. VarWidth - 1)] : Len(a.t) = Arity[a.p] }

ASSUME ProgramAssumption ==
  /\ {"__S__", "__S_TRANS__"} \cap Predicates = {}
  /\ Arity \in [Predicates -> Nat]
  /\ \A p \in Programs : p \in Seq([body : Seq(Atom), heads : Seq(Atom)])
  /\ \A d \in Databases : DOMAIN d = Predicates /\ \A q \in Predicates :
       d[q] \in Seq([1 .. Arity[q] -> 0 .. CounterWidth - 1])

VARIABLES
  prog, phase,
  verdict,            \* of each check done: whether it accepted
  rules,              \* the program of the chase at hand
  tables,             \* of each predicate: its blocks
  seen,               \* of each rule: how many blocks of its body predicates it has read
  part, current, idle, \* the rules being executed, the next one, those without derivation
  rows, cyclic,       \* the chase manager
  target,             \* the rule MFC checks (0: every rule)
  dropped             \* history: the matches dropped by the head check of the chase

chase == <<rules, tables, seen, part, current, idle, rows, cyclic, target>>
vars == <<prog, phase, verdict, chase, dropped>>

-----------------------------------------------------------------------------
(* Joint acyclicity                                                        *)

Rules == DOMAIN rules

ExtVars(p) == UNION { { <<i, v>> : v \in ToSet(ExistentialVars(p[i])) } : i \in DOMAIN p }

PositionsIn(atoms, v) ==
  UNION { { <<atoms[k].p, l>> : l \in { l \in DOMAIN atoms[k].t : atoms[k].t[l] = v } } :
          k \in DOMAIN atoms }

\* A value moves from the body to the head of a rule when all body positions of its
\* variable are reached.
Propagates(p, reached) ==
  UNION { UNION { PositionsIn(p[i].heads, v) :
                    v \in { v \in ToSet(BodyVars(p[i])) :
                              PositionsIn(p[i].body, v) \subseteq reached } } : i \in DOMAIN p }

\* closure and getAllExtPropagatePositions: where the values of x = <<rule, variable>> go.
PropagatePositions(p, x) ==
  LET All == UNION { { <<q, l>> : l \in 1 .. Arity[q] } : q \in Predicates }
      Close[reached \in SUBSET All] ==
        LET more == reached \cup Propagates(p, reached)
        IN IF more = reached THEN reached ELSE Close[more]
  IN Close[PositionsIn(p[x[1]].heads, x[2])]

BodyPositions(r) == UNION { PositionsIn(r.body, v) : v \in ToSet(BodyVars(r)) }

\* An edge from x to y: values of y may be used to make values of x.
DependencyEdges(p) ==
  { e \in ExtVars(p) \X ExtVars(p) :
      BodyPositions(p[e[1][1]]) \cap PropagatePositions(p, e[2]) # {} }

\* Graph::isCyclic (common/graph.cpp): dropping the nodes without successor leaves some.
IsCyclicGraph(edges) ==
  LET Trim[es \in SUBSET edges] ==
        LET left == { e \in es : \E f \in es : f[1] = e[2] }
        IN IF left = es THEN es # {} ELSE Trim[left]
  IN Trim[edges]

\* The order of pairs of a predicate and a position.
LessPosition(a, b) ==
  PredId[a[1]] < PredId[b[1]] \/ (a[1] = b[1] /\ a[2] < b[2])

\* The positions of a variable, in the order of the atoms, one as often as it occurs.
Occurrences(atoms, v) ==
  FlattenSeq([k \in DOMAIN atoms |->
    LET at == SelectSeq([l \in DOMAIN atoms[k].t |-> l], LAMBDA l : atoms[k].t[l] = v)
    IN [n \in DOMAIN at |-> <<atoms[k].p, at[n]>>]])

SortedPositions(p, x) ==
  LET first == Occurrences(p[x[1]].heads, x[2])
  IN SortSeq(first \o SetToSeq(PropagatePositions(p, x) \ ToSet(first)), LessPosition)

\* std::set_intersection: the length of what the merge of s and t gives; RJA does not
\* sort t.
CountCommon(s, t) ==
  LET Common[i \in 1 .. Len(s) + 1, j \in 1 .. Len(t) + 1] ==
        IF i > Len(s) \/ j > Len(t) THEN 0
        ELSE IF LessPosition(s[i], t[j]) THEN Common[i + 1, j]
        ELSE IF LessPosition(t[j], s[i]) THEN Common[i, j + 1]
        ELSE 1 + Common[i + 1, j + 1]
  IN Common[1, 1]

\* rja_check: with a constant for every variable of rules v and w, where v makes its
\* term y for variable x of w, is the head of w missing?  The Datalog rules collected
\* by the caller do not get into the program that is run.
MakesNewTerm(v, y, w, x) ==
  LET ofW == [z \in ToSet(BodyVars(w)) |-> 2 * z]
      ofV == [z \in ToSet(VarsOf(v.heads \o v.body)) |-> IF z = y THEN 2 * x ELSE 2 * z + 1]
  IN ~HeadHolds(w, ofW, Instance(ofW, w.body) \cup Instance(ofV, v.heads \o v.body))

\* An edge from x to y: terms of x reach all positions of a variable of y's rule.
RestrictedEdges(p) ==
  LET reached == [x \in ExtVars(p) |-> SortedPositions(p, x)]
  IN { e \in ExtVars(p) \X ExtVars(p) :
         LET v == p[e[1][1]]
             w == p[e[2][1]]
         IN \E x \in ToSet(BodyVars(w)) :
              /\ CountCommon(reached[e[1]], Occurrences(w.body, x)) = Len(Occurrences(w.body, x))
              /\ MakesNewTerm(v, e[1][2], w, x) }

JA(p) == ~IsCyclicGraph(DependencyEdges(p))

RJA(p) == ~IsCyclicGraph(RestrictedEdges(p))

-----------------------------------------------------------------------------
(* Setting up a chase                                                      *)

IsSum == phase \in {"msa", "rmsa"}
IsBlocking == phase \in {"rmsa", "rmfa"}
IsChecking == phase \in {"msa", "mfa", "rmsa", "rmfa", "mfc"}

\* RMSA: existential rules note which value each term was made from, and the closure
\* of that relation is derived.
Made(x, y) == [p |-> "__S__", t |-> <<x, y>>]
MadeOver(x, y) == [p |-> "__S_TRANS__", t |-> <<x, y>>]
AllPredicates == Predicates \cup {"__S__", "__S_TRANS__"}

NoteDependencies(r) ==
  LET vs == ExistentialVars(r)
      xs == Frontier(r)
  IN [r EXCEPT !.heads =
        FlattenSeq([k \in DOMAIN vs |-> [l \in DOMAIN xs |-> Made(xs[l], vs[k])]]) \o @]

WithDependencies(p) ==
  [i \in DOMAIN p |-> NoteDependencies(p[i])] \o
  << [body |-> << Made(1, 2) >>, heads |-> << MadeOver(1, 2) >>],
     [body |-> << MadeOver(1, 2), Made(2, 3) >>, heads |-> << MadeOver(1, 3) >>] >>

\* (mutant) a column too many.
LongStarRow(q) == [k \in 1 .. Arity[q] + 1 |-> Star]

StarRow(q) == [k \in 1 .. Arity[q] |-> Star]

\* (mutant) only the predicates that no rule derives.
EDBCritical ==
  [q \in Predicates |->
     IF \E i \in DOMAIN prog : \E h \in DOMAIN prog[i].heads : prog[i].heads[h].p = q
     THEN << >> ELSE << StarRow(q) >>]

\* createCriticalInstance and addIDBCritical: * everywhere, for every predicate.
CriticalInstance == [q \in Predicates |-> << StarRow(q) >>]

\* The rows of a set, sorted.
SortedBlock(set) ==
  LET rank(row) == Cardinality({ x \in set : LessRow(x, row) }) + 1
  IN [n \in 1 .. Cardinality(set) |-> CHOOSE row \in set : rank(row) = n]

\* MFC: the body of a rule, with a constant of its own for every variable.
FrozenBody(r) ==
  [q \in Predicates |-> SortedBlock({ a.t : a \in { a \in ToSet(r.body) : a.p = q } })]

Instances(p, ph) ==
  CASE ph \in {"msa", "mfa", "rmsa", "rmfa"} -> { CriticalInstance }
    [] ph = "chase" -> Databases
    [] OTHER -> { [q \in Predicates |-> << >>] }

StartOn(p, instance, tgt, which) ==
  /\ rules' = p
  /\ tables' = [q \in AllPredicates |->
                  IF q \notin DOMAIN instance \/ instance[q] = << >> THEN << >> ELSE << instance[q] >>]
  /\ seen' = [i \in DOMAIN p |-> [q \in AllPredicates |-> 0]]
  /\ part' = which /\ current' = 1 /\ idle' = 0
  /\ rows' = [f \in { Symbol(x[1], x[2]) : x \in ExtVars(p) } |-> << >>]
  /\ cyclic' = FALSE
  /\ target' = tgt

ExistentialRules == { i \in DOMAIN prog : IsExistential(prog[i]) }

\* Joins feed another path of ExistentialRuleProcessor, which is not modelled for
\* what filters matches.
SingleBodies == \A i \in ExistentialRules : Len(prog[i].body) = 1

\* The phases, in the order in which the checks are asked for.
StartPhase(ph) ==
  /\ phase' = ph
  /\ IF ph \in {"msa", "mfa", "rmsa", "rmfa", "chase"}
     THEN \E instance \in Instances(prog, ph) :
            StartOn(IF ph = "rmsa" THEN WithDependencies(prog) ELSE prog, instance, 0,
                    IF ph \in {"rmsa", "rmfa", "chase"} THEN "datalog" ELSE "all")
     ELSE UNCHANGED chase

\* The rule MFC checks after rule i.
NextTarget(i) == { j \in ExistentialRules : j > i /\ \A k \in ExistentialRules : k > i => j <= k }

StartMFC(i) ==
  \E j \in NextTarget(i) : phase' = "mfc" /\ StartOn(prog, FrozenBody(prog[j]), j, "all")

Accepts(check) == check \in DOMAIN verdict /\ verdict[check]

Conclude(check, answer) == verdict' = [c \in DOMAIN verdict \cup {check} |->
                                         IF c = check THEN answer ELSE verdict[c]]

-----------------------------------------------------------------------------
(* Executing a rule                                                        *)

FactsIn(t) == UNION { UNION { { <<q, row>> : row \in ToSet(t[q][n]) } : n \in DOMAIN t[q] } :
                      q \in DOMAIN t }

BodyPreds(r) == { r.body[k].p : k \in DOMAIN r.body }

BodyChanged(i) == \E q \in BodyPreds(rules[i]) : Len(tables[q]) > seen[i][q]

\* The matches of the rules with one body atom: row by row, for every block that is new.
RowMatch(atom, row) == [v \in ToSet(atom.t) |-> row[CHOOSE k \in DOMAIN atom.t : atom.t[k] = v]]

BlockMatches(atom, block) ==
  LET fits(row) == \A k, l \in DOMAIN atom.t : atom.t[k] = atom.t[l] => row[k] = row[l]
      chosen == Selected(block, { row \in ToSet(block) : fits(row) })
  IN [i \in DOMAIN chosen |-> RowMatch(atom, chosen[i])]

\* A join: its matches, in the order of their rows.
JoinMatches(r) ==
  LET vs == BodyVars(r)
      found == { [k \in DOMAIN vs |-> b[vs[k]]] : b \in Matches(r.body, FactsIn(tables)) }
      sorted == SortedBlock(found)
  IN [n \in DOMAIN sorted |-> RowMatch([t |-> vs], sorted[n])]

\* The batches of matches handed to the head, one per new block.
Batches(i) ==
  LET r == rules[i]
      q == r.body[1].p
  IN IF Len(r.body) = 1
     THEN [n \in 1 .. Len(tables[q]) - seen[i][q] |->
             BlockMatches(r.body[1], tables[q][seen[i][q] + n])]
     ELSE << JoinMatches(r) >>

Keep(ms, indices) ==
  LET kept == Selected([i \in DOMAIN ms |-> i], indices)
  IN [n \in DOMAIN kept |-> ms[kept[n]]]

\* (mutant) a check drops the matches whose head is in the tables, where the facts of
\* the critical instance satisfy what they do not in a database.
FilterOnFacts(r, ms, rs) ==
  IF ms = << >> THEN ms
  ELSE IF IsBlocking
  THEN Keep(ms, { i \in DOMAIN ms : ~HeadHolds(r, ms[i], FactsIn(tables)) })
  ELSE IF phase = "chase" THEN Keep(ms, RetainNonExisting(tables, r, ms)) ELSE ms

\* addColumns before terms are made: the restricted chase drops matches, by the
\* blocked check when a check runs it and by the head check otherwise.
FilterMatches(r, ms, rs) ==
  IF ms = << >> THEN ms
  ELSE IF IsBlocking
  THEN Keep(ms, { i \in DOMAIN ms : ~BlockedCheck(rules, rs, IsSum, "__S__", r, ms[i]) })
  ELSE IF phase = "chase" THEN Keep(ms, RetainNonExisting(tables, r, ms)) ELSE ms

\* filterRecursive: on when a single rule is checked.
FilterRecursive(r, ms, rs) ==
  LET vs == BodyVars(r)
      columns == [j \in DOMAIN vs |-> [i \in DOMAIN ms |-> ms[i][vs[j]]]]
      recursive == { t \in UNION { ToSet(columns[j]) : j \in DOMAIN vs } : IsRecursive(rs, IsSum, t) }
      out == RetainNonRecursive(columns, Len(ms), recursive)
  IN IF target = 0 THEN ms ELSE [n \in DOMAIN out |-> RowMatch([t |-> vs], out[n])]

\* The rest of addColumns: terms for the existential variables, one after the other,
\* with the matches extended by them,
Extended(s, i, ms) ==
  LET frontier == Frontier(rules[i])
      column == [n \in DOMAIN ms |-> [k \in DOMAIN frontier |-> ms[n][frontier[k]]]]
      checked == IsChecking /\ target \in {0, i}
  IN FoldLeft(LAMBDA a, v :
                LET new == NewOrExistingIDs(a.mgmt, IsSum, checked, Symbol(i, v), column)
                IN [mgmt |-> new,
                    ms |-> [n \in DOMAIN ms |->
                              [w \in DOMAIN a.ms[n] \cup {v} |->
                                 IF w = v THEN new.ids[n] ELSE a.ms[n][w]]]],
              [mgmt |-> [rows |-> s.rows, cyclic |-> s.cyclic, ids |-> << >>], ms |-> ms],
              ExistentialVars(rules[i]))

\* then the rows of the head atoms.
AddColumns(s, i, ms) ==
  LET extended == Extended(s, i, ms)
  IN [rows |-> extended.mgmt.rows, cyclic |-> extended.mgmt.cyclic,
      facts |-> s.facts \cup UNION { Instance(extended.ms[n], rules[i].heads) : n \in DOMAIN ms }]

ProcessBatch(s, i, ms) ==
  IF IsExistential(rules[i])
  THEN AddColumns(s, i, FilterRecursive(rules[i], FilterMatches(rules[i], ms, s.rows), s.rows))
  ELSE AddColumns(s, i, ms)

\* The whole execution of rule i: what it makes of each batch, to be consolidated.
Execution(i) ==
  FoldLeft(LAMBDA s, ms : ProcessBatch(s, i, ms),
           [rows |-> rows, cyclic |-> cyclic, facts |-> {}], Batches(i))

\* consolidate: the rows that are new become a sorted block of each head table.
NewRows(q, facts) == { f[2] : f \in { f \in facts \ FactsIn(tables) : f[1] = q } }

Consolidated(facts) ==
  [q \in AllPredicates |->
     LET new == NewRows(q, facts)
     IN IF new = {} THEN tables[q] ELSE Append(tables[q], SortedBlock(new))]

DroppedBy(i) ==
  IF phase = "chase" /\ IsExistential(prog[i])
  THEN UNION { LET ms == Batches(i)[n]
                   kept == FilterMatches(prog[i], ms, rows)
               IN { <<i, ms[m]>> : m \in { m \in DOMAIN ms : ~Contains(kept, ms[m]) } } :
               n \in DOMAIN Batches(i) }
  ELSE {}

-----------------------------------------------------------------------------
(* The scheduling of rules (SemiNaive), as far as it matters here          *)

Ruleset == Selected([i \in Rules |-> i],
                    { i \in Rules : part = "all" \/ (IsExistential(rules[i]) <=> part = "ext") })

\* Every rule of the part failed in turn, or there is none.
Saturated == idle = Len(Ruleset)

\* Nothing is left to execute in this chase.
ChaseOver ==
  \/ IsChecking /\ cyclic
  \/ part = "all" /\ Saturated
  \/ part = "ext" /\ current > Len(Ruleset)

\* After an execution of the rule at hand: the restricted chase goes back to the
\* Datalog rules when an existential rule derived.
Advance(derived) ==
  LET n == Len(Ruleset)
  IN IF part = "ext"
     THEN IF derived THEN part' = "datalog" /\ current' = 1 /\ idle' = 0
                     ELSE current' = current + 1 /\ UNCHANGED <<part, idle>>
     ELSE /\ current' = (current % n) + 1
          /\ idle' = IF derived THEN 0 ELSE idle + 1
          /\ UNCHANGED part

ExecuteRule ==
  /\ phase \in {"msa", "mfa", "rmsa", "rmfa", "mfc", "chase"} /\ ~ChaseOver
  /\ current <= Len(Ruleset) /\ (part # "ext" => ~Saturated)
  /\ LET i == Ruleset[current]
     IN IF BodyChanged(i)
        THEN LET done == Execution(i)
                 after == Consolidated(done.facts)
             IN /\ Room(done.rows, IsSum)
                /\ rows' = done.rows /\ cyclic' = done.cyclic
                /\ tables' = after
                /\ dropped' = dropped \cup DroppedBy(i)
                /\ seen' = [seen EXCEPT ![i] = [q \in AllPredicates |->
                              IF q \in BodyPreds(rules[i]) THEN Len(tables[q]) ELSE @[q]]]
                /\ Advance(after # tables)
        ELSE UNCHANGED <<rows, cyclic, tables, seen, dropped>> /\ Advance(FALSE)
  /\ UNCHANGED <<prog, phase, verdict, rules, target>>

EnterExt ==
  /\ phase \in {"rmsa", "rmfa", "chase"} /\ part = "datalog" /\ Saturated /\ ~ChaseOver
  /\ part' = "ext" /\ current' = 1 /\ idle' = 0
  /\ UNCHANGED <<prog, phase, verdict, rules, tables, seen, rows, cyclic, target, dropped>>

CheckJA ==
  /\ phase = "ja"
  /\ Conclude("ja", JA(prog))
  /\ StartPhase("rja")
  /\ UNCHANGED <<prog, dropped>>

CheckRJA ==
  /\ phase = "rja"
  /\ Conclude("rja", RJA(prog))
  /\ StartPhase("msa")
  /\ UNCHANGED <<prog, dropped>>

EndMSA ==
  /\ phase = "msa" /\ ChaseOver
  /\ Conclude("msa", ~cyclic)
  /\ StartPhase("mfa")
  /\ UNCHANGED <<prog, dropped>>

EndMFA ==
  /\ phase = "mfa" /\ ChaseOver
  /\ Conclude("mfa", ~cyclic)
  /\ IF SingleBodies THEN StartPhase("rmsa") ELSE StartPhase("done")
  /\ UNCHANGED <<prog, dropped>>

\* RMSA: no term was made, over some steps, from itself.
EndRMSA ==
  /\ phase = "rmsa" /\ ChaseOver
  /\ Conclude("rmsa", ~cyclic /\ \A f \in FactsIn(tables) :
                        f[1] = "__S_TRANS__" => f[2][1] # f[2][2])
  /\ StartPhase("rmfa")
  /\ UNCHANGED <<prog, dropped>>

EndRMFA ==
  /\ phase = "rmfa" /\ ChaseOver
  /\ Conclude("rmfa", ~cyclic)
  /\ IF ExistentialRules = {} THEN StartPhase("done") ELSE StartMFC(0)
  /\ UNCHANGED <<prog, dropped>>

\* A program is MFC as soon as one rule makes a cyclic term.
EndMFC ==
  /\ phase = "mfc" /\ ChaseOver
  /\ IF ~cyclic /\ NextTarget(target) # {}
     THEN StartMFC(target) /\ UNCHANGED verdict
     ELSE /\ Conclude("mfc", cyclic)
          /\ IF Accepts("mfa") \/ (Accepts("rmfa") /\ MayChase(prog))
             THEN StartPhase("chase") ELSE StartPhase("done")
  /\ UNCHANGED <<prog, dropped>>

EndChase ==
  /\ phase = "chase" /\ ChaseOver
  /\ Conclude("chased", TRUE)
  /\ StartPhase("done")
  /\ UNCHANGED <<prog, dropped>>

Init ==
  /\ prog \in Programs
  /\ phase = "ja"
  /\ verdict = << >>
  /\ rules = prog
  /\ tables = [q \in AllPredicates |-> << >>]
  /\ seen = [i \in Rules |-> [q \in AllPredicates |-> 0]]
  /\ part = "all" /\ current = 1 /\ idle = 0
  /\ rows = << >> /\ cyclic = FALSE
  /\ target = 0
  /\ dropped = {}

Next ==
  \/ ExecuteRule \/ EnterExt
  \/ CheckJA \/ CheckRJA
  \/ EndMSA \/ EndMFA \/ EndRMSA \/ EndRMFA \/ EndMFC \/ EndChase

Spec == Init /\ [][Next]_vars

-----------------------------------------------------------------------------
(* Properties                                                              *)

\* The state is well formed.
TypeOK ==
  /\ phase \in {"ja", "rja", "msa", "mfa", "rmsa", "rmfa", "mfc", "chase", "done"}
  /\ DOMAIN verdict \subseteq {"ja", "rja", "msa", "mfa", "rmsa", "rmfa", "mfc", "chased"}
  /\ rules \in {prog, WithDependencies(prog)}
  /\ \A c \in DOMAIN verdict : verdict[c] \in BOOLEAN
  /\ \A q \in Predicates : \A n \in DOMAIN tables[q] : \A i \in DOMAIN tables[q][n] :
       tables[q][n][i] \in [1 .. Arity[q] -> Nat]
  /\ \A i \in Rules : \A q \in AllPredicates : seen[i][q] \in 0 .. Len(tables[q])
  /\ part \in {"all", "datalog", "ext"}
  /\ current \in 1 .. Len(rules) + 1 /\ idle \in 0 .. Len(rules)
  /\ Room(rows, IsSum)
  /\ cyclic \in BOOLEAN
  /\ target \in 0 .. Len(prog)

\* Which terms are inside which: pairs of a term and one of its arguments.
Inside ==
  UNION { UNION { { <<TermFor(rows, IsSum, f, rows[f][i]), a>> : a \in Functions(rows[f][i]) } :
                  i \in DOMAIN rows[f] } : f \in DOMAIN rows }

\* There is a chain of arguments from a term of symbol f to a term of symbol f.
Nests(f) ==
  LET Reach[ts \in SUBSET ({ e[1] : e \in Inside } \cup { e[2] : e \in Inside })] ==
        LET more == ts \cup { e[2] : e \in { e \in Inside : e[1] \in ts } }
        IN IF more = ts THEN ts ELSE Reach[more]
      Roots == { e[2] : e \in { e \in Inside : SymbolOf(e[1]) = f } }
  IN \E t \in Reach[Roots] : SymbolOf(t) = f

\* The flag of the chase manager, set when a term is about to be made, tells exactly
\* whether a term made so far contains its own symbol (in MFC: one of the rule that is
\* checked), although it is computed row by row and never again.
FlagExact ==
  IsChecking => (cyclic <=> \E f \in DOMAIN rows : target \in {0, RuleOf(f)} /\ Nests(f))

\* The checks that follow a check on the scale of strength.
Stronger == [c \in {"ja", "rja", "msa", "mfa", "rmsa"} |->
  CASE c = "ja" -> {"rja", "msa"}
    [] c = "rja" -> {"rmsa"}
    [] c = "msa" -> {"mfa", "rmsa"}
    [] OTHER -> {"rmfa"}]

\* The checks are ordered by strength, the plain ones and the restricted ones, and each
\* plain one comes before its restricted one: what a check accepts, the next accept.
Hierarchy ==
  \A c \in DOMAIN Stronger : \A d \in Stronger[c] \cap DOMAIN verdict :
    Accepts(c) => Accepts(d)

\* No program is said to terminate by MFA and not to by MFC.
NeverBoth == ~(Accepts("mfa") /\ Accepts("mfc"))

\* Every rule is satisfied by the facts.
IsModel ==
  \A i \in DOMAIN prog : \A b \in Matches(prog[i].body, FactsIn(tables)) :
    HeadHolds(prog[i], b, FactsIn(tables))

\* The head atoms of a rule can be checked in the order of the body's rows: each begins
\* with the variables of the body, in the order of the body, and no existential variable
\* is in two atoms.
HeadsInOrder(r) ==
  /\ \A h \in DOMAIN r.heads :
       LET t == r.heads[h].t
           fixed == SelectSeq(t, LAMBDA v : Contains(BodyVars(r), v))
       IN fixed = SubSeq(t, 1, Len(fixed)) /\ fixed = SubSeq(BodyVars(r), 1, Len(fixed))
  /\ \A g, h \in DOMAIN r.heads :
       g # h => ToSet(r.heads[g].t) \cap ToSet(r.heads[h].t) \subseteq ToSet(BodyVars(r))

\* The restricted chase of an accepted program ends in a model of the rules, if the
\* heads are in order.
ChaseIsModel ==
  (Accepts("chased") /\ \A i \in ExistentialRules : HeadsInOrder(prog[i])) => IsModel

\* filterDerivations "restrict[s] it to only substitutions that are not in the KG"
\* (extresultjoinproc.cpp:148): what the head check drops has its head in the tables.
DroppedHolds == \A d \in dropped : HeadHolds(prog[d[1]], d[2], FactsIn(tables))

\* An accepted program makes no cyclic term on any database, so that its chase ends:
\* the verdict on the critical instance carries over to databases.
AcceptedIsAcyclic == phase = "chase" => \A f \in DOMAIN rows : ~Nests(f)

=============================================================================
