---------------------------- MODULE AdornedRules ----------------------------
(***************************************************************************)
(* Adorned rules: what both ways of answering a query are built from       *)
(* (common/concepts.cpp, backward/optimizer.cpp).  The adornment of a      *)
(* predicate is the set of its bound positions; an adorned rule has the    *)
(* literals of its body in the order that passes bindings on best.         *)
(*                                                                         *)
(* Terms are strings, a literal is [pred, args], an adorned literal has    *)
(* its bound positions too.  Rules are Datalog rules with one head.        *)
(***************************************************************************)
EXTENDS Naturals, Sequences, FiniteSets, SequencesExt

CONSTANTS
  Variables, Values,   \* the terms
  EDBPreds,            \* the other predicates are IDB
  Arity,               \* of each predicate
  Programs             \* sequences of rules

Preds == DOMAIN Arity
IDBPreds == Preds \ EDBPreds

Literals == { l \in [pred : Preds, args : Seq(Variables \cup Values)] : Len(l.args) = Arity[l.pred] }
DatalogRules == [head : Literals, body : Seq(Literals)]

ASSUME TermAssumption == IsFiniteSet(Values) /\ Variables \cap Values = {}

ASSUME PredicateAssumption ==
  IsFiniteSet(Preds) /\ EDBPreds \subseteq Preds /\ \A p \in Preds : Arity[p] \in Nat

ASSUME ProgramAssumption == Programs \subseteq Seq(DatalogRules)

\* A predicate with an adornment.
Keys == UNION { {p} \X SUBSET (1 .. Arity[p]) : p \in IDBPreds }

KeyOf(l) == <<l.pred, l.bound>>

VarsOf(l) == ToSet(l.args) \cap Variables

\* The members of S among 1 .. n, from the smallest on.
Increasing(n, S) ==
  LET upTo[i \in 0 .. n] ==
        IF i = 0 THEN << >> ELSE IF i \in S THEN Append(upTo[i - 1], i) ELSE upTo[i - 1]
  IN  upTo[n]

\* The part of a tuple at the given positions.
Pick(tuple, positions) ==
  LET at == Increasing(Len(tuple), positions)
  IN  [k \in DOMAIN at |-> tuple[at[k]]]

ConstantPositions(l) == { i \in DOMAIN l.args : l.args[i] \notin Variables }

\* The occurrences of variables, from left to right.
VarSeq(l) == Pick(l.args, DOMAIN l.args \ ConstantPositions(l))

FirstIndex(v, s) == CHOOSE i \in DOMAIN s : s[i] = v /\ \A j \in 1 .. i - 1 : s[j] # v

\* A sequence without the repetitions.
Distinct(s) == Pick(s, { i \in DOMAIN s : FirstIndex(s[i], s) = i })

-----------------------------------------------------------------------------
(* Optimizer                                                               *)

\* selectivitySorter; literals it does not tell apart keep their order.
SortedBefore(i, j, body) ==
  LET IsEDB(k) == body[k].pred \in EDBPreds
      NVars(k) == Len(VarSeq(body[k]))
  IN  \/ IsEDB(i) /\ ~IsEDB(j)
      \/ /\ IsEDB(i) = IsEDB(j)
         /\ NVars(i) < NVars(j) \/ (NVars(i) = NVars(j) /\ i < j)

\* calculateBestPlan prefers i to j: EDB literals, then the most bound
\* arguments, then a variable that the query binds.
Better(i, j, body, bound, known) ==
  LET IsEDB(k) == body[k].pred \in EDBPreds
      Bounds(k) == Cardinality({ a \in DOMAIN body[k].args :
                                   body[k].args[a] \in known \/ body[k].args[a] \notin Variables })
      Asked(k) == VarsOf(body[k]) \cap bound # {}
  IN  \/ IsEDB(i) /\ ~IsEDB(j)
      \/ /\ IsEDB(i) = IsEDB(j)
         /\ Bounds(i) > Bounds(j) \/ (Bounds(i) = Bounds(j) /\ Asked(i) /\ ~Asked(j))

VarsIn(body, order) == UNION { VarsOf(body[i]) : i \in ToSet(order) }

\* The literal that calculateBestPlan puts next: the first of the best of those
\* that share a variable, or simply the first.
NextInPlan(body, bound, order) ==
  LET known == bound \cup VarsIn(body, order)
      rest == DOMAIN body \ ToSet(order)
      joined == { i \in rest : VarsOf(body[i]) \cap known # {} }
  IN  IF joined = {}
      THEN CHOOSE i \in rest : \A j \in rest \ {i} : SortedBefore(i, j, body)
      ELSE CHOOSE i \in joined : \A j \in joined \ {i} :
             \/ Better(i, j, body, bound, known)
             \/ ~Better(j, i, body, bound, known) /\ SortedBefore(i, j, body)

\* rearrangeBodyAfterAdornment
BestPlan(body, bound) ==
  LET plan[k \in 0 .. Len(body)] ==
        IF k = 0 THEN << >>
        ELSE LET chosen == plan[k - 1] IN Append(chosen, NextInPlan(body, bound, chosen))
  IN  plan[Len(body)]

\* The optimizer throws when the literal that is left last shares no variable with
\* the others nor with the bound ones of the head; of one before, only an assertion
\* says so.
Plannable(r, b) ==
  LET bound == ToSet(Pick(r.head.args, b)) \cap Variables
      plan == BestPlan(r.body, bound)
  IN  Len(plan) > 1 =>
        VarsOf(r.body[Last(plan)]) \cap (bound \cup VarsIn(r.body, Front(plan))) # {}

\* Rule::createAdornment
CreateAdornment(r, b) ==
  LET bound == ToSet(Pick(r.head.args, b)) \cap Variables
      plan == BestPlan(r.body, bound)
      Known(k) == bound \cup VarsIn(r.body, SubSeq(plan, 1, k - 1))
      Adorned(l, known) ==
        [pred |-> l.pred, args |-> l.args,
         bound |-> { i \in DOMAIN l.args : l.args[i] \in known \/ l.args[i] \notin Variables }]
  IN  [head |-> [pred |-> r.head.pred, args |-> r.head.args, bound |-> b],
       body |-> [k \in DOMAIN plan |-> Adorned(r.body[plan[k]], Known(k))]]

AllRules == UNION { ToSet(P) : P \in Programs }

\* Every rule under every adornment of its head.
AdornedRule ==
  [rb \in UNION { {r} \X (SUBSET DOMAIN r.head.args) : r \in AllRules } |->
     CreateAdornment(rb[1], rb[2])]

-----------------------------------------------------------------------------
(* What a program means: its least model.                                  *)

Substituted(args, s) == [i \in DOMAIN args |-> IF args[i] \in Variables THEN s[args[i]] ELSE args[i]]

Substitutions(lits) == [UNION { VarsOf(l) : l \in lits } -> Values]

Holds(l, s, facts) == Substituted(l.args, s) \in facts[l.pred]

\* The facts that one round of the rules adds.
Consequences(rules, facts) ==
  [p \in Preds |-> facts[p] \cup UNION { { Substituted(r.head.args, s) :
      s \in { t \in Substitutions(ToSet(r.body)) : \A l \in ToSet(r.body) : Holds(l, t, facts) } } :
    r \in { q \in ToSet(rules) : q.head.pred = p }}]

\* What the database and the rules can speak of.
Interpretations == [Preds -> SUBSET UNION { [1 .. n -> Values] : n \in { Arity[p] : p \in Preds } }]

LeastModel(rules, db) ==
  LET grow[facts \in Interpretations] ==
        LET next == Consequences(rules, facts)
        IN  IF next = facts THEN facts ELSE grow[next]
  IN  grow[[p \in Preds |-> IF p \in EDBPreds THEN db[p] ELSE {}]]

=============================================================================
