------------------------- MODULE QueryModes_proofs -------------------------
(***************************************************************************)
(* Proofs about the two modes of answering a query, for every program,     *)
(* every database and every query: what the rewritten program derives      *)
(* follows from the program, and when a round finds nothing new, the facts *)
(* of the least model that no binding asks for, or that have been derived, *)
(* are a model themselves, so every fact asked for has been derived.       *)
(***************************************************************************)
EXTENDS QueryModes, QSQR_proofs

-----------------------------------------------------------------------------
(* A round of the rewritten program                                        *)

\* The bindings of an adorned literal, of which its magic predicate is asked.
BoundArgs(l) == Pick(l.args, l.bound)

\* Rule m matches bindings G and facts T with substitution s.
MatchesWith(m, s, G, T) ==
  /\ s \in Substitutions({m.guard, m.head} \cup ToSet(m.body))
  /\ Substituted(BoundArgs(m.guard), s) \in G[KeyOf(m.guard)]
  /\ \A l \in ToSet(m.body) : Holds(l, s, T)

\* Rule m passes u on to the magic predicate of k, or derives it as a fact of p.
PassesOn(m, u, k, G, T) ==
  /\ m.passes /\ KeyOf(m.head) = k
  /\ \E s : MatchesWith(m, s, G, T) /\ u = Substituted(BoundArgs(m.head), s)

DerivesFact(m, u, p, G, T) ==
  /\ ~m.passes /\ m.head.pred = p
  /\ \E s : MatchesWith(m, s, G, T) /\ u = Substituted(m.head.args, s)

\* What a round adds.
LEMMA MagicRoundFacts ==
  ASSUME NEW R, NEW G, NEW T
  PROVE  LET next == MagicRound(R, G, T) IN
         /\ next = [magic |-> next.magic, facts |-> next.facts]
         /\ DOMAIN next.magic = Keys /\ DOMAIN next.facts = Preds
         /\ \A k \in Keys : \A u : u \in next.magic[k] <=> u \in G[k] \/ \E m \in R : PassesOn(m, u, k, G, T)
         /\ \A p \in Preds : \A u : u \in next.facts[p] <=> u \in T[p] \/ \E m \in R : DerivesFact(m, u, p, G, T)
<1> DEFINE Matches(m) ==
             LET asks == Pick(m.guard.args, m.guard.bound)
             IN  { s \in Substitutions({m.guard, m.head} \cup ToSet(m.body)) :
                     /\ Substituted(asks, s) \in G[KeyOf(m.guard)]
                     /\ \A l \in ToSet(m.body) : Holds(l, s, T) }
           passed(k) == UNION { { Substituted(Pick(m.head.args, m.head.bound), s) : s \in Matches(m) } :
                                m \in { n \in R : n.passes /\ KeyOf(n.head) = k } }
           derived(p) == UNION { { Substituted(m.head.args, s) : s \in Matches(m) } :
                                 m \in { n \in R : ~n.passes /\ n.head.pred = p } }
           gm == [k \in Keys |-> G[k] \cup passed(k)]
           gf == [p \in Preds |-> T[p] \cup derived(p)]
<1>1. MagicRound(R, G, T) = [magic |-> gm, facts |-> gf]
  BY DEF MagicRound
<1>2. \A m, s : s \in Matches(m) <=> MatchesWith(m, s, G, T)
  BY DEF MatchesWith, BoundArgs
<1> HIDE DEF Matches
<1>3. \A k, u : u \in passed(k) <=> \E m \in R : PassesOn(m, u, k, G, T)
  <2> TAKE k, u
  <2>1. u \in passed(k) <=> \E m \in { n \in R : n.passes /\ KeyOf(n.head) = k } :
                              u \in { Substituted(Pick(m.head.args, m.head.bound), s) : s \in Matches(m) }
    BY Zenon
  <2>2. \A m : u \in { Substituted(Pick(m.head.args, m.head.bound), s) : s \in Matches(m) } <=>
                 \E s : MatchesWith(m, s, G, T) /\ u = Substituted(BoundArgs(m.head), s)
    BY <1>2, Zenon DEF BoundArgs
  <2> HIDE DEF passed
  <2> QED
    BY <2>1, <2>2, Zenon DEF PassesOn
<1>4. \A p, u : u \in derived(p) <=> \E m \in R : DerivesFact(m, u, p, G, T)
  <2> TAKE p, u
  <2>1. u \in derived(p) <=> \E m \in { n \in R : ~n.passes /\ n.head.pred = p } :
                               u \in { Substituted(m.head.args, s) : s \in Matches(m) }
    BY Zenon
  <2>2. \A m : u \in { Substituted(m.head.args, s) : s \in Matches(m) } <=>
                 \E s : MatchesWith(m, s, G, T) /\ u = Substituted(m.head.args, s)
    BY <1>2, Zenon
  <2> HIDE DEF derived
  <2> QED
    BY <2>1, <2>2, Zenon DEF DerivesFact
<1> HIDE DEF passed, derived
<1>5. \A k \in Keys : gm[k] = G[k] \cup passed(k)
  OBVIOUS
<1>6. \A p \in Preds : gf[p] = T[p] \cup derived(p)
  OBVIOUS
<1>7. DOMAIN gm = Keys /\ DOMAIN gf = Preds
  OBVIOUS
<1> HIDE DEF gm, gf
<1>8. \A k \in Keys : \A u : u \in gm[k] <=> u \in G[k] \/ \E m \in R : PassesOn(m, u, k, G, T)
  BY <1>3, <1>5
<1>9. \A p \in Preds : \A u : u \in gf[p] <=> u \in T[p] \/ \E m \in R : DerivesFact(m, u, p, G, T)
  BY <1>4, <1>6
<1>10. MagicRound(R, G, T).magic = gm /\ MagicRound(R, G, T).facts = gf
  BY <1>1
<1> QED
  BY <1>1, <1>7, <1>8, <1>9, <1>10

-----------------------------------------------------------------------------
(* The adorned predicates that a query reaches                             *)

\* The keys of the IDB atoms of the rules of k.
KeysCalledBy(P, k) ==
  UNION { { KeyOf(l) : l \in { m \in ToSet(AdornedRule[<<r, k[2]>>].body) : IsIDB(m) } } : r \in RulesOf(P, k) }

\* Nothing is called from A that is not in it.
ClosedUnderCalls(P, A) == \A k \in A : KeysCalledBy(P, k) \subseteq A

LEMMA RulesOfFacts ==
  ASSUME NEW P \in Programs, NEW k \in Keys, NEW r \in RulesOf(P, k)
  PROVE  LET x == AdornedRule[<<r, k[2]>>] IN
         /\ r \in ToSet(P) /\ r \in AllRules /\ r \in DatalogRules /\ r.head.pred = k[1]
         /\ k[2] \in SUBSET DOMAIN r.head.args
         /\ Adorns(x, r, k[2]) /\ IsRule(x)
<1>1. r \in ToSet(P) /\ r.head.pred = k[1] /\ r \in AllRules
  BY DEF RulesOf, AllRules
<1>2. r \in DatalogRules
  BY <1>1, ProgramsAreSafe
<1>3. k[2] \in SUBSET DOMAIN r.head.args
  <2>1. IsLiteral(r.head)
    BY <1>2, LiteralsAreLiterals DEF DatalogRules
  <2> QED
    BY <1>1, <2>1, LiteralFacts, KeyFacts
<1> DEFINE b == k[2]
<1>4. Adorns(AdornedRule[<<r, b>>], r, b)
  <2> HIDE DEF b
  <2> QED
    BY <1>1, <1>3, AdornmentFacts DEF b
<1>5. IsRule(AdornedRule[<<r, b>>])
  BY <1>1, <1>3, <1>4, AdornedIsRule
<1> QED
  BY <1>1, <1>2, <1>3, <1>4, <1>5

LEMMA CalledKeys ==
  ASSUME NEW P \in Programs, NEW k \in Keys
  PROVE  KeysCalledBy(P, k) \subseteq Keys
<1>1. ASSUME NEW r \in RulesOf(P, k), NEW l \in ToSet(AdornedRule[<<r, k[2]>>].body), IsIDB(l)
      PROVE  KeyOf(l) \in Keys
  <2> DEFINE x == AdornedRule[<<r, k[2]>>]
  <2>1. IsRule(x)
    BY RulesOfFacts
  <2>2. PICK j \in DOMAIN x.body : l = x.body[j]
    BY DEF ToSet
  <2> HIDE DEF x
  <2>3. IsLiteral(l) /\ l.bound \subseteq DOMAIN l.args
    BY <2>1, <2>2 DEF IsRule
  <2>4. l.pred \in IDBPreds /\ l.bound \in SUBSET (1 .. Arity[l.pred])
    BY <1>1, <2>3, LiteralFacts DEF IsIDB, IDBPreds
  <2> QED
    BY <2>4 DEF Keys, KeyOf
<1> DEFINE atoms(r) == { m \in ToSet(AdornedRule[<<r, k[2]>>].body) : IsIDB(m) }
<1>2. \A r \in RulesOf(P, k) : \A l \in atoms(r) : KeyOf(l) \in Keys
  BY <1>1
<1>3. KeysCalledBy(P, k) = UNION { { KeyOf(l) : l \in atoms(r) } : r \in RulesOf(P, k) }
  BY DEF KeysCalledBy
<1> HIDE DEF atoms
<1>4. \A r \in RulesOf(P, k) : { KeyOf(l) : l \in atoms(r) } \subseteq Keys
  BY <1>2
<1> QED
  BY <1>3, <1>4, Zenon

\* A chain that grows until it is closed is closed after as many steps as there
\* are keys.
GrowsBy(P, Q, n) ==
  \A i \in 1 .. n : Q[i] = Q[i - 1] \cup UNION { KeysCalledBy(P, k) : k \in Q[i - 1] }

LEMMA ChainCloses ==
  ASSUME NEW P \in Programs, NEW q \in Keys, NEW Q, NEW n, n = Cardinality(Keys),
         Q[0] = {q}, GrowsBy(P, Q, n)
  PROVE  Q[n] \subseteq Keys /\ q \in Q[n] /\ ClosedUnderCalls(P, Q[n])
<1> DEFINE good == { i \in 0 .. n : /\ Q[i] \in SUBSET Keys /\ q \in Q[i]
                                    /\ ClosedUnderCalls(P, Q[i]) \/ Cardinality(Q[i]) > i }
<1>1. IsFiniteSet(Keys) /\ n \in Nat
  BY KeysFinite, FS_CardinalityType
<1>2. 0 \in good
  <2>1. Cardinality({q}) = 1
    BY FS_Singleton
  <2>2. 0 \in 0 .. n
    BY <1>1
  <2>3. Cardinality(Q[0]) > 0
    BY <2>1
  <2>4. Q[0] \in SUBSET Keys /\ q \in Q[0]
    OBVIOUS
  <2> QED
    BY <2>2, <2>3, <2>4
<1>3. ASSUME NEW i \in 1 .. n, i - 1 \in good
      PROVE  i \in good
  <2> DEFINE A == Q[i - 1]
             B == Q[i]
  <2>1. A \in SUBSET Keys /\ q \in A /\ (ClosedUnderCalls(P, A) \/ Cardinality(A) > i - 1)
    BY <1>3
  <2>2. B = A \cup UNION { KeysCalledBy(P, k) : k \in A }
    BY DEF GrowsBy
  <2>3. i \in 0 .. n /\ i \in Nat
    BY <1>1
  <2> HIDE DEF A, B
  <2>4. A \subseteq B /\ \A k \in A : KeysCalledBy(P, k) \subseteq B
    BY <2>2, Zenon
  <2>5. B \in SUBSET Keys /\ q \in B
    <3>1. \A k \in A : KeysCalledBy(P, k) \subseteq Keys
      BY <2>1, CalledKeys
    <3>2. UNION { KeysCalledBy(P, k) : k \in A } \subseteq Keys
      BY <3>1, Zenon
    <3> QED
      BY <2>1, <2>2, <3>2
  <2>6. CASE B = A
    <3>1. ClosedUnderCalls(P, B)
      BY <2>4, <2>6 DEF ClosedUnderCalls
    <3> QED
      BY <2>3, <2>5, <3>1 DEF B
  <2>7. CASE B # A
    <3>1. ~ClosedUnderCalls(P, A)
      <4>1. SUFFICES ASSUME ClosedUnderCalls(P, A) PROVE B = A
        BY <2>7
      <4>2. UNION { KeysCalledBy(P, k) : k \in A } \subseteq A
        BY <4>1, Zenon DEF ClosedUnderCalls
      <4> QED
        BY <2>2, <4>2
    <3>2. IsFiniteSet(B) /\ IsFiniteSet(A)
      BY <1>1, <2>1, <2>5, FS_Subset
    <3>3. Cardinality(A) < Cardinality(B)
      <4>1. Cardinality(A) <= Cardinality(B) /\ (Cardinality(A) = Cardinality(B) => A = B)
        BY <2>4, <3>2, FS_Subset
      <4>2. Cardinality(A) \in Nat /\ Cardinality(B) \in Nat
        BY <3>2, FS_CardinalityType
      <4> QED
        BY <2>7, <4>1, <4>2
    <3>4. Cardinality(A) \in Nat /\ Cardinality(B) \in Nat
      BY <3>2, FS_CardinalityType
    <3>5. Cardinality(B) > i
      BY <2>1, <2>3, <3>1, <3>3, <3>4
    <3> QED
      BY <2>3, <2>5, <3>5 DEF B
  <2> QED
    BY <2>6, <2>7
<1>4. n \in good
  <2> HIDE DEF good
  <2>1. \A i \in 1 .. n : i - 1 \in good => i \in good
    BY <1>3
  <2>2. 0 .. n \subseteq good
    BY <1>1, <1>2, <2>1, UpTo
  <2> QED
    BY <1>1, <2>2
<1>5. Cardinality(Q[n]) <= n
  BY <1>1, <1>4, FS_Subset
<1>6. Cardinality(Q[n]) \in Nat
  <2>1. IsFiniteSet(Q[n])
    BY <1>1, <1>4, FS_Subset
  <2> QED
    BY <2>1, FS_CardinalityType
<1> QED
  BY <1>1, <1>4, <1>5, <1>6

\* The adorned predicates are those that the query calls, one way or another.
LEMMA AdornedPredicatesFacts ==
  ASSUME NEW P \in Programs, NEW q \in Keys
  PROVE  /\ AdornedPredicates(P, q) \subseteq Keys /\ q \in AdornedPredicates(P, q)
         /\ ClosedUnderCalls(P, AdornedPredicates(P, q))
<1> DEFINE n == Cardinality(Keys)
           T == SUBSET Keys
           step == [p \in (1 .. n) \X T |-> p[2] \cup UNION { KeysCalledBy(P, k) : k \in p[2] }]
           rec(G) == G = [i \in 0 .. n |-> IF i = 0 THEN {q}
                            ELSE LET last == G[i - 1] IN last \cup UNION { KeysCalledBy(P, k) : k \in last }]
           Q == CHOOSE G : rec(G)
<1>1. n \in Nat
  BY KeysFinite, FS_CardinalityType
<1>2. PICK G \in [0 .. n -> T] : Recurses(G, n, {q}, step)
  <2>1. {q} \in T
    OBVIOUS
  <2>2. step \in [(1 .. n) \X T -> T]
    <3> SUFFICES ASSUME NEW p \in (1 .. n) \X T
                 PROVE  p[2] \cup UNION { KeysCalledBy(P, k) : k \in p[2] } \in T
      OBVIOUS
    <3>1. p[2] \in SUBSET Keys
      OBVIOUS
    <3>2. \A k \in p[2] : KeysCalledBy(P, k) \subseteq Keys
      BY <3>1, CalledKeys
    <3>3. UNION { KeysCalledBy(P, k) : k \in p[2] } \subseteq Keys
      BY <3>2, Zenon
    <3> QED
      BY <3>1, <3>3
  <2> HIDE DEF T, step
  <2> QED
    BY <1>1, <2>1, <2>2, RecursionExists
<1>3. /\ G[0] = {q}
      /\ \A i \in 1 .. n : G[i] = G[i - 1] \cup UNION { KeysCalledBy(P, k) : k \in G[i - 1] }
  <2>1. \A i \in 1 .. n : <<i, G[i - 1]>> \in (1 .. n) \X T
    <3> TAKE i \in 1 .. n
    <3>1. i - 1 \in 0 .. n
      BY <1>1
    <3>2. G[i - 1] \in T
      BY <1>2, <3>1
    <3> HIDE DEF T
    <3> QED
      BY <3>2
  <2>2. \A i \in 1 .. n : step[<<i, G[i - 1]>>] = G[i - 1] \cup UNION { KeysCalledBy(P, k) : k \in G[i - 1] }
    <3> HIDE DEF T, n
    <3> QED
      BY <2>1
  <2>3. /\ G[0] = {q} /\ \A i \in 1 .. n : G[i] = step[<<i, G[i - 1]>>]
    <3>1. 0 \in 0 .. n /\ \A i \in 1 .. n : i \in 0 .. n /\ i # 0
      BY <1>1
    <3> HIDE DEF step, n
    <3> QED
      BY <1>2, <3>1 DEF Recurses
  <2> HIDE DEF step
  <2> QED
    BY <2>2, <2>3
<1>4. rec(G)
  <2>1. \A i \in 0 .. n : G[i] = IF i = 0 THEN {q} ELSE G[i - 1] \cup UNION { KeysCalledBy(P, k) : k \in G[i - 1] }
    <3>1. \A i \in 0 .. n : i = 0 \/ i \in 1 .. n
      BY <1>1
    <3> QED
      BY <1>3, <3>1, Zenon
  <2>2. G = [i \in 0 .. n |-> G[i]]
    BY <1>2
  <2> QED
    BY <2>1, <2>2, Zenon
<1>5. rec(Q)
  BY <1>4, Zenon
<1>6. AdornedPredicates(P, q) = Q[n]
  BY DEF AdornedPredicates, KeysCalledBy
<1> HIDE DEF Q
<1>7. Q[0] = {q} /\ GrowsBy(P, Q, n)
  <2>1. \A i \in 0 .. n : Q[i] = IF i = 0 THEN {q} ELSE Q[i - 1] \cup UNION { KeysCalledBy(P, k) : k \in Q[i - 1] }
    BY <1>5, Zenon
  <2>2. 0 \in 0 .. n /\ \A i \in 1 .. n : i \in 0 .. n /\ i # 0
    BY <1>1
  <2> HIDE DEF n
  <2> QED
    BY <2>1, <2>2, Zenon DEF GrowsBy
<1> QED
  BY <1>6, <1>7, ChainCloses

-----------------------------------------------------------------------------
(* The rules of the rewritten program                                      *)

\* An adorned rule, guarded, and the rule that passes bindings to its atom j.
GuardedRule(x) == [guard |-> x.head, body |-> x.body, head |-> x.head, passes |-> FALSE]

PassingRule(x, j) == [guard |-> x.head, body |-> SubSeq(x.body, 1, j - 1), head |-> x.body[j], passes |-> TRUE]

LEMMA MagicRules ==
  ASSUME NEW A
  PROVE  /\ \A x \in A : GuardedRule(x) \in MagicProgram(A)
         /\ \A x \in A : \A j \in DOMAIN x.body :
              IsIDB(x.body[j]) /\ ~LeftOut(x, j) => PassingRule(x, j) \in MagicProgram(A)
         /\ \A m \in MagicProgram(A) : ~m.passes => \E x \in A : m = GuardedRule(x)
<1> DEFINE called(x) == { i \in DOMAIN x.body : IsIDB(x.body[i]) /\ ~LeftOut(x, i) }
           guarded == { GuardedRule(x) : x \in A }
           passing == UNION { { PassingRule(x, j) : j \in called(x) } : x \in A }
<1>1. MagicProgram(A) = guarded \cup passing
  BY DEF MagicProgram, GuardedRule, PassingRule
<1>2. \A m \in passing : m.passes
  <2> SUFFICES ASSUME NEW x \in A, NEW j \in called(x) PROVE PassingRule(x, j).passes
    BY Zenon
  <2> QED
    BY DEF PassingRule
<1>3. \A x \in A : \A j \in called(x) : PassingRule(x, j) \in passing
  <2> HIDE DEF called
  <2> QED
    OBVIOUS
<1>4. \A x \in A : \A j \in DOMAIN x.body : IsIDB(x.body[j]) /\ ~LeftOut(x, j) => j \in called(x)
  OBVIOUS
<1> HIDE DEF called, passing
<1> QED
  BY <1>1, <1>2, <1>3, <1>4

\* x is a rule of P, adorned for a predicate that query q reaches.
IsAdornedRule(x, P, q) ==
  \E k \in AdornedPredicates(P, q) : \E r \in RulesOf(P, k) : x = AdornedRule[<<r, k[2]>>]


\* The adorned program, rule by rule.
LEMMA AdornedProgramFacts ==
  ASSUME NEW P, NEW q
  PROVE  \A x : x \in AdornedProgram(P, q) <=> IsAdornedRule(x, P, q)
<1> DEFINE adorned(k) == { AdornedRule[<<r, k[2]>>] : r \in RulesOf(P, k) }
<1>1. AdornedProgram(P, q) = UNION { adorned(k) : k \in AdornedPredicates(P, q) }
  BY DEF AdornedProgram
<1>2. \A k, x : x \in adorned(k) <=> \E r \in RulesOf(P, k) : x = AdornedRule[<<r, k[2]>>]
  OBVIOUS
<1> HIDE DEF adorned
<1> QED
  BY <1>1, <1>2 DEF IsAdornedRule

LEMMA SubstitutedDependsOn ==
  ASSUME NEW args, NEW s, NEW t, \A v \in ToSet(args) \cap Variables : s[v] = t[v]
  PROVE  Substituted(args, s) = Substituted(args, t)
<1>1. \A i \in DOMAIN args : args[i] \in ToSet(args)
  BY DEF ToSet
<1>2. \A i \in DOMAIN args : (IF args[i] \in Variables THEN s[args[i]] ELSE args[i]) =
                             (IF args[i] \in Variables THEN t[args[i]] ELSE args[i])
  BY <1>1
<1> QED
  BY <1>2 DEF Substituted

\* A substitution for some literals, taken from one of more variables.
RestrictedTo(L, s) == [v \in UNION { VarsOf(l) : l \in L } |-> s[v]]

LEMMA RestrictedFacts ==
  ASSUME NEW L, NEW s, \A l \in L : \A v \in VarsOf(l) : s[v] \in Values
  PROVE  /\ RestrictedTo(L, s) \in Substitutions(L)
         /\ \A l \in L : \A v \in VarsOf(l) : RestrictedTo(L, s)[v] = s[v]
<1> DEFINE B == UNION { VarsOf(l) : l \in L }
<1>1. \A l \in L : \A v \in VarsOf(l) : v \in B
  BY Zenon
<1>2. \A v \in B : s[v] \in Values
  BY Zenon
<1> HIDE DEF B
<1>3. [v \in B |-> s[v]] \in [B -> Values]
  BY <1>2
<1>4. RestrictedTo(L, s) = [v \in B |-> s[v]] /\ Substitutions(L) = [B -> Values]
  BY DEF B, RestrictedTo, Substitutions
<1> QED
  BY <1>1, <1>3, <1>4

\* Bound arguments have variables of the literal.
LEMMA BoundVariables ==
  ASSUME NEW l, IsLiteral(l), l.bound \subseteq DOMAIN l.args
  PROVE  ToSet(BoundArgs(l)) \cap Variables \subseteq VarsOf(l)
<1> DEFINE b == l.bound
<1>1. Picked(Terms, l.args, b)
  BY LiteralFacts, PickFacts
<1>2. \A v : v \in ToSet(Pick(l.args, b)) <=> \E i \in b \cap DOMAIN l.args : v = l.args[i]
  BY <1>1 DEF Picked
<1> QED
  BY <1>2 DEF BoundArgs, VarsOf, ToSet

-----------------------------------------------------------------------------
(* What is derived follows from the program                                *)

\* An instance of an adorned rule is one of the rule.
LEMMA GuardedIsSound ==
  ASSUME NEW P \in Programs, NEW M, Consequences(P, M) = M, NEW T, Below(T, M),
         NEW k \in Keys, NEW r \in RulesOf(P, k), NEW x, x = AdornedRule[<<r, k[2]>>],
         NEW G, NEW s, MatchesWith(GuardedRule(x), s, G, T)
  PROVE  Substituted(x.head.args, s) \in M[x.head.pred]
<1> DEFINE L == ToSet(r.body)
           t == RestrictedTo(L, s)
<1>1. r \in ToSet(P) /\ r \in DatalogRules /\ Adorns(x, r, k[2])
  BY RulesOfFacts
<1>2. /\ x.head.pred = r.head.pred /\ x.head.args = r.head.args
      /\ \A j \in DOMAIN x.body : IsLiteral(x.body[j])
      /\ \A l \in L : \E j \in DOMAIN x.body : x.body[j].pred = l.pred /\ x.body[j].args = l.args
  <2>1. x.head = [pred |-> r.head.pred, args |-> r.head.args, bound |-> k[2]]
    BY <1>1 DEF Adorns
  <2>2. x.head.pred = r.head.pred /\ x.head.args = r.head.args
    BY <2>1
  <2>3. /\ \A j \in DOMAIN x.body : IsLiteral(x.body[j])
        /\ \A l \in L : \E j \in DOMAIN x.body : x.body[j].pred = l.pred /\ x.body[j].args = l.args
    BY <1>1, Zenon DEF Adorns
  <2> QED
    BY <2>2, <2>3
<1>3. /\ s \in Substitutions({x.head} \cup ToSet(x.body))
      /\ \A l \in ToSet(x.body) : Holds(l, s, T)
  BY DEF MatchesWith, GuardedRule
<1>4. \A l \in ToSet(x.body) : \A v \in VarsOf(l) : s[v] \in Values
  <2> DEFINE B == UNION { VarsOf(l) : l \in {x.head} \cup ToSet(x.body) }
  <2>1. s \in [B -> Values]
    BY <1>3 DEF Substitutions
  <2>2. \A l \in ToSet(x.body) : \A v \in VarsOf(l) : v \in B
    OBVIOUS
  <2> HIDE DEF B
  <2> QED
    BY <2>1, <2>2
<1> HIDE DEF L
<1>5. \A l \in L : (\A v \in VarsOf(l) : s[v] \in Values) /\ Holds(l, s, M)
  <2> TAKE l \in L
  <2>1. PICK j \in DOMAIN x.body : x.body[j].pred = l.pred /\ x.body[j].args = l.args
    BY <1>2
  <2>2. x.body[j] \in ToSet(x.body)
    BY DEF ToSet
  <2>3. Holds(x.body[j], s, T) /\ x.body[j].pred \in Preds
    BY <1>2, <1>3, <2>2 DEF IsLiteral
  <2>4. Holds(l, s, T) /\ l.pred \in Preds
    BY <2>1, <2>3 DEF Holds
  <2>5. VarsOf(l) = VarsOf(x.body[j])
    BY <2>1 DEF VarsOf
  <2> QED
    BY <1>4, <2>2, <2>4, <2>5 DEF Holds, Below
<1>6. t \in Substitutions(L) /\ \A l \in L : \A v \in VarsOf(l) : t[v] = s[v]
  BY <1>5, RestrictedFacts
<1> HIDE DEF t
<1>7. \A l \in L : Holds(l, t, M)
  <2> TAKE l \in L
  <2>1. \A v \in VarsOf(l) : t[v] = s[v]
    BY <1>6
  <2> QED
    BY <1>5, <2>1, HoldsDependsOn
<1>8. Substituted(r.head.args, s) = Substituted(r.head.args, t)
  <2>1. \A v \in VarsOf(r.head) : \E l \in L : v \in VarsOf(l)
    BY <1>1, ProgramsAreSafe DEF SafeRules, L
  <2>2. \A v \in VarsOf(r.head) : s[v] = t[v]
    BY <1>6, <2>1
  <2> QED
    BY <2>2, SubstitutedDependsOn DEF VarsOf
<1>9. DerivesWith(r, t, M, Substituted(x.head.args, s))
  BY <1>2, <1>6, <1>7, <1>8 DEF DerivesWith, L
<1>10. r.head.pred \in Preds
  BY <1>1 DEF DatalogRules, Literals
<1> QED
  BY <1>1, <1>2, <1>9, <1>10, ConsequencesFacts

-----------------------------------------------------------------------------
(* What is asked for is derived                                            *)

\* A substitution gives every variable of the rule a value.
LEMMA RuleVariables ==
  ASSUME NEW x, IsRule(x), NEW s, Assigns(s, x)
  PROVE  /\ \A j \in 1 .. Len(x.body) : \A v \in VarsOf(x.body[j]) : s[v] \in Values
         /\ \A v \in VarsOf(x.head) : s[v] \in Values
<1>1. Len(x.body) \in Nat /\ VarsOf(x.head) \subseteq Known(x, Len(x.body) + 1)
  BY DEF IsRule
<1>2. (Len(x.body) + 1) - 1 = Len(x.body)
  BY <1>1
<1>3. \A j \in 1 .. Len(x.body) : VarsOf(x.body[j]) \subseteq Known(x, Len(x.body) + 1)
  BY <1>2 DEF Known
<1> QED
  BY <1>1, <1>3 DEF Assigns

\* The binding that an instance of a literal has for its magic predicate.
LEMMA BoundSubstituted ==
  ASSUME NEW l, IsLiteral(l), NEW s, \A v \in VarsOf(l) : s[v] \in Values
  PROVE  Pick(Substituted(l.args, s), l.bound) = Substituted(BoundArgs(l), s)
<1> DEFINE b == l.bound
<1>1. Pick(Substituted(l.args, s), b) =
        [k \in DOMAIN Pick(l.args, b) |-> IF Pick(l.args, b)[k] \in Variables THEN s[Pick(l.args, b)[k]] ELSE Pick(l.args, b)[k]]
  BY PickSubstituted
<1> QED
  BY <1>1 DEF Substituted, BoundArgs

\* Instance s of rule m: the guard has its binding, the body holds.
IsInstance(m, s, G, T) ==
  /\ IsLiteral(m.guard) /\ m.guard.bound \subseteq DOMAIN m.guard.args
  /\ \A l \in {m.guard, m.head} \cup ToSet(m.body) : \A v \in VarsOf(l) : s[v] \in Values
  /\ Substituted(BoundArgs(m.guard), s) \in G[KeyOf(m.guard)]
  /\ \A l \in ToSet(m.body) : Holds(l, s, T)

\* It matches, with the variables that the rule has.
LEMMA InstanceMatches ==
  ASSUME NEW m, NEW s, NEW G, NEW T, IsInstance(m, s, G, T)
  PROVE  \E t : MatchesWith(m, t, G, T) /\ \A v \in VarsOf(m.head) : t[v] = s[v]
<1> DEFINE L == {m.guard, m.head} \cup ToSet(m.body)
           t == RestrictedTo(L, s)
<1>1. m.guard \in L /\ m.head \in L /\ \A l \in ToSet(m.body) : l \in L
  OBVIOUS
<1>0. /\ IsLiteral(m.guard) /\ m.guard.bound \subseteq DOMAIN m.guard.args
      /\ \A l \in L : \A v \in VarsOf(l) : s[v] \in Values
      /\ Substituted(BoundArgs(m.guard), s) \in G[KeyOf(m.guard)]
      /\ \A l \in ToSet(m.body) : Holds(l, s, T)
  BY DEF IsInstance
<1> HIDE DEF L
<1>2. t \in Substitutions(L) /\ \A l \in L : \A v \in VarsOf(l) : t[v] = s[v]
  <2>1. \A l \in L : \A v \in VarsOf(l) : s[v] \in Values
    BY <1>0
  <2> QED
    BY <2>1, RestrictedFacts
<1> HIDE DEF t
<1>3. \A l \in ToSet(m.body) : Holds(l, t, T)
  <2> TAKE l \in ToSet(m.body)
  <2>1. \A v \in VarsOf(l) : t[v] = s[v]
    BY <1>1, <1>2
  <2>2. Holds(l, s, T)
    BY <1>0
  <2> QED
    BY <2>1, <2>2, HoldsDependsOn
<1>4. Substituted(BoundArgs(m.guard), s) = Substituted(BoundArgs(m.guard), t)
  <2>1. \A v \in VarsOf(m.guard) : t[v] = s[v]
    BY <1>1, <1>2
  <2>2. ToSet(BoundArgs(m.guard)) \cap Variables \subseteq VarsOf(m.guard)
    BY <1>0, BoundVariables
  <2>3. \A v \in ToSet(BoundArgs(m.guard)) \cap Variables : s[v] = t[v]
    BY <2>1, <2>2
  <2> QED
    BY <2>3, SubstitutedDependsOn
<1>5. MatchesWith(m, t, G, T)
  BY <1>0, <1>2, <1>3, <1>4 DEF MatchesWith, L
<1> QED
  BY <1>1, <1>2, <1>5

\* A round of rules R finds nothing new.
NothingNew(R, G, T) ==
  /\ \A m \in R : \A k \in Keys : \A u : PassesOn(m, u, k, G, T) => u \in G[k]
  /\ \A m \in R : \A p \in Preds : \A u : DerivesFact(m, u, p, G, T) => u \in T[p]

\* T has every fact of F that the bindings G of the adorned predicates A ask for.
Derived(F, A, G, T) ==
  /\ \A p \in EDBPreds : F[p] \subseteq T[p]
  /\ \A k \in A : \A u \in F[k[1]] : Pick(u, k[2]) \in G[k] => u \in T[k[1]]

\* An instance of an adorned rule whose head is asked for.
AskedInstance(x, s, G) ==
  IsRule(x) /\ Assigns(s, x) /\ Pick(Substituted(x.head.args, s), x.head.bound) \in G[KeyOf(x.head)]

\* Once the atoms before atom j hold, it is asked for.
LEMMA AtomIsAsked ==
  ASSUME NEW R, NEW G, NEW T, NothingNew(R, G, T), NEW x, NEW s, AskedInstance(x, s, G),
         NEW j \in 1 .. Len(x.body), KeyOf(x.body[j]) \in Keys,
         LeftOut(x, j) => Pick(x.body[1].args, x.body[1].bound) = Pick(x.head.args, x.head.bound),
         ~LeftOut(x, j) => PassingRule(x, j) \in R,
         \A i \in 1 .. j - 1 : Holds(x.body[i], s, T)
  PROVE  Pick(Substituted(x.body[j].args, s), x.body[j].bound) \in G[KeyOf(x.body[j])]
<1> DEFINE l == x.body[j]
           m == PassingRule(x, j)
<1>1. /\ IsRule(x) /\ Assigns(s, x)
      /\ Pick(Substituted(x.head.args, s), x.head.bound) \in G[KeyOf(x.head)]
  BY DEF AskedInstance
<1>2. /\ IsLiteral(x.head) /\ x.head.bound \subseteq DOMAIN x.head.args
      /\ DOMAIN x.body = 1 .. Len(x.body) /\ Len(x.body) \in Nat
      /\ \A i \in DOMAIN x.body : IsLiteral(x.body[i]) /\ x.body[i].bound \subseteq DOMAIN x.body[i].args
  BY <1>1 DEF IsRule
<1>3. /\ \A i \in 1 .. Len(x.body) : \A v \in VarsOf(x.body[i]) : s[v] \in Values
      /\ \A v \in VarsOf(x.head) : s[v] \in Values
  BY <1>1, RuleVariables
<1>4. /\ Pick(Substituted(x.head.args, s), x.head.bound) = Substituted(BoundArgs(x.head), s)
      /\ Pick(Substituted(l.args, s), l.bound) = Substituted(BoundArgs(l), s)
  <2>1. IsLiteral(l) /\ \A v \in VarsOf(l) : s[v] \in Values
    BY <1>2, <1>3
  <2> HIDE DEF l
  <2> QED
    BY <1>2, <1>3, <2>1, BoundSubstituted
<1>5. CASE LeftOut(x, j)
  <2>1. j = 1 /\ KeyOf(x.body[1]) = KeyOf(x.head)
    BY <1>5 DEF LeftOut
  <2>2. BoundArgs(x.body[1]) = BoundArgs(x.head)
    BY <1>5 DEF BoundArgs
  <2> QED
    BY <1>1, <1>4, <2>1, <2>2
<1>6. CASE ~LeftOut(x, j)
  <2>1. m \in R /\ m.guard = x.head /\ m.head = l /\ m.body = SubSeq(x.body, 1, j - 1) /\ m.passes
    BY <1>6 DEF PassingRule
  <2>2. \A a \in ToSet(SubSeq(x.body, 1, j - 1)) : \E i \in 1 .. j - 1 : a = x.body[i]
    <3> DEFINE S == { x.body[i] : i \in DOMAIN x.body }
               p == SubSeq(x.body, 1, j - 1)
    <3>1. 1 \in Int /\ j - 1 \in Int /\ \A i \in 1 .. j - 1 : x.body[i] \in S
      BY <1>2
    <3> HIDE DEF S
    <3>2. /\ p \in Seq(S) /\ Len(p) = IF 1 <= j - 1 THEN j - 1 - 1 + 1 ELSE 0
          /\ \A i \in 1 .. j - 1 - 1 + 1 : p[i] = x.body[1 + i - 1]
      BY <3>1, SubSeqProperties
    <3>3. j - 1 \in Nat
      BY <1>2
    <3> HIDE DEF p
    <3>4. DOMAIN p = 1 .. j - 1 /\ \A i \in 1 .. j - 1 : p[i] = x.body[i]
      BY <3>2, <3>3
    <3>5. \A a \in ToSet(p) : \E i \in DOMAIN p : a = p[i]
      BY DEF ToSet
    <3> QED
      BY <3>4, <3>5 DEF p
  <2>3. \A i \in 1 .. j - 1 : i \in 1 .. Len(x.body)
    BY <1>2
  <2> HIDE DEF m, l
  <2>4. \A a \in {m.guard, m.head} \cup ToSet(m.body) : \A v \in VarsOf(a) : s[v] \in Values
    BY <1>3, <2>1, <2>2, <2>3 DEF l
  <2>5. Substituted(BoundArgs(m.guard), s) \in G[KeyOf(m.guard)]
    BY <1>1, <1>4, <2>1
  <2>6. \A a \in ToSet(m.body) : Holds(a, s, T)
    BY <2>1, <2>2
  <2>7. IsLiteral(m.guard) /\ m.guard.bound \subseteq DOMAIN m.guard.args
    BY <1>2, <2>1
  <2>8. PICK t : MatchesWith(m, t, G, T) /\ \A v \in VarsOf(m.head) : t[v] = s[v]
    <3>1. IsInstance(m, s, G, T)
      BY <2>4, <2>5, <2>6, <2>7 DEF IsInstance
    <3> QED
      BY <3>1, InstanceMatches
  <2>9. Substituted(BoundArgs(l), s) = Substituted(BoundArgs(l), t)
    <3>1. ToSet(BoundArgs(l)) \cap Variables \subseteq VarsOf(l)
      <4>1. IsLiteral(l) /\ l.bound \subseteq DOMAIN l.args
        BY <1>2 DEF l
      <4> QED
        BY <4>1, BoundVariables
    <3>2. \A v \in ToSet(BoundArgs(l)) \cap Variables : s[v] = t[v]
      BY <2>1, <2>8, <3>1
    <3> QED
      BY <3>2, SubstitutedDependsOn
  <2>10. PassesOn(m, Substituted(BoundArgs(l), s), KeyOf(l), G, T)
    BY <2>1, <2>8, <2>9 DEF PassesOn
  <2>11. Substituted(BoundArgs(l), s) \in G[KeyOf(l)]
    <3>1. KeyOf(l) \in Keys
      BY DEF l
    <3> QED
      BY <2>1, <2>10, <3>1 DEF NothingNew
  <2> QED
    BY <1>4, <2>11 DEF l
<1> QED
  BY <1>5, <1>6

\* When a round finds nothing new, an instance that is asked for has been derived.
LEMMA InstanceDerived ==
  ASSUME LeftOutPassed, NEW P \in Programs, NEW q \in Keys, NEW G, NEW T,
         NothingNew(MagicProgram(AdornedProgram(P, q)), G, T),
         NEW F, Derived(F, AdornedPredicates(P, q), G, T),
         NEW k \in AdornedPredicates(P, q), NEW r \in RulesOf(P, k), NEW x, x = AdornedRule[<<r, k[2]>>],
         NEW s, AskedInstance(x, s, G), \A j \in 1 .. Len(x.body) : Holds(x.body[j], s, F)
  PROVE  Substituted(x.head.args, s) \in T[x.head.pred]
<1> DEFINE A == AdornedPredicates(P, q)
           R == MagicProgram(AdornedProgram(P, q))
           n == Len(x.body)
           held == { j \in 0 .. n : \A i \in 1 .. j : Holds(x.body[i], s, T) }
           m == GuardedRule(x)
<1>1. k \in Keys /\ A \subseteq Keys /\ ClosedUnderCalls(P, A)
  BY AdornedPredicatesFacts
<1>2. /\ r \in AllRules /\ k[2] \in SUBSET DOMAIN r.head.args /\ r.head.pred = k[1]
      /\ Adorns(x, r, k[2]) /\ IsRule(x)
  BY <1>1, RulesOfFacts
<1>3. /\ IsLiteral(x.head) /\ x.head.bound \subseteq DOMAIN x.head.args /\ n \in Nat /\ DOMAIN x.body = 1 .. n
      /\ \A i \in DOMAIN x.body : IsLiteral(x.body[i])
  BY <1>2 DEF IsRule
<1>4. /\ Assigns(s, x) /\ Pick(Substituted(x.head.args, s), x.head.bound) \in G[KeyOf(x.head)]
  BY DEF AskedInstance
<1>5. x \in AdornedProgram(P, q)
  <2>1. IsAdornedRule(x, P, q)
    BY DEF IsAdornedRule
  <2> QED
    BY <2>1, AdornedProgramFacts
<1>6. /\ m \in R
      /\ \A j \in DOMAIN x.body : IsIDB(x.body[j]) /\ ~LeftOut(x, j) => PassingRule(x, j) \in R
  BY <1>5, MagicRules
<1>7. \A j \in DOMAIN x.body : LeftOut(x, j) => Pick(x.body[1].args, x.body[1].bound) = Pick(x.head.args, x.head.bound)
  <2>1. x.body # << >> /\ KeyOf(x.body[1]) = KeyOf(x.head) =>
          Pick(x.body[1].args, x.body[1].bound) = Pick(x.head.args, x.head.bound)
    BY <1>2 DEF LeftOutPassed
  <2> TAKE j \in DOMAIN x.body
  <2>2. x.body # << >>
    BY <1>3
  <2> QED
    BY <2>1, <2>2 DEF LeftOut
<1>8. \A j \in DOMAIN x.body : IsIDB(x.body[j]) => KeyOf(x.body[j]) \in A
  <2> TAKE j \in DOMAIN x.body
  <2> HAVE IsIDB(x.body[j])
  <2> DEFINE atoms(rule) == { l \in ToSet(AdornedRule[<<rule, k[2]>>].body) : IsIDB(l) }
  <2>1. x.body[j] \in atoms(r)
    BY DEF ToSet
  <2>2. KeysCalledBy(P, k) = UNION { { KeyOf(l) : l \in atoms(rule) } : rule \in RulesOf(P, k) }
    BY DEF KeysCalledBy
  <2> HIDE DEF atoms
  <2>3. KeyOf(x.body[j]) \in KeysCalledBy(P, k)
    BY <2>1, <2>2
  <2> QED
    BY <1>1, <2>3 DEF ClosedUnderCalls
<1> HIDE DEF A, R, m
<1>9. ASSUME NEW j \in 1 .. n, j - 1 \in held
      PROVE  j \in held
  <2> DEFINE l == x.body[j]
  <2>1. j \in 0 .. n /\ j \in DOMAIN x.body /\ l.pred \in Preds /\ \A i \in 1 .. j : i = j \/ i \in 1 .. j - 1
    BY <1>3 DEF IsLiteral
  <2>2. \A i \in 1 .. j - 1 : Holds(x.body[i], s, T)
    BY <1>9
  <2>3. Substituted(l.args, s) \in F[l.pred]
    BY DEF Holds
  <2>4. CASE l.pred \in EDBPreds
    <3>1. Substituted(l.args, s) \in T[l.pred]
      BY <2>3, <2>4 DEF Derived
    <3> QED
      BY <2>1, <2>2, <3>1 DEF Holds
  <2>5. CASE l.pred \notin EDBPreds
    <3>1. IsIDB(l) /\ KeyOf(l) \in A /\ KeyOf(l) \in Keys
      BY <1>1, <1>8, <2>1, <2>5 DEF IsIDB
    <3>2. KeyOf(l)[1] = l.pred /\ KeyOf(l)[2] = l.bound
      BY DEF KeyOf
    <3>3. Pick(Substituted(l.args, s), l.bound) \in G[KeyOf(l)]
      <4>1. NothingNew(R, G, T)
        BY DEF R
      <4>2. LeftOut(x, j) => Pick(x.body[1].args, x.body[1].bound) = Pick(x.head.args, x.head.bound)
        BY <1>7, <2>1
      <4>3. ~LeftOut(x, j) => PassingRule(x, j) \in R
        BY <1>6, <2>1, <3>1
      <4> QED
        BY <2>2, <3>1, <4>1, <4>2, <4>3, AtomIsAsked
    <3>4. Substituted(l.args, s) \in T[l.pred]
      <4> HIDE DEF l
      <4> QED
        BY <2>3, <3>1, <3>2, <3>3 DEF Derived, A
    <3> QED
      BY <2>1, <2>2, <3>4 DEF Holds
  <2> QED
    BY <2>4, <2>5
<1>10. \A j \in 1 .. n : Holds(x.body[j], s, T)
  <2>1. 0 \in held
    BY <1>3
  <2> HIDE DEF held, n
  <2>2. 0 .. n \subseteq held
    BY <1>3, <1>9, <2>1, UpTo
  <2>3. n \in held
    BY <1>3, <2>2
  <2> QED
    BY <2>3 DEF held, n
<1>11. m.guard = x.head /\ m.head = x.head /\ m.body = x.body /\ ~m.passes
  BY DEF m, GuardedRule
<1>12. IsInstance(m, s, G, T)
  <2>1. /\ \A j \in 1 .. n : \A v \in VarsOf(x.body[j]) : s[v] \in Values
        /\ \A v \in VarsOf(x.head) : s[v] \in Values
    BY <1>2, <1>4, RuleVariables
  <2>2. \A l \in ToSet(x.body) : \E j \in 1 .. n : l = x.body[j]
    BY <1>3 DEF ToSet
  <2>3. \A l \in ToSet(x.body) : Holds(l, s, T) /\ \A v \in VarsOf(l) : s[v] \in Values
    <3> TAKE l \in ToSet(x.body)
    <3>1. PICK j \in 1 .. n : l = x.body[j]
      BY <2>2
    <3> HIDE DEF n
    <3>2. Holds(x.body[j], s, T)
      BY <1>10
    <3> QED
      BY <2>1, <3>1, <3>2
  <2>4. Substituted(BoundArgs(x.head), s) \in G[KeyOf(x.head)]
    <3>1. Pick(Substituted(x.head.args, s), x.head.bound) = Substituted(BoundArgs(x.head), s)
      BY <1>3, <2>1, BoundSubstituted
    <3> QED
      BY <1>4, <3>1
  <2> QED
    BY <1>3, <1>11, <2>1, <2>3, <2>4 DEF IsInstance
<1>13. PICK t : MatchesWith(m, t, G, T) /\ \A v \in VarsOf(m.head) : t[v] = s[v]
  BY <1>12, InstanceMatches
<1>14. Substituted(x.head.args, s) = Substituted(x.head.args, t)
  <2>1. \A v \in ToSet(x.head.args) \cap Variables : s[v] = t[v]
    BY <1>11, <1>13 DEF VarsOf
  <2> QED
    BY <2>1, SubstitutedDependsOn
<1>15. DerivesFact(m, Substituted(x.head.args, s), x.head.pred, G, T)
  BY <1>11, <1>13, <1>14 DEF DerivesFact
<1>16. x.head.pred \in Preds
  BY <1>3 DEF IsLiteral
<1> QED
  BY <1>6, <1>15, <1>16 DEF NothingNew, R

\* The facts of a model M that no binding asks for or that have been derived.
NotMissing(M, D, A, G, T) ==
  [p \in Preds |->
     IF p \in EDBPreds THEN D[p]
     ELSE { u \in M[p] : \A k \in A : k[1] = p /\ Pick(u, k[2]) \in G[k] => u \in T[p] }]

LEMMA NotMissingDerived ==
  ASSUME NEW M, NEW D, NEW A \in SUBSET Keys, NEW G, NEW T, Below(Given(D), T)
  PROVE  Derived(NotMissing(M, D, A, G, T), A, G, T)
<1> DEFINE F == NotMissing(M, D, A, G, T)
<1>1. \A p \in EDBPreds : F[p] = D[p] /\ D[p] \subseteq T[p]
  <2> TAKE p \in EDBPreds
  <2>1. p \in Preds
    BY PredicateAssumption
  <2>2. Given(D)[p] = D[p]
    BY <2>1 DEF Given
  <2> QED
    BY <2>1, <2>2 DEF NotMissing, Below
<1>2. ASSUME NEW k \in A, NEW u \in F[k[1]], Pick(u, k[2]) \in G[k]
      PROVE  u \in T[k[1]]
  <2>1. k[1] \in Preds /\ k[1] \notin EDBPreds
    BY KeyFacts DEF IDBPreds
  <2>2. F[k[1]] = { w \in M[k[1]] : \A key \in A : key[1] = k[1] /\ Pick(w, key[2]) \in G[key] => w \in T[k[1]] }
    BY <2>1 DEF NotMissing
  <2> QED
    BY <1>2, <2>2
<1> QED
  BY <1>1, <1>2 DEF Derived

\* When a round finds nothing new, every fact of the program's meaning that is asked
\* for has been derived: what is not missing of it is a model of the program.
LEMMA RewrittenIsComplete ==
  ASSUME LeftOutPassed, NEW P \in Programs, NEW D \in Databases, NEW q \in Keys, NEW G, NEW T,
         Below(Given(D), T), NothingNew(MagicProgram(AdornedProgram(P, q)), G, T)
  PROVE  \A u \in LeastModel(P, D)[q[1]] : Pick(u, q[2]) \in G[q] => u \in T[q[1]]
<1> DEFINE M == LeastModel(P, D)
           A == AdornedPredicates(P, q)
           F == NotMissing(M, D, A, G, T)
<1>1. IsLeastModel(P, Given(D), M) /\ P \in SafeRules /\ Given(D) \in Interpretations
  BY LeastModelFacts, ProgramsAreSafe
<1> HIDE DEF M
<1>2. M \in Interpretations /\ Below(Given(D), M) /\ Consequences(P, M) = M
  BY <1>1 DEF IsLeastModel
<1>3. \A p \in EDBPreds : p \in Preds /\ Given(D)[p] = D[p]
  BY PredicateAssumption DEF Given
<1>4. A \in SUBSET Keys /\ q \in A
  BY AdornedPredicatesFacts
<1>5. Derived(F, A, G, T)
  <2> HIDE DEF A
  <2> QED
    BY <1>4, NotMissingDerived
<1>6. /\ F = [p \in Preds |-> F[p]]
      /\ \A p \in Preds : /\ p \in EDBPreds => F[p] = D[p]
                          /\ p \notin EDBPreds => F[p] = { u \in M[p] :
                               \A k \in A : k[1] = p /\ Pick(u, k[2]) \in G[k] => u \in T[p] }
  BY DEF NotMissing
<1> HIDE DEF F
<1>7. Below(F, M)
  <2>1. \A p \in EDBPreds : D[p] \subseteq M[p]
    BY <1>2, <1>3 DEF Below
  <2> QED
    BY <1>6, <2>1 DEF Below
<1>8. F \in Interpretations
  <2>1. \A p \in Preds : F[p] \in SUBSET AllTuples
    BY <1>2, <1>7 DEF Below, Interpretations, AllTuples
  <2> QED
    BY <1>6, <2>1 DEF Interpretations, AllTuples
<1>9. Below(Given(D), F)
  BY <1>6 DEF Below, Given
<1>10. ASSUME NEW p \in Preds, NEW t \in Consequences(P, F)[p]
       PROVE  t \in F[p]
  <2>1. CASE t \in F[p]
    BY <2>1
  <2>2. CASE \E r \in ToSet(P) : r.head.pred = p /\ \E s : DerivesWith(r, s, F, t)
    <3>1. PICK r \in ToSet(P) : r.head.pred = p /\ \E s : DerivesWith(r, s, F, t)
      BY <2>2
    <3>2. PICK s : DerivesWith(r, s, F, t)
      BY <3>1
    <3>3. p \in IDBPreds /\ p \notin EDBPreds
      BY <3>1, RuleAssumption DEF IDBPreds
    <3>4. t \in M[p]
      <4>1. Below(Consequences(P, F), Consequences(P, M))
        BY <1>1, <1>7, ConsequencesMonotone, SafeRulesBodies
      <4> QED
        BY <1>2, <1>10, <4>1 DEF Below
    <3>5. ASSUME NEW k \in A, k[1] = p, Pick(t, k[2]) \in G[k]
          PROVE  t \in T[p]
      <4> DEFINE x == AdornedRule[<<r, k[2]>>]
      <4>1. k \in Keys /\ r \in RulesOf(P, k)
        BY <1>4, <3>1, <3>5 DEF RulesOf
      <4>2. k[2] \in SUBSET DOMAIN r.head.args /\ Adorns(x, r, k[2]) /\ IsRule(x)
        BY <4>1, RulesOfFacts
      <4>3. x = AdornedRule[<<r, k[2]>>]
        OBVIOUS
      <4> HIDE DEF x
      <4>4. x.head = [pred |-> r.head.pred, args |-> r.head.args, bound |-> k[2]]
        BY <4>2 DEF Adorns
      <4>5. /\ x.head.pred = p /\ x.head.bound = k[2] /\ KeyOf(x.head) = k
        BY <3>1, <3>5, <4>1, <4>4, KeyFacts DEF KeyOf
      <4>6. /\ Assigns(s, x) /\ t = Substituted(x.head.args, s)
            /\ \A j \in 1 .. Len(x.body) : Holds(x.body[j], s, F)
        BY <3>1, <3>2, <4>2, InstanceOfExecutor
      <4>7. AskedInstance(x, s, G)
        BY <3>5, <4>2, <4>5, <4>6 DEF AskedInstance
      <4>8. Substituted(x.head.args, s) \in T[x.head.pred]
        BY <1>5, <4>1, <4>3, <4>6, <4>7, InstanceDerived
      <4> QED
        BY <4>5, <4>6, <4>8
    <3> QED
      BY <1>6, <3>3, <3>4, <3>5
  <2> QED
    BY <1>10, <2>1, <2>2, ConsequencesFacts
<1>11. Consequences(P, F) = F
  <2>1. Consequences(P, F) \in Interpretations /\ Below(F, Consequences(P, F))
    BY <1>1, <1>8, ConsequencesGrow
  <2>2. \A p \in Preds : Consequences(P, F)[p] = F[p]
    BY <1>10, <2>1 DEF Below
  <2> QED
    BY <1>8, <2>1, <2>2 DEF Interpretations
<1>12. Below(M, F)
  BY <1>1, <1>8, <1>9, <1>11 DEF IsLeastModel
<1>13. M[q[1]] \subseteq F[q[1]]
  BY <1>12, KeyFacts DEF Below
<1> HIDE DEF A
<1> QED
  BY <1>4, <1>5, <1>13 DEF Derived, M

-----------------------------------------------------------------------------
(* The invariant                                                           *)

\* The rewritten program is that of the query, the bindings of the query are in its
\* magic predicate, and what has been derived is implied.
RewrittenOK ==
  /\ rewritten = MagicProgram(AdornedProgram(program, QueryKey))
  /\ Seeds \subseteq magic[QueryKey]
  /\ Below(Given(db), facts) /\ Below(facts, Meaning)

MInv == IInv /\ DOMAIN magic = Keys /\ (rewritten # {} => RewrittenOK)

\* The query and what it is asked of.
LEMMA AskedOf ==
  ASSUME GivenOK
  PROVE  /\ program \in Programs /\ db \in Databases
         /\ QueryKey \in Keys /\ QueryKey[1] = query.pred /\ query.pred \in Preds
         /\ Meaning = LeastModel(program, db)
         /\ Below(Given(db), Meaning) /\ Consequences(program, Meaning) = Meaning
<1>1. program \in Programs /\ db \in Databases /\ query.pred \in Preds
  BY DEF GivenOK, IDBPreds
<1>2. Meaning = LeastModel(program, db)
  BY <1>1 DEF Meaning, Models
<1>3. IsLeastModel(program, Given(db), LeastModel(program, db))
  BY <1>1, LeastModelFacts
<1>4. QueryKey \in Keys
  BY SeedsFacts
<1>5. QueryKey[1] = query.pred
  BY DEF QueryKey
<1> QED
  BY <1>1, <1>2, <1>3, <1>4, <1>5 DEF IsLeastModel

\* A round loses nothing and derives only what is implied.
LEMMA RoundIsSound ==
  ASSUME GivenOK, RewrittenOK
  PROVE  LET next == MagicRound(rewritten, magic, facts) IN
         /\ DOMAIN next.magic = Keys /\ Seeds \subseteq next.magic[QueryKey]
         /\ Below(Given(db), next.facts) /\ Below(next.facts, Meaning)
<1> DEFINE next == MagicRound(rewritten, magic, facts)
<1>1. /\ DOMAIN next.magic = Keys
      /\ \A k \in Keys : \A u : u \in next.magic[k] <=> u \in magic[k] \/ \E m \in rewritten : PassesOn(m, u, k, magic, facts)
      /\ \A p \in Preds : \A u : u \in next.facts[p] <=> u \in facts[p] \/ \E m \in rewritten : DerivesFact(m, u, p, magic, facts)
  BY MagicRoundFacts
<1> HIDE DEF next
<1>2. /\ program \in Programs /\ QueryKey \in Keys /\ Consequences(program, Meaning) = Meaning
  BY AskedOf
<1>3. /\ rewritten = MagicProgram(AdornedProgram(program, QueryKey)) /\ Seeds \subseteq magic[QueryKey]
      /\ Below(Given(db), facts) /\ Below(facts, Meaning)
  BY DEF RewrittenOK
<1>4. Seeds \subseteq next.magic[QueryKey]
  BY <1>1, <1>2, <1>3
<1>5. Below(Given(db), next.facts)
  BY <1>1, <1>3 DEF Below
<1>6. ASSUME NEW p \in Preds, NEW u, NEW m \in rewritten, DerivesFact(m, u, p, magic, facts)
      PROVE  u \in Meaning[p]
  <2>1. ~m.passes /\ m.head.pred = p
    BY <1>6 DEF DerivesFact
  <2>2. PICK x \in AdornedProgram(program, QueryKey) : m = GuardedRule(x)
    <3>1. m \in MagicProgram(AdornedProgram(program, QueryKey))
      BY <1>3
    <3> QED
      BY <2>1, <3>1, MagicRules
  <2>3. PICK k \in AdornedPredicates(program, QueryKey) :
          \E r \in RulesOf(program, k) : x = AdornedRule[<<r, k[2]>>]
    <3>1. IsAdornedRule(x, program, QueryKey)
      BY AdornedProgramFacts
    <3> QED
      BY <3>1 DEF IsAdornedRule
  <2>4. PICK r \in RulesOf(program, k) : x = AdornedRule[<<r, k[2]>>]
    BY <2>3
  <2>5. k \in Keys
    BY <1>2, AdornedPredicatesFacts
  <2>6. PICK s : MatchesWith(m, s, magic, facts) /\ u = Substituted(m.head.args, s)
    BY <1>6 DEF DerivesFact
  <2>7. m.head = x.head
    BY <2>2 DEF GuardedRule
  <2>8. MatchesWith(GuardedRule(x), s, magic, facts)
    BY <2>2, <2>6
  <2>9. Substituted(x.head.args, s) \in Meaning[x.head.pred]
    BY <1>2, <1>3, <2>4, <2>5, <2>8, GuardedIsSound
  <2> QED
    BY <2>1, <2>6, <2>7, <2>9
<1>7. Below(next.facts, Meaning)
  <2> SUFFICES ASSUME NEW p \in Preds, NEW u \in next.facts[p] PROVE u \in Meaning[p]
    BY DEF Below
  <2>1. u \in facts[p] \/ \E m \in rewritten : DerivesFact(m, u, p, magic, facts)
    BY <1>1
  <2>2. u \in facts[p] => u \in Meaning[p]
    BY <1>3 DEF Below
  <2> QED
    BY <1>6, <2>1, <2>2
<1> QED
  BY <1>1, <1>4, <1>5, <1>7 DEF next

\* A step of either mode is one of the top-down evaluator, or leaves it alone.
LEMMA ModesStep ==
  ASSUME [ModesNext]_<<vars, magicVars>>
  PROVE  [Next]_vars
BY DEF ModesNext, TopDown, Rewrite, Materialize

\* What the invariant of the rewriting is about.
LEMMA AskedUnchanged ==
  ASSUME UNCHANGED vars
  PROVE  UNCHANGED <<program, db, Meaning, QueryKey, Seeds>>
<1>1. program' = program /\ db' = db /\ query' = query
  BY DEF vars, given
<1>2. QueryKey' = QueryKey
  BY <1>1 DEF QueryKey
<1>3. Seeds' = Seeds
  BY <1>1, <1>2 DEF Seeds
<1>4. Meaning' = Meaning
  BY <1>1 DEF Meaning
<1> QED
  BY <1>1, <1>2, <1>3, <1>4

LEMMA RewriteOK ==
  ASSUME MInv, Rewrite
  PROVE  DOMAIN magic' = Keys /\ RewrittenOK'
<1>1. GivenOK /\ DOMAIN magic = Keys
  BY DEF MInv, IInv
<1>2. QueryKey \in Keys /\ Below(Given(db), Meaning)
  BY <1>1, AskedOf
<1>3. /\ rewritten' = MagicProgram(AdornedProgram(program, QueryKey))
      /\ magic' = [magic EXCEPT ![QueryKey] = Seeds]
      /\ facts' = Given(db)
      /\ UNCHANGED vars
  BY DEF Rewrite, Given
<1>4. UNCHANGED <<program, db, Meaning, QueryKey, Seeds>>
  BY <1>3, AskedUnchanged
<1>5. DOMAIN magic' = Keys /\ magic'[QueryKey] = Seeds
  BY <1>1, <1>2, <1>3
<1>6. Below(Given(db), facts')
  BY <1>3 DEF Below
<1>7. Below(facts', Meaning)
  BY <1>2, <1>3
<1> QED
  BY <1>3, <1>4, <1>5, <1>6, <1>7 DEF RewrittenOK

LEMMA MaterializeOK ==
  ASSUME MInv, Materialize
  PROVE  DOMAIN magic' = Keys /\ RewrittenOK'
<1> DEFINE next == MagicRound(rewritten, magic, facts)
<1>1. GivenOK /\ RewrittenOK
  BY DEF MInv, IInv, Materialize
<1>2. /\ DOMAIN next.magic = Keys /\ Seeds \subseteq next.magic[QueryKey]
      /\ Below(Given(db), next.facts) /\ Below(next.facts, Meaning)
  BY <1>1, RoundIsSound
<1>3. magic' = next.magic /\ facts' = next.facts /\ UNCHANGED vars /\ rewritten' = rewritten
  BY DEF Materialize
<1> HIDE DEF next
<1>4. UNCHANGED <<program, db, Meaning, QueryKey, Seeds>>
  BY <1>3, AskedUnchanged
<1>5. rewritten = MagicProgram(AdornedProgram(program, QueryKey))
  BY <1>1 DEF RewrittenOK
<1> QED
  BY <1>2, <1>3, <1>4, <1>5 DEF RewrittenOK

LEMMA ModesInductive ==
  ASSUME MInv, [ModesNext]_<<vars, magicVars>>
  PROVE  MInv'
<1>1. IInv'
  BY ModesStep, Inductive DEF MInv
<1>2. CASE UNCHANGED <<vars, magicVars>>
  <2>1. rewritten' = rewritten /\ magic' = magic /\ facts' = facts
    BY <1>2 DEF magicVars
  <2>2. UNCHANGED <<program, db, Meaning, QueryKey, Seeds>>
    BY <1>2, AskedUnchanged
  <2>3. RewrittenOK => RewrittenOK'
    BY <2>1, <2>2 DEF RewrittenOK
  <2> QED
    BY <1>1, <2>1, <2>3 DEF MInv
<1>3. CASE TopDown
  <2>1. rewritten' = {} /\ magic' = magic
    BY <1>3 DEF TopDown, magicVars
  <2> QED
    BY <1>1, <2>1 DEF MInv
<1>4. CASE Rewrite
  BY <1>1, <1>4, RewriteOK DEF MInv
<1>5. CASE Materialize
  BY <1>1, <1>5, MaterializeOK DEF MInv
<1> QED
  BY <1>2, <1>3, <1>4, <1>5 DEF ModesNext

\* When a round adds nothing, no rule has anything new.
LEMMA RoundAddsNothing ==
  ASSUME NEW R, NEW G, NEW T, MagicRound(R, G, T) = [magic |-> G, facts |-> T]
  PROVE  NothingNew(R, G, T)
<1> DEFINE next == MagicRound(R, G, T)
<1>1. /\ \A k \in Keys : \A u : u \in next.magic[k] <=> u \in G[k] \/ \E m \in R : PassesOn(m, u, k, G, T)
      /\ \A p \in Preds : \A u : u \in next.facts[p] <=> u \in T[p] \/ \E m \in R : DerivesFact(m, u, p, G, T)
  BY MagicRoundFacts
<1>2. next.magic = G /\ next.facts = T
  OBVIOUS
<1> HIDE DEF next
<1>3. \A m \in R : \A k \in Keys : \A u : PassesOn(m, u, k, G, T) => u \in G[k]
  BY <1>1, <1>2
<1>4. \A m \in R : \A p \in Preds : \A u : DerivesFact(m, u, p, G, T) => u \in T[p]
  BY <1>1, <1>2
<1> QED
  BY <1>3, <1>4 DEF NothingNew

LEMMA InvariantExact ==
  ASSUME LeftOutPassed, MInv
  PROVE  MagicExact
<1> DEFINE next == MagicRound(rewritten, magic, facts)
           done == next = [magic |-> magic, facts |-> facts]
           first == \A p \in IDBPreds : facts[p] \subseteq Meaning[p]
           second == Filtered(Meaning[query.pred]) \subseteq facts[query.pred]
<1> SUFFICES ASSUME rewritten # {} PROVE first /\ (done => second)
  BY DEF MagicExact
<1>1. GivenOK /\ RewrittenOK
  BY DEF MInv, IInv
<1>2. /\ program \in Programs /\ db \in Databases /\ QueryKey \in Keys /\ QueryKey[1] = query.pred
      /\ Meaning = LeastModel(program, db)
  BY <1>1, AskedOf
<1>3. /\ rewritten = MagicProgram(AdornedProgram(program, QueryKey)) /\ Seeds \subseteq magic[QueryKey]
      /\ Below(Given(db), facts) /\ Below(facts, Meaning)
  BY <1>1 DEF RewrittenOK
<1>4. first
  BY <1>3 DEF Below, IDBPreds
<1>5. ASSUME done, NEW t \in Filtered(Meaning[query.pred])
      PROVE  t \in facts[query.pred]
  <2>1. NothingNew(MagicProgram(AdornedProgram(program, QueryKey)), magic, facts)
    BY <1>3, <1>5, RoundAddsNothing
  <2>2. \A u \in LeastModel(program, db)[QueryKey[1]] :
          Pick(u, QueryKey[2]) \in magic[QueryKey] => u \in facts[QueryKey[1]]
    BY <1>2, <1>3, <2>1, RewrittenIsComplete
  <2>3. Pick(t, QueryKey[2]) \in Seeds /\ t \in Meaning[QueryKey[1]]
    BY <1>1, <1>5, FilteredIsAsked
  <2> QED
    BY <1>2, <1>3, <2>2, <2>3
<1> HIDE DEF next
<1> QED
  BY <1>4, <1>5

-----------------------------------------------------------------------------
(* The theorems                                                            *)

\* Magic sets (Wizard::doMagic) answer a query as the materialized program does, for
\* every program of which doMagic leaves out only rules that would pass on the bindings
\* of their own guard: what the rewritten program derives follows from the program, and
\* when its materialization ends, it has every answer.
THEOREM MagicCorrect ==
  ASSUME LeftOutPassed
  PROVE  ModesSpec => []MagicExact
<1>1. ModesInit => MInv
  <2> SUFFICES ASSUME ModesInit PROVE MInv
    OBVIOUS
  <2>1. IInv
    BY InitOK DEF ModesInit
  <2>2. rewritten = {} /\ DOMAIN magic = Keys
    BY DEF ModesInit
  <2> QED
    BY <2>1, <2>2 DEF MInv
<1>2. MInv /\ [ModesNext]_<<vars, magicVars>> => MInv'
  BY ModesInductive
<1>3. MInv => MagicExact
  BY InvariantExact
<1> QED
  BY <1>1, <1>2, <1>3, PTL DEF ModesSpec

\* Which mode is chosen does not show in the answers: under both theorems' assumptions,
\* what the evaluator returns is what the materialized program has, and so is what the
\* rewritten program ends with.
THEOREM EitherMode ==
  ASSUME RepeatsAreBound, RepeatsInPlace, LeftOutPassed
  PROVE  ModesSpec => [](TopDownExact /\ MagicExact)
<1>1. Spec => []TopDownExact
  BY Completeness
<1>2. ModesSpec => Spec
  <2>1. ModesInit => Init
    BY DEF ModesInit
  <2>2. [ModesNext]_<<vars, magicVars>> => [Next]_vars
    BY ModesStep
  <2> QED
    BY <2>1, <2>2, PTL DEF ModesSpec, Spec
<1>3. ModesSpec => []MagicExact
  BY MagicCorrect
<1> QED
  BY <1>1, <1>2, <1>3, PTL

=============================================================================
