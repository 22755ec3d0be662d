---------------------- MODULE SemiNaiverOrdered_proofs ----------------------
(***************************************************************************)
(* Proofs about the scheduler, for every program, graph of reliances and   *)
(* bound.  IInv is the inductive invariant; the properties of              *)
(* SemiNaiverOrdered and the refinement of StratifiedChase follow from it. *)
(***************************************************************************)
EXTENDS OrderedImplements, FiniteSetTheorems, TLAPS

-----------------------------------------------------------------------------
(* Reachability and components, for every set of edges and of nodes        *)

LEMMA PredecessorsDef ==
  ASSUME NEW E, NEW A, NEW B, E \subseteq A \X B, NEW n, NEW m
  PROVE  /\ m \in Predecessors(E, n) <=> <<m, n>> \in E
         /\ m \in Successors(E, n) <=> <<n, m>> \in E
  BY DEF Predecessors, Successors

\* A node reaches itself.
LEMMA ReachRefl ==
  ASSUME NEW E, NEW N, NEW a \in N
  PROVE  a \in Reachable(E, N, a)
  BY DEF Reachable

\* A node reaches what a node it reaches leads to by an edge.
LEMMA ReachStep ==
  ASSUME NEW E, NEW N, NEW a \in N, NEW b \in Reachable(E, N, a),
         NEW c \in N, <<b, c>> \in E
  PROVE  c \in Reachable(E, N, a)
<1>1. b \in N
  BY DEF Reachable
<1>2. SUFFICES ASSUME NEW S \in SUBSET N, a \in S, Closed(Within(E, N), S)
               PROVE  c \in S
  BY DEF Reachable
<1>3. b \in S
  BY <1>2 DEF Reachable
<1>4. <<b, c>> \in Within(E, N)
  BY <1>1 DEF Within
<1> QED
  BY <1>2, <1>3, <1>4 DEF Closed

LEMMA ReachTrans ==
  ASSUME NEW E, NEW N, NEW a \in N, NEW b \in Reachable(E, N, a),
         NEW c \in Reachable(E, N, b)
  PROVE  c \in Reachable(E, N, a)
<1>1. c \in N
  BY DEF Reachable
<1>2. SUFFICES ASSUME NEW S \in SUBSET N, a \in S, Closed(Within(E, N), S)
               PROVE  c \in S
  BY <1>1 DEF Reachable
<1>3. b \in S
  BY <1>2 DEF Reachable
<1> QED
  BY <1>2, <1>3 DEF Reachable

\* More edges and more nodes reach more.
LEMMA ReachMono ==
  ASSUME NEW E, NEW F, E \subseteq F, NEW N, NEW M, N \subseteq M, NEW a \in N
  PROVE  Reachable(E, N, a) \subseteq Reachable(F, M, a)
<1>1. SUFFICES ASSUME NEW b \in Reachable(E, N, a),
                      NEW S \in SUBSET M, a \in S, Closed(Within(F, M), S)
               PROVE  b \in S
  BY DEF Reachable
<1>2. S \cap N \in SUBSET N /\ a \in S \cap N
  BY <1>1
<1>3. Closed(Within(E, N), S \cap N)
  BY <1>1 DEF Closed, Within
<1> QED
  BY <1>2, <1>3 DEF Reachable

\* Components are what they should be: the classes of an equivalence.
LEMMA ComponentRefl ==
  ASSUME NEW E, NEW N, NEW a \in N
  PROVE  a \in Component(E, N, a) /\ Component(E, N, a) \subseteq N
  BY ReachRefl DEF Component, Reachable

LEMMA ComponentSame ==
  ASSUME NEW E, NEW N, NEW a \in N, NEW b \in Component(E, N, a)
  PROVE  Component(E, N, b) = Component(E, N, a)
<1>1. b \in N /\ b \in Reachable(E, N, a) /\ a \in Reachable(E, N, b)
  BY DEF Component, Reachable
<1>2. ASSUME NEW c \in Component(E, N, b)
      PROVE  c \in Component(E, N, a)
  <2>1. c \in N /\ c \in Reachable(E, N, b) /\ b \in Reachable(E, N, c)
    BY DEF Component, Reachable
  <2>2. c \in Reachable(E, N, a) /\ a \in Reachable(E, N, c)
    BY <1>1, <2>1, ReachTrans
  <2> QED
    BY <2>2 DEF Component
<1>3. ASSUME NEW c \in Component(E, N, a)
      PROVE  c \in Component(E, N, b)
  <2>1. c \in N /\ c \in Reachable(E, N, a) /\ a \in Reachable(E, N, c)
    BY DEF Component, Reachable
  <2>2. c \in Reachable(E, N, b) /\ b \in Reachable(E, N, c)
    BY <1>1, <2>1, ReachTrans
  <2> QED
    BY <2>2 DEF Component
<1> QED
  BY <1>2, <1>3

LEMMA ComponentMono ==
  ASSUME NEW E, NEW F, E \subseteq F, NEW N, NEW M, N \subseteq M, NEW a \in N
  PROVE  Component(E, N, a) \subseteq Component(F, M, a)
<1>1. SUFFICES ASSUME NEW b \in Component(E, N, a)
               PROVE  b \in Component(F, M, a)
  OBVIOUS
<1>2. b \in N /\ b \in Reachable(E, N, a) /\ a \in Reachable(E, N, b)
  BY DEF Component, Reachable
<1> QED
  BY <1>2, ReachMono DEF Component

\* If all of a's component of the whole graph is active, its members still reach
\* one another: paths inside a component never leave it.
LEMMA ReachInside ==
  ASSUME NEW E, NEW F, E \subseteq F, NEW R, NEW N, N \subseteq R, NEW a \in R,
         E \subseteq R \X R, Component(E, R, a) \subseteq N,
         NEW b \in Component(E, R, a)
  PROVE  b \in Reachable(F, N, a)
<1> DEFINE C == Component(E, R, a)
           away == { x \in R : a \notin Reachable(E, R, x) }
<1>1. a \in C /\ b \in N
  BY ComponentRefl
<1>2. SUFFICES ASSUME NEW S \in SUBSET N, a \in S, Closed(Within(F, N), S)
               PROVE  b \in S
  BY <1>1 DEF Reachable
<1> DEFINE T == (S \cap C) \cup away
<1>3. T \in SUBSET R /\ a \in T
  BY <1>1, <1>2
<1>4. Closed(Within(E, R), T)
  <2>1. SUFFICES ASSUME NEW x \in R, NEW y \in R, <<x, y>> \in E, x \in T
                 PROVE  y \in T
    BY DEF Closed, Within
  <2>2. y \in Reachable(E, R, x)
    BY <2>1, ReachRefl, ReachStep
  <2>3. CASE x \in away
    BY <2>2, <2>3, ReachTrans
  <2>4. CASE x \in S \cap C
    <3>1. x \in Reachable(E, R, a)
      BY <2>4 DEF Component
    <3>2. y \in Reachable(E, R, a)
      BY <2>2, <3>1, ReachTrans
    <3>3. CASE a \in Reachable(E, R, y)
      <4>1. y \in C
        BY <3>2, <3>3 DEF Component
      <4>2. <<x, y>> \in Within(F, N)
        BY <2>1, <2>4, <4>1 DEF Within
      <4> QED
        BY <1>2, <2>4, <4>1, <4>2 DEF Closed
    <3>4. CASE a \notin Reachable(E, R, y)
      BY <3>4
    <3> QED
      BY <3>3, <3>4
  <2> QED
    BY <2>1, <2>3, <2>4
<1>5. b \in T
  <2>1. b \in Reachable(E, R, a)
    BY DEF Component
  <2> QED
    BY <2>1, <1>3, <1>4 DEF Reachable
<1>6. a \in Reachable(E, R, b)
  BY DEF Component
<1> QED
  BY <1>5, <1>6

LEMMA ComponentInside ==
  ASSUME NEW E, NEW F, E \subseteq F, NEW R, NEW N, N \subseteq R, NEW a \in R,
         E \subseteq R \X R, Component(E, R, a) \subseteq N
  PROVE  Component(E, R, a) \subseteq Component(F, N, a)
<1>1. SUFFICES ASSUME NEW b \in Component(E, R, a)
               PROVE  b \in Component(F, N, a)
  OBVIOUS
<1>2. b \in R /\ a \in Component(E, R, a)
  BY ComponentRefl
<1>3. Component(E, R, b) = Component(E, R, a)
  BY ComponentSame
<1>4. b \in Reachable(F, N, a)
  BY ReachInside
<1>5. a \in Reachable(F, N, b)
  BY <1>2, <1>3, ReachInside
<1> QED
  BY <1>4, <1>5 DEF Component

\* A finite graph with a node has a component no other node leads into: a node
\* that is reached from as few nodes as possible lies in one.
LEMMA SourceExists ==
  ASSUME NEW R, NEW E, E \subseteq R \X R, NEW N, IsFiniteSet(N), N # {}
  PROVE  \E a \in N : Component(E, N, a) \in SourceComponents(E, N)
<1> DEFINE origins(a) == { x \in N : a \in Reachable(E, N, x) }
           T == { origins(a) : a \in N }
<1>1. IsWellFoundedOn(StrictSubsetOrdering(N), SUBSET N)
  BY FS_StrictSubsetOrderingWellFounded, FS_FiniteSubsetsOfFinite
<1>2. T \subseteq SUBSET N /\ T # {}
  OBVIOUS
<1>3. PICK X \in T : \A Y \in T : ~ (<<Y, X>> \in StrictSubsetOrdering(N))
  <2> HIDE DEF T
  <2> QED
    BY <1>1, <1>2, WFMin
<1>4. PICK a \in N : X = origins(a)
  BY <1>3
<1>5. ASSUME NEW e \in E, e[2] \in Component(E, N, a), e[1] \in N
      PROVE  e[1] \in Component(E, N, a)
  <2> DEFINE x == e[1]
             y == e[2]
  <2>0. <<x, y>> \in E
    OBVIOUS
  <2>1. y \in N /\ a \in Reachable(E, N, y)
    BY <1>5 DEF Component, Reachable
  <2>2. a \in Reachable(E, N, x)
    BY <1>5, <2>0, <2>1, ReachRefl, ReachStep, ReachTrans
  <2>3. origins(x) \subseteq origins(a)
    BY <1>4, <1>5, <2>2, ReachTrans
  <2>4. origins(x) = origins(a)
    <3>1. origins(x) \in T /\ origins(x) \in SUBSET N /\ X \in SUBSET N
      BY <1>2, <1>3, <1>5
    <3>2. ~ (<<origins(x), X>> \in StrictSubsetOrdering(N))
      BY <1>3, <3>1
    <3> HIDE DEF origins, T
    <3> QED
      BY <1>4, <2>3, <3>1, <3>2 DEF StrictSubsetOrdering
  <2>5. a \in origins(a)
    BY <1>4, ReachRefl
  <2>6. x \in Reachable(E, N, a)
    BY <2>4, <2>5
  <2> QED
    BY <2>2, <2>6 DEF Component
<1> QED
  BY <1>4, <1>5 DEF SourceComponents, Components

-----------------------------------------------------------------------------
(* Positive groups                                                         *)

\* The positive groups partition the rules; there are finitely many.
LEMMA GroupFacts ==
  /\ IsFiniteSet(Groups)
  /\ \A g \in Groups : g \subseteq Rules /\ IsFiniteSet(g) /\ g # {}
  /\ \A r \in Rules : GroupOf(r) \in Groups /\ r \in GroupOf(r)
  /\ \A g \in Groups : \A r \in g : GroupOf(r) = g
<1>1. IsFiniteSet(Groups)
  <2> DEFINE f == [r \in Rules |-> Component(Pos, Rules, r)]
  <2>1. f \in Surjection(Rules, Groups)
    BY DEF Surjection, Groups, Components
  <2> QED
    BY <2>1, FS_Surjection, RulesAssumption
<1>2. \A r \in Rules : GroupOf(r) \in Groups /\ r \in GroupOf(r) /\ GroupOf(r) \subseteq Rules
  BY ComponentRefl DEF GroupOf, Groups, Components
<1>3. \A g \in Groups : \E r \in Rules : g = GroupOf(r)
  BY DEF GroupOf, Groups, Components
<1>4. \A g \in Groups : g \subseteq Rules /\ g # {}
  BY <1>2, <1>3
<1>5. \A g \in Groups : IsFiniteSet(g)
  BY <1>4, RulesAssumption, FS_Subset
<1>6. \A g \in Groups : \A r \in g : GroupOf(r) = g
  BY <1>3, ComponentSame DEF GroupOf
<1> QED
  BY <1>1, <1>2, <1>4, <1>5, <1>6

LEMMA GroupSuccessorsFacts ==
  /\ \A g \in Groups : GroupSuccessors(g) \subseteq Groups \ {g}
  /\ \A g \in Groups : \A r \in g : \A s \in Successors(Pos, r) :
       s \in Rules /\ (s \in g \/ GroupOf(s) \in GroupSuccessors(g))
<1>1. \A r \in Rules : Successors(Pos, r) \subseteq Rules
  BY RulesAssumption DEF Successors
<1>2. ASSUME NEW g \in Groups
      PROVE  GroupSuccessors(g) \subseteq Groups \ {g}
  BY <1>1, GroupFacts DEF GroupSuccessors
<1>3. ASSUME NEW g \in Groups, NEW r \in g, NEW s \in Successors(Pos, r)
      PROVE  s \in Rules /\ (s \in g \/ GroupOf(s) \in GroupSuccessors(g))
  <2>1. s \in Rules
    BY <1>1, GroupFacts
  <2>2. GroupOf(s) \in { GroupOf(t) : t \in UNION { Successors(Pos, q) : q \in g } }
    OBVIOUS
  <2>3. GroupOf(s) = g => s \in g
    BY <2>1, GroupFacts
  <2> QED
    BY <2>1, <2>2, <2>3 DEF GroupSuccessors
<1> QED
  BY <1>2, <1>3

LEMMA RestrainersFinite ==
  \A r \in Rules : Restrainers(r) \subseteq Rules /\ IsFiniteSet(Restrainers(r))
<1>1. \A r \in Rules : Restrainers(r) \subseteq Rules
  BY RulesAssumption DEF Restrainers, Predecessors
<1> QED
  BY <1>1, RulesAssumption, FS_Subset

-----------------------------------------------------------------------------
(* The inductive invariant                                                 *)

\* The graph of positive groups: who is active, whom a removed group still has
\* to notify, and why a removed group stays inactive.
GraphInv ==
  /\ \A r \in Rules : r \in activeRules <=> GroupOf(r) \notin removed
  /\ \A g \in Groups : todo[g] \subseteq GroupSuccessors(g)
  /\ \A g \in Groups \ removed : todo[g] = GroupSuccessors(g)
  /\ \A g \in removed : numActivePredecessors[g] = 0 /\ numTriggeredRules[g] = 0
  /\ \A i \in 1 .. Len(stack) : stack[i] \in removed
  /\ pc # "sweep" => stack = << >>
  /\ pc = "done" => numActiveGroups = 0

\* The group being executed: active, without active predecessor group, and only
\* rules of their own component of the union graph may still precede its rules.
ExecuteInv ==
  pc = "execute" =>
    /\ current \notin removed
    /\ numActivePredecessors[current] = 0
    /\ \A r \in current :
         Predecessors(Union, r) \cap activeRules \subseteq Component(Union, Rules, r)

TriggerInv ==
  /\ timeout # "expired" => pending \subseteq triggered
  /\ ~ HasTimeout => timeout = "off"

IInv == TypeOK /\ CountersExact /\ GraphInv /\ ExecuteInv /\ TriggerInv /\ RestrainersFirst

-----------------------------------------------------------------------------
LEMMA InitIInv == Init => IInv
<1> SUFFICES ASSUME Init PROVE IInv
  OBVIOUS
<1>1. \A g \in Groups : IsFiniteSet(EDBRules \cap g) /\ IsFiniteSet(GroupPredecessors(g))
  BY GroupFacts, FS_Intersection, FS_Subset DEF GroupPredecessors
<1>2. TypeOK
  <2>1. numTriggeredRules \in [Groups -> Nat] /\ numActivePredecessors \in [Groups -> Nat]
    BY <1>1, FS_CardinalityType DEF Init
  <2>2. numRestrains \in [Rules -> Nat] /\ numActiveGroups \in Nat
    BY RestrainersFinite, GroupFacts, FS_CardinalityType DEF Init
  <2>3. todo \in [Groups -> SUBSET Groups]
    BY GroupSuccessorsFacts DEF Init
  <2> QED
    BY <2>1, <2>2, <2>3, RulesAssumption DEF Init, TypeOK
<1>3. CountersExact
  <2>1. \A g \in Groups : GroupPredecessors(g) = { p \in Groups : g \in todo[p] }
    BY DEF Init, GroupPredecessors
  <2>2. \A r \in Rules : Restrainers(r) \cap activeRules = Restrainers(r)
    BY RestrainersFinite DEF Init
  <2>3. Groups \ removed = Groups
    BY DEF Init
  <2> QED
    BY <2>1, <2>2, <2>3 DEF Init, CountersExact
<1>4. GraphInv
  BY DEF Init, GraphInv
<1>5. ExecuteInv /\ RestrainersFirst
  BY DEF Init, ExecuteInv, RestrainersFirst
<1>6. TriggerInv
  BY BoundAssumption DEF Init, TriggerInv
<1> QED
  BY <1>2, <1>3, <1>4, <1>5, <1>6 DEF IInv

\* One call of updateGraph, on whatever predecessor counts it finds, keeps the
\* incremental counters exact and removes at most that group.
LEMMA EnterStep ==
  ASSUME IInv, NEW g \in Groups, Enter(g, numActivePredecessors'),
         numActivePredecessors' \in [Groups -> Nat]
  PROVE  /\ removed' \subseteq Groups /\ activeRules' \subseteq activeRules
         /\ removed \subseteq removed'
         /\ numActiveGroups' \in Nat /\ numRestrains' \in [Rules -> Nat]
         /\ numActiveGroups' = Cardinality(Groups \ removed')
         /\ \A r \in Rules : numRestrains'[r] = Cardinality(Restrainers(r) \cap activeRules')
         /\ \A r \in Rules : r \in activeRules' <=> GroupOf(r) \notin removed'
         /\ stack' \in Seq(Groups)
         /\ \A i \in 1 .. Len(stack') : stack'[i] \in removed'
         /\ \A h \in removed' \ removed :
              h = g /\ numActivePredecessors'[h] = 0 /\ numTriggeredRules[h] = 0
<1> USE DEF IInv
<1>1. CASE g \in removed \/ numActivePredecessors'[g] > 0 \/ numTriggeredRules[g] > 0
  <2>1. UNCHANGED <<removed, activeRules, numActiveGroups, numRestrains, stack>>
    BY <1>1 DEF Enter
  <2>2. removed \subseteq Groups /\ numActiveGroups \in Nat /\ numRestrains \in [Rules -> Nat]
        /\ stack \in Seq(Groups)
    BY DEF TypeOK
  <2> QED
    BY <2>1, <2>2 DEF CountersExact, GraphInv
<1>2. CASE ~(g \in removed \/ numActivePredecessors'[g] > 0 \/ numTriggeredRules[g] > 0)
  <2>1. /\ numActiveGroups' = numActiveGroups - 1
        /\ numRestrains' = [r \in Rules |->
                              numRestrains[r] - Cardinality(Restrainers(r) \cap g)]
        /\ removed' = removed \cup {g}
        /\ activeRules' = activeRules \ g
        /\ stack' = <<g>> \o stack
    BY <1>2 DEF Enter
  <2>2. numActivePredecessors'[g] = 0 /\ numTriggeredRules[g] = 0
    BY <1>2 DEF TypeOK
  <2>3. numActiveGroups' = Cardinality(Groups \ removed') /\ numActiveGroups' \in Nat
    <3>1. Groups \ removed' = (Groups \ removed) \ {g} /\ g \in Groups \ removed
      BY <1>2, <2>1
    <3>2. IsFiniteSet(Groups \ removed)
      BY GroupFacts, FS_Difference
    <3>3. Cardinality(Groups \ removed') = Cardinality(Groups \ removed) - 1
      BY <3>1, <3>2, FS_RemoveElement
    <3>4. Cardinality(Groups \ removed') \in Nat
      BY <3>1, <3>2, FS_RemoveElement, FS_CardinalityType
    <3> QED
      BY <2>1, <3>3, <3>4 DEF CountersExact
  <2>4. g \subseteq activeRules
    BY <1>2, GroupFacts DEF GraphInv
  <2>5. ASSUME NEW r \in Rules
        PROVE  /\ numRestrains'[r] = Cardinality(Restrainers(r) \cap activeRules')
               /\ numRestrains'[r] \in Nat
    <3> DEFINE A == Restrainers(r) \cap activeRules
    <3>1. IsFiniteSet(A)
      BY RestrainersFinite, FS_Intersection
    <3>2. A \cap g = Restrainers(r) \cap g /\ A \ g = Restrainers(r) \cap activeRules'
      BY <2>1, <2>4
    <3>3. Cardinality(A \ g) = Cardinality(A) - Cardinality(A \cap g) /\ IsFiniteSet(A \ g)
      BY <3>1, FS_Difference
    <3>4. Cardinality(A \ g) \in Nat
      BY <3>3, FS_CardinalityType
    <3>5. numRestrains[r] = Cardinality(A)
      BY DEF CountersExact
    <3>6. numRestrains'[r] = numRestrains[r] - Cardinality(Restrainers(r) \cap g)
      BY <2>1
    <3> HIDE DEF A
    <3> QED
      BY <3>2, <3>3, <3>4, <3>5, <3>6
  <2>6. numRestrains' \in [Rules -> Nat]
    BY <2>1, <2>5
  <2>7. \A r \in Rules : r \in activeRules' <=> GroupOf(r) \notin removed'
    BY <2>1, GroupFacts DEF GraphInv
  <2>8. stack' \in Seq(Groups) /\ \A i \in 1 .. Len(stack') : stack'[i] \in removed'
    <3>1. stack \in Seq(Groups) /\ \A i \in 1 .. Len(stack) : stack[i] \in removed
      BY DEF TypeOK, GraphInv
    <3> QED
      BY <2>1, <3>1
  <2> QED
    BY <2>1, <2>2, <2>3, <2>5, <2>6, <2>7, <2>8 DEF TypeOK
<1> QED
  BY <1>1, <1>2

LEMMA SweepGroupIInv ==
  ASSUME IInv, SweepGroup
  PROVE  IInv'
<1> USE DEF IInv
<1>1. PICK g \in sweep : sweep' = sweep \ {g} /\ Enter(g, numActivePredecessors)
  BY DEF SweepGroup
<1>2. /\ g \in Groups /\ Enter(g, numActivePredecessors')
      /\ numActivePredecessors' = numActivePredecessors
      /\ UNCHANGED <<pc, triggered, numTriggeredRules, todo, current, currentRuleIndex,
                     numWithoutDerivations, restrained, timeout, pending, stamped,
                     derivations, applied>>
      /\ pc = "sweep"
  BY <1>1 DEF SweepGroup, TypeOK, loop, data
<1>3. numActivePredecessors' \in [Groups -> Nat]
  BY <1>2 DEF TypeOK
<1>4. /\ removed' \subseteq Groups /\ activeRules' \subseteq activeRules
      /\ removed \subseteq removed'
      /\ numActiveGroups' \in Nat /\ numRestrains' \in [Rules -> Nat]
      /\ numActiveGroups' = Cardinality(Groups \ removed')
      /\ \A r \in Rules : numRestrains'[r] = Cardinality(Restrainers(r) \cap activeRules')
      /\ \A r \in Rules : r \in activeRules' <=> GroupOf(r) \notin removed'
      /\ stack' \in Seq(Groups)
      /\ \A i \in 1 .. Len(stack') : stack'[i] \in removed'
      /\ \A h \in removed' \ removed :
           h = g /\ numActivePredecessors'[h] = 0 /\ numTriggeredRules[h] = 0
  BY <1>2, <1>3, EnterStep
<1>5. TypeOK'
  BY <1>1, <1>2, <1>4 DEF TypeOK
<1>6. CountersExact'
  BY <1>2, <1>4 DEF CountersExact
<1>7. GraphInv'
  BY <1>2, <1>4 DEF GraphInv, TypeOK
<1>8. ExecuteInv' /\ TriggerInv'
  BY <1>2 DEF ExecuteInv, TriggerInv
<1>9. RestrainersFirst'
  BY <1>2, <1>4 DEF RestrainersFirst
<1> QED
  BY <1>5, <1>6, <1>7, <1>8, <1>9

LEMMA NotifySuccessorIInv ==
  ASSUME IInv, NotifySuccessor
  PROVE  IInv'
<1> USE DEF IInv
<1> DEFINE g == Head(stack)
<1>1. PICK s \in todo[g] :
        /\ todo' = [todo EXCEPT ![g] = @ \ {s}]
        /\ numActivePredecessors' = [numActivePredecessors EXCEPT ![s] = @ - 1]
        /\ Enter(s, numActivePredecessors')
  BY DEF NotifySuccessor
<1>2. /\ UNCHANGED <<pc, triggered, numTriggeredRules, sweep, current, currentRuleIndex,
                     numWithoutDerivations, restrained, timeout, pending, stamped,
                     derivations, applied>>
      /\ pc = "sweep"
  BY DEF NotifySuccessor, loop, data, GraphInv
<1>3. g \in removed /\ g \in Groups
  BY DEF NotifySuccessor, GraphInv, TypeOK
<1>4. s \in Groups /\ s # g
  BY <1>1, <1>3, GroupSuccessorsFacts DEF GraphInv, TypeOK
<1> DEFINE preds(h) == { p \in Groups : h \in todo[p] }
<1>5. \A h \in Groups : IsFiniteSet(preds(h)) /\ numActivePredecessors[h] = Cardinality(preds(h))
  BY GroupFacts, FS_Subset DEF CountersExact
<1>6. todo' \in [Groups -> SUBSET Groups]
  BY <1>1, <1>3 DEF TypeOK
<1>7. ASSUME NEW h \in Groups
      PROVE  /\ numActivePredecessors'[h] = Cardinality({ p \in Groups : h \in todo'[p] })
             /\ numActivePredecessors'[h] \in Nat
  <2>1. CASE h = s
    <3>1. { p \in Groups : h \in todo'[p] } = preds(s) \ {g} /\ g \in preds(s)
      BY <1>1, <1>3, <2>1 DEF TypeOK
    <3>2. /\ Cardinality(preds(s) \ {g}) = Cardinality(preds(s)) - 1
          /\ Cardinality(preds(s) \ {g}) \in Nat
      BY <1>4, <1>5, <3>1, FS_RemoveElement, FS_CardinalityType
    <3>3. numActivePredecessors'[s] = numActivePredecessors[s] - 1
      BY <1>1, <1>4 DEF TypeOK
    <3>4. numActivePredecessors[s] = Cardinality(preds(s))
      BY <1>4, <1>5
    <3> HIDE DEF preds
    <3> QED
      BY <2>1, <3>1, <3>2, <3>3, <3>4
  <2>2. CASE h # s
    <3>1. { p \in Groups : h \in todo'[p] } = preds(h)
      BY <1>1, <2>2 DEF TypeOK
    <3>2. numActivePredecessors'[h] = numActivePredecessors[h]
      BY <1>1, <2>2 DEF TypeOK
    <3> QED
      BY <1>5, <3>1, <3>2 DEF TypeOK
  <2> QED
    BY <2>1, <2>2
<1>8. numActivePredecessors' \in [Groups -> Nat]
  BY <1>1, <1>7 DEF TypeOK
<1>9. /\ removed' \subseteq Groups /\ activeRules' \subseteq activeRules
      /\ removed \subseteq removed'
      /\ numActiveGroups' \in Nat /\ numRestrains' \in [Rules -> Nat]
      /\ numActiveGroups' = Cardinality(Groups \ removed')
      /\ \A r \in Rules : numRestrains'[r] = Cardinality(Restrainers(r) \cap activeRules')
      /\ \A r \in Rules : r \in activeRules' <=> GroupOf(r) \notin removed'
      /\ stack' \in Seq(Groups)
      /\ \A i \in 1 .. Len(stack') : stack'[i] \in removed'
      /\ \A h \in removed' \ removed :
           h = s /\ numActivePredecessors'[h] = 0 /\ numTriggeredRules[h] = 0
  BY <1>1, <1>4, <1>8, EnterStep
<1>10. s \notin removed
  <2>1. g \in preds(s)
    BY <1>1, <1>3
  <2>2. Cardinality(preds(s)) # 0
    BY <1>4, <1>5, <2>1, FS_EmptySet
  <2> QED
    BY <1>4, <1>5, <2>2 DEF GraphInv
<1>11. TypeOK'
  BY <1>2, <1>6, <1>8, <1>9 DEF TypeOK
<1>12. CountersExact'
  BY <1>2, <1>7, <1>9 DEF CountersExact
<1>13. GraphInv'
  <2>1. \A h \in Groups : todo'[h] \subseteq GroupSuccessors(h)
    BY <1>1 DEF GraphInv, TypeOK
  <2>2. \A h \in Groups \ removed' : todo'[h] = GroupSuccessors(h)
    BY <1>1, <1>3, <1>9 DEF GraphInv, TypeOK
  <2>3. \A h \in removed' : numActivePredecessors'[h] = 0 /\ numTriggeredRules'[h] = 0
    <3>1. \A h \in removed : h # s /\ numActivePredecessors'[h] = numActivePredecessors[h]
      BY <1>1, <1>10 DEF TypeOK
    <3> QED
      BY <1>2, <1>9, <3>1 DEF GraphInv
  <2> QED
    BY <1>2, <1>9, <2>1, <2>2, <2>3 DEF GraphInv
<1>14. ExecuteInv' /\ TriggerInv'
  BY <1>2 DEF ExecuteInv, TriggerInv
<1>15. RestrainersFirst'
  BY <1>2, <1>9 DEF RestrainersFirst
<1> QED
  BY <1>11, <1>12, <1>13, <1>14, <1>15

LEMMA ReturnFromUpdateIInv ==
  ASSUME IInv, ReturnFromUpdate
  PROVE  IInv'
<1> USE DEF IInv
<1>1. /\ stack' = Tail(stack) /\ stack # << >>
      /\ UNCHANGED <<pc, triggered, numTriggeredRules, removed, activeRules,
                     numActivePredecessors, numActiveGroups, numRestrains, todo, sweep,
                     current, currentRuleIndex, numWithoutDerivations, restrained,
                     timeout, pending, stamped, derivations, applied>>
  BY DEF ReturnFromUpdate, loop, data
<1>2. stack \in Seq(Groups) /\ \A i \in 1 .. Len(stack) : stack[i] \in removed
  BY DEF TypeOK, GraphInv
<1>3. stack' \in Seq(Groups) /\ \A i \in 1 .. Len(stack') : stack'[i] \in removed
  BY <1>1, <1>2
<1>4. TypeOK'
  BY <1>1, <1>3 DEF TypeOK
<1>5. GraphInv'
  BY <1>1, <1>2, <1>3 DEF GraphInv
<1>6. CountersExact' /\ ExecuteInv' /\ TriggerInv' /\ RestrainersFirst'
  BY <1>1 DEF CountersExact, ExecuteInv, TriggerInv, RestrainersFirst
<1> QED
  BY <1>4, <1>5, <1>6

LEMMA LoopTestIInv ==
  ASSUME IInv, LoopTest
  PROVE  IInv'
<1> USE DEF IInv
<1>1. /\ pc' \in {"select", "done"} /\ stack = << >>
      /\ pc' = "done" => ~(numActiveGroups > 0)
      /\ UNCHANGED <<triggered, numTriggeredRules, removed, activeRules,
                     numActivePredecessors, numActiveGroups, numRestrains, todo, stack, sweep,
                     current, currentRuleIndex, numWithoutDerivations, restrained,
                     timeout, pending, stamped, derivations, applied>>
  BY DEF LoopTest, graph, loop, data
<1>2. TypeOK'
  BY <1>1 DEF TypeOK
<1>3. GraphInv'
  BY <1>1 DEF GraphInv, TypeOK
<1>4. CountersExact' /\ ExecuteInv' /\ TriggerInv' /\ RestrainersFirst'
  BY <1>1 DEF CountersExact, ExecuteInv, TriggerInv, RestrainersFirst
<1> QED
  BY <1>2, <1>3, <1>4

\* Of the rules that precede a rule of a group in the restrained group, the
\* active ones are in that rule's component of the union graph.
LEMMA MinimumGroupFacts ==
  ASSUME IInv, NEW M \in SourceComponents(Union, activeRules), NEW r0 \in M, NEW r \in GroupOf(r0)
  PROVE  /\ GroupOf(r0) \in Groups \ removed
         /\ Predecessors(Union, r) \cap activeRules \subseteq Component(Union, Rules, r)
<1> USE DEF IInv
<1> DEFINE g == GroupOf(r0)
<1>1. activeRules \subseteq Rules
  BY DEF TypeOK
<1>2. PICK a \in activeRules : M = Component(Union, activeRules, a)
  BY DEF SourceComponents, Components
<1>3. r0 \in activeRules
  BY <1>2, ComponentRefl
<1>4. r0 \in Rules /\ g \in Groups \ removed /\ r \in Rules
  BY <1>1, <1>3, GroupFacts DEF GraphInv
<1>5. g \subseteq activeRules
  BY <1>4, GroupFacts DEF GraphInv
<1>6. r \in Component(Union, activeRules, r0)
  <2>1. g = Component(Pos, Rules, r0)
    BY DEF GroupOf
  <2> QED
    BY <1>1, <1>4, <1>5, <2>1, ComponentInside, RulesAssumption DEF Union
<1>7. M = Component(Union, activeRules, r)
  BY <1>2, <1>3, <1>6, ComponentSame
<1>8. ASSUME NEW s \in Predecessors(Union, r), s \in activeRules
      PROVE  s \in Component(Union, Rules, r)
  <2>1. <<s, r>> \in Union
    BY RulesAssumption, PredecessorsDef DEF Union
  <2>2. r \in M
    BY <1>3, <1>5, <1>7, ComponentRefl
  <2>3. s \in M
    BY <1>8, <2>1, <2>2 DEF SourceComponents
  <2> QED
    BY <1>1, <1>5, <1>7, <2>3, ComponentMono
<1> QED
  BY <1>4, <1>8

LEMMA SelectGroupIInv ==
  ASSUME IInv, SelectGroup
  PROVE  IInv'
<1> USE DEF IInv
<1>1. PICK G \in RestrainedGroups :
        /\ restrained' = G
        /\ IF \E g \in G : Eligible(g)
           THEN /\ current' \in { g \in G : Eligible(g) }
                /\ currentRuleIndex' = 0
                /\ numWithoutDerivations' = 0
                /\ pc' = "execute"
                /\ UNCHANGED sweep
           ELSE /\ sweep' = G
                /\ pc' = "sweep"
                /\ UNCHANGED <<current, currentRuleIndex, numWithoutDerivations>>
  BY DEF SelectGroup
<1>2. /\ pc = "select"
      /\ UNCHANGED <<triggered, numTriggeredRules, removed, activeRules,
                     numActivePredecessors, numActiveGroups, numRestrains, todo, stack,
                     timeout, pending, stamped, derivations, applied>>
  BY DEF SelectGroup, graph, data
<1>3. PICK M \in SourceComponents(Union, activeRules) : G = { GroupOf(r) : r \in M }
  BY DEF RestrainedGroups
<1>4. \A g \in G : /\ g \in Groups \ removed
                   /\ \A r \in g : Predecessors(Union, r) \cap activeRules
                                     \subseteq Component(Union, Rules, r)
  <2>1. ASSUME NEW g \in G, NEW r \in Rules, r \in g
        PROVE  /\ g \in Groups \ removed
               /\ Predecessors(Union, r) \cap activeRules \subseteq Component(Union, Rules, r)
    <3>1. PICK r0 \in M : g = GroupOf(r0)
      BY <1>3
    <3> QED
      BY <2>1, <3>1, MinimumGroupFacts
  <2>2. \A g \in G : g \subseteq Rules /\ g # {}
    <3>1. M \subseteq Rules
      <4>1. PICK a \in activeRules : M = Component(Union, activeRules, a)
        BY DEF SourceComponents, Components
      <4> QED
        BY <4>1, ComponentRefl DEF TypeOK
    <3> QED
      BY <1>3, <3>1, GroupFacts
  <2> QED
    BY <2>1, <2>2
<1>5. TypeOK'
  <2>1. G \subseteq Groups
    BY <1>4
  <2>2. pc' = "execute" => current' \in Groups /\ currentRuleIndex' \in 0 .. Cardinality(current') - 1
    <3> SUFFICES ASSUME pc' = "execute"
                 PROVE  current' \in Groups /\ currentRuleIndex' \in 0 .. Cardinality(current') - 1
      OBVIOUS
    <3>1. current' \in Groups /\ currentRuleIndex' = 0
      BY <1>1, <2>1
    <3>2. Cardinality(current') \in Nat /\ Cardinality(current') # 0
      BY <3>1, GroupFacts, FS_CardinalityType, FS_EmptySet
    <3> QED
      BY <3>1, <3>2
  <2>3. numWithoutDerivations' \in Nat
    BY <1>1 DEF TypeOK
  <2>4. pc' \in {"execute", "sweep"} /\ sweep' \subseteq Groups /\ restrained' \subseteq Groups
    BY <1>1, <2>1 DEF TypeOK
  <2> QED
    BY <1>2, <2>2, <2>3, <2>4 DEF TypeOK
<1>6. CountersExact' /\ TriggerInv' /\ RestrainersFirst'
  BY <1>2 DEF CountersExact, TriggerInv, RestrainersFirst
<1>7. GraphInv'
  BY <1>1, <1>2 DEF GraphInv
<1>8. ExecuteInv'
  <2> SUFFICES ASSUME pc' = "execute"
               PROVE  /\ current' \in G /\ Eligible(current')
    BY <1>2, <1>4 DEF ExecuteInv, Eligible
  <2> QED
    BY <1>1
<1> QED
  BY <1>5, <1>6, <1>7, <1>8

-----------------------------------------------------------------------------
(* Executing a rule                                                        *)

LEMMA CurrentRuleFacts ==
  ASSUME IInv, pc = "execute"
  PROVE  /\ current \in Groups \ removed
         /\ currentRule \in current /\ currentRule \in Rules /\ currentRule \in activeRules
         /\ GroupOf(currentRule) = current
<1> USE DEF IInv
<1>1. current \in Groups \ removed /\ currentRuleIndex \in 0 .. Cardinality(current) - 1
  BY DEF TypeOK, ExecuteInv
<1>2. currentRule \in current
  BY <1>1, MembersAssumption DEF currentRule
<1> QED
  BY <1>1, <1>2, GroupFacts DEF GraphInv

\* A rule that relies on a rule of the current group is in an active group.
LEMMA SuccessorsActive ==
  ASSUME IInv, pc = "execute", NEW s \in Successors(Pos, currentRule)
  PROVE  s \in Rules /\ GroupOf(s) \in Groups \ removed
<1> USE DEF IInv
<1>1. current \in Groups \ removed /\ currentRule \in current
  BY CurrentRuleFacts
<1>2. s \in Rules /\ (s \in current \/ GroupOf(s) \in GroupSuccessors(current))
  BY <1>1, GroupSuccessorsFacts
<1>3. CASE s \in current
  BY <1>1, <1>2, <1>3, GroupFacts
<1>4. CASE GroupOf(s) \in GroupSuccessors(current)
  <2> DEFINE P == { p \in Groups : GroupOf(s) \in todo[p] }
  <2>1. current \in P
    BY <1>1, <1>4 DEF GraphInv
  <2>2. IsFiniteSet(P)
    BY GroupFacts, FS_Subset
  <2>3. numActivePredecessors[GroupOf(s)] = Cardinality(P) /\ Cardinality(P) # 0
    BY <1>2, <2>1, <2>2, FS_EmptySet, GroupFacts DEF CountersExact
  <2> QED
    BY <1>2, <2>3, GroupFacts DEF GraphInv
<1> QED
  BY <1>2, <1>3, <1>4

\* setTriggered keeps the number of triggered rules of every group exact.
LEMMA RetriggerStep ==
  ASSUME IInv, NEW r \in Rules, NEW S \in SUBSET Rules, Retrigger(r, S)
  PROVE  /\ triggered' = (triggered \ {r}) \cup S
         /\ numTriggeredRules' \in [Groups -> Nat]
         /\ \A g \in Groups : numTriggeredRules'[g] = Cardinality(triggered' \cap g)
<1> USE DEF IInv
<1> DEFINE rest == triggered \ {r}
<1>1. triggered' = rest \cup S
  BY DEF Retrigger
<1>2. ASSUME NEW g \in Groups
      PROVE  /\ numTriggeredRules'[g] = Cardinality(triggered' \cap g)
             /\ numTriggeredRules'[g] \in Nat
  <2> DEFINE T == triggered \cap g
             new == (S \ rest) \cap g
             off == IF r \in triggered /\ g = GroupOf(r) THEN 1 ELSE 0
  <2>1. IsFiniteSet(T) /\ IsFiniteSet(new) /\ IsFiniteSet(T \ {r})
    BY GroupFacts, FS_Intersection, FS_RemoveElement
  <2>2. numTriggeredRules[g] = Cardinality(T)
    BY DEF CountersExact
  <2>3. Cardinality(T \ {r}) =
          Cardinality(T) - off
    <3>1. r \in T <=> r \in triggered /\ g = GroupOf(r)
      BY GroupFacts
    <3>2. Cardinality(T \ {r}) = IF r \in T THEN Cardinality(T) - 1 ELSE Cardinality(T)
      BY <2>1, FS_RemoveElement
    <3>3. Cardinality(T) \in Nat
      BY <2>1, FS_CardinalityType
    <3> HIDE DEF T
    <3> QED
      BY <3>1, <3>2, <3>3
  <2>4. /\ triggered' \cap g = (T \ {r}) \cup new
        /\ (T \ {r}) \cap new = {}
    BY <1>1
  <2>5. Cardinality((T \ {r}) \cup new) = Cardinality(T \ {r}) + Cardinality(new)
    <3>1. Cardinality((T \ {r}) \cup new) =
            Cardinality(T \ {r}) + Cardinality(new) - Cardinality((T \ {r}) \cap new)
      BY <2>1, FS_Union
    <3>2. Cardinality((T \ {r}) \cap new) = 0
      BY <2>4, FS_EmptySet
    <3>3. Cardinality(T \ {r}) \in Nat /\ Cardinality(new) \in Nat
      BY <2>1, FS_CardinalityType
    <3> HIDE DEF T, new
    <3> QED
      BY <3>1, <3>2, <3>3
  <2>6. numTriggeredRules'[g] = numTriggeredRules[g] - off + Cardinality(new)
    BY DEF Retrigger
  <2>7. Cardinality(T) \in Nat /\ Cardinality(new) \in Nat /\ Cardinality(T \ {r}) \in Nat /\ off \in Nat
    BY <2>1, FS_CardinalityType
  <2>8. Cardinality(triggered' \cap g) = Cardinality(T \ {r}) + Cardinality(new)
    BY <2>4, <2>5
  <2> HIDE DEF T, new, off, rest
  <2>9. numTriggeredRules'[g] = Cardinality(T \ {r}) + Cardinality(new)
    BY <2>2, <2>3, <2>6, <2>7
  <2> QED
    BY <2>7, <2>8, <2>9
<1>3. numTriggeredRules' \in [Groups -> Nat]
  <2>1. DOMAIN numTriggeredRules' = Groups /\ numTriggeredRules' = [g \in Groups |-> numTriggeredRules'[g]]
    BY DEF Retrigger
  <2> QED
    BY <1>2, <2>1
<1> QED
  BY <1>1, <1>2, <1>3

\* What executing the current rule does to the data, whether or not the time
\* runs out afterwards.
LEMMA ExecuteRuleStep ==
  ASSUME IInv, pc = "execute", activeRules' = activeRules,
         NEW written \in SUBSET HeadPreds[currentRule],
         NEW woken \in SUBSET Successors(Pos, currentRule),
         ExecuteRule(currentRule, written, woken)
  PROVE  /\ pending' \subseteq Rules /\ derivations' \in Nat /\ applied' \subseteq Rules
         /\ written \subseteq Preds
         /\ RestrainersFirst'
<1> USE DEF IInv
<1> DEFINE r == currentRule
<1>1. /\ pending' = (pending \ {r}) \cup woken
      /\ derivations' = IF written = {} THEN derivations ELSE derivations + 1
      /\ applied' = IF written = {} THEN applied ELSE applied \cup {r}
  BY DEF ExecuteRule
<1>2. r \in current /\ r \in Rules
  BY CurrentRuleFacts
<1>3. woken \subseteq Rules
  BY SuccessorsActive
<1>4. pending' \subseteq Rules /\ derivations' \in Nat /\ applied' \subseteq Rules
  BY <1>1, <1>2, <1>3 DEF TypeOK
<1>5. written \subseteq Preds
  BY <1>2 DEF Preds
<1>6. \A s \in Restrainers(r) : s \in activeRules => s \in Component(Union, Rules, r)
  BY <1>2 DEF ExecuteInv, Restrainers, Predecessors, Union
<1>7. RestrainersFirst'
  BY <1>1, <1>6 DEF RestrainersFirst
<1> QED
  BY <1>4, <1>5, <1>7

LEMMA ExecuteMemberIInv ==
  ASSUME IInv, ExecuteMember
  PROVE  IInv'
<1> USE DEF IInv
<1> DEFINE r == currentRule
<1>0. PICK written \in SUBSET HeadPreds[r], woken \in SUBSET Successors(Pos, r) :
        /\ ExecuteRule(r, written, woken)
        /\ \E response \in Responses(r, written) :
             /\ Retrigger(r, IF response THEN Successors(Pos, r) ELSE {})
             /\ numWithoutDerivations' = IF response THEN 0 ELSE numWithoutDerivations + 1
  BY DEF ExecuteMember
<1>1. PICK response \in Responses(r, written) :
        /\ ExecuteRule(r, written, woken)
        /\ Retrigger(r, IF response THEN Successors(Pos, r) ELSE {})
        /\ numWithoutDerivations' = IF response THEN 0 ELSE numWithoutDerivations + 1
  BY <1>0
<1> DEFINE S == IF response THEN Successors(Pos, r) ELSE {}
<1>2. /\ pc = "execute"
      /\ currentRuleIndex' = (currentRuleIndex + 1) % Cardinality(current)
      /\ stamped' = {}
      /\ IF numWithoutDerivations' < Cardinality(current)
         THEN UNCHANGED <<pc, sweep>>
         ELSE pc' = "sweep" /\ sweep' = {current}
      /\ UNCHANGED <<removed, activeRules, numActivePredecessors, numActiveGroups, numRestrains,
                     todo, stack, current, restrained, timeout>>
  BY DEF ExecuteMember, graph
<1>3. current \in Groups \ removed /\ r \in current /\ r \in Rules
  BY <1>2, CurrentRuleFacts
<1>4. S \in SUBSET Rules /\ \A s \in S : GroupOf(s) \notin removed
  BY <1>2, SuccessorsActive
<1>5. /\ triggered' = (triggered \ {r}) \cup S
      /\ numTriggeredRules' \in [Groups -> Nat]
      /\ \A g \in Groups : numTriggeredRules'[g] = Cardinality(triggered' \cap g)
  BY <1>1, <1>3, <1>4, RetriggerStep
<1>6. /\ pending' \subseteq Rules /\ derivations' \in Nat /\ applied' \subseteq Rules
      /\ RestrainersFirst'
  BY <1>1, <1>2, ExecuteRuleStep
<1>7. TypeOK'
  <2>1. currentRuleIndex' \in 0 .. Cardinality(current) - 1
    <3>1. Cardinality(current) \in Nat /\ Cardinality(current) # 0
      BY <1>3, GroupFacts, FS_CardinalityType, FS_EmptySet
    <3>2. currentRuleIndex \in Nat
      BY <1>2, <3>1 DEF TypeOK
    <3> QED
      BY <1>2, <3>1, <3>2
  <2>2. numWithoutDerivations' \in Nat
    BY <1>1 DEF TypeOK
  <2>3. triggered' \subseteq Rules
    BY <1>4, <1>5 DEF TypeOK
  <2>4. pc' \in {"execute", "sweep"} /\ sweep' \subseteq Groups
    BY <1>2, <1>3 DEF TypeOK
  <2> QED
    BY <1>2, <1>3, <1>5, <1>6, <2>1, <2>2, <2>3, <2>4 DEF TypeOK
<1>8. CountersExact'
  BY <1>2, <1>5 DEF CountersExact
<1>9. GraphInv'
  <2>1. ASSUME NEW g \in removed
        PROVE  numTriggeredRules'[g] = 0
    <3>1. g \in Groups /\ IsFiniteSet(triggered \cap g) /\ Cardinality(triggered \cap g) = 0
      BY GroupFacts, FS_Intersection DEF TypeOK, CountersExact, GraphInv
    <3>2. triggered \cap g = {}
      BY <3>1, FS_EmptySet
    <3>3. S \cap g = {}
      BY <1>4, <3>1, GroupFacts
    <3>4. triggered' \cap g = {}
      BY <1>5, <3>2, <3>3
    <3> QED
      BY <1>5, <3>1, <3>4, FS_EmptySet
  <2> QED
    BY <1>2, <2>1 DEF GraphInv
<1>10. ExecuteInv'
  BY <1>2 DEF ExecuteInv
<1>11. TriggerInv'
  <2>1. pending' = (pending \ {r}) \cup woken /\ (woken # {} => written # {})
    BY <1>1 DEF ExecuteRule
  <2>2. woken # {} => response
    BY <1>1, <2>1 DEF Responses
  <2> QED
    BY <1>2, <1>5, <2>1, <2>2 DEF TriggerInv
<1> QED
  BY <1>6, <1>7, <1>8, <1>9, <1>10, <1>11

LEMMA ExecuteTimeoutIInv ==
  ASSUME IInv, ExecuteTimeout
  PROVE  IInv'
<1> USE DEF IInv
<1>1. PICK written \in SUBSET HeadPreds[currentRule],
           woken \in SUBSET Successors(Pos, currentRule) :
        /\ ExecuteRule(currentRule, written, woken)
        /\ stamped' = stamped \cup written
  BY DEF ExecuteTimeout
<1>2. /\ pc = "execute" /\ timeout = "armed" /\ timeout' = "expired"
      /\ pc' = "sweep" /\ sweep' = restrained
      /\ UNCHANGED <<triggered, numTriggeredRules, removed, activeRules, numActivePredecessors,
                     numActiveGroups, numRestrains, todo, stack, current, currentRuleIndex,
                     numWithoutDerivations, restrained>>
  BY DEF ExecuteTimeout, graph, loop
<1>3. /\ pending' \subseteq Rules /\ derivations' \in Nat /\ applied' \subseteq Rules
      /\ written \subseteq Preds
      /\ RestrainersFirst'
  BY <1>1, <1>2, ExecuteRuleStep
<1>4. TypeOK'
  BY <1>1, <1>2, <1>3 DEF TypeOK
<1>5. CountersExact' /\ GraphInv' /\ ExecuteInv'
  BY <1>2 DEF CountersExact, GraphInv, ExecuteInv
<1>6. TriggerInv'
  BY <1>2 DEF TriggerInv
<1> QED
  BY <1>3, <1>4, <1>5, <1>6

LEMMA NextIInv == IInv /\ [Next]_vars => IInv'
<1> SUFFICES ASSUME IInv, [Next]_vars PROVE IInv'
  OBVIOUS
<1>1. CASE SweepGroup
  BY <1>1, SweepGroupIInv
<1>2. CASE NotifySuccessor
  BY <1>2, NotifySuccessorIInv
<1>3. CASE ReturnFromUpdate
  BY <1>3, ReturnFromUpdateIInv
<1>4. CASE LoopTest
  BY <1>4, LoopTestIInv
<1>5. CASE SelectGroup
  BY <1>5, SelectGroupIInv
<1>6. CASE ExecuteMember
  BY <1>6, ExecuteMemberIInv
<1>7. CASE ExecuteTimeout
  BY <1>7, ExecuteTimeoutIInv
<1>8. CASE UNCHANGED vars
  <2> USE <1>8 DEF vars, graph, loop, data
  <2>1. TypeOK' /\ CountersExact'
    BY DEF IInv, TypeOK, CountersExact
  <2>2. GraphInv' /\ ExecuteInv'
    BY DEF IInv, GraphInv, ExecuteInv
  <2>3. TriggerInv' /\ RestrainersFirst'
    BY DEF IInv, TriggerInv, RestrainersFirst
  <2> QED
    BY <2>1, <2>2, <2>3 DEF IInv
<1> QED
  BY <1>1, <1>2, <1>3, <1>4, <1>5, <1>6, <1>7, <1>8 DEF Next, Update, Done

LEMMA SpecIInv == Spec => []IInv
  BY InitIInv, NextIInv, PTL DEF Spec

-----------------------------------------------------------------------------
(* Theorems                                                                *)

\* The state of the scheduler is always of the right type; in particular none
\* of its unsigned counters is ever decremented below zero.
THEOREM TypeCorrect == Spec => []TypeOK
<1>1. IInv => TypeOK
  BY DEF IInv
<1> QED
  BY <1>1, SpecIInv, PTL

\* The counters kept by setTriggered, setInactive and updateGraph are exact in
\* every reachable state, for every graph of reliances.
THEOREM CountersAreExact == Spec => []CountersExact
<1>1. IInv => CountersExact
  BY DEF IInv
<1> QED
  BY <1>1, SpecIInv, PTL

\* The error messages of updateGraph and setInactive are never printed.
THEOREM ErrorsUnreachable == Spec => []NoErrorPrinted
<1>1. IInv => NoErrorPrinted
  <2> SUFFICES ASSUME IInv PROVE NoErrorPrinted
    OBVIOUS
  <2> USE DEF IInv
  <2>1. \A g \in Groups \ removed : g \subseteq activeRules
    BY GroupFacts DEF GraphInv
  <2>2. ASSUME stack # << >>, NEW s \in todo[Head(stack)]
        PROVE  numActivePredecessors[s] > 0
    <3> DEFINE P == { p \in Groups : s \in todo[p] }
    <3>1. Head(stack) \in Groups /\ s \in Groups
      BY <2>2 DEF TypeOK
    <3>2. Head(stack) \in P /\ IsFiniteSet(P)
      BY <2>2, <3>1, GroupFacts, FS_Subset
    <3>3. numActivePredecessors[s] = Cardinality(P) /\ Cardinality(P) # 0
      BY <3>1, <3>2, FS_EmptySet DEF CountersExact
    <3> QED
      BY <3>1, <3>3 DEF TypeOK
  <2>3. \A g \in removed : ~ IsActive(g)
    BY DEF GraphInv, IsActive
  <2> QED
    BY <2>1, <2>2, <2>3 DEF NoErrorPrinted
<1> QED
  BY <1>1, SpecIInv, PTL

LEMMA RemovedFinal == IInv => RemovedIsFinal
<1> SUFFICES ASSUME IInv, NEW g \in removed
             PROVE  /\ triggered \cap g = {}
                    /\ timeout # "expired" => pending \cap g = {}
  BY DEF RemovedIsFinal
<1>1. g \in Groups /\ IsFiniteSet(triggered \cap g) /\ Cardinality(triggered \cap g) = 0
  BY GroupFacts, FS_Intersection DEF IInv, TypeOK, CountersExact, GraphInv
<1>2. triggered \cap g = {}
  BY <1>1, FS_EmptySet
<1> QED
  BY <1>2 DEF IInv, TriggerInv

\* A removed group is never triggered again and has nothing left to derive.
THEOREM RemovedGroupsAreFinal == Spec => []RemovedIsFinal
  BY SpecIInv, RemovedFinal, PTL

\* Without a timeout run() returns with a saturated set of facts.
THEOREM Saturation == Spec => []SaturatedWhenDone
<1>1. IInv => SaturatedWhenDone
  <2> SUFFICES ASSUME IInv, pc = "done", timeout # "expired" PROVE pending = {}
    BY DEF SaturatedWhenDone
  <2>1. Cardinality(Groups \ removed) = 0 /\ IsFiniteSet(Groups \ removed)
    BY GroupFacts, FS_Difference DEF IInv, GraphInv, CountersExact
  <2>2. Groups \subseteq removed
    BY <2>1, FS_EmptySet
  <2>3. \A r \in Rules : r \notin pending
    BY <2>2, GroupFacts, RemovedFinal DEF RemovedIsFinal
  <2> QED
    BY <2>3 DEF IInv, TypeOK
<1> QED
  BY <1>1, SpecIInv, PTL

\* No rule derives before the rules that restrain it from outside its component
\* of the union graph are finished.
THEOREM RestraintsRespected == Spec => []RestrainersFirst
<1>1. IInv => RestrainersFirst
  BY DEF IInv
<1> QED
  BY <1>1, SpecIInv, PTL

-----------------------------------------------------------------------------
(* Refinement of StratifiedChase                                           *)

\* Removing a group whose counters are zero closes rules without matches all
\* of whose predecessors are closed.
LEMMA EnterCloses ==
  ASSUME IInv, IInv', ~ HasTimeout, NEW g \in Groups, Enter(g, numActivePredecessors'),
         UNCHANGED <<numTriggeredRules, triggered, pending, applied>>
  PROVE  [Chase!Next]_Chase!vars
<1> USE DEF IInv
<1>1. CASE activeRules' = activeRules
  BY <1>1 DEF Chase!vars
<1>2. CASE activeRules' # activeRules
  <2>1. /\ g \notin removed /\ activeRules' = activeRules \ g
        /\ removed' = removed \cup {g}
    BY <1>2 DEF Enter
  <2>2. g \subseteq Rules /\ g \subseteq activeRules /\ activeRules \subseteq Rules
    <3>1. \A r \in Rules : r \in activeRules <=> GroupOf(r) \notin removed
      BY DEF GraphInv
    <3>2. activeRules \subseteq Rules
      BY DEF TypeOK
    <3> QED
      BY <2>1, <3>1, <3>2, GroupFacts
  <2>3. g \cap pending = {}
    <3>1. numTriggeredRules[g] = 0 /\ IsFiniteSet(triggered \cap g)
      <4>1. ~(numTriggeredRules[g] > 0)
        BY <1>2 DEF Enter
      <4>2. numTriggeredRules[g] \in Nat
        BY DEF TypeOK
      <4>3. IsFiniteSet(triggered \cap g)
        BY GroupFacts, FS_Intersection
      <4> QED
        BY <4>1, <4>2, <4>3
    <3>2. triggered \cap g = {}
      BY <3>1, FS_EmptySet DEF CountersExact
    <3>3. pending \subseteq triggered
      BY DEF TriggerInv
    <3> QED
      BY <3>2, <3>3
  <2>4. ASSUME NEW r \in g, NEW s \in Predecessors(Pos, r)
        PROVE  s \in (Rules \ activeRules) \cup g
    <3>1. s \in Rules /\ r \in Rules /\ r \in Successors(Pos, s)
      BY RulesAssumption, PredecessorsDef DEF Predecessors
    <3>2. GroupOf(s) \in Groups /\ s \in GroupOf(s)
      BY <3>1, GroupFacts
    <3>3. CASE GroupOf(s) = g
      BY <3>2, <3>3
    <3>4. CASE GroupOf(s) # g
      <4>1. GroupOf(r) = g
        BY GroupFacts
      <4>2. r \notin GroupOf(s)
        BY <3>2, <3>4, <4>1, GroupFacts
      <4>3. g \in GroupSuccessors(GroupOf(s))
        BY <3>1, <3>2, <4>1, <4>2, GroupSuccessorsFacts
      <4> DEFINE P == { p \in Groups : g \in todo'[p] }
      <4>4. P = {}
        <5>1. numActivePredecessors'[g] = Cardinality(P) /\ numActivePredecessors'[g] = 0
          BY <2>1 DEF CountersExact, GraphInv
        <5>2. IsFiniteSet(P)
          BY GroupFacts, FS_Subset
        <5> QED
          BY <5>1, <5>2, FS_EmptySet
      <4>5. GroupOf(s) \in removed'
        BY <3>2, <4>3, <4>4 DEF GraphInv
      <4>6. s \notin activeRules'
        BY <3>1, <4>5 DEF GraphInv
      <4> QED
        BY <2>1, <3>1, <4>6
    <3> QED
      BY <3>3, <3>4
  <2>5. Chase!Close(g)
    <3>1. Rules \ activeRules' = (Rules \ activeRules) \cup g
      BY <2>1, <2>2
    <3> QED
      BY <2>3, <2>4, <3>1 DEF Chase!Close, Chase!Predecessors, Predecessors
  <2>6. g \in SUBSET (Rules \ (Rules \ activeRules))
    BY <2>2
  <2> QED
    BY <2>5, <2>6 DEF Chase!Next
<1> QED
  BY <1>1, <1>2

\* Executing a member applies its rule, discards its matches, or changes nothing.
LEMMA ExecuteApplies ==
  ASSUME IInv, ExecuteMember
  PROVE  [Chase!Next]_Chase!vars
<1> USE DEF IInv
<1> DEFINE r == currentRule
<1>1. PICK written \in SUBSET HeadPreds[r], woken \in SUBSET Successors(Pos, r) :
        ExecuteRule(r, written, woken)
  BY DEF ExecuteMember
<1>2. pc = "execute" /\ activeRules' = activeRules
  BY DEF ExecuteMember, graph
<1>3. r \in Rules /\ r \in current
  BY <1>2, CurrentRuleFacts
<1>4. CASE written # {}
  <2>1. r \in pending /\ pending' = (pending \ {r}) \cup woken /\ applied' = applied \cup {r}
    BY <1>1, <1>4 DEF ExecuteRule
  <2>2. Predecessors(Union, r) \subseteq Rules
    BY RulesAssumption DEF Predecessors, Union
  <2>3. Predecessors(Union, r) \ Component(Union, Rules, r) \subseteq Rules \ activeRules
    BY <1>2, <1>3, <2>2 DEF ExecuteInv
  <2>4. Chase!Before(r) = Predecessors(Union, r) \ Component(Union, Rules, r)
    BY DEF Chase!Before, Chase!Union, Chase!Predecessors, Chase!Component, Chase!Reachable,
           Chase!Within, Chase!Closed, Union, Predecessors, Component, Reachable, Within, Closed
  <2>5. Chase!Successors(Pos, r) = Successors(Pos, r)
    BY DEF Chase!Successors, Successors
  <2>6. Chase!Apply(r)
    BY <1>2, <2>1, <2>3, <2>4, <2>5 DEF Chase!Apply
  <2> QED
    BY <1>3, <2>6 DEF Chase!Next
<1>5. CASE written = {}
  <2>1. pending' = pending \ {r} /\ applied' = applied
    BY <1>1, <1>5 DEF ExecuteRule
  <2>2. CASE r \in pending
    <3>1. Chase!Discard(r)
      BY <1>2, <2>1, <2>2 DEF Chase!Discard
    <3> QED
      BY <1>3, <3>1 DEF Chase!Next
  <2>3. CASE r \notin pending
    BY <1>2, <2>1, <2>3 DEF Chase!vars
  <2> QED
    BY <2>2, <2>3
<1> QED
  BY <1>4, <1>5

\* Run without a timeout, the scheduler implements the stratified chase: its
\* incremental bookkeeping is invisible behind the order the reliances demand.
THEOREM Refinement == ASSUME ~ HasTimeout PROVE Spec => ImplementsStratifiedChase
<1>1. Init => Chase!Init
  BY RulesAssumption DEF Init, Chase!Init
<1>2. IInv /\ IInv' /\ [Next]_vars => [Chase!Next]_Chase!vars
  <2> SUFFICES ASSUME IInv, IInv', [Next]_vars PROVE [Chase!Next]_Chase!vars
    OBVIOUS
  <2>1. CASE SweepGroup
    <3>1. PICK g \in sweep : Enter(g, numActivePredecessors)
      BY <2>1 DEF SweepGroup
    <3>2. g \in Groups /\ Enter(g, numActivePredecessors')
          /\ UNCHANGED <<numTriggeredRules, triggered, pending, applied>>
      BY <2>1, <3>1 DEF SweepGroup, data, IInv, TypeOK
    <3> QED
      BY <3>2, EnterCloses
  <2>2. CASE NotifySuccessor
    <3>1. PICK s \in todo[Head(stack)] : Enter(s, numActivePredecessors')
      BY <2>2 DEF NotifySuccessor
    <3>2. s \in Groups /\ UNCHANGED <<numTriggeredRules, triggered, pending, applied>>
      BY <2>2, <3>1 DEF NotifySuccessor, data, IInv, TypeOK
    <3> QED
      BY <3>1, <3>2, EnterCloses
  <2>3. CASE ReturnFromUpdate \/ LoopTest \/ SelectGroup \/ UNCHANGED vars
    BY <2>3 DEF ReturnFromUpdate, LoopTest, SelectGroup, vars, graph, data, Chase!vars
  <2>4. CASE ExecuteMember
    BY <2>4, ExecuteApplies
  <2>5. CASE ExecuteTimeout
    BY <2>5 DEF ExecuteTimeout, IInv, TriggerInv
  <2> QED
    BY <2>1, <2>2, <2>3, <2>4, <2>5 DEF Next, Update, Done
<1> QED
  BY <1>1, <1>2, SpecIInv, PTL DEF Spec, ImplementsStratifiedChase, Chase!Spec


-----------------------------------------------------------------------------
(* run() never goes round its loop in vain: whenever a group is to be      *)
(* selected, one qualifies.  The proof combines a second invariant (an     *)
(* inactive group is about to be removed) with the existence of a source   *)
(* component, first of the union graph and then, inside the restrained     *)
(* group, of the positive graph.                                           *)


\* Only a group still to be swept, or the one being executed, can be inactive
\* without being removed; only calls of updateGraph still under way have
\* successors to notify.
ProgressInv ==
  /\ \A g \in Groups \ removed :
       IsActive(g) \/ (pc = "sweep" /\ g \in sweep) \/ (pc = "execute" /\ g = current)
  /\ \A g \in removed : todo[g] # {} => \E i \in 1 .. Len(stack) : stack[i] = g
  /\ pc = "execute" => current \in restrained
  /\ pc = "select" => sweep = {} /\ activeRules # {}

\* updateGraph leaves the group it is called on removed or active, and a group
\* it removes is on the stack.
LEMMA EnterProgress ==
  ASSUME IInv, ProgressInv, NEW g \in Groups, Enter(g, numActivePredecessors'),
         numActivePredecessors' \in [Groups -> Nat]
  PROVE  /\ g \in removed' \/ numActivePredecessors'[g] > 0 \/ numTriggeredRules[g] > 0
         /\ removed \subseteq removed'
         /\ \A h \in Groups : (\E i \in 1 .. Len(stack) : stack[i] = h)
                                => \E i \in 1 .. Len(stack') : stack'[i] = h
         /\ \A h \in removed' \ removed : \E i \in 1 .. Len(stack') : stack'[i] = h
<1>1. stack \in Seq(Groups)
  BY DEF IInv, TypeOK
<1>2. CASE UNCHANGED <<removed, stack>> /\
           (g \in removed \/ numActivePredecessors'[g] > 0 \/ numTriggeredRules[g] > 0)
  BY <1>2
<1>3. CASE removed' = removed \cup {g} /\ stack' = <<g>> \o stack
  <2>1. stack' \in Seq(Groups) /\ Len(stack') = Len(stack) + 1 /\ stack'[1] = g
    BY <1>1, <1>3
  <2>2. \A i \in 1 .. Len(stack) : i + 1 \in 1 .. Len(stack') /\ stack'[i + 1] = stack[i]
    BY <1>1, <1>3, <2>1
  <2>3. 1 \in 1 .. Len(stack')
    BY <1>1, <2>1
  <2> QED
    BY <1>3, <2>1, <2>2, <2>3
<1> QED
  BY <1>2, <1>3 DEF Enter

LEMMA ProgressInit == Init => ProgressInv
  BY DEF Init, ProgressInv

LEMMA ProgressSweepGroup ==
  ASSUME IInv, IInv', ProgressInv, SweepGroup
  PROVE  ProgressInv'
<1>1. PICK g \in sweep : sweep' = sweep \ {g} /\ Enter(g, numActivePredecessors)
  BY DEF SweepGroup
<1>2. /\ pc = "sweep" /\ g \in Groups /\ Enter(g, numActivePredecessors')
      /\ UNCHANGED <<pc, numActivePredecessors, numTriggeredRules, todo>>
      /\ numActivePredecessors' \in [Groups -> Nat]
  BY <1>1 DEF SweepGroup, IInv, TypeOK
<1>3. /\ g \in removed' \/ numActivePredecessors'[g] > 0 \/ numTriggeredRules[g] > 0
      /\ removed \subseteq removed'
      /\ \A h \in Groups : (\E i \in 1 .. Len(stack) : stack[i] = h)
                             => \E i \in 1 .. Len(stack') : stack'[i] = h
      /\ \A h \in removed' \ removed : \E i \in 1 .. Len(stack') : stack'[i] = h
  BY <1>2, EnterProgress
<1>4. \A h \in Groups \ removed' : IsActive(h)' \/ h \in sweep'
  BY <1>1, <1>2, <1>3 DEF ProgressInv, IsActive
<1>5. \A h \in removed' : todo'[h] # {} => \E i \in 1 .. Len(stack') : stack'[i] = h
  BY <1>2, <1>3 DEF ProgressInv, IInv, TypeOK
<1> QED
  BY <1>2, <1>4, <1>5 DEF ProgressInv

LEMMA ProgressNotifySuccessor ==
  ASSUME IInv, IInv', ProgressInv, NotifySuccessor
  PROVE  ProgressInv'
<1>1. PICK s \in todo[Head(stack)] :
        /\ todo' = [todo EXCEPT ![Head(stack)] = @ \ {s}]
        /\ numActivePredecessors' = [numActivePredecessors EXCEPT ![s] = @ - 1]
        /\ Enter(s, numActivePredecessors')
  BY DEF NotifySuccessor
<1>2. /\ pc = "sweep" /\ s \in Groups /\ Head(stack) \in Groups
      /\ UNCHANGED <<pc, sweep, numTriggeredRules>>
      /\ numActivePredecessors' \in [Groups -> Nat]
      /\ numActivePredecessors \in [Groups -> Nat] /\ todo \in [Groups -> SUBSET Groups]
      /\ removed \subseteq Groups
  BY <1>1 DEF NotifySuccessor, IInv, TypeOK, GraphInv
<1>3. /\ s \in removed' \/ numActivePredecessors'[s] > 0 \/ numTriggeredRules[s] > 0
      /\ removed \subseteq removed'
      /\ \A h \in Groups : (\E i \in 1 .. Len(stack) : stack[i] = h)
                             => \E i \in 1 .. Len(stack') : stack'[i] = h
      /\ \A h \in removed' \ removed : \E i \in 1 .. Len(stack') : stack'[i] = h
  BY <1>1, <1>2, EnterProgress
<1>4. \A h \in Groups \ removed' : IsActive(h)' \/ h \in sweep'
  <2>1. \A h \in Groups : h # s => numActivePredecessors'[h] = numActivePredecessors[h]
    BY <1>1, <1>2
  <2> QED
    BY <1>2, <1>3, <2>1 DEF ProgressInv, IsActive
<1>5. \A h \in removed' : todo'[h] # {} => \E i \in 1 .. Len(stack') : stack'[i] = h
  <2>1. \A h \in Groups : todo'[h] \subseteq todo[h]
    BY <1>1, <1>2
  <2> QED
    BY <1>2, <1>3, <2>1 DEF ProgressInv
<1> QED
  BY <1>2, <1>4, <1>5 DEF ProgressInv

LEMMA ProgressReturnFromUpdate ==
  ASSUME IInv, IInv', ProgressInv, ReturnFromUpdate
  PROVE  ProgressInv'
<1>1. /\ stack # << >> /\ stack' = Tail(stack) /\ todo[Head(stack)] = {}
      /\ UNCHANGED <<pc, removed, numActivePredecessors, numTriggeredRules, todo, sweep,
                     current, restrained, activeRules>>
      /\ stack \in Seq(Groups)
  BY DEF ReturnFromUpdate, loop, IInv, TypeOK
<1>2. ASSUME NEW h \in removed, todo[h] # {}
      PROVE  \E i \in 1 .. Len(stack') : stack'[i] = h
  <2>1. PICK i \in 1 .. Len(stack) : stack[i] = h
    BY <1>2 DEF ProgressInv
  <2>2. i # 1
    BY <1>1, <1>2, <2>1
  <2>3. i - 1 \in 1 .. Len(stack') /\ stack'[i - 1] = h
    BY <1>1, <2>1, <2>2
  <2> QED
    BY <2>3
<1> QED
  BY <1>1, <1>2 DEF ProgressInv, IsActive

LEMMA ProgressLoopTest ==
  ASSUME IInv, IInv', ProgressInv, LoopTest
  PROVE  ProgressInv'
<1>1. /\ pc = "sweep" /\ sweep = {} /\ pc' \in {"select", "done"}
      /\ pc' = "select" => numActiveGroups > 0
      /\ UNCHANGED <<removed, activeRules, numActivePredecessors, numTriggeredRules, todo, stack,
                     sweep, current, restrained>>
  BY DEF LoopTest, graph, loop
<1>2. numActiveGroups > 0 => activeRules # {}
  <2> SUFFICES ASSUME numActiveGroups > 0 PROVE activeRules # {}
    OBVIOUS
  <2>1. Cardinality(Groups \ removed) # 0
    BY DEF IInv, CountersExact, TypeOK
  <2>2. PICK g \in Groups : g \notin removed
    BY <2>1, FS_EmptySet
  <2>3. PICK r \in g : r \in Rules /\ GroupOf(r) = g
    BY GroupFacts
  <2> QED
    BY <2>2, <2>3 DEF IInv, GraphInv
<1> QED
  BY <1>1, <1>2 DEF ProgressInv, IsActive

LEMMA ProgressSelectGroup ==
  ASSUME IInv, IInv', ProgressInv, SelectGroup
  PROVE  ProgressInv'
<1>1. /\ pc = "select" /\ pc' \in {"execute", "sweep"} /\ sweep = {}
      /\ UNCHANGED <<removed, activeRules, numActivePredecessors, numTriggeredRules, todo, stack>>
      /\ pc' = "execute" => current' \in restrained'
  BY DEF SelectGroup, graph, ProgressInv
<1> QED
  BY <1>1 DEF ProgressInv, IsActive

LEMMA ProgressExecuteMember ==
  ASSUME IInv, IInv', ProgressInv, ExecuteMember
  PROVE  ProgressInv'
<1>1. PICK S : Retrigger(currentRule, S)
  BY DEF ExecuteMember
<1>2. /\ pc = "execute" /\ (pc' = "execute" \/ (pc' = "sweep" /\ sweep' = {current}))
      /\ UNCHANGED <<removed, activeRules, numActivePredecessors, todo, stack, current, restrained>>
  BY DEF ExecuteMember, graph
<1>3. ASSUME NEW g \in Groups, g # current, numTriggeredRules[g] > 0
      PROVE  numTriggeredRules'[g] > 0
  <2>1. currentRule \notin g
    BY <1>2, <1>3, CurrentRuleFacts, GroupFacts
  <2>2. Cardinality(triggered \cap g) # 0
    <3>1. numTriggeredRules[g] \in Nat /\ numTriggeredRules[g] = Cardinality(triggered \cap g)
      BY DEF IInv, TypeOK, CountersExact
    <3> QED
      BY <1>3, <3>1
  <2>3. triggered \cap g # {}
    BY <2>2, FS_EmptySet
  <2>4. triggered' \cap g # {}
    BY <1>1, <2>1, <2>3 DEF Retrigger
  <2>5. IsFiniteSet(triggered' \cap g) /\ numTriggeredRules'[g] = Cardinality(triggered' \cap g)
    BY GroupFacts, FS_Intersection DEF IInv, CountersExact
  <2>6. numTriggeredRules'[g] # 0 /\ numTriggeredRules'[g] \in Nat
    BY <2>4, <2>5, FS_EmptySet, FS_CardinalityType
  <2> QED
    BY <2>6
<1> QED
  BY <1>2, <1>3 DEF ProgressInv, IsActive

LEMMA ProgressExecuteTimeout ==
  ASSUME IInv, IInv', ProgressInv, ExecuteTimeout
  PROVE  ProgressInv'
<1>1. /\ pc = "execute" /\ pc' = "sweep" /\ sweep' = restrained /\ current \in restrained
      /\ UNCHANGED <<removed, activeRules, numActivePredecessors, numTriggeredRules, todo, stack>>
  BY DEF ExecuteTimeout, graph, ProgressInv
<1> QED
  BY <1>1 DEF ProgressInv, IsActive

LEMMA SpecProgressInv == Spec => [](IInv /\ ProgressInv)
<1>1. IInv /\ IInv' /\ ProgressInv /\ [Next]_vars => ProgressInv'
  <2> SUFFICES ASSUME IInv, IInv', ProgressInv, [Next]_vars PROVE ProgressInv'
    OBVIOUS
  <2>1. CASE SweepGroup
    BY <2>1, ProgressSweepGroup
  <2>2. CASE NotifySuccessor
    BY <2>2, ProgressNotifySuccessor
  <2>3. CASE ReturnFromUpdate
    BY <2>3, ProgressReturnFromUpdate
  <2>4. CASE LoopTest
    BY <2>4, ProgressLoopTest
  <2>5. CASE SelectGroup
    BY <2>5, ProgressSelectGroup
  <2>6. CASE ExecuteMember
    BY <2>6, ProgressExecuteMember
  <2>7. CASE ExecuteTimeout
    BY <2>7, ProgressExecuteTimeout
  <2>8. CASE UNCHANGED vars
    BY <2>8 DEF vars, graph, loop, ProgressInv, IsActive
  <2> QED
    BY <2>1, <2>2, <2>3, <2>4, <2>5, <2>6, <2>7, <2>8 DEF Next, Update, Done
<1> QED
  BY <1>1, SpecIInv, ProgressInit, PTL DEF Spec

-----------------------------------------------------------------------------
\* Among the positive groups of a restrained group there is one that no active
\* group precedes: a source of the positive graph inside the restrained group.
LEMMA SourceGroup ==
  ASSUME IInv, ProgressInv, pc = "select", NEW M \in SourceComponents(Union, activeRules)
  PROVE  \E r \in M : numActivePredecessors[GroupOf(r)] = 0
<1>1. activeRules \subseteq Rules /\ stack = << >>
  BY DEF IInv, TypeOK, GraphInv
<1>2. PICK a \in activeRules : M = Component(Union, activeRules, a)
  BY DEF SourceComponents, Components
<1>3. M \subseteq activeRules /\ M # {} /\ IsFiniteSet(M)
  <2>1. M \subseteq activeRules /\ M # {}
    BY <1>2, ComponentRefl
  <2> QED
    BY <1>1, <2>1, RulesAssumption, FS_Subset
<1>4. PICK b \in M : Component(Pos, M, b) \in SourceComponents(Pos, M)
  BY <1>3, SourceExists, RulesAssumption
<1> DEFINE g == GroupOf(b)
<1>5. b \in Rules /\ g \in Groups \ removed /\ g = Component(Pos, Rules, b)
  BY <1>1, <1>3, MinimumGroupFacts, GroupFacts DEF GroupOf
<1>6. g \subseteq M
  <2>1. g \subseteq activeRules
    BY <1>1, <1>5, GroupFacts DEF IInv, GraphInv
  <2>2. g \subseteq Component(Union, activeRules, b)
    BY <1>1, <1>5, <2>1, ComponentInside, RulesAssumption DEF Union
  <2> QED
    BY <1>2, <2>2, ComponentSame
<1>7. Component(Pos, M, b) = g
  <2>1. g \subseteq Component(Pos, M, b)
    BY <1>1, <1>3, <1>5, <1>6, ComponentInside, RulesAssumption
  <2>2. Component(Pos, M, b) \subseteq g
    BY <1>1, <1>3, <1>5, ComponentMono
  <2> QED
    BY <2>1, <2>2
<1>8. \A p \in Groups : g \notin todo[p]
  <2> SUFFICES ASSUME NEW p \in Groups, g \in todo[p] PROVE FALSE
    OBVIOUS
  <2>1. p \notin removed
    BY <1>1 DEF ProgressInv
  <2>2. g \in GroupSuccessors(p) /\ g # p
    BY <1>5, GroupSuccessorsFacts DEF IInv, GraphInv
  <2>3. PICK x \in p : \E y \in Successors(Pos, x) : g = GroupOf(y)
    BY <2>2 DEF GroupSuccessors
  <2>4. PICK y \in Successors(Pos, x) : g = GroupOf(y)
    BY <2>3
  <2>5. x \in Rules /\ y \in Rules /\ <<x, y>> \in Pos /\ y \in g /\ GroupOf(x) = p
    BY <2>4, GroupFacts, GroupSuccessorsFacts, PredecessorsDef, RulesAssumption
  <2>6. x \in activeRules
    BY <2>1, <2>5 DEF IInv, GraphInv
  <2>7. x \in M
    BY <1>6, <2>5, <2>6 DEF SourceComponents, Union
  <2>8. x \in g
    BY <1>4, <1>7, <2>5, <2>7 DEF SourceComponents
  <2> QED
    BY <1>5, <2>2, <2>5, <2>8, GroupFacts
<1>9. numActivePredecessors[g] = 0
  <2>1. { p \in Groups : g \in todo[p] } = {}
    BY <1>8
  <2> QED
    BY <1>5, <2>1, FS_EmptySet DEF IInv, CountersExact
<1> QED
  BY <1>9

\* Whenever run() selects, a restrained group exists and each one it could take
\* contains a positive group to execute: its loop never spins, and the
\* "nullptr" answer of executeGroupByPositiveGroups only ever means a timeout.
THEOREM SelectionSucceeds == Spec => []SomeGroupQualifies
<1>1. IInv /\ ProgressInv => SomeGroupQualifies
  <2> SUFFICES ASSUME IInv, ProgressInv, pc = "select"
               PROVE  /\ RestrainedGroups # {}
                      /\ \A G \in RestrainedGroups : \E g \in G : Eligible(g)
    BY DEF SomeGroupQualifies
  <2>1. RestrainedGroups # {}
    <3>1. activeRules # {} /\ IsFiniteSet(activeRules)
      BY RulesAssumption, FS_Subset DEF ProgressInv, IInv, TypeOK
    <3>2. PICK a \in activeRules :
            Component(Union, activeRules, a) \in SourceComponents(Union, activeRules)
      <4>1. Union \subseteq Rules \X Rules
        BY RulesAssumption DEF Union
      <4> QED
        BY <3>1, <4>1, SourceExists
    <3> QED
      BY <3>2 DEF RestrainedGroups
  <2>2. ASSUME NEW G \in RestrainedGroups
        PROVE  \E g \in G : Eligible(g)
    <3>1. PICK M \in SourceComponents(Union, activeRules) : G = { GroupOf(r) : r \in M }
      BY DEF RestrainedGroups
    <3>2. PICK r \in M : numActivePredecessors[GroupOf(r)] = 0
      BY <3>1, SourceGroup
    <3>3. GroupOf(r) \in Groups \ removed
      <4>1. PICK a \in activeRules : M = Component(Union, activeRules, a)
        BY DEF SourceComponents, Components
      <4>2. r \in activeRules /\ r \in Rules
        BY <4>1, ComponentRefl DEF IInv, TypeOK
      <4> QED
        BY <4>2, GroupFacts DEF IInv, GraphInv
    <3>4. numTriggeredRules[GroupOf(r)] > 0
      BY <3>2, <3>3 DEF ProgressInv, IsActive
    <3> QED
      BY <3>1, <3>2, <3>4 DEF Eligible
  <2> QED
    BY <2>1, <2>2
<1> QED
  BY <1>1, SpecProgressInv, PTL

=============================================================================
