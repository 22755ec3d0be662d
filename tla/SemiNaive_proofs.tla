-------------------------- MODULE SemiNaive_proofs --------------------------
(***************************************************************************)
(* Proofs about semi-naive evaluation, for every program whose instances   *)
(* are as SemiNaive assumes, every order of its rules and every choice of  *)
(* collapsed blocks: nothing is skipped (NoGap), nothing derived later     *)
(* falsifies a negation (NoRegret), a run that is not stopped saturates    *)
(* (Saturated), no more rounds are executed than there is work for         *)
(* (BoundedWork), and evaluation implements the chase.                     *)
(***************************************************************************)
EXTENDS SemiNaive, FiniteSetTheorems, WellFoundedInduction, TLAPS

-----------------------------------------------------------------------------
(* The invariants                                                          *)

\* Where the execution of a rule is.
ControlInv ==
  /\ plan > 0 => /\ phase # "done"
                 /\ \E n \in CurrentRuleset : PlaceOf(n) = current /\ plan <= PlanCount(order[n]) + 1
  /\ \A r \in Rules : ~IsIDB(r) => lastExecution[r] = 0

\* What lastExecution of the rule at hand will be.
Limit == IF limitView > 0 THEN limitView ELSE iteration

\* The instances of the rule at hand that the plans executed so far have met: those
\* of older facts, and of all facts while nothing new has been derived.
ExecutionInv ==
  \A n \in CurrentRuleset : PlaceOf(n) = current =>
    \A i \in InstancesOf(order[n]) : \A p \in 1 .. plan - 1 :
      /\ \A j \in Positive(order[n]) : InRange(i.body[j], order[n], p, j)
      /\ \/ \A j \in Positive(order[n]) : stamp[i.body[j]] < Limit
         \/ limitView = 0 /\ ~Derived(order[n])
      => Satisfied(i) \/ Blocked(i)

\* Rules without IDB literal are saturated once executed, before the second class.
EDBInv ==
  /\ phase \in {"edb", "extEdb"} /\ ~timedOut =>
       \A n \in CurrentRuleset : PlaceOf(n) < current => SaturatedRule(order[n])
  /\ stratum > 0 \/ (~timedOut /\ (phase # "edb" \/ ~first)) =>
       \A r \in Rules : InRuleset(r, "edb", 0) => SaturatedRule(r)
  /\ stratum > 0 \/ (~timedOut /\ (phase \in {"ext", "done"} \/ ~first)) =>
       \A r \in Rules : InRuleset(r, "extEdb", 0) => SaturatedRule(r)

\* Rules rely on the absence of facts of lower, finished classes only.
AssumedInv == \A f \in assumed : Stratification[PredOf[f]] < stratum

\* The rule at hand has derived something (or was seen to).
NewFacts == \E n \in CurrentRuleset : PlaceOf(n) = current /\ plan > 0 /\ Derived(order[n])

\* Facts as new as the next result come from the existential rules without IDB
\* literal, which are executed at one iteration.
FromExtEDB(f) == \E i \in Instances : f \in i.head /\ InRuleset(i.rule, "extEdb", 0)

FreshInv ==
  \A f \in Facts : stamp[f] = iteration =>
    /\ phase \in {"edb", "datalog", "extEdb"} /\ (plan = 0 \/ phase = "extEdb") =>
         FromExtEDB(f) /\ (first \/ Ruleset("ext", stratum) = {})
    /\ phase = "ext" /\ plan = 0 => FromExtEDB(f) /\ current = 1

LimitInv ==
  /\ phase \in {"edb", "datalog"} => limitView = 0
  /\ phase = "extEdb" /\ Restricted => limitView = iteration

\* Unless something was derived in this round, the limit view hides nothing.
ViewInv ==
  /\ phase = "extEdb" /\ first /\ ~newDer /\ ~NewFacts =>
       \A f \in Facts, i \in Instances, n \in CurrentRuleset :
         f \in i.head /\ i.rule = order[n] /\ PlaceOf(n) < current => stamp[f] # iteration
  /\ phase = "ext" /\ ~newDer /\ ~NewFacts /\ CurrentRuleset # {} =>
       \A f \in Facts : stamp[f] < limitView

\* The rules executed since one derived something.
Recent(n) ==
  \/ PlaceOf(n) < current /\ PlaceOf(n) >= current - idle
  \/ PlaceOf(n) >= current + Cardinality(CurrentRuleset) - idle

DatalogInv ==
  phase = "datalog" =>
    /\ current <= Cardinality(CurrentRuleset) => idle < Cardinality(CurrentRuleset)
    /\ current > Cardinality(CurrentRuleset) =>
         current = Cardinality(CurrentRuleset) + 1 /\ idle = Cardinality(CurrentRuleset)
    /\ ~NewFacts => \A n \in CurrentRuleset : Recent(n) => SaturatedRule(order[n])

ExtInv ==
  /\ phase = "ext" => current <= Cardinality(CurrentRuleset) + 1 /\ idle < current
  /\ phase \in {"extEdb", "ext"} /\ ~newDer /\ ~NewFacts =>
       \A r \in Rules : InRuleset(r, "datalog", stratum) => SaturatedRule(r)
  /\ phase = "ext" /\ ~newDer /\ ~NewFacts =>
       \A n \in CurrentRuleset : PlaceOf(n) < current => SaturatedRule(order[n])

FinishedInv == \A r \in Rules : IsIDB(r) /\ StratumOf(r) < stratum => SaturatedRule(r)

SaturationInv ==
  /\ LimitInv /\ FinishedInv /\ Saturated
  /\ ~timedOut => FreshInv /\ ViewInv /\ DatalogInv /\ ExtInv

-----------------------------------------------------------------------------
(* The rulesets                                                            *)

LEMMA OrderFacts ==
  ASSUME order \in Orders
  PROVE  /\ order \in Seq(Rules) /\ DOMAIN order = 1 .. Len(order) /\ Len(order) \in Nat
         /\ \A n \in DOMAIN order : order[n] \in Rules
         /\ \A r \in Rules : \E n \in DOMAIN order : order[n] = r
BY TypeAssumption, ProgramAssumption

\* The members of a finite set of numbers are numbered from 1 on.
LEMMA Ranks ==
  ASSUME NEW max \in Nat, NEW R, R \subseteq 1 .. max
  PROVE  /\ IsFiniteSet(R) /\ Cardinality(R) \in 0 .. max
         /\ \A n \in R : Cardinality({ m \in R : m <= n }) \in 1 .. Cardinality(R)
         /\ \A m, n \in R : Cardinality({ k \in R : k <= m }) = Cardinality({ k \in R : k <= n }) => m = n
<1> DEFINE UpTo(n) == { m \in R : m <= n }
<1>1. IsFiniteSet(1 .. max) /\ Cardinality(1 .. max) = max /\ R \subseteq Int
  BY FS_Interval
<1>2. IsFiniteSet(R) /\ Cardinality(R) \in 0 .. max
  <2>1. IsFiniteSet(R) /\ Cardinality(R) <= Cardinality(1 .. max)
    BY <1>1, FS_Subset
  <2> QED
    BY <1>1, <2>1, FS_CardinalityType
<1>3. \A n \in R : /\ IsFiniteSet(UpTo(n)) /\ Cardinality(UpTo(n)) \in Nat
                   /\ Cardinality(UpTo(n)) <= Cardinality(R)
  BY <1>2, FS_Subset, FS_CardinalityType
<1>4. \A n \in R : Cardinality(UpTo(n)) # 0
  <2> TAKE n \in R
  <2>1. n \in UpTo(n)
    BY <1>1
  <2> QED
    BY <2>1, <1>3, FS_EmptySet
<1>5. ASSUME NEW m \in R, NEW n \in R, m < n
      PROVE  Cardinality(UpTo(m)) # Cardinality(UpTo(n))
  <2>1. \A k \in R : k <= m => k <= n
    BY <1>1, <1>5
  <2>2. ~(n <= m) /\ n <= n
    BY <1>1, <1>5
  <2>3. UpTo(m) \subseteq UpTo(n) /\ n \in UpTo(n) /\ n \notin UpTo(m)
    BY <2>1, <2>2
  <2> HIDE DEF UpTo
  <2> QED
    BY <2>3, <1>3, FS_Subset
<1>6. \A m, n \in R : m # n => m < n \/ n < m
  BY <1>1
<1>7. \A m, n \in R : Cardinality(UpTo(m)) = Cardinality(UpTo(n)) => m = n
  <2> HIDE DEF UpTo
  <2> QED
    BY <1>5, <1>6
<1>8. \A n \in R : Cardinality(UpTo(n)) \in 1 .. Cardinality(R)
  <2> HIDE DEF UpTo
  <2> QED
    BY <1>2, <1>3, <1>4
<1> QED
  BY <1>2, <1>7, <1>8

\* The place of a rule in its ruleset is a number of its own from 1 on.
LEMMA Places ==
  ASSUME order \in Orders
  PROVE  /\ IsFiniteSet(CurrentRuleset)
         /\ Cardinality(CurrentRuleset) \in 0 .. Len(order)
         /\ \A n \in CurrentRuleset :
              n \in DOMAIN order /\ order[n] \in Rules /\ PlaceOf(n) \in 1 .. Cardinality(CurrentRuleset)
         /\ \A m, n \in CurrentRuleset : PlaceOf(m) = PlaceOf(n) => m = n
<1>1. CurrentRuleset \subseteq 1 .. Len(order) /\ Len(order) \in Nat
  BY OrderFacts DEF CurrentRuleset, Ruleset
<1> QED
  BY <1>1, Ranks, OrderFacts DEF PlaceOf

\* In the next state a place is one from 1 on as well.
LEMMA PlacesNext ==
  ASSUME order \in Orders, order' = order
  PROVE  /\ Cardinality(CurrentRuleset)' \in 0 .. Len(order)
         /\ \A n \in CurrentRuleset' : order[n] \in Rules /\ PlaceOf(n)' \in 1 .. Cardinality(CurrentRuleset)'
<1>1. CurrentRuleset' \subseteq 1 .. Len(order) /\ Len(order) \in Nat
  BY OrderFacts DEF CurrentRuleset, Ruleset
<1> QED
  BY <1>1, Ranks, OrderFacts DEF PlaceOf

\* Every rule is in the ruleset of its phase and class.
LEMMA InItsRuleset ==
  ASSUME order \in Orders, NEW r \in Rules, InRuleset(r, phase, stratum)
  PROVE  \E n \in CurrentRuleset : order[n] = r
BY OrderFacts DEF CurrentRuleset, Ruleset

-----------------------------------------------------------------------------
(* Instances and facts                                                     *)

LEMMA InstanceFacts ==
  ASSUME NEW i \in Instances
  PROVE  /\ i.rule \in Rules /\ i.head \subseteq Facts
         /\ DOMAIN i.body = DOMAIN Body[i.rule]
         /\ Positive(i.rule) \subseteq DOMAIN Body[i.rule]
         /\ \A j \in DOMAIN Body[i.rule] : /\ i.body[j] \in Facts
                                           /\ i.body[j] \in FactsOf(Body[i.rule][j].pred)
         /\ NegatedFacts(i) \subseteq Facts
         /\ \A f \in i.head : \E k \in DOMAIN Heads[i.rule] : f \in FactsOf(Heads[i.rule][k])
<1>1. i.rule \in Rules /\ i.head \subseteq Facts /\ i.body \in Seq(Facts)
  BY TypeAssumption
<1>2. Body[i.rule] \in Seq([pred : Preds, negated : BOOLEAN])
  BY <1>1, TypeAssumption
<1>3. Len(i.body) = Len(Body[i.rule]) /\ DOMAIN i.body = DOMAIN Body[i.rule]
  BY <1>1, <1>2, ProgramAssumption
<1>4. \A j \in DOMAIN Body[i.rule] : i.body[j] \in Facts /\ PredOf[i.body[j]] = Body[i.rule][j].pred
  BY <1>1, <1>3, ProgramAssumption
<1>5. Positive(i.rule) \subseteq DOMAIN Body[i.rule]
  BY DEF Positive
<1>6. \A f \in i.head : \E k \in DOMAIN Heads[i.rule] : f \in FactsOf(Heads[i.rule][k])
  BY <1>1, ProgramAssumption DEF FactsOf
<1> QED
  BY <1>1, <1>3, <1>4, <1>5, <1>6 DEF FactsOf, NegatedFacts

LEMMA InstanceOfFacts ==
  ASSUME NEW r \in Rules, NEW i \in InstancesOf(r)
  PROVE  /\ i \in Instances /\ i.rule = r /\ i.edb \subseteq db
         /\ Positive(r) \subseteq DOMAIN Body[r]
         /\ \A j \in DOMAIN Body[r] : i.body[j] \in Facts /\ i.body[j] \in FactsOf(Body[r][j].pred)
BY InstanceFacts DEF InstancesOf

LEMMA BodyFacts ==
  ASSUME NEW r \in Rules
  PROVE  /\ Len(Body[r]) \in Nat /\ DOMAIN Body[r] = 1 .. Len(Body[r])
         /\ IsIDB(r) <=> Len(Body[r]) > 0
         /\ PlanCount(r) \in Nat
         /\ Positive(r) \subseteq 1 .. Len(Body[r])
<1>1. Body[r] \in Seq([pred : Preds, negated : BOOLEAN])
  BY TypeAssumption
<1> QED
  BY <1>1 DEF IsIDB, PlanCount, Positive

\* What is derived stays, and keeps satisfying and blocking instances.
LEMMA Monotone ==
  ASSUME \A f \in Facts : stamp[f] > 0 => stamp'[f] > 0
  PROVE  /\ Present \subseteq Present'
         /\ \A i \in Instances : Satisfied(i) => Satisfied(i)'
         /\ \A i \in Instances : Blocked(i) => Blocked(i)'
<1>1. Present \subseteq Present'
  BY DEF Present
<1>2. \A i : Satisfied(i) => Satisfied(i)'
  BY <1>1 DEF Satisfied
<1>3. \A i : Blocked(i) => Blocked(i)'
  BY <1>1 DEF Blocked, NegatedFacts
<1> QED
  BY <1>1, <1>2, <1>3

-----------------------------------------------------------------------------
(* Stamps                                                                  *)

\* Collapsing old blocks raises stamps, of old facts, to stamps of old facts.
LEMMA Collapse ==
  ASSUME TypeOK, NEW r \in Rules, NEW s \in CollapsedStamps(r)
  PROVE  /\ s \in [Facts -> 0 .. iteration]
         /\ \A f \in Facts :
              \/ s[f] = stamp[f]
              \/ /\ 0 < stamp[f] /\ stamp[f] < s[f] /\ s[f] < lastExecution[r]
                 /\ \E g \in Facts : s[f] = stamp[g]
<1>1. stamp \in [Facts -> 0 .. iteration] /\ lastExecution[r] \in Nat /\ iteration \in Nat
  BY DEF TypeOK
<1>2. CASE s = stamp
  BY <1>1, <1>2
<1>3. CASE s # stamp
  <2>1. PICK newest \in Old(r) :
          \E group \in SUBSET { f \in Old(r) : PredOf[f] = PredOf[newest] /\ stamp[f] <= stamp[newest] } :
            s = Raised(group, newest)
    BY <1>3 DEF CollapsedStamps
  <2>2. PICK group \in SUBSET { f \in Old(r) : PredOf[f] = PredOf[newest] /\ stamp[f] <= stamp[newest] } :
          s = Raised(group, newest)
    BY <2>1
  <2>3. s = [f \in Facts |-> IF f \in group THEN stamp[newest] ELSE stamp[f]]
    BY <2>2 DEF Raised
  <2>4. newest \in Facts /\ stamp[newest] < lastExecution[r]
    BY DEF Old
  <2>5. \A f \in group : f \in Facts /\ 0 < stamp[f] /\ stamp[f] <= stamp[newest]
    BY <2>2 DEF Old
  <2>6. s \in [Facts -> 0 .. iteration]
    BY <2>3, <2>4, <1>1
  <2>7. ASSUME NEW f \in Facts
        PROVE  \/ s[f] = stamp[f]
               \/ /\ 0 < stamp[f] /\ stamp[f] < s[f] /\ s[f] < lastExecution[r]
                  /\ \E g \in Facts : s[f] = stamp[g]
    <3>1. CASE f \in group
      <4>1. s[f] = stamp[newest] /\ stamp[f] <= stamp[newest] /\ 0 < stamp[f]
        BY <2>3, <2>5, <3>1
      <4> QED
        BY <4>1, <2>4, <1>1
    <3>2. CASE f \notin group
      BY <2>3, <3>2
    <3> QED
      BY <3>1, <3>2
  <2> QED
    BY <2>6, <2>7
<1> QED
  BY <1>2, <1>3

\* A plan of r adds the heads of the instances it meets, at this iteration; no fact
\* it may have read as old becomes new, nor the reverse.
LEMMA PlanStamps ==
  ASSUME TypeOK, NEW r \in Rules, ExecutePlan(r)
  PROVE  /\ stamp' \in [Facts -> 0 .. iteration]
         /\ \A f \in Facts : stamp[f] > 0 =>
              \/ stamp'[f] = stamp[f]
              \/ /\ stamp[f] < stamp'[f] /\ stamp'[f] < lastExecution[r]
                 /\ \E g \in Facts : stamp'[f] = stamp[g]
         /\ \A f \in Facts : stamp[f] = 0 =>
              \/ stamp'[f] = 0
              \/ /\ stamp'[f] = iteration /\ ~AtomIsEmpty(r, plan)
                 /\ \E i \in Applicable(r, plan) : f \in i.head
<1>1. stamp \in [Facts -> 0 .. iteration] /\ lastExecution[r] \in Nat /\ iteration \in Nat \ {0}
  BY DEF TypeOK
<1>2. CASE AtomIsEmpty(r, plan)
  BY <1>1, <1>2 DEF ExecutePlan
<1>3. CASE ~AtomIsEmpty(r, plan)
  <2> DEFINE derived == (UNION { i.head : i \in Applicable(r, plan) }) \ Present
  <2>1. PICK s \in CollapsedStamps(r) : stamp' = [f \in Facts |-> IF f \in derived THEN iteration ELSE s[f]]
    BY <1>3 DEF ExecutePlan
  <2>2. /\ s \in [Facts -> 0 .. iteration]
        /\ \A f \in Facts :
              \/ s[f] = stamp[f]
              \/ /\ 0 < stamp[f] /\ stamp[f] < s[f] /\ s[f] < lastExecution[r]
                 /\ \E g \in Facts : s[f] = stamp[g]
    BY Collapse
  <2>3. \A f \in Facts : stamp[f] > 0 => f \notin derived
    <3>1. \A f \in derived : f \notin Present
      OBVIOUS
    <3> HIDE DEF derived
    <3> QED
      BY <3>1 DEF Present
  <2>4. \A f \in derived : \E i \in Applicable(r, plan) : f \in i.head
    OBVIOUS
  <2> HIDE DEF derived
  <2>5. stamp' \in [Facts -> 0 .. iteration]
    BY <2>1, <2>2, <1>1
  <2>6. \A f \in Facts : stamp'[f] = IF f \in derived THEN iteration ELSE s[f]
    BY <2>1
  <2>7. \A f \in Facts : stamp[f] = 0 => stamp'[f] = 0 \/ (stamp'[f] = iteration /\ f \in derived)
    BY <2>2, <2>6, <1>1
  <2> QED
    BY <1>3, <2>2, <2>3, <2>4, <2>5, <2>6, <2>7
<1> QED
  BY <1>2, <1>3

LEMMA StampsGrow ==
  ASSUME TypeOK, NEW r \in Rules, ExecutePlan(r)
  PROVE  \A f \in Facts : stamp[f] <= stamp'[f] /\ (stamp[f] > 0 => stamp'[f] > 0)
<1>1. stamp \in [Facts -> 0 .. iteration] /\ stamp' \in [Facts -> 0 .. iteration] /\ iteration \in Nat
  BY PlanStamps DEF TypeOK
<1> QED
  BY <1>1, PlanStamps

-----------------------------------------------------------------------------
(* Types and control                                                       *)

\* A step is one of a rule of the current ruleset, or a change of phase.
LEMMA CurrentStep ==
  ASSUME TypeOK, ExecuteCurrent
  PROVE  \E n \in CurrentRuleset : /\ PlaceOf(n) = current /\ order[n] \in Rules
                                   /\ InRuleset(order[n], phase, stratum)
                                   /\ Step(order[n])
<1>1. \A n \in CurrentRuleset : InRuleset(order[n], phase, stratum)
  BY DEF CurrentRuleset, Ruleset
<1> QED
  BY <1>1, Places DEF ExecuteCurrent, TypeOK

LEMMA TypeOKInit == Init => TypeOK /\ ControlInv
<1> SUFFICES ASSUME Init PROVE TypeOK /\ ControlInv
  OBVIOUS
<1>1. NStrata \in Nat \ {0}
  BY TypeAssumption
<1>2. stamp \in [Facts -> 0 .. iteration] /\ lastExecution \in [Rules -> 0 .. iteration - 1]
  BY DEF Init
<1>3. TypeOK
  <2>1. stratum \in 0 .. NStrata - 1 /\ limitView \in 0 .. iteration
    BY <1>1 DEF Init
  <2>2. phase \in {"edb", "datalog", "extEdb", "ext", "done"}
    BY DEF Init
  <2>3. iteration \in Nat \ {0} /\ current \in Nat \ {0} /\ idle \in Nat /\ plan \in Nat
    BY DEF Init
  <2>4. db \in Databases /\ order \in Orders /\ assumed \subseteq Facts
    BY DEF Init
  <2>5. first \in BOOLEAN /\ newDer \in BOOLEAN /\ timedOut \in BOOLEAN
    BY DEF Init
  <2> QED
    BY <1>2, <2>1, <2>2, <2>3, <2>4, <2>5 DEF TypeOK
<1>4. ControlInv
  BY DEF Init, ControlInv
<1> QED
  BY <1>3, <1>4

\* The rule after the one at place c.
LEMMA NextPlace ==
  ASSUME NEW n \in Nat, NEW c \in 1 .. n
  PROVE  (c % n) + 1 = IF c < n THEN c + 1 ELSE 1
OBVIOUS

\* Finishing a rule leaves the facts alone, and enters no rule.
LEMMA FinishRuleType ==
  ASSUME TypeOK, ControlInv, NEW r \in Rules, NEW response \in BOOLEAN,
         CurrentRuleset # {}, FinishRule(r, response)
  PROVE  TypeOK' /\ ControlInv'
<1> DEFINE n == Cardinality(CurrentRuleset)
<1>1. n \in Nat \ {0}
  BY Places, FS_EmptySet DEF TypeOK
<1>2. /\ current \in Nat \ {0} /\ idle \in Nat /\ iteration \in Nat \ {0} /\ limitView \in 0 .. iteration
      /\ lastExecution \in [Rules -> 0 .. iteration - 1] /\ stamp \in [Facts -> 0 .. iteration]
  BY DEF TypeOK
<1>3. /\ UNCHANGED <<db, order, stamp, stratum, first, limitView, assumed>>
      /\ newDer' = (newDer \/ response) /\ plan' = 0
  BY DEF FinishRule
<1>4. newDer' \in BOOLEAN
  BY <1>3
<1>5. CASE IsIDB(r) /\ FinishSaturating(r, response) /\ UNCHANGED <<phase, timedOut>>
  <2> DEFINE last == IF limitView > 0 THEN limitView ELSE iteration
  <2>1. /\ lastExecution' = [lastExecution EXCEPT ![r] = last] /\ iteration' = iteration + 1
        /\ idle' = IF response THEN 0 ELSE idle + 1
    BY <1>5 DEF FinishSaturating
  <2>2. current' = n + 1 \/ current' = (current % n) + 1
    BY <1>5 DEF FinishSaturating
  <2>3. current' \in Nat \ {0} /\ idle' \in Nat /\ iteration' \in Nat \ {0}
    BY <1>1, <1>2, <2>1, <2>2
  <2>4. lastExecution' \in [Rules -> 0 .. iteration' - 1]
    BY <1>2, <2>1
  <2>5. stamp' \in [Facts -> 0 .. iteration'] /\ limitView' \in 0 .. iteration'
    BY <1>2, <1>3, <2>1
  <2>6. TypeOK'
    BY <1>3, <1>4, <1>5, <2>3, <2>4, <2>5 DEF TypeOK
  <2>7. ControlInv'
    BY <1>2, <1>3, <1>5, <2>1 DEF ControlInv
  <2> QED
    BY <2>6, <2>7
<1>6. CASE ~IsIDB(r) /\ FinishEDB /\ UNCHANGED <<phase, timedOut>>
  <2>1. /\ current' = current + 1 /\ iteration' \in {iteration, iteration + 1}
        /\ UNCHANGED <<lastExecution, idle>>
    BY <1>6 DEF FinishEDB
  <2>2. TypeOK'
    BY <1>2, <1>3, <1>4, <1>6, <2>1 DEF TypeOK
  <2>3. ControlInv'
    BY <1>3, <2>1 DEF ControlInv
  <2> QED
    BY <2>2, <2>3
<1>7. CASE TimeOut
  <2>1. /\ timedOut' = TRUE /\ (phase' = "done" \/ phase' = phase)
        /\ current' = n + 1 /\ UNCHANGED <<iteration, lastExecution, idle>>
    BY <1>7 DEF TimeOut
  <2>2. TypeOK'
    BY <1>1, <1>2, <1>3, <1>4, <2>1 DEF TypeOK
  <2>3. ControlInv'
    BY <1>3, <2>1 DEF ControlInv
  <2> QED
    BY <2>2, <2>3
<1> QED
  BY <1>5, <1>6, <1>7 DEF FinishRule

LEMMA StepType ==
  ASSUME TypeOK, ControlInv, phase # "done", NEW n \in CurrentRuleset, PlaceOf(n) = current,
         order[n] \in Rules, Step(order[n])
  PROVE  TypeOK' /\ ControlInv'
<1> DEFINE r == order[n]
<1>1. PlanCount(r) \in Nat /\ plan \in Nat
  BY BodyFacts DEF TypeOK
<1>2. CASE StartRule(r)
  <2>1. plan' = 1 /\ UNCHANGED <<db, order, stamp, iteration, lastExecution, control, assumed>>
    BY <1>2 DEF StartRule
  <2>2. TypeOK'
    BY <2>1 DEF TypeOK, control
  <2>3. PlanCount(r)' = PlanCount(r) /\ CurrentRuleset' = CurrentRuleset /\ PlaceOf(n)' = PlaceOf(n)
    BY <2>1 DEF PlanCount, CurrentRuleset, Ruleset, PlaceOf, control
  <2>4. phase' # "done" /\ current' = current /\ order' = order
    BY <2>1 DEF control
  <2>5. ControlInv'
    BY <1>1, <2>1, <2>3, <2>4 DEF ControlInv
  <2> QED
    BY <2>2, <2>5
<1>3. CASE ExecutePlan(r)
  <2>1. /\ plan' = plan + 1 /\ plan <= PlanCount(r)
        /\ UNCHANGED <<db, order, iteration, lastExecution, control>>
    BY <1>1, <1>3 DEF ExecutePlan
  <2>2. stamp' \in [Facts -> 0 .. iteration]
    BY <1>3, PlanStamps
  <2>3. assumed' \subseteq Facts
    <3>1. assumed' = assumed \/ assumed' = assumed \cup UNION { NegatedFacts(i) : i \in Applicable(r, plan) }
      BY <1>3 DEF ExecutePlan
    <3>2. \A i \in Applicable(r, plan) : NegatedFacts(i) \subseteq Facts
      BY InstanceFacts DEF Applicable, InstancesOf
    <3> QED
      BY <3>1, <3>2 DEF TypeOK
  <2>4. TypeOK'
    BY <2>1, <2>2, <2>3 DEF TypeOK, control
  <2>5. PlanCount(r)' = PlanCount(r) /\ CurrentRuleset' = CurrentRuleset /\ PlaceOf(n)' = PlaceOf(n)
    BY <2>1 DEF PlanCount, CurrentRuleset, Ruleset, PlaceOf, control
  <2>6. phase' # "done" /\ current' = current /\ order' = order
    BY <2>1 DEF control
  <2>7. ControlInv'
    BY <1>1, <2>1, <2>5, <2>6 DEF ControlInv
  <2> QED
    BY <2>4, <2>7
<1>4. CASE SkipRule(r)
  BY <1>4, FinishRuleType DEF SkipRule
<1>5. CASE EndRule(r)
  <2>1. Derived(r) \in BOOLEAN
    BY DEF Derived
  <2> QED
    BY <1>5, <2>1, FinishRuleType DEF EndRule
<1> QED
  BY <1>2, <1>3, <1>4, <1>5 DEF Step

LEMMA NextPhaseType ==
  ASSUME TypeOK, ControlInv, NextPhase
  PROVE  TypeOK' /\ ControlInv'
<1>1. /\ UNCHANGED <<db, order, stamp, iteration, lastExecution, plan, timedOut, assumed>>
      /\ plan = 0
  BY DEF NextPhase, EnterDatalog, EnterExtEDB, EnterExt, NextRound, NextStratum, Return, Leave
<1>2. ControlInv'
  BY <1>1 DEF ControlInv
<1>3. Len(order) + 1 \in Nat \ {0}
  BY OrderFacts DEF TypeOK
<1>4. iteration \in Nat \ {0} /\ stratum \in 0 .. NStrata - 1 /\ NStrata \in Nat \ {0}
  BY TypeAssumption DEF TypeOK
<1>5. ASSUME NEW ph \in {"edb", "datalog", "extEdb", "ext"}, NEW b \in BOOLEAN, Enter(ph, b)
      PROVE  phase' = ph /\ current' \in Nat \ {0} /\ idle' = 0
  BY <1>3, <1>5 DEF Enter
<1>6. CASE EnterDatalog
  <2>1. phase' = "datalog" /\ current' \in Nat \ {0} /\ idle' = 0
    BY <1>5, <1>6 DEF EnterDatalog, TypeOK
  <2>2. UNCHANGED <<stratum, first, newDer, limitView>>
    BY <1>6 DEF EnterDatalog
  <2> QED
    BY <1>1, <1>2, <2>1, <2>2 DEF TypeOK
<1>7. CASE EnterExtEDB
  <2>1. phase' = "extEdb" /\ current' \in Nat \ {0} /\ idle' = 0
    BY <1>5, <1>7 DEF EnterExtEDB, TypeOK
  <2>2. UNCHANGED <<stratum, first, newDer>> /\ limitView' \in 0 .. iteration
    BY <1>4, <1>7 DEF EnterExtEDB
  <2> QED
    BY <1>1, <1>2, <2>1, <2>2 DEF TypeOK
<1>8. CASE EnterExt
  <2>1. phase' = "ext" /\ current' \in Nat \ {0} /\ idle' = 0
    BY <1>5, <1>8 DEF EnterExt, TypeOK
  <2>2. UNCHANGED <<stratum, newDer, limitView>> /\ first' = FALSE
    BY <1>8 DEF EnterExt
  <2> QED
    BY <1>1, <1>2, <2>1, <2>2 DEF TypeOK
<1>9. CASE NextRound
  <2>1. phase' = "edb" /\ current' \in Nat \ {0} /\ idle' = 0
    BY <1>5, <1>9 DEF NextRound
  <2>2. UNCHANGED <<stratum, first>> /\ newDer' = FALSE /\ limitView' \in 0 .. iteration
    BY <1>4, <1>9 DEF NextRound
  <2> QED
    BY <1>1, <1>2, <2>1, <2>2 DEF TypeOK
<1>10. CASE NextStratum
  <2>1. phase' = "edb" /\ current' \in Nat \ {0} /\ idle' = 0
    BY <1>5, <1>10 DEF NextStratum
  <2>2. newDer' = newDer /\ first' = TRUE /\ limitView' \in 0 .. iteration /\ stratum' \in 0 .. NStrata - 1
    BY <1>4, <1>10 DEF NextStratum
  <2> QED
    BY <1>1, <1>2, <2>1, <2>2 DEF TypeOK
<1>11. CASE Return
  <2>1. phase' = "done" /\ UNCHANGED <<current, idle, stratum, first, newDer, limitView>>
    BY <1>11 DEF Return
  <2> QED
    BY <1>1, <1>2, <2>1 DEF TypeOK
<1> QED
  BY <1>6, <1>7, <1>8, <1>9, <1>10, <1>11 DEF NextPhase

\* TypeOK: ranges, and that no stamp is later than the iteration, no execution is
\* recorded before it took place, and no limit view lies ahead.
THEOREM TypeCorrect == Spec => [](TypeOK /\ ControlInv)
<1>1. TypeOK /\ ControlInv /\ [Next]_vars => TypeOK' /\ ControlInv'
  <2> SUFFICES ASSUME TypeOK, ControlInv, [Next]_vars
               PROVE  TypeOK' /\ ControlInv'
    OBVIOUS
  <2>1. CASE ExecuteCurrent
    BY <2>1, CurrentStep, StepType DEF ExecuteCurrent
  <2>2. CASE NextPhase
    BY <2>2, NextPhaseType
  <2>3. CASE UNCHANGED vars
    BY <2>3 DEF vars, control, TypeOK, ControlInv, CurrentRuleset, Ruleset, PlaceOf, PlanCount
  <2> QED
    BY <2>1, <2>2, <2>3 DEF Next
<1> QED
  BY <1>1, TypeOKInit, PTL DEF Spec

-----------------------------------------------------------------------------
(* Nothing is skipped                                                      *)

LEMMA LimitFacts ==
  ASSUME TypeOK
  PROVE  Limit \in Nat \ {0} /\ Limit <= iteration /\ iteration \in Nat /\ limitView \in Nat
BY DEF TypeOK, Limit

LEMMA DerivedHere ==
  ASSUME TypeOK, NEW r \in Rules, ExecutePlan(r), NEW f \in Facts, stamp[f] = 0, stamp'[f] > 0
  PROVE  stamp'[f] = iteration /\ Derived(r)'
<1>1. PICK i \in Applicable(r, plan) : stamp'[f] = iteration /\ f \in i.head
  BY PlanStamps
<1>2. i \in Instances /\ i.rule = r
  BY DEF Applicable, InstancesOf
<1>3. \E k \in DOMAIN Heads[r] : f \in FactsOf(Heads[r][k])
  BY <1>1, <1>2, InstanceFacts
<1>4. iteration' = iteration /\ iteration \in Nat
  BY DEF ExecutePlan, TypeOK
<1> QED
  BY <1>1, <1>3, <1>4 DEF Derived

\* A fact below the limit after a plan, or any fact if nothing was derived, was
\* there before the plan and in the same ranges.
LEMMA ThereBefore ==
  ASSUME TypeOK, NEW r \in Rules, ExecutePlan(r), NEW f \in Facts, stamp'[f] > 0,
         stamp'[f] < Limit \/ ~Derived(r)'
  PROVE  /\ stamp[f] > 0 /\ stamp[f] <= stamp'[f]
         /\ \A p, j : InRange(f, r, p, j)' => InRange(f, r, p, j)
<1>1. stamp \in [Facts -> 0 .. iteration] /\ lastExecution[r] \in Nat /\ iteration \in Nat
  BY DEF TypeOK
<1>2. stamp' \in [Facts -> 0 .. iteration] /\ lastExecution' = lastExecution
  BY PlanStamps DEF ExecutePlan
<1>3. stamp[f] > 0
  BY <1>1, <1>2, DerivedHere, LimitFacts
<1>4. \/ stamp'[f] = stamp[f]
      \/ stamp[f] < stamp'[f] /\ stamp'[f] < lastExecution[r]
  BY <1>3, PlanStamps
<1> QED
  BY <1>1, <1>2, <1>3, <1>4 DEF InRange

\* The instances a plan finds in its ranges below the limit are satisfied or
\* blocked when it is over.
LEMMA PlanMeets ==
  ASSUME TypeOK, NEW r \in Rules, ExecutePlan(r), NEW i \in InstancesOf(r),
         \A j \in Positive(r) : InRange(i.body[j], r, plan, j),
         (\A j \in Positive(r) : stamp[i.body[j]] < Limit) \/ limitView = 0
  PROVE  Satisfied(i)' \/ Blocked(i)'
<1>1. /\ i \in Instances /\ Positive(r) \subseteq DOMAIN Body[r]
      /\ \A j \in DOMAIN Body[r] : i.body[j] \in Facts /\ i.body[j] \in FactsOf(Body[r][j].pred)
  BY InstanceOfFacts
<1>2. stamp \in [Facts -> 0 .. iteration] /\ limitView \in Nat /\ iteration \in Nat \ {0}
  BY DEF TypeOK
<1>3. \A f \in Facts : stamp[f] > 0 => stamp'[f] > 0
  BY StampsGrow
<1>4. ~AtomIsEmpty(r, plan)
  <2> SUFFICES ASSUME NEW j \in Positive(r),
                      ~InRange(i.body[j], r, plan, j) \/ (limitView > 0 /\ stamp[i.body[j]] >= limitView)
               PROVE  FALSE
    BY <1>1 DEF AtomIsEmpty
  <2>1. limitView > 0 /\ stamp[i.body[j]] < limitView
    BY <1>1, <1>2 DEF Limit
  <2> QED
    BY <2>1, <1>1, <1>2
<1>5. CASE Satisfied(i) \/ Blocked(i)
  BY <1>1, <1>3, <1>5, Monotone
<1>6. CASE ~Satisfied(i) /\ ~Blocked(i)
  <2>1. i \in Applicable(r, plan)
    BY <1>6 DEF Applicable, Blocked
  <2>2. \E s \in CollapsedStamps(r) :
          stamp' = [f \in Facts |-> IF f \in (UNION { k.head : k \in Applicable(r, plan) }) \ Present
                                    THEN iteration ELSE s[f]]
    BY <1>4 DEF ExecutePlan
  <2>3. ASSUME NEW f \in i.head
        PROVE  f \in Present'
    <3>1. f \in Facts
      BY <1>1, InstanceFacts
    <3>2. f \notin Present => stamp'[f] = iteration
      BY <2>1, <2>2, <3>1
    <3>3. f \in Present => stamp'[f] > 0
      BY <1>3 DEF Present
    <3> QED
      BY <1>2, <3>1, <3>2, <3>3 DEF Present
  <2> QED
    BY <2>3 DEF Satisfied
<1> QED
  BY <1>5, <1>6

LEMMA ExecutePlanMeets ==
  ASSUME TypeOK, ExecutionInv, NEW n \in CurrentRuleset, PlaceOf(n) = current,
         NEW r \in Rules, r = order[n], ExecutePlan(r)
  PROVE  ExecutionInv'
<1>1. r \in Rules
  OBVIOUS
<1>2. /\ UNCHANGED <<db, order, iteration, lastExecution, control>>
      /\ plan' = plan + 1 /\ plan \in Nat
  BY DEF ExecutePlan, TypeOK
<1>3. /\ CurrentRuleset' = CurrentRuleset /\ current' = current /\ Limit' = Limit /\ limitView' = limitView
      /\ \A m : PlaceOf(m)' = PlaceOf(m) /\ InstancesOf(order[m])' = InstancesOf(order[m])
  BY <1>2 DEF control, CurrentRuleset, Ruleset, PlaceOf, InstancesOf, Limit
<1> SUFFICES ASSUME NEW i \in InstancesOf(r), NEW p \in 1 .. plan,
                    \A j \in Positive(r) : InRange(i.body[j], r, p, j)',
                    \/ \A j \in Positive(r) : stamp'[i.body[j]] < Limit
                    \/ limitView = 0 /\ ~Derived(r)'
             PROVE  Satisfied(i)' \/ Blocked(i)'
  <2>1. \A m \in CurrentRuleset : PlaceOf(m) = current => m = n
    BY Places DEF TypeOK
  <2>2. order' = order /\ plan' - 1 = plan
    BY <1>2
  <2> QED
    BY <1>3, <2>1, <2>2 DEF ExecutionInv
<1>4. /\ i \in Instances /\ Positive(r) \subseteq DOMAIN Body[r]
      /\ \A j \in DOMAIN Body[r] : i.body[j] \in Facts
  BY <1>1, InstanceOfFacts
<1>5. \A j \in Positive(r) : stamp'[i.body[j]] > 0
  BY DEF InRange
<1>6. ASSUME NEW j \in Positive(r)
      PROVE  InRange(i.body[j], r, p, j) /\ stamp[i.body[j]] <= stamp'[i.body[j]]
  BY <1>1, <1>4, <1>5, ThereBefore
<1>7. ~Derived(r)' => ~Derived(r)
  <2>1. \A f \in Facts : stamp[f] <= stamp'[f] /\ stamp[f] \in Nat /\ stamp'[f] \in Nat
    BY <1>1, PlanStamps, StampsGrow DEF TypeOK
  <2>2. iteration' = iteration /\ iteration \in Nat
    BY <1>2 DEF TypeOK
  <2> QED
    BY <2>1, <2>2 DEF Derived, FactsOf
<1>8. (\A j \in Positive(r) : stamp[i.body[j]] < Limit) \/ (limitView = 0 /\ ~Derived(r))
  <2>1. \A j \in Positive(r) : stamp[i.body[j]] \in Nat /\ stamp'[i.body[j]] \in Nat
    BY <1>1, <1>4, PlanStamps DEF TypeOK
  <2> QED
    BY <1>6, <1>7, <2>1, LimitFacts
<1>9. CASE p = plan
  BY <1>1, <1>6, <1>8, <1>9, PlanMeets
<1>10. CASE p # plan
  <2>1. p \in 1 .. plan - 1
    BY <1>2, <1>10
  <2>2. Satisfied(i) \/ Blocked(i)
    BY <1>6, <1>8, <2>1 DEF ExecutionInv
  <2> QED
    BY <1>1, <1>4, <2>2, Monotone, StampsGrow
<1> QED
  BY <1>9, <1>10

\* A set of numbers has a least one.
LEMMA LeastNumber ==
  ASSUME NEW S, S \subseteq Nat, S # {}
  PROVE  \E m \in S : \A k \in S : m <= k
<1>1. PICK m \in S : \A k \in S : ~(<<k, m>> \in OpToRel(<, Nat))
  BY NatLessThanWellFounded, WFMin
<1>2. ASSUME NEW k \in S, k < m
      PROVE  FALSE
  <2> DEFINE ss == <<k, m>>
  <2>1. ss \in Nat \X Nat /\ ss[1] < ss[2]
    BY <1>2
  <2>2. ss \in OpToRel(<, Nat)
    BY <2>1 DEF OpToRel
  <2> QED
    BY <1>1, <2>2
<1> QED
  BY <1>2

\* An instance whose facts are there is in the ranges of one plan, or all its facts
\* are older than the last execution.
LEMMA PlansCover ==
  ASSUME TypeOK, NEW r \in Rules, NEW i \in InstancesOf(r),
         ~IsIDB(r) => lastExecution[r] = 0,
         \A j \in Positive(r) : stamp[i.body[j]] > 0
  PROVE  \/ \E p \in 1 .. PlanCount(r) : \A j \in Positive(r) : InRange(i.body[j], r, p, j)
         \/ lastExecution[r] > 0 /\ \A j \in Positive(r) : stamp[i.body[j]] < lastExecution[r]
<1> DEFINE new == { j \in Positive(r) : stamp[i.body[j]] >= lastExecution[r] }
<1>1. Positive(r) \subseteq 1 .. Len(Body[r]) /\ Len(Body[r]) \in Nat
  BY BodyFacts
<1>2. lastExecution[r] \in Nat /\ \A j \in Positive(r) : stamp[i.body[j]] \in Nat
  BY InstanceOfFacts DEF TypeOK
<1>3. CASE lastExecution[r] = 0
  <2>1. \A j \in Positive(r) : InRange(i.body[j], r, 1, j)
    BY <1>1, <1>2, <1>3 DEF InRange
  <2>2. 1 \in 1 .. PlanCount(r)
    BY <1>3 DEF PlanCount
  <2> QED
    BY <2>1, <2>2
<1>4. CASE lastExecution[r] > 0 /\ new # {}
  <2>1. new \subseteq Nat
    BY <1>1
  <2>2. PICK p \in new : \A k \in new : p <= k
    BY <1>4, <2>1, LeastNumber
  <2>3. p \in 1 .. PlanCount(r)
    BY <1>1, <1>4 DEF PlanCount
  <2>4. \A j \in Positive(r) : j < p => stamp[i.body[j]] < lastExecution[r]
    BY <1>1, <1>2, <2>2
  <2>5. \A j \in Positive(r) : InRange(i.body[j], r, p, j)
    BY <2>4 DEF InRange
  <2> QED
    BY <2>3, <2>5
<1>5. CASE lastExecution[r] > 0 /\ new = {}
  BY <1>2, <1>5
<1> QED
  BY <1>2, <1>3, <1>4, <1>5

\* When the rule at hand is done its instances are satisfied or blocked: those of
\* facts below the limit, and all of them if the rule derived nothing.
LEMMA RuleDone ==
  ASSUME TypeOK, ControlInv, ExecutionInv, NoGap, NEW n \in CurrentRuleset, PlaceOf(n) = current,
         NEW r \in Rules, r = order[n], SkipRule(r) \/ EndRule(r),
         NEW i \in InstancesOf(r), \A j \in Positive(r) : stamp[i.body[j]] > 0,
         \/ SkipRule(r)
         \/ \A j \in Positive(r) : stamp[i.body[j]] < Limit
         \/ limitView = 0 /\ ~Derived(r)
  PROVE  Satisfied(i) \/ Blocked(i)
<1>1. /\ i \in Instances /\ i.rule = r /\ Positive(r) \subseteq DOMAIN Body[r]
      /\ \A j \in DOMAIN Body[r] : i.body[j] \in Facts /\ i.body[j] \in FactsOf(Body[r][j].pred)
  BY InstanceOfFacts
<1>2. lastExecution[r] \in Nat /\ \A j \in Positive(r) : stamp[i.body[j]] \in Nat
  BY <1>1 DEF TypeOK
<1>3. CASE lastExecution[r] > 0 /\ \A j \in Positive(r) : stamp[i.body[j]] < lastExecution[r]
  BY <1>3 DEF NoGap
<1>4. CASE SkipRule(r)
  <2>1. ~BodyChanged(r)
    BY <1>4 DEF SkipRule
  <2>2. \A j \in Positive(r) : stamp[i.body[j]] < lastExecution[r]
    BY <1>1, <1>2, <2>1 DEF BodyChanged
  <2>3. lastExecution[r] # 0
    <3>1. SUFFICES ASSUME lastExecution[r] = 0 PROVE FALSE
      OBVIOUS
    <3>2. i.edb = {}
      BY <1>1, <2>1, <3>1 DEF BodyChanged
    <3>3. PICK j \in Positive(r) : TRUE
      BY <1>1, <3>2, SafetyAssumption DEF Positive
    <3> QED
      BY <1>2, <2>2, <3>1, <3>3
  <2> QED
    BY <1>2, <1>3, <2>2, <2>3
<1>5. CASE ~SkipRule(r) /\ \E p \in 1 .. PlanCount(r) : \A j \in Positive(r) : InRange(i.body[j], r, p, j)
  <2>1. plan - 1 = PlanCount(r)
    BY <1>5, BodyFacts DEF EndRule
  <2> QED
    BY <1>5, <2>1 DEF ExecutionInv
<1> QED
  BY <1>3, <1>4, <1>5, PlansCover DEF ControlInv

LEMMA FinishRuleKeepsGaps ==
  ASSUME TypeOK, ControlInv, ExecutionInv, NoGap, NEW n \in CurrentRuleset, PlaceOf(n) = current,
         NEW r \in Rules, r = order[n], SkipRule(r) \/ EndRule(r)
  PROVE  ExecutionInv' /\ NoGap'
<1>1. PICK response \in BOOLEAN : FinishRule(r, response)
  BY DEF SkipRule, EndRule, Derived
<1>2. UNCHANGED <<db, stamp>> /\ plan' = 0
  BY <1>1 DEF FinishRule
<1>3. ExecutionInv'
  BY <1>2 DEF ExecutionInv
<1>4. \A s \in Rules : /\ InstancesOf(s)' = InstancesOf(s)
                       /\ \A i \in InstancesOf(s) : Satisfied(i)' = Satisfied(i) /\ Blocked(i)' = Blocked(i)
  BY <1>2 DEF InstancesOf, Satisfied, Blocked, Present, NegatedFacts
<1>5. lastExecution' = lastExecution \/ lastExecution' = [lastExecution EXCEPT ![r] = Limit]
  BY <1>1 DEF FinishRule, FinishSaturating, FinishEDB, TimeOut, Limit
<1>6. NoGap'
  <2> SUFFICES ASSUME NEW s \in Rules, NEW i \in InstancesOf(s), lastExecution'[s] > 0,
                      \A j \in Positive(s) : stamp[i.body[j]] > 0 /\ stamp[i.body[j]] < lastExecution'[s]
               PROVE  Satisfied(i) \/ Blocked(i)
    BY <1>2, <1>4 DEF NoGap
  <2>1. CASE lastExecution'[s] = lastExecution[s]
    BY <2>1 DEF NoGap
  <2>2. CASE s = r /\ lastExecution'[s] = Limit
    BY <2>2, RuleDone
  <2> QED
    BY <1>5, <2>1, <2>2 DEF TypeOK
<1> QED
  BY <1>3, <1>6

LEMMA PlanKeepsGaps ==
  ASSUME TypeOK, NoGap, NEW r \in Rules, ExecutePlan(r)
  PROVE  NoGap'
<1> SUFFICES ASSUME NEW s \in Rules, NEW i \in InstancesOf(s), lastExecution[s] > 0,
                    \A j \in Positive(s) : stamp'[i.body[j]] > 0 /\ stamp'[i.body[j]] < lastExecution[s]
             PROVE  Satisfied(i)' \/ Blocked(i)'
  BY DEF NoGap, ExecutePlan, InstancesOf
<1>1. /\ i \in Instances /\ Positive(s) \subseteq DOMAIN Body[s]
      /\ \A j \in DOMAIN Body[s] : i.body[j] \in Facts
  BY InstanceOfFacts
<1>2. /\ stamp \in [Facts -> 0 .. iteration] /\ stamp' \in [Facts -> 0 .. iteration] /\ iteration \in Nat
      /\ lastExecution[s] \in 0 .. iteration - 1
  BY PlanStamps DEF TypeOK
<1>3. ASSUME NEW j \in Positive(s)
      PROVE  stamp[i.body[j]] > 0 /\ stamp[i.body[j]] < lastExecution[s]
  <2> DEFINE f == i.body[j]
  <2>1. f \in Facts /\ stamp'[f] > 0 /\ stamp'[f] < lastExecution[s]
    BY <1>1
  <2> HIDE DEF f
  <2>2. stamp[f] # 0
    BY <1>2, <2>1, DerivedHere
  <2>3. stamp[f] <= stamp'[f]
    BY <2>1, StampsGrow
  <2>4. stamp[f] > 0 /\ stamp[f] < lastExecution[s]
    BY <1>2, <2>1, <2>2, <2>3
  <2> QED
    BY <2>4 DEF f
<1>4. Satisfied(i) \/ Blocked(i)
  BY <1>3 DEF NoGap
<1> QED
  BY <1>1, <1>4, Monotone, StampsGrow

LEMMA StepKeepsGaps ==
  ASSUME TypeOK, ControlInv, ExecutionInv, NoGap, NEW n \in CurrentRuleset, PlaceOf(n) = current,
         NEW r \in Rules, r = order[n], Step(r)
  PROVE  ExecutionInv' /\ NoGap'
<1>1. CASE StartRule(r)
  <2>1. plan' = 1 /\ UNCHANGED <<db, order, stamp, iteration, lastExecution, control, assumed>>
    BY <1>1 DEF StartRule
  <2>2. ExecutionInv'
    BY <2>1 DEF ExecutionInv
  <2>3. NoGap'
    BY <2>1 DEF NoGap, InstancesOf, Satisfied, Blocked, Present, NegatedFacts
  <2> QED
    BY <2>2, <2>3
<1>2. CASE ExecutePlan(r)
  BY <1>2, ExecutePlanMeets, PlanKeepsGaps
<1>3. CASE SkipRule(r) \/ EndRule(r)
  BY <1>3, FinishRuleKeepsGaps
<1> QED
  BY <1>1, <1>2, <1>3 DEF Step

LEMMA GapInvariant == Spec => [](ExecutionInv /\ NoGap)
<1>1. Init => ExecutionInv /\ NoGap
  BY DEF Init, ExecutionInv, NoGap
<1>2. TypeOK /\ ControlInv /\ ExecutionInv /\ NoGap /\ [Next]_vars => ExecutionInv' /\ NoGap'
  <2> SUFFICES ASSUME TypeOK, ControlInv, ExecutionInv, NoGap, [Next]_vars
               PROVE  ExecutionInv' /\ NoGap'
    OBVIOUS
  <2>1. CASE ExecuteCurrent
    BY <2>1, CurrentStep, StepKeepsGaps
  <2>2. CASE NextPhase
    <3>1. UNCHANGED <<db, stamp, lastExecution, plan>> /\ plan = 0
      BY <2>2 DEF NextPhase, EnterDatalog, EnterExtEDB, EnterExt, NextRound, NextStratum, Return, Leave
    <3>2. ExecutionInv'
      BY <3>1 DEF ExecutionInv
    <3>3. NoGap'
      BY <3>1 DEF NoGap, InstancesOf, Satisfied, Blocked, Present, NegatedFacts
    <3> QED
      BY <3>2, <3>3
  <2>3. CASE UNCHANGED vars
    <3>1. NoGap'
      BY <2>3 DEF vars, NoGap, InstancesOf, Satisfied, Blocked, Present, NegatedFacts
    <3>2. ExecutionInv'
      BY <2>3 DEF vars, control, ExecutionInv, CurrentRuleset, Ruleset, PlaceOf, InstancesOf, InRange, Limit,
                  Derived, Satisfied, Blocked, Present, NegatedFacts
    <3> QED
      BY <3>1, <3>2
  <2> QED
    BY <2>1, <2>2, <2>3 DEF Next
<1> QED
  BY <1>1, <1>2, TypeCorrect, PTL DEF Spec

\* NoGap: an instance whose facts are all older than the last execution of its rule
\* has been met by executeRule, whichever blocks were collapsed in between and
\* although executions under a limit view are recorded at the limit.
THEOREM NothingSkipped == Spec => []NoGap
BY GapInvariant, PTL

-----------------------------------------------------------------------------
(* Saturated rules                                                         *)

\* A saturated rule derives nothing: restricted or not, an instance whose head
\* holds adds no fact.
LEMMA SaturatedDerivesNothing ==
  ASSUME TypeOK, NEW r \in Rules, SaturatedRule(r), ExecutePlan(r), NEW f \in Facts, stamp'[f] > 0
  PROVE  stamp[f] > 0
<1>1. stamp[f] \in Nat
  BY DEF TypeOK
<1> SUFFICES ASSUME stamp[f] = 0 PROVE FALSE
  BY <1>1
<1>2. PICK i \in Applicable(r, plan) : f \in i.head
  BY PlanStamps
<1>3. /\ i \in InstancesOf(r) /\ \A j \in Positive(r) : InRange(i.body[j], r, plan, j)
      /\ ~Blocked(i) /\ ~(Restricted /\ r \in Existential /\ Satisfied(i))
  BY <1>2 DEF Applicable, Blocked
<1>4. \A j \in Positive(r) : i.body[j] \in Present
  BY <1>3, InstanceOfFacts DEF InRange, Present
<1>5. Satisfied(i) /\ i \in Instances /\ i.rule = r
  BY <1>3, <1>4 DEF SaturatedRule, InstancesOf
<1>6. i.satisfiedBy = {}
  BY <1>3, <1>5, SatisfactionAssumption
<1>7. f \in Present
  BY <1>2, <1>5, <1>6 DEF Satisfied
<1> QED
  BY <1>7 DEF Present

\* A rule stays saturated while no fact that it could read is added.
LEMMA SaturatedStays ==
  ASSUME NEW r \in Rules, SaturatedRule(r), db' = db,
         \A f \in Facts : stamp[f] > 0 => stamp'[f] > 0,
         \A j \in Positive(r) : \A f \in FactsOf(Body[r][j].pred) : stamp'[f] > 0 => stamp[f] > 0
  PROVE  SaturatedRule(r)'
<1> SUFFICES ASSUME NEW i \in InstancesOf(r), \A j \in Positive(r) : i.body[j] \in Present'
             PROVE  Satisfied(i)' \/ Blocked(i)'
  BY DEF SaturatedRule, InstancesOf
<1>1. /\ i \in Instances /\ Positive(r) \subseteq DOMAIN Body[r]
      /\ \A j \in DOMAIN Body[r] : i.body[j] \in Facts /\ i.body[j] \in FactsOf(Body[r][j].pred)
  BY InstanceOfFacts
<1>2. \A j \in Positive(r) : i.body[j] \in Present
  BY <1>1 DEF Present
<1>3. Satisfied(i) \/ Blocked(i)
  BY <1>2 DEF SaturatedRule
<1> QED
  BY <1>1, <1>3, Monotone

LEMMA SaturatedSame ==
  ASSUME NEW r \in Rules, db' = db, stamp' = stamp
  PROVE  SaturatedRule(r)' <=> SaturatedRule(r)
BY DEF SaturatedRule, InstancesOf, Satisfied, Blocked, Present, NegatedFacts

LEMMA RuleDoneSaturates ==
  ASSUME TypeOK, ControlInv, ExecutionInv, NoGap, NEW n \in CurrentRuleset, PlaceOf(n) = current,
         NEW r \in Rules, r = order[n], SkipRule(r) \/ EndRule(r),
         \/ SkipRule(r)
         \/ \A f \in Facts : stamp[f] < Limit
         \/ limitView = 0 /\ ~Derived(r)
         \/ Positive(r) = {}
  PROVE  SaturatedRule(r)
<1> SUFFICES ASSUME NEW i \in InstancesOf(r), \A j \in Positive(r) : i.body[j] \in Present
             PROVE  Satisfied(i) \/ Blocked(i)
  BY DEF SaturatedRule
<1>1. \A j \in Positive(r) : i.body[j] \in Facts /\ stamp[i.body[j]] > 0
  BY InstanceOfFacts DEF Present
<1> QED
  BY <1>1, RuleDone

-----------------------------------------------------------------------------
(* Rules without IDB literal, and negation                                 *)

LEMMA EDBRuleFacts ==
  ASSUME NEW r \in Rules, ~IsIDB(r)
  PROVE  /\ Positive(r) = {}
         /\ \A ph, k : InRuleset(r, ph, k) => InRuleset(r, ph, 0) /\ InRuleset(r, ph, stratum)
BY DEF IsIDB, Positive, InRuleset

LEMMA EDBRuleset ==
  ASSUME TypeOK, phase \in {"edb", "extEdb"}, NEW n \in CurrentRuleset
  PROVE  ~IsIDB(order[n]) /\ InRuleset(order[n], phase, 0)
BY DEF CurrentRuleset, Ruleset, InRuleset

\* After the last rule of a loop over rules without IDB literal all are saturated.
LEMMA EDBLoopDone ==
  ASSUME TypeOK, EDBInv, NEW ph \in {"edb", "extEdb"}, Leave(ph), ~timedOut,
         NEW r \in Rules, InRuleset(r, ph, 0)
  PROVE  SaturatedRule(r)
<1>1. ~IsIDB(r) /\ InRuleset(r, ph, stratum) /\ phase = ph
  BY EDBRuleFacts DEF InRuleset, Leave
<1>2. PICK n \in CurrentRuleset : order[n] = r
  BY <1>1, InItsRuleset DEF TypeOK
<1>3. PlaceOf(n) < current
  BY <1>2, Places DEF Leave, TypeOK
<1> QED
  BY <1>1, <1>2, <1>3 DEF EDBInv

LEMMA EDBNextPhase ==
  ASSUME TypeOK, EDBInv, NextPhase
  PROVE  EDBInv'
<1>1. /\ UNCHANGED <<db, order, stamp, timedOut>>
      /\ \A r \in Rules : SaturatedRule(r)' <=> SaturatedRule(r)
      /\ \A r, ph : InRuleset(r, ph, 0)' <=> InRuleset(r, ph, 0)
  <2>1. UNCHANGED <<db, order, stamp, timedOut>>
    BY DEF NextPhase, EnterDatalog, EnterExtEDB, EnterExt, NextRound, NextStratum, Return, Leave
  <2> QED
    BY <2>1, SaturatedSame DEF InRuleset, IsIDB, Split, StratumOf
<1>2. CASE EnterDatalog
  <2>1. phase = "edb" /\ phase' = "datalog" /\ UNCHANGED <<stratum, first>>
    BY <1>2 DEF EnterDatalog, Enter, Leave
  <2>2. ~timedOut => \A r \in Rules : InRuleset(r, "edb", 0) => SaturatedRule(r)
    BY <1>2, EDBLoopDone DEF EnterDatalog
  <2> QED
    BY <1>1, <2>1, <2>2 DEF EDBInv
<1>3. CASE EnterExtEDB
  <2>1. phase = "datalog" /\ phase' = "extEdb" /\ UNCHANGED <<stratum, first>>
        /\ current' = IF first THEN 1 ELSE Len(order) + 1
    BY <1>3 DEF EnterExtEDB, Enter, Leave, TypeOK
  <2>2. ASSUME ~timedOut, NEW n \in CurrentRuleset', PlaceOf(n)' < current'
        PROVE  order[n] \in Rules /\ SaturatedRule(order[n])
    <3>1. order' \in Orders /\ order[n] \in Rules /\ PlaceOf(n)' \in Nat \ {0} /\ InRuleset(order[n], "extEdb", 0)
      <4>1. n \in DOMAIN order /\ InRuleset(order[n], "extEdb", stratum)
        BY <1>1, <2>1 DEF CurrentRuleset, Ruleset, InRuleset, IsIDB, Split, StratumOf
      <4>2. order[n] \in Rules
        BY <4>1, OrderFacts DEF TypeOK
      <4>3. order' \in Orders
        BY <1>1 DEF TypeOK
      <4>4. PlaceOf(n)' \in Nat \ {0}
        BY <1>1, PlacesNext DEF TypeOK
      <4> QED
        BY <4>1, <4>2, <4>3, <4>4 DEF InRuleset
    <3>2. ~first
      BY <2>1, <2>2, <3>1
    <3> QED
      BY <2>2, <3>1, <3>2 DEF EDBInv
  <2> QED
    BY <1>1, <2>1, <2>2 DEF EDBInv
<1>4. CASE EnterExt
  <2>1. phase = "extEdb" /\ phase' = "ext" /\ first' = FALSE /\ stratum' = stratum
    BY <1>4 DEF EnterExt, Enter, Leave
  <2>2. ~timedOut => \A r \in Rules : InRuleset(r, "extEdb", 0) => SaturatedRule(r)
    BY <1>4, EDBLoopDone DEF EnterExt
  <2> QED
    BY <1>1, <2>1, <2>2 DEF EDBInv
<1>5. CASE NextRound \/ NextStratum
  <2>1. phase = "ext" /\ ~timedOut /\ phase' = "edb"
    BY <1>5 DEF NextRound, NextStratum, Enter, Leave
  <2>2. \A r \in Rules : InRuleset(r, "edb", 0) \/ InRuleset(r, "extEdb", 0) => SaturatedRule(r)
    BY <2>1 DEF EDBInv
  <2>3. \A n \in CurrentRuleset' : order[n] \in Rules /\ InRuleset(order[n], "edb", 0)
    <3>1. \A n \in CurrentRuleset' : n \in DOMAIN order /\ InRuleset(order[n], "edb", 0)
      BY <1>1, <2>1 DEF CurrentRuleset, Ruleset, InRuleset, IsIDB, Split, StratumOf
    <3> QED
      BY <3>1, OrderFacts DEF TypeOK
  <2> QED
    BY <1>1, <2>1, <2>2, <2>3 DEF EDBInv
<1>6. CASE Return
  <2>1. phase = "ext" /\ phase' = "done" /\ UNCHANGED <<stratum, first>>
    BY <1>6 DEF Return, Leave
  <2> QED
    BY <1>1, <2>1 DEF EDBInv
<1> QED
  BY <1>2, <1>3, <1>4, <1>5, <1>6 DEF NextPhase

LEMMA EDBFinishRule ==
  ASSUME TypeOK, ControlInv, ExecutionInv, NoGap, EDBInv, NEW n \in CurrentRuleset, PlaceOf(n) = current,
         NEW r \in Rules, r = order[n], SkipRule(r) \/ EndRule(r)
  PROVE  EDBInv'
<1>1. PICK response \in BOOLEAN : FinishRule(r, response)
  BY DEF SkipRule, EndRule, Derived
<1>2. /\ UNCHANGED <<db, order, stamp, stratum, first>>
      /\ timedOut' = TRUE \/ UNCHANGED <<phase, timedOut>>
  BY <1>1 DEF FinishRule, TimeOut
<1>3. /\ \A s \in Rules : SaturatedRule(s)' <=> SaturatedRule(s)
      /\ \A s, ph : InRuleset(s, ph, 0)' <=> InRuleset(s, ph, 0)
  BY <1>2, SaturatedSame DEF InRuleset, IsIDB, Split, StratumOf
<1>4. ASSUME timedOut' # TRUE, phase' \in {"edb", "extEdb"}, NEW m \in CurrentRuleset', PlaceOf(m)' < current'
      PROVE  order[m] \in Rules /\ SaturatedRule(order[m])
  <2>1. UNCHANGED <<phase, timedOut>> /\ phase \in {"edb", "extEdb"}
    BY <1>2, <1>4
  <2>2. CurrentRuleset' = CurrentRuleset /\ PlaceOf(m)' = PlaceOf(m)
    BY <1>2, <2>1 DEF CurrentRuleset, Ruleset, PlaceOf
  <2>3. ~IsIDB(r)
    BY <2>1, EDBRuleset
  <2>4. current' = current + 1
    BY <1>1, <1>4, <2>3 DEF FinishRule, FinishEDB, TimeOut
  <2>5. m \in CurrentRuleset /\ order[m] \in Rules /\ PlaceOf(m) \in Nat /\ current \in Nat
    BY <1>4, <2>2, Places DEF TypeOK
  <2>6. CASE PlaceOf(m) < current
    BY <1>4, <2>1, <2>5, <2>6 DEF EDBInv, TypeOK
  <2>7. CASE PlaceOf(m) = current
    <3>1. order[m] = r
      BY <2>5, <2>7, Places DEF TypeOK
    <3> QED
      BY <2>3, <2>5, <3>1, EDBRuleFacts, RuleDoneSaturates
  <2> QED
    BY <1>4, <2>2, <2>4, <2>5, <2>6, <2>7
<1>5. timedOut' \in BOOLEAN
  BY <1>2 DEF TypeOK
<1>6. phase' \in {"edb", "extEdb"} /\ ~timedOut' =>
        \A m \in CurrentRuleset' : PlaceOf(m)' < current' => SaturatedRule(order[m])'
  BY <1>2, <1>3, <1>4, <1>5
<1> QED
  BY <1>2, <1>3, <1>5, <1>6 DEF EDBInv

\* What holds of saturated rules without IDB literal survives the addition of facts.
LEMMA EDBStays ==
  ASSUME TypeOK, EDBInv, UNCHANGED <<db, order, control>>,
         \A f \in Facts : stamp[f] > 0 => stamp'[f] > 0
  PROVE  EDBInv'
<1>1. /\ CurrentRuleset' = CurrentRuleset
      /\ \A n \in CurrentRuleset : PlaceOf(n)' = PlaceOf(n)
      /\ \A r, ph : InRuleset(r, ph, 0)' <=> InRuleset(r, ph, 0)
  BY DEF control, CurrentRuleset, Ruleset, PlaceOf, InRuleset, IsIDB, Split, StratumOf
<1>2. \A r \in Rules : ~IsIDB(r) /\ SaturatedRule(r) => SaturatedRule(r)'
  BY SaturatedStays, EDBRuleFacts
<1>3. \A r \in Rules : InRuleset(r, "edb", 0) \/ InRuleset(r, "extEdb", 0) => ~IsIDB(r)
  BY DEF InRuleset
<1>4. phase \in {"edb", "extEdb"} => \A n \in CurrentRuleset : order[n] \in Rules /\ ~IsIDB(order[n])
  BY EDBRuleset, Places DEF TypeOK
<1>5. UNCHANGED <<order, stratum, phase, first, current, timedOut>>
  BY DEF control
<1> QED
  BY <1>1, <1>2, <1>3, <1>4, <1>5 DEF EDBInv

LEMMA PlanMonotone ==
  ASSUME TypeOK, NEW r \in Rules, ExecutePlan(r)
  PROVE  UNCHANGED <<db, order, control>> /\ \A f \in Facts : stamp[f] > 0 => stamp'[f] > 0
BY StampsGrow DEF ExecutePlan

\* A fact is derived in its class or, by rules without IDB literal, in the first.
LEMMA DerivedClass ==
  ASSUME TypeOK, EDBInv, NEW r \in Rules, phase # "done", InRuleset(r, phase, stratum), ExecutePlan(r),
         NEW f \in Facts, stamp[f] = 0, stamp'[f] > 0
  PROVE  stratum <= Stratification[PredOf[f]]
<1>1. PICK i \in Applicable(r, plan) : f \in i.head
  BY PlanStamps
<1>2. i \in Instances /\ i.rule = r
  BY <1>1 DEF Applicable, InstancesOf
<1>3. PICK k \in DOMAIN Heads[r] : PredOf[f] = Heads[r][k]
  BY <1>1, <1>2, InstanceFacts DEF FactsOf
<1>4. stratum \in Nat /\ PredOf[f] \in Preds /\ Stratification[PredOf[f]] \in Nat
  BY TypeAssumption DEF TypeOK
<1>5. CASE IsIDB(r)
  <2>1. StratumOf(r) = stratum /\ Body[r] # << >>
    BY <1>5 DEF InRuleset, IsIDB
  <2> QED
    BY <1>3, <2>1, FirstHeadAssumption DEF StratumOf
<1>6. CASE ~IsIDB(r)
  <2>1. phase \in {"edb", "extEdb"} /\ InRuleset(r, phase, 0)
    BY <1>6 DEF InRuleset, TypeOK
  <2>2. stratum > 0 => SaturatedRule(r)
    BY <2>1 DEF EDBInv
  <2>3. ~(stratum > 0)
    BY <2>2, SaturatedDerivesNothing
  <2> QED
    BY <1>4, <2>3
<1> QED
  BY <1>5, <1>6

\* A negated literal is of a class below that of its rule.
LEMMA NegatedClass ==
  ASSUME NEW r \in Rules, NEW i \in InstancesOf(r), NEW f \in NegatedFacts(i)
  PROVE  f \in Facts /\ IsIDB(r) /\ Stratification[PredOf[f]] < StratumOf(r)
<1>1. /\ i \in Instances /\ i.rule = r
      /\ \A j \in DOMAIN Body[r] : i.body[j] \in Facts /\ i.body[j] \in FactsOf(Body[r][j].pred)
  BY InstanceOfFacts
<1>2. PICK j \in DOMAIN i.body \ Positive(r) : f = i.body[j]
  BY <1>1 DEF NegatedFacts
<1>3. j \in DOMAIN Body[r] /\ Body[r][j].negated
  BY <1>1, <1>2, InstanceFacts DEF Positive
<1>4. 1 \in DOMAIN Heads[r]
  <2>1. Heads[r] \in Seq(Preds) /\ Heads[r] # << >>
    BY TypeAssumption
  <2> QED
    BY <2>1
<1>5. Stratification[Body[r][j].pred] < Stratification[Heads[r][1]]
  BY <1>3, <1>4, StratificationAssumption
<1>6. IsIDB(r)
  BY <1>3, BodyFacts
<1> QED
  BY <1>1, <1>2, <1>3, <1>5, <1>6 DEF StratumOf, FactsOf

LEMMA PlanKeepsNegation ==
  ASSUME TypeOK, EDBInv, AssumedInv, NoRegret, NEW r \in Rules, phase # "done",
         InRuleset(r, phase, stratum), ExecutePlan(r)
  PROVE  AssumedInv' /\ NoRegret'
<1>1. \A f \in assumed' : f \in assumed \/ \E i \in Applicable(r, plan) : f \in NegatedFacts(i)
  BY DEF ExecutePlan
<1>2. \A f \in assumed' : f \in Facts /\ f \notin Present /\ Stratification[PredOf[f]] < stratum
  <2>1. \A i \in Applicable(r, plan) : i \in InstancesOf(r) /\ NegatedFacts(i) \cap Present = {}
    BY DEF Applicable
  <2>2. IsIDB(r) => StratumOf(r) = stratum
    BY DEF InRuleset
  <2> QED
    BY <1>1, <2>1, <2>2, NegatedClass DEF AssumedInv, NoRegret, TypeOK
<1>3. stratum' = stratum /\ stratum \in Nat /\ stamp \in [Facts -> Nat] /\ iteration' = iteration
  BY TypeAssumption DEF ExecutePlan, control, TypeOK
<1>4. \A f \in Facts : Stratification[PredOf[f]] \in Nat
  BY TypeAssumption
<1>5. \A f \in assumed' : f \notin Present'
  <2> SUFFICES ASSUME NEW f \in assumed', stamp'[f] > 0 PROVE FALSE
    BY DEF Present
  <2>1. f \in Facts /\ stamp[f] = 0
    BY <1>2, <1>3 DEF Present
  <2> QED
    BY <1>2, <1>3, <1>4, <2>1, DerivedClass
<1> QED
  BY <1>2, <1>3, <1>5 DEF AssumedInv, NoRegret

LEMMA StepKeepsNegation ==
  ASSUME TypeOK, ControlInv, ExecutionInv, NoGap, EDBInv, AssumedInv, NoRegret,
         NEW n \in CurrentRuleset, PlaceOf(n) = current, NEW r \in Rules, r = order[n],
         phase # "done", InRuleset(r, phase, stratum), Step(r)
  PROVE  EDBInv' /\ AssumedInv' /\ NoRegret'
<1>1. CASE StartRule(r)
  <2>1. UNCHANGED <<db, order, stamp, control, assumed>>
    BY <1>1 DEF StartRule
  <2>2. AssumedInv' /\ NoRegret'
    BY <2>1 DEF AssumedInv, NoRegret, Present, control
  <2> QED
    BY <2>1, <2>2, EDBStays
<1>2. CASE ExecutePlan(r)
  BY <1>2, PlanMonotone, EDBStays, PlanKeepsNegation
<1>3. CASE SkipRule(r) \/ EndRule(r)
  <2>1. UNCHANGED <<stamp, stratum, assumed>>
    BY <1>3 DEF SkipRule, EndRule, FinishRule
  <2>2. AssumedInv' /\ NoRegret'
    BY <2>1 DEF AssumedInv, NoRegret, Present
  <2> QED
    BY <1>3, <2>2, EDBFinishRule
<1> QED
  BY <1>1, <1>2, <1>3 DEF Step

LEMMA NegationInvariant == Spec => [](EDBInv /\ AssumedInv /\ NoRegret)
<1> DEFINE Inv == TypeOK /\ ControlInv /\ ExecutionInv /\ NoGap
           NegationInv == EDBInv /\ AssumedInv /\ NoRegret
<1>1. Init => NegationInv
  <2> SUFFICES ASSUME Init PROVE NegationInv
    OBVIOUS
  <2>1. order \in Orders /\ phase = "edb" /\ first = TRUE /\ stratum = 0 /\ current = 1 /\ assumed = {}
    BY DEF Init
  <2>2. EDBInv
    BY <2>1, Places DEF EDBInv
  <2> QED
    BY <2>1, <2>2 DEF AssumedInv, NoRegret
<1>2. Inv /\ NegationInv /\ [Next]_vars => NegationInv'
  <2> SUFFICES ASSUME Inv, NegationInv, [Next]_vars
               PROVE  NegationInv'
    OBVIOUS
  <2>1. CASE ExecuteCurrent
    BY <2>1, CurrentStep, StepKeepsNegation DEF ExecuteCurrent
  <2>2. CASE NextPhase
    <3>1. UNCHANGED <<stamp, assumed>> /\ stratum' \in {stratum, stratum + 1} /\ stratum \in Nat
      <4>1. stratum \in Nat
        BY TypeAssumption DEF TypeOK
      <4> QED
        BY <2>2, <4>1 DEF NextPhase, EnterDatalog, EnterExtEDB, EnterExt, NextRound, NextStratum, Return, Leave
    <3>2. \A f \in assumed : Stratification[PredOf[f]] \in Nat
      BY TypeAssumption DEF TypeOK
    <3>3. AssumedInv' /\ NoRegret'
      BY <3>1, <3>2 DEF AssumedInv, NoRegret, Present
    <3> QED
      BY <2>2, <3>3, EDBNextPhase
  <2>3. CASE UNCHANGED vars
    <3>1. UNCHANGED <<db, order, control, stamp, assumed>>
      BY <2>3 DEF vars
    <3>2. AssumedInv' /\ NoRegret'
      BY <3>1 DEF AssumedInv, NoRegret, Present, control
    <3> QED
      BY <3>1, <3>2, EDBStays
  <2> QED
    BY <2>1, <2>2, <2>3 DEF Next
<1> QED
  BY <1>1, <1>2, TypeCorrect, GapInvariant, PTL DEF Spec

\* NoRegret: a fact whose absence let a rule fire is not derived later.  The rules
\* of a class are executed when those of lower classes are saturated, and the rules
\* without IDB literal, which are executed again in each class, derive nothing new.
THEOREM NothingRegretted == Spec => []NoRegret
BY NegationInvariant, PTL

-----------------------------------------------------------------------------
(* Saturation                                                              *)

LEMMA NewFactsHere ==
  ASSUME TypeOK, NEW n \in CurrentRuleset, PlaceOf(n) = current
  PROVE  NewFacts <=> plan > 0 /\ Derived(order[n])
<1>1. \A m \in CurrentRuleset : PlaceOf(m) = current => m = n
  BY Places DEF TypeOK
<1> QED
  BY <1>1 DEF NewFacts

\* The literals of a rule are of its class or a lower one.
LEMMA BodyClass ==
  ASSUME NEW r \in Rules, NEW j \in DOMAIN Body[r]
  PROVE  Stratification[Body[r][j].pred] <= StratumOf(r)
<1>1. Heads[r] \in Seq(Preds) /\ Heads[r] # << >>
  BY TypeAssumption
<1>2. 1 \in DOMAIN Heads[r]
  BY <1>1
<1> QED
  BY <1>2, StratificationAssumption DEF StratumOf

\* A plan after which the rule has not derived anything adds no fact.
LEMMA QuietPlan ==
  ASSUME TypeOK, NEW n \in CurrentRuleset, PlaceOf(n) = current,
         NEW r \in Rules, r = order[n], ExecutePlan(r), ~NewFacts'
  PROVE  /\ ~NewFacts
         /\ \A f \in Facts : stamp'[f] > 0 => stamp[f] > 0
         /\ \A s \in Rules : SaturatedRule(s) => SaturatedRule(s)'
<1>1. /\ UNCHANGED <<db, order, iteration, lastExecution, control>>
      /\ plan' = plan + 1 /\ plan \in Nat
  BY DEF ExecutePlan, TypeOK
<1>2. CurrentRuleset' = CurrentRuleset /\ PlaceOf(n)' = PlaceOf(n) /\ current' = current
  BY <1>1 DEF control, CurrentRuleset, Ruleset, PlaceOf
<1>3. ~Derived(r)'
  BY <1>1, <1>2 DEF NewFacts
<1>4. /\ \A f \in Facts : stamp[f] \in Nat /\ stamp'[f] \in Nat /\ stamp[f] <= stamp'[f]
      /\ iteration \in Nat
  BY PlanStamps, StampsGrow DEF TypeOK
<1>5. ~Derived(r)
  BY <1>1, <1>3, <1>4 DEF Derived, FactsOf
<1>6. \A f \in Facts : stamp'[f] > 0 => stamp[f] > 0
  BY <1>3, <1>4, DerivedHere
<1>7. \A s \in Rules : SaturatedRule(s) => SaturatedRule(s)'
  BY <1>1, <1>6, StampsGrow, SaturatedStays DEF FactsOf
<1> QED
  BY <1>5, <1>6, <1>7, NewFactsHere

LEMMA PlanKeepsFresh ==
  ASSUME TypeOK, EDBInv, FreshInv, ~timedOut, NEW n \in CurrentRuleset, PlaceOf(n) = current,
         NEW r \in Rules, r = order[n], InRuleset(r, phase, stratum), ExecutePlan(r)
  PROVE  FreshInv'
<1>1. /\ UNCHANGED <<db, order, iteration, lastExecution, control>>
      /\ plan' > 0 /\ iteration \in Nat \ {0} /\ lastExecution[r] < iteration /\ lastExecution[r] \in Nat
  BY DEF ExecutePlan, TypeOK
<1>2. UNCHANGED <<order, iteration, phase, stratum, first, current>> /\ Ruleset("ext", stratum)' = Ruleset("ext", stratum)
  BY <1>1 DEF control, Ruleset, InRuleset, IsIDB, Split, StratumOf
<1>3. \A f : FromExtEDB(f)' <=> FromExtEDB(f)
  BY DEF FromExtEDB, InRuleset, IsIDB, Split, StratumOf
<1> SUFFICES ASSUME NEW f \in Facts, stamp'[f] = iteration, phase = "extEdb"
             PROVE  FromExtEDB(f) /\ (first \/ Ruleset("ext", stratum) = {})
  BY <1>1, <1>2, <1>3 DEF FreshInv
<1>4. CASE stamp[f] > 0
  <2>1. stamp[f] = iteration
    BY <1>1, <1>4, PlanStamps
  <2> QED
    BY <2>1 DEF FreshInv
<1>5. CASE stamp[f] = 0
  <2>1. PICK i \in Applicable(r, plan) : f \in i.head
    BY <1>1, <1>5, PlanStamps
  <2>2. i \in Instances /\ i.rule = r
    BY <2>1 DEF Applicable, InstancesOf
  <2>3. ~IsIDB(r) /\ InRuleset(r, "extEdb", 0)
    BY EDBRuleset
  <2>4. ~SaturatedRule(r)
    BY <1>1, <1>5, SaturatedDerivesNothing
  <2>5. first
    BY <2>3, <2>4 DEF EDBInv, TypeOK
  <2> QED
    BY <2>1, <2>2, <2>3, <2>5 DEF FromExtEDB
<1> QED
  BY <1>4, <1>5 DEF TypeOK

LEMMA PlanKeepsSaturation ==
  ASSUME TypeOK, EDBInv, SaturationInv, NEW n \in CurrentRuleset, PlaceOf(n) = current,
         phase # "done", NEW r \in Rules, r = order[n], InRuleset(r, phase, stratum), ExecutePlan(r)
  PROVE  SaturationInv'
<1>1. /\ UNCHANGED <<db, order, iteration, lastExecution, control>>
      /\ plan' = plan + 1 /\ plan \in Nat
  BY DEF ExecutePlan, TypeOK
<1>2. UNCHANGED <<stratum, phase, first, newDer, limitView, current, idle, timedOut>>
  BY <1>1 DEF control
<1>3. /\ CurrentRuleset' = CurrentRuleset
      /\ \A m \in CurrentRuleset : PlaceOf(m)' = PlaceOf(m) /\ (Recent(m)' <=> Recent(m))
      /\ \A s, ph, k : InRuleset(s, ph, k)' <=> InRuleset(s, ph, k)
  BY <1>1, <1>2 DEF CurrentRuleset, Ruleset, PlaceOf, Recent, InRuleset, IsIDB, Split, StratumOf
<1>4. \A m \in CurrentRuleset : order[m] \in Rules
  BY Places DEF TypeOK
<1>5. LimitInv' /\ Saturated'
  BY <1>1, <1>2 DEF SaturationInv, LimitInv, Saturated
<1>6. FinishedInv'
  <2> SUFFICES ASSUME NEW s \in Rules, IsIDB(s), StratumOf(s) < stratum PROVE SaturatedRule(s)'
    BY <1>2 DEF FinishedInv, IsIDB, StratumOf
  <2>1. SaturatedRule(s)
    BY DEF SaturationInv, FinishedInv
  <2>2. ASSUME NEW j \in Positive(s), NEW f \in FactsOf(Body[s][j].pred), stamp'[f] > 0
        PROVE  stamp[f] > 0
    <3>1. f \in Facts /\ Stratification[PredOf[f]] <= StratumOf(s)
      BY BodyClass DEF Positive, FactsOf
    <3>2. stratum \in Nat /\ Stratification[PredOf[f]] \in Nat /\ StratumOf(s) \in Nat /\ stamp[f] \in Nat
      <4>1. Heads[s] \in Seq(Preds) /\ Heads[s] # << >>
        BY TypeAssumption
      <4>2. Heads[s][1] \in Preds
        BY <4>1
      <4> QED
        BY <3>1, <4>2, TypeAssumption DEF TypeOK, StratumOf
    <3>3. ~(stratum <= Stratification[PredOf[f]])
      BY <3>1, <3>2
    <3> QED
      BY <2>2, <3>1, <3>2, <3>3, DerivedClass
  <2> QED
    BY <1>1, <2>1, <2>2, StampsGrow, SaturatedStays
<1>7. ASSUME ~timedOut
      PROVE  FreshInv' /\ ViewInv' /\ DatalogInv' /\ ExtInv'
  <2>0. FreshInv /\ ViewInv /\ DatalogInv /\ ExtInv
    BY <1>7 DEF SaturationInv
  <2>1. FreshInv'
    BY <1>7, <2>0, PlanKeepsFresh
  <2>2. ASSUME phase = "extEdb", first, ~newDer, ~NewFacts', NEW f \in Facts, NEW i \in Instances,
               NEW m \in CurrentRuleset, f \in i.head, i.rule = order[m], PlaceOf(m) < current
        PROVE  stamp'[f] # iteration
    <3>1. stamp[f] # iteration
      BY <2>0, <2>2, QuietPlan DEF ViewInv
    <3>2. stamp[f] \in Nat /\ stamp'[f] \in Nat /\ iteration \in Nat \ {0} /\ lastExecution[r] < iteration
      BY PlanStamps DEF TypeOK
    <3>3. lastExecution[r] \in Nat
      BY DEF TypeOK
    <3>4. stamp'[f] > 0 => stamp[f] > 0
      BY <2>2, QuietPlan
    <3> QED
      BY <3>1, <3>2, <3>3, <3>4, PlanStamps
  <2>3. ASSUME phase = "ext", ~newDer, ~NewFacts', CurrentRuleset # {}, NEW f \in Facts
        PROVE  stamp'[f] < limitView
    <3>1. \A g \in Facts : stamp[g] < limitView
      BY <2>0, <2>3, QuietPlan DEF ViewInv
    <3>2. stamp'[f] > 0 => stamp[f] > 0
      BY <2>3, QuietPlan
    <3>3. stamp[f] \in Nat /\ stamp'[f] \in Nat
      BY PlanStamps DEF TypeOK
    <3>4. stamp[f] > 0 => stamp'[f] = stamp[f] \/ \E g \in Facts : stamp'[f] = stamp[g]
      BY PlanStamps
    <3> QED
      BY <3>1, <3>2, <3>3, <3>4
  <2>4. ViewInv'
    BY <1>1, <1>2, <1>3, <2>2, <2>3 DEF ViewInv
  <2>5. ~NewFacts' => ~NewFacts /\ \A s \in Rules : SaturatedRule(s) => SaturatedRule(s)'
    BY QuietPlan
  <2>6. DatalogInv'
    BY <1>1, <1>2, <1>3, <1>4, <2>0, <2>5 DEF DatalogInv
  <2>7. ExtInv'
    BY <1>1, <1>2, <1>3, <1>4, <2>0, <2>5 DEF ExtInv
  <2> QED
    BY <2>1, <2>4, <2>6, <2>7
<1> QED
  BY <1>2, <1>5, <1>6, <1>7 DEF SaturationInv

\* Entering a rule changes nothing that the other parts tell apart.
LEMMA StartKeepsSaturation ==
  ASSUME TypeOK, SaturationInv, NEW n \in CurrentRuleset, PlaceOf(n) = current,
         NEW r \in Rules, r = order[n], StartRule(r)
  PROVE  SaturationInv'
<1>1. /\ plan = 0 /\ plan' = 1
      /\ UNCHANGED <<db, order, stamp, iteration, stratum, phase, first, newDer, limitView, current, idle, timedOut>>
  BY DEF StartRule, control
<1>2. ~NewFacts
  BY <1>1 DEF NewFacts
<1>3. /\ CurrentRuleset' = CurrentRuleset /\ Ruleset("ext", stratum)' = Ruleset("ext", stratum)
      /\ \A m : PlaceOf(m)' = PlaceOf(m) /\ (Recent(m)' <=> Recent(m))
      /\ \A s, ph, k : InRuleset(s, ph, k)' <=> InRuleset(s, ph, k)
      /\ \A f : FromExtEDB(f)' <=> FromExtEDB(f)
  BY <1>1 DEF CurrentRuleset, Ruleset, PlaceOf, Recent, InRuleset, IsIDB, Split, StratumOf, FromExtEDB
<1>4. \A s \in Rules : SaturatedRule(s)' <=> SaturatedRule(s)
  BY <1>1, SaturatedSame
<1>5. \A m \in CurrentRuleset : order[m] \in Rules
  BY Places DEF TypeOK
<1>6. LimitInv' /\ FinishedInv' /\ Saturated'
  BY <1>1, <1>4 DEF SaturationInv, LimitInv, FinishedInv, Saturated, IsIDB, StratumOf
<1>7. ASSUME ~timedOut PROVE FreshInv' /\ ViewInv' /\ DatalogInv' /\ ExtInv'
  <2>0. FreshInv /\ ViewInv /\ DatalogInv /\ ExtInv
    BY <1>7 DEF SaturationInv
  <2>1. FreshInv'
    BY <1>1, <1>3, <2>0 DEF FreshInv
  <2>2. ViewInv'
    BY <1>1, <1>2, <1>3, <2>0 DEF ViewInv
  <2>3. DatalogInv'
    BY <1>1, <1>2, <1>3, <1>4, <1>5, <2>0 DEF DatalogInv
  <2>4. ExtInv'
    BY <1>1, <1>2, <1>3, <1>4, <1>5, <2>0 DEF ExtInv
  <2> QED
    BY <2>1, <2>2, <2>3, <2>4
<1> QED
  BY <1>1, <1>6, <1>7 DEF SaturationInv

\* A rule is finished with an answer that tells whether it derived something.
LEMMA FinishResponse ==
  ASSUME TypeOK, NEW n \in CurrentRuleset, PlaceOf(n) = current,
         NEW r \in Rules, r = order[n], SkipRule(r) \/ EndRule(r)
  PROVE  \E response \in BOOLEAN : /\ FinishRule(r, response)
                                   /\ NewFacts => response
                                   /\ ~response => SkipRule(r) \/ (~SkipRule(r) /\ ~Derived(r))
<1> DEFINE Answer(response) == /\ FinishRule(r, response)
                               /\ NewFacts => response
                               /\ ~response => SkipRule(r) \/ (~SkipRule(r) /\ ~Derived(r))
<1>1. CASE SkipRule(r)
  <2>1. FinishRule(r, FALSE) /\ ~NewFacts
    <3>1. FinishRule(r, FALSE) /\ plan = 0
      BY <1>1, Zenon DEF SkipRule
    <3>2. ~NewFacts
      BY <3>1 DEF NewFacts
    <3> QED
      BY <3>1, <3>2, Zenon
  <2>2. Answer(FALSE)
    BY <1>1, <2>1
  <2> HIDE DEF Answer
  <2>3. \E response \in BOOLEAN : Answer(response)
    BY <2>2
  <2> QED
    BY <2>3 DEF Answer
<1>2. CASE ~SkipRule(r)
  <2>1. FinishRule(r, Derived(r)) /\ Derived(r) \in BOOLEAN
    BY <1>2 DEF EndRule, Derived
  <2>2. NewFacts => Derived(r)
    BY NewFactsHere
  <2>3. Answer(Derived(r))
    BY <1>2, <2>1, <2>2
  <2> HIDE DEF Answer
  <2>4. \E response \in BOOLEAN : Answer(response)
    BY <2>1, <2>3
  <2> QED
    BY <2>4 DEF Answer
<1> QED
  BY <1>1, <1>2

\* What no rule changes when it is finished, unless the time is up.
LEMMA FinishFrame ==
  ASSUME TypeOK, phase # "done", NEW r \in Rules, InRuleset(r, phase, stratum), NEW response \in BOOLEAN,
         FinishRule(r, response)
  PROVE  /\ UNCHANGED <<db, order, stamp, stratum, first, limitView>>
         /\ newDer' = (newDer \/ response) /\ plan' = 0 /\ ~NewFacts'
         /\ \A s \in Rules : SaturatedRule(s)' <=> SaturatedRule(s)
         /\ \A s, ph, k : InRuleset(s, ph, k)' <=> InRuleset(s, ph, k)
         /\ \A f : FromExtEDB(f)' <=> FromExtEDB(f)
         /\ Ruleset("ext", stratum)' = Ruleset("ext", stratum)
         /\ \/ /\ UNCHANGED <<phase, timedOut>>
               /\ CurrentRuleset' = CurrentRuleset
               /\ \A m : PlaceOf(m)' = PlaceOf(m)
               /\ \/ IsIDB(r) /\ phase \in {"datalog", "ext"} /\ FinishSaturating(r, response)
                  \/ ~IsIDB(r) /\ phase \in {"edb", "extEdb"} /\ FinishEDB
            \/ /\ timedOut' = TRUE /\ iteration' = iteration
               /\ phase' \in {phase, "done"}
<1>1. UNCHANGED <<db, order, stamp, stratum, first, limitView>> /\ newDer' = (newDer \/ response) /\ plan' = 0
  BY DEF FinishRule
<1>2. ~NewFacts'
  BY <1>1 DEF NewFacts
<1>3. \A s \in Rules : SaturatedRule(s)' <=> SaturatedRule(s)
  BY <1>1, SaturatedSame
<1>4. /\ \A s, ph, k : InRuleset(s, ph, k)' <=> InRuleset(s, ph, k)
      /\ \A f : FromExtEDB(f)' <=> FromExtEDB(f)
      /\ Ruleset("ext", stratum)' = Ruleset("ext", stratum)
  BY <1>1 DEF InRuleset, IsIDB, Split, StratumOf, FromExtEDB, Ruleset
<1>5. CASE TimeOut
  BY <1>1, <1>2, <1>3, <1>4, <1>5 DEF TimeOut
<1>6. CASE ~TimeOut
  <2>1. /\ IF IsIDB(r) THEN FinishSaturating(r, response) ELSE FinishEDB
        /\ UNCHANGED <<phase, timedOut>>
    BY <1>6 DEF FinishRule
  <2>2. CurrentRuleset' = CurrentRuleset /\ \A m : PlaceOf(m)' = PlaceOf(m)
    BY <1>1, <2>1 DEF CurrentRuleset, Ruleset, PlaceOf
  <2>3. /\ IsIDB(r) => phase \in {"datalog", "ext"}
        /\ ~IsIDB(r) => phase \in {"edb", "extEdb"}
    BY DEF InRuleset, TypeOK
  <2> QED
    BY <1>1, <1>2, <1>3, <1>4, <2>1, <2>2, <2>3
<1> QED
  BY <1>5, <1>6

LEMMA FinishKeepsFresh ==
  ASSUME TypeOK, phase # "done", FreshInv, ~timedOut', NEW r \in Rules, InRuleset(r, phase, stratum),
         NEW response \in BOOLEAN, FinishRule(r, response)
  PROVE  FreshInv'
<1>1. /\ UNCHANGED <<stamp, stratum, first, phase>> /\ plan' = 0
      /\ Ruleset("ext", stratum)' = Ruleset("ext", stratum)
      /\ \A f : FromExtEDB(f)' <=> FromExtEDB(f)
      /\ \/ IsIDB(r) /\ phase \in {"datalog", "ext"} /\ FinishSaturating(r, response)
         \/ ~IsIDB(r) /\ phase \in {"edb", "extEdb"} /\ FinishEDB
  BY FinishFrame
<1>2. stamp \in [Facts -> 0 .. iteration] /\ iteration \in Nat
  BY DEF TypeOK
<1>3. iteration' = iteration + 1 \/ (phase = "extEdb" /\ iteration' = iteration)
  BY <1>1 DEF FinishSaturating, FinishEDB
<1>4. CASE iteration' = iteration + 1
  <2>1. \A f \in Facts : stamp'[f] # iteration'
    BY <1>1, <1>2, <1>4
  <2> QED
    BY <2>1 DEF FreshInv
<1>5. CASE phase = "extEdb" /\ iteration' = iteration
  BY <1>1, <1>5 DEF FreshInv
<1> QED
  BY <1>3, <1>4, <1>5

LEMMA FinishKeepsView ==
  ASSUME TypeOK, ControlInv, phase # "done", ViewInv, ~timedOut', NEW n \in CurrentRuleset, PlaceOf(n) = current,
         NEW r \in Rules, r = order[n], InRuleset(r, phase, stratum), NEW response \in BOOLEAN,
         FinishRule(r, response), NewFacts => response,
         ~response => SkipRule(r) \/ (~SkipRule(r) /\ ~Derived(r))
  PROVE  ViewInv'
<1>1. /\ UNCHANGED <<order, stamp, stratum, first, limitView, phase>> /\ newDer' = (newDer \/ response)
      /\ CurrentRuleset' = CurrentRuleset /\ \A m : PlaceOf(m)' = PlaceOf(m)
      /\ \/ IsIDB(r) /\ phase \in {"datalog", "ext"} /\ FinishSaturating(r, response)
         \/ ~IsIDB(r) /\ phase \in {"edb", "extEdb"} /\ FinishEDB
  BY FinishFrame
<1>2. ~newDer' => ~newDer /\ ~NewFacts /\ ~response
  BY <1>1
<1>3. phase = "ext" /\ ~newDer' /\ CurrentRuleset # {} => \A f \in Facts : stamp[f] < limitView
  BY <1>2 DEF ViewInv
<1>4. ASSUME phase = "extEdb", first, ~newDer', NEW f \in Facts, NEW i \in Instances,
             NEW m \in CurrentRuleset, f \in i.head, i.rule = order[m], PlaceOf(m) < current'
      PROVE  stamp[f] # iteration'
  <2>1. ~IsIDB(r) /\ current' = current + 1 /\ iteration' = iteration
    BY <1>1, <1>4 DEF FinishEDB
  <2>2. PlaceOf(m) \in Nat /\ current \in Nat /\ iteration \in Nat /\ stamp[f] \in Nat
    BY Places DEF TypeOK
  <2>3. CASE PlaceOf(m) < current
    BY <1>2, <1>4, <2>1, <2>3 DEF ViewInv
  <2>4. CASE PlaceOf(m) = current
    <3>1. i.rule = r
      BY <1>4, <2>4, Places DEF TypeOK
    <3>2. PICK k \in DOMAIN Heads[r] : f \in FactsOf(Heads[r][k])
      BY <1>4, <3>1, InstanceFacts
    <3>3. i.edb # {}
      <4>1. Body[r] = << >>
        BY <2>1 DEF IsIDB
      <4> QED
        BY <3>1, <4>1, SafetyAssumption
    <3>4. BodyChanged(r)
      BY <2>1, <3>1, <3>3 DEF BodyChanged, ControlInv
    <3>5. ~Derived(r)
      BY <1>2, <1>4, <3>4 DEF SkipRule
    <3> QED
      BY <2>1, <2>2, <3>2, <3>5 DEF Derived
  <2> QED
    BY <1>4, <2>1, <2>2, <2>3, <2>4
<1> QED
  BY <1>1, <1>3, <1>4 DEF ViewInv

\* The loop over the datalog rules: the rules executed since the last answer are
\* the ones before the next rule, around the ruleset.
LEMMA RecentNext ==
  ASSUME NEW size \in Nat, NEW c \in 1 .. size, NEW quiet \in Nat, quiet < size, NEW p \in 1 .. size,
         NEW nextC, nextC = IF quiet + 1 = size THEN size + 1 ELSE IF c < size THEN c + 1 ELSE 1,
         (p < nextC /\ p >= nextC - (quiet + 1)) \/ p >= nextC + size - (quiet + 1)
  PROVE  (p < c /\ p >= c - quiet) \/ p >= c + size - quiet \/ p = c
<1>1. CASE quiet + 1 = size
  BY <1>1
<1>2. CASE quiet + 1 # size /\ c < size
  <2>1. nextC = c + 1
    BY <1>2
  <2> QED
    BY <1>2, <2>1
<1>3. CASE quiet + 1 # size /\ c = size
  <2>1. nextC = 1
    BY <1>3
  <2> QED
    BY <1>3, <2>1
<1> QED
  BY <1>1, <1>2, <1>3

LEMMA FinishKeepsDatalog ==
  ASSUME TypeOK, ControlInv, ExecutionInv, NoGap, phase # "done", LimitInv, DatalogInv, ~timedOut',
         NEW n \in CurrentRuleset, PlaceOf(n) = current, NEW r \in Rules, r = order[n],
         InRuleset(r, phase, stratum), SkipRule(r) \/ EndRule(r), NEW response \in BOOLEAN,
         FinishRule(r, response), NewFacts => response,
         ~response => SkipRule(r) \/ (~SkipRule(r) /\ ~Derived(r))
  PROVE  DatalogInv'
<1>0. PICK size : size = Cardinality(CurrentRuleset)
  OBVIOUS
<1>1. /\ UNCHANGED <<order, stamp, phase>> /\ ~NewFacts'
      /\ CurrentRuleset' = CurrentRuleset /\ \A m : PlaceOf(m)' = PlaceOf(m)
      /\ \A s \in Rules : SaturatedRule(s)' <=> SaturatedRule(s)
      /\ \/ IsIDB(r) /\ phase \in {"datalog", "ext"} /\ FinishSaturating(r, response)
         \/ ~IsIDB(r) /\ phase \in {"edb", "extEdb"} /\ FinishEDB
  BY FinishFrame
<1> SUFFICES ASSUME phase = "datalog"
             PROVE  /\ current' <= size => idle' < size
                    /\ current' > size => current' = size + 1 /\ idle' = size
                    /\ \A m \in CurrentRuleset : Recent(m)' => SaturatedRule(order[m])
  <2>1. \A m \in CurrentRuleset : order[m] \in Rules
    BY Places DEF TypeOK
  <2> QED
    BY <1>0, <1>1, <2>1 DEF DatalogInv
<1>2. /\ size \in Nat /\ current \in 1 .. size /\ idle \in Nat /\ idle < size
      /\ \A m \in CurrentRuleset : PlaceOf(m) \in 1 .. size /\ order[m] \in Rules
  <2>1. /\ size \in Nat /\ idle \in Nat
        /\ \A m \in CurrentRuleset : PlaceOf(m) \in 1 .. size /\ order[m] \in Rules
    BY <1>0, Places DEF TypeOK
  <2> QED
    BY <1>0, <2>1 DEF DatalogInv
<1>3. ~(Split /\ r \in Existential) /\ limitView = 0
  BY DEF InRuleset, LimitInv
<1>4. /\ idle' = IF response THEN 0 ELSE idle + 1
      /\ current' = IF idle' = size THEN size + 1 ELSE (current % size) + 1
  BY <1>0, <1>1, <1>3 DEF FinishSaturating
<1>5. (current % size) + 1 \in 1 .. size
  BY <1>2, NextPlace
<1>6. current' <= size => idle' < size
  BY <1>2, <1>4, <1>5
<1>7. current' > size => current' = size + 1 /\ idle' = size
  BY <1>2, <1>4, <1>5
<1>8. ASSUME NEW m \in CurrentRuleset, Recent(m)' PROVE SaturatedRule(order[m])
  <2>0. PICK p, quiet, next : p = PlaceOf(m) /\ quiet = idle' /\ next = current'
    OBVIOUS
  <2>1. (p < next /\ p >= next - quiet) \/ p >= next + size - quiet
    BY <1>0, <1>1, <1>8, <2>0 DEF Recent
  <2>2. p \in 1 .. size
    BY <1>2, <2>0
  <2>3. ~response
    <3> SUFFICES ASSUME response PROVE FALSE
      OBVIOUS
    <3>1. quiet = 0 /\ next \in 1 .. size + 1
      BY <1>2, <1>4, <1>5, <2>0
    <3> QED
      BY <1>2, <2>1, <2>2, <3>1
  <2>4. quiet = idle + 1 /\ next = IF idle + 1 = size THEN size + 1 ELSE (current % size) + 1
    BY <1>4, <2>0, <2>3
  <2>5. (p < current /\ p >= current - idle) \/ p >= current + size - idle \/ p = current
    <3>1. (p < next /\ p >= next - (idle + 1)) \/ p >= next + size - (idle + 1)
      BY <2>1, <2>4
    <3>2. size \in Nat /\ current \in 1 .. size /\ idle \in Nat /\ idle < size
      BY <1>2
    <3>3. next = IF idle + 1 = size THEN size + 1 ELSE IF current < size THEN current + 1 ELSE 1
      BY <2>4, <3>2, NextPlace
    <3> QED
      BY <2>2, <3>1, <3>2, <3>3, RecentNext
  <2>6. CASE Recent(m)
    BY <2>3, <2>6 DEF DatalogInv
  <2>7. CASE PlaceOf(m) = current
    <3>1. order[m] = r
      BY <2>7, Places DEF TypeOK
    <3> QED
      BY <1>3, <2>3, <3>1, RuleDoneSaturates
  <2> QED
    BY <1>0, <2>0, <2>5, <2>6, <2>7 DEF Recent
<1> QED
  BY <1>6, <1>7, <1>8

LEMMA FinishKeepsExt ==
  ASSUME TypeOK, ControlInv, ExecutionInv, NoGap, phase # "done", ViewInv, ExtInv, ~timedOut',
         NEW n \in CurrentRuleset, PlaceOf(n) = current, NEW r \in Rules, r = order[n],
         InRuleset(r, phase, stratum), SkipRule(r) \/ EndRule(r), NEW response \in BOOLEAN,
         FinishRule(r, response), NewFacts => response,
         ~response => SkipRule(r) \/ (~SkipRule(r) /\ ~Derived(r))
  PROVE  ExtInv'
<1> DEFINE size == Cardinality(CurrentRuleset)
<1>1. /\ UNCHANGED <<order, stamp, stratum, phase>> /\ newDer' = (newDer \/ response)
      /\ CurrentRuleset' = CurrentRuleset /\ \A m : PlaceOf(m)' = PlaceOf(m)
      /\ \A s \in Rules : SaturatedRule(s)' <=> SaturatedRule(s)
      /\ \A s, ph, k : InRuleset(s, ph, k)' <=> InRuleset(s, ph, k)
      /\ \/ IsIDB(r) /\ phase \in {"datalog", "ext"} /\ FinishSaturating(r, response)
         \/ ~IsIDB(r) /\ phase \in {"edb", "extEdb"} /\ FinishEDB
  BY FinishFrame
<1>2. ~newDer' => ~newDer /\ ~NewFacts /\ ~response
  BY <1>1
<1>3. phase \in {"extEdb", "ext"} /\ ~newDer' =>
        \A s \in Rules : InRuleset(s, "datalog", stratum) => SaturatedRule(s)
  BY <1>2 DEF ExtInv
<1>4. \A m \in CurrentRuleset : order[m] \in Rules
  BY Places DEF TypeOK
<1> SUFFICES ASSUME phase = "ext"
             PROVE  /\ current' <= size + 1 /\ idle' < current'
                    /\ ~newDer' => \A m \in CurrentRuleset : PlaceOf(m) < current' => SaturatedRule(order[m])
  BY <1>1, <1>3, <1>4 DEF ExtInv
<1>5. /\ size \in Nat /\ current \in 1 .. size /\ idle \in Nat /\ idle < current
      /\ \A m \in CurrentRuleset : PlaceOf(m) \in 1 .. size
  <2>1. size \in Nat /\ idle \in Nat /\ \A m \in CurrentRuleset : PlaceOf(m) \in 1 .. size
    BY Places DEF TypeOK
  <2> QED
    BY <2>1 DEF ExtInv
<1>6. Split /\ r \in Existential /\ Restricted
  BY DEF InRuleset, Split
<1>7. /\ idle' = IF response THEN 0 ELSE idle + 1
      /\ current' = IF response \/ idle' = size \/ (current % size) + 1 = 1 THEN size + 1 ELSE (current % size) + 1
  BY <1>1, <1>6 DEF FinishSaturating
<1>8. (current % size) + 1 = IF current < size THEN current + 1 ELSE 1
  BY <1>5, NextPlace
<1>9. response => idle' = 0 /\ current' = size + 1
  BY <1>7
<1>10. ~response => idle' = idle + 1 /\ current' = current + 1
  BY <1>5, <1>7, <1>8
<1>11. current' <= size + 1 /\ idle' < current'
  BY <1>5, <1>9, <1>10
<1>12. ASSUME ~newDer', NEW m \in CurrentRuleset, PlaceOf(m) < current'
       PROVE  SaturatedRule(order[m])
  <2>1. current' = current + 1
    BY <1>2, <1>10, <1>12
  <2>2. CASE PlaceOf(m) < current
    BY <1>2, <1>12, <2>2 DEF ExtInv
  <2>3. CASE PlaceOf(m) = current
    <3>1. order[m] = r
      BY <2>3, Places DEF TypeOK
    <3>2. \A f \in Facts : stamp[f] < limitView /\ stamp[f] \in Nat
      BY <1>2, <1>12 DEF ViewInv, TypeOK
    <3>3. \A f \in Facts : stamp[f] < Limit
      BY <3>2, LimitFacts DEF Limit
    <3> QED
      BY <3>1, <3>3, RuleDoneSaturates
  <2> QED
    BY <1>5, <1>12, <2>1, <2>2, <2>3
<1> QED
  BY <1>11, <1>12

LEMMA FinishKeepsSaturation ==
  ASSUME TypeOK, ControlInv, ExecutionInv, NoGap, SaturationInv, phase # "done",
         NEW n \in CurrentRuleset, PlaceOf(n) = current, NEW r \in Rules, r = order[n],
         InRuleset(r, phase, stratum), SkipRule(r) \/ EndRule(r)
  PROVE  SaturationInv'
<1>1. PICK response \in BOOLEAN :
        /\ FinishRule(r, response) /\ (NewFacts => response)
        /\ ~response => SkipRule(r) \/ (~SkipRule(r) /\ ~Derived(r))
  BY FinishResponse
<1>2. /\ UNCHANGED <<stratum, limitView>>
      /\ \A s \in Rules : SaturatedRule(s)' <=> SaturatedRule(s)
      /\ \/ /\ UNCHANGED <<phase, timedOut>>
            /\ \/ phase \in {"datalog", "ext"}
               \/ phase \in {"edb", "extEdb"} /\ FinishEDB
         \/ timedOut' = TRUE /\ iteration' = iteration /\ phase' \in {phase, "done"}
  BY <1>1, FinishFrame
<1>3. FinishedInv'
  BY <1>2 DEF SaturationInv, FinishedInv, IsIDB, StratumOf
<1>4. LimitInv'
  BY <1>2 DEF SaturationInv, LimitInv, FinishEDB
<1>5. Saturated'
  BY <1>2 DEF Saturated
<1>6. ASSUME ~timedOut' PROVE FreshInv' /\ ViewInv' /\ DatalogInv' /\ ExtInv'
  <2>1. LimitInv /\ FreshInv /\ ViewInv /\ DatalogInv /\ ExtInv
    BY <1>2, <1>6 DEF SaturationInv
  <2>2. FreshInv'
    BY <1>1, <1>6, <2>1, FinishKeepsFresh
  <2>3. ViewInv'
    BY <1>1, <1>6, <2>1, FinishKeepsView
  <2>4. DatalogInv'
    BY <1>1, <1>6, <2>1, FinishKeepsDatalog
  <2>5. ExtInv'
    BY <1>1, <1>6, <2>1, FinishKeepsExt
  <2> QED
    BY <2>2, <2>3, <2>4, <2>5
<1> QED
  BY <1>3, <1>4, <1>5, <1>6 DEF SaturationInv

LEMMA StepKeepsSaturation ==
  ASSUME TypeOK, ControlInv, ExecutionInv, NoGap, EDBInv, SaturationInv, phase # "done",
         NEW n \in CurrentRuleset, PlaceOf(n) = current, NEW r \in Rules, r = order[n],
         InRuleset(r, phase, stratum), Step(r)
  PROVE  SaturationInv'
BY StartKeepsSaturation, PlanKeepsSaturation, FinishKeepsSaturation DEF Step

LEMMA PhaseFrame ==
  ASSUME TypeOK, NextPhase
  PROVE  /\ plan = 0 /\ ~NewFacts /\ ~NewFacts'
         /\ UNCHANGED <<db, order, stamp, iteration, lastExecution, plan, timedOut, assumed>>
         /\ \A r \in Rules : SaturatedRule(r)' <=> SaturatedRule(r)
         /\ \A r, ph, k : InRuleset(r, ph, k)' <=> InRuleset(r, ph, k)
         /\ \A f : FromExtEDB(f)' <=> FromExtEDB(f)
         /\ CurrentRuleset' = Ruleset(phase', stratum')
         /\ Cardinality(CurrentRuleset)' \in Nat
         /\ \A n \in CurrentRuleset' : order[n] \in Rules /\ PlaceOf(n)' \in 1 .. Cardinality(CurrentRuleset)'
<1>1. plan = 0 /\ UNCHANGED <<db, order, stamp, iteration, lastExecution, plan, timedOut, assumed>>
  BY DEF NextPhase, EnterDatalog, EnterExtEDB, EnterExt, NextRound, NextStratum, Return, Leave
<1>2. ~NewFacts /\ ~NewFacts'
  BY <1>1 DEF NewFacts
<1>3. /\ \A r, ph, k : InRuleset(r, ph, k)' <=> InRuleset(r, ph, k)
      /\ \A f : FromExtEDB(f)' <=> FromExtEDB(f)
      /\ CurrentRuleset' = Ruleset(phase', stratum')
  BY <1>1 DEF InRuleset, IsIDB, Split, StratumOf, FromExtEDB, CurrentRuleset, Ruleset
<1>4. /\ Cardinality(CurrentRuleset)' \in Nat
      /\ \A n \in CurrentRuleset' : order[n] \in Rules /\ PlaceOf(n)' \in 1 .. Cardinality(CurrentRuleset)'
  BY <1>1, PlacesNext DEF TypeOK
<1> QED
  BY <1>1, <1>2, <1>3, <1>4, SaturatedSame

LEMMA EnterDatalogKeepsSaturation ==
  ASSUME TypeOK, SaturationInv, EnterDatalog
  PROVE  SaturationInv'
<1> NextPhase
  BY DEF NextPhase
<1>1. /\ phase = "edb" /\ phase' = "datalog" /\ current' = 1 /\ idle' = 0
      /\ UNCHANGED <<stratum, first, newDer, limitView>>
  BY DEF EnterDatalog, Enter, Leave
<1>2. LimitInv' /\ FinishedInv' /\ Saturated'
  BY <1>1, PhaseFrame DEF SaturationInv, LimitInv, FinishedInv, Saturated, IsIDB, StratumOf
<1>3. ASSUME ~timedOut PROVE FreshInv' /\ ViewInv' /\ DatalogInv' /\ ExtInv'
  <2>1. FreshInv'
    <3>1. Ruleset("ext", stratum)' = Ruleset("ext", stratum)
      BY <1>1, PhaseFrame DEF Ruleset
    <3> QED
      BY <1>1, <1>3, <3>1, PhaseFrame DEF SaturationInv, FreshInv
  <2>2. ViewInv' /\ ExtInv'
    BY <1>1 DEF ViewInv, ExtInv
  <2>3. DatalogInv'
    <3>1. PICK size \in Nat : size = Cardinality(CurrentRuleset)'
      BY PhaseFrame
    <3>2. \A n \in CurrentRuleset' : ~Recent(n)'
      BY <1>1, <3>1, PhaseFrame DEF Recent
    <3> QED
      BY <1>1, <3>1, <3>2 DEF DatalogInv
  <2> QED
    BY <2>1, <2>2, <2>3
<1> QED
  BY <1>2, <1>3, PhaseFrame DEF SaturationInv

\* When the loop over the datalog rules is left, each was saturated when executed
\* last and no rule has derived anything since.
LEMMA DatalogDone ==
  ASSUME TypeOK, DatalogInv, Leave("datalog"), NEW r \in Rules, InRuleset(r, "datalog", stratum)
  PROVE  SaturatedRule(r)
<1>1. PICK n \in CurrentRuleset : order[n] = r
  BY InItsRuleset DEF Leave, TypeOK
<1>2. PICK size \in Nat : size = Cardinality(CurrentRuleset)
  BY Places DEF TypeOK
<1>3. current = size + 1 /\ idle = size /\ PlaceOf(n) \in 1 .. size
  BY <1>2, Places DEF Leave, DatalogInv, TypeOK
<1>4. Recent(n)
  BY <1>2, <1>3 DEF Recent
<1>5. ~NewFacts
  BY DEF Leave, NewFacts
<1> QED
  BY <1>1, <1>4, <1>5 DEF DatalogInv, Leave

LEMMA EnterExtEDBKeepsSaturation ==
  ASSUME TypeOK, SaturationInv, EnterExtEDB
  PROVE  SaturationInv'
<1> NextPhase
  BY DEF NextPhase
<1>1. /\ phase = "datalog" /\ phase' = "extEdb" /\ (first => current' = 1)
      /\ limitView' = IF Restricted THEN iteration ELSE 0
      /\ UNCHANGED <<stratum, first, newDer>>
  BY DEF EnterExtEDB, Enter, Leave
<1>2. LimitInv' /\ FinishedInv' /\ Saturated'
  BY <1>1, PhaseFrame DEF SaturationInv, LimitInv, FinishedInv, Saturated, IsIDB, StratumOf
<1>3. ASSUME ~timedOut PROVE FreshInv' /\ ViewInv' /\ DatalogInv' /\ ExtInv'
  <2>1. FreshInv'
    <3>1. Ruleset("ext", stratum)' = Ruleset("ext", stratum)
      BY <1>1, PhaseFrame DEF Ruleset
    <3> QED
      BY <1>1, <1>3, <3>1, PhaseFrame DEF SaturationInv, FreshInv
  <2>2. ViewInv'
    <3>1. \A n \in CurrentRuleset' : first => ~(PlaceOf(n)' < current')
      BY <1>1, PhaseFrame
    <3> QED
      BY <1>1, <3>1 DEF ViewInv
  <2>3. DatalogInv'
    BY <1>1 DEF DatalogInv
  <2>4. ExtInv'
    <3>1. \A r \in Rules : InRuleset(r, "datalog", stratum) => SaturatedRule(r)
      BY <1>3, DatalogDone DEF EnterExtEDB, SaturationInv
    <3> QED
      BY <1>1, <3>1, PhaseFrame DEF ExtInv
  <2> QED
    BY <2>1, <2>2, <2>3, <2>4
<1> QED
  BY <1>2, <1>3, PhaseFrame DEF SaturationInv

LEMMA EnterExtKeepsSaturation ==
  ASSUME TypeOK, SaturationInv, EnterExt
  PROVE  SaturationInv'
<1> NextPhase
  BY DEF NextPhase
<1>1. /\ phase = "extEdb" /\ phase' = "ext" /\ current' = 1 /\ idle' = 0
      /\ UNCHANGED <<stratum, newDer, limitView>>
  BY DEF EnterExt, Enter, Leave
<1>2. LimitInv' /\ FinishedInv' /\ Saturated'
  BY <1>1, PhaseFrame DEF SaturationInv, LimitInv, FinishedInv, Saturated, IsIDB, StratumOf
<1>3. ASSUME ~timedOut PROVE FreshInv' /\ ViewInv' /\ DatalogInv' /\ ExtInv'
  <2>1. FreshInv'
    BY <1>1, <1>3, PhaseFrame DEF SaturationInv, FreshInv
  <2>2. ASSUME ~newDer, Ruleset("ext", stratum) # {}, NEW f \in Facts
        PROVE  stamp[f] < limitView
    <3>1. Restricted /\ limitView = iteration
      <4>1. PICK m \in DOMAIN order : InRuleset(order[m], "ext", stratum)
        BY <2>2 DEF Ruleset
      <4>2. Restricted
        BY <4>1 DEF InRuleset, Split
      <4> QED
        BY <1>1, <4>2 DEF SaturationInv, LimitInv
    <3>2. stamp[f] \in 0 .. iteration /\ iteration \in Nat
      BY DEF TypeOK
    <3>3. stamp[f] # iteration
      <4> SUFFICES ASSUME stamp[f] = iteration PROVE FALSE
        OBVIOUS
      <4>1. FromExtEDB(f) /\ first
        BY <1>1, <1>3, <2>2, PhaseFrame DEF SaturationInv, FreshInv
      <4>2. PICK i \in Instances : f \in i.head /\ InRuleset(i.rule, "extEdb", 0)
        BY <4>1 DEF FromExtEDB
      <4>3. i.rule \in Rules /\ InRuleset(i.rule, phase, stratum)
        BY <1>1, <4>2, InstanceFacts, EDBRuleFacts DEF InRuleset
      <4>4. PICK n \in CurrentRuleset : order[n] = i.rule
        BY <4>3, InItsRuleset DEF TypeOK
      <4>5. PlaceOf(n) < current
        BY Places DEF EnterExt, Leave, TypeOK
      <4> QED
        BY <1>1, <1>3, <2>2, <4>1, <4>2, <4>4, <4>5, PhaseFrame DEF SaturationInv, ViewInv
    <3> QED
      BY <3>1, <3>2, <3>3
  <2>3. ViewInv'
    BY <1>1, <2>2, PhaseFrame DEF ViewInv
  <2>4. DatalogInv'
    BY <1>1 DEF DatalogInv
  <2>5. ExtInv'
    <3>1. PICK size \in Nat : size = Cardinality(CurrentRuleset)'
      BY PhaseFrame
    <3>2. current' <= Cardinality(CurrentRuleset)' + 1 /\ idle' < current'
      BY <1>1, <3>1
    <3>3. \A n \in CurrentRuleset' : ~(PlaceOf(n)' < current')
      BY <1>1, <3>1, PhaseFrame
    <3>4. ~newDer => \A r \in Rules : InRuleset(r, "datalog", stratum) => SaturatedRule(r)
      BY <1>1, <1>3, PhaseFrame DEF SaturationInv, ExtInv
    <3> QED
      BY <1>1, <3>2, <3>3, <3>4, PhaseFrame DEF ExtInv
  <2> QED
    BY <2>1, <2>3, <2>4, <2>5
<1> QED
  BY <1>2, <1>3, PhaseFrame DEF SaturationInv

LEMMA NextRoundKeepsSaturation ==
  ASSUME TypeOK, SaturationInv, NextRound
  PROVE  SaturationInv'
<1> NextPhase
  BY DEF NextPhase
<1>1. /\ phase = "ext" /\ phase' = "edb" /\ limitView' = 0 /\ ~timedOut
      /\ UNCHANGED <<stratum, first>>
  BY DEF NextRound, Enter, Leave
<1>2. LimitInv' /\ FinishedInv' /\ Saturated'
  BY <1>1, PhaseFrame DEF SaturationInv, LimitInv, FinishedInv, Saturated, IsIDB, StratumOf
<1>3. FreshInv'
  <2>1. ASSUME NEW f \in Facts, stamp[f] = iteration
        PROVE  FromExtEDB(f) /\ Ruleset("ext", stratum) = {}
    <3>1. FromExtEDB(f) /\ current = 1
      BY <1>1, <2>1, PhaseFrame DEF SaturationInv, FreshInv
    <3>2. Cardinality(CurrentRuleset) = 0 /\ IsFiniteSet(CurrentRuleset)
      BY <3>1, Places DEF NextRound, Leave, TypeOK
    <3> QED
      BY <1>1, <3>1, <3>2, FS_EmptySet DEF CurrentRuleset
  <2>2. Ruleset("ext", stratum)' = Ruleset("ext", stratum)
    BY <1>1, PhaseFrame DEF Ruleset
  <2> QED
    BY <1>1, <2>1, <2>2, PhaseFrame DEF FreshInv
<1>4. ViewInv' /\ DatalogInv' /\ ExtInv'
  BY <1>1 DEF ViewInv, DatalogInv, ExtInv
<1> QED
  BY <1>2, <1>3, <1>4 DEF SaturationInv

\* After a round without derivation the rules of the class are saturated.
LEMMA ClassDone ==
  ASSUME TypeOK, SaturationInv, Leave("ext"), ~timedOut, ~newDer,
         NEW r \in Rules, IsIDB(r), StratumOf(r) = stratum
  PROVE  SaturatedRule(r)
<1>1. ~NewFacts /\ phase = "ext"
  BY DEF Leave, NewFacts
<1>2. CASE Split /\ r \in Existential
  <2>1. InRuleset(r, phase, stratum)
    BY <1>1, <1>2 DEF InRuleset
  <2>2. PICK n \in CurrentRuleset : order[n] = r
    BY <2>1, InItsRuleset DEF TypeOK
  <2>3. PlaceOf(n) < current
    BY Places DEF Leave, TypeOK
  <2> QED
    BY <1>1, <2>2, <2>3 DEF SaturationInv, ExtInv
<1>3. CASE ~(Split /\ r \in Existential)
  <2>1. InRuleset(r, "datalog", stratum)
    BY <1>3 DEF InRuleset
  <2> QED
    BY <1>1, <2>1 DEF SaturationInv, ExtInv
<1> QED
  BY <1>2, <1>3

LEMMA NextStratumKeepsSaturation ==
  ASSUME TypeOK, SaturationInv, NextStratum
  PROVE  SaturationInv'
<1> NextPhase
  BY DEF NextPhase
<1>1. /\ phase = "ext" /\ phase' = "edb" /\ limitView' = 0 /\ ~timedOut /\ ~newDer
      /\ stratum' = stratum + 1 /\ first' = TRUE /\ stratum \in Nat
  BY TypeAssumption DEF NextStratum, Enter, Leave, TypeOK
<1>2. LimitInv' /\ Saturated'
  BY <1>1 DEF LimitInv, Saturated
<1>3. FinishedInv'
  <2>1. ASSUME NEW r \in Rules, IsIDB(r), StratumOf(r) < stratum + 1
        PROVE  SaturatedRule(r)
    <3>1. StratumOf(r) \in Nat
      <4>1. Heads[r] \in Seq(Preds) /\ Heads[r] # << >>
        BY TypeAssumption
      <4>2. Heads[r][1] \in Preds
        BY <4>1
      <4> QED
        BY <4>2, TypeAssumption DEF StratumOf
    <3>2. CASE StratumOf(r) < stratum
      BY <2>1, <3>2 DEF SaturationInv, FinishedInv
    <3>3. CASE StratumOf(r) = stratum
      BY <1>1, <2>1, <3>3, ClassDone DEF NextStratum
    <3> QED
      BY <1>1, <2>1, <3>1, <3>2, <3>3
  <2> QED
    BY <1>1, <2>1, PhaseFrame DEF FinishedInv, IsIDB, StratumOf
<1>4. FreshInv'
  BY <1>1, PhaseFrame DEF SaturationInv, FreshInv
<1>5. ViewInv' /\ DatalogInv' /\ ExtInv'
  BY <1>1 DEF ViewInv, DatalogInv, ExtInv
<1> QED
  BY <1>2, <1>3, <1>4, <1>5 DEF SaturationInv

LEMMA ReturnKeepsSaturation ==
  ASSUME TypeOK, EDBInv, SaturationInv, Return
  PROVE  SaturationInv'
<1> NextPhase
  BY DEF NextPhase
<1>1. /\ phase = "ext" /\ phase' = "done" /\ UNCHANGED <<stratum, limitView, timedOut>>
      /\ stratum \in Nat /\ NStrata \in Nat
  BY TypeAssumption, PhaseFrame DEF Return, Leave, TypeOK
<1>2. LimitInv' /\ FinishedInv' /\ FreshInv' /\ ViewInv' /\ DatalogInv' /\ ExtInv'
  <2>1. LimitInv' /\ FreshInv' /\ ViewInv' /\ DatalogInv' /\ ExtInv'
    BY <1>1 DEF LimitInv, FreshInv, ViewInv, DatalogInv, ExtInv
  <2> QED
    BY <1>1, <2>1, PhaseFrame DEF SaturationInv, FinishedInv, IsIDB, StratumOf
<1>3. ASSUME ~timedOut, NEW r \in Rules PROVE SaturatedRule(r)
  <2>1. ~newDer /\ stratum + 1 = NStrata /\ Leave("ext")
    BY <1>3 DEF Return
  <2>2. CASE IsIDB(r)
    <3>1. Heads[r] \in Seq(Preds) /\ Heads[r] # << >>
      BY TypeAssumption
    <3>2. Heads[r][1] \in Preds
      BY <3>1
    <3>3. StratumOf(r) \in 0 .. stratum
      BY <1>1, <2>1, <3>2, TypeAssumption DEF StratumOf
    <3>4. CASE StratumOf(r) = stratum
      BY <1>3, <2>1, <2>2, <3>4, ClassDone
    <3>5. CASE StratumOf(r) < stratum
      BY <2>2, <3>5 DEF SaturationInv, FinishedInv
    <3> QED
      BY <1>1, <3>3, <3>4, <3>5
  <2>3. CASE ~IsIDB(r)
    <3>1. InRuleset(r, "edb", 0) \/ InRuleset(r, "extEdb", 0)
      BY <2>3 DEF InRuleset
    <3> QED
      BY <1>1, <1>3, <3>1 DEF EDBInv
  <2> QED
    BY <2>2, <2>3
<1>4. Saturated'
  BY <1>1, <1>3, PhaseFrame DEF Saturated
<1> QED
  BY <1>2, <1>4 DEF SaturationInv

LEMMA SaturationInvariant == Spec => []SaturationInv
<1> DEFINE Inv == TypeOK /\ ControlInv /\ ExecutionInv /\ NoGap /\ EDBInv
<1>1. Init => SaturationInv
  <2> SUFFICES ASSUME Init PROVE SaturationInv
    OBVIOUS
  <2>1. /\ stamp = [f \in Facts |-> 0] /\ iteration = 1 /\ limitView = 0 /\ phase = "edb" /\ stratum = 0
    BY DEF Init
  <2>2. FreshInv
    BY <2>1 DEF FreshInv
  <2>3. FinishedInv
    <3>1. ASSUME NEW r \in Rules PROVE ~(StratumOf(r) < stratum)
      <4>1. Heads[r] \in Seq(Preds) /\ Heads[r] # << >>
        BY TypeAssumption
      <4>2. Heads[r][1] \in Preds
        BY <4>1
      <4> QED
        BY <2>1, <4>2, TypeAssumption DEF StratumOf
    <3> QED
      BY <3>1 DEF FinishedInv
  <2>4. LimitInv /\ Saturated /\ ViewInv /\ DatalogInv /\ ExtInv
    BY <2>1 DEF LimitInv, Saturated, ViewInv, DatalogInv, ExtInv
  <2> QED
    BY <2>2, <2>3, <2>4 DEF SaturationInv
<1>2. Inv /\ SaturationInv /\ [Next]_vars => SaturationInv'
  <2> SUFFICES ASSUME Inv, SaturationInv, [Next]_vars
               PROVE  SaturationInv'
    OBVIOUS
  <2>1. CASE ExecuteCurrent
    BY <2>1, CurrentStep, StepKeepsSaturation DEF ExecuteCurrent
  <2>2. CASE NextPhase
    BY <2>2, EnterDatalogKeepsSaturation, EnterExtEDBKeepsSaturation, EnterExtKeepsSaturation,
       NextRoundKeepsSaturation, NextStratumKeepsSaturation, ReturnKeepsSaturation DEF NextPhase
  <2>3. CASE UNCHANGED vars
    <3>1. UNCHANGED <<db, order, stamp, iteration, stratum, phase, first, newDer, limitView, current, idle,
                      plan, timedOut>>
      BY <2>3 DEF vars, control
    <3>2. /\ CurrentRuleset' = CurrentRuleset /\ Ruleset("ext", stratum)' = Ruleset("ext", stratum)
          /\ \A m : PlaceOf(m)' = PlaceOf(m) /\ (Recent(m)' <=> Recent(m))
          /\ \A s, ph, k : InRuleset(s, ph, k)' <=> InRuleset(s, ph, k)
          /\ \A f : FromExtEDB(f)' <=> FromExtEDB(f)
      BY <3>1 DEF CurrentRuleset, Ruleset, PlaceOf, Recent, InRuleset, IsIDB, Split, StratumOf, FromExtEDB
    <3>3. /\ \A s : SaturatedRule(s)' <=> SaturatedRule(s)
          /\ NewFacts' <=> NewFacts
      BY <3>1, <3>2 DEF SaturatedRule, InstancesOf, Satisfied, Blocked, Present, NegatedFacts, NewFacts, Derived
    <3>4. LimitInv' /\ FinishedInv' /\ Saturated'
      BY <3>1, <3>3 DEF SaturationInv, LimitInv, FinishedInv, Saturated, IsIDB, StratumOf
    <3>5. ~timedOut => FreshInv' /\ ViewInv'
      BY <3>1, <3>2, <3>3 DEF SaturationInv, FreshInv, ViewInv
    <3>6. ~timedOut => DatalogInv' /\ ExtInv'
      BY <3>1, <3>2, <3>3 DEF SaturationInv, DatalogInv, ExtInv
    <3> QED
      BY <3>1, <3>4, <3>5, <3>6 DEF SaturationInv
  <2> QED
    BY <2>1, <2>2, <2>3 DEF Next
<1> HIDE DEF Inv
<1>3. Spec => []Inv
  BY TypeCorrect, GapInvariant, NegationInvariant, PTL DEF Inv
<1> QED
  BY <1>1, <1>2, <1>3, PTL DEF Spec

\* Saturated: a run that was not stopped ends with every instance of every rule
\* satisfied or blocked.  The datalog loop leaves only when every rule has been
\* quiet since the last answer, the existential loop makes one pass under a limit
\* that hides nothing unless the round derived something, and such a round is
\* followed by another.
THEOREM Saturation == Spec => []Saturated
<1>1. SaturationInv => Saturated
  BY DEF SaturationInv
<1> QED
  BY <1>1, SaturationInvariant, PTL

-----------------------------------------------------------------------------
(* How much is done                                                        *)

SizeOf(ph) == Cardinality(Ruleset(ph, stratum))

\* The facts of iterations that are over, and whether there are later ones.
Settled == { f \in Facts : stamp[f] > 0 /\ stamp[f] < iteration }
Unsettled == \E f \in Facts : stamp[f] >= iteration

\* A fact of the existential rules without IDB literal is settled by the next rule
\* executed, which may be one of the next round.
Debt == IF Unsettled /\ Ruleset("extEdb", stratum) # {} THEN SizeOf("datalog") ELSE 0

\* The executions of this round that no fact has paid for.
Spent ==
  CASE phase = "edb" -> IF first /\ current <= SizeOf("edb") THEN current - 1 ELSE SizeOf("edb") + Debt
    [] phase = "datalog" -> SizeOf("edb") + IF idle = 0 THEN Debt ELSE idle
    [] phase = "extEdb" -> SizeOf("edb") + SizeOf("datalog")
    [] phase = "ext" -> SizeOf("edb") + SizeOf("datalog")
                        + IF current <= SizeOf("ext") THEN current - 1 ELSE SizeOf("ext")
    [] phase = "done" -> Len(order)

\* The next round, once it is certain and the fact that makes it so is settled.
Owed == IF newDer /\ ~Unsettled THEN Len(order) ELSE 0

Budget == 1 + Len(order) * (stratum + 2 * Cardinality(Settled))

UnsettledInv ==
  plan = 0 /\ ~timedOut /\ Unsettled =>
    /\ Ruleset("extEdb", stratum) # {}
    /\ phase = "ext" => current = 1

LoopInv ==
  /\ phase = "edb" /\ ~first => current > SizeOf("edb")
  /\ phase = "datalog" => /\ idle <= SizeOf("datalog")
                          /\ current <= SizeOf("datalog") => idle < SizeOf("datalog")

\* Every class pays for one round; every settled fact pays for starting over the
\* datalog loop and for the round after its own.
WorkInv == UnsettledInv /\ LoopInv /\ iteration + Owed <= Budget + Spent

LEMMA Times ==
  ASSUME NEW n \in Nat, NEW a \in Nat, NEW b \in Nat, a <= b
  PROVE  n * a \in Nat /\ n * b \in Nat /\ n * a <= n * b
<1>1. PICK c \in Nat : b = a + c
  <2>1. b - a \in Nat /\ b = a + (b - a)
    OBVIOUS
  <2> QED
    BY <2>1
<1>2. n * b = n * a + n * c
  BY <1>1
<1>3. n * c \in Nat /\ n * a \in Nat
  OBVIOUS
<1> QED
  BY <1>2, <1>3

LEMMA Together ==
  ASSUME NEW S, NEW T, IsFiniteSet(S), IsFiniteSet(T), S \cap T = {}
  PROVE  IsFiniteSet(S \cup T) /\ Cardinality(S \cup T) = Cardinality(S) + Cardinality(T)
<1>1. /\ IsFiniteSet(S \cup T)
      /\ Cardinality(S \cup T) = Cardinality(S) + Cardinality(T) - Cardinality({})
  BY FS_Union
<1>2. PICK a, b, c : a = Cardinality(S) /\ b = Cardinality(T) /\ c = Cardinality(S \cup T)
  OBVIOUS
<1>3. a \in Nat /\ b \in Nat /\ c \in Nat /\ Cardinality({}) = 0
  BY <1>1, <1>2, FS_CardinalityType, FS_EmptySet
<1> QED
  BY <1>1, <1>2, <1>3

\* The rulesets of a round share no rule.
LEMMA Sizes ==
  ASSUME order \in Orders
  PROVE  /\ SizeOf("edb") \in Nat /\ SizeOf("datalog") \in Nat /\ SizeOf("ext") \in Nat
         /\ SizeOf("edb") + SizeOf("datalog") + SizeOf("ext") <= Len(order)
         /\ Ruleset("extEdb", stratum) # {} =>
              SizeOf("edb") + SizeOf("datalog") + SizeOf("ext") < Len(order)
<1> DEFINE e == Ruleset("edb", stratum)   d == Ruleset("datalog", stratum)
           x == Ruleset("ext", stratum)   z == Ruleset("extEdb", stratum)
<1>1. /\ \A s \in {e, d, x, z} : s \subseteq 1 .. Len(order)
      /\ Len(order) \in Nat
  BY OrderFacts DEF Ruleset
<1>2. /\ e \cap d = {} /\ (e \cup d) \cap x = {}
      /\ (e \cup d \cup x) \cap z = {}
  BY DEF Ruleset, InRuleset
<1> HIDE DEF e, d, x, z
<1>3. IsFiniteSet(1 .. Len(order)) /\ Cardinality(1 .. Len(order)) = Len(order)
  <2>1. \A n \in Nat : IsFiniteSet(1 .. n) /\ Cardinality(1 .. n) = n
    BY FS_Interval
  <2> QED
    BY <1>1, <2>1
<1>4. \A s \in {e, d, x, z} : IsFiniteSet(s) /\ Cardinality(s) \in Nat
  BY <1>1, <1>3, FS_Subset, FS_CardinalityType
<1>5. IsFiniteSet(e \cup d) /\ Cardinality(e \cup d) = Cardinality(e) + Cardinality(d)
  BY <1>2, <1>4, Together
<1>6. /\ IsFiniteSet(e \cup d \cup x)
      /\ Cardinality(e \cup d \cup x) = Cardinality(e) + Cardinality(d) + Cardinality(x)
  BY <1>2, <1>4, <1>5, Together
<1>7. Cardinality(e \cup d \cup x \cup z)
        = Cardinality(e) + Cardinality(d) + Cardinality(x) + Cardinality(z)
  BY <1>2, <1>4, <1>6, Together
<1>8. Cardinality(e \cup d \cup x \cup z) <= Len(order)
  BY <1>1, <1>3, FS_Subset
<1>9. z # {} => Cardinality(z) > 0
  BY <1>4, FS_EmptySet
<1>10. Cardinality(e) + Cardinality(d) + Cardinality(x) + Cardinality(z) <= Len(order)
  BY <1>7, <1>8
<1>11. Cardinality(z) \in Nat
  BY <1>4
<1> QED
  BY <1>1, <1>4, <1>9, <1>10, <1>11 DEF SizeOf, e, d, x, z

LEMMA SpentFacts ==
  ASSUME TypeOK, WorkInv
  PROVE  /\ Debt \in 0 .. SizeOf("datalog")
         /\ Spent \in 0 .. Len(order)
<1>1. /\ SizeOf("edb") \in Nat /\ SizeOf("datalog") \in Nat /\ SizeOf("ext") \in Nat
      /\ SizeOf("edb") + SizeOf("datalog") + SizeOf("ext") <= Len(order) /\ Len(order) \in Nat
  BY Sizes, OrderFacts DEF TypeOK
<1>2. Debt \in 0 .. SizeOf("datalog")
  BY <1>1 DEF Debt
<1>3. /\ current \in Nat \ {0} /\ idle \in Nat
      /\ phase \in {"edb", "datalog", "extEdb", "ext", "done"}
  BY DEF TypeOK
<1>4. phase = "datalog" => idle <= SizeOf("datalog")
  BY DEF WorkInv, LoopInv
<1>5. CASE phase = "edb"
  BY <1>1, <1>2, <1>3, <1>5 DEF Spent
<1>6. CASE phase = "datalog"
  BY <1>1, <1>2, <1>3, <1>4, <1>6 DEF Spent
<1>7. CASE phase = "extEdb"
  <2>1. Spent = SizeOf("edb") + SizeOf("datalog")
    BY <1>7 DEF Spent
  <2> QED
    BY <1>1, <1>2, <2>1
<1>8. CASE phase = "ext"
  <2>1. Spent = SizeOf("edb") + SizeOf("datalog") + IF current <= SizeOf("ext") THEN current - 1 ELSE SizeOf("ext")
    BY <1>8 DEF Spent
  <2> QED
    BY <1>1, <1>2, <1>3, <2>1
<1>9. CASE phase = "done"
  <2>1. Spent = Len(order)
    BY <1>9 DEF Spent
  <2> QED
    BY <1>1, <1>2, <2>1
<1> QED
  BY <1>2, <1>3, <1>5, <1>6, <1>7, <1>8, <1>9

LEMMA SettledFacts ==
  ASSUME IsFiniteSet(Facts), TypeOK
  PROVE  /\ IsFiniteSet(Settled) /\ Cardinality(Settled) \in Nat
         /\ IsFiniteSet(Present) /\ Cardinality(Present) \in Nat
         /\ Cardinality(Settled) <= Cardinality(Present)
<1>1. Settled \subseteq Present /\ Present \subseteq Facts
  BY DEF Settled, Present
<1>2. IsFiniteSet(Present)
  BY <1>1, FS_Subset
<1> QED
  BY <1>1, <1>2, FS_Subset, FS_CardinalityType

\* When an iteration is over, all facts are settled.
LEMMA Settling ==
  ASSUME IsFiniteSet(Facts), TypeOK, stamp' = stamp, order' = order, stratum' = stratum,
         iteration' = iteration + 1
  PROVE  /\ ~Unsettled'
         /\ Budget' >= Budget + IF Unsettled THEN 2 * Len(order) ELSE 0
<1>1. stamp \in [Facts -> 0 .. iteration] /\ iteration \in Nat \ {0} /\ stratum \in Nat
  BY TypeAssumption DEF TypeOK
<1>2. ~Unsettled'
  BY <1>1 DEF Unsettled
<1>3. Settled \subseteq Settled' /\ Settled' \subseteq Facts
  BY <1>1 DEF Settled
<1>4. Unsettled => \E f \in Settled' : f \notin Settled
  BY <1>1 DEF Unsettled, Settled
<1>5. IsFiniteSet(Settled') /\ IsFiniteSet(Settled)
  BY <1>3, FS_Subset
<1>6. PICK a, b : a = Cardinality(Settled) /\ b = Cardinality(Settled')
  OBVIOUS
<1>7. a \in Nat /\ b \in Nat /\ a <= b /\ (Unsettled => a # b)
  BY <1>3, <1>4, <1>5, <1>6, FS_Subset, FS_CardinalityType
<1>8. PICK n : n = Len(order)
  OBVIOUS
<1>9. n \in Nat
  BY <1>8, OrderFacts DEF TypeOK
<1>10. n * (stratum + 2 * b) >= n * (stratum + 2 * a)
  BY <1>1, <1>7, <1>9, Times
<1>11. Unsettled => n * (stratum + 2 * b) >= n * (stratum + 2 * a) + 2 * n
  <2>1. SUFFICES ASSUME Unsettled PROVE n * (stratum + 2 * b) >= n * (stratum + 2 * a) + 2 * n
    OBVIOUS
  <2>2. stratum + 2 * b >= stratum + 2 * a + 2
    BY <1>1, <1>7, <2>1
  <2>3. n * (stratum + 2 * b) >= n * (stratum + 2 * a + 2)
    BY <1>1, <1>7, <1>9, <2>2, Times
  <2>4. n * (stratum + 2 * a + 2) = n * (stratum + 2 * a) + 2 * n
    BY <1>1, <1>7, <1>9
  <2> QED
    BY <1>1, <1>7, <1>9, <2>3, <2>4
<1>12. Budget = 1 + n * (stratum + 2 * a) /\ Budget' = 1 + n * (stratum + 2 * b)
  BY <1>6, <1>8 DEF Budget
<1>13. n * (stratum + 2 * a) \in Nat /\ n * (stratum + 2 * b) \in Nat
  BY <1>1, <1>7, <1>9
<1> QED
  BY <1>2, <1>8, <1>9, <1>10, <1>11, <1>12, <1>13

LEMMA SameSizes ==
  ASSUME order' = order, stratum' = stratum
  PROVE  \A ph : Ruleset(ph, stratum)' = Ruleset(ph, stratum) /\ SizeOf(ph)' = SizeOf(ph)
BY DEF SizeOf, Ruleset, InRuleset, IsIDB, Split, StratumOf

LEMMA BudgetType ==
  ASSUME IsFiniteSet(Facts), TypeOK
  PROVE  Budget \in Nat /\ Len(order) \in Nat /\ Owed \in {0, Len(order)} /\ stratum \in Nat
<1>1. stratum \in Nat
  BY TypeAssumption DEF TypeOK
<1>2. PICK a, n : a = Cardinality(Settled) /\ n = Len(order)
  OBVIOUS
<1>3. a \in Nat /\ n \in Nat
  BY <1>2, SettledFacts, OrderFacts DEF TypeOK
<1>4. n * (stratum + 2 * a) \in Nat
  BY <1>1, <1>3
<1>5. Budget = 1 + n * (stratum + 2 * a)
  BY <1>2 DEF Budget
<1> QED
  BY <1>1, <1>2, <1>3, <1>4, <1>5 DEF Owed

\* Entering a rule, or executing a plan, settles nothing.
LEMMA PlanKeepsWork ==
  ASSUME IsFiniteSet(Facts), TypeOK, WorkInv, NEW r \in Rules, StartRule(r) \/ ExecutePlan(r)
  PROVE  WorkInv'
<1>1. /\ UNCHANGED <<order, stratum, iteration, phase, first, newDer, current, idle, timedOut>>
      /\ plan' > 0
  <2>1. plan \in Nat
    BY DEF TypeOK
  <2> QED
    BY <2>1 DEF StartRule, ExecutePlan, control
<1>2. stamp \in [Facts -> 0 .. iteration] /\ iteration \in Nat \ {0} /\ lastExecution[r] < iteration
      /\ lastExecution[r] \in Nat
  BY DEF TypeOK
<1>3. \A f \in Facts : \/ stamp'[f] = stamp[f]
                       \/ stamp[f] > 0 /\ stamp[f] < iteration /\ stamp'[f] > 0 /\ stamp'[f] < iteration
                       \/ stamp[f] = 0 /\ stamp'[f] = iteration
  <2>1. CASE StartRule(r)
    BY <2>1 DEF StartRule
  <2>2. CASE ExecutePlan(r)
    <3>1. \A f \in Facts : stamp[f] \in 0 .. iteration /\ stamp'[f] \in 0 .. iteration
      BY <1>2, <2>2, PlanStamps
    <3>2. \A f \in Facts : stamp[f] > 0 =>
            stamp'[f] = stamp[f] \/ (stamp[f] < stamp'[f] /\ stamp'[f] < lastExecution[r])
      BY <2>2, PlanStamps
    <3>3. \A f \in Facts : stamp[f] = 0 => stamp'[f] = 0 \/ stamp'[f] = iteration
      BY <2>2, PlanStamps
    <3> QED
      BY <1>2, <3>1, <3>2, <3>3
  <2> QED
    BY <2>1, <2>2
<1>4. Settled' = Settled /\ (Unsettled => Unsettled')
  BY <1>1, <1>2, <1>3 DEF Settled, Unsettled
<1>5. Budget' = Budget
  BY <1>1, <1>4 DEF Budget
<1>6. \A ph : Ruleset(ph, stratum)' = Ruleset(ph, stratum) /\ SizeOf(ph)' = SizeOf(ph)
  BY <1>1, SameSizes
<1>7. LoopInv' /\ UnsettledInv'
  BY <1>1, <1>6 DEF WorkInv, LoopInv, UnsettledInv
<1>8. /\ Debt' \in Nat /\ Debt \in Nat /\ Debt <= Debt'
      /\ Owed' \in Nat /\ Owed \in Nat /\ Owed' <= Owed
  <2>1. SizeOf("datalog") \in Nat /\ Len(order) \in Nat
    BY Sizes, OrderFacts DEF TypeOK
  <2> QED
    BY <1>1, <1>4, <1>6, <2>1 DEF Debt, Owed
<1>9. Spent <= Spent' /\ Spent \in Nat /\ Spent' \in Nat
  <2>1. Spent \in Nat
    BY SpentFacts, OrderFacts DEF TypeOK
  <2>2. SizeOf("edb") \in Nat
    BY Sizes DEF TypeOK
  <2>3. phase \in {"edb", "datalog", "extEdb", "ext", "done"}
    BY DEF TypeOK
  <2>4. CASE phase = "edb"
    <3>1. /\ Spent = IF first /\ current <= SizeOf("edb") THEN current - 1 ELSE SizeOf("edb") + Debt
          /\ Spent' = IF first /\ current <= SizeOf("edb") THEN current - 1 ELSE SizeOf("edb") + Debt'
      BY <1>1, <1>6, <2>4 DEF Spent
    <3>2. current \in Nat \ {0}
      BY DEF TypeOK
    <3> QED
      BY <1>8, <2>1, <2>2, <3>1, <3>2
  <2>5. CASE phase = "datalog"
    <3>1. /\ Spent = SizeOf("edb") + IF idle = 0 THEN Debt ELSE idle
          /\ Spent' = SizeOf("edb") + IF idle = 0 THEN Debt' ELSE idle
      BY <1>1, <1>6, <2>5 DEF Spent
    <3>2. idle \in Nat
      BY DEF TypeOK
    <3> QED
      BY <1>8, <2>1, <2>2, <3>1, <3>2
  <2>6. CASE phase \in {"extEdb", "ext", "done"}
    <3>1. Spent' = Spent
      BY <1>1, <1>6, <2>6 DEF Spent
    <3> QED
      BY <2>1, <3>1
  <2> QED
    BY <2>3, <2>4, <2>5, <2>6
<1>10. iteration' + Owed' <= Budget' + Spent'
  <2>1. iteration + Owed <= Budget + Spent /\ iteration \in Nat
    BY DEF WorkInv, TypeOK
  <2>2. PICK a, b, c, d, e : a = Owed /\ b = Owed' /\ c = Budget /\ d = Spent /\ e = Spent'
    OBVIOUS
  <2>3. c \in Nat
    BY <2>2, BudgetType
  <2>4. iteration + a <= c + d /\ b <= a /\ d <= e /\ a \in Nat /\ b \in Nat /\ d \in Nat /\ e \in Nat
    BY <1>8, <1>9, <2>1, <2>2
  <2>5. iteration + b <= c + e
    BY <2>1, <2>3, <2>4
  <2> QED
    BY <1>1, <1>5, <2>2, <2>5
<1> QED
  BY <1>7, <1>10 DEF WorkInv

\* A rule is finished.  Where that ends an iteration, an answer settles a fact; elsewhere
\* the fact is settled later.
LEMMA FinishKeepsWork ==
  ASSUME IsFiniteSet(Facts), TypeOK, WorkInv, phase # "done",
         NEW n \in CurrentRuleset, PlaceOf(n) = current,
         NEW r \in Rules, r = order[n], InRuleset(r, phase, stratum), NEW response \in BOOLEAN,
         FinishRule(r, response), response => Unsettled
  PROVE  WorkInv'
<1>1. /\ UNCHANGED <<order, stamp, stratum, first>> /\ newDer' = (newDer \/ response) /\ plan' = 0
  BY DEF FinishRule
<1>2. \A ph : Ruleset(ph, stratum)' = Ruleset(ph, stratum) /\ SizeOf(ph)' = SizeOf(ph)
  BY <1>1, SameSizes
<1>3. current \in 1 .. SizeOf(phase)
  BY Places DEF TypeOK, SizeOf, CurrentRuleset
<1>4. /\ Budget \in Nat /\ Len(order) \in Nat /\ Owed \in {0, Len(order)}
      /\ SizeOf("edb") \in Nat /\ SizeOf("datalog") \in Nat /\ SizeOf("ext") \in Nat
      /\ SizeOf("edb") + SizeOf("datalog") + SizeOf("ext") <= Len(order)
      /\ Ruleset("extEdb", stratum) # {} =>
           SizeOf("edb") + SizeOf("datalog") + SizeOf("ext") < Len(order)
      /\ Debt \in 0 .. SizeOf("datalog") /\ Spent \in 0 .. Len(order)
  BY BudgetType, Sizes, SpentFacts DEF TypeOK
<1>5. iteration + Owed <= Budget + Spent /\ iteration \in Nat /\ idle \in Nat
  BY DEF WorkInv, TypeOK
<1>6. \/ /\ IF phase \in {"datalog", "ext"} THEN FinishSaturating(r, response) ELSE FinishEDB
         /\ UNCHANGED <<phase, timedOut>>
      \/ TimeOut
  <2>1. IsIDB(r) <=> phase \in {"datalog", "ext"}
    BY DEF InRuleset
  <2>2. \/ /\ IF IsIDB(r) THEN FinishSaturating(r, response) ELSE FinishEDB
           /\ UNCHANGED <<phase, timedOut>>
        \/ TimeOut
    BY DEF FinishRule
  <2> QED
    BY <2>1, <2>2
<1>7. CASE TimeOut
  <2>1. /\ iteration' = iteration /\ idle' = idle /\ timedOut'
        /\ current' = SizeOf(phase) + 1
        /\ IF phase \in {"edb", "extEdb"} THEN phase' = "done" ELSE phase' = phase
    BY <1>7 DEF TimeOut, SizeOf, CurrentRuleset
  <2>2. (Unsettled' <=> Unsettled) /\ Settled' = Settled
    BY <1>1, <2>1 DEF Unsettled, Settled
  <2>3. Budget' = Budget /\ Debt' = Debt
    BY <1>1, <1>2, <2>2 DEF Budget, Debt
  <2>4. Owed' = Owed \/ Owed' = 0
    BY <1>1, <2>2 DEF Owed
  <2>5. UnsettledInv'
    BY <2>1 DEF UnsettledInv
  <2>6. phase \in {"edb", "extEdb", "datalog", "ext"}
    BY DEF TypeOK
  <2>7. LoopInv'
    <3>1. phase' = "datalog" => idle' <= SizeOf("datalog") /\ current' = SizeOf("datalog") + 1
      BY <2>1, <2>6 DEF WorkInv, LoopInv
    <3>2. phase' # "edb"
      BY <2>1, <2>6
    <3>3. ~(SizeOf("datalog") + 1 <= SizeOf("datalog"))
      BY <1>4
    <3> QED
      BY <1>2, <3>1, <3>2, <3>3 DEF LoopInv
  <2>8. Spent' \in Nat /\ Spent <= Spent'
    <3>1. CASE phase \in {"edb", "extEdb"}
      <4>1. Spent' = Len(order)
        BY <1>1, <2>1, <3>1 DEF Spent
      <4> QED
        BY <1>4, <4>1
    <3>2. CASE phase = "datalog"
      <4>1. Spent' = Spent
        BY <1>2, <2>1, <2>3, <3>2 DEF Spent
      <4> QED
        BY <1>4, <4>1
    <3>3. CASE phase = "ext"
      <4>1. Spent = SizeOf("edb") + SizeOf("datalog") + (current - 1)
        BY <1>3, <1>4, <3>3 DEF Spent
      <4>2. Spent' = SizeOf("edb") + SizeOf("datalog")
                     + IF current' <= SizeOf("ext") THEN current' - 1 ELSE SizeOf("ext")
        BY <1>2, <2>1, <3>3 DEF Spent
      <4>3. current' = SizeOf("ext") + 1 /\ current \in 1 .. SizeOf("ext")
        BY <1>3, <2>1, <3>3
      <4> QED
        BY <1>4, <4>1, <4>2, <4>3
    <3> QED
      BY <2>6, <3>1, <3>2, <3>3
  <2>9. iteration' + Owed' <= Budget' + Spent'
    <3>1. PICK a, b, c, d, e : a = Owed /\ b = Owed' /\ c = Budget /\ d = Spent /\ e = Spent'
      OBVIOUS
    <3>2. iteration + b <= c + e
      BY <1>4, <1>5, <2>4, <2>8, <3>1
    <3> QED
      BY <2>1, <2>3, <3>1, <3>2
  <2> QED
    BY <2>5, <2>7, <2>9 DEF WorkInv
<1>8. CASE phase = "extEdb" /\ FinishEDB /\ UNCHANGED <<phase, timedOut>>
  <2>1. iteration' = iteration /\ idle' = idle
    BY <1>8 DEF FinishEDB
  <2>2. (Unsettled' <=> Unsettled) /\ Settled' = Settled
    BY <1>1, <2>1 DEF Unsettled, Settled
  <2>3. Budget' = Budget
    BY <1>1, <2>2 DEF Budget
  <2>4. Owed' = Owed \/ Owed' = 0
    BY <1>1, <2>2 DEF Owed
  <2>5. UnsettledInv'
    BY <1>2, <1>8 DEF UnsettledInv, CurrentRuleset
  <2>6. LoopInv'
    BY <1>8 DEF LoopInv
  <2>7. Spent' = Spent
    BY <1>2, <1>8 DEF Spent
  <2>8. iteration' + Owed' <= Budget' + Spent'
    <3>1. PICK a, b, c, d : a = Owed /\ b = Owed' /\ c = Budget /\ d = Spent
      OBVIOUS
    <3>2. iteration + b <= c + d
      BY <1>4, <1>5, <2>4, <3>1
    <3> QED
      BY <2>1, <2>3, <2>7, <3>1, <3>2
  <2> QED
    BY <2>5, <2>6, <2>8 DEF WorkInv
<1>9. CASE /\ phase \in {"edb", "datalog", "ext"} /\ UNCHANGED <<phase, timedOut>>
           /\ IF phase = "edb" THEN FinishEDB ELSE FinishSaturating(r, response)
  <2>1. iteration' = iteration + 1
    BY <1>9 DEF FinishEDB, FinishSaturating
  <2>2. ~Unsettled' /\ Budget' >= Budget + IF Unsettled THEN 2 * Len(order) ELSE 0
    BY <1>1, <2>1, Settling
  <2>3. UnsettledInv' /\ Debt' = 0
    BY <2>2 DEF UnsettledInv, Debt
  <2>4. Owed' = IF newDer \/ response THEN Len(order) ELSE 0
    BY <1>1, <2>2 DEF Owed
  <2>5. Owed = IF newDer /\ ~Unsettled THEN Len(order) ELSE 0
    BY DEF Owed
  <2>6. Budget' \in Nat
    <3>1. Settled' \subseteq Facts
      BY DEF Settled
    <3>2. PICK a, k : a = Cardinality(Settled)' /\ k = Len(order)
      OBVIOUS
    <3>3. a \in Nat /\ k \in Nat /\ stratum \in Nat
      BY <1>4, <3>1, <3>2, FS_Subset, FS_CardinalityType, BudgetType
    <3>4. k * (stratum + 2 * a) \in Nat
      BY <3>3
    <3> QED
      BY <1>1, <3>2, <3>3, <3>4 DEF Budget
  <2>7. LoopInv' /\ Spent' \in Nat /\ Spent' <= Len(order)
        /\ (response \/ Spent' >= Spent + 1 \/ Unsettled)
        /\ (Unsettled => Spent + 1 <= Len(order) + Spent')
    <3>1. CASE phase = "edb"
      <4>1. first /\ Spent = current - 1 /\ current \in 1 .. SizeOf("edb")
        <5>1. first
          BY <1>3, <1>4, <3>1 DEF WorkInv, LoopInv
        <5> QED
          BY <1>3, <1>4, <3>1, <5>1 DEF Spent
      <4>2. Spent' = IF current' <= SizeOf("edb") THEN current' - 1 ELSE SizeOf("edb")
        BY <1>1, <1>2, <1>4, <1>9, <2>3, <3>1, <4>1 DEF Spent
      <4>3. current' = current + 1
        BY <1>9, <3>1 DEF FinishEDB
      <4>4. Spent' = current
        BY <1>4, <4>1, <4>2, <4>3
      <4>5. LoopInv'
        BY <1>1, <1>9, <3>1, <4>1 DEF LoopInv
      <4> QED
        BY <1>4, <4>1, <4>4, <4>5
    <3>2. CASE phase = "datalog"
      <4> DEFINE d == SizeOf("datalog")
      <4>1. Cardinality(CurrentRuleset) = d
        BY <3>2 DEF CurrentRuleset, SizeOf
      <4>2. /\ idle' = IF response THEN 0 ELSE idle + 1
            /\ current' = d + 1 \/ (idle' # d /\ current' = (current % d) + 1)
        BY <1>9, <3>2, <4>1 DEF FinishSaturating
      <4>3. current \in 1 .. d /\ idle < d
        BY <1>3, <3>2 DEF WorkInv, LoopInv
      <4>4. idle' <= d /\ (current' <= d => idle' < d) /\ idle' \in Nat
        BY <1>4, <1>5, <4>2, <4>3
      <4>5. LoopInv'
        BY <1>2, <1>9, <3>2, <4>4 DEF LoopInv
      <4>6. Spent = SizeOf("edb") + IF idle = 0 THEN Debt ELSE idle
        BY <3>2 DEF Spent
      <4>7. Spent' = SizeOf("edb") + idle'
        <5>1. Spent' = SizeOf("edb") + IF idle' = 0 THEN 0 ELSE idle'
          BY <1>2, <1>9, <2>3, <3>2 DEF Spent
        <5> QED
          BY <1>4, <4>4, <5>1
      <4>8. Debt + 1 <= Len(order)
        <5>1. CASE Ruleset("extEdb", stratum) = {}
          <6>1. Debt = 0
            BY <5>1 DEF Debt
          <6> QED
            BY <1>4, <4>3, <6>1
        <5>2. CASE Ruleset("extEdb", stratum) # {}
          BY <1>4, <5>2
        <5> QED
          BY <5>1, <5>2
      <4>9. ~Unsettled => Debt = 0
        BY DEF Debt
      <4>10. PICK a, b, e, k : a = Spent /\ b = Spent' /\ e = SizeOf("edb") /\ k = Len(order)
        OBVIOUS
      <4>11. e \in Nat /\ k \in Nat /\ d \in Nat /\ e + d <= k /\ idle \in Nat /\ Debt \in 0 .. d
        BY <1>4, <1>5, <4>10
      <4>12. b \in Nat /\ b <= k
        BY <4>4, <4>7, <4>10, <4>11
      <4>13. response \/ b >= a + 1 \/ Unsettled
        BY <4>2, <4>6, <4>7, <4>9, <4>10, <4>11
      <4>14. a + 1 <= k + b
        <5>1. PICK m : m = IF idle = 0 THEN Debt ELSE idle
          OBVIOUS
        <5>2. m \in Nat /\ m + 1 <= k
          BY <4>3, <4>8, <4>10, <4>11, <5>1
        <5>3. PICK z : z = idle'
          OBVIOUS
        <5>4. a = e + m /\ b = e + z
          BY <4>6, <4>7, <4>10, <5>1, <5>3
        <5>5. z \in Nat /\ e \in Nat /\ k \in Nat
          BY <4>4, <4>11, <5>3
        <5> QED
          BY <5>2, <5>4, <5>5
      <4> QED
        BY <4>5, <4>10, <4>12, <4>13, <4>14
    <3>3. CASE phase = "ext"
      <4> DEFINE x == SizeOf("ext")
      <4>1. Cardinality(CurrentRuleset) = x
        BY <3>3 DEF CurrentRuleset, SizeOf
      <4>2. /\ Restricted \in BOOLEAN
            /\ Restricted
        BY <3>3, TypeAssumption DEF InRuleset, Split
      <4>3. current' = x + 1 \/ ((current % x) + 1 # 1 /\ current' = (current % x) + 1)
        BY <1>9, <3>3, <4>1, <4>2 DEF FinishSaturating
      <4>4. current \in 1 .. x /\ x \in Nat
        BY <1>3, <1>4, <3>3
      <4>5. current' = x + 1 \/ (current < x /\ current' = current + 1)
        BY <4>3, <4>4, NextPlace
      <4>6. Spent = SizeOf("edb") + SizeOf("datalog") + (current - 1)
        BY <3>3, <4>4 DEF Spent
      <4>7. Spent' = SizeOf("edb") + SizeOf("datalog") + IF current' <= x THEN current' - 1 ELSE x
        BY <1>2, <1>9, <3>3 DEF Spent
      <4>8. LoopInv'
        BY <1>9, <3>3 DEF LoopInv
      <4>9. PICK a, b, e, k : a = Spent /\ b = Spent' /\ e = SizeOf("edb") + SizeOf("datalog") /\ k = Len(order)
        OBVIOUS
      <4>10. e \in Nat /\ k \in Nat /\ e + x <= k
        BY <1>4, <4>9
      <4>11. b >= e + current /\ b <= e + x /\ a = e + (current - 1) /\ b \in Nat
        BY <4>4, <4>5, <4>6, <4>7, <4>9, <4>10
      <4>12. b <= k /\ b >= a + 1 /\ a + 1 <= k + b
        BY <4>4, <4>10, <4>11
      <4> QED
        BY <4>8, <4>9, <4>11, <4>12
    <3> QED
      BY <1>9, <3>1, <3>2, <3>3
  <2>8. iteration' + Owed' <= Budget' + Spent'
    <3>1. PICK a, b, c, d, e, f, k : /\ a = Owed /\ b = Owed' /\ c = Budget /\ d = Spent
                                     /\ e = Spent' /\ f = Budget' /\ k = Len(order)
      OBVIOUS
    <3> DEFINE i == iteration
    <3>4. /\ i \in Nat /\ c \in Nat /\ d \in Nat /\ e \in Nat /\ f \in Nat /\ k \in Nat /\ a \in {0, k} /\ b \in {0, k}
          /\ i + a <= c + d
      BY <1>4, <1>5, <2>4, <2>6, <2>7, <3>1
    <3> HIDE DEF i
    <3>2. CASE Unsettled
      <4>1. a = 0 /\ b \in 0 .. k /\ f >= c + 2 * k /\ d + 1 <= k + e
        BY <1>4, <2>2, <2>4, <2>5, <2>7, <3>1, <3>2
      <4>2. i + 1 + b <= f + e
        BY <3>4, <4>1
      <4> QED
        BY <2>1, <3>1, <4>2 DEF i
    <3>3. CASE ~Unsettled
      <4>1. b = a /\ f >= c /\ d + 1 <= e
        BY <1>4, <2>2, <2>4, <2>5, <2>6, <2>7, <3>1, <3>3
      <4>2. i + 1 + b <= f + e
        BY <3>4, <4>1
      <4> QED
        BY <2>1, <3>1, <4>2 DEF i
    <3> QED
      BY <3>2, <3>3
  <2> QED
    BY <2>3, <2>7, <2>8 DEF WorkInv
<1>10. phase \in {"edb", "datalog", "extEdb", "ext"}
  BY DEF TypeOK
<1> QED
  BY <1>6, <1>7, <1>8, <1>9, <1>10

\* Once the classes have been evaluated, or in the next one, the budget is larger.
LEMMA PhaseKeepsWork ==
  ASSUME IsFiniteSet(Facts), TypeOK, WorkInv, NextPhase
  PROVE  WorkInv'
<1>1. /\ UNCHANGED <<order, stamp, iteration, timedOut>> /\ plan = 0 /\ plan' = 0
      /\ current > SizeOf(phase)
  BY DEF NextPhase, EnterDatalog, EnterExtEDB, EnterExt, NextRound, NextStratum, Return, Leave,
         SizeOf, CurrentRuleset
<1>2. Settled' = Settled /\ (Unsettled' <=> Unsettled)
  BY <1>1 DEF Settled, Unsettled
<1>3. /\ Budget \in Nat /\ Len(order) \in Nat /\ Owed \in {0, Len(order)}
      /\ SizeOf("edb") \in Nat /\ SizeOf("datalog") \in Nat /\ SizeOf("ext") \in Nat
      /\ SizeOf("edb") + SizeOf("datalog") + SizeOf("ext") <= Len(order)
      /\ Debt \in 0 .. SizeOf("datalog") /\ Spent \in 0 .. Len(order)
  BY BudgetType, Sizes, SpentFacts DEF TypeOK
<1>4. iteration + Owed <= Budget + Spent /\ iteration \in Nat /\ idle \in Nat /\ current \in Nat
  BY DEF WorkInv, TypeOK
<1>5. ASSUME UNCHANGED <<stratum, newDer>>, Spent' \in Nat, Spent <= Spent'
      PROVE  iteration' + Owed' <= Budget' + Spent'
  <2>1. Budget' = Budget /\ Owed' = Owed
    BY <1>1, <1>2, <1>5 DEF Budget, Owed
  <2>2. PICK a, b, c, d : a = Owed /\ b = Budget /\ c = Spent /\ d = Spent'
    OBVIOUS
  <2>3. /\ a \in Nat /\ b \in Nat /\ c \in Nat /\ d \in Nat /\ iteration \in Nat
        /\ iteration + a <= b + c /\ c <= d
    BY <1>3, <1>4, <1>5, <2>2
  <2>4. iteration + a <= b + d
    BY <2>3
  <2> QED
    BY <1>1, <2>1, <2>2, <2>4
<1>6. CASE EnterDatalog
  <2>1. UNCHANGED <<stratum, first, newDer>> /\ phase = "edb" /\ phase' = "datalog" /\ current' = 1 /\ idle' = 0
    BY <1>6 DEF EnterDatalog, Leave, Enter
  <2>2. \A ph : Ruleset(ph, stratum)' = Ruleset(ph, stratum) /\ SizeOf(ph)' = SizeOf(ph)
    BY <1>1, <2>1, SameSizes
  <2>3. Debt' = Debt
    BY <1>2, <2>2 DEF Debt
  <2>4. Spent = SizeOf("edb") + Debt /\ Spent' = SizeOf("edb") + Debt
    <3>1. ~(current <= SizeOf("edb"))
      BY <1>1, <1>3, <1>4, <2>1
    <3> QED
      BY <2>1, <2>2, <2>3, <3>1 DEF Spent
  <2>5. Spent' \in Nat /\ Spent <= Spent'
    BY <1>3, <2>4
  <2>6. UnsettledInv'
    BY <1>1, <1>2, <2>1, <2>2 DEF WorkInv, UnsettledInv
  <2>7. LoopInv'
    BY <1>3, <2>1, <2>2 DEF LoopInv
  <2> QED
    BY <1>5, <2>1, <2>5, <2>6, <2>7 DEF WorkInv
<1>7. CASE EnterExtEDB
  <2>1. UNCHANGED <<stratum, first, newDer>> /\ phase = "datalog" /\ phase' = "extEdb"
    BY <1>7 DEF EnterExtEDB, Leave, Enter
  <2>2. \A ph : Ruleset(ph, stratum)' = Ruleset(ph, stratum) /\ SizeOf(ph)' = SizeOf(ph)
    BY <1>1, <2>1, SameSizes
  <2>3. /\ Spent = SizeOf("edb") + IF idle = 0 THEN Debt ELSE idle
        /\ Spent' = SizeOf("edb") + SizeOf("datalog")
    BY <2>1, <2>2 DEF Spent
  <2>4. idle <= SizeOf("datalog")
    BY <2>1 DEF WorkInv, LoopInv
  <2>5. Spent' \in Nat /\ Spent <= Spent'
    BY <1>3, <1>4, <2>3, <2>4
  <2>6. UnsettledInv'
    BY <1>1, <1>2, <2>1, <2>2 DEF WorkInv, UnsettledInv
  <2>7. LoopInv'
    BY <2>1 DEF LoopInv
  <2> QED
    BY <1>5, <2>1, <2>5, <2>6, <2>7 DEF WorkInv
<1>8. CASE EnterExt
  <2>1. UNCHANGED <<stratum, newDer>> /\ phase = "extEdb" /\ phase' = "ext" /\ current' = 1
    BY <1>8 DEF EnterExt, Leave, Enter
  <2>2. \A ph : Ruleset(ph, stratum)' = Ruleset(ph, stratum) /\ SizeOf(ph)' = SizeOf(ph)
    BY <1>1, <2>1, SameSizes
  <2>3. /\ Spent = SizeOf("edb") + SizeOf("datalog")
        /\ Spent' = SizeOf("edb") + SizeOf("datalog") + IF 1 <= SizeOf("ext") THEN 1 - 1 ELSE SizeOf("ext")
    BY <2>1, <2>2 DEF Spent
  <2>4. Spent' \in Nat /\ Spent <= Spent'
    BY <1>3, <2>3
  <2>5. UnsettledInv'
    BY <1>1, <1>2, <2>1, <2>2 DEF WorkInv, UnsettledInv
  <2>6. LoopInv'
    BY <2>1 DEF LoopInv
  <2> QED
    BY <1>5, <2>1, <2>4, <2>5, <2>6 DEF WorkInv
<1>9. ASSUME phase = "ext"
      PROVE  Spent = SizeOf("edb") + SizeOf("datalog") + SizeOf("ext")
  <2>1. ~(current <= SizeOf("ext"))
    BY <1>1, <1>3, <1>4, <1>9
  <2> QED
    BY <1>9, <2>1 DEF Spent
<1>10. CASE NextRound
  <2>1. /\ UNCHANGED <<stratum, first>> /\ phase = "ext" /\ phase' = "edb" /\ current' = Len(order) + 1
        /\ newDer /\ ~newDer' /\ ~timedOut
    BY <1>10 DEF NextRound, Leave, Enter
  <2>2. \A ph : Ruleset(ph, stratum)' = Ruleset(ph, stratum) /\ SizeOf(ph)' = SizeOf(ph)
    BY <1>1, <2>1, SameSizes
  <2>3. Budget' = Budget /\ Owed' = 0 /\ Debt' = Debt
    BY <1>1, <1>2, <2>1, <2>2 DEF Budget, Owed, Debt
  <2>4. current' > SizeOf("edb")
    BY <1>3, <2>1
  <2>5. Spent' = SizeOf("edb") + Debt
    <3>1. ~(current' <= SizeOf("edb"))
      BY <1>3, <2>1
    <3> QED
      BY <2>1, <2>2, <2>3, <3>1 DEF Spent
  <2>6. UnsettledInv'
    BY <1>1, <1>2, <2>1, <2>2 DEF WorkInv, UnsettledInv
  <2>7. LoopInv'
    BY <2>1, <2>2, <2>4 DEF LoopInv
  <2>8. Spent <= Spent' + Owed
    <3>1. CASE Unsettled
      <4>1. Ruleset("extEdb", stratum) # {} /\ current = 1
        BY <1>1, <2>1, <3>1 DEF WorkInv, UnsettledInv
      <4>2. Debt = SizeOf("datalog")
        BY <3>1, <4>1 DEF Debt
      <4>3. SizeOf("ext") = 0
        BY <1>1, <1>3, <2>1, <4>1
      <4> QED
        BY <1>3, <1>9, <2>1, <2>5, <4>2, <4>3
    <3>2. CASE ~Unsettled
      <4>1. Owed = Len(order)
        BY <2>1, <3>2 DEF Owed
      <4> QED
        BY <1>3, <1>9, <2>1, <2>5, <4>1
    <3> QED
      BY <3>1, <3>2
  <2>9. iteration' + Owed' <= Budget' + Spent'
    <3>1. PICK a, b, c, d : a = Owed /\ b = Budget /\ c = Spent /\ d = Spent'
      OBVIOUS
    <3>2. d \in Nat
      BY <1>3, <2>5, <3>1
    <3>3. /\ a \in Nat /\ b \in Nat /\ c \in Nat /\ iteration \in Nat
          /\ iteration + a <= b + c /\ c <= d + a
      BY <1>3, <1>4, <2>8, <3>1
    <3>4. iteration + 0 <= b + d
      BY <3>2, <3>3
    <3> QED
      BY <1>1, <2>3, <3>1, <3>4
  <2> QED
    BY <2>6, <2>7, <2>9 DEF WorkInv
<1>11. CASE NextStratum
  <2>1. /\ stratum' = stratum + 1 /\ order' = order /\ newDer' = newDer /\ ~newDer /\ phase = "ext"
        /\ phase' = "edb" /\ first' /\ current' = 1 /\ ~timedOut
    BY <1>1, <1>11 DEF NextStratum, Leave, Enter
  <2>2. Ruleset("extEdb", stratum)' = Ruleset("extEdb", stratum)
    BY <2>1 DEF Ruleset, InRuleset, IsIDB, Split
  <2>3. UnsettledInv'
    BY <1>1, <1>2, <2>1, <2>2 DEF WorkInv, UnsettledInv
  <2>4. LoopInv'
    BY <2>1 DEF LoopInv
  <2>5. Owed = 0 /\ Owed' = 0
    BY <2>1 DEF Owed
  <2>6. Budget' \in Nat /\ Budget' = Budget + Len(order)
    <3>1. PICK a, k : a = Cardinality(Settled) /\ k = Len(order)
      OBVIOUS
    <3>2. a \in Nat /\ k \in Nat /\ stratum \in Nat
      BY <1>3, <3>1, SettledFacts, BudgetType
    <3>3. k * (stratum + 1 + 2 * a) = k * (stratum + 2 * a) + k
      BY <3>2
    <3>4. k * (stratum + 2 * a) \in Nat
      BY <3>2
    <3>5. Budget = 1 + k * (stratum + 2 * a) /\ Budget' = 1 + k * (stratum + 1 + 2 * a)
      BY <1>2, <2>1, <3>1 DEF Budget
    <3>6. PICK u, v : u = k * (stratum + 2 * a) /\ v = k * (stratum + 1 + 2 * a)
      OBVIOUS
    <3>7. u \in Nat /\ v = u + k /\ Budget = 1 + u /\ Budget' = 1 + v
      BY <3>3, <3>4, <3>5, <3>6
    <3> QED
      BY <3>1, <3>2, <3>7
  <2>7. Spent' \in Nat
    <3>1. SizeOf("edb")' \in Nat /\ Debt' \in Nat
      <4>1. SizeOf("edb")' \in Nat /\ SizeOf("datalog")' \in Nat
        <5>1. \A ph : Ruleset(ph, stratum)' \subseteq 1 .. Len(order)
          BY <2>1, OrderFacts DEF Ruleset, TypeOK
        <5>2. \A s \in SUBSET (1 .. Len(order)) : Cardinality(s) \in Nat
          <6>1. \A k \in Nat : IsFiniteSet(1 .. k)
            BY FS_Interval
          <6> QED
            BY <1>3, <6>1, FS_Subset, FS_CardinalityType
        <5> QED
          BY <5>1, <5>2 DEF SizeOf
      <4> QED
        BY <4>1 DEF Debt
    <3>2. Spent' = IF first' /\ current' <= SizeOf("edb")' THEN current' - 1 ELSE SizeOf("edb")' + Debt'
      BY <2>1 DEF Spent
    <3> QED
      BY <2>1, <3>1, <3>2
  <2>8. iteration' + Owed' <= Budget' + Spent'
    <3>1. PICK a, b, c, d, k : a = Budget' /\ b = Budget /\ c = Spent /\ d = Spent' /\ k = Len(order)
      OBVIOUS
    <3>2. iteration + 0 <= a + d
      BY <1>3, <1>4, <2>5, <2>6, <2>7, <3>1
    <3> QED
      BY <1>1, <2>5, <3>1, <3>2
  <2> QED
    BY <2>3, <2>4, <2>8 DEF WorkInv
<1>12. CASE Return
  <2>1. UNCHANGED <<stratum, newDer>> /\ phase' = "done" /\ phase = "ext"
    BY <1>12 DEF Return, Leave
  <2>2. Spent' = Len(order)
    BY <1>1, <2>1 DEF Spent
  <2>3. \A ph : Ruleset(ph, stratum)' = Ruleset(ph, stratum)
    BY <1>1, <2>1, SameSizes
  <2>4. UnsettledInv' /\ LoopInv'
    BY <1>1, <1>2, <2>1, <2>3 DEF WorkInv, UnsettledInv, LoopInv
  <2> QED
    BY <1>3, <1>5, <2>1, <2>2, <2>4 DEF WorkInv
<1> QED
  BY <1>6, <1>7, <1>8, <1>10, <1>11, <1>12 DEF NextPhase

\* A run executes a finite number of rules, each of which it can pay for.
LEMMA WorkInvariant ==
  ASSUME IsFiniteSet(Facts)
  PROVE  Spec => []WorkInv
<1>1. Init => WorkInv
  <2> SUFFICES ASSUME Init PROVE WorkInv
    OBVIOUS
  <2>1. /\ stamp = [f \in Facts |-> 0] /\ iteration = 1 /\ phase = "edb" /\ stratum = 0 /\ first /\ current = 1
        /\ ~newDer
    BY DEF Init
  <2>2. ~Unsettled
    BY <2>1 DEF Unsettled
  <2>3. UnsettledInv /\ LoopInv /\ Owed = 0 /\ Debt = 0
    BY <2>1, <2>2 DEF UnsettledInv, LoopInv, Owed, Debt
  <2>4. SizeOf("edb") \in Nat
    BY TypeOKInit, Sizes DEF TypeOK
  <2>5. Spent = 0
    <3>1. Spent = IF 1 <= SizeOf("edb") THEN 1 - 1 ELSE SizeOf("edb")
      BY <2>1, <2>3, <2>4 DEF Spent
    <3> QED
      BY <2>4, <3>1
  <2>6. Budget \in Nat /\ Budget >= 1
    <3>1. PICK a, k : a = Cardinality(Settled) /\ k = Len(order)
      OBVIOUS
    <3>2. a \in Nat /\ k \in Nat
      BY <3>1, TypeOKInit, SettledFacts, BudgetType
    <3>3. k * (0 + 2 * a) \in Nat
      BY <3>2
    <3> QED
      BY <2>1, <3>1, <3>3 DEF Budget
  <2> QED
    BY <2>1, <2>3, <2>5, <2>6 DEF WorkInv
<1>2. TypeOK /\ ControlInv /\ WorkInv /\ [Next]_vars => WorkInv'
  <2> SUFFICES ASSUME TypeOK, ControlInv, WorkInv, [Next]_vars
               PROVE  WorkInv'
    OBVIOUS
  <2>1. CASE ExecuteCurrent
    <3>1. PICK n \in CurrentRuleset : /\ PlaceOf(n) = current /\ order[n] \in Rules
                                      /\ InRuleset(order[n], phase, stratum) /\ Step(order[n])
      BY <2>1, CurrentStep
    <3>2. phase # "done"
      BY <2>1 DEF ExecuteCurrent
    <3>3. CASE StartRule(order[n]) \/ ExecutePlan(order[n])
      BY <3>1, <3>3, PlanKeepsWork
    <3>4. CASE SkipRule(order[n])
      <4>1. FinishRule(order[n], FALSE)
        BY <3>4 DEF SkipRule
      <4> QED
        BY <3>1, <3>2, <4>1, FinishKeepsWork
    <3>5. CASE EndRule(order[n])
      <4>1. FinishRule(order[n], Derived(order[n])) /\ Derived(order[n]) \in BOOLEAN
        BY <3>5 DEF EndRule, Derived
      <4>2. Derived(order[n]) => Unsettled
        BY DEF Derived, Unsettled, FactsOf
      <4> QED
        BY <3>1, <3>2, <4>1, <4>2, FinishKeepsWork
    <3> QED
      BY <3>1, <3>3, <3>4, <3>5 DEF Step
  <2>2. CASE NextPhase
    BY <2>2, PhaseKeepsWork
  <2>3. CASE UNCHANGED vars
    <3>1. /\ UNCHANGED <<order, stamp, iteration, stratum, phase, first, newDer, current, idle, plan, timedOut>>
      BY <2>3 DEF vars, control
    <3>2. \A ph : Ruleset(ph, stratum)' = Ruleset(ph, stratum) /\ SizeOf(ph)' = SizeOf(ph)
      BY <3>1, SameSizes
    <3>3. Settled' = Settled /\ (Unsettled' <=> Unsettled)
      BY <3>1 DEF Settled, Unsettled
    <3>4. Debt' = Debt /\ Owed' = Owed /\ Budget' = Budget
      BY <3>1, <3>2, <3>3 DEF Debt, Owed, Budget
    <3>5. Spent' = Spent
      BY <3>1, <3>2, <3>4 DEF Spent
    <3>6. UnsettledInv' /\ LoopInv'
      BY <3>1, <3>2, <3>3 DEF WorkInv, UnsettledInv, LoopInv
    <3> QED
      BY <3>1, <3>4, <3>5, <3>6 DEF WorkInv
  <2> QED
    BY <2>1, <2>2, <2>3 DEF Next
<1> QED
  BY <1>1, <1>2, TypeCorrect, PTL DEF Spec

\* No rule is given twice.
RulesGivenOnce == \A s \in Orders : Len(s) <= Cardinality(Rules)

\* BoundedWork: a program of finitely many facts and rules is evaluated in as many
\* executions as its rules and what they derive account for: no loop goes on once
\* nothing is derived, neither over rules nor over rounds.
THEOREM WorkIsBounded ==
  ASSUME IsFiniteSet(Facts), IsFiniteSet(Rules), RulesGivenOnce
  PROVE  Spec => []BoundedWork
<1>1. TypeOK /\ WorkInv => BoundedWork
  <2> SUFFICES ASSUME TypeOK, WorkInv PROVE BoundedWork
    OBVIOUS
  <2>1. PICK k, m, a, b, s : /\ k = Len(order) /\ m = Cardinality(Rules) /\ a = Cardinality(Settled)
                             /\ b = Cardinality(Present) /\ s = Spent
    OBVIOUS
  <2>2. k \in Nat /\ m \in Nat /\ k <= m /\ a \in Nat /\ b \in Nat /\ a <= b
    BY <2>1, BudgetType, SettledFacts, FS_CardinalityType DEF RulesGivenOnce, TypeOK
  <2>3. stratum \in Nat /\ stratum + 1 <= NStrata /\ NStrata \in Nat
    BY TypeAssumption DEF TypeOK
  <2>4. s \in 0 .. k
    BY <2>1, SpentFacts
  <2>5. iteration <= 1 + k * (stratum + 2 * a) + s
    <3>1. iteration + Owed <= Budget + Spent /\ Owed \in Nat /\ iteration \in Nat /\ Budget \in Nat
      BY <2>1, <2>2, BudgetType DEF WorkInv, TypeOK
    <3>2. iteration <= Budget + s
      BY <2>1, <2>2, <2>4, <3>1
    <3> QED
      BY <2>1, <3>2 DEF Budget
  <2>6. k * (stratum + 2 * a) + k = k * (stratum + 1 + 2 * a)
    BY <2>2, <2>3
  <2>7. k * (stratum + 1 + 2 * a) <= k * (NStrata + 2 * b)
    BY <2>2, <2>3, Times
  <2>8. (NStrata + 2 * b) * k <= (NStrata + 2 * b) * m
    BY <2>2, <2>3, Times
  <2>9. k * (NStrata + 2 * b) = (NStrata + 2 * b) * k /\ m * (NStrata + 2 * b) = (NStrata + 2 * b) * m
    BY <2>2, <2>3
  <2>10. PICK u, v, w, x : /\ u = k * (stratum + 2 * a) /\ v = k * (stratum + 1 + 2 * a)
                           /\ w = k * (NStrata + 2 * b) /\ x = m * (NStrata + 2 * b)
    OBVIOUS
  <2>11. u \in Nat /\ v \in Nat /\ w \in Nat /\ x \in Nat
    BY <2>2, <2>3, <2>10
  <2>12. iteration <= 1 + u + s /\ u + k = v /\ v <= w /\ w <= x /\ iteration \in Nat
    BY <2>5, <2>6, <2>7, <2>8, <2>9, <2>10 DEF TypeOK
  <2>13. iteration <= 1 + x
    BY <2>2, <2>4, <2>11, <2>12
  <2> QED
    BY <2>1, <2>10, <2>13 DEF BoundedWork
<1> QED
  BY <1>1, WorkInvariant, TypeCorrect, PTL

-----------------------------------------------------------------------------
(* Refinement of Chase                                                     *)

\* What the chase sees of an instance.
Image(i) == [edb |-> i.edb, negative |-> NegatedFacts(i), head |-> i.head,
             positive |-> { i.body[j] : j \in Positive(i.rule) }, satisfiedBy |-> i.satisfiedBy]

LEMMA ImageFacts ==
  ASSUME NEW i \in Instances
  PROVE  /\ Abstract!BodyHolds(Image(i)) <=>
              /\ i.edb \subseteq db
              /\ \A j \in Positive(i.rule) : i.body[j] \in Present
              /\ ~Blocked(i)
         /\ Abstract!HeadHolds(Image(i)) <=> Satisfied(i)
         /\ Image(i).head = i.head
<1>1. /\ Image(i).edb = i.edb /\ Image(i).negative = NegatedFacts(i) /\ Image(i).head = i.head
      /\ Image(i).positive = { i.body[j] : j \in Positive(i.rule) } /\ Image(i).satisfiedBy = i.satisfiedBy
  BY DEF Image
<1>2. Image(i).positive \subseteq Present <=> \A j \in Positive(i.rule) : i.body[j] \in Present
  BY <1>1
<1>3. Abstract!BodyHolds(Image(i)) <=>
        /\ i.edb \subseteq db
        /\ \A j \in Positive(i.rule) : i.body[j] \in Present
        /\ ~Blocked(i)
  BY <1>1, <1>2 DEF Abstract!BodyHolds, Blocked
<1>4. Abstract!HeadHolds(Image(i)) <=> Satisfied(i)
  BY <1>1 DEF Abstract!HeadHolds, Satisfied
<1> QED
  BY <1>1, <1>3, <1>4

\* The instances a plan applies have their head afterwards.
LEMMA HeadsAdded ==
  ASSUME TypeOK, NEW r \in Rules, ExecutePlan(r), ~AtomIsEmpty(r, plan), NEW i \in Applicable(r, plan)
  PROVE  i.head \subseteq Present'
<1>1. \E s \in CollapsedStamps(r) :
        stamp' = [f \in Facts |-> IF f \in (UNION { k.head : k \in Applicable(r, plan) }) \ Present
                                  THEN iteration ELSE s[f]]
  BY DEF ExecutePlan
<1>2. i.head \subseteq Facts /\ iteration > 0
  BY InstanceFacts DEF Applicable, InstancesOf, TypeOK
<1>3. ASSUME NEW f \in i.head
      PROVE  f \in Present'
  <2>1. f \notin Present => stamp'[f] = iteration
    BY <1>1, <1>2
  <2>2. f \in Present => stamp'[f] > 0
    BY <1>2, StampsGrow DEF Present
  <2> QED
    BY <1>2, <2>1, <2>2 DEF Present
<1> QED
  BY <1>3

\* A plan that does not come up with an empty literal applies instances whose body
\* holds, and the head of none of them held if it adds a fact.
LEMMA PlanApplies ==
  ASSUME TypeOK, phase # "done", NEW r \in Rules, ExecutePlan(r)
  PROVE  Abstract!Apply
<1> DEFINE Program == { Image(i) : i \in Instances }
           applied == { a \in Program : /\ Abstract!BodyHolds(a) /\ ~Abstract!HeadHolds(a)
                                        /\ a.head \subseteq Present' }
<1>1. UNCHANGED <<db, phase, timedOut>> /\ \A f \in Facts : stamp[f] > 0 => stamp'[f] > 0
  BY StampsGrow DEF ExecutePlan, control
<1>2. Present \subseteq Present'
  BY <1>1 DEF Present
<1>3. ASSUME NEW f \in Present', f \notin Present
      PROVE  \E a \in applied : f \in a.head
  <2>1. f \in Facts /\ stamp[f] = 0 /\ stamp'[f] > 0
    BY <1>3 DEF Present, TypeOK
  <2>2. ~AtomIsEmpty(r, plan)
    BY <2>1, PlanStamps
  <2>3. PICK i \in Applicable(r, plan) : f \in i.head
    BY <2>1, PlanStamps
  <2>4. /\ i \in Instances /\ i.rule = r /\ i.edb \subseteq db /\ ~Blocked(i)
        /\ \A j \in Positive(i.rule) : i.body[j] \in Facts /\ stamp[i.body[j]] > 0
        /\ ~(Restricted /\ r \in Existential /\ Satisfied(i))
    <3>1. i \in InstancesOf(r)
      BY <2>3 DEF Applicable
    <3> QED
      BY <2>3, <3>1, InstanceOfFacts DEF Applicable, Blocked, InRange
  <2>5. Abstract!BodyHolds(Image(i))
    BY <2>4, ImageFacts DEF Present
  <2>6. ~Satisfied(i)
    <3>1. ~(i.head \subseteq Present)
      BY <1>3, <2>3
    <3> QED
      BY <2>4, <3>1, SatisfactionAssumption DEF Satisfied
  <2>7. i.head \subseteq Present'
    BY <2>2, HeadsAdded
  <2> QED
    BY <2>3, <2>4, <2>5, <2>6, <2>7, ImageFacts
<1>4. \A a \in applied : a.head \subseteq Present'
  OBVIOUS
<1> HIDE DEF applied
<1>5. Present' = Present \cup UNION { a.head : a \in applied }
  BY <1>2, <1>3, <1>4
<1> QED
  BY <1>1, <1>5 DEF applied, Abstract!Apply, Image

LEMMA ReturnFinishes ==
  ASSUME Return, ~timedOut, UNCHANGED <<db, stamp, timedOut>>, \A r \in Rules : SaturatedRule(r)
  PROVE  Abstract!Finish
<1>1. ASSUME NEW i \in Instances, Abstract!BodyHolds(Image(i))
      PROVE  Abstract!HeadHolds(Image(i))
  <2>1. i.rule \in Rules /\ i \in InstancesOf(i.rule) /\ ~Blocked(i)
        /\ \A j \in Positive(i.rule) : i.body[j] \in Present
    BY <1>1, ImageFacts, InstanceFacts DEF InstancesOf
  <2>2. Satisfied(i)
    BY <2>1 DEF SaturatedRule
  <2> QED
    BY <2>2, ImageFacts
<1>2. (phase = "done" /\ ~timedOut)' = TRUE /\ Present' = Present
  BY DEF Return, Present
<1> QED
  BY <1>1, <1>2 DEF Abstract!Finish, Image

\* ImplementsChase: every fact is added by applying an instance whose body holds and
\* whose head does not, and a run that was not stopped returns at a fixpoint.
THEOREM Refinement == Spec => ImplementsChase
<1> DEFINE Inv == TypeOK /\ EDBInv /\ SaturationInv
           done == phase = "done" /\ ~timedOut
<1>1. Init => Abstract!Init
  <2> SUFFICES ASSUME Init PROVE Abstract!Init
    OBVIOUS
  <2>1. Present = {} /\ db \in Databases /\ phase = "edb"
    BY DEF Init, Present
  <2> QED
    BY <2>1 DEF Abstract!Init
<1>2. Inv /\ [Next]_vars => [Abstract!Next]_Abstract!vars
  <2> SUFFICES ASSUME Inv, [Next]_vars PROVE Abstract!Next \/ UNCHANGED Abstract!vars
    OBVIOUS
  <2>1. CASE ExecuteCurrent
    <3>1. PICK n \in CurrentRuleset : order[n] \in Rules /\ Step(order[n])
      BY <2>1, CurrentStep
    <3>2. phase # "done"
      BY <2>1 DEF ExecuteCurrent
    <3>3. CASE ExecutePlan(order[n])
      BY <3>1, <3>2, <3>3, PlanApplies DEF Abstract!Next
    <3>4. CASE ~ExecutePlan(order[n])
      <4>1. UNCHANGED <<db, stamp>> /\ (phase' = phase \/ timedOut' = TRUE)
        BY <3>1, <3>4 DEF Step, StartRule, SkipRule, EndRule, FinishRule, TimeOut, control
      <4>2. Present' = Present /\ done' = done
        BY <3>2, <4>1 DEF Present
      <4> QED
        BY <4>1, <4>2 DEF Abstract!vars
    <3> QED
      BY <3>3, <3>4
  <2>2. CASE NextPhase
    <3>1. UNCHANGED <<db, stamp, timedOut>>
      BY <2>2, PhaseFrame
    <3>2. CASE Return /\ ~timedOut
      <4>1. SaturationInv'
        BY <3>2, ReturnKeepsSaturation
      <4>2. \A r \in Rules : SaturatedRule(r)
        BY <3>1, <3>2, <4>1, SaturatedSame DEF SaturationInv, Saturated, Return
      <4> QED
        BY <3>1, <3>2, <4>2, ReturnFinishes DEF Abstract!Next
    <3>3. CASE ~(Return /\ ~timedOut)
      <4>1. phase # "done" /\ (phase' # "done" \/ timedOut')
        BY <2>2, <3>1, <3>3 DEF NextPhase, EnterDatalog, EnterExtEDB, EnterExt, NextRound, NextStratum, Return,
                                Leave, Enter
      <4>2. Present' = Present /\ done' = done
        BY <3>1, <4>1 DEF Present
      <4> QED
        BY <3>1, <4>2 DEF Abstract!vars
    <3> QED
      BY <3>2, <3>3
  <2>3. CASE UNCHANGED vars
    BY <2>3 DEF vars, control, Present, Abstract!vars
  <2> QED
    BY <2>1, <2>2, <2>3 DEF Next
<1> HIDE DEF Inv
<1>3. Spec => []Inv
  BY TypeCorrect, NegationInvariant, SaturationInvariant, PTL DEF Inv
<1> QED
  BY <1>1, <1>2, <1>3, PTL DEF Spec, ImplementsChase, Abstract!Spec

=============================================================================
