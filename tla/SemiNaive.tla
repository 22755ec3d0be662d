----------------------------- MODULE SemiNaive -----------------------------
(***************************************************************************)
(* Semi-naive evaluation (forward/seminaiver.cpp): run, executeRules,      *)
(* executeUntilSaturation and executeRule plan by plan.  A fact carries    *)
(* the iteration that derived it; a rule remembers its last execution, and *)
(* its plans read ranges of iterations chosen so that every instance of    *)
(* the rule is met once it has a new fact.  The restricted chase executes  *)
(* existential rules apart, against a limit on what counts as seen.        *)
(*                                                                         *)
(* A program is given by its ground instances: joins, head processing and  *)
(* fresh terms are what makes an instance, the ranges are what meets it.   *)
(***************************************************************************)
EXTENDS Integers, Sequences, FiniteSets

CONSTANTS
  Facts, PredOf,      \* the IDB facts that can be derived, and their predicates
  Databases,          \* the inputs: sets of EDB facts
  Rules,
  Body,               \* of each rule: its IDB literals in order, [pred, negated]
  Heads,              \* of each rule: the sequence of its head predicates
  Existential,        \* rules with existential variables
  Instances,          \* [rule, edb, body, head, satisfiedBy]: body lists the facts of the
                      \* IDB literals; satisfiedBy: sets of facts that satisfy the head
  Orders,             \* the sequences in which the rules may be given
  Stratification,     \* of each predicate: its class
  NStrata,            \* nStratificationClasses
  Restricted,         \* typeChase is RESTRICTED_CHASE or SUM_RESTRICTED_CHASE
  Collapses,          \* head tables may be collapsed before results are added
  MayTimeout          \* a time limit is set

Preds == DOMAIN Stratification

ASSUME TypeAssumption ==
  /\ NStrata \in Nat \ {0} /\ Stratification \in [Preds -> 0 .. NStrata - 1]
  /\ PredOf \in [Facts -> Preds]
  /\ Body \in [Rules -> Seq([pred : Preds, negated : BOOLEAN])]
  /\ Heads \in [Rules -> Seq(Preds) \ {<< >>}]
  /\ \A i \in Instances : i.rule \in Rules /\ i.body \in Seq(Facts) /\ i.head \subseteq Facts
  /\ Orders \subseteq Seq(Rules)
  /\ Restricted \in BOOLEAN

ASSUME ProgramAssumption ==
  /\ \A r \in Existential : Len(Heads[r]) = 1     \* more are left to the head check
  /\ \A i \in Instances : /\ Len(i.body) = Len(Body[i.rule])
                          /\ \A j \in DOMAIN i.body : PredOf[i.body[j]] = Body[i.rule][j].pred
                          /\ \A f \in i.head : \E k \in DOMAIN Heads[i.rule] : Heads[i.rule][k] = PredOf[f]
  /\ \A s \in Orders : \A r \in Rules : \E n \in DOMAIN s : s[n] = r

\* Every rule has a positive literal, whose facts its instances need.
ASSUME SafetyAssumption ==
  \A i \in Instances : i.edb # {} \/ \E j \in DOMAIN Body[i.rule] : ~Body[i.rule][j].negated

\* Only the restricted chase looks for other facts that satisfy the head.
ASSUME SatisfactionAssumption ==
  \A i \in Instances : i.satisfiedBy # {} => Restricted /\ i.rule \in Existential

\* The classes stratify() computes.
ASSUME StratificationAssumption ==
  \A r \in Rules : \A j \in DOMAIN Body[r], k \in DOMAIN Heads[r] :
    LET b == Stratification[Body[r][j].pred]   h == Stratification[Heads[r][k]]
    IN b <= h /\ (Body[r][j].negated => b < h)

\* A rule is put into the class of its first head.  stratify() does not see to it
\* that no other head has a lower one, and then that one's rules come too early.
ASSUME FirstHeadAssumption ==
  \A r \in Rules : Body[r] # << >> =>
    \A k \in DOMAIN Heads[r] : Stratification[Heads[r][1]] <= Stratification[Heads[r][k]]

VARIABLES
  db, order,          \* the database and the order of the rules
  stamp,              \* of each fact: the iteration of its block (0: not derived)
  iteration, lastExecution,
  stratum, phase,     \* where executeRules is
  first, newDer, limitView,
  current,            \* the rule executed, an index into the ruleset of the phase
  idle,               \* rulesWithoutDerivation
  plan,               \* 0: executeRule not entered; else the plan to execute next
  timedOut,           \* *timeout was set to 0
  assumed             \* history: facts whose absence an applied instance relied on

control == <<stratum, phase, first, newDer, limitView, current, idle, timedOut>>
vars == <<db, order, stamp, iteration, lastExecution, control, plan, assumed>>

-----------------------------------------------------------------------------
(* The program                                                             *)

IsIDB(r) == Body[r] # << >>

\* run() splits the program under the restricted chase.
Split == Restricted /\ Existential # {}

\* (mutant) the classes are not told apart.
OneStratumOf(r) == 0

StratumOf(r) == Stratification[Heads[r][1]]

InRuleset(r, ph, k) ==
  /\ IsIDB(r) <=> ph \in {"datalog", "ext"}
  /\ (Split /\ r \in Existential) <=> ph \in {"extEdb", "ext"}
  /\ IsIDB(r) => StratumOf(r) = k

\* The rules of a loop, as their positions in the order of the program.
Ruleset(ph, k) == { n \in DOMAIN order : InRuleset(order[n], ph, k) }

CurrentRuleset == Ruleset(phase, stratum)

\* The index in the ruleset of the rule at position n.
PlaceOf(n) == Cardinality({ m \in CurrentRuleset : m <= n })

InstancesOf(r) == { i \in Instances : i.rule = r /\ i.edb \subseteq db }

Positive(r) == { j \in DOMAIN Body[r] : ~Body[r][j].negated }

NegatedFacts(i) == { i.body[j] : j \in DOMAIN i.body \ Positive(i.rule) }

FactsOf(pred) == { f \in Facts : PredOf[f] = pred }

Present == { f \in Facts : stamp[f] > 0 }

Satisfied(i) == i.head \subseteq Present \/ \E w \in i.satisfiedBy : w \subseteq Present

-----------------------------------------------------------------------------
(* executeRule                                                             *)

\* bodyChangedSince(rule, lastExecution)
BodyChanged(r) ==
  \/ lastExecution[r] = 0 /\ \E i \in Instances : i.rule = r /\ i.edb # {}
  \/ \E j \in DOMAIN Body[r] : \E f \in FactsOf(Body[r][j].pred) :
       stamp[f] > 0 /\ stamp[f] >= lastExecution[r]

PlanCount(r) == IF lastExecution[r] = 0 \/ ~IsIDB(r) THEN 1 ELSE Len(Body[r])

\* The range of iterations from which plan p reads literal j: the delta for j = p,
\* older facts before it, all facts after it.
InRange(f, r, p, j) ==
  /\ stamp[f] > 0
  /\ j = p => stamp[f] >= lastExecution[r]
  /\ j < p => stamp[f] < lastExecution[r]

\* checkIfAtomsAreEmpty: here, but not in the join, the limit view counts.
AtomIsEmpty(r, p) ==
  \E j \in Positive(r) : \A f \in FactsOf(Body[r][j].pred) :
    ~InRange(f, r, p, j) \/ (limitView > 0 /\ stamp[f] >= limitView)

\* (mutant) the oblivious chase.
ApplicableOblivious(r, p) ==
  { i \in InstancesOf(r) :
      /\ \A j \in Positive(r) : InRange(i.body[j], r, p, j)
      /\ NegatedFacts(i) \cap Present = {} }

\* The instances that plan p of r joins; those of the restricted chase whose
\* head holds are dropped.
Applicable(r, p) ==
  { i \in InstancesOf(r) :
      /\ \A j \in Positive(r) : InRange(i.body[j], r, p, j)
      /\ NegatedFacts(i) \cap Present = {}
      /\ ~(Restricted /\ r \in Existential /\ Satisfied(i)) }

\* The facts in blocks that collapseBlocks may merge on behalf of r.
Old(r) ==
  { f \in Facts : /\ stamp[f] > 0 /\ stamp[f] < lastExecution[r]
                  /\ \E k \in DOMAIN Heads[r] : Heads[r][k] = PredOf[f] }

Raised(group, newest) == [f \in Facts |-> IF f \in group THEN stamp[newest] ELSE stamp[f]]

\* The stamps after consolidate has collapsed a head table or not: a group of
\* old facts may have got the stamp of the newest of them.
CollapsedStamps(r) ==
  {stamp} \cup
  UNION { { Raised(group, newest) :
              group \in SUBSET { f \in Old(r) : /\ PredOf[f] = PredOf[newest]
                                               /\ stamp[f] <= stamp[newest] } } :
          newest \in IF Collapses THEN Old(r) ELSE {} }

\* The rule at hand is entered, or skipped because its body did not change.
StartRule(r) ==
  /\ plan = 0
  /\ BodyChanged(r)
  /\ plan' = 1
  /\ UNCHANGED <<db, order, stamp, iteration, lastExecution, control, assumed>>

\* One plan: emptiness check, join, consolidation of the results.
ExecutePlan(r) ==
  /\ plan \in 1 .. PlanCount(r)
  /\ plan' = plan + 1
  /\ IF AtomIsEmpty(r, plan)
     THEN UNCHANGED <<stamp, assumed>>
     ELSE LET applied == Applicable(r, plan)
              derived == (UNION { i.head : i \in applied }) \ Present
          IN /\ \E s \in CollapsedStamps(r) :
                  stamp' = [f \in Facts |-> IF f \in derived THEN iteration ELSE s[f]]
             /\ assumed' = assumed \cup UNION { NegatedFacts(i) : i \in applied }
  /\ UNCHANGED <<db, order, iteration, lastExecution, control>>

\* executeRule's answer: a head table has a block of this iteration.
Derived(r) == \E k \in DOMAIN Heads[r] : \E f \in FactsOf(Heads[r][k]) : stamp[f] >= iteration

-----------------------------------------------------------------------------
(* executeRules and executeUntilSaturation                                 *)

\* (mutant) lastExecution is set after the iteration is counted.
FinishAfterIncrement(r, response) ==
  LET n == Cardinality(CurrentRuleset)
      quiet == IF response THEN 0 ELSE idle + 1
      next == (current % n) + 1
      leave == \/ response /\ Split /\ r \in Existential
               \/ quiet = n
               \/ phase = "ext" /\ Restricted /\ next = 1
  IN /\ lastExecution' = [lastExecution EXCEPT ![r] = IF limitView > 0 THEN limitView ELSE iteration + 1]
     /\ iteration' = iteration + 1
     /\ idle' = quiet
     /\ current' = IF leave THEN n + 1 ELSE next

\* (mutant) saturation is declared one rule early.
FinishHalfPass(r, response) ==
  LET n == Cardinality(CurrentRuleset)
      quiet == IF response THEN 0 ELSE idle + 1
      next == (current % n) + 1
      leave == \/ response /\ Split /\ r \in Existential
               \/ quiet >= n - 1 /\ quiet > 0
               \/ phase = "ext" /\ Restricted /\ next = 1
  IN /\ lastExecution' = [lastExecution EXCEPT ![r] = IF limitView > 0 THEN limitView ELSE iteration]
     /\ iteration' = iteration + 1
     /\ idle' = quiet
     /\ current' = IF leave THEN n + 1 ELSE next

\* (mutant) the limit view is forgotten.
FinishIgnoringView(r, response) ==
  LET n == Cardinality(CurrentRuleset)
      quiet == IF response THEN 0 ELSE idle + 1
      next == (current % n) + 1
      leave == \/ response /\ Split /\ r \in Existential
               \/ quiet = n
               \/ phase = "ext" /\ Restricted /\ next = 1
  IN /\ lastExecution' = [lastExecution EXCEPT ![r] = iteration]
     /\ iteration' = iteration + 1
     /\ idle' = quiet
     /\ current' = IF leave THEN n + 1 ELSE next

\* The rule is done with this answer: executeUntilSaturation updates lastExecution
\* (to the limit view, if there is one) and goes on to the next rule, unless an
\* existential rule derived, every rule failed in turn, or one pass was asked for.
FinishSaturating(r, response) ==
  LET n == Cardinality(CurrentRuleset)
      quiet == IF response THEN 0 ELSE idle + 1
      next == (current % n) + 1
      leave == \/ response /\ Split /\ r \in Existential
               \/ quiet = n
               \/ phase = "ext" /\ Restricted /\ next = 1
  IN /\ lastExecution' = [lastExecution EXCEPT ![r] = IF limitView > 0 THEN limitView ELSE iteration]
     /\ iteration' = iteration + 1
     /\ idle' = quiet
     /\ current' = IF leave THEN n + 1 ELSE next

\* The same in the loops over rules without IDB literal.
FinishEDB ==
  /\ current' = current + 1
  /\ iteration' = IF phase = "edb" THEN iteration + 1 ELSE iteration
  /\ UNCHANGED <<lastExecution, idle>>

\* The time is up: the rules of the phase are left, executeRules returns at once
\* from its own loops and at the end of the round from executeUntilSaturation.
TimeOut ==
  /\ MayTimeout /\ ~timedOut
  /\ timedOut' = TRUE
  /\ IF phase \in {"edb", "extEdb"} THEN phase' = "done" ELSE UNCHANGED phase
  /\ current' = Cardinality(CurrentRuleset) + 1
  /\ UNCHANGED <<iteration, lastExecution, idle>>

FinishRule(r, response) ==
  /\ newDer' = (newDer \/ response)
  /\ plan' = 0
  /\ \/ /\ IF IsIDB(r) THEN FinishSaturating(r, response) ELSE FinishEDB
        /\ UNCHANGED <<phase, timedOut>>
     \/ TimeOut
  /\ UNCHANGED <<db, order, stamp, stratum, first, limitView, assumed>>

SkipRule(r) ==
  /\ plan = 0 /\ ~BodyChanged(r)
  /\ FinishRule(r, FALSE)

EndRule(r) ==
  /\ plan = PlanCount(r) + 1
  /\ FinishRule(r, Derived(r))

\* The loops over rules without IDB literal are run in the first round only.
Enter(ph, isFirst) ==
  /\ phase' = ph
  /\ current' = IF ph \in {"edb", "extEdb"} /\ ~isFirst THEN Len(order) + 1 ELSE 1
  /\ idle' = 0

\* All rules of the phase have been executed as often as it asks for.
Leave(ph) ==
  /\ phase = ph /\ plan = 0
  /\ current > Cardinality(CurrentRuleset)
  /\ UNCHANGED <<db, order, stamp, iteration, lastExecution, plan, timedOut, assumed>>

EnterDatalog ==
  /\ Leave("edb")
  /\ Enter("datalog", first)
  /\ UNCHANGED <<stratum, first, newDer, limitView>>

EnterExtEDB ==
  /\ Leave("datalog")
  /\ Enter("extEdb", first)
  /\ limitView' = IF Restricted THEN iteration ELSE 0
  /\ UNCHANGED <<stratum, first, newDer>>

EnterExt ==
  /\ Leave("extEdb")
  /\ Enter("ext", first)
  /\ first' = FALSE
  /\ UNCHANGED <<stratum, newDer, limitView>>

\* (mutant) newDer is not reset.
NextRoundKeeping ==
  /\ Leave("ext") /\ ~timedOut
  /\ newDer
  /\ Enter("edb", FALSE)
  /\ limitView' = 0
  /\ UNCHANGED <<stratum, first, newDer>>

\* while (newDer)
NextRound ==
  /\ Leave("ext") /\ ~timedOut
  /\ newDer
  /\ Enter("edb", FALSE)
  /\ newDer' = FALSE
  /\ limitView' = 0
  /\ UNCHANGED <<stratum, first>>

NextStratum ==
  /\ Leave("ext") /\ ~timedOut
  /\ ~newDer /\ stratum + 1 < NStrata
  /\ Enter("edb", TRUE)
  /\ stratum' = stratum + 1
  /\ first' = TRUE
  /\ limitView' = 0
  /\ UNCHANGED newDer

Return ==
  /\ Leave("ext")
  /\ timedOut \/ (~newDer /\ stratum + 1 = NStrata)
  /\ phase' = "done"
  /\ UNCHANGED <<current, idle, stratum, first, newDer, limitView>>

Step(r) == StartRule(r) \/ ExecutePlan(r) \/ SkipRule(r) \/ EndRule(r)

ExecuteCurrent ==
  /\ phase # "done"
  /\ \E n \in CurrentRuleset : PlaceOf(n) = current /\ Step(order[n])

NextPhase == EnterDatalog \/ EnterExtEDB \/ EnterExt \/ NextRound \/ NextStratum \/ Return

\* run(0, 1, ...)
Init ==
  /\ db \in Databases
  /\ order \in Orders
  /\ stamp = [f \in Facts |-> 0]
  /\ iteration = 1
  /\ lastExecution = [r \in Rules |-> 0]
  /\ stratum = 0 /\ phase = "edb"
  /\ first = TRUE /\ newDer = FALSE /\ limitView = 0
  /\ current = 1 /\ idle = 0 /\ plan = 0
  /\ timedOut = FALSE
  /\ assumed = {}

Next == ExecuteCurrent \/ NextPhase

Spec == Init /\ [][Next]_vars

-----------------------------------------------------------------------------
(* Properties                                                              *)

TypeOK ==
  /\ db \in Databases /\ order \in Orders
  /\ iteration \in Nat \ {0} /\ stamp \in [Facts -> 0 .. iteration]
  /\ lastExecution \in [Rules -> 0 .. iteration - 1]
  /\ stratum \in 0 .. NStrata - 1
  /\ phase \in {"edb", "datalog", "extEdb", "ext", "done"}
  /\ first \in BOOLEAN /\ newDer \in BOOLEAN /\ timedOut \in BOOLEAN
  /\ limitView \in 0 .. iteration
  /\ current \in Nat \ {0} /\ idle \in Nat /\ plan \in Nat
  /\ assumed \subseteq Facts

Blocked(i) == NegatedFacts(i) \cap Present # {}

\* An instance whose facts are all older than the last execution of its rule has
\* been met: no combination falls between the ranges of two plans or of two
\* executions, whatever is collapsed, and whatever the limit view hides.
NoGap ==
  \A r \in Rules : \A i \in InstancesOf(r) :
    /\ lastExecution[r] > 0
    /\ \A j \in Positive(r) : stamp[i.body[j]] > 0 /\ stamp[i.body[j]] < lastExecution[r]
    => Satisfied(i) \/ Blocked(i)

SaturatedRule(r) ==
  \A i \in InstancesOf(r) :
    (\A j \in Positive(r) : i.body[j] \in Present) => Satisfied(i) \/ Blocked(i)

\* A run that was not stopped ends with every instance of every rule satisfied.
Saturated == phase = "done" /\ ~timedOut => \A r \in Rules : SaturatedRule(r)

\* "allIDBRules; // one entry for each stratification class" (seminaiver.h): a
\* fact whose absence let a rule fire is not derived later.
NoRegret == assumed \cap Present = {}

\* Saturation is reached: between two derivations each rule fails at most once per
\* pass, and only a round that derived is followed by another.
BoundedWork == iteration <= 1 + Cardinality(Rules) * (NStrata + 2 * Cardinality(Present))

\* Evaluation derives a fact only by applying a rule, and stops at a fixpoint.
Abstract == INSTANCE Chase WITH
  facts <- Present, done <- phase = "done" /\ ~timedOut,
  Program <- { [edb |-> i.edb, negative |-> NegatedFacts(i), head |-> i.head,
                positive |-> { i.body[j] : j \in Positive(i.rule) },
                satisfiedBy |-> i.satisfiedBy] : i \in Instances }

ImplementsChase == Abstract!Spec

=============================================================================
