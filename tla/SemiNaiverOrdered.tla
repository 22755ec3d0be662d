------------------------- MODULE SemiNaiverOrdered -------------------------
(***************************************************************************)
(* The scheduler of SemiNaiverOrdered::run (seminaiver_ordered.cpp), the   *)
(* chase the ISWC 2022 artifact adds to VLog: rules are executed in an     *)
(* order derived from positive reliances (Pos: an application of the first *)
(* rule may enable one of the second) and restraints (Res: an application  *)
(* of the first rule may make an earlier application of the second one     *)
(* redundant).  strategy is Default | Dynamic, the only value run() uses.  *)
(*                                                                         *)
(* Joins, tuples and tables are abstracted to "pending", the rules with a  *)
(* body match whose head does not hold yet, and "stamped", the predicates  *)
(* whose newest block carries the number of the iteration in progress.     *)
(***************************************************************************)
EXTENDS Integers, Sequences, FiniteSets, RelianceGraph

CONSTANTS
  Rules,           \* ids of the rules of the program
  Pos,             \* edges of computePositiveReliances
  Res,             \* edges of computeRestrainReliances
  EDBRules,        \* rules without IDB body atom (nIDBs = 0)
  HeadPreds,       \* the predicates in the head of each rule
  Members,         \* PositiveGroup::members, indexed from 0
  HasTimeout,      \* the caller passed a timeout different from 0
  MaxDerivations   \* bound: the chase ends after this many derivations

Groups == Components(Pos, Rules)

Preds == UNION { HeadPreds[r] : r \in Rules }

ASSUME RulesAssumption ==
  /\ IsFiniteSet(Rules)
  /\ EDBRules \subseteq Rules
  /\ Pos \subseteq Rules \X Rules
  /\ Res \subseteq Rules \X Rules

ASSUME HeadAssumption == \A r \in Rules : HeadPreds[r] # {}

\* A group's members are an enumeration of it (the code sorts it by rule id).
ASSUME MembersAssumption ==
  \A g \in Groups :
    /\ Members[g] \in [0 .. Cardinality(g) - 1 -> g]
    /\ \A r \in g : \E i \in 0 .. Cardinality(g) - 1 : Members[g][i] = r

ASSUME BoundAssumption == HasTimeout \in BOOLEAN /\ MaxDerivations \in Nat

Union == Pos \cup Res                               \* combineGraphs

GroupOf(r) == Component(Pos, Rules, r)              \* RelianceRuleInfo::positiveGroup

\* (mutant) without the test that skips the group itself.
GroupSuccessorsWithSelf(g) == { GroupOf(s) : s \in UNION { Successors(Pos, r) : r \in g } }

\* PositiveGroup::successors, as computePositiveGroups collects them.
GroupSuccessors(g) == { GroupOf(s) : s \in UNION { Successors(Pos, r) : r \in g } } \ { g }

GroupPredecessors(g) == { p \in Groups : g \in GroupSuccessors(p) }

Restrainers(r) == Predecessors(Res, r)

VARIABLES
  pc,                     \* where run() stands
  triggered,              \* rules with RelianceRuleInfo::triggered
  numTriggeredRules,      \* of each positive group
  numActivePredecessors,  \* of each positive group
  removed,                \* groups with PositiveGroup::removed
  numActiveGroups,
  activeRules,
  numRestrains,           \* of each rule
  todo,                   \* successors the loop in updateGraph has yet to visit
  stack,                  \* the calls of updateGraph under way, innermost first
  sweep,                  \* groups updateGraph has yet to be called on
  restrained,             \* positive groups of the current RestrainedGroup
  current,                \* positive group being executed
  currentRuleIndex,
  numWithoutDerivations,
  timeout,                \* "off" (NULL or 0), "armed", or "expired" (set to 0)
  pending, stamped, derivations,
  applied                 \* rules that have derived something (history)

graph == <<removed, activeRules, numActivePredecessors, numActiveGroups, numRestrains, todo, stack>>
loop == <<current, currentRuleIndex, numWithoutDerivations, restrained>>
data == <<pending, stamped, derivations, applied>>
vars == <<pc, triggered, numTriggeredRules, graph, sweep, loop, timeout, data>>

IsActive(g) == numActivePredecessors[g] > 0 \/ numTriggeredRules[g] > 0

Init ==
  /\ pc = "sweep"
  /\ triggered = EDBRules
  /\ numTriggeredRules = [g \in Groups |-> Cardinality(EDBRules \cap g)]
  /\ numActivePredecessors = [g \in Groups |-> Cardinality(GroupPredecessors(g))]
  /\ removed = {}
  /\ numActiveGroups = Cardinality(Groups)
  /\ activeRules = Rules
  /\ numRestrains = [r \in Rules |-> Cardinality(Restrainers(r))]
  /\ todo = [g \in Groups |-> GroupSuccessors(g)]
  /\ stack = << >>
  /\ sweep = Groups
  /\ restrained = {}
  /\ current = {}
  /\ currentRuleIndex = 0
  /\ numWithoutDerivations = 0
  /\ timeout = IF HasTimeout THEN "armed" ELSE "off"
  /\ pending \in SUBSET EDBRules
  /\ stamped = {}
  /\ derivations = 0
  /\ applied = {}

-----------------------------------------------------------------------------
(* updateGraph                                                             *)

\* (mutants) isActive looks at one of its two counters only.
EnterTriggered(g, preds) ==
  IF g \in removed \/ preds[g] > 0
  THEN UNCHANGED <<removed, activeRules, numActiveGroups, numRestrains, stack>>
  ELSE /\ numActiveGroups' = numActiveGroups - 1
       /\ numRestrains' = [r \in Rules |->
                             numRestrains[r] - Cardinality(Restrainers(r) \cap g)]
       /\ removed' = removed \cup {g}
       /\ activeRules' = activeRules \ g
       /\ stack' = <<g>> \o stack

EnterPreceded(g, preds) == EnterTriggered(g, [h \in Groups |-> numTriggeredRules[h]])

\* A call of updateGraph(g) up to its loop over the successors; preds are the
\* predecessor counts at the call.
Enter(g, preds) ==
  IF g \in removed \/ preds[g] > 0 \/ numTriggeredRules[g] > 0
  THEN UNCHANGED <<removed, activeRules, numActiveGroups, numRestrains, stack>>
  ELSE /\ numActiveGroups' = numActiveGroups - 1
       /\ numRestrains' = [r \in Rules |->
                             numRestrains[r] - Cardinality(Restrainers(r) \cap g)]
       /\ removed' = removed \cup {g}
       /\ activeRules' = activeRules \ g
       /\ stack' = <<g>> \o stack

\* The loops over positiveGroups in run() and over the restrained group.
SweepGroup ==
  /\ pc = "sweep" /\ stack = << >>
  /\ \E g \in sweep :
       /\ sweep' = sweep \ {g}
       /\ Enter(g, numActivePredecessors)
  /\ UNCHANGED <<pc, triggered, numTriggeredRules, numActivePredecessors, todo,
                 loop, timeout, data>>

NotifySuccessor ==
  /\ stack # << >>
  /\ LET g == Head(stack) IN
     \E s \in todo[g] :
       /\ todo' = [todo EXCEPT ![g] = @ \ {s}]
       /\ numActivePredecessors' = [numActivePredecessors EXCEPT ![s] = @ - 1]
       /\ Enter(s, numActivePredecessors')
  /\ UNCHANGED <<pc, triggered, numTriggeredRules, sweep, loop, timeout, data>>

ReturnFromUpdate ==
  /\ stack # << >>
  /\ todo[Head(stack)] = {}
  /\ stack' = Tail(stack)
  /\ UNCHANGED <<pc, triggered, numTriggeredRules, removed, activeRules,
                 numActivePredecessors, numActiveGroups, numRestrains, todo,
                 sweep, loop, timeout, data>>

\* while (numActiveGroups > 0)
LoopTest ==
  /\ pc = "sweep" /\ stack = << >> /\ sweep = {}
  /\ pc' = IF numActiveGroups > 0 THEN "select" ELSE "done"
  /\ UNCHANGED <<triggered, numTriggeredRules, graph, sweep, loop, timeout, data>>

-----------------------------------------------------------------------------
(* executeGroupByPositiveGroups on a group no active rule outside precedes *)

\* (mutants) any component, and the static components of the whole graph.
AnyRestrainedGroups ==
  { { GroupOf(r) : r \in M } : M \in Components(Union, activeRules) }

StaticRestrainedGroups ==
  { { GroupOf(r) : r \in M } : M \in SourceComponents(Union, Rules) }

\* computeRestrainedGroup(minimumGroup): the positive groups it consists of.
\* Which source component comes first depends on the order of the edge lists.
RestrainedGroups ==
  { { GroupOf(r) : r \in M } : M \in SourceComponents(Union, activeRules) }

Eligible(g) == numTriggeredRules[g] > 0 /\ numActivePredecessors[g] = 0

\* The first group that qualifies is executed; if none does (nullptr), run()
\* sweeps the restrained group.
SelectGroup ==
  /\ pc = "select"
  /\ \E G \in RestrainedGroups :
       /\ restrained' = G
       /\ IF \E g \in G : Eligible(g)
          THEN /\ current' \in { g \in G : Eligible(g) }
               /\ currentRuleIndex' = 0
               /\ numWithoutDerivations' = 0
               /\ pc' = "execute"
               /\ UNCHANGED sweep
          ELSE /\ sweep' = G
               /\ pc' = "sweep"
               /\ UNCHANGED <<current, currentRuleIndex, numWithoutDerivations>>
  /\ UNCHANGED <<triggered, numTriggeredRules, graph, timeout, data>>

currentRule == Members[current][currentRuleIndex]

\* executeRule: facts for the predicates in "written", new matches for the
\* rules in "woken".  Only a pending rule derives, and it wakes rules that
\* rely on it.
ExecuteRule(r, written, woken) ==
  /\ written \subseteq HeadPreds[r] /\ woken \subseteq Successors(Pos, r)
  /\ written # {} => r \in pending /\ derivations < MaxDerivations
  /\ woken # {} => written # {}
  /\ pending' = (pending \ {r}) \cup woken
  /\ derivations' = IF written = {} THEN derivations ELSE derivations + 1
  /\ applied' = IF written = {} THEN applied ELSE applied \cup {r}

\* (mutant) TRUE only if every head predicate received facts.
ResponsesWholeHead(r, written) == { written = HeadPreds[r] }

\* What executeRule answers: it looks for a head table with a block of this
\* iteration (unless bodyChangedSince let it skip the rule).
Responses(r, written) ==
  IF written # {} THEN {TRUE}
  ELSE IF stamped \cap HeadPreds[r] # {} THEN BOOLEAN ELSE {FALSE}

\* (mutant) setTriggered counts without looking at the old value of the flag.
RetriggerUnchecked(r, S) ==
  /\ triggered' = (triggered \ {r}) \cup S
  /\ numTriggeredRules' =
       [g \in Groups |-> numTriggeredRules[g]
                           - (IF g = GroupOf(r) THEN 1 ELSE 0) + Cardinality(S \cap g)]

\* setTriggered(false) on r, then setTriggered(true) on each rule of S.
Retrigger(r, S) ==
  LET rest == triggered \ {r} IN
  /\ triggered' = rest \cup S
  /\ numTriggeredRules' =
       [g \in Groups |-> numTriggeredRules[g]
                           - (IF r \in triggered /\ g = GroupOf(r) THEN 1 ELSE 0)
                           + Cardinality((S \ rest) \cap g)]

ExecuteMember ==
  /\ pc = "execute"
  /\ \E written \in SUBSET HeadPreds[currentRule],
        woken \in SUBSET Successors(Pos, currentRule) :
       /\ ExecuteRule(currentRule, written, woken)
       /\ \E response \in Responses(currentRule, written) :
            /\ Retrigger(currentRule, IF response THEN Successors(Pos, currentRule) ELSE {})
            /\ numWithoutDerivations' = IF response THEN 0 ELSE numWithoutDerivations + 1
  /\ currentRuleIndex' = (currentRuleIndex + 1) % Cardinality(current)
  /\ stamped' = {}
  /\ IF numWithoutDerivations' < Cardinality(current)
     THEN UNCHANGED <<pc, sweep>>
     ELSE pc' = "sweep" /\ sweep' = {current}
  /\ UNCHANGED <<graph, current, restrained, timeout>>

\* The time is up after a rule was executed: the round is left before the
\* rule's lastExecution, the iteration and the triggers are brought up to date.
ExecuteTimeout ==
  /\ pc = "execute" /\ timeout = "armed"
  /\ timeout' = "expired"
  /\ \E written \in SUBSET HeadPreds[currentRule],
        woken \in SUBSET Successors(Pos, currentRule) :
       /\ ExecuteRule(currentRule, written, woken)
       /\ stamped' = stamped \cup written
  /\ pc' = "sweep"
  /\ sweep' = restrained
  /\ UNCHANGED <<triggered, numTriggeredRules, graph, loop>>

Done == pc = "done" /\ UNCHANGED vars

Update == SweepGroup \/ NotifySuccessor \/ ReturnFromUpdate \/ LoopTest

Next == Update \/ SelectGroup \/ ExecuteMember \/ ExecuteTimeout \/ Done

Spec == Init /\ [][Next]_vars

\* run() is one thread that is always scheduled again.
FairSpec == Spec /\ WF_vars(Next)

-----------------------------------------------------------------------------
(* Properties                                                              *)

TypeOK ==
  /\ pc \in {"sweep", "select", "execute", "done"}
  /\ triggered \subseteq Rules
  /\ numTriggeredRules \in [Groups -> Nat]
  /\ numActivePredecessors \in [Groups -> Nat]
  /\ removed \subseteq Groups
  /\ numActiveGroups \in Nat
  /\ activeRules \subseteq Rules
  /\ numRestrains \in [Rules -> Nat]
  /\ todo \in [Groups -> SUBSET Groups]
  /\ stack \in Seq(Groups)
  /\ sweep \subseteq Groups
  /\ restrained \subseteq Groups
  /\ pc = "execute" =>
       current \in Groups /\ currentRuleIndex \in 0 .. Cardinality(current) - 1
  /\ numWithoutDerivations \in Nat
  /\ timeout \in {"off", "armed", "expired"}
  /\ pending \subseteq Rules
  /\ stamped \subseteq Preds
  /\ derivations \in Nat
  /\ applied \subseteq Rules

\* The incremental counters of setTriggered, setInactive and updateGraph say at
\* every moment what they stand for, however the recursion of updateGraph
\* interleaves its decrements with nested removals.
CountersExact ==
  /\ \A g \in Groups : numTriggeredRules[g] = Cardinality(triggered \cap g)
  /\ \A g \in Groups :
       numActivePredecessors[g] = Cardinality({ p \in Groups : g \in todo[p] })
  /\ \A r \in Rules : numRestrains[r] = Cardinality(Restrainers(r) \cap activeRules)
  /\ numActiveGroups = Cardinality(Groups \ removed)

\* The three situations in which the code prints an error never arise: a rule
\* of a group about to be removed is inactive already, a predecessor counter is
\* decremented below zero, setInactive is called on an active group.
NoErrorPrinted ==
  /\ \A g \in Groups \ removed : g \subseteq activeRules
  /\ stack # << >> => \A s \in todo[Head(stack)] : numActivePredecessors[s] > 0
  /\ \A g \in removed : ~ IsActive(g)

\* A removed group is finished for good: whatever the order of executions,
\* triggers and removals, none of its rules is triggered again or, unless the
\* time ran out, has anything left to derive.
RemovedIsFinal ==
  \A g \in removed :
    /\ triggered \cap g = {}
    /\ timeout # "expired" => pending \cap g = {}

\* When run() returns without a timeout no rule can derive a new fact.
SaturatedWhenDone == pc = "done" /\ timeout # "expired" => pending = {}

\* When a group is to be selected every candidate restrained group has one that
\* qualifies: run() never goes round its loop without executing a rule.
SomeGroupQualifies ==
  pc = "select" =>
    /\ RestrainedGroups # {}
    /\ \A G \in RestrainedGroups : \E g \in G : Eligible(g)

\* Once a rule has derived something, the rules that restrain it from outside
\* its component of the union graph are inactive: together with RemovedIsFinal,
\* no alternative match for its facts appears later (core stratification).
RestrainersFirst ==
  \A r \in applied : \A s \in Restrainers(r) :
    s \in activeRules => s \in Component(Union, Rules, r)

\* run() returns as soon as the chase is saturated or has reached its bound.
Terminates == <>(pc = "done")

\* "To indicate materialization was stopped because of timeout" (comment in
\* executeGroupByPositiveGroups): after the timeout no rule is executed.
StoppedByTimeout == [][timeout = "expired" => pc' # "execute"]_vars

=============================================================================
