# VLog with reliances: specification, model checking and proofs

This directory specifies the rule engine of the ISWC 2022 artifact on reliances
(`src/reproduce/VLog`): VLog, an in-memory Datalog / existential-rule engine, extended with
the computation of *positive reliances* and *restraints* between rules and with a chase that
orders rule applications by them. All source paths below are relative to
`src/reproduce/VLog/`.

## 1. Inventory

| component | state it keeps | operations | interacts with |
|---|---|---|---|
| reliance-guided chase (`forward/seminaiver_ordered.cpp`) | per rule: triggered, active, numRestrains; per positive group: removed, numActivePredecessors, numTriggeredRules; numActiveGroups, activeRules, iteration | run, updateGraph (recursive), computeRestrainedGroup, executeGroupByPositiveGroups, setTriggered, setInactive | reliance search (graphs), computeRelianceGroups, executeRule |
| reliance graphs and groups (`reliances/common.cpp`) | visited, two stacks, groups, assignments, minimumGroup | fillOrderNonRecursive, dfsUntilNonRecursive, computeRelianceGroups, isCoreStratified | scheduler |
| positive reliance and restraint search (`reliances/positive.cpp`, `restrain.cpp`) | VariableAssignments (group ids, depths), mapping, timeouts, answer cache | extend, check, computePositiveReliances, computeRestrainReliances | scheduler |
| semi-naive evaluation (`forward/seminaiver.cpp`, `ruleexecdetails.cpp`, `ruleexecplan.cpp`) | iteration, limitView, per rule lastExecution, the FCTables | run, executeRules, executeUntilSaturation, executeRule | fact tables, joins, head processing |
| fact tables (`forward/fctable.cpp`) | blocks stamped with iterations, cache of filtered tables | add, filter, collapseBlocks, read | joins, head processing |
| chase terms (`forward/chasemgmt.cpp`) | rows of arguments per rule and variable, counters, cyclic flag | getNewOrExistingIDs, checkRecursive | head processing, checker |
| head processing and restricted chase (`forward/*resultjoinproc.cpp`) | segments per head atom, columns of new terms | addColumns, consolidate, filterDerivations, retainNonExisting, blocked check | fact tables, chase terms |
| intermediate tables, segments, columns, joins, filters | immutable sorted data | merge, retain, join, filter | evaluation |
| termination checks (`cycles/checker.cpp`) | a critical instance, one materialisation per check | JA, RJA, MSA, MFA, RMSA, RMFA, MFC, RMFC | semi-naive evaluation, chase terms |
| query answering (`backward/`, `magic/`) | task stack of QSQR, inputs and answers per adorned predicate, adorned program | evaluateQuery, evaluate, processTask, magic rewriting | EDB layer, semi-naive evaluation |
| EDB layer and back ends (`common/edb.cpp`, `trident/`, `inmemory/`, ...) | dictionaries, predicate tables | iterators, joins, queries | everything above |
| threaded and trigger-guided evaluation | as semi-naive evaluation, with locks / with a file of triggers | executeUntilSaturation, run | semi-naive evaluation |
| interfaces (`launcher/`, `reasoner.cpp`, `web/`, `java/`, `ml/`) | options | drivers | everything |

What is hard here is rarely concurrency (one thread evaluates; the threaded variant hides
the base class's functions and is never reached through them) and mostly *incremental state*:
counters and triggers that stand for sets, stamps and ranges of iterations that stand for "the
facts this rule has not seen", caches of searches and of filtered tables, a backtracking
search that must undo what it assigned, a stack of suspended sub-queries over shared tables,
a time limit noticed in the middle of a round. `PROJECT.json` lists these hazards at their
lines.

What makes each component correct:

* scheduler: counters are exact, a removed group never fires again, nothing is pending at
  the end, a rule fires only when no rule outside its component that precedes or restrains
  it can fire, the loop always makes progress, it stops at a timeout;
* groups: exactly the strongly connected components of the active graph, sources first;
* reliance search: undoing restores the state, an answer never depends on the branch that
  was tried before nor on the flags of the strategy, a timeout spoils no earlier answer;
* fact tables: reading or filtering yields every fact of the range once;
* semi-naive evaluation: no instance of a rule is skipped between two executions; the end is
  the least model (or, for the restricted chase, a universal model);
* chase terms: one id per (rule, variable, arguments), the cyclic flag raised exactly when a
  term contains its own function symbol;
* head processing: a match is dropped only if the whole head holds;
* termination checks: ordered by strength, never contradicting each other, and sound: an
  accepted program makes no cyclic term on any database;
* query answering: the answers of the least model, in both modes; sub-queries end.

## 2. Modules

| module | models |
|---|---|
| `RelianceGraph` | graphs as sets of edges; `Component`, `Components`, `SourceComponents`: what `computeRelianceGroups` promises. Defined by quantifying over closed sets, so that theorems can use it |
| `RelianceGroups` | the code of `computeRelianceGroups`, with its two explicit stacks, shown to compute the above |
| `SemiNaiverOrdered` | `SemiNaiverOrdered::run` |
| `StratifiedChase` | abstract specification: rules are closed in an order compatible with reliances |
| `OrderedImplements` | the refinement mapping from `SemiNaiverOrdered` to `StratifiedChase` |
| `VariableAssignments` | `struct VariableAssignments`: constants, group ids, edges, and the depths that `increaseDepth` and `decreaseDepth` keep for undoing |
| `RelianceChecks` | terms and their unification, `checkModels`-style satisfaction, and the three checks of a mapping: positive, restraint, self-restraint |
| `RelianceMeaning` | the definition of a positive reliance (one application makes another possible), independent of the search |
| `RelianceSearch` | `computePositiveReliances` and `computeRestrainReliances`: driver, cache, timeouts, backtracking search |
| `FCTable` | the table of one predicate in `forward/fctable.cpp`: blocks, cached filtered tables, collapse, driven by executions and plans of rules |
| `FactStore` | abstract specification of a table: a growing set of facts and the answers to queries |
| `SemiNaive` | `SemiNaiver::run`: strata, rounds, saturation, the plans of `executeRule` and their ranges of iterations, the limit view of the restricted chase |
| `Chase` | abstract specification of evaluation: instances are applied in any order until all are satisfied |
| `ChaseTerms` | `ChaseMgmt`: ids, interned rows, the recursion check |
| `ExistentialHeads` | `filterDerivations`, `retainNonExisting`, `retainNonRecursive` and the blocked check of `ExistentialRuleProcessor` |
| `TerminationChecks` | JA, RJA, MSA, MFA, RMSA, RMFA, MFC and the restricted chase of what they accept; composes the two modules above |
| `AdornedRules` | adornments and the optimizer's order of a body, shared by both ways to answer a query; the least model, as a reference |
| `QSQR` | `QSQR` and `RuleExecutor`: the stack of tasks, inputs, answers, supplementary relations |
| `MagicSets` | `Wizard`: the adorned program, the rewriting, what the rewritten program derives |
| `QueryModes` | composes the two: both modes side by side |
| `SemiNaiverOrdered_proofs`, `RelianceGroups_proofs`, `SemiNaive_proofs`, `FCTable_proofs`, `RelianceSearch_proofs`, `TerminationChecks_proofs`, `QSQR_proofs`, `QueryModes_proofs` | theorems, see section 4 |
| `MC*` | instances for TLC |

### SemiNaiverOrdered and the code

| action | code |
|---|---|
| `SweepGroup` | one iteration of the loop that calls `updateGraph` on every group at the start of `run`, on the group just executed, or on the members of the restrained group if none qualified |
| `NotifySuccessor` | one iteration of the loop over `successors` in `updateGraph`: the decrement and the nested call up to its own loop |
| `ReturnFromUpdate` | return of `updateGraph` |
| `LoopTest` | `while (numActiveGroups > 0)` |
| `SelectGroup` | `computeRelianceGroups`, `computeRestrainedGroup`, and the search for a positive group that qualifies |
| `ExecuteMember` | one turn of the `do` loop: `executeRule`, `lastExecution`, `iteration++`, triggers, the round counter |
| `ExecuteTimeout` | the same turn when the time limit is noticed |

The recursion of `updateGraph` is kept as an explicit `stack` with the successors each call
has still to visit (`todo`), because its counters are decremented between nested calls.
`strategy` is a constant of the code (`Default | Dynamic`), so the `UnrestrainedFirst`
branches are dead and left out. Joins and tables are abstracted to `pending`, the rules with
a match whose head does not hold, and `stamped`, the predicates that already have a block of
the iteration in progress; `executeRule` may answer `true` for a rule that derived nothing
when another rule left such a block (after a timeout), and may wake any subset of the rules
that rely on it. `applied` is a history variable.

### RelianceSearch and the code

| action | code (`positive.cpp`, `restrain.cpp`) |
|---|---|
| `DriverTimeout` | the global time limit noticed by the driver between two pairs |
| `CacheHit` | the pair's hash is in the cache |
| `Pieces` | the head of a rule falls into pieces: it restrains itself |
| `StartSearch`, `StartSelf` | the calls of the search on a pair, and on a rule with itself |
| `Iterate` | a strategy without `BetterIterate`: every mapping is tried from nothing |
| `SearchTimeout` | the limit noticed in a search, which answers yes |
| `Extend` | `positiveExtend`, `restrainExtend`, `selfRestrainExtend` are entered |
| `Try` | one pair of atoms: `increaseDepth`, `extendAssignment`, the check, and what the answer leads to |
| `Backtrack` | a call returns; its caller calls `decreaseDepth` |
| `Record`, `Finish` | the answer is stored in graph and cache; the end of the loops |

The recursion of the search is the variable `stack`, one entry per call. Group ids are the
code's numbers, because whether an overwritten id comes back is the question; terms are
numbers, existential variables negative ones: a rule has at most 99 variables, and constants
are 100 to 999, below `NotAssigned`. Ids of groups have no such bound, so that `NoGroup` and
`Assigned` stand for `NOT_ASSIGNED` and `ASSIGNED` (the largest integers of the code) where
groups are meant. `InputAssumption` says that atoms of one predicate have one arity, as
`Program::getOrAddPredicate` requires (`src/vlog/common/concepts.cpp:1345`). The three copies of the search (positive,
restraint, self-restraint) differ in which atoms are mapped and in the check, so they share
actions that take `kind`. The existential variables of a program are marked before, as
`markExistentialVariables` does. `DEBUGcountFakePositiveReliances` counts for the log.

### FCTable and the code

| action | code |
|---|---|
| `StartRule` | the caller of `executeRule` moves on: `lastExecution`, `iteration++` (`executeUntilSaturation`); rules in `ExtEDBRules` are executed by the loop over `extEdbRuleset`, which does not increment `iteration` |
| `Consolidate` | one plan of `executeRule` ends: for every head `consolidate` (collapse, `retainFrom`, `FCTable::add`) |
| `Filter` | `FCTable::filter`, from a join (with a filterer, which asks `TableFilterer::intersection` for each block) or without one |

A table holds rows, a column or segment is the set of rows it yields, and the results of a
plan are any rows that are instances of its heads: what a rule derives is not this table's
business. `RowsOf` of the blocks is therefore the abstract `facts` of `FactStore`, and
`ImplementsFactStore` says that no cached, merged, skipped or collapsed block ever changes
an answer. `Consolidate` removes the rows the table already has, as `retainFrom` does; the
joins' own claim that some results are unique (`utmpt` without `forceCheck`) is taken over.
The thresholds 16 and 8 of `collapseBlocks` are the constants `CollapseAbove` and
`CollapseAtLeast`; `lastExecution` is the iteration of the rule's last execution (the limit
view of the restricted chase, which is older, belongs to semi-naive evaluation).
`born` is a history variable.

### SemiNaive and the code

| action | code |
|---|---|
| `StartRule`, `SkipRule` | `executeRule` enters, or `bodyChangedSince` turns it away |
| `ExecutePlan` | one turn of the loop over `orderExecutions`: `checkIfAtomsAreEmpty`, the join over the plan's ranges, the restricted chase's filter, consolidation (with or without `collapseBlocks`) |
| `EndRule`, `FinishRule` | the answer, and what the caller does with it: `FinishSaturating` (`executeUntilSaturation`), `FinishEDB` (the loops over rules without IDB atom), `TimeOut` |
| `EnterDatalog`, `EnterExtEDB`, `EnterExt`, `NextRound`, `NextStratum`, `Return` | the loops of `executeRules` |

A program is given by the ground instances of its rules. What makes an instance (joins,
unification, new terms) is abstracted; which instances a plan meets is not: a plan joins the
facts whose stamps lie in its ranges. An existential rule has one instance per term it would
make, with the sets of facts that satisfy its head (`satisfiedBy`). All instances of a
plan are applied together, and a literal is matched by every fact of its predicate, as in
rules whose atoms have distinct variables. `collapseBlocks` may merge any group of the old
facts of a head predicate into the newest of them, which includes what `FCTable` shows the
code to do. The check for cyclic terms, which stops a run, and the restart of `prepare` are
left out. `assumed` is a history variable.

### TerminationChecks and the code

| action | code |
|---|---|
| `CheckJA` | `Checker::JA`: positions, propagation, the dependency graph and `Graph::isCyclic` |
| `CheckRJA` | the restricted branch of `Checker::JA`, and `rja_check` |
| `ExecuteRule` | one call of `executeRule` from the loops of `SemiNaiver`: per block of matches `addColumns` (filters, terms, the cyclic flag), then `consolidate` |
| `EnterExt` | the restricted chase goes from the Datalog rules to the existential ones |
| `EndMSA`, `EndMFA`, `EndRMSA`, `EndRMFA`, `EndMFC`, `EndChase` | a chase ends, because it is saturated or met a cyclic term, and the function returns its verdict; MFC goes on with the next rule |

A program is one value, its rules are records of body and heads. Which rows a block has and
in which order is kept, since `filterDerivations` merges sorted rows and reports places; the
scheduling is that of `SemiNaive` reduced to what decides which matches exist, and every
predicate is a derived one, as the facts of a chase are given to `SemiNaiver`. The checks
run one after the other on one program; each is a function of its own in the code, so the
order is the harness's. `rules` is the program of the chase at hand: RMSA adds atoms that
note which value a term was made from, and two rules that close that relation. When RMSA
has met a cyclic term the code still executes the first rule of each part for some rounds;
the verdict is known by then, and the model stops. RJA compares positions by the ids of
predicates (`PredId`). The chase follows when MFA accepts, or RMFA accepts and `MayChase`
says that the heads are such that the head check is exact. `addRow` throws when the counter
of a function symbol is used up: `Room`, the guard of `ExecuteRule`.

### QSQR, MagicSets and the code

| action | code |
|---|---|
| `Start`, `RepeatRound`, `Finish` | the loop of `QSQR::evaluateQuery`: clean inputs, push the query, repeat while the number of answers grew, filter the result |
| `AskAgain` | the loop of `Reasoner::getIncrReasoningIterator`: the same `QSQR`, whose answers are still there and whose rules are dropped, is asked for the values that had no answer |
| `Evaluate` | `QSQR::evaluate`: create the executors of the predicate, the first rule |
| `ProcessQuery` | `QSQR::processTask`: the next rule, or all again |
| `ProcessRule`, `ProcessRuleQuery` | `RuleExecutor::processTask` and `evaluateRule`: the next atom from its supplementary relation; the answers of a sub-query |
| `TopDown`, `Rewrite`, `Materialize` (`QueryModes`) | `getIterator` calls `getTopDownIterator`, all of the above, or `getMagicIterator`: `Wizard`, then rounds of the rewritten program |

As in the build (`RECURSIVE_QSQR` is not defined) the recursion is a stack of tasks: each
sub-query suspends the rule below it, and all share the tables of inputs and answers. Tables
are sets, inputs sequences, because an offset into them marks what a sub-query evaluates.
An exception ends the evaluation in `pc = "unplannable"` or `"cartesian"`. The order of a
body is the optimizer's; ties in `selectivitySorter` keep their order, as `std::sort` does on
the few elements of a body. The release build is modelled, so the optimizer's
`assert` is not. Rules are Datalog rules with one head, as query answering wants them.
The magic rewriting is modelled rule by rule; how `SemiNaiver::run` materialises the
rewritten program is `SemiNaive`'s business, here a round applies all its rules. Either mode
may be chosen: the estimate that decides is left out.

## 3. Runs

| run | question | instance and bounds |
|---|---|---|
| `OrderedCycle` | the safety of the scheduler, with a timeout that may come at any turn | six rules: the positive graph of the test in `reliances/tests.cpp` with a self-reliant rule added, restraints that join its groups into one component of the union graph; at most 4 derivations |
| `OrderedStrat` | without a timeout: refinement of `StratifiedChase` and termination, where only restraints order the rules | five rules, core stratified; at most 5 derivations |
| `OrderedTimeout` | expected violation: see the finding below | the same program, with a timeout |
| `Groups` | `computeRelianceGroups` delivers the components, sources first, a right `minimumGroup`, and returns | all 512 graphs on three nodes with all active sets and all orders of adjacency lists; 32 graphs on five nodes around the graph of the test, with at least four active nodes |
| `Reliances` | every strategy gives the expected graph; positive reliances are exactly what applying rules can cause; timeouts spoil nothing; backtracking restores | the programs of the repository's tests with the graphs they expect, and two with three and four rules of equal shape; all 16 combinations of flags; a cache of 3 answers; a timeout at any pair and in any search |
| `ReliancesUndo` | expected violation: see the finding below | one program of two rules, the default strategy |
| `FCTableSingle` | tables of rules with one head: completeness of cached reads, order and age of stamps, refinement of `FactStore` | two rules (one with two plans, one with a constant in its head), two constants, five iterations, collapse from three blocks on; one query |
| `SemiNaiveChase` | the restricted chase with negation and a time limit: no instance falls between two plans or executions, no negated atom is derived later, the work is bounded, a run that is not stopped is saturated; refinement of `Chase` | nine rules in two strata, four of them existential, feeding each other; 8 databases, 3 orders; any collapse |
| `Termination` | the verdicts are ordered, agree with each other, and are sound for the chase that follows; the cyclic flag is exact | all programs of one to three of twelve rules, three more programs (terms that nest once, a join before an existential head, a cycle of three symbols); 2 databases |
| `TerminationHeads` | expected violation: see the finding below | the same programs |
| `Queries` | both modes give the answers of the least model; tables stay sound; every step makes progress | one rule with up to two of nine others; 2 databases over three values; 7 queries, two with a list of values, one of them asked again |
| `QueriesMagic` | expected violation: see the finding below | an EDB rule and a symmetric rule |

`MaxDerivations` bounds the number of rule applications that derive facts (a chase need not
terminate); 4 or 5 lets every group of the instance derive, be woken and be woken again
inside its cycle. Smaller programs do not have a restrained group that splits while it is
executed; the two programs do. For groups, three nodes are enough for a component of every
shape to sit before, after and beside another one; five nodes add cycles behind cycles.
`MaxIteration = 5` lets a rule collapse two of its blocks, be executed again and read
through the cache between its plans, before and after; with thresholds of 2 three blocks are
enough to do so. `SemiNaive` needs no bound: the facts are finite and the evaluation ends by
itself (that is `BoundedWork`); the circle link, seen, witness, pass, link makes several
rounds. A cache of 3 answers fills up on programs of three and four rules, so that pairs are
met with the answer stored and with no room left for it. `CounterWidth` and `VarWidth` only
have to exceed the terms and variables of the instances (`TypeOK` says they do). Three rules
are enough for two function symbols to nest through a Datalog rule between them. On these
programs every check but the strongest rejects some program that the next one accepts. The query for
`q(x,b)` with a list of values for `x` is asked again in programs with two rules of one IDB
atom each: it meets the answers of its first turn. The head check is exact, and
`ChaseIsModel` stated, for heads that are in the order of the body's rows and share no
existential variable (`HeadsInOrder`); what happens otherwise is the finding below. RMSA, RMFA and
MFC are only asked for programs whose existential rules have one body atom: matches of a join
reach the filters through `ExistentialRuleProcessor::consolidate`, which is not modelled.

Fairness: `run` of the scheduler is one thread that is never blocked, so `WF_vars(Next)`;
`computeRelianceGroups` likewise. Termination of the scheduler relies on the bound on
derivations: it says that the schedule adds no divergence of its own to that of the chase.
For evaluation and queries, progress is stated as a measure instead (`BoundedWork`,
`Advances`), which needs no fairness and says more: how much can still happen.

### Findings

`OrderedTimeout`: when the time is up, `executeGroupByPositiveGroups` sets `*timeout` to 0
"to indicate materialization was stopped because of timeout"
(`src/vlog/forward/seminaiver_ordered.cpp:181`) and returns `nullptr`. The loop of `run`
takes `nullptr` for "no group qualifies", and with `*timeout = 0` the check is switched off:
the run continues to saturation. The rule that was interrupted keeps its old
`lastExecution` and its successors were not triggered, so the run that continues may even
end unsaturated: `SaturatedWhenDone` and `RemovedIsFinal` are stated for runs whose time
did not run out.

`ReliancesUndo`: `connectVariables` overwrites the group ids of variables that already have
one when two groups merge, and notes only those that had none; `decreaseDepth`
(`include/vlog/reliances/reliances.h:255`) restores the noted ones. A sibling tried later sees
two variables unified that are not. In `MCRelianceSearch!UndoPrograms` the default strategy
misses the reliance of rule 2 on rule 1, which trying every mapping from nothing finds.
`Backtracked` states what undoing does restore, for every program (`UndoRestores`, section
4): bindings and unifications, and no group is lost or split. Only that groups may stay
merged is left, and that is this finding.

`TerminationHeads`: `retainNonExisting` (`src/vlog/forward/extresultjoinproc.cpp:270`) drops a
match that every head atom meets on its own. For `A(x) -> R(x,y), S(y,x)` with `y`
existential, over `A(1)`, `A(2)`, `R(1,2)`, `S(1,1)`, `S(2,3)`, the match `x = 1` is dropped
although no `y` has both atoms, and the chase ends without a model.

`QueriesMagic`: `Wizard::doMagic` leaves out the rule that passes bindings on when its body
would only be the magic atom of its own head (`src/vlog/magic/wizard.cpp:152`), but compares
predicate and adornment only. For `p(x,y) :- p(y,x)` with both arguments bound the rule that
exchanges them is lost: over `e(b,c)` and `p(x,y) :- e(x,y)` the query `p(c,b)` has no answer,
where the top-down evaluator finds it.

### Further observations

Met while modelling, and outside the inputs of the passing runs:

* `FCTable::add` invalidates cached tables when it merges into the last block, but not when
  it appends a second block of the same iteration (`fctable.cpp:418`), which it does when a
  predicate occurs twice in a head: a cached read may never see that block.
* `add` merges results of one iteration by head position alone (`fctable.cpp:399`). The
  existential rules without IDB atoms share an iteration (`seminaiver.cpp:262`), so rows of
  two rules share a block whose literal is the first rule's, and a filtered read may skip it.
* A rule belongs to the stratum of its first head (`seminaiver.cpp:117`). In
  `h(x), k(x) :- p(x)`; `h(x) :- p(x), not g(x)`; `s(x) :- p(x), not k(x)` the predicate `k`
  is derived in the stratum in which it is negated. With `h2(x), h1(x) :- b(x)` of class 1 and
  `e(x) :- h1(x)` of class 0 the facts of `e` are never derived, since class 0 is not entered
  again. `FirstHeadAssumption` of `SemiNaive` excludes such programs.
* `positiveCheck` decides in two steps whether a head is satisfied, and the answer of the
  second, about the atoms with existential variables, replaces that of the first
  (`positive.cpp:150`): a head that lacks a universal atom counts as satisfied. The programs
  of the tests have no such head, and `PositiveExact` is checked on those.
* RJA intersects the positions a term reaches with the positions of a body variable
  without sorting the latter or dropping repetitions (`checker.cpp:688`). For
  `S(x,w) :- R(x,y), R(x,z)` with `w` existential and `R(w,b) :- S(x,w), B(b)` the variable `x`
  counts twice, the dependency of `w` on itself is missed and RJA accepts, though the chase
  of `R(a,b)`, `B(b)` does not end. `Hierarchy` compares RJA with RMSA on programs whose
  existential rules have one body atom, where it cannot happen.
* `rja_check` starts from a copy of the program with the Datalog rules, but that
  constructor copies the predicates only (`concepts.cpp:823`): the Datalog rules are not
  applied, and RJA rejects more programs than it need.
* For matches of a join, `ExistentialRuleProcessor::consolidate` filters recursive terms
  from the columns the terms are made from only (`extresultjoinproc.cpp:1219`): the other
  columns of the head keep their length.
* For a rule and an identical copy of it, the cache of restraints answers for the pair what
  was found for one of them with itself.
* `projectAndFilter` does not compare the columns of a repeated variable
  (`common/bindingstable.cpp:226`): with `p(x,y) :- e(x,y)` and `q(x,x) :- p(x,x)`, `e(b,a)`
  gives `q(b,b)` in the top-down evaluator. In the pool of `Queries` the atom `p(x,x)` has
  `x` bound before, and the join compares it. (`Reasoner` itself compares, at line 747, for
  the query.)
* `isUnifiable` (`ruleexecutor.cpp:231`) indexes the tuple by a place among the bound
  variables: the same as its place in the tuple only if every bound argument before it is a
  variable of its own, which predicates of two arguments cannot violate.

## 4. Proofs

Every theorem holds for all values of the constants that meet the assumptions its module
names: any finite program, graph or table, whatever its size. Where a theorem needs a
hypothesis of its own, it is stated there and below. TLC has checked each inductive
invariant on the runs before it was proved; of that of `TerminationChecks_proofs`, which
speaks of all sets of numbers closed under an edge relation, what follows for the properties
of the run `Termination` and for `SearchesEnd`.

* `SemiNaiverOrdered_proofs`: the inductive invariant is
  `IInv == TypeOK /\ CountersExact /\ GraphInv /\ ExecuteInv /\ TriggerInv /\ RestrainersFirst`.
  `CountersExact` alone is not inductive: `numActivePredecessors` is tied to the successors
  the calls on the stack have still to visit (`todo`), which needs `GraphInv` (only removed
  groups have visited any; removed groups have zero counters, so that nothing they are
  decremented or triggered by remains). `ExecuteInv` says that the group in execution has no
  active predecessor outside its own component of the union graph, which gives
  `RestrainersFirst` and the guard of `Apply` in the refinement. `TriggerInv` (a pending rule
  is triggered, unless the time ran out) gives saturation.
  The theorems are `TypeCorrect`, `CountersAreExact`, `ErrorsUnreachable`,
  `RemovedGroupsAreFinal`, `Saturation`, `RestraintsRespected` and `Refinement`.
  `ErrorsUnreachable` is about the error message of `updateGraph`; as it follows from exact
  counters, no run checks it by itself.
  `SelectionSucceeds` comes from a second invariant `ProgressInv` (an inactive group that is
  not removed yet is still to be swept or visited) and from the existence of a source
  component, whose positive groups have no active predecessor. The lemmas on graphs
  that this needs come first: components are classes, a component of a smaller active set
  lies inside one of the larger, and a non-empty finite active set has a source component (by
  minimality of the number of reachable nodes).
* `RelianceGroups_proofs`: `TypeCorrect`, `Partition` (`ResultIsPartition`), `EarlierFirst`
  (`SourcesFirst`) and `MinimumFirst` (`MinimumIsSource`), for every graph, active set and
  order of adjacency lists. The first pass keeps `StackInv`, `FinishInv` and `ScanInv`: a
  node whose neighbours are being visited leads to everything above it on the explicit stack,
  where its unvisited neighbours are; a component that is finished leads to finished nodes only, and one of its members sits on
  `nodeStack` no later than anything the component leads to. That is the order the second
  pass needs: `ResultInv`,
  `Remaining` and `GroupInv` say that what remains is a union of components and that the
  group being collected is one of them up to what its own stack still reaches. The first
  group is the one `minimumGroup` designates, hence a source.
* `SemiNaive_proofs`: `TypeCorrect` and `NothingSkipped` (`NoGap`) for every program;
  `NothingRegretted` (`NoRegret`), `Saturation` (`Saturated`) and `Refinement`
  (`ImplementsChase`) for programs that meet `FirstHeadAssumption`: no head of a rule has a
  lower class than the first. The code assigns a rule to the class of its first head
  only, and without the assumption these three are false (section 3, "Further
  observations"). The invariant behind `NoGap` relates the stamps of the present facts,
  `lastExecution` and the limit view to `iteration`, and says that the instances whose
  newest matched fact lies in the range of a plan already done are satisfied. That behind
  `Saturated` adds, phase by phase, which rules have nothing left to do: those of earlier
  classes, those executed since the last derivation in this round, those whose bodies have
  not changed since.
  `WorkIsBounded` (`BoundedWork`) is for finitely many facts and rules and an order that
  gives no rule twice (`RulesGivenOnce`). `Owed` is what is owed to the rounds executed: each
  class pays for one round, each settled fact for restarting the Datalog loop and for one
  more round. `WorkInv` says that the executions of the rounds so far are within `Budget`:
  a round that is repeated has settled a fact since it began (`UnsettledInv`, `LoopInv`),
  and a settled fact is never unsettled.
* `FCTable_proofs`: for every program, heads, queries and thresholds, `TypeCorrect`,
  `StampsNeverEarly` and `SeenStays`, from
  `IInv == TypeOK /\ TableInv /\ BirthInv /\ CacheSound /\ StampsNotBeforeBirth`. None of the
  two properties is inductive alone: a collapse leaves stamps late because the blocks are in
  the order of their stamps (`TableInv`), so that the newest of a group is a later one; a
  cached block is late enough because it only holds rows the table has (`CacheSound`), whose
  birth no longer changes (`BirthInv`). `KeepsRows` states what `collapseBlocks` does to every
  row, `Evolved` what the consolidation of one head after another does, `Adds` what
  `FCTable::add` does. Folds over blocks and heads (`FoldLeft`) are opened once, by
  constructing the function they recurse through (`RecursionExists`).
  `CachesComplete` (`CacheComplete`) and `Refinement` (`ImplementsFactStore`) have the
  hypothesis `OneHead`: no rule has two heads of the predicate, and every execution has an
  iteration of its own (`ExtEDBRules = {}`). Both are false without it, as "Further
  observations" describes; `FCTableSingle` satisfies it. `ExactInv` adds to `IInv` that the
  rows of a block are instances of the head it is skipped by, that a block of the current
  iteration is of the executing rule, that no cached table claims more than the table has,
  and that a matching row it claims to cover is cached with a stamp no newer than in the
  table. The stamps matter: a merge takes at most the last cached block off, and it is the
  only one that can go stale.
* `RelianceSearch_proofs`: `TypeCorrect` and `UndoRestores` (`Backtracked`) for every program
  that meets `InputAssumption`, every kind of reliance and every strategy.
  `Leads` is what mapping terms does to an assignment, `Same` that two assignments with the
  same bindings and unifications are led to the same ones, whatever their groups; both are
  shown for assigning a constant, connecting two variables, unifying two terms and two atoms,
  and mapping a pair (`ExtendFacts`, `ExtendSame`).
  The invariant is `IInv == GivenOK /\ DriverOK /\ StackOK /\ StateOK`. `StateOK` says that
  there is a sequence of assignments, each got from nothing by mapping one pair more (`Run`),
  such that the present one has the bindings and unifications of the last, and that each of
  its levels records what its pair added (`Records`), so that `decreaseDepth` leads back to
  the one before (`UndoFacts`). `Backtracked` alone is not inductive: it compares groups once
  their ids are completed, and undoing a level takes ids away. What survives is `Uniform`: in
  every set of unified variables, at every level, either all have one id or some still wait
  for one, so that `finishGroupAssignments` settles the set (`FinishSettles`). Ids of an
  assignment got from nothing are also `Exact`, which those of the present one are not: that
  is the finding of `ReliancesUndo`. The recursive functions of the model (the spreading
  over unifications, `unify` over the places of an atom, the completion of ids, the replay)
  are opened by `RecursionExists`, and the connected sets are least closed sets
  (`ConnectedIsLeast`).
* `TerminationChecks_proofs`: for every program over any predicates and every database,
  `TypeCorrect`, `FlagIsExact` (`FlagExact`), `EverySearchEnds` (`SearchesEnd`) and
  `IdsAreReadable` (the last two are stated in this module), through all the checks and the chase that follows them. The assumptions
  are those of the modules: a variable fits into its bits (`VarWidth`), a constant and a
  counter into theirs (`CounterWidth`), rules and rows have the width of their predicates,
  and none of these is one of the two predicates that RMSA adds (`ProgramAssumption`).
  The invariant is `IInv`: the schedule (`ControlOK`, `ScheduleOK`), the data (`DataOK`: rows of
  arguments are different and hold constants or terms that were made before, tables hold such
  values only, no rule has read beyond a table) and `Flag`: the cyclic flag is raised
  exactly when a term reaches its own function symbol, and unless a summarising chase is
  flagged no term is inside itself. `FlagExact` alone is not inductive. `getNewOrExistingIDs`
  looks at one row of arguments at a time, in the terms known by then, and is right for three
  reasons that the proof brings together. The worklist of `checkRecursive` finds every term
  that is nested in a value (`SearchFacts`), although it forgets all but its last layer:
  that needs that no term is inside itself. A new row adds edges from its own term
  only, so that a new path to a symbol goes through that row (`ReachedWithMore`), whose
  symbol is looked for (`FlagStep`). And in a summarising chase, where a row may be added to a
  term that others contain already, a term that reaches its own symbol reaches itself, as
  there is one term of each symbol (`SummaryFacts`). That the values of the rows that reach
  `getNewOrExistingIDs` are terms made before, whatever the filters skip or misalign
  (`RetainFacts`), and that the rows a rule reads are those of the tables, takes the other
  half of the proof: matches, joins, sorted blocks, heads, the critical instance and the
  frozen body. `IdsAreReadable` says that rule, variable and, without summarisation, the row
  can be read off every id. Folds of the library (`FoldLeft`, `FlattenSeq`) are opened by
  `RecursionExists`.
* `QSQR_proofs`: for every program, database and query, `TypeCorrect` and `AlwaysAdvances`
  (`Advances`), and `Soundness` (`AnswersSound`) under the hypothesis `RepeatsAreBound`: no
  adorned rule has an IDB atom with a variable twice that nothing binds before it. Without it
  the property is false, as `bindingstable.cpp:226` above shows; `MCQueryModes` states it as
  an assumption, so that TLC evaluates it for the programs of both runs.
  The invariant is `IInv`: the tables hold tuples of their width, answers are in the least
  model, and every task on the stack is as `processTask` takes it (`StackOK`). `AnswersSound`
  alone is not inductive: the answers of a rule come from rows that were built many steps
  before. What survives is `RowsOf`: each row of the supplementary relation before atom `j`
  stands for a substitution under which the first `j - 1` atoms hold in the least model, and
  gives its variables, in the order of the signature, that substitution's values. That this
  lasts through a join needs what the optimizer and the executor compute to be right: an
  adorned rule has the atoms of its rule in another order (`AdornmentFacts`), each signature
  has the variables that have occurred and are needed later (`Signed`), and `KeptColumns`
  picks the columns of those. That the head of a rule follows
  uses that the least model is closed under the rules (`MeaningIsModel`), which is proved of
  its recursive definition by counting facts.
  `AlwaysAdvances` measures the stack: a rule's task is worth two steps for each atom left, a
  query's task what the rules it has left are worth, and a round of all rules for each answer
  found since it counted them. A stack without a new answer or sub-query loses some of it with
  every step, because a query's rules are charged before they begin.
  `Completeness` (`TopDownExact`) says that a query that ends has exactly the answers of the
  least model, and that one is thrown out only for a rule that falls apart. It assumes
  `RepeatsAreBound`, and `RepeatsInPlace` for the mistake at `ruleexecutor.cpp:231`: the
  index at which a repeated variable of a head is compared is its index in the tuple. Both
  are evaluated by TLC for the programs of the runs. What an evaluation leaves out is what
  is hard to argue about: inputs asked earlier in a round are not evaluated again, although
  the answers they were evaluated with were not complete, and the loops stop when no count
  has grown. The invariant is `RoundInv`: while a round has found nothing new
  (`AnswerCount = total`), every input of every rule is about to be evaluated, is on the
  stack, or is `Closed` (`RoundOK`). An input is closed for a rule when there are rows for
  every atom such that the sub-queries of the rows have been asked, the join of the rows
  with the present answers is among the next rows, and the heads are answers. When the stack
  is empty all inputs are closed, and then the least model has no answer that was asked for
  and not found (`ClosedIsComplete`): the tuples of the model that are not missed would be a
  smaller model. That a rule instance of the model is found row by row
  (`ClosedFinds`) needs that its row is made from the input, passed on, joined and kept
  (`FirstRowFound`, `PassedFound`, `JoinFound`, `HeadFound`). The other half shows that an
  atom joined with nothing shares no variable with those before it, and that the first atom
  of a plan does share one when the head binds any (`FirstIsJoined`).
* `QueryModes_proofs`: `MagicCorrect` (`MagicExact`) and `EitherMode`: under the hypotheses of
  `Completeness` and `MagicCorrect` together, the choice of a mode does not show in the
  answers. `MagicCorrect` is for every program, database and query under the hypothesis
  `LeftOutPassed`: where `doMagic` leaves out the rule that would pass bindings to the first
  atom of a rule (`magic/wizard.cpp:152`, which compares the two magic predicates, not their
  arguments), the bindings are those of the guard. `MCQueryModes` has TLC evaluate that it
  holds of the pool of `Queries` and fails of that of `QueriesMagic`, whose run violates
  `MagicExact`: the hypothesis is what the finding is about. The invariant `MInv` adds to that
  of QSQR that the rewritten program is the one made for the query, that the bindings of the
  query are in its magic predicate, and that every fact derived is in the least model. That a
  finished materialization misses no answer (`RewrittenIsComplete`) is not seen step by step:
  of the facts of the least model, those are kept that no adorned predicate asks for or that
  have been derived, and they are shown to be a model, hence all of it. For this every
  instance of a rule whose head is asked for has all its atoms asked for, one after the other,
  by the rules `doMagic` adds (`AtomIsAsked`), and the adorned predicates that
  `getAdornedProgram` collects are closed under the atoms of their rules
  (`AdornedPredicatesFacts`): a chain of growing sets of keys stops growing before there are
  more rounds than keys (`ChainCloses`).

Only model-checked:

* liveness under fairness (`Terminates`), which is beyond the prover;
* of `RelianceSearch`, `ExpectedGraph` and `PrefixExact`, which compare the answers with the
  graphs the tests expect of their programs, and `PositiveExact`, which compares them with
  what applying the rules can cause, hence with every mapping there is;
* of `TerminationChecks`, `Hierarchy`, `NeverBoth`, `ChaseIsModel` and `AcceptedIsAcyclic`:
  the first two compare the ends of chases of one program under different filters, the last
  a check on the critical instance with the chase of another database, and `ChaseIsModel` a
  finished chase with the head check of every match it dropped.

## 5. Plan

Modelled, in the order planned: scheduler, groups, fact tables, semi-naive evaluation, chase
terms and heads, the reliance searches with their drivers, termination checks, query
answering. Proved: the scheduler, the groups, semi-naive evaluation, fact tables, what the search
for reliances undoes, chase terms and the flag of the termination checks, and that query
answering is sound and complete in both modes and advances. What is left, in this order:

1. `RelianceSearch`: an answer that is taken from the cache is that of a search that was not
   cut short by the time limit, which `PrefixExact` checks by way of the expected graph.
2. `TerminationChecks`: the chase of any database maps into that of the critical instance,
   term by term, as long as no match is filtered; from it `AcceptedIsAcyclic` for MSA and MFA.

## 6. Not modelled

* The check RMFC, whose blocked check runs on a program rewritten with negation.
* `ExistentialRuleProcessor::consolidate`, a second copy of the head check for matches that
  come from a join, and `processResults` for single rows.
* Trigger-guided evaluation, which replays a file of triggers; the threaded evaluator, whose
  functions hide the base class's and are never reached.
* Joins, filters, intermediate tables, segments and columns, the EDB layer and its back ends:
  sequential data transformation and I/O, represented by the sets of rows they yield.
* Of query answering: the estimate by which a mode is chosen, the relations that
  `Materialization` computes beforehand and the pruning by them, the explicit search that
  precedes incremental reasoning.
* `isCoreStratified` and `stratify`, which only report about a program; parsing, printing,
  the web interface, language bindings and rule learning. `include/nlohmann/json.hpp`, by far
  the longest file, is a vendored library.

Every component and its status is listed in `PROJECT.json`.
