------------------------------ MODULE FCTable ------------------------------
(***************************************************************************)
(* The table of one IDB predicate (forward/fctable.cpp): a sequence of     *)
(* blocks, each stamped with the iteration that derived its rows, and a    *)
(* cache of the tables filtered by a literal with constants or repeated    *)
(* variables.  Rules are executed one after the other; each of their       *)
(* plans reads the table and then consolidates its results into it         *)
(* (SingleHeadFinalRuleProcessor, FinalRuleProcessor), collapsing old      *)
(* blocks first.  Rows are pairs of constants; a column or a join is       *)
(* nothing but the set of rows it yields.                                  *)
(***************************************************************************)
EXTENDS Integers, Sequences, FiniteSets, SequencesExt

CONSTANTS
  Consts, Vars,       \* terms
  Rules,
  Heads,              \* of each rule: the sequence of its literals of the predicate
  Plans,              \* of each rule: the number of its plans
  ExtEDBRules,        \* existential rules without IDB atom: they leave iteration as it is
  Queries,            \* the literals the table is filtered by
  CollapseAbove,      \* 16: consolidate collapses a table of more blocks
  CollapseAtLeast,    \* 8: fewer blocks are not worth collapsing
  MaxIteration        \* bound: no execution after this iteration

Rows == Consts \X Consts
Literals == (Consts \cup Vars) \X (Consts \cup Vars)

ASSUME LiteralAssumption ==
  /\ Consts \cap Vars = {}
  /\ \A r \in Rules : Heads[r] \in Seq(Literals) /\ Plans[r] \in Nat \ {0}
  /\ Queries \subseteq { q \in Literals : q[1] = q[2] \/ {q[1], q[2]} \cap Consts # {} }

ASSUME BoundAssumption ==
  CollapseAbove \in Nat /\ CollapseAtLeast \in Nat /\ MaxIteration \in Nat \ {0}

VARIABLES
  blocks,         \* <<[iteration, rule, pos, plan, rows], ...>>
  cache,          \* of each query: [end, blocks], or NoEntry
  iteration,
  rule, plan,     \* the rule being executed, and how many of its plans are done
  lastExecution,  \* of each rule
  answer,         \* what the latest filter returned: [query, rows]
  born            \* history: the iteration that derived each row (0: none)

vars == <<blocks, cache, iteration, rule, plan, lastExecution, answer, born>>

NoEntry == [end |-> -1, blocks |-> << >>]

Init ==
  /\ blocks = << >>
  /\ cache = [q \in Queries |-> NoEntry]
  /\ iteration = 1
  /\ rule \in Rules
  /\ plan = 0
  /\ lastExecution = [r \in Rules |-> 0]
  /\ answer = [query |-> << >>, rows |-> {}]
  /\ born = [row \in Rows |-> 0]

-----------------------------------------------------------------------------
(* Literals and blocks                                                     *)

Instances(l) ==
  { row \in Rows : /\ \A i \in 1 .. 2 : l[i] \in Consts => row[i] = l[i]
                   /\ l[1] = l[2] => row[1] = row[2] }

\* getSubstitutionsA2B(a, b) # -1, as TableFilterer::intersection asks for it.
SubstitutionExists(a, b) ==
  /\ \A i \in 1 .. 2 : a[i] \in Consts /\ b[i] \in Consts => a[i] = b[i]
  /\ a[1] = a[2] /\ a[1] \in Vars /\ {b[1], b[2]} \subseteq Consts => b[1] = b[2]

HeadOf(b) == Heads[b.rule][b.pos]      \* FCBlock::query

RowsOf(bs) == UNION { bs[i].rows : i \in DOMAIN bs }

MergesInto(bs, b) == bs # << >> /\ Last(bs).iteration = b.iteration /\ Last(bs).pos = b.pos

\* The blocks after FCTable::add; a block merged into keeps its rule and query.
AddBlock(bs, b) ==
  IF MergesInto(bs, b)
  THEN Front(bs) \o << [Last(bs) EXCEPT !.rows = @ \cup b.rows] >>
  ELSE Append(bs, b)

\* (mutant) the last block goes, whatever its iteration.
RemoveLast(bs, it) == IF bs # << >> THEN Front(bs) ELSE bs

\* FCTable::removeBlock takes off one block at most.
RemoveBlock(bs, it) == IF bs # << >> /\ Last(bs).iteration = it THEN Front(bs) ELSE bs

\* (mutant) a merge leaves the cached tables alone.
NotInvalidated(c, it) == c

\* The caches after a merge into the block of iteration "it".
Invalidated(c, it) ==
  [q \in Queries |->
     IF c[q].end = it
     THEN [end |-> it - 1, blocks |-> RemoveBlock(c[q].blocks, it)]
     ELSE c[q]]

SameSource(b, c) == b.rule = c.rule /\ b.pos = c.pos /\ b.plan = c.plan

\* (mutant) the blocks of iteration maxIter are collapsed as well.
CollapsibleToo(bs, maxIter) == { i \in DOMAIN bs : bs[i].iteration <= maxIter }

Collapsible(bs, maxIter) == { i \in DOMAIN bs : bs[i].iteration < maxIter }

Group(bs, old, i) == { j \in old : SameSource(bs[i], bs[j]) }

\* (mutant) the oldest block of a group receives the rows of the others.
OldestReceivers(bs, old) == { i \in old : \A j \in Group(bs, old, i) : i <= j }

\* The newest block of each group receives the rows of the others.
Receivers(bs, old) == { i \in old : \A j \in Group(bs, old, i) : j <= i }

MergedAt(bs, old, i) == [bs[i] EXCEPT !.rows = UNION { bs[j].rows : j \in Group(bs, old, i) }]

\* The numbers of S in ascending order.
Ascending(S) ==
  CHOOSE s \in [1 .. Cardinality(S) -> S] : \A i, j \in DOMAIN s : i < j => s[i] < s[j]

\* collapseBlocks(maxIter): among the blocks older than maxIter those of the
\* same rule, head position and plan become one, with the stamp of the newest.
Collapsed(bs, maxIter) ==
  LET old == Collapsible(bs, maxIter)
      kept == Ascending(Receivers(bs, old))
  IN IF Cardinality(old) < CollapseAtLeast THEN bs
     ELSE [k \in DOMAIN kept |-> MergedAt(bs, old, kept[k])]
          \o SubSeq(bs, Cardinality(old) + 1, Len(bs))

-----------------------------------------------------------------------------
(* Actions                                                                 *)

\* The first execution of a rule (lastExecution = 0) has a single plan.
PlansNow == IF lastExecution[rule] = 0 THEN 1 ELSE Plans[rule]

\* The next rule is executed; ExtEDBRules are executed without iteration++.
StartRule(r) ==
  /\ plan = PlansNow
  /\ iteration < MaxIteration
  /\ rule' = r
  /\ plan' = 0
  /\ IF rule \in ExtEDBRules
     THEN UNCHANGED <<iteration, lastExecution>>
     ELSE /\ iteration' = iteration + 1
          /\ lastExecution' = [lastExecution EXCEPT ![rule] = iteration]
  /\ UNCHANGED <<blocks, cache, answer, born>>

\* (mutant) empty results are added as well.
ConsolidateEmpty(state, pos, rows) ==
  LET bs == IF Len(state.blocks) > CollapseAbove
            THEN Collapsed(state.blocks, lastExecution[rule]) ELSE state.blocks
      b == [iteration |-> iteration, rule |-> rule, pos |-> pos, plan |-> plan,
            rows |-> rows \ RowsOf(bs)]
  IN [blocks |-> AddBlock(bs, b),
      cache |-> IF MergesInto(bs, b) THEN Invalidated(state.cache, iteration)
                                     ELSE state.cache]

\* consolidate for the head at position pos, whose results are "rows": collapse,
\* retainFrom, add.  "state" holds the blocks and the cache.
ConsolidateHead(state, pos, rows) ==
  LET bs == IF Len(state.blocks) > CollapseAbove
            THEN Collapsed(state.blocks, lastExecution[rule]) ELSE state.blocks
      b == [iteration |-> iteration, rule |-> rule, pos |-> pos, plan |-> plan,
            rows |-> rows \ RowsOf(bs)]
  IN IF b.rows = {} THEN [state EXCEPT !.blocks = bs]
     ELSE [blocks |-> AddBlock(bs, b),
           cache |-> IF MergesInto(bs, b) THEN Invalidated(state.cache, iteration)
                                          ELSE state.cache]

\* The blocks and the caches after the results of a plan, head by head.
Consolidated(results) ==
  LET step(state, pos) == ConsolidateHead(state, pos, results[pos])
  IN FoldLeftDomain(step, [blocks |-> blocks, cache |-> cache], results)

\* A plan has results (maybe none), and the next plan begins.
Consolidate ==
  /\ plan < PlansNow
  /\ plan' = plan + 1
  /\ \E results \in [DOMAIN Heads[rule] -> SUBSET Rows] :
       /\ \A pos \in DOMAIN results : results[pos] \subseteq Instances(Heads[rule][pos])
       /\ LET end == Consolidated(results)
          IN blocks' = end.blocks /\ cache' = end.cache
  /\ born' = [row \in Rows |->
                IF born[row] = 0 /\ row \in RowsOf(blocks') THEN iteration ELSE born[row]]
  /\ UNCHANGED <<iteration, rule, lastExecution, answer>>

\* A block newer than the cached table; a join passes a filterer, which skips the
\* blocks whose query does not intersect q.
Relevant(b, q, useFilterer) ==
  b.iteration > cache[q].end /\ (useFilterer => SubstitutionExists(HeadOf(b), q))

\* A cached table for q with the matching rows of block b, if there are any.
Extended(bs, b, q) ==
  LET rows == b.rows \cap Instances(q)
  IN IF rows # {} THEN AddBlock(bs, [b EXCEPT !.rows = rows]) ELSE bs

\* The cached table for q, brought up to date.
Refreshed(q, useFilterer) ==
  LET extend(bs, b) == IF Relevant(b, q, useFilterer) THEN Extended(bs, b, q) ELSE bs
  IN FoldLeft(extend, cache[q].blocks, blocks)

\* filter(q): the cached table is brought up to date and returned.
Filter(q, useFilterer) ==
  /\ IF blocks = << >>
     THEN answer' = [query |-> q, rows |-> {}] /\ UNCHANGED cache
     ELSE LET output == Refreshed(q, useFilterer)
          IN /\ answer' = [query |-> q, rows |-> RowsOf(output)]
             /\ cache' = [cache EXCEPT ![q] = [end |-> Last(blocks).iteration,
                                               blocks |-> output]]
  /\ UNCHANGED <<blocks, iteration, rule, plan, lastExecution, born>>

Next ==
  \/ \E r \in Rules : StartRule(r)
  \/ Consolidate
  \/ \E q \in Queries, useFilterer \in BOOLEAN : Filter(q, useFilterer)

Spec == Init /\ [][Next]_vars

-----------------------------------------------------------------------------
(* Properties                                                              *)

Block == [iteration : 1 .. MaxIteration, rule : Rules, pos : Nat \ {0}, plan : Nat,
          rows : (SUBSET Rows) \ {{}}]

TypeOK ==
  /\ blocks \in Seq(Block)
  /\ cache \in [Queries -> [end : -1 .. MaxIteration, blocks : Seq(Block)]]
  /\ iteration \in 1 .. MaxIteration
  /\ rule \in Rules /\ plan \in 0 .. PlansNow
  /\ lastExecution \in [Rules -> 0 .. MaxIteration]
  /\ born \in [Rows -> 0 .. MaxIteration]

\* A cached table holds all the matching rows of the blocks it claims to cover,
\* whatever was merged, appended or collapsed since it was filled.
CacheComplete ==
  \A q \in Queries : \A i \in DOMAIN blocks :
    blocks[i].iteration <= cache[q].end =>
      blocks[i].rows \cap Instances(q) \subseteq RowsOf(cache[q].blocks)

\* A row is never seen with a stamp older than the iteration that derived it,
\* in the table or in a cached one: collapsing cannot make a rule that has not
\* seen the row yet take it for an old one.
StampsNotBeforeBirth ==
  /\ \A i \in DOMAIN blocks : \A row \in blocks[i].rows : blocks[i].iteration >= born[row]
  /\ \A q \in Queries : \A i \in DOMAIN cache[q].blocks :
       \A row \in cache[q].blocks[i].rows : cache[q].blocks[i].iteration >= born[row]

\* Collapsing on behalf of the executing rule does not mix what that rule has
\* seen with what it has not: a row older than its lastExecution stays older.
SeenStaysSeen ==
  [][\A i \in DOMAIN blocks : blocks[i].iteration < lastExecution[rule] =>
       \A j \in DOMAIN blocks' :
         blocks'[j].rows \cap blocks[i].rows # {} => blocks'[j].iteration < lastExecution[rule]]_vars

\* A table that is read filtered behaves like a plain set of facts: no merge,
\* collapse, stale entry or skipped block changes the answer to a query.
Store == INSTANCE FactStore WITH
           facts <- RowsOf(blocks), Matching <- [q \in Queries |-> Instances(q)]

ImplementsFactStore == Store!Spec

=============================================================================
