---------------------------- MODULE RelianceSearch ----------------------------
(***************************************************************************)
(* computePositiveReliances and computeRestrainReliances: the driver that  *)
(* visits pairs of rules, with its cache of answers and its time limit,    *)
(* and the search it runs on a pair, which maps atoms of the second rule   *)
(* to heads of the first and backtracks by undoing assignments.            *)
(*                                                                         *)
(* The state has a step of the search per atom tried: between two of them  *)
(* the time may be up.                                                     *)
(***************************************************************************)
EXTENDS RelianceMeaning

CONSTANTS
  Inputs,        \* records [kind, rules, expected]: what is computed, of which
                 \* program, and the graph that it should be
  Strategies,    \* sets of the flags of RelianceStrategy
  CacheSize,     \* rulePairCacheSize
  MayTimeout     \* whether there is a time limit

Atom == [pred : STRING, terms : Seq(1 .. NotAssigned - 1)]
Rule == [heads : Seq(Atom), body : Seq(Atom)]
AtomsIn(program) == UNION {ToSet(r.heads) \cup ToSet(r.body) : r \in ToSet(program)}

ASSUME InputAssumption ==
  \A i \in Inputs :
    /\ i.kind \in {"positive", "restraint"}
    /\ i.rules \in Seq(Rule)
    /\ \A l, m \in AtomsIn(i.rules) : l.pred = m.pred => Len(l.terms) = Len(m.terms)

VARIABLES
  input, strategy,
  markedRules,   \* the rules, with existential variables marked
  pairs,         \* of rules, in the order they are visited
  pc,            \* "driver", "extend", "try", "answer" or "done"
  position,      \* of the current pair
  kind,          \* the search that runs: "positive", "restraint" or "self"
  a,             \* the assignments of the search
  stack,         \* calls of Extend: the pairs of atoms mapped, and the next one
  answer,        \* of the search
  cache,         \* answers for pairs of rules of the same shape
  graph,         \* edges found
  isTimeout,     \* globalPositiveIsTimeout, globalRestraintIsTimeout
  timeout        \* of the result
given == <<input, strategy, markedRules, pairs>>
vars == <<given, pc, position, kind, a, stack, answer, cache, graph, isTimeout, timeout>>
search == <<kind, a, stack, answer>>
result == <<cache, graph, isTimeout, timeout>>

rules == input.rules
Early == "EarlyTermination" \in strategy
Numbers(s) == [i \in DOMAIN s |-> i]

(* bodyToMap and headToMap. *)
Mentions(k, rule, pred) ==
  IF k = "positive" THEN \E l \in ToSet(rule.body) : l.pred = pred
  ELSE \E l \in ToSet(rule.heads) : l.pred = pred /\ HasExistential(l)

(* The pairs in the order they are visited; CutPairs leaves out those that  *)
(* share no predicate.                                                      *)
PairsOf(k, marked, flags) ==
  LET related(from, h) ==
        {to \in DOMAIN marked : Mentions(k, marked[to], marked[from].heads[h].pred)}
      first(from, h, to) == to \in related(from, h) /\ \A j \in 1 .. h - 1 : to \notin related(from, j)
      new(from, h) == FlattenSeq([to \in DOMAIN marked |-> IF first(from, h, to) THEN << to >> ELSE << >>])
      tos(from) == IF "CutPairs" \in flags
                   THEN FlattenSeq([h \in DOMAIN marked[from].heads |-> new(from, h)])
                   ELSE Numbers(marked)
  IN  FlattenSeq([from \in DOMAIN marked |->
                    LET to == tos(from) IN [i \in DOMAIN to |-> <<from, to[i]>>]])
From == markedRules[pairs[position][1]]
To == markedRules[pairs[position][2]]
SamePair == pairs[position][1] = pairs[position][2]

(* rulePairHash: the terms of both rules, which constructing a program      *)
(* numbers by their first occurrence, and their predicates, numbered alike. *)
PairHash(from, to) ==
  LET terms(atoms) == [i \in DOMAIN atoms |-> atoms[i].terms]
      atoms == from.heads \o from.body \o to.heads \o to.body
      local(i) == Cardinality({atoms[j].pred : j \in 1 .. (CHOOSE k \in DOMAIN atoms :
                    atoms[k].pred = atoms[i].pred /\ \A j \in 1 .. k - 1 :
                      atoms[j].pred # atoms[i].pred)})
  IN  <<terms(from.heads), terms(from.body), terms(to.heads), terms(to.body),
        [i \in DOMAIN atoms |-> local(i)]>>
Hash == PairHash(rules[pairs[position][1]], rules[pairs[position][2]])

(* splitIntoPieces returns more than one: no existential variable links     *)
(* some of the heads to the others.                                         *)
HasPieces(rule) ==
  \E S \in SUBSET DOMAIN rule.heads \ {{}, DOMAIN rule.heads} :
    \A i \in S, j \in DOMAIN rule.heads \ S :
      \A t \in ToSet(rule.heads[i].terms) \cap ToSet(rule.heads[j].terms) : t > 0
-----------------------------------------------------------------------------
(* The atoms that are mapped, and the assignments before the first one is.  *)
Mapped(k, to) == IF k = "positive" THEN to.body ELSE to.heads
Fresh(k, from, to) ==
  NewAssignments(HighestId(from) + 1, IF k = "self" THEN 0 ELSE HighestId(to) + 1)

(* The assignments after mapping the pairs of atoms, from nothing.          *)
Replay(k, mapping, from, to, early) ==
  LET step[n \in 0 .. Len(mapping)] ==
        IF n = 0 THEN [ok |-> TRUE, a |-> Fresh(k, from, to)]
        ELSE LET sofar == step[n - 1]
             IN  IF sofar.ok
                 THEN ExtendAssignment(k, from.heads[mapping[n][2]],
                        Mapped(k, to)[mapping[n][1]], sofar.a, early)
                 ELSE sofar
  IN  step[Len(mapping)]

Domain(mapping) == {mapping[n][1] : n \in DOMAIN mapping}

(* positiveFullIteration and its variants: all the mappings one by one. *)
FullIteration(k, from, to, early) ==
  LET atoms == Mapped(k, to)
      images(f) == [n \in DOMAIN SelectSeq(Numbers(atoms), LAMBDA i : f[i] # 0) |->
                     LET i == SelectSeq(Numbers(atoms), LAMBDA j : f[j] # 0)[n] IN <<i, f[i]>>]
  IN  \E f \in [DOMAIN atoms -> 0 .. Len(from.heads)] :
        /\ \E i \in DOMAIN atoms : f[i] # 0
        /\ \A i \in DOMAIN atoms : f[i] # 0 => from.heads[f[i]].pred = atoms[i].pred
        /\ LET end == Replay(k, images(f), from, to, early)
           IN  end.ok /\ Check(k, Domain(images(f)), from, to, end.a) = "True"
-----------------------------------------------------------------------------
Init ==
  /\ input \in Inputs /\ strategy \in Strategies
  /\ markedRules = [r \in DOMAIN input.rules |-> MarkExistential(input.rules[r])]
  /\ pairs = PairsOf(input.kind, markedRules, strategy)
  /\ pc = "driver" /\ position = 1
  /\ kind = input.kind /\ a = NewAssignments(1, 0) /\ stack = << >> /\ answer = FALSE
  /\ cache = << >> /\ graph = {} /\ isTimeout = FALSE /\ timeout = FALSE

AtPair == pc = "driver" /\ position <= Len(pairs)
Stop(late) == pc' = "done" /\ timeout' = late
NextPair == pc' = "driver" /\ position' = position + 1

(* The time is up between two pairs. *)
DriverTimeout ==
  /\ AtPair /\ MayTimeout
  /\ Stop(TRUE) /\ isTimeout' = TRUE
  /\ UNCHANGED <<given, position, cache, graph, search>>

(* A pair of the same shape has been answered: its answer is this one's. *)
CacheHit ==
  /\ AtPair /\ "PairHash" \in strategy /\ Hash \in DOMAIN cache
  /\ graph' = IF cache[Hash] THEN graph \cup {pairs[position]} ELSE graph
  /\ NextPair
  /\ UNCHANGED <<given, search, cache, isTimeout, timeout>>

CacheMiss == AtPair /\ ("PairHash" \in strategy => Hash \notin DOMAIN cache)
InPieces == input.kind = "restraint" /\ SamePair /\ IsExistential(From) /\ HasPieces(From)

(* A rule whose head falls into pieces restrains itself; no answer is kept. *)
Pieces ==
  /\ CacheMiss /\ InPieces
  /\ graph' = graph \cup {pairs[position]}
  /\ NextPair
  /\ UNCHANGED <<given, search, cache, isTimeout, timeout>>

BeginSearch(k) ==
  /\ kind' = k
  /\ a' = Fresh(k, From, To) /\ stack' = << >>
  /\ pc' = IF "BetterIterate" \in strategy THEN "extend" ELSE "iterate"

StartSearch ==
  /\ CacheMiss /\ ~InPieces
  /\ BeginSearch(input.kind)
  /\ UNCHANGED <<given, position, answer, result>>

Answer(b) == pc' = "answer" /\ answer' = b

(* Without BetterIterate: every mapping is tried from nothing. *)
Iterate ==
  /\ pc = "iterate"
  /\ Answer(FullIteration(kind, From, To, Early))
  /\ UNCHANGED <<given, position, kind, a, stack, result>>

(* The time is up in a search, which then answers yes. *)
SearchTimeout ==
  /\ pc \in {"iterate", "extend"} /\ MayTimeout
  /\ isTimeout' = TRUE /\ Answer(TRUE)
  /\ UNCHANGED <<given, position, kind, a, stack, cache, graph, timeout>>

(* Mutant: the next call tries the atom mapped last again. *)
ExtendSameAtom ==
  /\ pc = "extend"
  /\ stack' = Append(stack, <<IF stack = << >> THEN 1 ELSE Last(stack)[1], 1>>)
  /\ pc' = "try"
  /\ UNCHANGED <<given, position, kind, a, answer, result>>

(* A call of positiveExtend, restrainExtend or selfRestrainExtend begins    *)
(* with the atom after the last one that is mapped.                         *)
Extend ==
  /\ pc = "extend"
  /\ stack' = Append(stack, <<IF stack = << >> THEN 1 ELSE Last(stack)[1] + 1, 1>>)
  /\ pc' = "try"
  /\ UNCHANGED <<given, position, kind, a, answer, result>>

(* What the loops of the innermost call have left to try. *)
Candidates ==
  {c \in (DOMAIN Mapped(kind, To)) \X (DOMAIN From.heads) :
     /\ Mapped(kind, To)[c[1]].pred = From.heads[c[2]].pred
     /\ c[1] > Last(stack)[1] \/ (c[1] = Last(stack)[1] /\ c[2] >= Last(stack)[2])}
Candidate ==
  CHOOSE c \in Candidates : \A d \in Candidates : c[1] < d[1] \/ (c[1] = d[1] /\ c[2] <= d[2])
After(c) == <<c[1], c[2] + 1>>

(* Maps the next atom and looks at what that gives. *)
Try ==
  /\ pc = "try" /\ Candidates # {}
  /\ LET c == Candidate
         mapping == Append(Front(stack), c)
         end == ExtendAssignment(kind, From.heads[c[2]], Mapped(kind, To)[c[1]],
                                 IncreaseDepth(a), Early)
         verdict == IF end.ok THEN Check(kind, Domain(mapping), From, To, end.a) ELSE "Undo"
     IN  CASE verdict = "True" ->
                Answer(TRUE) /\ a' = end.a /\ stack' = mapping
           [] verdict = "Extend" \/ (verdict = "False" /\ ~Early) ->
                pc' = "extend" /\ a' = end.a /\ stack' = mapping /\ UNCHANGED answer
           [] verdict = "Undo" \/ (verdict = "False" /\ Early) ->
                a' = DecreaseDepth(end.a) /\ stack' = Append(Front(stack), After(c))
                /\ UNCHANGED <<pc, answer>>
  /\ UNCHANGED <<given, position, kind, result>>

(* A call has tried everything: its caller undoes its own last mapping. *)
Backtrack ==
  /\ pc = "try" /\ Candidates = {}
  /\ IF Len(stack) = 1
     THEN Answer(FALSE) /\ stack' = << >> /\ UNCHANGED a
     ELSE /\ a' = DecreaseDepth(a)
          /\ stack' = Append(Front(Front(stack)), After(Last(Front(stack))))
          /\ UNCHANGED <<pc, answer>>
  /\ UNCHANGED <<given, position, kind, result>>

(* Where a rule does not restrain itself as two rules would, it may still   *)
(* do so within one application.                                            *)
StartSelf ==
  /\ pc = "answer" /\ kind = "restraint" /\ ~answer /\ SamePair /\ IsExistential(From)
  /\ BeginSearch("self")
  /\ UNCHANGED <<given, position, answer, result>>

(* Mutant: an answer given because the time was up does not end the work. *)
RecordAndGoOn ==
  /\ pc = "answer"
  /\ ~(kind = "restraint" /\ ~answer /\ SamePair /\ IsExistential(From))
  /\ graph' = IF answer THEN graph \cup {pairs[position]} ELSE graph
  /\ NextPair
  /\ UNCHANGED <<given, search, cache, isTimeout, timeout>>

Record ==
  /\ pc = "answer"
  /\ ~(kind = "restraint" /\ ~answer /\ SamePair /\ IsExistential(From))
  /\ graph' = IF answer THEN graph \cup {pairs[position]} ELSE graph
  /\ cache' = IF "PairHash" \in strategy /\ Cardinality(DOMAIN cache) < CacheSize
              THEN [h \in {Hash} \cup DOMAIN cache |-> IF h = Hash THEN answer ELSE cache[h]]
              ELSE cache
  /\ IF isTimeout THEN Stop(TRUE) /\ UNCHANGED position
     ELSE NextPair /\ UNCHANGED timeout
  /\ UNCHANGED <<given, search, isTimeout>>

Finish ==
  /\ pc = "driver" /\ position > Len(pairs)
  /\ Stop(FALSE)
  /\ UNCHANGED <<given, position, search, cache, graph, isTimeout>>

Next == \/ DriverTimeout \/ CacheHit \/ Pieces \/ StartSearch \/ Iterate \/ SearchTimeout
        \/ Extend \/ Try \/ Backtrack \/ StartSelf \/ Record \/ Finish
Spec == Init /\ [][Next]_vars
-----------------------------------------------------------------------------
TypeOK ==
  /\ pc \in {"driver", "extend", "iterate", "try", "answer", "done"}
  /\ position \in 1 .. Len(pairs) + 1
  /\ kind \in {"positive", "restraint", "self"}
  /\ answer \in BOOLEAN /\ isTimeout \in BOOLEAN /\ timeout \in BOOLEAN
  /\ graph \subseteq ToSet(pairs)
  /\ \A h \in DOMAIN cache : cache[h] \in BOOLEAN
  /\ pc = "try" => Len(stack) \in 1 .. Len(Mapped(kind, To)) + 1

(* A result that does not report a timeout is the graph that the tests      *)
(* expect, whichever flags the strategy has: cutting pairs, giving up early *)
(* and the cache only save time.                                            *)
ExpectedGraph == pc = "done" /\ ~timeout => graph = input.expected

(* Positive reliances are found exactly where one rule can enable another.  *)
PositiveExact ==
  pc = "done" /\ ~timeout /\ input.kind = "positive" =>
    graph = {p \in (DOMAIN markedRules) \X (DOMAIN markedRules) :
               PositivelyRelies(markedRules[p[1]], markedRules[p[2]])}

(* Every answer that was given before the time was up is right, also those  *)
(* taken from the cache: a search that is cut short answers yes, and that   *)
(* answer must not be used again.                                           *)
PrefixExact ==
  \A i \in 1 .. position - 1 : (pairs[i] \in graph) = (pairs[i] \in input.expected)

(* Undoing assignments restores what mapping only the atoms still mapped    *)
(* gives: constants, nulls and unifications exactly; and once the ids of    *)
(* groups are completed, as before every check, no group is lost or split.  *)
Backtracked ==
  pc \in {"try", "extend"} =>
    LET mapping == IF pc = "try" THEN Front(stack) ELSE stack
        b == Replay(kind, mapping, From, To, Early).a
        group == FinishGroupAssignments(a).group
    IN  /\ a.constant = b.constant /\ a.edges = b.edges
        /\ Len(a.levels) = Len(mapping)
        /\ \A v \in Ids(a) : group[v] = NoGroup <=> b.group[v] = NoGroup
        /\ \A v, w \in Ids(a) : b.group[v] = b.group[w] => group[v] = group[w]

(* The search with all its flags finds what trying every mapping finds. *)
SearchExhaustive ==
  pc = "done" /\ ~timeout /\ input.kind = "positive" =>
    graph = {p \in (DOMAIN markedRules) \X (DOMAIN markedRules) :
               FullIteration("positive", markedRules[p[1]], markedRules[p[2]], FALSE)}
=============================================================================
