------------------------------- MODULE QSQR -------------------------------
(***************************************************************************)
(* Top-down query answering (backward/qsqr.cpp, backward/ruleexecutor.cpp).*)
(* A query is a set of input tuples for an adorned predicate; a rule is    *)
(* evaluated for its inputs atom by atom through supplementary relations,  *)
(* and an IDB atom becomes new inputs of its own predicate.  A stack of    *)
(* tasks stands in for the recursion: QUERY goes through the rules of a    *)
(* predicate and again as long as answers come in, RULE goes through the   *)
(* atoms of a rule, RULE_QUERY picks up the answers to a sub-query.        *)
(***************************************************************************)
EXTENDS AdornedRules

CONSTANTS
  Databases,    \* [EDBPreds -> sets of tuples]
  Queries       \* [pred, args, joins, values]: positions asked for given values only

ASSUME RuleAssumption ==
  \A P \in Programs : \A r \in ToSet(P) :
    /\ r.head.pred \in IDBPreds
    /\ Len(r.body) > 0
    /\ VarsOf(r.head) \subseteq UNION { VarsOf(l) : l \in ToSet(r.body) }

ASSUME DatabaseAssumption ==
  \A D \in Databases : \A p \in EDBPreds : D[p] \subseteq [1 .. Arity[p] -> Values]

ASSUME QueryAssumption ==
  \A q \in Queries :
    /\ q = [pred |-> q.pred, args |-> q.args, joins |-> q.joins, values |-> q.values]
    /\ q.pred \in IDBPreds
    /\ q.args \in [1 .. Arity[q.pred] -> Variables \cup Values]
    /\ q.joins \subseteq DOMAIN q.args
    /\ \A v \in q.values : \A i \in q.joins : v[i] \in Values

VARIABLES
  program, db,   \* the program and the database
  query, asked,  \* the query evaluateQuery was called with, the number of calls
  pc,            \* "start", "running", "done", or what was thrown
  rules,         \* of each adorned predicate: its executors, once created
  inputs,        \* of each adorned predicate: the tuples asked, in order
  answers,       \* of each adorned predicate: the tuples found
  tasks,         \* the stack, its top last
  call,          \* QSQR::evaluate about to be entered: [key, offset, repeat]
  total,         \* totalAnswers when the round began
  result

given == <<program, db, query, asked>>
vars == <<given, pc, rules, inputs, answers, tasks, call, total, result>>

NoCall == [key |-> << >>, offset |-> 0, repeat |-> FALSE]

-----------------------------------------------------------------------------
(* RuleExecutor: a rule prepared for an adornment                          *)

\* doesVarAppearsInFollowingPatterns: in the body after atom j, or in the head.
NeededAfter(x, j, v) ==
  v \in VarsOf(x.head) \/ \E k \in j + 1 .. Len(x.body) : v \in VarsOf(x.body[k])

\* posToCopyFromPreviousStep: the columns of atom j joined with a supplementary
\* relation over sig that are kept.
KeptColumns(x, j, sig) ==
  LET occ == VarSeq(x.body[j])
      fromAtom == Increasing(Len(occ), { i \in DOMAIN occ : NeededAfter(x, j, occ[i]) })
      fromSig == Increasing(Len(sig),
                   { i \in DOMAIN sig : /\ sig[i] \notin ToSet(occ) /\ NeededAfter(x, j, sig[i])
                                        /\ FirstIndex(sig[i], sig) = i })
  IN  fromAtom \o [i \in DOMAIN fromSig |-> Len(occ) + fromSig[i]]

\* The variables of each supplementary relation; the first holds the bound
\* variables of the head.
Signatures(x) ==
  LET sig[j \in 0 .. Len(x.body)] ==
        IF j = 0 THEN Distinct(Pick(x.head.args, x.head.bound \ ConstantPositions(x.head)))
        ELSE LET last == sig[j - 1]
                 kept == KeptColumns(x, j, last)
             IN  [k \in DOMAIN kept |-> (VarSeq(x.body[j]) \o last)[kept[k]]]
  IN  [j \in 1 .. Len(x.body) + 1 |-> sig[j - 1]]

RulesFor(key) == Pick(program, { i \in DOMAIN program : program[i].head.pred = key[1] })

\* RuleExecutor::RuleExecutor
RuleExecutor(x) == [head |-> x.head, body |-> x.body, sig |-> Signatures(x)]

\* createRules
CreateRules(key) ==
  rules' = IF rules[key] # << >> THEN rules
           ELSE [rules EXCEPT ![key] =
                   [i \in DOMAIN RulesFor(key) |-> RuleExecutor(AdornedRule[<<RulesFor(key)[i], key[2]>>])]]

\* isUnifiable.  A repeated variable of the head is looked up in the tuple at its
\* index among the bound variables, which is its index in the tuple as long as
\* every bound argument before it is a variable of its own.
Unifiable(x, tuple) ==
  LET terms == Pick(x.head.args, x.head.bound)
  IN  \A i \in DOMAIN terms :
        /\ terms[i] \notin Variables => tuple[i] = terms[i]
        /\ terms[i] \in Variables /\ FirstIndex(terms[i], terms) # i =>
             tuple[i] = tuple[FirstIndex(terms[i], x.sig[1])]

\* The rows that the tuples put into the first supplementary relation.
FirstRows(x, tuples) ==
  LET terms == Pick(x.head.args, x.head.bound)
  IN  { [k \in DOMAIN x.sig[1] |-> t[FirstIndex(x.sig[1][k], terms)]] :
          t \in { u \in tuples : Unifiable(x, u) } }

\* The sub-queries that atom j makes of the rows of its supplementary relation.
Passed(x, j, rows) ==
  LET terms == Pick(x.body[j].args, x.body[j].bound)
  IN  { [k \in DOMAIN terms |-> IF terms[k] \in Variables THEN row[FirstIndex(terms[k], x.sig[j])]
                                ELSE terms[k]] : row \in rows }

\* EDBLayer::query, projected to the variables.
EDBRows(l) ==
  { Pick(t, DOMAIN l.args \ ConstantPositions(l)) :
      t \in { u \in db[l.pred] :
                /\ \A i \in ConstantPositions(l) : u[i] = l.args[i]
                /\ \A i, k \in DOMAIN l.args : l.args[i] = l.args[k] => u[i] = u[k] } }

\* projectAndFilter: repeated variables are not compared.
AnswerRows(l) ==
  { Pick(t, DOMAIN l.args \ ConstantPositions(l)) :
      t \in { u \in answers[KeyOf(l)] : \A i \in ConstantPositions(l) : u[i] = l.args[i] } }

\* (mutant) only the first pair is joined.
FirstJoin(x, j) ==
  LET occ == VarSeq(x.body[j])
      pairs == { ik \in (DOMAIN occ) \X (DOMAIN x.sig[j]) : occ[ik[1]] = x.sig[j][ik[2]] }
  IN  { ik \in pairs : \A other \in pairs : ik[1] <= other[1] }

\* The pairs of columns of atom j and its supplementary relation that are joined.
Joins(x, j) ==
  { ik \in (DOMAIN VarSeq(x.body[j])) \X (DOMAIN x.sig[j]) : VarSeq(x.body[j])[ik[1]] = x.sig[j][ik[2]] }

\* RuleExecutor::join, or a plain copy when nothing is joined.
Joined(x, j, rows, suppl) ==
  LET keep == KeptColumns(x, j, x.sig[j])
      pairs == { rs \in rows \X suppl : \A ik \in Joins(x, j) : rs[1][ik[1]] = rs[2][ik[2]] }
  IN  { [k \in DOMAIN keep |-> (rs[1] \o rs[2])[keep[k]]] : rs \in pairs }

\* copyLastRelInAnswers
HeadTuples(x, rows) ==
  { [i \in DOMAIN x.head.args |->
       IF x.head.args[i] \in Variables
       THEN row[FirstIndex(x.head.args[i], x.sig[Len(x.sig)])] ELSE x.head.args[i]] : row \in rows }

-----------------------------------------------------------------------------
(* Tasks                                                                   *)

\* calculateAllAnswers
AnswerCount == Cardinality(UNION { {k} \X answers[k] : k \in Keys })

QueryTask(key, next, offset, repeat, n) ==
  [type |-> "QUERY", key |-> key, next |-> next, offset |-> offset, repeat |-> repeat, total |-> n]

RuleTask(x, next, suppl) == [type |-> "RULE", exec |-> x, next |-> next, suppl |-> suppl]

\* The rows that answer atom j, the rule's task on top of the stack, go into the
\* next supplementary relation.
JoinAtom(stack, j, rows) ==
  LET task == Last(stack)
  IN  /\ IF rows # {} /\ Joins(task.exec, j) = {} /\ task.exec.sig[j] # << >>
         THEN pc' = "cartesian" /\ tasks' = stack
         ELSE /\ tasks' = [stack EXCEPT ![Len(stack)].suppl[j + 1] =
                             @ \cup Joined(task.exec, j, rows, task.suppl[j])]
              /\ UNCHANGED pc
      /\ call' = NoCall
      /\ UNCHANGED inputs

\* (mutant) inputs are not compared with earlier ones.
AllInputs(task, j) == Passed(task.exec, j, task.suppl[j])

\* The sub-queries of atom j that have not been asked in this round.
NewInputs(task, j) ==
  Passed(task.exec, j, task.suppl[j]) \ ToSet(inputs[KeyOf(task.exec.body[j])])

\* evaluateRule: an IDB atom with new inputs is evaluated first.
EvaluateAtom(stack, j) ==
  LET task == Last(stack)
      l == task.exec.body[j]
      fresh == NewInputs(task, j)
  IN  IF l.pred \in EDBPreds THEN JoinAtom(stack, j, EDBRows(l))
      ELSE IF fresh = {} THEN JoinAtom(stack, j, AnswerRows(l))
      ELSE /\ inputs' = [inputs EXCEPT ![KeyOf(l)] = @ \o SetToSeq(fresh)]
           /\ tasks' = Append(stack, [type |-> "RULE_QUERY", next |-> j])
           /\ call' = [key |-> KeyOf(l), offset |-> Len(inputs[KeyOf(l)]), repeat |-> TRUE]
           /\ UNCHANGED pc

\* RuleExecutor::evaluate for the inputs after the offset.
EvaluateRule(stack, x, key, offset) ==
  LET rows == FirstRows(x, ToSet(SubSeq(inputs[key], offset + 1, Len(inputs[key]))))
  IN  IF rows = {} THEN tasks' = stack /\ call' = NoCall /\ UNCHANGED <<pc, inputs>>
      ELSE EvaluateAtom(Append(stack, RuleTask(x, 2, <<rows>> \o [j \in DOMAIN x.body |-> {}])), 1)

\* QSQR::evaluate: creates the executors of the predicate and begins with the
\* first rule.
Evaluate ==
  /\ pc = "running"
  /\ call # NoCall
  /\ IF \E i \in DOMAIN RulesFor(call.key) : ~Plannable(RulesFor(call.key)[i], call.key[2])
     THEN pc' = "unplannable" /\ UNCHANGED <<rules, tasks, call, inputs>>
     ELSE /\ CreateRules(call.key)
          /\ IF RulesFor(call.key) = << >>
             THEN call' = NoCall /\ UNCHANGED <<pc, tasks, inputs>>
             ELSE EvaluateRule(Append(tasks, QueryTask(call.key, 2, call.offset, call.repeat, AnswerCount)),
                               rules'[call.key][1], call.key, call.offset)
  /\ UNCHANGED <<given, answers, total, result>>

Pending(type) == pc = "running" /\ call = NoCall /\ tasks # << >> /\ Last(tasks).type = type

\* (mutant) rules are repeated without new answers.
RepeatsAlways(task) == task.repeat /\ AnswerCount >= task.total

Repeats(task) == task.repeat /\ AnswerCount > task.total

\* QSQR::processTask of a QUERY: the next rule, or all rules again.
ProcessQuery ==
  /\ Pending("QUERY")
  /\ LET task == Last(tasks)
     IN  IF task.next <= Len(RulesFor(task.key))
         THEN EvaluateRule(Append(Front(tasks), [task EXCEPT !.next = @ + 1]),
                           rules[task.key][task.next], task.key, task.offset)
         ELSE IF Repeats(task)
         THEN EvaluateRule(Append(Front(tasks), [task EXCEPT !.next = 2, !.total = AnswerCount]),
                           rules[task.key][1], task.key, task.offset)
         ELSE tasks' = Front(tasks) /\ UNCHANGED <<pc, call, inputs>>
  /\ UNCHANGED <<given, rules, answers, total, result>>

\* RuleExecutor::processTask of a RULE: the next atom, or the answers.
ProcessRule ==
  /\ Pending("RULE")
  /\ LET task == Last(tasks)
         x == task.exec
     IN  IF task.next <= Len(x.body) /\ task.suppl[task.next] # {}
         THEN /\ EvaluateAtom(Append(Front(tasks), RuleTask(x, task.next + 1, task.suppl)), task.next)
              /\ UNCHANGED answers
         ELSE /\ answers' = [answers EXCEPT ![KeyOf(x.head)] = @ \cup HeadTuples(x, Last(task.suppl))]
              /\ tasks' = Front(tasks)
              /\ UNCHANGED <<pc, call, inputs>>
  /\ UNCHANGED <<given, rules, total, result>>

\* RuleExecutor::processTask of a RULE_QUERY: what the sub-query found is joined.
ProcessRuleQuery ==
  /\ Pending("RULE_QUERY")
  /\ LET j == Last(tasks).next
         stack == Front(tasks)
     IN  JoinAtom(stack, j, AnswerRows(Last(stack).exec.body[j]))
  /\ UNCHANGED <<given, rules, answers, total, result>>

-----------------------------------------------------------------------------
(* QSQR::evaluateQuery                                                     *)

QueryKey == <<query.pred, ConstantPositions(query) \cup query.joins>>

\* The input tuples: the constants, and the possible values of the join positions.
Seeds ==
  { Pick([i \in DOMAIN query.args |-> IF i \in query.joins THEN v[i] ELSE query.args[i]], QueryKey[2]) :
      v \in query.values }

\* What projectAndFilter and filter make of a set of tuples.
Filtered(tuples) ==
  { t \in tuples :
      /\ \A i \in ConstantPositions(query) : t[i] = query.args[i]
      /\ \E v \in query.values : \A i \in query.joins : t[i] = v[i] }

\* The inputs are cleaned, the query is the only one again.
BeginRound ==
  /\ inputs' = [k \in Keys |-> IF k = QueryKey THEN SetToSeq(Seeds) ELSE << >>]
  /\ call' = [key |-> QueryKey, offset |-> 0, repeat |-> FALSE]
  /\ total' = AnswerCount
  /\ pc' = "running"
  /\ UNCHANGED <<given, rules, answers, tasks, result>>

Start == pc = "start" /\ BeginRound

RoundOver == pc = "running" /\ call = NoCall /\ tasks = << >>

\* (mutant) one round is enough.
NoRoundAgain == FALSE

ShouldRepeat == AnswerCount > total

RepeatRound == RoundOver /\ ShouldRepeat /\ BeginRound

Finish ==
  /\ RoundOver
  /\ ~ShouldRepeat
  /\ result' = Filtered(answers[QueryKey])
  /\ pc' = "done"
  /\ UNCHANGED <<given, rules, inputs, answers, tasks, call, total>>

\* cleanBindings: the values that have no answer.
Remaining ==
  { v \in query.values : \A t \in result : \E i \in query.joins : t[i] # v[i] }

\* The rules for which getIncrReasoningIterator asks: those with one IDB literal,
\* up to the first one with more.
Turns ==
  LET IDBLiterals(i) == Cardinality({ k \in DOMAIN RulesFor(<<query.pred>>)[i].body :
                                       RulesFor(<<query.pred>>)[i].body[k].pred \notin EDBPreds })
      several == { i \in DOMAIN RulesFor(<<query.pred>>) : IDBLiterals(i) > 1 }
  IN  Cardinality({ i \in DOMAIN RulesFor(<<query.pred>>) : IDBLiterals(i) = 1 /\ \A k \in several : i < k })

\* The only variable of the query is given by values.
Incremental ==
  Cardinality(query.joins) = 1 /\ DOMAIN query.args \ ConstantPositions(query) = query.joins

\* The same evaluator is asked again for the values that are left: it has kept the
\* answers, and lost the rules.
AskAgain ==
  /\ pc = "done"
  /\ Incremental /\ Remaining # {}
  /\ asked < Turns
  /\ query' = [query EXCEPT !.values = Remaining]
  /\ rules' = [k \in Keys |-> << >>]
  /\ asked' = asked + 1
  /\ pc' = "start"
  /\ UNCHANGED <<program, db, inputs, answers, tasks, call, total, result>>

Init ==
  /\ program \in Programs
  /\ db \in Databases
  /\ query \in Queries
  /\ asked = 1
  /\ pc = "start"
  /\ rules = [k \in Keys |-> << >>]
  /\ inputs = [k \in Keys |-> << >>]
  /\ answers = [k \in Keys |-> {}]
  /\ tasks = << >>
  /\ call = NoCall
  /\ total = 0
  /\ result = {}

Next ==
  \/ Start \/ RepeatRound \/ Finish \/ AskAgain
  \/ Evaluate \/ ProcessQuery \/ ProcessRule \/ ProcessRuleQuery

Spec == Init /\ [][Next]_vars

-----------------------------------------------------------------------------
(* Properties                                                              *)

Tuples(n) == [1 .. n -> Values]

TypeOK ==
  /\ pc \in {"start", "running", "done", "unplannable", "cartesian"}
  /\ \A k \in Keys : Len(rules[k]) \in {0, Len(RulesFor(k))}
  /\ \A k \in Keys : answers[k] \subseteq Tuples(Arity[k[1]])
  /\ \A k \in Keys : ToSet(inputs[k]) \subseteq Tuples(Cardinality(k[2]))
  /\ \A k \in Keys : Cardinality(ToSet(inputs[k])) = Len(inputs[k])
  /\ \A i \in DOMAIN tasks : tasks[i].type = "RULE_QUERY" => i > 1 /\ tasks[i - 1].type = "RULE"

Models == [P \in Programs |-> [D \in Databases |-> LeastModel(P, D)]]

Meaning == Models[program][db]

\* What projectAndFilter does not compare is compared by the join: no rule, adorned
\* for any query, has an IDB atom with a variable twice that is not bound before.
RepeatsAreBound ==
  \A r \in AllRules : \A b \in SUBSET DOMAIN r.head.args :
    \A l \in ToSet(AdornedRule[<<r, b>>].body) : l.pred \in IDBPreds =>
      \A i, k \in DOMAIN l.args :
        i # k /\ l.args[i] = l.args[k] /\ l.args[i] \in Variables => i \in l.bound

\* isUnifiable compares what belongs together: under every adornment, the index of a
\* repeated variable among the bound variables of the head is its index in the tuple.
RepeatsInPlace ==
  \A r \in AllRules : \A b \in SUBSET DOMAIN r.head.args :
    LET x == RuleExecutor(AdornedRule[<<r, b>>])
        terms == Pick(r.head.args, b)
    IN  \A i \in DOMAIN terms :
          terms[i] \in Variables /\ FirstIndex(terms[i], terms) # i =>
            FirstIndex(terms[i], x.sig[1]) = FirstIndex(terms[i], terms)

\* No table ever holds an answer that the program does not imply, whatever
\* bindings were passed and however the sub-queries nest.
AnswersSound ==
  LET model == Meaning IN \A k \in Keys : answers[k] \subseteq model[k[1]]

\* Every atom of an adorned rule but the first shares a variable with what is bound
\* before it.
Connected(x) ==
  \A j \in 2 .. Len(x.body) :
    VarsOf(x.body[j]) \cap (ToSet(Pick(x.head.args, x.head.bound)) \cup VarsIn(x.body, [k \in 1 .. j - 1 |-> k])) # {}

\* A query is answered, and with every answer: re-using answers of earlier rounds
\* and queries, evaluating only new inputs and repeating only while answers come in
\* loses none.  It fails only on a rule whose body falls apart: the order of the
\* optimizer leaves no atom to be multiplied that could be joined.
TopDownExact ==
  /\ pc \in {"unplannable", "cartesian"} =>
       \E r \in ToSet(program) : \E b \in SUBSET DOMAIN r.head.args : ~Connected(AdornedRule[<<r, b>>])
  /\ pc = "done" => result = Filtered(Meaning[query.pred])

\* Steps that are left, with no new answer or input: of an atom, of a rule, of all
\* rules of a predicate, of a task.
AtomSteps == 2
RuleSteps == 1 + AtomSteps * (1 + Max({0} \cup { Len(r.body) : r \in ToSet(program) }))
PredicateSteps == (1 + Len(program)) * (1 + RuleSteps)

StepsLeft(task) ==
  CASE task.type = "RULE_QUERY" -> 1
    [] task.type = "RULE" -> AtomSteps * (Len(task.exec.body) + 2 - task.next)
    [] OTHER -> 1 + (1 + Len(RulesFor(task.key)) - task.next) * (1 + RuleSteps)
                  + (AnswerCount - task.total) * (1 + PredicateSteps)

SumOf(s) ==
  LET upTo[i \in 0 .. Len(s)] == IF i = 0 THEN 0 ELSE upTo[i - 1] + s[i]
  IN  upTo[Len(s)]

WorkLeft ==
  (IF call = NoCall THEN 0 ELSE 2 + PredicateSteps) + SumOf([i \in DOMAIN tasks |-> StepsLeft(tasks[i])])

InputCount == Cardinality(UNION { {k} \X DOMAIN inputs[k] : k \in Keys })

\* Answers and inputs are finitely many tuples over the values, so every query
\* ends: a step finds an answer, begins a round because the last one found some,
\* asks a new sub-query, or leaves less to do than there was.
Advances ==
  [][ pc = "running" /\ pc' = "running" =>
        \/ AnswerCount' > AnswerCount
        \/ total' > total
        \/ InputCount' > InputCount
        \/ total' = total /\ InputCount' = InputCount /\ WorkLeft' < WorkLeft ]_vars

=============================================================================
