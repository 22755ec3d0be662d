----------------------------- MODULE QueryModes -----------------------------
(***************************************************************************)
(* The two modes of Reasoner::getIterator side by side: a query is handed  *)
(* to the top-down evaluator, or the program is rewritten for it and the   *)
(* rewritten program materialized round by round.  Which of the two is     *)
(* chosen by estimated cost; the choice must not show in the answers.      *)
(***************************************************************************)
EXTENDS QSQR, MagicSets

VARIABLES
  rewritten,    \* the rules of the rewritten program; none in the other mode
  magic,        \* of each adorned predicate: the bindings in its magic predicate
  facts         \* of each predicate

magicVars == <<rewritten, magic, facts>>

\* getTopDownIterator: the evaluator works on the query.
TopDown == rewritten = {} /\ Next /\ UNCHANGED magicVars

\* getMagicIterator: the rewritten program and the bindings of the query.
Rewrite ==
  /\ pc = "start" /\ asked = 1 /\ rewritten = {}
  /\ Rewritable(program, QueryKey)
  /\ rewritten' = MagicProgram(AdornedProgram(program, QueryKey))
  /\ magic' = [magic EXCEPT ![QueryKey] = Seeds]
  /\ facts' = [p \in Preds |-> IF p \in EDBPreds THEN db[p] ELSE {}]
  /\ UNCHANGED vars

\* A round of its materialization, as long as there is something new.
Materialize ==
  /\ rewritten # {}
  /\ LET next == MagicRound(rewritten, magic, facts)
     IN  /\ next # [magic |-> magic, facts |-> facts]
         /\ magic' = next.magic /\ facts' = next.facts
  /\ UNCHANGED <<vars, rewritten>>

ModesInit ==
  /\ Init
  /\ rewritten = {}
  /\ magic = [k \in Keys |-> {}]
  /\ facts = [p \in Preds |-> {}]

ModesNext == TopDown \/ Rewrite \/ Materialize

ModesSpec == ModesInit /\ [][ModesNext]_<<vars, magicVars>>

\* What doMagic does not look at when it leaves out the rule that would pass bindings
\* to the first atom of x: those bindings are the ones that the guard of x holds.
LeftOutPassed ==
  \A r \in AllRules : \A b \in SUBSET DOMAIN r.head.args :
    LET x == AdornedRule[<<r, b>>]
        first == x.body[1]
    IN  x.body # << >> /\ KeyOf(first) = KeyOf(x.head) =>
          Pick(first.args, first.bound) = Pick(x.head.args, x.head.bound)

\* Magic sets answer a query as the materialized program does: the bindings
\* passed on by the added rules reach every rule instance that an answer needs,
\* and no rule of the rewritten program derives anything else.
MagicExact ==
  rewritten # {} =>
    LET model == Meaning
        next == MagicRound(rewritten, magic, facts)
    IN  /\ \A p \in IDBPreds : facts[p] \subseteq model[p]
        /\ next = [magic |-> magic, facts |-> facts] =>
             Filtered(model[query.pred]) \subseteq facts[query.pred]

=============================================================================
