-------------------------- MODULE StratifiedChase --------------------------
(***************************************************************************)
(* What the reliance-guided chase promises, without groups, counters,      *)
(* triggers or a schedule: rules are closed in an order compatible with    *)
(* the reliances, a closed rule never has a match again, and a rule is     *)
(* applied only when every rule that positively precedes or restrains it   *)
(* from outside its own component is closed.  SemiNaiverOrdered is shown   *)
(* to implement it (when run() is given no timeout).                       *)
(***************************************************************************)
EXTENDS RelianceGraph

CONSTANTS Rules, Pos, Res, EDBRules

VARIABLES
  pending,   \* rules with a body match whose head does not hold
  closed,    \* rules that will never be considered again
  applied    \* rules that have derived something

vars == <<pending, closed, applied>>

Union == Pos \cup Res

Init ==
  /\ pending \in SUBSET EDBRules
  /\ closed = {}
  /\ applied = {}

\* The rules that must be closed before r may be applied.
Before(r) == Predecessors(Union, r) \ Component(Union, Rules, r)

\* r derives its new facts; rules that rely on r may obtain new matches.
Apply(r) ==
  /\ r \in pending
  /\ Before(r) \subseteq closed
  /\ \E woken \in SUBSET Successors(Pos, r) : pending' = (pending \ {r}) \cup woken
  /\ applied' = applied \cup {r}
  /\ UNCHANGED closed

\* The matches of r turn out to be satisfied.
Discard(r) ==
  /\ r \in pending
  /\ pending' = pending \ {r}
  /\ UNCHANGED <<closed, applied>>

\* A set of rules without matches is closed; only closed rules or rules of the
\* set itself could ever give them one.
Close(S) ==
  /\ S \cap pending = {}
  /\ \A r \in S : Predecessors(Pos, r) \subseteq closed \cup S
  /\ closed' = closed \cup S
  /\ UNCHANGED <<pending, applied>>

Next ==
  \/ \E r \in Rules : Apply(r) \/ Discard(r)
  \/ \E S \in SUBSET (Rules \ closed) : Close(S)

Spec == Init /\ [][Next]_vars

=============================================================================
