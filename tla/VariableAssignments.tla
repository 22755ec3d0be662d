------------------------- MODULE VariableAssignments -------------------------
(***************************************************************************)
(* The bindings a reliance search builds (struct VariableAssignments): for *)
(* the variables of two rules, those of the second shifted by an offset, a *)
(* constant or null and the group of variables they are unified with; the  *)
(* graph of the unifications; and the levels the search can return to.     *)
(*                                                                         *)
(* A variable is a positive number, negated once it is known to be         *)
(* existential; constants are numbers from ConstantBase on, and the null   *)
(* that stands for an existential variable is the negated variable.        *)
(***************************************************************************)
EXTENDS Integers, Sequences, FiniteSets

ConstantBase == 100
NotAssigned == 1000                  \* no constant; greater than all of them
NoGroup == -1                        \* the same for groups, whose ids have no bound
Assigned == -2                       \* in a group that has no id yet

IsConstant(t) == t >= ConstantBase

NewAssignments(fromCount, toCount) ==
  LET ids == 0 .. fromCount + toCount - 1
  IN  [offset |-> fromCount, nextGroup |-> 0, mappedExistential |-> FALSE,
       constant |-> [v \in ids |-> NotAssigned],
       group |-> [v \in ids |-> NoGroup],
       edges |-> {}, levels |-> << >>]

Ids(a) == DOMAIN a.constant
TrueId(a, v, rel) ==
  (IF v < 0 THEN -v ELSE v) + (IF rel = "From" THEN 0 ELSE a.offset)
GroupOfVar(a, v, rel) == a.group[TrueId(a, v, rel)]
ConstantOf(a, v, rel) == a.constant[TrueId(a, v, rel)]

(* What a walk along the unifications from v reaches inside open. *)
Spread(edges, v, open) ==
  LET reach[n \in 0 .. Cardinality(open)] ==
        IF n = 0 THEN {v}
        ELSE LET found == reach[n - 1]
             IN  found \cup {w \in open : \E u \in found : {u, w} \in edges}
  IN  reach[Cardinality(open)]

(* Notes in the current level which ids it binds; outside of a level, where *)
(* nothing is ever undone, there is nothing to note.                        *)
Noted(levels, field, ids) ==
  IF levels = << >> THEN levels
  ELSE [levels EXCEPT ![Len(levels)][field] = @ \cup ids]

AssignConstantsNext(a, id, c) ==
  LET unbound == {v \in Ids(a) : a.constant[v] = NotAssigned}
      bound == Spread(a.edges, id, unbound)
  IN  [a EXCEPT !.constant = [v \in Ids(a) |-> IF v \in bound THEN c ELSE @[v]],
                !.levels = Noted(@, "constants", bound \cap unbound)]

Connect(a, v, w) ==
  LET new == {u \in {v, w} : a.group[u] = NoGroup}
      joined == [a EXCEPT !.edges = @ \cup {{v, w}},
                          !.group = [@ EXCEPT ![v] = Assigned, ![w] = Assigned],
                          !.levels = Noted(@, "groups", new)]
  IN  IF a.constant[v] # NotAssigned
      THEN AssignConstantsNext(joined, w, a.constant[v])
      ELSE IF a.constant[w] # NotAssigned
           THEN AssignConstantsNext(joined, v, a.constant[w])
           ELSE joined

(* Gives an id to every group with a member that has none, in the order of  *)
(* the least such member. The other members get the id of the group too:    *)
(* they are not noted in the level.                                         *)
FinishGroupAssignments(a) ==
  LET finish[v \in 0 .. Cardinality(Ids(a))] ==
        IF v = 0 THEN a
        ELSE LET b == finish[v - 1]
                 members == Spread(b.edges, v - 1, Ids(b))
             IN  IF b.group[v - 1] # Assigned THEN b
                 ELSE [b EXCEPT !.group = [w \in Ids(b) |->
                                   IF w \in members THEN b.nextGroup ELSE @[w]],
                                !.nextGroup = @ + 1]
  IN  finish[Cardinality(Ids(a))]

IncreaseDepth(a) ==
  [a EXCEPT !.levels = Append(@, [edges |-> a.edges, constants |-> {}, groups |-> {}])]

(* Mutant: constants and nulls stay when a mapping is undone. *)
DecreaseDepthKeepingConstants(a) ==
  LET level == a.levels[Len(a.levels)]
  IN  [a EXCEPT !.group = [v \in Ids(a) |-> IF v \in level.groups THEN NoGroup ELSE @[v]],
                !.edges = level.edges,
                !.levels = SubSeq(@, 1, Len(@) - 1)]

DecreaseDepth(a) ==
  LET level == a.levels[Len(a.levels)]
      clear(f, ids, none) == [v \in Ids(a) |-> IF v \in ids THEN none ELSE f[v]]
  IN  [a EXCEPT !.constant = clear(@, level.constants, NotAssigned),
                !.group = clear(@, level.groups, NoGroup),
                !.edges = level.edges,
                !.levels = SubSeq(@, 1, Len(@) - 1)]
=============================================================================
