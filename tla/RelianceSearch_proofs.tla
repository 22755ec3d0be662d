------------------------ MODULE RelianceSearch_proofs ------------------------
(***************************************************************************)
(* Proofs about the search for reliances, for every program: undoing a     *)
(* mapping leaves exactly what the mappings that remain give (Backtracked).*)
(*                                                                         *)
(* First, by operator: the variables connected by unifications are a least *)
(* closed set (Connected); Leads says what binding, connecting, unifying   *)
(* and mapping make of an assignment and what the level notes of it, and   *)
(* the lemmas ...Same that groups have no part in it; completing the ids   *)
(* of groups settles every connected set (Settled).                        *)
(*                                                                         *)
(* Then the invariant: the present assignment has the constants and edges  *)
(* of one got from nothing by the mapped atoms (Run), each level records   *)
(* what its atom added (Levelled), and no connected set of any level has   *)
(* two ids without one of it still waiting for an id (Uniform).            *)
(***************************************************************************)
EXTENDS RelianceSearch, FiniteSetTheorems, SequenceTheorems, WellFoundedInduction, TLAPS

-----------------------------------------------------------------------------
(* Numbers and recursive functions                                         *)

\* Induction over 0 .. n, for a set instead of a predicate.
LEMMA UpTo ==
  ASSUME NEW n \in Nat, NEW S, 0 \in S, \A i \in 1 .. n : i - 1 \in S => i \in S
  PROVE  0 .. n \subseteq S
<1> DEFINE missing == { i \in 0 .. n : i \notin S }
<1>1. SUFFICES missing = {}
  OBVIOUS
<1>2. SUFFICES ASSUME missing # {} PROVE FALSE
  OBVIOUS
<1>3. missing \subseteq Nat
  OBVIOUS
<1>4. PICK m \in missing : \A k \in missing : ~(<<k, m>> \in OpToRel(<, Nat))
  <2> HIDE DEF missing
  <2> QED
    BY <1>2, <1>3, NatLessThanWellFounded, WFMin
<1>5. m \in 1 .. n /\ m - 1 \in 0 .. n /\ m \notin S
  OBVIOUS
<1>6. m - 1 \notin missing
  <2> DEFINE ss == <<m - 1, m>>
  <2>1. ss \in Nat \X Nat /\ ss[1] < ss[2]
    BY <1>5
  <2>2. ss \in OpToRel(<, Nat)
    BY <2>1 DEF OpToRel
  <2> HIDE DEF missing
  <2> QED
    BY <1>4, <2>2
<1> QED
  BY <1>5, <1>6

\* G is defined by recursion over 0 .. n.
Recursive(G, n, base, step) ==
  G = [i \in 0 .. n |-> IF i = 0 THEN base ELSE step[<<i, G[i - 1]>>]]

\* Such a function exists.
LEMMA RecursionExists ==
  ASSUME NEW n \in Nat, NEW T, NEW base \in T, NEW step \in [(1 .. n) \X T -> T]
  PROVE  \E G \in [0 .. n -> T] : Recursive(G, n, base, step)
<1> DEFINE Solves(G, k) == \A i \in 0 .. k : G[i] = IF i = 0 THEN base ELSE step[<<i, G[i - 1]>>]
           solved == { k \in 0 .. n : \E G \in [0 .. n -> T] : Solves(G, k) }
<1>1. 0 \in solved
  <2> DEFINE G == [i \in 0 .. n |-> base]
  <2>1. G \in [0 .. n -> T] /\ Solves(G, 0) /\ 0 \in 0 .. n
    OBVIOUS
  <2> QED
    BY <2>1
<1>2. ASSUME NEW k \in 1 .. n, k - 1 \in solved
      PROVE  k \in solved
  <2>1. PICK G \in [0 .. n -> T] : Solves(G, k - 1)
    BY <1>2
  <2>2. k - 1 \in 0 .. n /\ k \in 0 .. n /\ k # 0
    OBVIOUS
  <2> DEFINE H == [i \in 0 .. n |-> IF i = k THEN step[<<k, G[k - 1]>>] ELSE G[i]]
  <2>3. <<k, G[k - 1]>> \in (1 .. n) \X T
    BY <2>2
  <2>4. H \in [0 .. n -> T]
    BY <2>3
  <2>5. \A i \in 0 .. k - 1 : i \in 0 .. n /\ H[i] = G[i] /\ (i # 0 => i - 1 \in 0 .. k - 1)
    OBVIOUS
  <2>6. H[k] = step[<<k, H[k - 1]>>]
    BY <2>2
  <2>7. Solves(H, k)
    <3> SUFFICES ASSUME NEW i \in 0 .. k
                 PROVE  H[i] = IF i = 0 THEN base ELSE step[<<i, H[i - 1]>>]
      OBVIOUS
    <3>1. CASE i = k
      BY <2>2, <2>6, <3>1
    <3>2. CASE i # k
      <4>1. i \in 0 .. k - 1
        BY <3>2
      <4>2. H[i] = G[i] /\ G[i] = IF i = 0 THEN base ELSE step[<<i, G[i - 1]>>]
        BY <2>1, <2>5, <4>1
      <4>3. i # 0 => H[i - 1] = G[i - 1]
        BY <2>5, <4>1
      <4> HIDE DEF H
      <4> QED
        BY <4>2, <4>3
    <3> QED
      BY <3>1, <3>2
  <2> HIDE DEF H, Solves
  <2> QED
    BY <2>2, <2>4, <2>7
<1>3. n \in solved
  <2> HIDE DEF solved
  <2>1. 0 .. n \subseteq solved
    BY <1>1, <1>2, UpTo
  <2> QED
    BY <2>1
<1>4. PICK G \in [0 .. n -> T] : Solves(G, n)
  BY <1>3
<1> QED
  BY <1>4 DEF Recursive

-----------------------------------------------------------------------------
(* Walks along unifications                                                *)

Closed(edges, T, open) == \A u \in T, w \in open : {u, w} \in edges => w \in T

Widened(edges, T, open) == T \cup { w \in open : \E u \in T : {u, w} \in edges }

\* What is reached in n rounds.
IsReach(reach, edges, v, open) ==
  /\ Cardinality(open) \in Nat
  /\ Spread(edges, v, open) = reach[Cardinality(open)]
  /\ reach[0] = {v}
  /\ \A n \in 1 .. Cardinality(open) : reach[n] = Widened(edges, reach[n - 1], open)

LEMMA SpreadSteps ==
  ASSUME NEW edges, NEW v, NEW open, IsFiniteSet(open)
  PROVE  \E reach : IsReach(reach, edges, v, open)
<1>1. PICK N \in Nat : N = Cardinality(open)
  BY FS_CardinalityType
<1> DEFINE T == SUBSET ({v} \cup open)
           step == [p \in (1 .. N) \X T |-> Widened(edges, p[2], open)]
           Body(r) == [n \in 0 .. N |-> IF n = 0 THEN {v} ELSE Widened(edges, r[n - 1], open)]
<1>2. \A S \in T : Widened(edges, S, open) \in T
  BY DEF Widened
<1>3. step \in [(1 .. N) \X T -> T] /\ {v} \in T
  BY <1>2
<1>4. \E G \in [0 .. N -> T] : Recursive(G, N, {v}, step)
  <2> HIDE DEF step, T
  <2> QED
    BY <1>3, RecursionExists
<1>5. PICK G \in [0 .. N -> T] : G = [n \in 0 .. N |-> IF n = 0 THEN {v} ELSE step[<<n, G[n - 1]>>]]
  BY <1>4 DEF Recursive
<1>6. \A n \in 0 .. N : n # 0 => n - 1 \in 0 .. N /\ n \in 1 .. N
  OBVIOUS
<1>7. \A n \in 1 .. N, S \in T : step[<<n, S>>] = Widened(edges, S, open)
  OBVIOUS
<1>8. G = Body(G)
  <2> HIDE DEF step, T
  <2>1. \A n \in 0 .. N : n # 0 => step[<<n, G[n - 1]>>] = Widened(edges, G[n - 1], open)
    BY <1>5, <1>6, <1>7
  <2> QED
    BY <1>5, <2>1
<1>9. Spread(edges, v, open) = (CHOOSE r : r = Body(r))[N]
  BY <1>1 DEF Spread, Widened
<1>10. PICK r : r = Body(r) /\ Spread(edges, v, open) = r[N]
  <2> HIDE DEF Body
  <2> QED
    BY <1>8, <1>9
<1>11. r[0] = {v} /\ \A n \in 1 .. N : r[n] = Widened(edges, r[n - 1], open)
  <2>1. 0 \in 0 .. N /\ \A n \in 1 .. N : n \in 0 .. N /\ n # 0
    OBVIOUS
  <2> QED
    BY <1>10, <2>1
<1> QED
  BY <1>1, <1>10, <1>11 DEF IsReach

\* Spread(edges, v, open) is the least set with v that the edges into open do not leave.
LEMMA SpreadFacts ==
  ASSUME NEW edges, NEW v, NEW open, IsFiniteSet(open)
  PROVE  /\ v \in Spread(edges, v, open)
         /\ Spread(edges, v, open) \subseteq {v} \cup open
         /\ Closed(edges, Spread(edges, v, open), open)
         /\ \A T : v \in T /\ Closed(edges, T, open) => Spread(edges, v, open) \subseteq T
<1>0. PICK reach : IsReach(reach, edges, v, open)
  BY SpreadSteps
<1>1. /\ Cardinality(open) \in Nat
      /\ Spread(edges, v, open) = reach[Cardinality(open)]
      /\ reach[0] = {v}
      /\ \A n \in 1 .. Cardinality(open) : reach[n] = Widened(edges, reach[n - 1], open)
  BY <1>0 DEF IsReach
<1>2. PICK N \in Nat : N = Cardinality(open)
  BY <1>1
<1>3. N \in 0 .. N
  OBVIOUS
<1>4. v \in reach[N] /\ reach[N] \subseteq {v} \cup open
  <2> DEFINE S == { n \in 0 .. N : v \in reach[n] /\ reach[n] \subseteq {v} \cup open }
  <2>1. 0 \in S
    BY <1>1
  <2>2. ASSUME NEW n \in 1 .. N, n - 1 \in S
        PROVE  n \in S
    <3>1. n \in 0 .. N /\ reach[n] = Widened(edges, reach[n - 1], open)
      BY <1>1, <1>2
    <3>2. v \in reach[n - 1] /\ reach[n - 1] \subseteq {v} \cup open
      BY <2>2
    <3> QED
      BY <3>1, <3>2 DEF Widened
  <2>3. 0 .. N \subseteq S
    <3> HIDE DEF S
    <3> QED
      BY <2>1, <2>2, UpTo
  <2> QED
    BY <1>3, <2>3
<1>5. ASSUME NEW T, v \in T, Closed(edges, T, open)
      PROVE  reach[N] \subseteq T
  <2> DEFINE S == { n \in 0 .. N : reach[n] \subseteq T }
  <2>1. 0 \in S
    BY <1>1, <1>5
  <2>2. ASSUME NEW n \in 1 .. N, n - 1 \in S
        PROVE  n \in S
    <3>1. n \in 0 .. N /\ reach[n] = Widened(edges, reach[n - 1], open)
      BY <1>1, <1>2
    <3>2. reach[n - 1] \subseteq T
      BY <2>2
    <3> QED
      BY <1>5, <3>1, <3>2 DEF Widened, Closed
  <2>3. 0 .. N \subseteq S
    <3> HIDE DEF S
    <3> QED
      BY <2>1, <2>2, UpTo
  <2> QED
    BY <1>3, <2>3
\* Each round but the last ones finds a member of open that was not found before.
<1>6. Closed(edges, reach[N], open)
  <2> DEFINE inside(n) == reach[n] \cap open
             S == { n \in 0 .. N : Closed(edges, reach[n], open) \/ Cardinality(inside(n)) >= n }
  <2>1. \A n \in 0 .. N : IsFiniteSet(inside(n)) /\ Cardinality(inside(n)) \in Nat
                          /\ inside(n) \subseteq open /\ Cardinality(inside(n)) <= N
    BY <1>2, FS_Subset, FS_CardinalityType, FS_Intersection
  <2>2. 0 \in S
    <3>1. Cardinality(inside(0)) >= 0 /\ 0 \in 0 .. N
      BY <2>1
    <3> QED
      BY <3>1
  <2>3. ASSUME NEW n \in 1 .. N, n - 1 \in S
        PROVE  n \in S
    <3>1. n - 1 \in 0 .. N /\ n \in 0 .. N
      OBVIOUS
    <3>2. reach[n] = Widened(edges, reach[n - 1], open)
      BY <1>1, <1>2
    <3>3. CASE Closed(edges, reach[n - 1], open)
      <4>1. reach[n] = reach[n - 1]
        BY <3>2, <3>3 DEF Closed, Widened
      <4> QED
        BY <3>1, <3>3, <4>1
    <3>4. CASE ~Closed(edges, reach[n - 1], open)
      <4>1. Cardinality(inside(n - 1)) >= n - 1
        BY <2>3, <3>4
      <4>2. PICK w \in open : w \in reach[n] /\ w \notin reach[n - 1]
        BY <3>2, <3>4 DEF Closed, Widened
      <4>3. inside(n - 1) \subseteq inside(n) /\ inside(n - 1) # inside(n)
        BY <3>2, <4>2 DEF Widened
      <4>4. Cardinality(inside(n - 1)) < Cardinality(inside(n))
        <5> HIDE DEF inside
        <5> QED
          BY <2>1, <3>1, <4>3, FS_Subset
      <4>5. PICK c \in Nat, d \in Nat : c = Cardinality(inside(n - 1)) /\ d = Cardinality(inside(n))
        BY <2>1, <3>1
      <4>6. d >= n
        BY <4>1, <4>4, <4>5
      <4> QED
        BY <3>1, <4>5, <4>6
    <3> QED
      BY <3>3, <3>4
  <2>4. N \in S
    <3> HIDE DEF S
    <3>1. 0 .. N \subseteq S
      BY <2>2, <2>3, UpTo
    <3> QED
      BY <1>3, <3>1
  <2>5. CASE Cardinality(inside(N)) >= N
    <3>1. Cardinality(inside(N)) = Cardinality(open)
      <4>1. PICK c \in Nat : c = Cardinality(inside(N))
        BY <1>3, <2>1
      <4>2. c >= N /\ c <= N
        BY <1>3, <2>1, <2>5, <4>1
      <4> QED
        BY <1>2, <4>1, <4>2
    <3>2. inside(N) = open
      BY <1>3, <2>1, <3>1, FS_Subset
    <3> QED
      BY <3>2 DEF Closed
  <2> QED
    BY <2>4, <2>5
<1> QED
  BY <1>1, <1>2, <1>4, <1>5, <1>6

\* The groups: what is unified with v.
Connected(edges, n, v) == Spread(edges, v, 0 .. n - 1)

LEMMA ConnectedFacts ==
  ASSUME NEW edges, NEW n \in Nat, NEW v \in 0 .. n - 1
  PROVE  /\ v \in Connected(edges, n, v)
         /\ Connected(edges, n, v) \subseteq 0 .. n - 1
         /\ \A u \in Connected(edges, n, v), w \in 0 .. n - 1 :
              {u, w} \in edges => w \in Connected(edges, n, v)
<1>1. IsFiniteSet(0 .. n - 1)
  BY FS_Interval
<1>2. PICK open : open = 0 .. n - 1
  OBVIOUS
<1>3. /\ v \in Spread(edges, v, open)
      /\ Spread(edges, v, open) \subseteq {v} \cup open
      /\ Closed(edges, Spread(edges, v, open), open)
  BY <1>1, <1>2, SpreadFacts
<1> QED
  BY <1>2, <1>3 DEF Connected, Closed

LEMMA ConnectedIsLeast ==
  ASSUME NEW edges, NEW n \in Nat, NEW v \in 0 .. n - 1, NEW T, v \in T,
         \A u \in T, w \in 0 .. n - 1 : {u, w} \in edges => w \in T
  PROVE  Connected(edges, n, v) \subseteq T
<1>1. IsFiniteSet(0 .. n - 1)
  BY FS_Interval
<1>2. PICK open : open = 0 .. n - 1
  OBVIOUS
<1>3. Closed(edges, T, open)
  BY <1>2 DEF Closed
<1>4. Spread(edges, v, open) \subseteq T
  BY <1>1, <1>2, <1>3, SpreadFacts
<1> QED
  BY <1>2, <1>4 DEF Connected

LEMMA ConnectedIsSymmetric ==
  ASSUME NEW edges, NEW n \in Nat, NEW v \in 0 .. n - 1, NEW w \in Connected(edges, n, v)
  PROVE  w \in 0 .. n - 1 /\ Connected(edges, n, w) = Connected(edges, n, v)
<1>1. w \in 0 .. n - 1
  BY ConnectedFacts
<1>2. ASSUME NEW x \in 0 .. n - 1, NEW y \in Connected(edges, n, x)
      PROVE  Connected(edges, n, y) \subseteq Connected(edges, n, x)
  <2>1. y \in 0 .. n - 1 /\ y \in Connected(edges, n, x)
    BY <1>2, ConnectedFacts
  <2> QED
    BY <2>1, ConnectedFacts, ConnectedIsLeast
<1> DEFINE T == { u \in 0 .. n - 1 : v \in Connected(edges, n, u) }
<1>3. v \in T
  BY ConnectedFacts
<1>4. ASSUME NEW u \in T, NEW x \in 0 .. n - 1, {u, x} \in edges
      PROVE  x \in T
  <2>1. {x, u} \in edges /\ u \in 0 .. n - 1 /\ x \in Connected(edges, n, x)
    BY <1>4, ConnectedFacts
  <2>2. u \in Connected(edges, n, x)
    BY <2>1, ConnectedFacts
  <2>3. Connected(edges, n, u) \subseteq Connected(edges, n, x)
    BY <1>2, <2>2
  <2> QED
    BY <2>3
<1>5. Connected(edges, n, v) \subseteq T
  <2> HIDE DEF T
  <2> QED
    BY <1>3, <1>4, ConnectedIsLeast
<1>6. v \in Connected(edges, n, w)
  BY <1>5
<1> QED
  BY <1>1, <1>2, <1>6

\* More unifications connect more.
LEMMA ConnectedGrows ==
  ASSUME NEW few, NEW many, few \subseteq many, NEW n \in Nat, NEW v \in 0 .. n - 1
  PROVE  Connected(few, n, v) \subseteq Connected(many, n, v)
<1>1. PICK T : T = Connected(many, n, v)
  OBVIOUS
<1>2. v \in T /\ \A u \in T, w \in 0 .. n - 1 : {u, w} \in few => w \in T
  BY <1>1, ConnectedFacts
<1>3. Connected(few, n, v) \subseteq T
  BY <1>2, ConnectedIsLeast
<1> QED
  BY <1>1, <1>3

\* What is not unified with anything is a group of its own.
LEMMA ConnectedAlone ==
  ASSUME NEW edges, NEW n \in Nat, NEW v \in 0 .. n - 1, v \notin UNION edges
  PROVE  Connected(edges, n, v) = {v}
<1>1. \A u \in {v}, w \in 0 .. n - 1 : {u, w} \in edges => w \in {v}
  OBVIOUS
<1>2. Connected(edges, n, v) \subseteq {v} /\ v \in Connected(edges, n, v)
  BY <1>1, ConnectedFacts, ConnectedIsLeast
<1> QED
  BY <1>2

-----------------------------------------------------------------------------
(* Assignments over n ids                                                  *)

Level(n) ==
  [edges : SUBSET SUBSET (0 .. n - 1), constants : SUBSET (0 .. n - 1), groups : SUBSET (0 .. n - 1)]

Assignments(offset, n) ==
  [offset : {offset}, nextGroup : Nat, mappedExistential : BOOLEAN,
   constant : [0 .. n - 1 -> Int], group : [0 .. n - 1 -> {NoGroup, Assigned} \cup Nat],
   edges : SUBSET SUBSET (0 .. n - 1), levels : Seq(Level(n))]

\* The ids that are in a group are those that are unified with something.
Grouped(A, n) == \A v \in 0 .. n - 1 : A.group[v] # NoGroup <=> v \in UNION A.edges

\* Noted changes the last level only.
Notes(noted, levels, field, ids) ==
  /\ Len(noted) = Len(levels)
  /\ \A i \in 1 .. Len(levels) - 1 : noted[i] = levels[i]
  /\ Len(levels) > 0 =>
       noted[Len(levels)] = [levels[Len(levels)] EXCEPT ![field] = @ \cup ids]

LEMMA NotedFacts ==
  ASSUME NEW n \in Nat, NEW levels \in Seq(Level(n)), NEW ids \in SUBSET (0 .. n - 1),
         NEW field \in {"constants", "groups"}
  PROVE  /\ Noted(levels, field, ids) \in Seq(Level(n))
         /\ Notes(Noted(levels, field, ids), levels, field, ids)
<1>1. CASE levels = << >>
  BY <1>1 DEF Noted, Notes
<1>2. CASE levels # << >>
  <2>1. Len(levels) \in 1 .. Len(levels) /\ Len(levels) \in Nat /\ levels[Len(levels)] \in Level(n)
    BY <1>2
  <2>2. [levels[Len(levels)] EXCEPT ![field] = @ \cup ids] \in Level(n)
    <3>1. CASE field = "constants"
      BY <2>1, <3>1 DEF Level
    <3>2. CASE field = "groups"
      BY <2>1, <3>2 DEF Level
    <3> QED
      BY <3>1, <3>2
  <2>3. Noted(levels, field, ids)
          = [levels EXCEPT ![Len(levels)] = [levels[Len(levels)] EXCEPT ![field] = @ \cup ids]]
    BY <1>2 DEF Noted
  <2> DEFINE last == [levels[Len(levels)] EXCEPT ![field] = @ \cup ids]
  <2>4. \A i \in 1 .. Len(levels) - 1 : i \in 1 .. Len(levels) /\ i # Len(levels)
    BY <2>1
  <2> HIDE DEF last
  <2>5. [levels EXCEPT ![Len(levels)] = last] \in Seq(Level(n))
    BY <2>1, <2>2 DEF last
  <2>6. /\ Len([levels EXCEPT ![Len(levels)] = last]) = Len(levels)
        /\ [levels EXCEPT ![Len(levels)] = last][Len(levels)] = last
        /\ \A i \in 1 .. Len(levels) - 1 : [levels EXCEPT ![Len(levels)] = last][i] = levels[i]
    BY <2>1, <2>4
  <2>7. Noted(levels, field, ids) = [levels EXCEPT ![Len(levels)] = last]
    BY <2>3 DEF last
  <2> QED
    BY <2>5, <2>6, <2>7 DEF last, Notes
<1> QED
  BY <1>1, <1>2

\* What has no constant, and what gets one with id.
Unbound(A, n) == { v \in 0 .. n - 1 : A.constant[v] = NotAssigned }
Bound(A, n, id) == Spread(A.edges, id, Unbound(A, n))

\* B has c for everything bound with id.
Assigns(A, B, n, id, c) ==
  /\ B.group = A.group /\ B.nextGroup = A.nextGroup /\ B.edges = A.edges
  /\ B.constant = [v \in 0 .. n - 1 |-> IF v \in Bound(A, n, id) THEN c ELSE A.constant[v]]
  /\ B.levels = Noted(A.levels, "constants", Bound(A, n, id) \cap Unbound(A, n))
  /\ id \in Bound(A, n, id) /\ Bound(A, n, id) \subseteq {id} \cup Unbound(A, n)

LEMMA AssignFacts ==
  ASSUME NEW n \in Nat, NEW offset \in Nat, NEW A \in Assignments(offset, n),
         NEW id \in 0 .. n - 1, NEW c \in Int,
         NEW B, B = AssignConstantsNext(A, id, c)
  PROVE  B \in Assignments(offset, n) /\ Assigns(A, B, n, id, c)
<1>1. Ids(A) = 0 .. n - 1
  BY DEF Ids, Assignments
<1>2. B = [A EXCEPT !.constant = [v \in 0 .. n - 1 |-> IF v \in Bound(A, n, id) THEN c ELSE A.constant[v]],
                    !.levels = Noted(A.levels, "constants", Bound(A, n, id) \cap Unbound(A, n))]
  BY <1>1 DEF AssignConstantsNext, Bound, Unbound, Assignments
<1>3. id \in Bound(A, n, id) /\ Bound(A, n, id) \subseteq {id} \cup Unbound(A, n)
  <2>1. IsFiniteSet(Unbound(A, n))
    <3>1. IsFiniteSet(0 .. n - 1)
      BY FS_Interval
    <3>2. Unbound(A, n) \subseteq 0 .. n - 1
      BY DEF Unbound
    <3> QED
      BY <3>1, <3>2, FS_Subset
  <2> QED
    BY <2>1, SpreadFacts DEF Bound
<1>4. Noted(A.levels, "constants", Bound(A, n, id) \cap Unbound(A, n)) \in Seq(Level(n))
  <2>1. A.levels \in Seq(Level(n)) /\ Bound(A, n, id) \cap Unbound(A, n) \in SUBSET (0 .. n - 1)
    BY DEF Assignments, Unbound
  <2> QED
    BY <2>1, NotedFacts
<1>5. B \in Assignments(offset, n)
  <2>1. [v \in 0 .. n - 1 |-> IF v \in Bound(A, n, id) THEN c ELSE A.constant[v]] \in [0 .. n - 1 -> Int]
    BY DEF Assignments
  <2> QED
    BY <1>2, <1>4, <2>1 DEF Assignments
<1> QED
  BY <1>2, <1>3, <1>5 DEF Assignments, Assigns

\* Unifying turns A into B: the constants of K and the groups of G are new, and the
\* current level, if there is one, notes them.
Binds(A, B, n, K, G) ==
  /\ K \subseteq Unbound(A, n)
  /\ \A v \in 0 .. n - 1 : v \notin K => B.constant[v] = A.constant[v]
  /\ G \cap UNION A.edges = {}
  /\ UNION B.edges = (UNION A.edges) \cup G
  /\ Len(A.levels) > 0 =>
       LET level == A.levels[Len(A.levels)]
       IN  B.levels[Len(A.levels)]
             = [level EXCEPT !.constants = @ \cup K, !.groups = @ \cup G]

\* The ids that are unified wait for a group id.
Waits(A, B, n) ==
  /\ \A v \in 0 .. n - 1 : B.group[v] \in {A.group[v], Assigned}
  /\ \A e \in B.edges \ A.edges : \A v \in e : B.group[v] = Assigned

Leads(A, B, n) ==
  /\ B.nextGroup = A.nextGroup
  /\ A.edges \subseteq B.edges
  /\ Len(B.levels) = Len(A.levels)
  /\ \A i \in 1 .. Len(A.levels) - 1 : B.levels[i] = A.levels[i]
  /\ Grouped(B, n)
  /\ Waits(A, B, n)
  /\ \E K, G \in SUBSET (0 .. n - 1) : Binds(A, B, n, K, G)

LEMMA LeadsNowhere ==
  ASSUME NEW n \in Nat, NEW offset \in Nat, NEW A \in Assignments(offset, n), Grouped(A, n)
  PROVE  Leads(A, A, n)
<1>1. Len(A.levels) \in Nat /\ \A i \in 1 .. Len(A.levels) : A.levels[i] \in Level(n)
  BY DEF Assignments
<1>2. Binds(A, A, n, {}, {})
  <2>1. \A level \in Level(n) :
          level = [level EXCEPT !.constants = @ \cup {}, !.groups = @ \cup {}]
    BY DEF Level
  <2>2. Len(A.levels) > 0 => A.levels[Len(A.levels)] \in Level(n)
    BY <1>1
  <2> QED
    BY <2>1, <2>2 DEF Binds
<1>3. {} \in SUBSET (0 .. n - 1)
  OBVIOUS
<1>4. \E K, G \in SUBSET (0 .. n - 1) : Binds(A, A, n, K, G)
  BY <1>2, <1>3
<1> QED
  BY <1>4 DEF Leads, Waits

LEMMA LeadsOn ==
  ASSUME NEW n \in Nat, NEW offset \in Nat, NEW A \in Assignments(offset, n),
         NEW B \in Assignments(offset, n), NEW C \in Assignments(offset, n),
         Leads(A, B, n), Leads(B, C, n)
  PROVE  Leads(A, C, n)
<1>1. PICK K \in SUBSET (0 .. n - 1), G \in SUBSET (0 .. n - 1) : Binds(A, B, n, K, G)
  BY DEF Leads
<1>2. PICK L \in SUBSET (0 .. n - 1), H \in SUBSET (0 .. n - 1) : Binds(B, C, n, L, H)
  BY DEF Leads
<1>3. Len(A.levels) \in Nat /\ Len(B.levels) = Len(A.levels) /\ Len(C.levels) = Len(A.levels)
      /\ \A i \in 1 .. Len(A.levels) : A.levels[i] \in Level(n)
  BY DEF Leads, Assignments
<1>4. Binds(A, C, n, K \cup L, G \cup H)
  <2>1. K \cup L \subseteq Unbound(A, n) /\ \A v \in 0 .. n - 1 : v \notin K \cup L => C.constant[v] = A.constant[v]
    BY <1>1, <1>2 DEF Binds, Unbound
  <2>2. (G \cup H) \cap UNION A.edges = {} /\ UNION C.edges = (UNION A.edges) \cup (G \cup H)
    <3>1. UNION B.edges = (UNION A.edges) \cup G /\ UNION C.edges = (UNION B.edges) \cup H
          /\ G \cap UNION A.edges = {} /\ H \cap UNION B.edges = {}
      BY <1>1, <1>2 DEF Binds
    <3> QED
      BY <3>1
  <2>3. Len(A.levels) > 0 =>
          LET level == A.levels[Len(A.levels)]
          IN  C.levels[Len(A.levels)]
                = [level EXCEPT !.constants = @ \cup (K \cup L), !.groups = @ \cup (G \cup H)]
    <3> SUFFICES ASSUME Len(A.levels) > 0
                 PROVE  C.levels[Len(A.levels)]
                          = [A.levels[Len(A.levels)] EXCEPT !.constants = @ \cup (K \cup L),
                                                            !.groups = @ \cup (G \cup H)]
      OBVIOUS
    <3>1. PICK a0, b0, c0 :
            a0 \in Level(n) /\ a0 = A.levels[Len(A.levels)] /\ b0 = B.levels[Len(A.levels)] /\ c0 = C.levels[Len(A.levels)]
      BY <1>3
    <3>2. b0 = [a0 EXCEPT !.constants = @ \cup K, !.groups = @ \cup G]
      BY <1>1, <3>1 DEF Binds
    <3>3. c0 = [b0 EXCEPT !.constants = @ \cup L, !.groups = @ \cup H]
      BY <1>2, <1>3, <3>1 DEF Binds
    <3>4. c0 = [a0 EXCEPT !.constants = @ \cup (K \cup L), !.groups = @ \cup (G \cup H)]
      BY <3>2, <3>3 DEF Level
    <3> QED
      BY <3>1, <3>4
  <2> QED
    BY <2>1, <2>2, <2>3 DEF Binds
<1>5. \E M, I \in SUBSET (0 .. n - 1) : Binds(A, C, n, M, I)
  <2>1. K \cup L \in SUBSET (0 .. n - 1) /\ G \cup H \in SUBSET (0 .. n - 1)
    OBVIOUS
  <2> QED
    BY <1>4, <2>1
<1>6. Waits(A, C, n)
  <2>1. \A v \in 0 .. n - 1 : C.group[v] \in {A.group[v], Assigned}
    BY DEF Leads, Waits
  <2>2. ASSUME NEW e \in C.edges, e \notin A.edges, NEW v \in e
        PROVE  C.group[v] = Assigned
    <3>1. v \in 0 .. n - 1
      BY <2>2 DEF Assignments
    <3>2. CASE e \in B.edges
      BY <2>2, <3>1, <3>2 DEF Leads, Waits
    <3>3. CASE e \notin B.edges
      BY <2>2, <3>3 DEF Leads, Waits
    <3> QED
      BY <3>2, <3>3
  <2> QED
    BY <2>1, <2>2 DEF Waits
<1>7. /\ C.nextGroup = A.nextGroup
      /\ A.edges \subseteq C.edges
      /\ \A i \in 1 .. Len(A.levels) - 1 : C.levels[i] = A.levels[i]
      /\ Grouped(C, n)
  BY <1>3 DEF Leads
<1> QED
  BY <1>3, <1>5, <1>6, <1>7 DEF Leads

\* A constant given to an id that has none, or that constant already.
LEMMA AssignLeads ==
  ASSUME NEW n \in Nat, NEW offset \in Nat, NEW A \in Assignments(offset, n), Grouped(A, n),
         NEW id \in 0 .. n - 1, NEW c \in Int, A.constant[id] \in {NotAssigned, c}
  PROVE  /\ AssignConstantsNext(A, id, c) \in Assignments(offset, n)
         /\ Leads(A, AssignConstantsNext(A, id, c), n)
<1>1. PICK B : B = AssignConstantsNext(A, id, c)
  OBVIOUS
<1>2. /\ B \in Assignments(offset, n)
      /\ B.group = A.group /\ B.nextGroup = A.nextGroup /\ B.edges = A.edges
      /\ B.constant = [v \in 0 .. n - 1 |-> IF v \in Bound(A, n, id) THEN c ELSE A.constant[v]]
      /\ B.levels = Noted(A.levels, "constants", Bound(A, n, id) \cap Unbound(A, n))
      /\ id \in Bound(A, n, id) /\ Bound(A, n, id) \subseteq {id} \cup Unbound(A, n)
  <2>1. B \in Assignments(offset, n) /\ Assigns(A, B, n, id, c)
    BY <1>1, AssignFacts
  <2> QED
    BY <2>1 DEF Assigns
<1>3. PICK K \in SUBSET (0 .. n - 1) : K = Bound(A, n, id) \cap Unbound(A, n)
  <2>1. Bound(A, n, id) \cap Unbound(A, n) \in SUBSET (0 .. n - 1)
    BY DEF Unbound
  <2> QED
    BY <2>1
<1>4. A.levels \in Seq(Level(n)) /\ Len(A.levels) \in Nat
      /\ \A i \in 1 .. Len(A.levels) : A.levels[i] \in Level(n)
  BY DEF Assignments
<1>5. /\ Len(B.levels) = Len(A.levels)
      /\ \A i \in 1 .. Len(A.levels) - 1 : B.levels[i] = A.levels[i]
      /\ Len(A.levels) > 0 =>
           B.levels[Len(A.levels)] = [A.levels[Len(A.levels)] EXCEPT !["constants"] = @ \cup K]
  <2>1. Notes(Noted(A.levels, "constants", K), A.levels, "constants", K)
    BY <1>4, NotedFacts
  <2> QED
    BY <1>2, <1>3, <2>1 DEF Notes
<1>6. Binds(A, B, n, K, {})
  <2>1. ASSUME NEW v \in 0 .. n - 1, v \notin K
        PROVE  B.constant[v] = A.constant[v]
    <3>1. CASE v \in Bound(A, n, id)
      <4>1. v = id /\ v \notin Unbound(A, n) /\ B.constant[v] = c
        BY <1>2, <1>3, <2>1, <3>1
      <4> QED
        BY <4>1 DEF Unbound
    <3>2. CASE v \notin Bound(A, n, id)
      BY <1>2, <3>2
    <3> QED
      BY <3>1, <3>2
  <2>2. Len(A.levels) > 0 =>
          B.levels[Len(A.levels)]
            = [A.levels[Len(A.levels)] EXCEPT !.constants = @ \cup K, !.groups = @ \cup {}]
    <3>1. \A level \in Level(n) : [level EXCEPT !["constants"] = @ \cup K]
                                    = [level EXCEPT !.constants = @ \cup K, !.groups = @ \cup {}]
      BY DEF Level
    <3> QED
      BY <1>4, <1>5, <3>1
  <2>3. {} \cap UNION A.edges = {} /\ UNION B.edges = (UNION A.edges) \cup {} /\ K \subseteq Unbound(A, n)
    BY <1>2, <1>3
  <2> QED
    BY <2>1, <2>2, <2>3 DEF Binds
<1>7. \E L, G \in SUBSET (0 .. n - 1) : Binds(A, B, n, L, G)
  <2>1. {} \in SUBSET (0 .. n - 1)
    OBVIOUS
  <2> QED
    BY <1>6, <2>1
<1>8. Grouped(B, n) /\ Waits(A, B, n)
  BY <1>2 DEF Grouped, Waits
<1>9. Leads(A, B, n)
  BY <1>2, <1>5, <1>7, <1>8 DEF Leads
<1> QED
  BY <1>1, <1>2, <1>9

\* Connect, without the constants that follow.
Joined(A, v, w) ==
  [A EXCEPT !.edges = @ \cup {{v, w}},
            !.group = [@ EXCEPT ![v] = Assigned, ![w] = Assigned],
            !.levels = Noted(@, "groups", {u \in {v, w} : A.group[u] = NoGroup})]

LEMMA JoinedLeads ==
  ASSUME NEW n \in Nat, NEW offset \in Nat, NEW A \in Assignments(offset, n), Grouped(A, n),
         NEW v \in 0 .. n - 1, NEW w \in 0 .. n - 1
  PROVE  /\ Joined(A, v, w) \in Assignments(offset, n)
         /\ Joined(A, v, w).constant = A.constant
         /\ Joined(A, v, w).edges = A.edges \cup {{v, w}}
         /\ Leads(A, Joined(A, v, w), n)
<1>1. PICK B : B = Joined(A, v, w)
  OBVIOUS
<1>2. PICK G \in SUBSET (0 .. n - 1) : G = {u \in {v, w} : A.group[u] = NoGroup}
  <2>1. {u \in {v, w} : A.group[u] = NoGroup} \in SUBSET (0 .. n - 1)
    OBVIOUS
  <2> QED
    BY <2>1
<1>3. A.levels \in Seq(Level(n)) /\ Len(A.levels) \in Nat
      /\ \A i \in 1 .. Len(A.levels) : A.levels[i] \in Level(n)
  BY DEF Assignments
<1>4. PICK noted \in Seq(Level(n)) : noted = Noted(A.levels, "groups", G)
  BY <1>3, NotedFacts
<1>5. /\ Len(noted) = Len(A.levels)
      /\ \A i \in 1 .. Len(A.levels) - 1 : noted[i] = A.levels[i]
      /\ Len(A.levels) > 0 =>
           noted[Len(A.levels)] = [A.levels[Len(A.levels)] EXCEPT !["groups"] = @ \cup G]
  <2>1. Notes(noted, A.levels, "groups", G)
    BY <1>3, <1>4, NotedFacts
  <2> QED
    BY <2>1 DEF Notes
<1>6. B = [A EXCEPT !.edges = @ \cup {{v, w}}, !.levels = noted,
                    !.group = [@ EXCEPT ![v] = Assigned, ![w] = Assigned]]
  BY <1>1, <1>2, <1>4 DEF Joined, Assignments
<1>7. {v, w} \in SUBSET (0 .. n - 1)
  OBVIOUS
<1>8. [A.group EXCEPT ![v] = Assigned, ![w] = Assigned] \in [0 .. n - 1 -> {NoGroup, Assigned} \cup Nat]
  BY DEF Assignments
<1>9. B \in Assignments(offset, n)
  BY <1>6, <1>7, <1>8 DEF Assignments
<1>10. /\ B.constant = A.constant /\ B.edges = A.edges \cup {{v, w}} /\ B.nextGroup = A.nextGroup
       /\ B.levels = noted
       /\ \A u \in 0 .. n - 1 : B.group[u] = IF u \in {v, w} THEN Assigned ELSE A.group[u]
  BY <1>6 DEF Assignments
<1>11. UNION B.edges = (UNION A.edges) \cup {v, w}
  BY <1>10
<1>12. \A u \in {v, w} : u \in G <=> u \notin UNION A.edges
  BY <1>2 DEF Grouped
<1>13. Binds(A, B, n, {}, G)
  <2>1. G \cap UNION A.edges = {} /\ UNION B.edges = (UNION A.edges) \cup G
    BY <1>2, <1>11, <1>12
  <2>2. Len(A.levels) > 0 =>
          B.levels[Len(A.levels)]
            = [A.levels[Len(A.levels)] EXCEPT !.constants = @ \cup {}, !.groups = @ \cup G]
    <3>1. \A level \in Level(n) : [level EXCEPT !["groups"] = @ \cup G]
                                    = [level EXCEPT !.constants = @ \cup {}, !.groups = @ \cup G]
      BY DEF Level
    <3>2. Len(A.levels) > 0 => A.levels[Len(A.levels)] \in Level(n)
      BY <1>3
    <3> QED
      BY <1>5, <1>10, <3>1, <3>2
  <2> QED
    BY <1>10, <2>1, <2>2 DEF Binds
<1>14. \E K, H \in SUBSET (0 .. n - 1) : Binds(A, B, n, K, H)
  <2>1. {} \in SUBSET (0 .. n - 1)
    OBVIOUS
  <2> QED
    BY <1>13, <2>1
<1>15. Grouped(B, n)
  <2> SUFFICES ASSUME NEW u \in 0 .. n - 1
               PROVE  B.group[u] # NoGroup <=> u \in UNION B.edges
    BY DEF Grouped
  <2>1. A.group[u] # NoGroup <=> u \in UNION A.edges
    BY DEF Grouped
  <2>2. B.group[u] = IF u \in {v, w} THEN Assigned ELSE A.group[u]
    BY <1>10
  <2>3. Assigned # NoGroup
    BY DEF Assigned, NoGroup
  <2>4. u \in UNION B.edges <=> u \in UNION A.edges \/ u \in {v, w}
    BY <1>11
  <2> QED
    BY <2>1, <2>2, <2>3, <2>4
<1>16. Waits(A, B, n)
  BY <1>10 DEF Waits
<1>17. Leads(A, B, n)
  BY <1>5, <1>10, <1>14, <1>15, <1>16 DEF Leads
<1> QED
  BY <1>1, <1>9, <1>10, <1>17

-----------------------------------------------------------------------------
(* Unifying two atoms                                                      *)

\* What decides how unification goes on: constants and unifications, not groups.
Same(A, B) == A.constant = B.constant /\ A.edges = B.edges

LEMMA AssignSame ==
  ASSUME NEW n \in Nat, NEW offset \in Nat, NEW A \in Assignments(offset, n),
         NEW B \in Assignments(offset, n), Same(A, B), NEW id \in 0 .. n - 1, NEW c \in Int
  PROVE  Same(AssignConstantsNext(A, id, c), AssignConstantsNext(B, id, c))
<1>1. PICK A1, B1 : A1 = AssignConstantsNext(A, id, c) /\ B1 = AssignConstantsNext(B, id, c)
  OBVIOUS
<1>2. Assigns(A, A1, n, id, c) /\ Assigns(B, B1, n, id, c)
  BY <1>1, AssignFacts
<1>3. Unbound(A, n) = Unbound(B, n)
  BY DEF Unbound, Same
<1>4. Bound(A, n, id) = Bound(B, n, id)
  BY <1>3 DEF Bound, Same
<1>5. A1.constant = B1.constant
  BY <1>2, <1>4 DEF Assigns, Same
<1>6. A1.edges = B1.edges
  BY <1>2 DEF Assigns, Same
<1> QED
  BY <1>1, <1>5, <1>6 DEF Same

\* The constants of two ids do not differ.
Compatible(A, v, w) ==
  NotAssigned \in {A.constant[v], A.constant[w]} \/ A.constant[v] = A.constant[w]

LEMMA ConnectIsJoined ==
  ASSUME NEW A, NEW v, NEW w
  PROVE  Connect(A, v, w)
           = IF A.constant[v] # NotAssigned
             THEN AssignConstantsNext(Joined(A, v, w), w, A.constant[v])
             ELSE IF A.constant[w] # NotAssigned
                  THEN AssignConstantsNext(Joined(A, v, w), v, A.constant[w])
                  ELSE Joined(A, v, w)
BY DEF Connect, Joined

LEMMA ConnectLeads ==
  ASSUME NEW n \in Nat, NEW offset \in Nat, NEW A \in Assignments(offset, n), Grouped(A, n),
         NEW v \in 0 .. n - 1, NEW w \in 0 .. n - 1, Compatible(A, v, w)
  PROVE  Connect(A, v, w) \in Assignments(offset, n) /\ Leads(A, Connect(A, v, w), n)
<1>1. PICK J : J = Joined(A, v, w)
  OBVIOUS
<1>2. J \in Assignments(offset, n) /\ J.constant = A.constant /\ Leads(A, J, n)
  BY <1>1, JoinedLeads
<1>3. Grouped(J, n) /\ A.constant[v] \in Int /\ A.constant[w] \in Int
  BY <1>2 DEF Leads, Assignments
<1>4. CASE A.constant[v] # NotAssigned
  <2>1. Connect(A, v, w) = AssignConstantsNext(J, w, A.constant[v])
    BY <1>1, <1>4, ConnectIsJoined
  <2>2. J.constant[w] \in {NotAssigned, A.constant[v]}
    BY <1>2, <1>4 DEF Compatible
  <2>3. /\ AssignConstantsNext(J, w, A.constant[v]) \in Assignments(offset, n)
        /\ Leads(J, AssignConstantsNext(J, w, A.constant[v]), n)
    BY <1>2, <1>3, <2>2, AssignLeads
  <2> QED
    BY <1>2, <2>1, <2>3, LeadsOn
<1>5. CASE A.constant[v] = NotAssigned /\ A.constant[w] # NotAssigned
  <2>1. Connect(A, v, w) = AssignConstantsNext(J, v, A.constant[w])
    BY <1>1, <1>5, ConnectIsJoined
  <2>2. J.constant[v] \in {NotAssigned, A.constant[w]}
    BY <1>2, <1>5
  <2>3. /\ AssignConstantsNext(J, v, A.constant[w]) \in Assignments(offset, n)
        /\ Leads(J, AssignConstantsNext(J, v, A.constant[w]), n)
    BY <1>2, <1>3, <2>2, AssignLeads
  <2> QED
    BY <1>2, <2>1, <2>3, LeadsOn
<1>6. CASE A.constant[v] = NotAssigned /\ A.constant[w] = NotAssigned
  BY <1>1, <1>2, <1>6, ConnectIsJoined
<1> QED
  BY <1>4, <1>5, <1>6

LEMMA ConnectSame ==
  ASSUME NEW n \in Nat, NEW offset \in Nat, NEW A \in Assignments(offset, n),
         NEW B \in Assignments(offset, n), Same(A, B), Grouped(A, n), Grouped(B, n),
         NEW v \in 0 .. n - 1, NEW w \in 0 .. n - 1
  PROVE  Same(Connect(A, v, w), Connect(B, v, w))
<1>1. PICK I, J : I = Joined(A, v, w) /\ J = Joined(B, v, w)
  OBVIOUS
<1>2. /\ I \in Assignments(offset, n) /\ I.constant = A.constant /\ I.edges = A.edges \cup {{v, w}}
      /\ J \in Assignments(offset, n) /\ J.constant = B.constant /\ J.edges = B.edges \cup {{v, w}}
  BY <1>1, JoinedLeads
<1>3. Same(I, J) /\ A.constant = B.constant
  BY <1>2 DEF Same
<1>4. A.constant[v] \in Int /\ A.constant[w] \in Int
  BY DEF Assignments
<1>5. /\ Same(AssignConstantsNext(I, w, A.constant[v]), AssignConstantsNext(J, w, A.constant[v]))
      /\ Same(AssignConstantsNext(I, v, A.constant[w]), AssignConstantsNext(J, v, A.constant[w]))
  BY <1>2, <1>3, <1>4, AssignSame
<1>6. /\ Connect(A, v, w) = IF A.constant[v] # NotAssigned
                            THEN AssignConstantsNext(I, w, A.constant[v])
                            ELSE IF A.constant[w] # NotAssigned
                                 THEN AssignConstantsNext(I, v, A.constant[w]) ELSE I
      /\ Connect(B, v, w) = IF A.constant[v] # NotAssigned
                            THEN AssignConstantsNext(J, w, A.constant[v])
                            ELSE IF A.constant[w] # NotAssigned
                                 THEN AssignConstantsNext(J, v, A.constant[w]) ELSE J
  BY <1>1, <1>3, ConnectIsJoined
<1> QED
  BY <1>3, <1>5, <1>6

\* x is what A says of a term.
Describes(A, n, x) ==
  /\ x.constant \in Int
  /\ x.type = "constant" => x.constant # NotAssigned
  /\ x.type # "constant" => /\ TrueId(A, x.term, x.rel) \in 0 .. n - 1
                            /\ x.constant = A.constant[TrueId(A, x.term, x.rel)]

SameInfo(x, y) == x.type = y.type /\ x.constant = y.constant /\ x.term = y.term /\ x.rel = y.rel

Outcomes(offset, n) == [ok : BOOLEAN, a : Assignments(offset, n)]

LEMMA UnifyTermsLeads ==
  ASSUME NEW n \in Nat, NEW offset \in Nat, NEW A \in Assignments(offset, n), Grouped(A, n),
         NEW x, NEW y, Describes(A, n, x), Describes(A, n, y)
  PROVE  UnifyTerms(x, y, A) \in Outcomes(offset, n) /\ Leads(A, UnifyTerms(x, y, A).a, n)
<1>1. CASE NotAssigned \notin {x.constant, y.constant} /\ x.constant # y.constant
  <2>1. UnifyTerms(x, y, A) = [ok |-> FALSE, a |-> A]
    BY <1>1 DEF UnifyTerms
  <2> QED
    BY <2>1, LeadsNowhere DEF Outcomes
<1>2. CASE ~(NotAssigned \notin {x.constant, y.constant} /\ x.constant # y.constant)
  <2>1. CASE x.type = "constant" /\ y.type = "constant"
    <3>1. UnifyTerms(x, y, A) = [ok |-> TRUE, a |-> A]
      BY <1>2, <2>1 DEF UnifyTerms
    <3> QED
      BY <3>1, LeadsNowhere DEF Outcomes
  <2>2. CASE x.type # "constant" /\ y.type = "constant"
    <3>1. UnifyTerms(x, y, A)
            = [ok |-> TRUE, a |-> AssignConstantsNext(A, TrueId(A, x.term, x.rel), y.constant)]
      BY <1>2, <2>2 DEF UnifyTerms
    <3>2. A.constant[TrueId(A, x.term, x.rel)] \in {NotAssigned, y.constant}
      BY <1>2, <2>2 DEF Describes
    <3>3. y.constant \in Int /\ TrueId(A, x.term, x.rel) \in 0 .. n - 1
      BY <2>2 DEF Describes
    <3>4. PICK B : B = AssignConstantsNext(A, TrueId(A, x.term, x.rel), y.constant)
      OBVIOUS
    <3>5. B \in Assignments(offset, n) /\ Leads(A, B, n)
      BY <3>2, <3>3, <3>4, AssignLeads
    <3> QED
      BY <3>1, <3>4, <3>5 DEF Outcomes
  <2>3. CASE x.type = "constant" /\ y.type # "constant"
    <3>1. UnifyTerms(x, y, A)
            = [ok |-> TRUE, a |-> AssignConstantsNext(A, TrueId(A, y.term, y.rel), x.constant)]
      BY <1>2, <2>3 DEF UnifyTerms
    <3>2. A.constant[TrueId(A, y.term, y.rel)] \in {NotAssigned, x.constant}
      BY <1>2, <2>3 DEF Describes
    <3>3. x.constant \in Int /\ TrueId(A, y.term, y.rel) \in 0 .. n - 1
      BY <2>3 DEF Describes
    <3>4. PICK B : B = AssignConstantsNext(A, TrueId(A, y.term, y.rel), x.constant)
      OBVIOUS
    <3>5. B \in Assignments(offset, n) /\ Leads(A, B, n)
      BY <3>2, <3>3, <3>4, AssignLeads
    <3> QED
      BY <3>1, <3>4, <3>5 DEF Outcomes
  <2>4. CASE x.type # "constant" /\ y.type # "constant"
    <3>1. PICK v, w : v = TrueId(A, x.term, x.rel) /\ w = TrueId(A, y.term, y.rel)
      OBVIOUS
    <3>2. UnifyTerms(x, y, A) = [ok |-> TRUE, a |-> Connect(A, v, w)]
      BY <1>2, <2>4, <3>1 DEF UnifyTerms
    <3>3. v \in 0 .. n - 1 /\ w \in 0 .. n - 1 /\ Compatible(A, v, w)
      BY <1>2, <2>4, <3>1 DEF Describes, Compatible
    <3>4. PICK B : B = Connect(A, v, w)
      OBVIOUS
    <3>5. B \in Assignments(offset, n) /\ Leads(A, B, n)
      BY <3>3, <3>4, ConnectLeads
    <3> QED
      BY <3>2, <3>4, <3>5 DEF Outcomes
  <2> QED
    BY <2>1, <2>2, <2>3, <2>4
<1> QED
  BY <1>1, <1>2

LEMMA UnifyTermsSame ==
  ASSUME NEW n \in Nat, NEW offset \in Nat, NEW A \in Assignments(offset, n),
         NEW B \in Assignments(offset, n), Same(A, B), Grouped(A, n), Grouped(B, n),
         NEW x, NEW y, NEW p, NEW q, SameInfo(x, p), SameInfo(y, q),
         Describes(A, n, x), Describes(A, n, y)
  PROVE  /\ UnifyTerms(x, y, A).ok = UnifyTerms(p, q, B).ok
         /\ Same(UnifyTerms(x, y, A).a, UnifyTerms(p, q, B).a)
<1>1. PICK v, w : v = TrueId(A, x.term, x.rel) /\ w = TrueId(A, y.term, y.rel)
  OBVIOUS
<1>2. v = TrueId(B, p.term, p.rel) /\ w = TrueId(B, q.term, q.rel)
  BY <1>1 DEF TrueId, SameInfo, Assignments
<1>3. UnifyTerms(x, y, A)
        = IF NotAssigned \notin {x.constant, y.constant} /\ x.constant # y.constant
          THEN [ok |-> FALSE, a |-> A]
          ELSE IF x.type = "constant"
               THEN IF y.type = "constant" THEN [ok |-> TRUE, a |-> A]
                    ELSE [ok |-> TRUE, a |-> AssignConstantsNext(A, w, x.constant)]
               ELSE IF y.type = "constant"
                    THEN [ok |-> TRUE, a |-> AssignConstantsNext(A, v, y.constant)]
                    ELSE [ok |-> TRUE, a |-> Connect(A, v, w)]
  BY <1>1 DEF UnifyTerms
<1>4. UnifyTerms(p, q, B)
        = IF NotAssigned \notin {x.constant, y.constant} /\ x.constant # y.constant
          THEN [ok |-> FALSE, a |-> B]
          ELSE IF x.type = "constant"
               THEN IF y.type = "constant" THEN [ok |-> TRUE, a |-> B]
                    ELSE [ok |-> TRUE, a |-> AssignConstantsNext(B, w, x.constant)]
               ELSE IF y.type = "constant"
                    THEN [ok |-> TRUE, a |-> AssignConstantsNext(B, v, y.constant)]
                    ELSE [ok |-> TRUE, a |-> Connect(B, v, w)]
  BY <1>2 DEF UnifyTerms, SameInfo
<1>5. x.constant \in Int /\ y.constant \in Int
      /\ (x.type # "constant" => v \in 0 .. n - 1) /\ (y.type # "constant" => w \in 0 .. n - 1)
  BY <1>1 DEF Describes
<1>6. /\ y.type # "constant" =>
           Same(AssignConstantsNext(A, w, x.constant), AssignConstantsNext(B, w, x.constant))
      /\ x.type # "constant" =>
           Same(AssignConstantsNext(A, v, y.constant), AssignConstantsNext(B, v, y.constant))
      /\ x.type # "constant" /\ y.type # "constant" => Same(Connect(A, v, w), Connect(B, v, w))
  BY <1>5, AssignSame, ConnectSame
<1> QED
  BY <1>3, <1>4, <1>6

\* A term of a rule that has ids.
Fits(t, rel, kindOf, offset, n) ==
  /\ t \in Int /\ t # NotAssigned
  /\ ~IsConstant(t) =>
       (IF t < 0 THEN -t ELSE t) + (IF kindOf = "self" \/ rel = "From" THEN 0 ELSE offset)
         \in 0 .. n - 1

LEMMA InfoFacts ==
  ASSUME NEW n \in Nat, NEW offset \in Nat, NEW A \in Assignments(offset, n),
         NEW kindOf, NEW rel \in {"From", "To"}, NEW t, Fits(t, rel, kindOf, offset, n)
  PROVE  Describes(A, n, InfoUnify(t, rel, kindOf, A))
<1>1. CASE IsConstant(t) \/ (t < 0 /\ rel = "From")
  <2>1. InfoUnify(t, rel, kindOf, A).type = "constant" /\ InfoUnify(t, rel, kindOf, A).constant = t
    BY <1>1 DEF InfoUnify
  <2> QED
    BY <2>1 DEF Describes, Fits
<1>2. CASE ~(IsConstant(t) \/ (t < 0 /\ rel = "From"))
  <2> DEFINE place == IF kindOf = "self" THEN "From" ELSE rel
             x == InfoUnify(t, rel, kindOf, A)
  <2>1. x.type # "constant" /\ x.term = t /\ x.rel = place /\ x.constant = A.constant[TrueId(A, t, place)]
    BY <1>2 DEF InfoUnify, ConstantOf
  <2>2. TrueId(A, t, place) \in 0 .. n - 1
    BY <1>2 DEF TrueId, Fits, Assignments
  <2>3. A.constant[TrueId(A, t, place)] \in Int
    BY <2>2 DEF Assignments
  <2> HIDE DEF x
  <2> QED
    BY <2>1, <2>2, <2>3 DEF Describes, x
<1> QED
  BY <1>1, <1>2

LEMMA InfoSame ==
  ASSUME NEW n \in Nat, NEW offset \in Nat, NEW A \in Assignments(offset, n),
         NEW B \in Assignments(offset, n), Same(A, B), NEW kindOf, NEW rel, NEW t
  PROVE  SameInfo(InfoUnify(t, rel, kindOf, A), InfoUnify(t, rel, kindOf, B))
<1>1. \A place : ConstantOf(A, t, place) = ConstantOf(B, t, place)
  BY DEF ConstantOf, TrueId, Same, Assignments
<1> QED
  BY <1>1 DEF InfoUnify, SameInfo

\* A step of ExtendAssignment.
UnifyNext(kindOf, s, t, sofar, early) ==
  LET x == InfoUnify(s, "From", kindOf, sofar.a)
      y == InfoUnify(t, "To", kindOf, sofar.a)
      both == UnifyTerms(x, y, sofar.a)
  IN  CASE ~sofar.ok -> sofar
        [] sofar.ok /\ early /\ BindsNull(kindOf, x, y) -> [ok |-> FALSE, a |-> sofar.a]
        [] sofar.ok /\ ~(early /\ BindsNull(kindOf, x, y)) ->
             IF both.ok /\ kindOf = "restraint" /\ y.type = "existential"
             THEN [both EXCEPT !.a.mappedExistential = TRUE] ELSE both

Kinds == {"positive", "restraint", "self"}

\* Whether a step goes on, and with what.
GoesOn(kindOf, x, y, early) == ~(early /\ BindsNull(kindOf, x, y))
MapsExistential(kindOf, y, both) == both.ok /\ kindOf = "restraint" /\ y.type = "existential"

LEMMA UnifyNextCases ==
  ASSUME NEW kindOf, NEW s, NEW t, NEW early, NEW sofar, NEW x, NEW y, NEW both,
         x = InfoUnify(s, "From", kindOf, sofar.a), y = InfoUnify(t, "To", kindOf, sofar.a),
         both = UnifyTerms(x, y, sofar.a)
  PROVE  UnifyNext(kindOf, s, t, sofar, early)
           = IF ~sofar.ok THEN sofar
             ELSE IF ~GoesOn(kindOf, x, y, early) THEN [ok |-> FALSE, a |-> sofar.a]
             ELSE IF MapsExistential(kindOf, y, both)
                  THEN [both EXCEPT !.a.mappedExistential = TRUE] ELSE both
BY DEF UnifyNext, GoesOn, MapsExistential

LEMMA UnifyNextLeads ==
  ASSUME NEW n \in Nat, NEW offset \in Nat, NEW kindOf \in Kinds, NEW s, NEW t, NEW early \in BOOLEAN,
         Fits(s, "From", kindOf, offset, n), Fits(t, "To", kindOf, offset, n),
         NEW sofar \in Outcomes(offset, n), Grouped(sofar.a, n)
  PROVE  /\ UnifyNext(kindOf, s, t, sofar, early) \in Outcomes(offset, n)
         /\ Leads(sofar.a, UnifyNext(kindOf, s, t, sofar, early).a, n)
<1>1. PICK x, y, both : /\ x = InfoUnify(s, "From", kindOf, sofar.a)
                        /\ y = InfoUnify(t, "To", kindOf, sofar.a)
                        /\ both = UnifyTerms(x, y, sofar.a)
  OBVIOUS
<1>2. PICK A \in Assignments(offset, n) : A = sofar.a
  BY DEF Outcomes
<1>3. both \in Outcomes(offset, n) /\ Leads(A, both.a, n)
  BY <1>1, <1>2, InfoFacts, UnifyTermsLeads
<1>4. Leads(A, A, n)
  BY <1>2, LeadsNowhere
<1>5. PICK next : next = UnifyNext(kindOf, s, t, sofar, early)
  OBVIOUS
<1>6. next = IF ~sofar.ok THEN sofar
             ELSE IF ~GoesOn(kindOf, x, y, early) THEN [ok |-> FALSE, a |-> sofar.a]
             ELSE IF MapsExistential(kindOf, y, both)
                  THEN [both EXCEPT !.a.mappedExistential = TRUE] ELSE both
  BY <1>1, <1>5, UnifyNextCases
<1>7. CASE ~sofar.ok
  BY <1>2, <1>4, <1>5, <1>6, <1>7
<1>8. CASE sofar.ok /\ ~GoesOn(kindOf, x, y, early)
  <2>1. next = [ok |-> FALSE, a |-> A]
    BY <1>2, <1>6, <1>8
  <2> QED
    BY <1>4, <1>2, <1>5, <2>1 DEF Outcomes
<1>9. CASE sofar.ok /\ GoesOn(kindOf, x, y, early) /\ ~MapsExistential(kindOf, y, both)
  BY <1>2, <1>3, <1>5, <1>6, <1>9
<1>10. CASE sofar.ok /\ GoesOn(kindOf, x, y, early) /\ MapsExistential(kindOf, y, both)
  <2>1. PICK B \in Assignments(offset, n) : B = both.a
    BY <1>3 DEF Outcomes
  <2>2. PICK C : C = [B EXCEPT !.mappedExistential = TRUE]
    OBVIOUS
  <2>3. /\ C \in Assignments(offset, n)
        /\ C.nextGroup = B.nextGroup /\ C.constant = B.constant /\ C.group = B.group
        /\ C.edges = B.edges /\ C.levels = B.levels
    BY <2>2 DEF Assignments
  <2>4. next = [both EXCEPT !.a = C]
    BY <1>6, <1>10, <2>1, <2>2
  <2>5. next \in Outcomes(offset, n) /\ next.a = C
    BY <1>3, <2>3, <2>4 DEF Outcomes
  <2>6. Leads(A, B, n)
    BY <1>3, <2>1
  <2>7. Leads(A, C, n)
    <3>1. PICK K \in SUBSET (0 .. n - 1), G \in SUBSET (0 .. n - 1) : Binds(A, B, n, K, G)
      BY <2>6 DEF Leads
    <3>2. Binds(A, C, n, K, G)
      BY <2>3, <3>1 DEF Binds
    <3>3. \E L, H \in SUBSET (0 .. n - 1) : Binds(A, C, n, L, H)
      BY <3>2
    <3>4. Grouped(C, n) /\ Waits(A, C, n)
      BY <2>3, <2>6 DEF Leads, Grouped, Waits
    <3> QED
      BY <2>3, <2>6, <3>3, <3>4 DEF Leads
  <2> QED
    BY <1>2, <1>5, <2>5, <2>7
<1> QED
  BY <1>7, <1>8, <1>9, <1>10

LEMMA UnifyNextSame ==
  ASSUME NEW n \in Nat, NEW offset \in Nat, NEW kindOf \in Kinds, NEW s, NEW t, NEW early \in BOOLEAN,
         Fits(s, "From", kindOf, offset, n), Fits(t, "To", kindOf, offset, n),
         NEW one \in Outcomes(offset, n), Grouped(one.a, n),
         NEW other \in Outcomes(offset, n), Grouped(other.a, n),
         one.ok = other.ok, Same(one.a, other.a)
  PROVE  /\ UnifyNext(kindOf, s, t, one, early).ok = UnifyNext(kindOf, s, t, other, early).ok
         /\ Same(UnifyNext(kindOf, s, t, one, early).a, UnifyNext(kindOf, s, t, other, early).a)
<1>1. PICK x, y, both : /\ x = InfoUnify(s, "From", kindOf, one.a)
                        /\ y = InfoUnify(t, "To", kindOf, one.a)
                        /\ both = UnifyTerms(x, y, one.a)
  OBVIOUS
<1>2. PICK p, q, too : /\ p = InfoUnify(s, "From", kindOf, other.a)
                       /\ q = InfoUnify(t, "To", kindOf, other.a)
                       /\ too = UnifyTerms(p, q, other.a)
  OBVIOUS
<1>3. PICK A \in Assignments(offset, n), B \in Assignments(offset, n) : A = one.a /\ B = other.a
  BY DEF Outcomes
<1>4. SameInfo(x, p) /\ SameInfo(y, q)
  BY <1>1, <1>2, <1>3, InfoSame
<1>5. Describes(A, n, x) /\ Describes(A, n, y) /\ Describes(B, n, p) /\ Describes(B, n, q)
  BY <1>1, <1>2, <1>3, InfoFacts
<1>6. both.ok = too.ok /\ Same(both.a, too.a)
  BY <1>1, <1>2, <1>3, <1>4, <1>5, UnifyTermsSame
<1>7. both \in Outcomes(offset, n) /\ too \in Outcomes(offset, n)
  BY <1>1, <1>2, <1>3, <1>5, UnifyTermsLeads
<1>8. /\ GoesOn(kindOf, x, y, early) <=> GoesOn(kindOf, p, q, early)
      /\ MapsExistential(kindOf, y, both) <=> MapsExistential(kindOf, q, too)
  BY <1>4, <1>6 DEF GoesOn, MapsExistential, BindsNull, SameInfo, Kinds
<1>9. PICK next, also : /\ next = UnifyNext(kindOf, s, t, one, early)
                        /\ also = UnifyNext(kindOf, s, t, other, early)
  OBVIOUS
<1>10. /\ next = IF ~one.ok THEN one
                 ELSE IF ~GoesOn(kindOf, x, y, early) THEN [ok |-> FALSE, a |-> one.a]
                 ELSE IF MapsExistential(kindOf, y, both)
                      THEN [both EXCEPT !.a.mappedExistential = TRUE] ELSE both
       /\ also = IF ~other.ok THEN other
                 ELSE IF ~GoesOn(kindOf, p, q, early) THEN [ok |-> FALSE, a |-> other.a]
                 ELSE IF MapsExistential(kindOf, q, too)
                      THEN [too EXCEPT !.a.mappedExistential = TRUE] ELSE too
  BY <1>1, <1>2, <1>9, UnifyNextCases
<1>11. \A o \in Outcomes(offset, n) :
         /\ [o EXCEPT !.a.mappedExistential = TRUE].ok = o.ok
         /\ Same([o EXCEPT !.a.mappedExistential = TRUE].a, o.a)
  BY DEF Outcomes, Assignments, Same
<1>12. /\ [both EXCEPT !.a.mappedExistential = TRUE].ok = both.ok
       /\ Same([both EXCEPT !.a.mappedExistential = TRUE].a, both.a)
       /\ [too EXCEPT !.a.mappedExistential = TRUE].ok = too.ok
       /\ Same([too EXCEPT !.a.mappedExistential = TRUE].a, too.a)
  BY <1>7, <1>11
<1>13. CASE ~one.ok
  BY <1>9, <1>10, <1>13
<1>14. CASE one.ok /\ ~GoesOn(kindOf, x, y, early)
  <2>1. other.ok /\ ~GoesOn(kindOf, p, q, early)
    BY <1>8, <1>14
  <2>2. next = [ok |-> FALSE, a |-> one.a] /\ also = [ok |-> FALSE, a |-> other.a]
    BY <1>10, <1>14, <2>1
  <2>3. next.ok = also.ok /\ next.a = one.a /\ also.a = other.a
    BY <2>2
  <2> QED
    BY <1>9, <2>3
<1>15. CASE one.ok /\ GoesOn(kindOf, x, y, early) /\ MapsExistential(kindOf, y, both)
  <2>1. /\ next = [both EXCEPT !.a.mappedExistential = TRUE]
        /\ also = [too EXCEPT !.a.mappedExistential = TRUE]
    BY <1>8, <1>10, <1>15
  <2> QED
    BY <1>6, <1>9, <1>12, <2>1 DEF Same
<1>16. CASE one.ok /\ GoesOn(kindOf, x, y, early) /\ ~MapsExistential(kindOf, y, both)
  BY <1>6, <1>8, <1>9, <1>10, <1>16
<1> QED
  BY <1>13, <1>14, <1>15, <1>16

-----------------------------------------------------------------------------
(* Giving ids to groups                                                    *)

\* A step of FinishGroupAssignments.
FinishNext(b, v) ==
  LET members == Spread(b.edges, v - 1, Ids(b))
  IN  IF b.group[v - 1] # Assigned THEN b
      ELSE [b EXCEPT !.group = [w \in Ids(b) |-> IF w \in members THEN b.nextGroup ELSE @[w]],
                     !.nextGroup = @ + 1]

LEMMA FinishNextFacts ==
  ASSUME NEW n \in Nat, NEW offset \in Nat, NEW b \in Assignments(offset, n), NEW v \in 1 .. n
  PROVE  /\ FinishNext(b, v) \in Assignments(offset, n)
         /\ b.group[v - 1] # Assigned => FinishNext(b, v) = b
         /\ b.group[v - 1] = Assigned =>
              /\ FinishNext(b, v).edges = b.edges /\ FinishNext(b, v).constant = b.constant
              /\ FinishNext(b, v).levels = b.levels
              /\ FinishNext(b, v).nextGroup = b.nextGroup + 1
              /\ \A w \in 0 .. n - 1 :
                   FinishNext(b, v).group[w]
                     = IF w \in Connected(b.edges, n, v - 1) THEN b.nextGroup ELSE b.group[w]
<1>1. Ids(b) = 0 .. n - 1 /\ b.nextGroup \in Nat /\ v - 1 \in 0 .. n - 1
  BY DEF Ids, Assignments
<1>2. PICK group : group = [w \in 0 .. n - 1 |-> IF w \in Connected(b.edges, n, v - 1)
                                                  THEN b.nextGroup ELSE b.group[w]]
  OBVIOUS
<1>3. FinishNext(b, v) = IF b.group[v - 1] # Assigned THEN b
                         ELSE [b EXCEPT !.group = group, !.nextGroup = b.nextGroup + 1]
  BY <1>1, <1>2 DEF FinishNext, Connected
<1>4. group \in [0 .. n - 1 -> {NoGroup, Assigned} \cup Nat]
  BY <1>1, <1>2 DEF Assignments
<1>5. \A w \in 0 .. n - 1 :
        group[w] = IF w \in Connected(b.edges, n, v - 1) THEN b.nextGroup ELSE b.group[w]
  BY <1>2
<1>6. CASE b.group[v - 1] # Assigned
  BY <1>3, <1>6
<1>7. CASE b.group[v - 1] = Assigned
  <2>1. PICK c : c = [b EXCEPT !.group = group, !.nextGroup = b.nextGroup + 1]
    OBVIOUS
  <2>2. c \in Assignments(offset, n) /\ c.edges = b.edges /\ c.constant = b.constant
        /\ c.levels = b.levels /\ c.nextGroup = b.nextGroup + 1 /\ c.group = group
    <3>1. PICK m \in Nat : m = b.nextGroup + 1
      BY <1>1
    <3>2. c = [b EXCEPT !.group = group, !.nextGroup = m]
      BY <2>1, <3>1
    <3> QED
      BY <1>4, <3>1, <3>2 DEF Assignments
  <2>3. FinishNext(b, v) = c
    BY <1>3, <1>7, <2>1
  <2> QED
    BY <1>5, <1>7, <2>2, <2>3
<1> QED
  BY <1>6, <1>7

IsFinish(f, A, n) ==
  /\ f[0] = A
  /\ \A v \in 1 .. n : f[v] = FinishNext(f[v - 1], v)
  /\ FinishGroupAssignments(A) = f[n]

LEMMA FinishSteps ==
  ASSUME NEW n \in Nat, NEW offset \in Nat, NEW A \in Assignments(offset, n)
  PROVE  \E f : IsFinish(f, A, n)
<1> DEFINE T == Assignments(offset, n)
           step == [p \in (1 .. n) \X T |-> FinishNext(p[2], p[1])]
           Body(f) == [v \in 0 .. n |-> IF v = 0 THEN A ELSE FinishNext(f[v - 1], v)]
<1>1. \A v \in 1 .. n, b \in T : FinishNext(b, v) \in T
  BY FinishNextFacts
<1>2. step \in [(1 .. n) \X T -> T] /\ A \in T
  BY <1>1
<1>3. \E G \in [0 .. n -> T] : Recursive(G, n, A, step)
  <2> HIDE DEF step, T
  <2> QED
    BY <1>2, RecursionExists
<1>4. PICK G \in [0 .. n -> T] : G = [v \in 0 .. n |-> IF v = 0 THEN A ELSE step[<<v, G[v - 1]>>]]
  BY <1>3 DEF Recursive
<1>5. \A v \in 0 .. n : v # 0 => v - 1 \in 0 .. n /\ v \in 1 .. n
  OBVIOUS
<1>6. \A v \in 1 .. n, b \in T : step[<<v, b>>] = FinishNext(b, v)
  <2> HIDE DEF T
  <2> QED
    OBVIOUS
<1>7. G = Body(G)
  <2> HIDE DEF step, T
  <2>1. \A v \in 0 .. n : v # 0 => step[<<v, G[v - 1]>>] = FinishNext(G[v - 1], v)
    BY <1>4, <1>5, <1>6
  <2> QED
    BY <1>4, <2>1
<1>8. Cardinality(Ids(A)) = n
  <2>1. Ids(A) = 0 .. n - 1
    BY DEF Ids, Assignments
  <2> QED
    BY <2>1, FS_Interval
<1>9. FinishGroupAssignments(A) = (CHOOSE f : f = Body(f))[n]
  BY <1>8 DEF FinishGroupAssignments, FinishNext
<1>10. PICK f : f = Body(f) /\ FinishGroupAssignments(A) = f[n]
  <2> HIDE DEF Body
  <2> QED
    BY <1>7, <1>9
<1>11. f[0] = A /\ \A v \in 1 .. n : f[v] = FinishNext(f[v - 1], v)
  <2>1. 0 \in 0 .. n /\ \A v \in 1 .. n : v \in 0 .. n /\ v # 0
    OBVIOUS
  <2> QED
    BY <1>10, <2>1
<1> QED
  BY <1>10, <1>11 DEF IsFinish

\* An id belongs to one group only.
Exact(A, n) ==
  \A v \in 0 .. n - 1 : A.group[v] \in Nat =>
    /\ A.group[v] < A.nextGroup
    /\ \A w \in 0 .. n - 1 : A.group[w] = A.group[v] => w \in Connected(A.edges, n, v)

\* The group of v has a member below m that waits for an id.
Waiting(A, n, m, v) == \E u \in Connected(A.edges, n, v) : u < m /\ A.group[u] = Assigned

\* b is A where the groups with such a member have been given ids.
Finished(A, b, n, m) ==
  /\ b.edges = A.edges /\ b.constant = A.constant /\ b.levels = A.levels
  /\ \A v \in 0 .. n - 1 :
       /\ ~Waiting(A, n, m, v) => b.group[v] = A.group[v]
       /\ Waiting(A, n, m, v) =>
            b.group[v] \in Nat /\ \A w \in Connected(A.edges, n, v) : b.group[w] = b.group[v]

LEMMA FinishNextFinished ==
  ASSUME NEW n \in Nat, NEW offset \in Nat, NEW A \in Assignments(offset, n),
         NEW b \in Assignments(offset, n), NEW m \in 1 .. n, Finished(A, b, n, m - 1)
  PROVE  Finished(A, FinishNext(b, m), n, m)
<1>1. PICK c : c = FinishNext(b, m)
  OBVIOUS
<1>2. PICK x \in 0 .. n - 1 : x = m - 1 /\ m = x + 1
  OBVIOUS
<1>3. b.edges = A.edges
  BY DEF Finished
<1>4. ASSUME NEW v \in 0 .. n - 1
      PROVE  Waiting(A, n, m, v) <=>
               Waiting(A, n, m - 1, v) \/ (x \in Connected(A.edges, n, v) /\ A.group[x] = Assigned)
  <2>1. \A u \in Connected(A.edges, n, v) : u \in 0 .. n - 1
    BY ConnectedFacts
  <2>2. \A u \in 0 .. n - 1 : u < m <=> u < m - 1 \/ u = x
    BY <1>2
  <2> QED
    BY <2>1, <2>2 DEF Waiting
<1>5. ASSUME NEW v \in 0 .. n - 1, NEW w \in Connected(A.edges, n, v)
      PROVE  w \in 0 .. n - 1 /\ Connected(A.edges, n, w) = Connected(A.edges, n, v)
             /\ v \in Connected(A.edges, n, w)
             /\ (Waiting(A, n, m - 1, w) <=> Waiting(A, n, m - 1, v))
  <2>1. w \in 0 .. n - 1 /\ Connected(A.edges, n, w) = Connected(A.edges, n, v)
    BY ConnectedIsSymmetric
  <2>2. v \in Connected(A.edges, n, v)
    BY ConnectedFacts
  <2> QED
    BY <2>1, <2>2 DEF Waiting
<1>6. b.nextGroup \in Nat /\ Assigned \notin Nat
  BY DEF Assignments, Assigned
<1>7. CASE b.group[x] # Assigned
  <2>1. c = b
    <3>1. b.group[m - 1] # Assigned
      BY <1>2, <1>7
    <3>2. FinishNext(b, m) = b
      BY <3>1 DEF FinishNext
    <3> QED
      BY <1>1, <3>2
  <2>2. A.group[x] = Assigned => Waiting(A, n, m - 1, x)
    BY <1>7 DEF Finished
  <2>3. ASSUME NEW v \in 0 .. n - 1, Waiting(A, n, m, v)
        PROVE  Waiting(A, n, m - 1, v)
    <3>1. CASE x \in Connected(A.edges, n, v) /\ A.group[x] = Assigned
      BY <1>5, <2>2, <3>1
    <3> QED
      BY <1>4, <2>3, <3>1
  <2>4. \A v \in 0 .. n - 1 : Waiting(A, n, m - 1, v) <=> Waiting(A, n, m, v)
    BY <1>4, <2>3
  <2> QED
    BY <1>1, <2>1, <2>4 DEF Finished
<1>8. CASE b.group[x] = Assigned
  <2>1. /\ c.edges = b.edges /\ c.constant = b.constant /\ c.levels = b.levels
        /\ \A w \in 0 .. n - 1 :
             c.group[w] = IF w \in Connected(A.edges, n, x) THEN b.nextGroup ELSE b.group[w]
    BY <1>1, <1>2, <1>3, <1>8, FinishNextFacts
  <2>2. ~Waiting(A, n, m - 1, x) /\ A.group[x] = Assigned
    BY <1>6, <1>8 DEF Finished
  <2>3. x \in Connected(A.edges, n, x)
    BY ConnectedFacts
  <2>4. ASSUME NEW v \in 0 .. n - 1, v \in Connected(A.edges, n, x)
        PROVE  /\ Waiting(A, n, m, v) /\ c.group[v] \in Nat
               /\ \A w \in Connected(A.edges, n, v) : c.group[w] = c.group[v]
    <3>1. Connected(A.edges, n, v) = Connected(A.edges, n, x) /\ x \in Connected(A.edges, n, v)
      BY <1>5, <2>4
    <3>2. \A w \in Connected(A.edges, n, v) : w \in 0 .. n - 1
      BY ConnectedFacts
    <3>3. Waiting(A, n, m, v)
      BY <1>4, <2>2, <3>1
    <3> QED
      BY <1>6, <2>1, <2>4, <3>1, <3>2, <3>3
  <2>5. ASSUME NEW v \in 0 .. n - 1, v \notin Connected(A.edges, n, x)
        PROVE  /\ Waiting(A, n, m, v) <=> Waiting(A, n, m - 1, v)
               /\ c.group[v] = b.group[v]
               /\ \A w \in Connected(A.edges, n, v) : c.group[w] = b.group[w]
    <3>1. x \notin Connected(A.edges, n, v)
      BY <1>5, <2>5
    <3>2. \A w \in Connected(A.edges, n, v) : w \in 0 .. n - 1 /\ w \notin Connected(A.edges, n, x)
      <4> TAKE w \in Connected(A.edges, n, v)
      <4>1. w \in 0 .. n - 1 /\ Connected(A.edges, n, w) = Connected(A.edges, n, v)
            /\ v \in Connected(A.edges, n, w)
        BY <1>5
      <4>2. w \in Connected(A.edges, n, x) => Connected(A.edges, n, w) = Connected(A.edges, n, x)
        BY <1>5
      <4> QED
        BY <2>5, <4>1, <4>2
    <3> QED
      BY <1>4, <2>1, <2>5, <3>1, <3>2
  <2>6. ASSUME NEW v \in 0 .. n - 1
        PROVE  /\ ~Waiting(A, n, m, v) => c.group[v] = A.group[v]
               /\ Waiting(A, n, m, v) =>
                    c.group[v] \in Nat /\ \A w \in Connected(A.edges, n, v) : c.group[w] = c.group[v]
    <3>1. CASE v \in Connected(A.edges, n, x)
      BY <2>4, <3>1
    <3>2. CASE v \notin Connected(A.edges, n, x)
      BY <2>5, <3>2 DEF Finished
    <3> QED
      BY <3>1, <3>2
  <2>7. c.edges = A.edges /\ c.constant = A.constant /\ c.levels = A.levels
    BY <2>1 DEF Finished
  <2> QED
    BY <1>1, <2>6, <2>7 DEF Finished
<1> QED
  BY <1>7, <1>8

LEMMA FinishNextExact ==
  ASSUME NEW n \in Nat, NEW offset \in Nat, NEW b \in Assignments(offset, n), NEW m \in 1 .. n,
         Exact(b, n)
  PROVE  Exact(FinishNext(b, m), n)
<1>1. PICK c : c = FinishNext(b, m)
  OBVIOUS
<1>2. PICK x \in 0 .. n - 1 : x = m - 1
  OBVIOUS
<1>3. CASE b.group[x] # Assigned
  BY <1>1, <1>2, <1>3, FinishNextFacts
<1>4. CASE b.group[x] = Assigned
  <2>1. /\ c.edges = b.edges /\ c.nextGroup = b.nextGroup + 1
        /\ \A w \in 0 .. n - 1 :
             c.group[w] = IF w \in Connected(b.edges, n, x) THEN b.nextGroup ELSE b.group[w]
    BY <1>1, <1>2, <1>4, FinishNextFacts
  <2>2. PICK k \in Nat : k = b.nextGroup /\ c.nextGroup = k + 1 /\ k < k + 1
    BY <2>1 DEF Assignments
  <2>3. \A g \in Nat : g < k => g < k + 1 /\ g # k
    OBVIOUS
  <2>4. ASSUME NEW v \in 0 .. n - 1, c.group[v] \in Nat
        PROVE  /\ c.group[v] < c.nextGroup
               /\ \A w \in 0 .. n - 1 : c.group[w] = c.group[v] => w \in Connected(c.edges, n, v)
    <3>1. CASE v \in Connected(b.edges, n, x)
      <4>1. c.group[v] = k /\ Connected(b.edges, n, v) = Connected(b.edges, n, x)
        BY <2>1, <2>2, <3>1, ConnectedIsSymmetric
      <4>2. \A w \in 0 .. n - 1 : c.group[w] = k => w \in Connected(b.edges, n, x)
        BY <2>1, <2>2, <2>3 DEF Exact
      <4> QED
        BY <2>1, <2>2, <4>1, <4>2
    <3>2. CASE v \notin Connected(b.edges, n, x)
      <4>1. PICK g \in Nat : g = c.group[v] /\ g = b.group[v]
        BY <2>1, <2>4, <3>2
      <4>2. g < k /\ \A w \in 0 .. n - 1 : b.group[w] = g => w \in Connected(b.edges, n, v)
        BY <2>2, <4>1 DEF Exact
      <4>3. g < k + 1 /\ g # k
        BY <2>3, <4>2
      <4>4. \A w \in 0 .. n - 1 : c.group[w] = g => w \in Connected(b.edges, n, v)
        BY <2>1, <2>2, <4>2, <4>3
      <4> QED
        BY <2>1, <2>2, <4>1, <4>3, <4>4
    <3> QED
      BY <3>1, <3>2
  <2> QED
    BY <1>1, <2>4 DEF Exact
<1> QED
  BY <1>3, <1>4

\* Every group that waits is given an id of its own; the others keep theirs.
LEMMA FinishFacts ==
  ASSUME NEW n \in Nat, NEW offset \in Nat, NEW A \in Assignments(offset, n)
  PROVE  /\ FinishGroupAssignments(A) \in Assignments(offset, n)
         /\ Finished(A, FinishGroupAssignments(A), n, n)
         /\ Exact(A, n) => Exact(FinishGroupAssignments(A), n)
<1>0. PICK f : IsFinish(f, A, n)
  BY FinishSteps
<1>1. /\ f[0] = A /\ FinishGroupAssignments(A) = f[n]
      /\ \A v \in 1 .. n : f[v] = FinishNext(f[v - 1], v)
  BY <1>0 DEF IsFinish
<1> DEFINE S == { m \in 0 .. n : /\ f[m] \in Assignments(offset, n)
                                 /\ Finished(A, f[m], n, m)
                                 /\ Exact(A, n) => Exact(f[m], n) }
<1>2. 0 \in S
  <2>1. \A v \in 0 .. n - 1 : ~Waiting(A, n, 0, v)
    <3> SUFFICES ASSUME NEW v \in 0 .. n - 1, NEW u \in Connected(A.edges, n, v)
                 PROVE  ~(u < 0)
      BY DEF Waiting
    <3>1. u \in 0 .. n - 1
      BY ConnectedFacts
    <3> QED
      BY <3>1
  <2>2. Finished(A, f[0], n, 0)
    BY <1>1, <2>1 DEF Finished
  <2> QED
    BY <1>1, <2>2
<1>3. ASSUME NEW m \in 1 .. n, m - 1 \in S
      PROVE  m \in S
  <2>1. PICK b \in Assignments(offset, n) : b = f[m - 1]
    BY <1>3
  <2>2. Finished(A, b, n, m - 1) /\ (Exact(A, n) => Exact(b, n))
    BY <1>3, <2>1
  <2>3. f[m] = FinishNext(b, m) /\ m \in 0 .. n
    BY <1>1, <2>1
  <2>4. FinishNext(b, m) \in Assignments(offset, n)
    BY FinishNextFacts
  <2>5. Finished(A, FinishNext(b, m), n, m)
    BY <2>2, FinishNextFinished
  <2>6. Exact(A, n) => Exact(FinishNext(b, m), n)
    BY <2>2, FinishNextExact
  <2> QED
    BY <2>3, <2>4, <2>5, <2>6
<1>4. n \in S
  <2> HIDE DEF S
  <2>1. 0 .. n \subseteq S
    BY <1>2, <1>3, UpTo
  <2> QED
    BY <2>1
<1> QED
  BY <1>1, <1>4

\* The members of a group have one id, or one of them waits for an id.
Uniform(A, edges, n) ==
  \A v \in 0 .. n - 1 : \A w \in Connected(edges, n, v) :
    A.group[w] = A.group[v] \/ \E u \in Connected(edges, n, v) : A.group[u] = Assigned

\* The members of a group have one id.
Settled(A, edges, n) ==
  \A v \in 0 .. n - 1 : \A w \in Connected(edges, n, v) :
    A.group[w] = A.group[v] /\ A.group[v] # Assigned

LEMMA FinishSettles ==
  ASSUME NEW n \in Nat, NEW offset \in Nat, NEW A \in Assignments(offset, n), Grouped(A, n)
  PROVE  LET B == FinishGroupAssignments(A)
         IN  /\ Grouped(B, n)
             /\ \A v \in 0 .. n - 1 : B.group[v] # Assigned
             /\ \A edges : edges \subseteq A.edges /\ Uniform(A, edges, n) => Settled(B, edges, n)
<1>1. PICK B : B = FinishGroupAssignments(A)
  OBVIOUS
<1>2. Finished(A, B, n, n)
  BY <1>1, FinishFacts
<1>3. Assigned \notin Nat /\ NoGroup \notin Nat /\ Assigned # NoGroup
  BY DEF Assigned, NoGroup
<1>4. ASSUME NEW v \in 0 .. n - 1
      PROVE  Waiting(A, n, n, v) <=> \E u \in Connected(A.edges, n, v) : A.group[u] = Assigned
  <2>1. \A u \in Connected(A.edges, n, v) : u < n
    <3> TAKE u \in Connected(A.edges, n, v)
    <3>1. u \in 0 .. n - 1
      BY ConnectedFacts
    <3> QED
      BY <3>1
  <2> QED
    BY <2>1 DEF Waiting
<1>5. ASSUME NEW v \in 0 .. n - 1
      PROVE  B.group[v] # Assigned /\ (B.group[v] # NoGroup <=> v \in UNION B.edges)
  <2>1. CASE Waiting(A, n, n, v)
    <3>1. B.group[v] \in Nat
      BY <1>2, <2>1 DEF Finished
    <3>2. PICK u \in Connected(A.edges, n, v) : A.group[u] = Assigned
      BY <1>4, <2>1
    <3>3. u \in UNION A.edges
      <4>1. u \in 0 .. n - 1
        BY ConnectedFacts
      <4> QED
        BY <1>3, <3>2, <4>1 DEF Grouped
    <3>4. v \in UNION A.edges
      <4>1. v \notin UNION A.edges => u = v
        BY ConnectedAlone
      <4> QED
        BY <3>3, <4>1
    <3> QED
      BY <1>2, <1>3, <3>1, <3>4 DEF Finished
  <2>2. CASE ~Waiting(A, n, n, v)
    <3>1. B.group[v] = A.group[v] /\ B.edges = A.edges
      BY <1>2, <2>2 DEF Finished
    <3>2. v \in Connected(A.edges, n, v)
      BY ConnectedFacts
    <3> QED
      BY <1>4, <2>2, <3>1, <3>2 DEF Grouped
  <2> QED
    BY <2>1, <2>2
<1>6. ASSUME NEW edges, edges \subseteq A.edges, Uniform(A, edges, n)
      PROVE  Settled(B, edges, n)
  <2> SUFFICES ASSUME NEW v \in 0 .. n - 1, NEW w \in Connected(edges, n, v)
               PROVE  B.group[w] = B.group[v] /\ B.group[v] # Assigned
    BY DEF Settled
  <2>1. Connected(edges, n, v) \subseteq Connected(A.edges, n, v)
    BY <1>6, ConnectedGrows
  <2>2. w \in 0 .. n - 1 /\ Connected(A.edges, n, w) = Connected(A.edges, n, v)
    BY <2>1, ConnectedIsSymmetric
  <2>3. CASE Waiting(A, n, n, v)
    BY <1>2, <1>5, <2>1, <2>3 DEF Finished
  <2>4. CASE ~Waiting(A, n, n, v)
    <3>1. ~Waiting(A, n, n, w)
      BY <2>2, <2>4 DEF Waiting
    <3>2. A.group[w] = A.group[v]
      BY <1>4, <1>6, <2>1, <2>4 DEF Uniform
    <3> QED
      BY <1>2, <1>5, <2>2, <2>4, <3>1, <3>2 DEF Finished
  <2> QED
    BY <2>3, <2>4
<1> QED
  BY <1>1, <1>5, <1>6 DEF Grouped

LEMMA LeadsExact ==
  ASSUME NEW n \in Nat, NEW offset \in Nat, NEW A \in Assignments(offset, n),
         NEW B \in Assignments(offset, n), Leads(A, B, n), Exact(A, n)
  PROVE  Exact(B, n)
<1>1. Assigned \notin Nat
  BY DEF Assigned
<1>2. \A v \in 0 .. n - 1 : B.group[v] \in Nat => B.group[v] = A.group[v]
  BY <1>1 DEF Leads, Waits
<1>3. A.edges \subseteq B.edges /\ B.nextGroup = A.nextGroup
  BY DEF Leads
<1> SUFFICES ASSUME NEW v \in 0 .. n - 1, B.group[v] \in Nat
             PROVE  /\ B.group[v] < B.nextGroup
                    /\ \A w \in 0 .. n - 1 : B.group[w] = B.group[v] => w \in Connected(B.edges, n, v)
  BY DEF Exact
<1>4. A.group[v] \in Nat /\ B.group[v] = A.group[v]
  BY <1>2
<1>5. Connected(A.edges, n, v) \subseteq Connected(B.edges, n, v)
  BY <1>3, ConnectedGrows
<1>6. A.group[v] < A.nextGroup /\ \A w \in 0 .. n - 1 : A.group[w] = A.group[v] => w \in Connected(A.edges, n, v)
  BY <1>4 DEF Exact
<1> QED
  BY <1>2, <1>3, <1>4, <1>5, <1>6

LEMMA LeadsUniform ==
  ASSUME NEW n \in Nat, NEW offset \in Nat, NEW A \in Assignments(offset, n),
         NEW B \in Assignments(offset, n), Leads(A, B, n)
  PROVE  /\ \A edges : Uniform(A, edges, n) => Uniform(B, edges, n)
         /\ Uniform(A, A.edges, n) => Uniform(B, B.edges, n)
<1>1. \A v \in 0 .. n - 1 : B.group[v] \in {A.group[v], Assigned}
  BY DEF Leads, Waits
<1>2. ASSUME NEW edges, Uniform(A, edges, n)
      PROVE  Uniform(B, edges, n)
  <2> SUFFICES ASSUME NEW v \in 0 .. n - 1, NEW w \in Connected(edges, n, v),
                      \A u \in Connected(edges, n, v) : B.group[u] # Assigned
               PROVE  B.group[w] = B.group[v]
    BY DEF Uniform
  <2>1. \A u \in Connected(edges, n, v) : u \in 0 .. n - 1 /\ B.group[u] = A.group[u] /\ A.group[u] # Assigned
    BY <1>1, ConnectedFacts
  <2>2. A.group[w] = A.group[v] /\ v \in Connected(edges, n, v)
    BY <1>2, <2>1, ConnectedFacts DEF Uniform
  <2> QED
    BY <2>1, <2>2
<1>3. ASSUME Uniform(A, A.edges, n)
      PROVE  Uniform(B, B.edges, n)
  <2> SUFFICES ASSUME NEW v \in 0 .. n - 1, NEW w \in Connected(B.edges, n, v),
                      \A u \in Connected(B.edges, n, v) : B.group[u] # Assigned
               PROVE  B.group[w] = B.group[v]
    BY DEF Uniform
  <2>1. \A u \in Connected(B.edges, n, v) : u \in 0 .. n - 1 /\ B.group[u] = A.group[u] /\ A.group[u] # Assigned
    BY <1>1, ConnectedFacts
  <2>2. PICK T : T = Connected(B.edges, n, v) \cap Connected(A.edges, n, v)
    OBVIOUS
  <2>3. v \in T
    BY <2>2, ConnectedFacts
  <2>4. ASSUME NEW u \in T, NEW x \in 0 .. n - 1, {u, x} \in B.edges
        PROVE  x \in T
    <3>1. x \in Connected(B.edges, n, v) /\ u \in Connected(B.edges, n, v) /\ u \in Connected(A.edges, n, v)
      BY <2>2, <2>4, ConnectedFacts
    <3>2. {u, x} \in A.edges
      BY <2>1, <2>4, <3>1 DEF Leads, Waits
    <3> QED
      BY <2>2, <3>1, <3>2, ConnectedFacts
  <2>5. Connected(B.edges, n, v) \subseteq T
    BY <2>3, <2>4, ConnectedIsLeast
  <2>6. w \in Connected(A.edges, n, v) /\ v \in Connected(B.edges, n, v)
    BY <2>2, <2>5, ConnectedFacts
  <2>7. Connected(A.edges, n, v) \subseteq Connected(B.edges, n, v)
    BY ConnectedGrows DEF Leads
  <2>8. A.group[w] = A.group[v]
    BY <1>3, <2>1, <2>6, <2>7 DEF Uniform
  <2> QED
    BY <2>1, <2>6, <2>8
<1> QED
  BY <1>2, <1>3

\* The terms of two atoms that are unified.
FitsAtoms(s, t, kindOf, offset, n) ==
  /\ Len(s.terms) \in Nat
  /\ \A k \in 1 .. Len(s.terms) :
       Fits(s.terms[k], "From", kindOf, offset, n) /\ Fits(t.terms[k], "To", kindOf, offset, n)

IsUnify(f, kindOf, s, t, A, early) ==
  /\ f[0] = [ok |-> TRUE, a |-> A]
  /\ \A k \in 1 .. Len(s.terms) : f[k] = UnifyNext(kindOf, s.terms[k], t.terms[k], f[k - 1], early)
  /\ ExtendAssignment(kindOf, s, t, A, early)
       = IF f[Len(s.terms)].ok
         THEN [ok |-> TRUE, a |-> FinishGroupAssignments(f[Len(s.terms)].a)] ELSE f[Len(s.terms)]

LEMMA UnifySteps ==
  ASSUME NEW n \in Nat, NEW offset \in Nat, NEW kindOf \in Kinds, NEW early \in BOOLEAN,
         NEW s, NEW t, FitsAtoms(s, t, kindOf, offset, n),
         NEW A \in Assignments(offset, n), Grouped(A, n)
  PROVE  \E f : IsUnify(f, kindOf, s, t, A, early)
<1>1. PICK N \in Nat : N = Len(s.terms)
  BY DEF FitsAtoms
<1>2. PICK base : base = [ok |-> TRUE, a |-> A]
  OBVIOUS
<1> DEFINE T == { o \in Outcomes(offset, n) : Grouped(o.a, n) }
           step == [p \in (1 .. N) \X T |-> UnifyNext(kindOf, s.terms[p[1]], t.terms[p[1]], p[2], early)]
           Body(f) == [k \in 0 .. N |-> IF k = 0 THEN base
                                        ELSE UnifyNext(kindOf, s.terms[k], t.terms[k], f[k - 1], early)]
<1>3. \A k \in 1 .. N, o \in T : UnifyNext(kindOf, s.terms[k], t.terms[k], o, early) \in T
  <2> SUFFICES ASSUME NEW k \in 1 .. N, NEW o \in Outcomes(offset, n), Grouped(o.a, n)
               PROVE  UnifyNext(kindOf, s.terms[k], t.terms[k], o, early) \in T
    OBVIOUS
  <2>1. Fits(s.terms[k], "From", kindOf, offset, n) /\ Fits(t.terms[k], "To", kindOf, offset, n)
    BY <1>1 DEF FitsAtoms
  <2>2. PICK o2 : o2 = UnifyNext(kindOf, s.terms[k], t.terms[k], o, early)
    OBVIOUS
  <2>3. o2 \in Outcomes(offset, n) /\ Leads(o.a, o2.a, n)
    BY <2>1, <2>2, UnifyNextLeads
  <2>4. Grouped(o2.a, n)
    BY <2>3 DEF Leads
  <2> QED
    BY <2>2, <2>3, <2>4
<1>4. step \in [(1 .. N) \X T -> T] /\ base \in T
  <2>1. base \in T
    BY <1>2 DEF Outcomes
  <2>2. step \in [(1 .. N) \X T -> T]
    <3> HIDE DEF T
    <3> QED
      BY <1>3
  <2> QED
    BY <2>1, <2>2
<1>5. \E G \in [0 .. N -> T] : Recursive(G, N, base, step)
  <2> HIDE DEF step, T
  <2> QED
    BY <1>4, RecursionExists
<1>6. PICK G \in [0 .. N -> T] : G = [k \in 0 .. N |-> IF k = 0 THEN base ELSE step[<<k, G[k - 1]>>]]
  BY <1>5 DEF Recursive
<1>7. \A k \in 0 .. N : k # 0 => k - 1 \in 0 .. N /\ k \in 1 .. N
  OBVIOUS
<1>8. \A k \in 1 .. N, o \in T : step[<<k, o>>] = UnifyNext(kindOf, s.terms[k], t.terms[k], o, early)
  <2> HIDE DEF T
  <2> QED
    OBVIOUS
<1>9. G = Body(G)
  <2> HIDE DEF step, T
  <2>1. \A k \in 0 .. N : k # 0 =>
          step[<<k, G[k - 1]>>] = UnifyNext(kindOf, s.terms[k], t.terms[k], G[k - 1], early)
    BY <1>6, <1>7, <1>8
  <2> QED
    BY <1>6, <2>1
<1> DEFINE U == CHOOSE f : f = Body(f)
<1>10. ExtendAssignment(kindOf, s, t, A, early)
         = IF U[N].ok THEN [ok |-> TRUE, a |-> FinishGroupAssignments(U[N].a)] ELSE U[N]
  BY <1>1, <1>2 DEF ExtendAssignment, UnifyNext
<1>11. U = Body(U)
  <2> HIDE DEF Body
  <2> QED
    BY <1>9
<1>12. U[0] = base /\ \A k \in 1 .. N : U[k] = UnifyNext(kindOf, s.terms[k], t.terms[k], U[k - 1], early)
  <2> HIDE DEF U
  <2>1. 0 \in 0 .. N /\ \A k \in 1 .. N : k \in 0 .. N /\ k # 0
    OBVIOUS
  <2> QED
    BY <1>11, <2>1
<1>13. IsUnify(U, kindOf, s, t, A, early)
  <2> HIDE DEF U
  <2> QED
    BY <1>1, <1>2, <1>10, <1>12 DEF IsUnify
<1> QED
  BY <1>13

LEMMA UnifyChain ==
  ASSUME NEW n \in Nat, NEW offset \in Nat, NEW kindOf \in Kinds, NEW early \in BOOLEAN,
         NEW s, NEW t, FitsAtoms(s, t, kindOf, offset, n),
         NEW A \in Assignments(offset, n), Grouped(A, n),
         NEW f, IsUnify(f, kindOf, s, t, A, early)
  PROVE  \A k \in 0 .. Len(s.terms) : f[k] \in Outcomes(offset, n) /\ Leads(A, f[k].a, n)
<1>1. PICK N \in Nat : N = Len(s.terms)
  BY DEF FitsAtoms
<1> DEFINE S == { k \in 0 .. N : f[k] \in Outcomes(offset, n) /\ Leads(A, f[k].a, n) }
<1>2. 0 \in S
  <2>1. f[0] = [ok |-> TRUE, a |-> A] /\ Leads(A, A, n)
    BY LeadsNowhere DEF IsUnify
  <2>2. f[0] \in Outcomes(offset, n) /\ f[0].a = A
    BY <2>1 DEF Outcomes
  <2>3. 0 \in 0 .. N
    OBVIOUS
  <2> QED
    BY <2>1, <2>2, <2>3
<1>3. ASSUME NEW k \in 1 .. N, k - 1 \in S
      PROVE  k \in S
  <2>1. PICK o \in Outcomes(offset, n) : o = f[k - 1]
    BY <1>3
  <2>2. Leads(A, o.a, n) /\ o.a \in Assignments(offset, n)
    BY <1>3, <2>1 DEF Outcomes
  <2>3. Fits(s.terms[k], "From", kindOf, offset, n) /\ Fits(t.terms[k], "To", kindOf, offset, n)
    BY <1>1 DEF FitsAtoms
  <2>4. PICK p : p = UnifyNext(kindOf, s.terms[k], t.terms[k], o, early)
    OBVIOUS
  <2>5. Grouped(o.a, n)
    BY <2>2 DEF Leads
  <2>6. p \in Outcomes(offset, n) /\ Leads(o.a, p.a, n)
    BY <2>3, <2>4, <2>5, UnifyNextLeads
  <2>7. p.a \in Assignments(offset, n)
    BY <2>6 DEF Outcomes
  <2>8. Leads(A, p.a, n)
    BY <2>2, <2>6, <2>7, LeadsOn
  <2>9. f[k] = p
    BY <1>1, <2>1, <2>4 DEF IsUnify
  <2> QED
    BY <2>6, <2>8, <2>9
<1>4. 0 .. N \subseteq S
  <2> HIDE DEF S
  <2> QED
    BY <1>2, <1>3, UpTo
<1> QED
  BY <1>1, <1>4

\* Unifying succeeds and every group gets an id, or fails on the way.
Extends(A, o, offset, n) ==
  /\ o \in Outcomes(offset, n)
  /\ \E C \in Assignments(offset, n) :
       Leads(A, C, n) /\ o.a = IF o.ok THEN FinishGroupAssignments(C) ELSE C

LEMMA ExtendFacts ==
  ASSUME NEW n \in Nat, NEW offset \in Nat, NEW kindOf \in Kinds, NEW early \in BOOLEAN,
         NEW s, NEW t, FitsAtoms(s, t, kindOf, offset, n),
         NEW A \in Assignments(offset, n), Grouped(A, n)
  PROVE  Extends(A, ExtendAssignment(kindOf, s, t, A, early), offset, n)
<1>1. PICK f : IsUnify(f, kindOf, s, t, A, early)
  BY UnifySteps
<1>2. PICK N \in Nat : N = Len(s.terms)
  BY DEF FitsAtoms
<1>3. PICK last : last = f[N]
  OBVIOUS
<1>4. last \in Outcomes(offset, n) /\ Leads(A, last.a, n)
  <2>1. N \in 0 .. Len(s.terms)
    BY <1>2
  <2> QED
    BY <1>1, <1>3, <2>1, UnifyChain
<1>5. last.ok \in BOOLEAN /\ last.a \in Assignments(offset, n)
  BY <1>4 DEF Outcomes
<1>6. FinishGroupAssignments(last.a) \in Assignments(offset, n)
  BY <1>5, FinishFacts
<1>7. PICK o : o = ExtendAssignment(kindOf, s, t, A, early)
  OBVIOUS
<1>8. o = IF last.ok THEN [ok |-> TRUE, a |-> FinishGroupAssignments(last.a)] ELSE last
  BY <1>1, <1>2, <1>3, <1>7 DEF IsUnify
<1>9. o \in Outcomes(offset, n) /\ o.a = IF o.ok THEN FinishGroupAssignments(last.a) ELSE last.a
  <2>1. CASE last.ok
    BY <1>6, <1>8, <2>1 DEF Outcomes
  <2>2. CASE ~last.ok
    BY <1>4, <1>8, <2>2
  <2> QED
    BY <2>1, <2>2
<1> QED
  BY <1>4, <1>5, <1>7, <1>9 DEF Extends

\* How unifying goes does not depend on groups and levels.
LEMMA ExtendSame ==
  ASSUME NEW n \in Nat, NEW offset \in Nat, NEW kindOf \in Kinds, NEW early \in BOOLEAN,
         NEW s, NEW t, FitsAtoms(s, t, kindOf, offset, n),
         NEW A \in Assignments(offset, n), Grouped(A, n),
         NEW B \in Assignments(offset, n), Grouped(B, n), Same(A, B)
  PROVE  /\ ExtendAssignment(kindOf, s, t, A, early).ok = ExtendAssignment(kindOf, s, t, B, early).ok
         /\ Same(ExtendAssignment(kindOf, s, t, A, early).a, ExtendAssignment(kindOf, s, t, B, early).a)
<1>1. PICK f : IsUnify(f, kindOf, s, t, A, early)
  BY UnifySteps
<1>2. PICK g : IsUnify(g, kindOf, s, t, B, early)
  BY UnifySteps
<1>3. PICK N \in Nat : N = Len(s.terms)
  BY DEF FitsAtoms
<1>4. \A k \in 0 .. N : /\ f[k] \in Outcomes(offset, n) /\ Leads(A, f[k].a, n)
                        /\ g[k] \in Outcomes(offset, n) /\ Leads(B, g[k].a, n)
  BY <1>1, <1>2, <1>3, UnifyChain
<1> DEFINE S == { k \in 0 .. N : f[k].ok = g[k].ok /\ Same(f[k].a, g[k].a) }
<1>5. 0 \in S
  <2>1. f[0] = [ok |-> TRUE, a |-> A] /\ g[0] = [ok |-> TRUE, a |-> B]
    BY <1>1, <1>2 DEF IsUnify
  <2>2. f[0].ok = g[0].ok /\ f[0].a = A /\ g[0].a = B /\ 0 \in 0 .. N
    BY <2>1
  <2> QED
    BY <2>2
<1>6. ASSUME NEW k \in 1 .. N, k - 1 \in S
      PROVE  k \in S
  <2>0. k - 1 \in 0 .. N /\ k \in 0 .. N
    OBVIOUS
  <2>1. PICK o \in Outcomes(offset, n), p \in Outcomes(offset, n) : o = f[k - 1] /\ p = g[k - 1]
    BY <1>4, <2>0
  <2>2. Grouped(o.a, n) /\ Grouped(p.a, n) /\ o.ok = p.ok /\ Same(o.a, p.a)
    BY <1>4, <1>6, <2>0, <2>1 DEF Leads
  <2>3. Fits(s.terms[k], "From", kindOf, offset, n) /\ Fits(t.terms[k], "To", kindOf, offset, n)
    BY <1>3 DEF FitsAtoms
  <2>4. PICK o2, p2 : /\ o2 = UnifyNext(kindOf, s.terms[k], t.terms[k], o, early)
                      /\ p2 = UnifyNext(kindOf, s.terms[k], t.terms[k], p, early)
    OBVIOUS
  <2>5. o2.ok = p2.ok /\ Same(o2.a, p2.a)
    BY <2>2, <2>3, <2>4, UnifyNextSame
  <2>6. f[k] = o2 /\ g[k] = p2
    BY <1>1, <1>2, <1>3, <2>1, <2>4 DEF IsUnify
  <2> QED
    BY <2>0, <2>5, <2>6
<1>7. N \in S
  <2> HIDE DEF S
  <2>1. 0 .. N \subseteq S
    BY <1>5, <1>6, UpTo
  <2> QED
    BY <2>1
<1>8. N \in 0 .. N
  OBVIOUS
<1>9. PICK o \in Outcomes(offset, n), p \in Outcomes(offset, n) : o = f[N] /\ p = g[N]
  BY <1>4, <1>8
<1>10. o.ok = p.ok /\ Same(o.a, p.a) /\ o.a \in Assignments(offset, n) /\ p.a \in Assignments(offset, n)
  BY <1>7, <1>9 DEF Outcomes
<1>11. Same(FinishGroupAssignments(o.a), FinishGroupAssignments(p.a))
  BY <1>10, FinishFacts DEF Finished, Same
<1>12. /\ ExtendAssignment(kindOf, s, t, A, early)
            = IF o.ok THEN [ok |-> TRUE, a |-> FinishGroupAssignments(o.a)] ELSE o
       /\ ExtendAssignment(kindOf, s, t, B, early)
            = IF p.ok THEN [ok |-> TRUE, a |-> FinishGroupAssignments(p.a)] ELSE p
  BY <1>1, <1>2, <1>3, <1>9 DEF IsUnify
<1>13. CASE o.ok
  <2>1. p.ok
    BY <1>10, <1>13
  <2> QED
    BY <1>11, <1>12, <1>13, <2>1
<1>14. CASE ~o.ok
  <2>1. ~p.ok
    BY <1>10, <1>14
  <2> QED
    BY <1>10, <1>12, <1>14, <2>1
<1> QED
  BY <1>13, <1>14

-----------------------------------------------------------------------------
(* Going deeper and coming back                                            *)

\* A level notes what mapping a pair of atoms added to B, which gave C.
Records(level, B, C, n) ==
  /\ level.edges = B.edges
  /\ level.groups \cap UNION B.edges = {}
  /\ UNION C.edges = (UNION B.edges) \cup level.groups
  /\ level.constants \subseteq Unbound(B, n)
  /\ \A v \in 0 .. n - 1 : v \notin level.constants => C.constant[v] = B.constant[v]
  /\ B.edges \subseteq C.edges

\* A is reached from B, where the last level notes all there is to undo.
Deeper(A, B, n) ==
  /\ Len(A.levels) > 0
  /\ Records(A.levels[Len(A.levels)], B, A, n)

LEMMA UndoFacts ==
  ASSUME NEW n \in Nat, NEW offset \in Nat, NEW A \in Assignments(offset, n), Grouped(A, n),
         NEW B \in Assignments(offset, n), Deeper(A, B, n)
  PROVE  /\ DecreaseDepth(A) \in Assignments(offset, n)
         /\ Grouped(DecreaseDepth(A), n)
         /\ Same(DecreaseDepth(A), B)
         /\ Len(DecreaseDepth(A).levels) = Len(A.levels) - 1
         /\ \A i \in 1 .. Len(A.levels) - 1 : DecreaseDepth(A).levels[i] = A.levels[i]
         /\ \A edges : edges \subseteq B.edges /\ Uniform(A, edges, n) =>
              Uniform(DecreaseDepth(A), edges, n)
<1>1. PICK D : D = DecreaseDepth(A)
  OBVIOUS
<1>2. PICK L \in Nat : L = Len(A.levels) /\ L > 0
  BY DEF Deeper, Assignments
<1>3. A.levels \in Seq(Level(n)) /\ L \in 1 .. Len(A.levels)
  BY <1>2 DEF Assignments
<1>4. PICK level \in Level(n) : level = A.levels[L]
  BY <1>2, <1>3
<1>5. Records(level, B, A, n)
  BY <1>2, <1>4 DEF Deeper
<1>6. PICK constant : constant = [v \in 0 .. n - 1 |-> IF v \in level.constants THEN NotAssigned
                                                       ELSE A.constant[v]]
  OBVIOUS
<1>7. PICK group : group = [v \in 0 .. n - 1 |-> IF v \in level.groups THEN NoGroup ELSE A.group[v]]
  OBVIOUS
<1>8. Ids(A) = 0 .. n - 1
  BY DEF Ids, Assignments
<1>9. D = [A EXCEPT !.constant = constant, !.group = group, !.edges = level.edges,
                    !.levels = SubSeq(A.levels, 1, L - 1)]
  BY <1>1, <1>2, <1>4, <1>6, <1>7, <1>8 DEF DecreaseDepth
<1>10. constant = B.constant
  <2>1. \A v \in 0 .. n - 1 : constant[v] = B.constant[v]
    BY <1>5, <1>6 DEF Records, Unbound
  <2>2. constant \in [0 .. n - 1 -> Int] /\ B.constant \in [0 .. n - 1 -> Int]
    <3>1. NotAssigned \in Int
      BY DEF NotAssigned
    <3> QED
      BY <1>6, <3>1 DEF Assignments
  <2> QED
    BY <2>1, <2>2
<1>11. group \in [0 .. n - 1 -> {NoGroup, Assigned} \cup Nat]
  BY <1>7 DEF Assignments
<1>12. SubSeq(A.levels, 1, L - 1) \in Seq(Level(n)) /\ Len(SubSeq(A.levels, 1, L - 1)) = L - 1
       /\ \A i \in 1 .. L - 1 : SubSeq(A.levels, 1, L - 1)[i] = A.levels[i]
  <2>1. \A i \in 1 .. L - 1 : A.levels[i] \in Level(n)
    BY <1>2, <1>3
  <2> QED
    BY <1>2, <1>3, <2>1
<1>13. level.edges \in SUBSET SUBSET (0 .. n - 1) /\ B.constant \in [0 .. n - 1 -> Int]
  BY <1>4 DEF Level, Assignments
<1>14. D \in Assignments(offset, n) /\ D.constant = constant /\ D.group = group
       /\ D.edges = level.edges /\ D.levels = SubSeq(A.levels, 1, L - 1)
  <2>1. PICK levels \in Seq(Level(n)) : levels = SubSeq(A.levels, 1, L - 1)
    BY <1>12
  <2>2. D = [A EXCEPT !.constant = constant, !.group = group, !.edges = level.edges, !.levels = levels]
    BY <1>9, <2>1
  <2> QED
    BY <1>10, <1>11, <1>13, <2>1, <2>2 DEF Assignments
<1>15. D.edges = B.edges
  BY <1>5, <1>14 DEF Records
<1>16. Grouped(D, n)
  <2> SUFFICES ASSUME NEW v \in 0 .. n - 1
               PROVE  D.group[v] # NoGroup <=> v \in UNION B.edges
    BY <1>15 DEF Grouped
  <2>1. A.group[v] # NoGroup <=> v \in UNION A.edges
    BY DEF Grouped
  <2>2. D.group[v] = IF v \in level.groups THEN NoGroup ELSE A.group[v]
    BY <1>7, <1>14
  <2>3. UNION A.edges = (UNION B.edges) \cup level.groups /\ level.groups \cap UNION B.edges = {}
    BY <1>5 DEF Records
  <2> QED
    BY <2>1, <2>2, <2>3
<1>17. ASSUME NEW edges, edges \subseteq B.edges, Uniform(A, edges, n)
       PROVE  Uniform(D, edges, n)
  <2> SUFFICES ASSUME NEW v \in 0 .. n - 1, NEW w \in Connected(edges, n, v)
               PROVE  \/ D.group[w] = D.group[v]
                      \/ \E u \in Connected(edges, n, v) : D.group[u] = Assigned
    BY DEF Uniform
  <2>1. CASE v \notin UNION edges
    BY <2>1, ConnectedAlone
  <2>2. CASE v \in UNION edges
    <3>1. \A u \in Connected(edges, n, v) : u \in 0 .. n - 1 /\ u \in UNION edges
      <4> TAKE u \in Connected(edges, n, v)
      <4>1. u \in 0 .. n - 1 /\ Connected(edges, n, u) = Connected(edges, n, v)
        BY ConnectedIsSymmetric
      <4>2. u \notin UNION edges => Connected(edges, n, u) = {u}
        BY <4>1, ConnectedAlone
      <4>3. v \in Connected(edges, n, v)
        BY ConnectedFacts
      <4> QED
        BY <2>2, <4>1, <4>2, <4>3
    <3>2. \A u \in Connected(edges, n, v) : D.group[u] = A.group[u]
      <4>1. UNION edges \subseteq UNION B.edges
        BY <1>17
      <4>2. \A u \in UNION edges : u \notin level.groups
        BY <1>5, <4>1 DEF Records
      <4> QED
        BY <1>7, <1>14, <3>1, <4>2
    <3>3. v \in Connected(edges, n, v)
      BY ConnectedFacts
    <3>4. A.group[w] = A.group[v] \/ \E u \in Connected(edges, n, v) : A.group[u] = Assigned
      BY <1>17 DEF Uniform
    <3> QED
      BY <3>2, <3>3, <3>4
  <2> QED
    BY <2>1, <2>2
<1>18. Same(D, B)
  BY <1>10, <1>14, <1>15 DEF Same
<1> QED
  BY <1>1, <1>2, <1>12, <1>14, <1>16, <1>17, <1>18

\* Mapping a pair of atoms, given as positions.
MapPair(k, pair, from, to, assignments, early) ==
  ExtendAssignment(k, from.heads[pair[2]], Mapped(k, to)[pair[1]], assignments, early)

Mappable(k, pair, from, to, offset, n) ==
  FitsAtoms(from.heads[pair[2]], Mapped(k, to)[pair[1]], k, offset, n)

\* What mapping atoms without ever undoing anything gives.
Sound(A, offset, n) ==
  /\ A \in Assignments(offset, n)
  /\ Grouped(A, n)
  /\ Exact(A, n)
  /\ \A v \in 0 .. n - 1 : A.group[v] # Assigned

LEMMA SoundMap ==
  ASSUME NEW n \in Nat, NEW offset \in Nat, NEW k \in Kinds, NEW early \in BOOLEAN,
         NEW from, NEW to, NEW pair, Mappable(k, pair, from, to, offset, n),
         NEW A, Sound(A, offset, n),
         NEW o, o = MapPair(k, pair, from, to, A, early), o.ok
  PROVE  Sound(o.a, offset, n) /\ A.edges \subseteq o.a.edges
<1>1. A \in Assignments(offset, n) /\ Grouped(A, n) /\ Exact(A, n)
  BY DEF Sound
<1>2. Extends(A, o, offset, n)
  BY <1>1, ExtendFacts DEF MapPair, Mappable
<1>3. PICK C \in Assignments(offset, n) : Leads(A, C, n) /\ o.a = FinishGroupAssignments(C)
  BY <1>2 DEF Extends
<1>4. Grouped(C, n) /\ Exact(C, n) /\ A.edges \subseteq C.edges
  BY <1>1, <1>3, LeadsExact DEF Leads
<1>5. o.a \in Assignments(offset, n) /\ Exact(o.a, n) /\ o.a.edges = C.edges
  BY <1>3, <1>4, FinishFacts DEF Finished
<1>6. Grouped(o.a, n) /\ \A v \in 0 .. n - 1 : o.a.group[v] # Assigned
  BY <1>3, <1>4, FinishSettles
<1> QED
  BY <1>4, <1>5, <1>6 DEF Sound

LEMMA IncreaseFacts ==
  ASSUME NEW n \in Nat, NEW offset \in Nat, NEW A \in Assignments(offset, n), Grouped(A, n)
  PROVE  LET B == IncreaseDepth(A)
         IN  /\ B \in Assignments(offset, n) /\ Grouped(B, n) /\ Same(B, A) /\ B.group = A.group
             /\ Len(B.levels) = Len(A.levels) + 1
             /\ \A i \in 1 .. Len(A.levels) : B.levels[i] = A.levels[i]
             /\ B.levels[Len(A.levels) + 1] = [edges |-> A.edges, constants |-> {}, groups |-> {}]
<1>1. PICK B : B = IncreaseDepth(A)
  OBVIOUS
<1>2. PICK level \in Level(n) : level = [edges |-> A.edges, constants |-> {}, groups |-> {}]
  <2>1. [edges |-> A.edges, constants |-> {}, groups |-> {}] \in Level(n)
    BY DEF Level, Assignments
  <2> QED
    BY <2>1
<1>3. PICK levels \in Seq(Level(n)) : levels = Append(A.levels, level)
  <2>1. Append(A.levels, level) \in Seq(Level(n))
    BY DEF Assignments
  <2> QED
    BY <2>1
<1>4. A.levels \in Seq(Level(n))
  BY DEF Assignments
<1>5. /\ Len(levels) = Len(A.levels) + 1 /\ levels[Len(A.levels) + 1] = level
      /\ \A i \in 1 .. Len(A.levels) : levels[i] = A.levels[i]
  BY <1>3, <1>4
<1>6. B = [A EXCEPT !.levels = levels]
  BY <1>1, <1>2, <1>3 DEF IncreaseDepth
<1>7. /\ B \in Assignments(offset, n) /\ B.constant = A.constant /\ B.edges = A.edges
      /\ B.group = A.group /\ B.levels = levels
  BY <1>6 DEF Assignments
<1>8. Grouped(B, n) /\ Same(B, A)
  BY <1>7 DEF Grouped, Same
<1> QED
  BY <1>1, <1>2, <1>5, <1>7, <1>8

\* Whatever comes of mapping a further pair of atoms, the new level notes it.
LEMMA DeeperFacts ==
  ASSUME NEW n \in Nat, NEW offset \in Nat, NEW k \in Kinds, NEW early \in BOOLEAN,
         NEW from, NEW to, NEW pair, Mappable(k, pair, from, to, offset, n),
         NEW A \in Assignments(offset, n), Grouped(A, n), Uniform(A, A.edges, n),
         NEW o, o = MapPair(k, pair, from, to, IncreaseDepth(A), early)
  PROVE  /\ o \in Outcomes(offset, n) /\ o.a \in Assignments(offset, n) /\ Grouped(o.a, n)
         /\ Deeper(o.a, A, n)
         /\ Len(o.a.levels) = Len(A.levels) + 1
         /\ \A i \in 1 .. Len(A.levels) : o.a.levels[i] = A.levels[i]
         /\ \A edges : edges \subseteq A.edges /\ Uniform(A, edges, n) => Uniform(o.a, edges, n)
         /\ o.ok => Uniform(o.a, o.a.edges, n)
<1>0. PICK B : B = IncreaseDepth(A)
  OBVIOUS
<1>1. PICK L \in Nat : L = Len(A.levels) /\ B = IncreaseDepth(A)
  BY <1>0 DEF Assignments
<1>2. /\ B \in Assignments(offset, n) /\ Grouped(B, n) /\ Same(B, A) /\ B.group = A.group
      /\ Len(B.levels) = L + 1
      /\ \A i \in 1 .. L : B.levels[i] = A.levels[i]
      /\ B.levels[L + 1] = [edges |-> A.edges, constants |-> {}, groups |-> {}]
  BY <1>1, IncreaseFacts
<1>3. Extends(B, o, offset, n)
  BY <1>1, <1>2, ExtendFacts DEF MapPair, Mappable
<1>4. PICK C \in Assignments(offset, n) :
        Leads(B, C, n) /\ o.a = IF o.ok THEN FinishGroupAssignments(C) ELSE C
  BY <1>3 DEF Extends
<1>5. o \in Outcomes(offset, n) /\ o.a \in Assignments(offset, n)
  BY <1>3 DEF Extends, Outcomes
<1>6. Grouped(C, n) /\ Len(C.levels) = L + 1 /\ A.edges \subseteq C.edges
      /\ \A i \in 1 .. L : C.levels[i] = A.levels[i]
  <2>1. \A i \in 1 .. L : i \in 1 .. (L + 1) - 1
    OBVIOUS
  <2> QED
    BY <1>2, <1>4, <2>1 DEF Leads, Same
<1>7. Grouped(o.a, n) /\ o.a.edges = C.edges /\ o.a.constant = C.constant /\ o.a.levels = C.levels
  <2>1. CASE o.ok
    <3>1. o.a = FinishGroupAssignments(C)
      BY <1>4, <2>1
    <3>2. Finished(C, o.a, n, n)
      BY <3>1, FinishFacts
    <3>3. Grouped(o.a, n)
      BY <1>6, <3>1, FinishSettles
    <3> QED
      BY <3>2, <3>3 DEF Finished
  <2>2. CASE ~o.ok
    BY <1>4, <1>6, <2>2
  <2> QED
    BY <2>1, <2>2
<1>8. PICK K \in SUBSET (0 .. n - 1), G \in SUBSET (0 .. n - 1) : Binds(B, C, n, K, G)
  BY <1>4 DEF Leads
<1>9. PICK level : level = o.a.levels[L + 1]
  OBVIOUS
<1>10. level.edges = A.edges /\ level.constants = K /\ level.groups = G
  <2>1. PICK base : base = [edges |-> A.edges, constants |-> {}, groups |-> {}]
    OBVIOUS
  <2>2. level = [base EXCEPT !.constants = @ \cup K, !.groups = @ \cup G]
    BY <1>2, <1>7, <1>8, <1>9, <2>1 DEF Binds
  <2> QED
    BY <2>1, <2>2
<1>11. Records(level, A, o.a, n)
  <2>1. Unbound(B, n) = Unbound(A, n) /\ B.edges = A.edges /\ B.constant = A.constant
    BY <1>2 DEF Unbound, Same
  <2> QED
    BY <1>6, <1>7, <1>8, <1>10, <2>1 DEF Records, Binds
<1>12. Deeper(o.a, A, n)
  <2>1. Len(o.a.levels) = L + 1 /\ L + 1 > 0
    BY <1>6, <1>7
  <2> QED
    BY <1>9, <1>11, <2>1 DEF Deeper
<1>13. ASSUME NEW edges, Uniform(A, edges, n)
       PROVE  Uniform(C, edges, n)
  <2>1. Uniform(B, edges, n)
    BY <1>2, <1>13 DEF Uniform
  <2> QED
    BY <1>2, <1>4, <2>1, LeadsUniform
<1>14. Uniform(C, C.edges, n)
  <2>1. Uniform(B, B.edges, n)
    BY <1>2 DEF Uniform, Same
  <2> QED
    BY <1>2, <1>4, <2>1, LeadsUniform
<1>15. ASSUME NEW edges, edges \subseteq C.edges, Uniform(C, edges, n)
       PROVE  Uniform(o.a, edges, n)
  <2>1. CASE o.ok
    <3>1. Settled(o.a, edges, n)
      BY <1>4, <1>6, <1>15, <2>1, FinishSettles
    <3> QED
      BY <3>1 DEF Settled, Uniform
  <2>2. CASE ~o.ok
    BY <1>4, <1>15, <2>2
  <2> QED
    BY <2>1, <2>2
<1>16. \A edges : edges \subseteq A.edges /\ Uniform(A, edges, n) => Uniform(o.a, edges, n)
  BY <1>6, <1>13, <1>15
<1>17. Uniform(o.a, o.a.edges, n)
  BY <1>7, <1>14, <1>15
<1> QED
  BY <1>1, <1>5, <1>6, <1>7, <1>12, <1>16, <1>17

-----------------------------------------------------------------------------
(* The assignments of a search                                             *)

\* f[i] is what mapping the first i pairs of atoms gives, from nothing.
Run(f, k, m, from, to, early, offset, n) ==
  /\ f[0] = [ok |-> TRUE, a |-> Fresh(k, from, to)]
  /\ \A i \in 1 .. Len(m) :
       /\ Mappable(k, m[i], from, to, offset, n)
       /\ f[i] = MapPair(k, m[i], from, to, f[i - 1].a, early)
  /\ \A i \in 0 .. Len(m) : f[i] \in Outcomes(offset, n) /\ f[i].ok /\ Sound(f[i].a, offset, n)
  /\ \A i, j \in 0 .. Len(m) : i <= j => f[i].a.edges \subseteq f[j].a.edges

\* A has what that gives, and what is needed to come back to each of them.
Levelled(f, A, m, offset, n) ==
  /\ A \in Assignments(offset, n)
  /\ Grouped(A, n)
  /\ Same(A, f[Len(m)].a)
  /\ Len(A.levels) = Len(m)
  /\ \A i \in 1 .. Len(m) : Records(A.levels[i], f[i - 1].a, f[i].a, n)
  /\ \A i \in 0 .. Len(m) : Uniform(A, f[i].a.edges, n)

SearchState(A, k, m, from, to, early, offset, n) ==
  \E f : Run(f, k, m, from, to, early, offset, n) /\ Levelled(f, A, m, offset, n)

\* The assignments before anything is mapped.
LEMMA FreshFacts ==
  ASSUME NEW k \in Kinds, NEW from, NEW to, HighestId(from) \in Nat, HighestId(to) \in Nat,
         NEW offset, offset = HighestId(from) + 1,
         NEW n, n = offset + (IF k = "self" THEN 0 ELSE HighestId(to) + 1),
         NEW A, A = Fresh(k, from, to)
  PROVE  /\ offset \in Nat /\ n \in Nat
         /\ Sound(A, offset, n) /\ A.edges = {} /\ A.levels = << >>
         /\ \A v \in 0 .. n - 1 : A.group[v] = NoGroup
<1> DEFINE ids == 0 .. n - 1
<1>1. offset \in Nat /\ n \in Nat
  OBVIOUS
<1>2. offset + (IF k = "self" THEN 0 ELSE HighestId(to) + 1) - 1 = n - 1
  OBVIOUS
<1>3. A = [offset |-> offset, nextGroup |-> 0, mappedExistential |-> FALSE,
           constant |-> [v \in ids |-> NotAssigned], group |-> [v \in ids |-> NoGroup],
           edges |-> {}, levels |-> << >>]
  BY <1>2 DEF Fresh, NewAssignments
<1>4. A \in Assignments(offset, n)
  BY <1>1, <1>3 DEF Assignments, NotAssigned
<1>5. A.edges = {} /\ A.levels = << >> /\ \A v \in ids : A.group[v] = NoGroup
  BY <1>3
<1>6. Grouped(A, n)
  BY <1>5 DEF Grouped
<1>7. Exact(A, n) /\ \A v \in ids : A.group[v] # Assigned
  BY <1>5 DEF Exact, NoGroup, Assigned
<1>8. QED
  BY <1>1, <1>4, <1>5, <1>6, <1>7 DEF Sound

LEMMA StartState ==
  ASSUME NEW k \in Kinds, NEW from, NEW to, HighestId(from) \in Nat, HighestId(to) \in Nat,
         NEW early,
         NEW offset, offset = HighestId(from) + 1,
         NEW n, n = offset + (IF k = "self" THEN 0 ELSE HighestId(to) + 1)
  PROVE  SearchState(Fresh(k, from, to), k, << >>, from, to, early, offset, n)
<1> DEFINE A == Fresh(k, from, to)
           f == [i \in {0} |-> [ok |-> TRUE, a |-> A]]
<1>1. /\ offset \in Nat /\ n \in Nat
      /\ Sound(A, offset, n) /\ A.edges = {} /\ A.levels = << >>
      /\ \A v \in 0 .. n - 1 : A.group[v] = NoGroup
  BY FreshFacts
<1> HIDE DEF A
<1>2. f[0] = [ok |-> TRUE, a |-> A] /\ f[0].ok /\ f[0].a = A
  OBVIOUS
<1>3. Len(<< >>) = 0 /\ \A i \in 0 .. Len(<< >>) : i = 0
  OBVIOUS
<1>4. A \in Assignments(offset, n) /\ Grouped(A, n)
  BY <1>1 DEF Sound
<1>5. f[0] \in Outcomes(offset, n)
  BY <1>2, <1>4 DEF Outcomes
<1> HIDE DEF f
<1>6. Run(f, k, << >>, from, to, early, offset, n)
  BY <1>1, <1>2, <1>3, <1>5 DEF Run, A
<1>7. Uniform(A, {}, n)
  <2> SUFFICES ASSUME NEW v \in 0 .. n - 1, NEW w \in Connected({}, n, v)
               PROVE  A.group[w] = A.group[v]
    BY DEF Uniform
  <2>1. Connected({}, n, v) = {v}
    BY <1>1, ConnectedAlone
  <2>2. QED
    BY <2>1
<1>8. Levelled(f, A, << >>, offset, n)
  <2>1. Same(A, f[Len(<< >>)].a)
    BY <1>2, <1>3 DEF Same
  <2>2. \A i \in 0 .. Len(<< >>) : Uniform(A, f[i].a.edges, n)
    BY <1>1, <1>2, <1>3, <1>7
  <2>3. \A i \in 1 .. Len(<< >>) : Records(A.levels[i], f[i - 1].a, f[i].a, n)
    BY <1>3
  <2>4. Len(A.levels) = Len(<< >>)
    BY <1>1
  <2>5. QED
    BY <1>4, <2>1, <2>2, <2>3, <2>4 DEF Levelled
<1>9. QED
  BY <1>6, <1>8 DEF SearchState, A

LEMMA LevelledLike ==
  ASSUME NEW f, NEW A, NEW m, NEW offset, NEW n, Levelled(f, A, m, offset, n),
         NEW D \in Assignments(offset, n), Grouped(D, n), Same(D, A),
         Len(D.levels) = Len(A.levels), \A i \in 1 .. Len(m) : D.levels[i] = A.levels[i],
         \A i \in 0 .. Len(m) : Uniform(D, f[i].a.edges, n)
  PROVE  Levelled(f, D, m, offset, n)
BY DEF Levelled, Same

LEMMA RecordsSame ==
  ASSUME NEW level, NEW B, NEW C, NEW D, NEW E, NEW n, Records(level, B, C, n),
         Same(B, D), Same(C, E)
  PROVE  Records(level, D, E, n)
BY DEF Records, Same, Unbound

\* Mapping one more pair of atoms, and coming back from it.
LEMMA TryState ==
  ASSUME NEW k \in Kinds, NEW early \in BOOLEAN, NEW from, NEW to, NEW offset \in Nat, NEW n \in Nat,
         NEW S, NEW m \in Seq(S), NEW A, SearchState(A, k, m, from, to, early, offset, n),
         NEW pair \in S, Mappable(k, pair, from, to, offset, n),
         NEW o, o = MapPair(k, pair, from, to, IncreaseDepth(A), early)
  PROVE  /\ o.ok \in BOOLEAN
         /\ o.ok => SearchState(o.a, k, Append(m, pair), from, to, early, offset, n)
         /\ SearchState(DecreaseDepth(o.a), k, m, from, to, early, offset, n)
<1>1. PICK f : Run(f, k, m, from, to, early, offset, n) /\ Levelled(f, A, m, offset, n)
  BY DEF SearchState
<1> DEFINE L == Len(m)
<1>2. L \in Nat /\ L \in 0 .. L /\ 0 \in 0 .. L
  OBVIOUS
<1>3. /\ A \in Assignments(offset, n) /\ Grouped(A, n) /\ Same(A, f[L].a) /\ Len(A.levels) = L
      /\ \A i \in 1 .. L : Records(A.levels[i], f[i - 1].a, f[i].a, n)
      /\ \A i \in 0 .. L : Uniform(A, f[i].a.edges, n)
  BY <1>1 DEF Levelled
<1>4. /\ f[0] = [ok |-> TRUE, a |-> Fresh(k, from, to)]
      /\ \A i \in 1 .. L : /\ Mappable(k, m[i], from, to, offset, n)
                           /\ f[i] = MapPair(k, m[i], from, to, f[i - 1].a, early)
      /\ \A i \in 0 .. L : f[i] \in Outcomes(offset, n) /\ f[i].ok /\ Sound(f[i].a, offset, n)
      /\ \A i, j \in 0 .. L : i <= j => f[i].a.edges \subseteq f[j].a.edges
  BY <1>1 DEF Run
<1>5. A.edges = f[L].a.edges
  BY <1>3 DEF Same
<1>6. Uniform(A, A.edges, n)
  BY <1>2, <1>3, <1>5
<1>7. /\ o \in Outcomes(offset, n) /\ o.a \in Assignments(offset, n) /\ Grouped(o.a, n)
      /\ Deeper(o.a, A, n)
      /\ Len(o.a.levels) = L + 1
      /\ \A i \in 1 .. L : o.a.levels[i] = A.levels[i]
      /\ \A edges : edges \subseteq A.edges /\ Uniform(A, edges, n) => Uniform(o.a, edges, n)
      /\ o.ok => Uniform(o.a, o.a.edges, n)
  BY <1>3, <1>6, DeeperFacts
<1>8. o.ok \in BOOLEAN
  BY <1>7 DEF Outcomes
<1>9. \A i \in 0 .. L : f[i].a.edges \subseteq A.edges
  BY <1>2, <1>4, <1>5
<1>10. \A i \in 0 .. L : Uniform(o.a, f[i].a.edges, n)
  BY <1>3, <1>7, <1>9
<1>11. SearchState(DecreaseDepth(o.a), k, m, from, to, early, offset, n)
  <2>1. /\ DecreaseDepth(o.a) \in Assignments(offset, n)
        /\ Grouped(DecreaseDepth(o.a), n)
        /\ Same(DecreaseDepth(o.a), A)
        /\ Len(DecreaseDepth(o.a).levels) = Len(o.a.levels) - 1
        /\ \A i \in 1 .. Len(o.a.levels) - 1 : DecreaseDepth(o.a).levels[i] = o.a.levels[i]
        /\ \A edges : edges \subseteq A.edges /\ Uniform(o.a, edges, n) =>
             Uniform(DecreaseDepth(o.a), edges, n)
    BY <1>3, <1>7, UndoFacts
  <2>2. \A i \in 0 .. L : Uniform(DecreaseDepth(o.a), f[i].a.edges, n)
    BY <2>1, <1>9, <1>10
  <2>3. Len(o.a.levels) - 1 = L
    BY <1>2, <1>7
  <2>4. \A i \in 1 .. L : DecreaseDepth(o.a).levels[i] = A.levels[i]
    BY <2>1, <2>3, <1>7
  <2>5. Levelled(f, DecreaseDepth(o.a), m, offset, n)
    BY <1>1, <1>3, <2>1, <2>2, <2>3, <2>4, LevelledLike
  <2>6. QED
    BY <1>1, <2>5 DEF SearchState
<1>12. ASSUME o.ok
       PROVE  SearchState(o.a, k, Append(m, pair), from, to, early, offset, n)
  <2> DEFINE p == MapPair(k, pair, from, to, f[L].a, early)
             g == [i \in 0 .. L + 1 |-> IF i <= L THEN f[i] ELSE p]
             q == Append(m, pair)
  <2>1. Len(q) = L + 1 /\ q[L + 1] = pair /\ \A i \in 1 .. L : q[i] = m[i]
    OBVIOUS
  <2>2. \A i \in 0 .. L : g[i] = f[i]
    BY <1>2
  <2>3. g[L + 1] = p
    BY <1>2
  <2>4. IncreaseDepth(A) \in Assignments(offset, n) /\ Grouped(IncreaseDepth(A), n)
        /\ Same(IncreaseDepth(A), A)
    BY <1>3, IncreaseFacts
  <2>5. Same(IncreaseDepth(A), f[L].a)
    BY <2>4, <1>3 DEF Same
  <2>6. f[L].a \in Assignments(offset, n) /\ Grouped(f[L].a, n) /\ Sound(f[L].a, offset, n)
    BY <1>2, <1>4 DEF Sound
  <2>7. FitsAtoms(from.heads[pair[2]], Mapped(k, to)[pair[1]], k, offset, n)
    BY DEF Mappable
  <2>8. p.ok = o.ok /\ Same(o.a, p.a)
    BY <2>4, <2>5, <2>6, <2>7, ExtendSame DEF MapPair
  <2>9. p.ok
    BY <1>12, <2>8
  <2>10. Extends(f[L].a, p, offset, n)
    BY <2>6, <2>7, ExtendFacts DEF MapPair
  <2>11. p \in Outcomes(offset, n)
    BY <2>10 DEF Extends
  <2>12. Sound(p.a, offset, n) /\ f[L].a.edges \subseteq p.a.edges
    BY <2>6, <2>9, SoundMap
  <2> HIDE DEF p, g, q
  <2>13. Run(g, k, q, from, to, early, offset, n)
    <3>1. g[0] = [ok |-> TRUE, a |-> Fresh(k, from, to)]
      BY <1>2, <1>4, <2>2
    <3>2. ASSUME NEW i \in 1 .. Len(q)
          PROVE  /\ Mappable(k, q[i], from, to, offset, n)
                 /\ g[i] = MapPair(k, q[i], from, to, g[i - 1].a, early)
      <4>1. CASE i \in 1 .. L
        <5>1. i \in 0 .. L /\ i - 1 \in 0 .. L
          BY <1>2, <4>1
        <5>2. g[i] = f[i] /\ g[i - 1] = f[i - 1] /\ q[i] = m[i]
          BY <5>1, <4>1, <2>1, <2>2
        <5>3. QED
          BY <5>2, <4>1, <1>4
      <4>2. CASE i = L + 1
        <5>1. i - 1 = L
          BY <1>2, <4>2
        <5>2. g[i] = p /\ g[i - 1] = f[L] /\ q[i] = pair
          BY <5>1, <4>2, <1>2, <2>1, <2>2, <2>3
        <5>3. QED
          BY <5>2 DEF p
      <4>3. QED
        BY <1>2, <2>1, <4>1, <4>2
    <3>3. ASSUME NEW i \in 0 .. Len(q)
          PROVE  g[i] \in Outcomes(offset, n) /\ g[i].ok /\ Sound(g[i].a, offset, n)
      <4>1. CASE i \in 0 .. L
        BY <4>1, <1>4, <2>2
      <4>2. CASE i = L + 1
        BY <4>2, <2>3, <2>9, <2>11, <2>12
      <4>3. QED
        BY <1>2, <2>1, <4>1, <4>2
    <3>4. ASSUME NEW i \in 0 .. Len(q), NEW j \in 0 .. Len(q), i <= j
          PROVE  g[i].a.edges \subseteq g[j].a.edges
      <4>1. CASE j \in 0 .. L
        <5>1. i \in 0 .. L
          BY <4>1, <3>4, <1>2, <2>1
        <5>2. QED
          BY <5>1, <4>1, <3>4, <1>4, <2>2
      <4>2. CASE i \in 0 .. L /\ j = L + 1
        <5>1. f[i].a.edges \subseteq f[L].a.edges
          BY <4>2, <1>2, <1>4
        <5>2. QED
          BY <5>1, <4>2, <2>2, <2>3, <2>12
      <4>3. CASE i = L + 1 /\ j = L + 1
        BY <4>3
      <4>4. QED
        BY <1>2, <2>1, <3>4, <4>1, <4>2, <4>3
    <3>5. QED
      BY <3>1, <3>2, <3>3, <3>4 DEF Run
  <2>14. Levelled(g, o.a, q, offset, n)
    <3>1. Same(o.a, g[Len(q)].a)
      BY <2>1, <2>3, <2>8
    <3>2. ASSUME NEW i \in 1 .. Len(q)
          PROVE  Records(o.a.levels[i], g[i - 1].a, g[i].a, n)
      <4>1. CASE i \in 1 .. L
        <5>1. i \in 0 .. L /\ i - 1 \in 0 .. L
          BY <1>2, <4>1
        <5>2. QED
          BY <5>1, <4>1, <1>3, <1>7, <2>2
      <4>2. CASE i = L + 1
        <5>1. Records(o.a.levels[L + 1], A, o.a, n)
          BY <1>7 DEF Deeper
        <5>2. Records(o.a.levels[L + 1], f[L].a, p.a, n)
          BY <5>1, <1>3, <2>8, RecordsSame
        <5>3. i - 1 = L /\ g[i - 1] = f[L] /\ g[i] = p
          BY <4>2, <1>2, <2>2, <2>3
        <5>4. QED
          BY <4>2, <5>2, <5>3
      <4>3. QED
        BY <1>2, <2>1, <4>1, <4>2
    <3>3. ASSUME NEW i \in 0 .. Len(q)
          PROVE  Uniform(o.a, g[i].a.edges, n)
      <4>1. CASE i \in 0 .. L
        BY <4>1, <1>10, <2>2
      <4>2. CASE i = L + 1
        <5>1. g[i].a.edges = o.a.edges
          BY <4>2, <2>3, <2>8 DEF Same
        <5>2. QED
          BY <5>1, <1>7, <1>12
      <4>3. QED
        BY <1>2, <2>1, <4>1, <4>2
    <3>4. QED
      BY <1>7, <2>1, <3>1, <3>2, <3>3 DEF Levelled
  <2>15. QED
    BY <2>13, <2>14 DEF SearchState, q
<1>13. QED
  BY <1>8, <1>11, <1>12

LEMMA FrontFacts ==
  ASSUME NEW T, NEW s \in Seq(T), s # << >>
  PROVE  /\ Front(s) \in Seq(T) /\ Len(s) \in Nat \ {0} /\ Len(Front(s)) = Len(s) - 1
         /\ \A i \in 1 .. Len(s) - 1 : Front(s)[i] = s[i]
         /\ Last(s) = s[Len(s)] /\ Last(s) \in T
<1>1. Len(s) \in Nat \ {0}
  OBVIOUS
<1>2. Front(s) = SubSeq(s, 1, Len(s) - 1)
  BY DEF Front
<1>3. /\ SubSeq(s, 1, Len(s) - 1) \in Seq(T)
      /\ Len(SubSeq(s, 1, Len(s) - 1)) = Len(s) - 1
      /\ \A i \in 1 .. Len(s) - 1 : SubSeq(s, 1, Len(s) - 1)[i] = s[i]
  <2>1. PICK n \in Nat : n = Len(s) - 1
    BY <1>1
  <2>2. \A i \in 1 .. n : s[i] \in T
    BY <1>1, <2>1
  <2>3. /\ SubSeq(s, 1, n) \in Seq(T)
        /\ Len(SubSeq(s, 1, n)) = IF 1 <= n THEN n - 1 + 1 ELSE 0
        /\ \A i \in 1 .. n - 1 + 1 : SubSeq(s, 1, n)[i] = s[1 + i - 1]
    BY <2>2, SubSeqProperties
  <2>4. n - 1 + 1 = n /\ (~(1 <= n) => n = 0) /\ \A i \in 1 .. n : 1 + i - 1 = i
    OBVIOUS
  <2> QED
    BY <2>1, <2>3, <2>4
<1>4. Last(s) = s[Len(s)] /\ Last(s) \in T
  BY <1>1 DEF Last
<1> QED
  BY <1>1, <1>2, <1>3, <1>4

\* Coming back to the mapping before.
LEMMA PopState ==
  ASSUME NEW k \in Kinds, NEW early \in BOOLEAN, NEW from, NEW to, NEW offset \in Nat, NEW n \in Nat,
         NEW S, NEW m \in Seq(S), NEW A, SearchState(A, k, m, from, to, early, offset, n),
         Len(m) > 0
  PROVE  SearchState(DecreaseDepth(A), k, Front(m), from, to, early, offset, n)
<1>1. PICK f : Run(f, k, m, from, to, early, offset, n) /\ Levelled(f, A, m, offset, n)
  BY DEF SearchState
<1> DEFINE L == Len(m)
           q == Front(m)
<1>2. L \in Nat /\ L > 0 /\ L \in 0 .. L /\ L - 1 \in 0 .. L /\ L \in 1 .. L /\ L - 1 \in Nat
  OBVIOUS
<1>3. Len(q) = L - 1 /\ \A i \in 1 .. L - 1 : q[i] = m[i]
  <2>1. m # << >>
    BY <1>2
  <2>2. QED
    BY <2>1, FrontFacts
<1>4. /\ A \in Assignments(offset, n) /\ Grouped(A, n) /\ Same(A, f[L].a) /\ Len(A.levels) = L
      /\ \A i \in 1 .. L : Records(A.levels[i], f[i - 1].a, f[i].a, n)
      /\ \A i \in 0 .. L : Uniform(A, f[i].a.edges, n)
  BY <1>1 DEF Levelled
<1>5. /\ f[0] = [ok |-> TRUE, a |-> Fresh(k, from, to)]
      /\ \A i \in 1 .. L : /\ Mappable(k, m[i], from, to, offset, n)
                           /\ f[i] = MapPair(k, m[i], from, to, f[i - 1].a, early)
      /\ \A i \in 0 .. L : f[i] \in Outcomes(offset, n) /\ f[i].ok /\ Sound(f[i].a, offset, n)
      /\ \A i, j \in 0 .. L : i <= j => f[i].a.edges \subseteq f[j].a.edges
  BY <1>1 DEF Run
<1> DEFINE B == f[L - 1].a
<1>6. B \in Assignments(offset, n)
  BY <1>2, <1>5 DEF Sound
<1>7. Deeper(A, B, n)
  <2>1. Records(A.levels[L], f[L - 1].a, f[L].a, n)
    BY <1>2, <1>4
  <2>2. Same(f[L - 1].a, B) /\ Same(f[L].a, A)
    BY <1>4 DEF Same
  <2>3. Records(A.levels[L], B, A, n)
    BY <2>1, <2>2, RecordsSame
  <2>4. QED
    BY <2>3, <1>2, <1>4 DEF Deeper
<1> DEFINE D == DecreaseDepth(A)
<1>8. /\ D \in Assignments(offset, n)
      /\ Grouped(D, n)
      /\ Same(D, B)
      /\ Len(D.levels) = L - 1
      /\ \A i \in 1 .. L - 1 : D.levels[i] = A.levels[i]
      /\ \A edges : edges \subseteq B.edges /\ Uniform(A, edges, n) => Uniform(D, edges, n)
  BY <1>4, <1>6, <1>7, UndoFacts
<1> HIDE DEF D, q
<1>9. Run(f, k, q, from, to, early, offset, n)
  <2>1. \A i \in 1 .. L - 1 : i \in 1 .. L /\ q[i] = m[i]
    BY <1>2, <1>3
  <2>2. \A i \in 0 .. L - 1 : i \in 0 .. L
    BY <1>2
  <2>3. QED
    BY <1>3, <1>5, <2>1, <2>2 DEF Run
<1>10. Levelled(f, D, q, offset, n)
  <2>1. Same(D, f[Len(q)].a)
    BY <1>3, <1>8
  <2>2. \A i \in 1 .. L - 1 : i \in 1 .. L
    BY <1>2
  <2>3. \A i \in 1 .. L - 1 : Records(D.levels[i], f[i - 1].a, f[i].a, n)
    BY <2>2, <1>4, <1>8
  <2>4. ASSUME NEW i \in 0 .. L - 1
        PROVE  Uniform(D, f[i].a.edges, n)
    <3>1. i \in 0 .. L /\ i <= L - 1
      BY <1>2
    <3>2. f[i].a.edges \subseteq B.edges /\ Uniform(A, f[i].a.edges, n)
      BY <1>2, <1>4, <1>5, <3>1
    <3>3. QED
      BY <3>2, <1>8
  <2>5. QED
    BY <1>3, <1>8, <2>1, <2>3, <2>4 DEF Levelled
<1>11. QED
  BY <1>9, <1>10 DEF SearchState, D, q

-----------------------------------------------------------------------------
(* What undoing restores                                                   *)

LEMMA ReplayIsRun ==
  ASSUME NEW k \in Kinds, NEW early \in BOOLEAN, NEW from, NEW to, NEW offset \in Nat, NEW n \in Nat,
         NEW S, NEW m \in Seq(S), NEW f, Run(f, k, m, from, to, early, offset, n)
  PROVE  Replay(k, m, from, to, early) = f[Len(m)]
<1>1. PICK L \in Nat : L = Len(m)
  OBVIOUS
<1>2. PICK base : base = [ok |-> TRUE, a |-> Fresh(k, from, to)]
  OBVIOUS
<1> DEFINE next(i, o) ==
             IF o.ok THEN ExtendAssignment(k, from.heads[m[i][2]], Mapped(k, to)[m[i][1]], o.a, early)
             ELSE o
           Body(g) == [i \in 0 .. L |-> IF i = 0 THEN base ELSE next(i, g[i - 1])]
           G == [i \in 0 .. L |-> f[i]]
           U == CHOOSE g : g = Body(g)
<1>3. Replay(k, m, from, to, early) = U[L]
  BY <1>1, <1>2 DEF Replay
<1>4. f[0] = base
  BY <1>2 DEF Run
<1>5. \A i \in 1 .. L : f[i] = next(i, f[i - 1])
  <2> SUFFICES ASSUME NEW i \in 1 .. L
               PROVE  f[i] = next(i, f[i - 1])
    OBVIOUS
  <2>1. i - 1 \in 0 .. L
    OBVIOUS
  <2>2. f[i - 1].ok
    BY <2>1, <1>1 DEF Run
  <2>3. f[i] = MapPair(k, m[i], from, to, f[i - 1].a, early)
    BY <1>1 DEF Run
  <2> QED
    BY <2>2, <2>3 DEF MapPair
<1> HIDE DEF next
<1>6. \A i \in 0 .. L : i # 0 => i \in 1 .. L /\ i - 1 \in 0 .. L
  OBVIOUS
<1>7. G = Body(G)
  BY <1>4, <1>5, <1>6
<1>8. U = Body(U)
  <2> HIDE DEF Body, G
  <2> QED
    BY <1>7
<1>9. U[0] = base /\ \A i \in 1 .. L : U[i] = next(i, U[i - 1])
  <2> HIDE DEF U
  <2>1. 0 \in 0 .. L /\ \A i \in 1 .. L : i \in 0 .. L /\ i # 0
    OBVIOUS
  <2> QED
    BY <1>8, <2>1
<1> HIDE DEF U, Body, G
<1> DEFINE same == { i \in 0 .. L : U[i] = f[i] }
<1>10. 0 \in same
  BY <1>4, <1>9
<1>11. \A i \in 1 .. L : i - 1 \in same => i \in same
  <2> SUFFICES ASSUME NEW i \in 1 .. L, U[i - 1] = f[i - 1]
               PROVE  i \in 0 .. L /\ U[i] = f[i]
    OBVIOUS
  <2> QED
    BY <1>5, <1>9
<1>12. 0 .. L \subseteq same
  <2> HIDE DEF same
  <2> QED
    BY <1>10, <1>11, UpTo
<1>13. L \in 0 .. L
  OBVIOUS
<1> QED
  BY <1>1, <1>3, <1>12, <1>13

Restored(A, b, group, m) ==
  /\ A.constant = b.constant /\ A.edges = b.edges
  /\ Len(A.levels) = Len(m)
  /\ \A v \in Ids(A) : group[v] = NoGroup <=> b.group[v] = NoGroup
  /\ \A v, w \in Ids(A) : b.group[v] = b.group[w] => group[v] = group[w]

LEMMA SearchStateBacktracked ==
  ASSUME NEW k \in Kinds, NEW early \in BOOLEAN, NEW from, NEW to, NEW offset \in Nat, NEW n \in Nat,
         NEW S, NEW m \in Seq(S), NEW A, SearchState(A, k, m, from, to, early, offset, n),
         NEW b, b = Replay(k, m, from, to, early).a,
         NEW group, group = FinishGroupAssignments(A).group
  PROVE  Restored(A, b, group, m)
<1>1. PICK f : Run(f, k, m, from, to, early, offset, n) /\ Levelled(f, A, m, offset, n)
  BY DEF SearchState
<1>2. Len(m) \in Nat /\ Len(m) \in 0 .. Len(m)
  OBVIOUS
<1>3. Replay(k, m, from, to, early) = f[Len(m)]
  BY <1>1, ReplayIsRun
<1>4. b = f[Len(m)].a
  BY <1>3
<1>5. Sound(b, offset, n)
  BY <1>1, <1>2, <1>4 DEF Run
<1>6. A \in Assignments(offset, n) /\ Grouped(A, n) /\ Same(A, b) /\ Len(A.levels) = Len(m)
  BY <1>1, <1>4 DEF Levelled
<1>7. A.constant = b.constant /\ A.edges = b.edges
  BY <1>6 DEF Same
<1>8. Uniform(A, A.edges, n)
  BY <1>1, <1>2, <1>4, <1>7 DEF Levelled
<1>9. Ids(A) = 0 .. n - 1
  BY <1>6 DEF Ids, Assignments
<1> DEFINE B == FinishGroupAssignments(A)
<1>10. B.edges = A.edges
  BY <1>6, FinishFacts DEF Finished
<1>11. Grouped(B, n) /\ Settled(B, A.edges, n)
  BY <1>6, <1>8, FinishSettles
<1>12. Grouped(b, n) /\ Exact(b, n) /\ (\A v \in 0 .. n - 1 : b.group[v] # Assigned)
       /\ b.group \in [0 .. n - 1 -> {NoGroup, Assigned} \cup Nat]
  BY <1>5 DEF Sound, Assignments
<1> HIDE DEF B
<1>13. group = B.group
  BY DEF B
<1>14. \A v \in 0 .. n - 1 : group[v] = NoGroup <=> b.group[v] = NoGroup
  BY <1>7, <1>10, <1>11, <1>12, <1>13 DEF Grouped
<1>15. ASSUME NEW v \in 0 .. n - 1, NEW w \in 0 .. n - 1, b.group[v] = b.group[w]
       PROVE  group[v] = group[w]
  <2>1. CASE b.group[v] = NoGroup
    BY <2>1, <1>14, <1>15
  <2>2. CASE b.group[v] # NoGroup
    <3>1. b.group[v] \in Nat
      BY <2>2, <1>12
    <3>2. w \in Connected(b.edges, n, v)
      BY <3>1, <1>12, <1>15 DEF Exact
    <3>3. QED
      BY <3>2, <1>7, <1>11, <1>13 DEF Settled
  <2>3. QED
    BY <2>1, <2>2
<1>16. QED
  BY <1>6, <1>7, <1>9, <1>14, <1>15 DEF Restored

-----------------------------------------------------------------------------
(* The rules of a search                                                   *)

Term == (-(ConstantBase - 1) .. -1) \cup (1 .. NotAssigned - 1)
MarkedAtom == [pred : STRING, terms : Seq(Term)]
MarkedRule == [heads : Seq(MarkedAtom), body : Seq(MarkedAtom)]

LEMMA BoundedMaximum ==
  ASSUME NEW N \in Nat, NEW S, S \subseteq 0 .. N, 0 \in S
  PROVE  \E v \in S : \A w \in S : w <= v
<1> DEFINE upper == { u \in Nat : \A w \in S : w <= u }
<1>1. upper # {} /\ upper \subseteq Nat
  <2>1. N \in upper
    OBVIOUS
  <2> QED
    BY <2>1
<1>2. PICK m \in upper : \A k \in upper : ~(<<k, m>> \in OpToRel(<, Nat))
  <2> HIDE DEF upper
  <2> QED
    BY <1>1, NatLessThanWellFounded, WFMin
<1>3. m \in Nat /\ \A w \in S : w <= m
  BY <1>2
<1>4. SUFFICES ASSUME m \notin S PROVE FALSE
  BY <1>3
<1>5. m - 1 \in upper
  BY <1>3, <1>4
<1>6. <<m - 1, m>> \in OpToRel(<, Nat)
  <2> DEFINE ss == <<m - 1, m>>
  <2>1. ss \in Nat \X Nat /\ ss[1] < ss[2]
    BY <1>3, <1>5
  <2> QED
    BY <2>1 DEF OpToRel
<1> QED
  BY <1>2, <1>5, <1>6

LEMMA MarkFacts ==
  ASSUME NEW rule \in Rule, NEW M, M = MarkExistential(rule)
  PROVE  /\ M \in MarkedRule
         /\ Len(M.heads) = Len(rule.heads) /\ M.body = rule.body
         /\ \A i \in 1 .. Len(rule.heads) :
              /\ M.heads[i].pred = rule.heads[i].pred
              /\ Len(M.heads[i].terms) = Len(rule.heads[i].terms)
<1> DEFINE inBody == TermsOf(rule.body)
           mark(t) == IF IsConstant(t) \/ t \in inBody THEN t ELSE -t
           markAtom(l) == [l EXCEPT !.terms = [k \in DOMAIN l.terms |-> mark(l.terms[k])]]
<1>1. rule = [heads |-> rule.heads, body |-> rule.body]
      /\ rule.heads \in Seq(Atom) /\ rule.body \in Seq(Atom)
  BY DEF Rule
<1>2. M = [rule EXCEPT !.heads = [i \in DOMAIN rule.heads |-> markAtom(rule.heads[i])]]
  BY DEF MarkExistential
<1>3. ASSUME NEW t \in 1 .. NotAssigned - 1
      PROVE  mark(t) \in Term
  <2> HIDE DEF inBody
  <2> QED
    BY DEF Term, IsConstant, NotAssigned, ConstantBase
<1>4. ASSUME NEW l \in Atom
      PROVE  /\ markAtom(l) \in MarkedAtom /\ markAtom(l).pred = l.pred
             /\ Len(markAtom(l).terms) = Len(l.terms)
  <2>1. l.terms \in Seq(1 .. NotAssigned - 1) /\ l.pred \in STRING
        /\ l = [pred |-> l.pred, terms |-> l.terms]
    BY DEF Atom
  <2>2. PICK s \in Seq(1 .. NotAssigned - 1) : s = l.terms
    BY <2>1
  <2> DEFINE u == [k \in DOMAIN s |-> mark(s[k])]
  <2>3. DOMAIN s = 1 .. Len(s) /\ Len(s) \in Nat /\ \A k \in 1 .. Len(s) : s[k] \in 1 .. NotAssigned - 1
    <3> HIDE DEF mark, u
    <3>1. PICK T : T = 1 .. NotAssigned - 1
      OBVIOUS
    <3>2. s \in Seq(T)
      BY <3>1
    <3>3. DOMAIN s = 1 .. Len(s) /\ Len(s) \in Nat /\ \A k \in 1 .. Len(s) : s[k] \in T
      BY <3>2
    <3> QED
      BY <3>1, <3>3
  <2>4. u \in Seq(Term) /\ Len(u) = Len(s)
    <3> HIDE DEF mark
    <3>1. \A k \in 1 .. Len(s) : mark(s[k]) \in Term
      BY <1>3, <2>3
    <3> QED
      BY <2>3, <3>1
  <2>5. markAtom(l) = [pred |-> l.pred, terms |-> u]
    <3> HIDE DEF mark
    <3> QED
      BY <2>1, <2>2
  <2> HIDE DEF u
  <2>6. [pred |-> l.pred, terms |-> u] \in MarkedAtom
    BY <2>1, <2>4 DEF MarkedAtom
  <2> QED
    <3> HIDE DEF markAtom
    <3> QED
      BY <2>2, <2>4, <2>5, <2>6
<1>5. PICK h \in Seq(Atom) : h = rule.heads
  BY <1>1
<1> DEFINE H == [i \in DOMAIN h |-> markAtom(h[i])]
<1>6. DOMAIN h = 1 .. Len(h) /\ Len(h) \in Nat /\ \A i \in 1 .. Len(h) : h[i] \in Atom
  <2> HIDE DEF markAtom
  <2> QED
    OBVIOUS
<1>7. M = [heads |-> H, body |-> rule.body]
  <2> HIDE DEF markAtom
  <2> QED
    BY <1>1, <1>2, <1>5
<1>8. \A i \in 1 .. Len(h) : /\ markAtom(h[i]) \in MarkedAtom /\ markAtom(h[i]).pred = h[i].pred
                             /\ Len(markAtom(h[i]).terms) = Len(h[i].terms)
  <2> HIDE DEF markAtom
  <2> QED
    BY <1>4, <1>6
<1> HIDE DEF markAtom
<1>9. H \in Seq(MarkedAtom) /\ Len(H) = Len(h) /\ \A i \in 1 .. Len(h) : H[i] = markAtom(h[i])
  BY <1>6, <1>8
<1>10. rule.body \in Seq(MarkedAtom)
  <2>1. Atom \subseteq MarkedAtom
    <3>1. 1 .. NotAssigned - 1 \subseteq Term
      BY DEF Term
    <3>2. Seq(1 .. NotAssigned - 1) \subseteq Seq(Term)
      <4>1. PICK T : T = 1 .. NotAssigned - 1
        OBVIOUS
      <4>2. T \subseteq Term
        BY <3>1, <4>1
      <4>3. ASSUME NEW s \in Seq(T)
            PROVE  s \in Seq(Term)
        BY <4>2
      <4> QED
        BY <4>1, <4>3
    <3> QED
      BY <3>2 DEF Atom, MarkedAtom
  <2> QED
    BY <1>1, <2>1
<1> HIDE DEF H
<1> QED
  BY <1>5, <1>7, <1>8, <1>9, <1>10 DEF MarkedRule

Magnitude(t) == IF t < 0 THEN -t ELSE t

LEMMA HighestFacts ==
  ASSUME NEW rule \in MarkedRule
  PROVE  /\ HighestId(rule) \in Nat
         /\ \A t \in TermsOf(rule.heads) \cup TermsOf(rule.body) :
              /\ t \in Term
              /\ ~IsConstant(t) => Magnitude(t) <= HighestId(rule)
<1> DEFINE terms == TermsOf(rule.heads) \cup TermsOf(rule.body)
           ids == {0} \cup {IF t < 0 THEN -t ELSE t : t \in {t \in terms : ~IsConstant(t)}}
<1>1. rule.heads \in Seq(MarkedAtom) /\ rule.body \in Seq(MarkedAtom)
  BY DEF MarkedRule
<1>2. ASSUME NEW atoms \in Seq(MarkedAtom)
      PROVE  TermsOf(atoms) \subseteq Term
  <2> SUFFICES ASSUME NEW i \in DOMAIN atoms, NEW t \in ToSet(atoms[i].terms)
               PROVE  t \in Term
    BY DEF TermsOf, ToSet
  <2>1. atoms[i] \in MarkedAtom
    OBVIOUS
  <2>2. atoms[i].terms \in Seq(Term)
    BY <2>1 DEF MarkedAtom
  <2>3. PICK s \in Seq(Term) : s = atoms[i].terms
    BY <2>2
  <2> QED
    BY <2>3 DEF ToSet
<1>3. terms \subseteq Term
  BY <1>1, <1>2
<1> HIDE DEF terms
<1>4. ids \subseteq 0 .. ConstantBase - 1
  BY <1>3 DEF Term, IsConstant, ConstantBase, NotAssigned
<1>5. \E v \in ids : \A w \in ids : w <= v
  <2>1. 0 \in ids /\ ConstantBase - 1 \in Nat
    BY DEF ConstantBase
  <2> HIDE DEF ids
  <2> QED
    BY <1>4, <2>1, BoundedMaximum
<1>6. HighestId(rule) = CHOOSE v \in ids : \A w \in ids : w <= v
  BY DEF HighestId, terms
<1>7. HighestId(rule) \in ids /\ \A w \in ids : w <= HighestId(rule)
  <2> HIDE DEF ids
  <2> QED
    BY <1>5, <1>6
<1>8. ASSUME NEW t \in terms, ~IsConstant(t)
      PROVE  Magnitude(t) \in ids
  BY <1>8 DEF Magnitude
<1> QED
  <2>1. HighestId(rule) \in Nat
    BY <1>4, <1>7
  <2>2. \A t \in terms : t \in Term /\ (~IsConstant(t) => Magnitude(t) <= HighestId(rule))
    BY <1>3, <1>7, <1>8
  <2> QED
    BY <2>1, <2>2 DEF terms

LEMMA TermsFacts ==
  ASSUME NEW T, NEW atoms, NEW i \in DOMAIN atoms, NEW k \in DOMAIN atoms[i].terms
  PROVE  atoms[i].terms[k] \in TermsOf(atoms)
BY DEF TermsOf, ToSet

\* Atoms of the rules can be mapped: their ids are in range.
LEMMA PairsAreMappable ==
  ASSUME NEW k \in Kinds, NEW from \in MarkedRule, NEW to \in MarkedRule, k = "self" => from = to,
         NEW offset, offset = HighestId(from) + 1,
         NEW n, n = offset + (IF k = "self" THEN 0 ELSE HighestId(to) + 1),
         NEW pair \in (DOMAIN Mapped(k, to)) \X (DOMAIN from.heads),
         Len(Mapped(k, to)[pair[1]].terms) = Len(from.heads[pair[2]].terms)
  PROVE  Mappable(k, pair, from, to, offset, n)
<1> DEFINE s == from.heads[pair[2]]
           t == Mapped(k, to)[pair[1]]
<1>1. /\ from.heads \in Seq(MarkedAtom) /\ from.body \in Seq(MarkedAtom)
      /\ to.heads \in Seq(MarkedAtom) /\ to.body \in Seq(MarkedAtom)
  BY DEF MarkedRule
<1>2. Mapped(k, to) \in Seq(MarkedAtom)
  BY <1>1 DEF Mapped
<1>3. pair[1] \in DOMAIN Mapped(k, to) /\ pair[2] \in DOMAIN from.heads
  OBVIOUS
<1>4. s \in MarkedAtom /\ t \in MarkedAtom
  BY <1>1, <1>2, <1>3
<1>5. s.terms \in Seq(Term) /\ t.terms \in Seq(Term) /\ Len(s.terms) = Len(t.terms)
  BY <1>4 DEF MarkedAtom
<1>6. PICK L \in Nat : L = Len(s.terms)
  BY <1>5
<1>7. DOMAIN s.terms = 1 .. L /\ DOMAIN t.terms = 1 .. L
  BY <1>5, <1>6
<1>8. HighestId(from) \in Nat /\ HighestId(to) \in Nat
  BY HighestFacts
<1>9. ASSUME NEW j \in 1 .. L
      PROVE  Fits(s.terms[j], "From", k, offset, n) /\ Fits(t.terms[j], "To", k, offset, n)
  <2>1. s.terms[j] \in TermsOf(from.heads)
    BY <1>3, <1>7, TermsFacts
  <2>2. t.terms[j] \in TermsOf(to.heads) \cup TermsOf(to.body)
    <3>1. t.terms[j] \in TermsOf(Mapped(k, to))
      BY <1>3, <1>7, TermsFacts
    <3> QED
      BY <3>1 DEF Mapped
  <2>3. PICK x : x = s.terms[j]
    OBVIOUS
  <2>4. PICK y : y = t.terms[j]
    OBVIOUS
  <2>5. x \in Term /\ (~IsConstant(x) => Magnitude(x) <= HighestId(from))
    BY <2>1, <2>3, HighestFacts
  <2>6. y \in Term /\ (~IsConstant(y) => Magnitude(y) <= HighestId(to))
    BY <2>2, <2>4, HighestFacts
  <2>7. /\ x \in Int /\ x # NotAssigned /\ Magnitude(x) \in Nat
        /\ y \in Int /\ y # NotAssigned /\ Magnitude(y) \in Nat
    BY <2>5, <2>6 DEF Term, NotAssigned, ConstantBase, Magnitude
  <2>8. Fits(x, "From", k, offset, n)
    <3>1. ASSUME ~IsConstant(x)
          PROVE  Magnitude(x) \in 0 .. n - 1
      BY <3>1, <1>8, <2>5, <2>7
    <3> QED
      BY <2>7, <3>1 DEF Fits, Magnitude
  <2>9. Fits(y, "To", k, offset, n)
    <3>1. ASSUME ~IsConstant(y)
          PROVE  Magnitude(y) + (IF k = "self" THEN 0 ELSE offset) \in 0 .. n - 1
      <4>1. CASE k = "self"
        BY <4>1, <3>1, <1>8, <2>6, <2>7
      <4>2. CASE k # "self"
        BY <4>2, <3>1, <1>8, <2>6, <2>7
      <4> QED
        BY <4>1, <4>2
    <3>2. (IF k = "self" THEN 0 ELSE offset) = (IF k = "self" \/ "To" = "From" THEN 0 ELSE offset)
      OBVIOUS
    <3> QED
      BY <2>7, <3>1, <3>2 DEF Fits, Magnitude
  <2> QED
    BY <2>3, <2>4, <2>8, <2>9
<1> QED
  BY <1>6, <1>9 DEF Mappable, FitsAtoms

-----------------------------------------------------------------------------
(* The pairs of rules that are visited                                     *)

LEMMA FlattenFacts ==
  ASSUME NEW T, NEW seqs \in Seq(Seq(T))
  PROVE  FlattenSeq(seqs) \in Seq(T)
<1>1. PICK L \in Nat : L = Len(seqs) /\ DOMAIN seqs = 1 .. L /\ \A i \in 1 .. L : seqs[i] \in Seq(T)
  OBVIOUS
<1>2. CASE L = 0
  <2>1. FlattenSeq(seqs) = seqs /\ seqs = << >>
    BY <1>1, <1>2 DEF FlattenSeq
  <2> QED
    BY <2>1
<1>3. CASE L # 0
  <2> DEFINE M == L - 1
             base == seqs[1]
             step == [p \in (1 .. M) \X Seq(T) |-> p[2] \o seqs[p[1] + 1]]
             Body(f) == [i \in 1 .. L |-> IF i = 1 THEN seqs[i] ELSE f[i - 1] \o seqs[i]]
             U == CHOOSE f : f = Body(f)
  <2>1. M \in Nat /\ base \in Seq(T)
    BY <1>1, <1>3
  <2>2. step \in [(1 .. M) \X Seq(T) -> Seq(T)]
    <3>1. \A i \in 1 .. M, x \in Seq(T) : x \o seqs[i + 1] \in Seq(T)
      <4> SUFFICES ASSUME NEW i \in 1 .. M, NEW x \in Seq(T)
                   PROVE  x \o seqs[i + 1] \in Seq(T)
        OBVIOUS
      <4>1. PICK y \in Seq(T) : y = seqs[i + 1]
        BY <1>1
      <4> QED
        BY <4>1
    <3> QED
      BY <3>1
  <2>3. \E G \in [0 .. M -> Seq(T)] : Recursive(G, M, base, step)
    <3> HIDE DEF step, base, M
    <3> QED
      BY <2>1, <2>2, RecursionExists
  <2>4. PICK G \in [0 .. M -> Seq(T)] :
          G = [i \in 0 .. M |-> IF i = 0 THEN base ELSE step[<<i, G[i - 1]>>]]
    BY <2>3 DEF Recursive
  <2>5. \A i \in 1 .. M : G[i] = G[i - 1] \o seqs[i + 1]
    <3> SUFFICES ASSUME NEW i \in 1 .. M
                 PROVE  G[i] = G[i - 1] \o seqs[i + 1]
      OBVIOUS
    <3>1. i \in 0 .. M /\ i # 0 /\ i - 1 \in 0 .. M
      OBVIOUS
    <3>2. PICK x \in Seq(T) : x = G[i - 1]
      BY <3>1
    <3>3. step[<<i, x>>] = x \o seqs[i + 1]
      OBVIOUS
    <3>4. G[i] = step[<<i, x>>]
      <4> HIDE DEF step
      <4> QED
        BY <2>4, <3>1, <3>2
    <3> QED
      BY <3>2, <3>3, <3>4
  <2>6. G[0] = base
    <3> HIDE DEF step, base
    <3>1. 0 \in 0 .. M
      BY <2>1
    <3> QED
      BY <2>4, <3>1
  <2> DEFINE F == [i \in 1 .. L |-> G[i - 1]]
  <2>7. F = Body(F)
    <3>1. \A i \in 1 .. L : i # 1 => i - 1 \in 1 .. L /\ i - 1 \in 1 .. M /\ (i - 1) + 1 = i
      BY <1>1
    <3>2. ASSUME NEW i \in 1 .. L
          PROVE  G[i - 1] = IF i = 1 THEN seqs[i] ELSE F[i - 1] \o seqs[i]
      <4>1. CASE i = 1
        BY <4>1, <2>6
      <4>2. CASE i # 1
        <5>1. F[i - 1] = G[(i - 1) - 1]
          BY <4>2, <3>1
        <5>2. G[i - 1] = G[(i - 1) - 1] \o seqs[(i - 1) + 1]
          BY <4>2, <3>1, <2>5
        <5> QED
          BY <4>2, <5>1, <5>2, <3>1
      <4> QED
        BY <4>1, <4>2
    <3> QED
      BY <3>2
  <2>8. U = Body(U)
    <3> HIDE DEF Body, F
    <3> QED
      BY <2>7
  <2>9. FlattenSeq(seqs) = U[L]
    BY <1>1, <1>3 DEF FlattenSeq
  <2>10. U[1] = seqs[1] /\ \A i \in 2 .. L : U[i] = U[i - 1] \o seqs[i]
    <3> HIDE DEF U
    <3>1. 1 \in 1 .. L /\ \A i \in 2 .. L : i \in 1 .. L /\ i # 1
      BY <1>1, <1>3
    <3> QED
      BY <2>8, <3>1
  <2> HIDE DEF U, Body, F
  <2> DEFINE S == { i \in 0 .. M : U[i + 1] \in Seq(T) }
  <2>11. 0 \in S
    BY <2>1, <2>10
  <2>12. ASSUME NEW i \in 1 .. M, i - 1 \in S
         PROVE  i \in S
    <3>1. i \in 0 .. M /\ i + 1 \in 2 .. L /\ (i + 1) - 1 = i /\ (i - 1) + 1 = i
      BY <1>1
    <3>2. PICK x \in Seq(T) : x = U[i]
      BY <2>12, <3>1
    <3>3. PICK y \in Seq(T) : y = seqs[i + 1]
      BY <1>1, <3>1
    <3>4. U[i + 1] = x \o y
      BY <2>10, <3>1, <3>2, <3>3
    <3>5. x \o y \in Seq(T)
      OBVIOUS
    <3> QED
      BY <3>1, <3>4, <3>5
  <2>13. 0 .. M \subseteq S
    <3> HIDE DEF S
    <3> QED
      BY <2>1, <2>11, <2>12, UpTo
  <2>14. M \in 0 .. M /\ M + 1 = L
    BY <1>1, <1>3
  <2> QED
    BY <2>9, <2>13, <2>14
<1> QED
  BY <1>2, <1>3

LEMMA PairsFacts ==
  ASSUME NEW k, NEW N \in Nat, NEW marked, DOMAIN marked = 1 .. N,
         \A r \in 1 .. N : marked[r] \in MarkedRule, NEW flags
  PROVE  PairsOf(k, marked, flags) \in Seq((1 .. N) \X (1 .. N))
<1> DEFINE related(from, h) ==
             {to \in DOMAIN marked : Mentions(k, marked[to], marked[from].heads[h].pred)}
           first(from, h, to) == to \in related(from, h) /\ \A j \in 1 .. h - 1 : to \notin related(from, j)
           each(from, h) == [to \in DOMAIN marked |-> IF first(from, h, to) THEN << to >> ELSE << >>]
           new(from, h) == FlattenSeq(each(from, h))
           tos(from) == IF "CutPairs" \in flags
                        THEN FlattenSeq([h \in DOMAIN marked[from].heads |-> new(from, h)])
                        ELSE Numbers(marked)
           of(from) == [i \in DOMAIN tos(from) |-> <<from, tos(from)[i]>>]
<1>1. PairsOf(k, marked, flags) = FlattenSeq([from \in DOMAIN marked |-> of(from)])
  BY DEF PairsOf
<1> HIDE DEF first
<1>2. ASSUME NEW from \in 1 .. N, NEW h
      PROVE  new(from, h) \in Seq(1 .. N)
  <2>1. ASSUME NEW to \in 1 .. N
        PROVE  (IF first(from, h, to) THEN << to >> ELSE << >>) \in Seq(1 .. N)
    <3>1. << to >> \in Seq(1 .. N)
      OBVIOUS
    <3>2. << >> \in Seq(1 .. N)
      OBVIOUS
    <3> QED
      BY <3>1, <3>2
  <2>2. each(from, h) \in Seq(Seq(1 .. N))
    BY <2>1
  <2> HIDE DEF each
  <2> QED
    BY <2>2, FlattenFacts
<1> HIDE DEF new
<1>3. ASSUME NEW from \in 1 .. N
      PROVE  tos(from) \in Seq(1 .. N)
  <2>1. CASE "CutPairs" \in flags
    <3>1. marked[from].heads \in Seq(MarkedAtom)
      BY DEF MarkedRule
    <3>2. PICK H \in Nat : DOMAIN marked[from].heads = 1 .. H
      BY <3>1
    <3>3. [h \in DOMAIN marked[from].heads |-> new(from, h)] \in Seq(Seq(1 .. N))
      BY <1>2, <3>2
    <3>4. FlattenSeq([h \in DOMAIN marked[from].heads |-> new(from, h)]) \in Seq(1 .. N)
      BY <3>3, FlattenFacts
    <3> QED
      BY <2>1, <3>4
  <2>2. CASE "CutPairs" \notin flags
    <3>1. Numbers(marked) \in Seq(1 .. N)
      BY DEF Numbers
    <3> QED
      BY <2>2, <3>1
  <2> QED
    BY <2>1, <2>2
<1>4. ASSUME NEW from \in 1 .. N
      PROVE  of(from) \in Seq((1 .. N) \X (1 .. N))
  <2>1. PICK s \in Seq(1 .. N) : s = tos(from)
    BY <1>3
  <2>2. [i \in DOMAIN s |-> <<from, s[i]>>] \in Seq((1 .. N) \X (1 .. N))
    <3>1. DOMAIN s = 1 .. Len(s) /\ Len(s) \in Nat /\ \A i \in 1 .. Len(s) : <<from, s[i]>> \in (1 .. N) \X (1 .. N)
      OBVIOUS
    <3> QED
      BY <3>1
  <2> HIDE DEF tos
  <2> QED
    BY <2>1, <2>2
<1> HIDE DEF of
<1>5. [from \in DOMAIN marked |-> of(from)] \in Seq(Seq((1 .. N) \X (1 .. N)))
  BY <1>4
<1> QED
  BY <1>1, <1>5, FlattenFacts

-----------------------------------------------------------------------------
(* The inductive invariant                                                 *)

GivenOK ==
  /\ input \in Inputs
  /\ markedRules = [r \in DOMAIN input.rules |-> MarkExistential(input.rules[r])]
  /\ pairs \in Seq((DOMAIN input.rules) \X (DOMAIN input.rules))

DriverOK ==
  /\ pc \in {"driver", "extend", "iterate", "try", "answer", "done"}
  /\ position \in 1 .. Len(pairs) + 1
  /\ pc \notin {"driver", "done"} => position \in 1 .. Len(pairs)
  /\ answer \in BOOLEAN /\ isTimeout \in BOOLEAN /\ timeout \in BOOLEAN
  /\ graph \subseteq ToSet(pairs)
  /\ \A h \in DOMAIN cache : cache[h] \in BOOLEAN

\* The pairs of atoms that are mapped; the last entry of the stack is the
\* next one to try, while there is one.
Mapping == IF pc = "try" THEN Front(stack) ELSE stack
AtomPairs == (DOMAIN Mapped(kind, To)) \X (DOMAIN From.heads)

\* The n-th atom mapped stands at position n or later.
Climbs(s) == s \in Seq(Nat \X Nat) /\ \A i \in DOMAIN s : i <= s[i][1]

StackOK ==
  /\ kind \in Kinds
  /\ kind = "self" /\ pc \in {"iterate", "extend", "try", "answer"} => SamePair
  /\ Climbs(stack)
  /\ pc = "try" => stack # << >>
  /\ pc \in {"try", "extend"} => Mapping \in Seq(AtomPairs)

Offset == HighestId(From) + 1
Size == Offset + (IF kind = "self" THEN 0 ELSE HighestId(To) + 1)

StateOK ==
  pc \in {"try", "extend"} => SearchState(a, kind, Mapping, From, To, Early, Offset, Size)

IInv == GivenOK /\ DriverOK /\ StackOK /\ StateOK

LEMMA GivenFacts ==
  ASSUME GivenOK
  PROVE  /\ input.kind \in {"positive", "restraint"}
         /\ input.rules \in Seq(Rule)
         /\ Len(input.rules) \in Nat
         /\ DOMAIN markedRules = 1 .. Len(input.rules) /\ DOMAIN input.rules = 1 .. Len(input.rules)
         /\ \A r \in 1 .. Len(input.rules) :
              /\ input.rules[r] \in Rule
              /\ markedRules[r] = MarkExistential(input.rules[r])
              /\ markedRules[r] \in MarkedRule
<1>1. input.kind \in {"positive", "restraint"} /\ input.rules \in Seq(Rule)
  BY InputAssumption DEF GivenOK
<1>2. PICK s \in Seq(Rule) : s = input.rules
  BY <1>1
<1>3. Len(s) \in Nat /\ DOMAIN s = 1 .. Len(s) /\ \A r \in 1 .. Len(s) : s[r] \in Rule
  OBVIOUS
<1>4. markedRules = [r \in DOMAIN s |-> MarkExistential(s[r])]
  BY <1>2 DEF GivenOK
<1>5. \A r \in 1 .. Len(s) : MarkExistential(s[r]) \in MarkedRule
  BY <1>3, MarkFacts
<1> QED
  BY <1>1, <1>2, <1>3, <1>4, <1>5

LEMMA AtomInFacts ==
  ASSUME NEW program, NEW r \in DOMAIN program
  PROVE  /\ \A i \in DOMAIN program[r].heads : program[r].heads[i] \in AtomsIn(program)
         /\ \A i \in DOMAIN program[r].body : program[r].body[i] \in AtomsIn(program)
<1>1. program[r] \in ToSet(program)
  BY DEF ToSet
<1>2. ToSet(program[r].heads) \cup ToSet(program[r].body) \subseteq AtomsIn(program)
  BY <1>1 DEF AtomsIn
<1>3. \A i \in DOMAIN program[r].heads : program[r].heads[i] \in ToSet(program[r].heads)
  BY DEF ToSet
<1>4. \A i \in DOMAIN program[r].body : program[r].body[i] \in ToSet(program[r].body)
  BY DEF ToSet
<1> QED
  BY <1>2, <1>3, <1>4

LEMMA PairFacts ==
  ASSUME GivenOK, position \in 1 .. Len(pairs)
  PROVE  /\ From \in MarkedRule /\ To \in MarkedRule
         /\ SamePair => From = To
         /\ pairs[position] \in ToSet(pairs)
         /\ \A k \in Kinds : \A c \in (DOMAIN Mapped(k, To)) \X (DOMAIN From.heads) :
              Mapped(k, To)[c[1]].pred = From.heads[c[2]].pred =>
                Len(Mapped(k, To)[c[1]].terms) = Len(From.heads[c[2]].terms)
<1>1. PICK program \in Seq(Rule) : program = input.rules
  BY GivenFacts
<1>2. PICK N \in Nat : N = Len(program) /\ DOMAIN program = 1 .. N
  OBVIOUS
<1>3. \A r \in 1 .. N : /\ program[r] \in Rule /\ markedRules[r] = MarkExistential(program[r])
                        /\ markedRules[r] \in MarkedRule
  BY <1>1, <1>2, GivenFacts
<1>4. pairs \in Seq((1 .. N) \X (1 .. N))
  BY <1>1, <1>2 DEF GivenOK
<1> PICK p \in (1 .. N) \X (1 .. N) : p = pairs[position]
  BY <1>4
<1>5. PICK r \in 1 .. N : r = pairs[position][1]
  OBVIOUS
<1>6. PICK q \in 1 .. N : q = pairs[position][2]
  OBVIOUS
<1>7. From = markedRules[r] /\ To = markedRules[q]
  BY <1>5, <1>6 DEF From, To
<1>8. SamePair => From = To
  BY <1>5, <1>6, <1>7 DEF SamePair
<1>9. pairs[position] \in ToSet(pairs)
  BY <1>4 DEF ToSet
<1>10. \A l, m \in AtomsIn(program) : l.pred = m.pred => Len(l.terms) = Len(m.terms)
  BY <1>1, InputAssumption DEF GivenOK
<1>11. ASSUME NEW x \in 1 .. N, NEW i \in DOMAIN markedRules[x].heads
       PROVE  /\ i \in DOMAIN program[x].heads
              /\ markedRules[x].heads[i].pred = program[x].heads[i].pred
              /\ Len(markedRules[x].heads[i].terms) = Len(program[x].heads[i].terms)
  <2>1. PICK R \in Rule : R = program[x]
    BY <1>3
  <2>2. PICK M : M = markedRules[x]
    OBVIOUS
  <2>3. M = MarkExistential(R)
    BY <1>3, <2>1, <2>2
  <2>4. /\ M \in MarkedRule
        /\ Len(M.heads) = Len(R.heads) /\ M.body = R.body
        /\ \A j \in 1 .. Len(R.heads) :
             M.heads[j].pred = R.heads[j].pred /\ Len(M.heads[j].terms) = Len(R.heads[j].terms)
    BY <2>3, MarkFacts
  <2>5. M.heads \in Seq(MarkedAtom)
    BY <2>4 DEF MarkedRule
  <2>6. R.heads \in Seq(Atom)
    BY DEF Rule
  <2>7. DOMAIN M.heads = 1 .. Len(R.heads) /\ DOMAIN R.heads = 1 .. Len(R.heads)
    BY <2>4, <2>5, <2>6
  <2> QED
    BY <2>1, <2>2, <2>4, <2>7
<1>12. ASSUME NEW k \in Kinds, NEW c \in (DOMAIN Mapped(k, To)) \X (DOMAIN From.heads),
              Mapped(k, To)[c[1]].pred = From.heads[c[2]].pred
       PROVE  Len(Mapped(k, To)[c[1]].terms) = Len(From.heads[c[2]].terms)
  <2>1. PICK i \in DOMAIN Mapped(k, To) : i = c[1]
    OBVIOUS
  <2>2. PICK j \in DOMAIN From.heads : j = c[2]
    OBVIOUS
  <2>3. /\ program[r].heads[j] \in AtomsIn(program)
        /\ From.heads[j].pred = program[r].heads[j].pred
        /\ Len(From.heads[j].terms) = Len(program[r].heads[j].terms)
    BY <1>2, <1>7, <1>11, AtomInFacts
  <2>4. \E l \in AtomsIn(program) : /\ Mapped(k, To)[i].pred = l.pred
                                    /\ Len(Mapped(k, To)[i].terms) = Len(l.terms)
    <3>1. CASE k = "positive"
      <4>1. Mapped(k, To) = program[q].body
        <5>1. markedRules[q].body = program[q].body
          BY <1>3, MarkFacts
        <5> QED
          BY <3>1, <5>1, <1>7 DEF Mapped
      <4>2. program[q].body[i] \in AtomsIn(program)
        BY <4>1, <1>2, AtomInFacts
      <4> QED
        BY <4>1, <4>2
    <3>2. CASE k # "positive"
      <4>1. Mapped(k, To) = markedRules[q].heads
        BY <3>2, <1>7 DEF Mapped
      <4>2. /\ i \in DOMAIN program[q].heads
            /\ markedRules[q].heads[i].pred = program[q].heads[i].pred
            /\ Len(markedRules[q].heads[i].terms) = Len(program[q].heads[i].terms)
        BY <4>1, <1>11
      <4>3. program[q].heads[i] \in AtomsIn(program)
        BY <4>2, <1>2, AtomInFacts
      <4> QED
        BY <4>1, <4>2, <4>3
    <3> QED
      BY <3>1, <3>2
  <2> QED
    BY <1>10, <1>12, <2>1, <2>2, <2>3, <2>4
<1> QED
  BY <1>3, <1>7, <1>8, <1>9, <1>12

\* The first candidate is one.
LEMMA CandidateFacts ==
  ASSUME Candidates # {}, GivenOK, position \in 1 .. Len(pairs)
  PROVE  Candidate \in Candidates /\ Candidates \subseteq AtomPairs /\ Candidates \subseteq Nat \X Nat
<1>1. Candidates \subseteq AtomPairs
  BY DEF Candidates, AtomPairs
<1>2. From.heads \in Seq(MarkedAtom) /\ Mapped(kind, To) \in Seq(MarkedAtom)
  BY PairFacts DEF MarkedRule, Mapped
<1>3. PICK hs \in Seq(MarkedAtom) : hs = From.heads
  BY <1>2
<1>4. PICK ms \in Seq(MarkedAtom) : ms = Mapped(kind, To)
  BY <1>2
<1>5. DOMAIN hs \subseteq Nat /\ DOMAIN ms \subseteq Nat
  OBVIOUS
<1>6. AtomPairs \subseteq Nat \X Nat
  BY <1>3, <1>4, <1>5 DEF AtomPairs
<1>7. PICK C : C = Candidates /\ C # {} /\ C \subseteq Nat \X Nat
  BY <1>1, <1>6
<1> DEFINE firsts == {c[1] : c \in C}
<1>8. firsts # {} /\ firsts \subseteq Nat
  BY <1>7
<1>9. PICK x \in firsts : \A y \in firsts : ~(<<y, x>> \in OpToRel(<, Nat))
  <2> HIDE DEF firsts
  <2> QED
    BY <1>8, NatLessThanWellFounded, WFMin
<1> DEFINE seconds == {d \in Nat : <<x, d>> \in C}
<1>10. seconds # {} /\ seconds \subseteq Nat
  <2>1. PICK c \in C : c[1] = x
    BY <1>9
  <2>2. c = <<x, c[2]>> /\ c[2] \in Nat
    BY <1>7, <2>1
  <2>3. c[2] \in seconds
    BY <2>2
  <2> QED
    BY <2>3
<1>11. PICK z \in seconds : \A y \in seconds : ~(<<y, z>> \in OpToRel(<, Nat))
  <2> HIDE DEF seconds
  <2> QED
    BY <1>10, NatLessThanWellFounded, WFMin
<1>12. ASSUME NEW u \in Nat, NEW v \in Nat, ~(<<u, v>> \in OpToRel(<, Nat))
       PROVE  v <= u
  <2>1. SUFFICES ASSUME u < v PROVE FALSE
    OBVIOUS
  <2> DEFINE ss == <<u, v>>
  <2>2. ss \in Nat \X Nat /\ ss[1] < ss[2]
    BY <2>1
  <2>3. ss \in OpToRel(<, Nat)
    BY <2>2 DEF OpToRel
  <2> QED
    BY <1>12, <2>3
<1>13. <<x, z>> \in C /\ x \in Nat /\ z \in Nat
  BY <1>8, <1>11
<1>14. ASSUME NEW d \in C
       PROVE  x < d[1] \/ (x = d[1] /\ z <= d[2])
  <2>1. d[1] \in Nat /\ d[2] \in Nat /\ d = <<d[1], d[2]>> /\ d[1] \in firsts
    BY <1>7
  <2>2. x <= d[1]
    <3> HIDE DEF firsts
    <3> QED
      BY <2>1, <1>9, <1>12, <1>13
  <2>3. CASE x = d[1]
    <3>1. d[2] \in seconds
      BY <2>1, <2>3
    <3>2. z <= d[2]
      <4> HIDE DEF seconds
      <4> QED
        BY <3>1, <2>1, <1>11, <1>12, <1>13
    <3> QED
      BY <2>3, <3>2
  <2> QED
    BY <2>1, <2>2, <2>3, <1>13
<1>15. PICK b : b = <<x, z>>
  OBVIOUS
<1>16. b \in C /\ \A d \in C : b[1] < d[1] \/ (b[1] = d[1] /\ b[2] <= d[2])
  BY <1>13, <1>14, <1>15
<1>17. Candidate \in C
  BY <1>7, <1>16 DEF Candidate
<1> QED
  BY <1>1, <1>6, <1>7, <1>17

LEMMA UnmovedFacts ==
  ASSUME GivenOK, UNCHANGED given
  PROVE  /\ GivenOK'
         /\ position' = position => /\ From' = From /\ To' = To /\ SamePair' = SamePair
                                    /\ Early' = Early
         /\ pairs' = pairs
<1>1. input' = input /\ strategy' = strategy /\ markedRules' = markedRules /\ pairs' = pairs
  BY DEF given
<1>2. GivenOK'
  BY <1>1 DEF GivenOK
<1>3. position' = position => From' = From /\ To' = To /\ SamePair' = SamePair /\ Early' = Early
  BY <1>1 DEF From, To, SamePair, Early
<1> QED
  BY <1>1, <1>2, <1>3

LEMMA InitIInv == Init => IInv
<1> SUFFICES ASSUME Init PROVE IInv
  OBVIOUS
<1>1. PICK program \in Seq(Rule) : program = input.rules
  BY InputAssumption DEF Init
<1>2. Len(program) \in Nat /\ DOMAIN program = 1 .. Len(program)
      /\ \A r \in 1 .. Len(program) : program[r] \in Rule
  OBVIOUS
<1>3. markedRules = [r \in 1 .. Len(program) |-> MarkExistential(program[r])]
  BY <1>1, <1>2 DEF Init
<1>4. DOMAIN markedRules = 1 .. Len(program)
      /\ \A r \in 1 .. Len(program) : markedRules[r] \in MarkedRule
  BY <1>2, <1>3, MarkFacts
<1>5. pairs \in Seq((1 .. Len(program)) \X (1 .. Len(program)))
  BY <1>2, <1>4, PairsFacts DEF Init
<1>6. GivenOK
  BY <1>1, <1>2, <1>3, <1>5 DEF GivenOK, Init
<1>7. DriverOK
  <2>1. position = 1 /\ Len(pairs) \in Nat
    BY <1>5 DEF Init
  <2>2. graph = {} /\ cache = << >> /\ pc = "driver"
        /\ answer = FALSE /\ isTimeout = FALSE /\ timeout = FALSE
    BY DEF Init
  <2>3. DOMAIN cache = {}
    BY <2>2
  <2>4. position \in 1 .. Len(pairs) + 1
    BY <2>1
  <2> QED
    BY <2>2, <2>3, <2>4 DEF DriverOK
<1>8. StackOK
  <2>1. kind \in Kinds
    BY InputAssumption DEF Init, Kinds
  <2>2. stack = << >> /\ pc = "driver"
    BY DEF Init
  <2>3. Climbs(stack)
    BY <2>2 DEF Climbs
  <2> QED
    BY <2>1, <2>2, <2>3 DEF StackOK
<1>9. StateOK
  BY DEF StateOK, Init
<1> QED
  BY <1>6, <1>7, <1>8, <1>9 DEF IInv

-----------------------------------------------------------------------------
(* The steps of the driver                                                 *)

\* Between two pairs nothing is known of a search.
LEMMA BetweenPairs ==
  ASSUME IInv, UNCHANGED <<given, search>>, pc' \in {"driver", "done"}
  PROVE  GivenOK' /\ StackOK' /\ StateOK'
<1>1. GivenOK'
  BY UnmovedFacts DEF IInv
<1>2. kind' = kind /\ stack' = stack
  BY DEF search
<1>3. StackOK'
  BY <1>2 DEF IInv, StackOK
<1>4. StateOK'
  BY DEF StateOK
<1> QED
  BY <1>1, <1>3, <1>4

LEMMA PairsLength ==
  ASSUME GivenOK
  PROVE  Len(pairs) \in Nat
BY DEF GivenOK

LEMMA DriverSteps ==
  ASSUME IInv, DriverTimeout \/ CacheHit \/ Pieces \/ Record \/ Finish
  PROVE  IInv'
<1> USE DEF IInv
<1>1. pairs' = pairs /\ Len(pairs) \in Nat
  BY PairsLength, UnmovedFacts DEF DriverTimeout, CacheHit, Pieces, Record, Finish
<1>2. UNCHANGED <<given, search>> /\ pc' \in {"driver", "done"}
  BY DEF DriverTimeout, CacheHit, Pieces, Record, Finish, Stop, NextPair
<1>3. GivenOK' /\ StackOK' /\ StateOK'
  BY <1>2, BetweenPairs
<1>4. answer' = answer
  BY <1>2 DEF search
<1>5. ASSUME position \in 1 .. Len(pairs)
      PROVE  pairs[position] \in ToSet(pairs)
  BY <1>5, PairFacts
<1>6. DriverOK'
  <2>1. CASE DriverTimeout
    BY <2>1, <1>1, <1>2, <1>4 DEF DriverTimeout, Stop, DriverOK
  <2>2. CASE CacheHit
    <3>1. position \in 1 .. Len(pairs) /\ position' = position + 1 /\ cache' = cache
          /\ isTimeout' = isTimeout /\ timeout' = timeout /\ pc' = "driver"
      BY <2>2, <1>1 DEF CacheHit, AtPair, NextPair, DriverOK
    <3>2. graph' \subseteq ToSet(pairs)
      BY <2>2, <3>1, <1>5 DEF CacheHit, DriverOK
    <3> QED
      BY <3>1, <3>2, <1>1, <1>4 DEF DriverOK
  <2>3. CASE Pieces
    <3>1. position \in 1 .. Len(pairs) /\ position' = position + 1 /\ cache' = cache
          /\ isTimeout' = isTimeout /\ timeout' = timeout /\ pc' = "driver"
      BY <2>3, <1>1 DEF Pieces, CacheMiss, AtPair, NextPair, DriverOK
    <3>2. graph' \subseteq ToSet(pairs)
      BY <2>3, <3>1, <1>5 DEF Pieces, DriverOK
    <3> QED
      BY <3>1, <3>2, <1>1, <1>4 DEF DriverOK
  <2>4. CASE Record
    <3>1. position \in 1 .. Len(pairs) /\ isTimeout' = isTimeout
      BY <2>4 DEF Record, DriverOK
    <3>2. graph' \subseteq ToSet(pairs)
      BY <2>4, <3>1, <1>5 DEF Record, DriverOK
    <3>3. \A h \in DOMAIN cache' : cache'[h] \in BOOLEAN
      <4>1. CASE cache' = [h \in {Hash} \cup DOMAIN cache |-> IF h = Hash THEN answer ELSE cache[h]]
        BY <4>1 DEF DriverOK
      <4>2. CASE cache' = cache
        BY <4>2 DEF DriverOK
      <4> QED
        BY <2>4, <4>1, <4>2 DEF Record
    <3>4. position' \in 1 .. Len(pairs) + 1 /\ timeout' \in BOOLEAN
      <4>1. timeout \in BOOLEAN
        BY DEF DriverOK
      <4>2. CASE isTimeout
        <5>1. timeout' = TRUE /\ position' = position
          BY <2>4, <4>2 DEF Record, Stop
        <5> QED
          BY <3>1, <5>1, <1>1
      <4>3. CASE ~isTimeout
        <5>1. timeout' = timeout /\ position' = position + 1
          BY <2>4, <4>3 DEF Record, NextPair
        <5> QED
          BY <3>1, <4>1, <5>1, <1>1
      <4> QED
        BY <4>2, <4>3
    <3> QED
      BY <3>1, <3>2, <3>3, <3>4, <1>1, <1>2, <1>4 DEF DriverOK
  <2>5. CASE Finish
    BY <2>5, <1>1, <1>2, <1>4 DEF Finish, Stop, DriverOK
  <2> QED
    BY <2>1, <2>2, <2>3, <2>4, <2>5
<1> QED
  BY <1>3, <1>6

-----------------------------------------------------------------------------
(* The steps of a search                                                   *)

LEMMA CheckFacts ==
  ASSUME NEW k \in Kinds, NEW domain, NEW from, NEW to, NEW A
  PROVE  Check(k, domain, from, to, A) \in {"True", "False", "Extend"}
<1>1. \A i : NullAt(i, domain) \in {"True", "False", "Extend"}
  BY DEF NullAt
<1>2. CASE k = "positive"
  <2>1. PositiveCheck(domain, from, to, A) \in {"True", "False", "Extend"}
    BY <1>1 DEF PositiveCheck
  <2> QED
    BY <1>2, <2>1 DEF Check
<1>3. CASE k = "restraint"
  <2>1. RestrainCheck(domain, from, to, A) \in {"True", "False", "Extend"}
    BY <1>1 DEF RestrainCheck
  <2> QED
    BY <1>3, <2>1 DEF Check
<1>4. CASE k = "self"
  <2>1. SelfRestrainCheck(domain, from, A) \in {"True", "False", "Extend"}
    BY <1>1 DEF SelfRestrainCheck
  <2> QED
    BY <1>4, <2>1 DEF Check
<1> QED
  BY <1>2, <1>3, <1>4 DEF Kinds

\* A search begins with fresh assignments.
LEMMA BeginFacts ==
  ASSUME IInv, NEW k \in Kinds, BeginSearch(k), UNCHANGED <<given, position, answer, result>>,
         position \in 1 .. Len(pairs), k = "self" => SamePair
  PROVE  IInv'
<1> USE DEF IInv
<1>1. GivenOK' /\ From' = From /\ To' = To /\ SamePair' = SamePair /\ Early' = Early /\ pairs' = pairs
  BY UnmovedFacts
<1>2. /\ kind' = k /\ a' = Fresh(k, From, To) /\ stack' = << >> /\ pc' \in {"extend", "iterate"}
  BY DEF BeginSearch
<1>3. DriverOK'
  BY <1>1, <1>2 DEF DriverOK, result
<1>4. Mapping' = << >>
  BY <1>2 DEF Mapping
<1>5. StackOK'
  <2>1. Climbs(stack')
    BY <1>2 DEF Climbs
  <2>2. Mapping' \in Seq(AtomPairs')
    BY <1>4
  <2> QED
    BY <1>1, <1>2, <2>1, <2>2 DEF StackOK
<1>6. From \in MarkedRule /\ To \in MarkedRule
  BY PairFacts
<1>7. HighestId(From) \in Nat /\ HighestId(To) \in Nat
  BY <1>6, HighestFacts
<1>8. Offset' = HighestId(From) + 1
      /\ Size' = (HighestId(From) + 1) + (IF k = "self" THEN 0 ELSE HighestId(To) + 1)
  BY <1>1, <1>2 DEF Offset, Size
<1>9. PICK N : N = (HighestId(From) + 1) + (IF k = "self" THEN 0 ELSE HighestId(To) + 1)
  OBVIOUS
<1>10. SearchState(Fresh(k, From, To), k, << >>, From, To, Early, HighestId(From) + 1, N)
  BY <1>7, <1>9, StartState
<1>11. StateOK'
  BY <1>1, <1>2, <1>4, <1>8, <1>9, <1>10 DEF StateOK
<1> QED
  BY <1>1, <1>3, <1>5, <1>11

LEMMA StartSteps ==
  ASSUME IInv, StartSearch \/ StartSelf
  PROVE  IInv'
<1>1. CASE StartSearch
  <2>1. position \in 1 .. Len(pairs)
    BY <1>1, PairsLength DEF IInv, StartSearch, CacheMiss, AtPair, DriverOK
  <2>2. input.kind \in {"positive", "restraint"}
    BY GivenFacts DEF IInv
  <2>3. input.kind \in Kinds /\ input.kind # "self"
    BY <2>2 DEF Kinds
  <2>4. BeginSearch(input.kind) /\ UNCHANGED <<given, position, answer, result>>
    BY <1>1 DEF StartSearch
  <2> QED
    BY <2>1, <2>3, <2>4, BeginFacts
<1>2. CASE StartSelf
  <2>1. position \in 1 .. Len(pairs) /\ SamePair
    BY <1>2 DEF IInv, StartSelf, DriverOK
  <2>2. BeginSearch("self") /\ UNCHANGED <<given, position, answer, result>>
    BY <1>2 DEF StartSelf
  <2>3. "self" \in Kinds
    BY DEF Kinds
  <2> QED
    BY <2>1, <2>2, <2>3, BeginFacts
<1> QED
  BY <1>1, <1>2

\* A search ends with an answer.
LEMMA AnswerSteps ==
  ASSUME IInv, Iterate \/ SearchTimeout
  PROVE  IInv'
<1> USE DEF IInv
<1>1. UNCHANGED <<given, position, kind, a, stack, cache, graph, timeout>> /\ pc' = "answer"
      /\ pc \in {"iterate", "extend"} /\ answer' \in BOOLEAN /\ isTimeout' \in BOOLEAN
  <2>1. CASE Iterate
    <3>1. FullIteration(kind, From, To, Early) \in BOOLEAN
      BY DEF FullIteration
    <3> QED
      BY <2>1, <3>1 DEF Iterate, Answer, result, DriverOK
  <2>2. CASE SearchTimeout
    BY <2>2 DEF SearchTimeout, Answer
  <2> QED
    BY <2>1, <2>2
<1>2. GivenOK' /\ SamePair' = SamePair /\ pairs' = pairs
  BY <1>1, UnmovedFacts
<1>3. DriverOK'
  BY <1>1, <1>2 DEF DriverOK
<1>4. StackOK'
  BY <1>1, <1>2 DEF StackOK
<1>5. StateOK'
  BY <1>1 DEF StateOK
<1> QED
  BY <1>2, <1>3, <1>4, <1>5

LEMMA AppendFacts ==
  ASSUME NEW T, NEW s \in Seq(T), NEW e \in T
  PROVE  /\ Append(s, e) \in Seq(T) /\ Append(s, e) # << >>
         /\ Len(Append(s, e)) = Len(s) + 1
         /\ Front(Append(s, e)) = s /\ Last(Append(s, e)) = e
<1> Append(s, e) \in Seq(T)
  BY AppendProperties
<1>1. PICK t \in Seq(T) : t = Append(s, e)
  OBVIOUS
<1>2. PICK L \in Nat : L = Len(s)
  OBVIOUS
<1>3. Len(t) = L + 1 /\ t[L + 1] = e /\ \A i \in 1 .. L : t[i] = s[i]
  BY <1>1, <1>2
<1>4. t # << >>
  BY <1>2, <1>3
<1>5. /\ Front(t) \in Seq(T) /\ Len(Front(t)) = Len(t) - 1
      /\ \A i \in 1 .. Len(t) - 1 : Front(t)[i] = t[i]
      /\ Last(t) = t[Len(t)]
  BY <1>4, FrontFacts
<1>6. PICK q \in Seq(T) : q = Front(t)
  BY <1>5
<1>7. Len(q) = L /\ \A i \in 1 .. L : q[i] = s[i]
  BY <1>3, <1>5, <1>6, <1>2
<1>8. q = s
  BY <1>2, <1>7
<1> QED
  BY <1>1, <1>2, <1>3, <1>4, <1>5, <1>6, <1>8

LEMMA ClimbOn ==
  ASSUME NEW s, Climbs(s), NEW e \in Nat \X Nat, Len(s) + 1 <= e[1]
  PROVE  /\ Climbs(Append(s, e)) /\ Append(s, e) # << >> /\ Front(Append(s, e)) = s
         /\ Last(Append(s, e)) = e /\ Len(Append(s, e)) = Len(s) + 1
<1>1. s \in Seq(Nat \X Nat)
  BY DEF Climbs
<1>2. PICK t : t = Append(s, e)
  OBVIOUS
<1>3. /\ t \in Seq(Nat \X Nat) /\ t # << >> /\ Len(t) = Len(s) + 1
      /\ Front(t) = s /\ Last(t) = e
  BY <1>1, <1>2, AppendFacts
<1>4. ASSUME NEW i \in DOMAIN t
      PROVE  i <= t[i][1]
  <2>1. i \in 1 .. Len(s) + 1 /\ Len(s) \in Nat
    BY <1>1, <1>3
  <2>2. CASE i \in 1 .. Len(s)
    <3>1. t[i] = s[i] /\ i \in DOMAIN s
      BY <1>1, <1>2, <2>2
    <3> QED
      BY <3>1 DEF Climbs
  <2>3. CASE i = Len(s) + 1
    <3>1. t[i] = e
      BY <1>1, <1>2, <2>3
    <3> QED
      BY <3>1, <2>3
  <2> QED
    BY <2>1, <2>2, <2>3
<1> QED
  BY <1>2, <1>3, <1>4 DEF Climbs

LEMMA ClimbDown ==
  ASSUME NEW s, Climbs(s), s # << >>
  PROVE  /\ Climbs(Front(s)) /\ Len(s) \in Nat \ {0} /\ Len(Front(s)) = Len(s) - 1
         /\ Last(s) \in Nat \X Nat /\ Len(s) <= Last(s)[1]
<1>1. s \in Seq(Nat \X Nat)
  BY DEF Climbs
<1>2. /\ Front(s) \in Seq(Nat \X Nat) /\ Len(s) \in Nat \ {0} /\ Len(Front(s)) = Len(s) - 1
      /\ \A i \in 1 .. Len(s) - 1 : Front(s)[i] = s[i]
      /\ Last(s) = s[Len(s)] /\ Last(s) \in Nat \X Nat
  BY <1>1, FrontFacts
<1>3. Len(s) \in DOMAIN s
  BY <1>1, <1>2
<1>4. Len(s) <= Last(s)[1]
  BY <1>2, <1>3 DEF Climbs
<1>5. ASSUME NEW i \in DOMAIN Front(s)
      PROVE  i <= Front(s)[i][1]
  <2> PICK q \in Seq(Nat \X Nat) : q = Front(s)
    BY <1>2
  <2> PICK L \in Nat \ {0} : L = Len(s)
    BY <1>2
  <2> DOMAIN s = 1 .. L /\ DOMAIN q = 1 .. L - 1
    BY <1>1, <1>2
  <2>1. i \in 1 .. Len(s) - 1 /\ i \in DOMAIN s
    OBVIOUS
  <2> QED
    BY <2>1, <1>2 DEF Climbs
<1> QED
  BY <1>2, <1>4, <1>5 DEF Climbs

\* Nothing but the search goes on.
LEMMA InSearch ==
  ASSUME IInv, UNCHANGED <<given, position, kind, result>>,
         pc \in {"extend", "try"}, pc' \in {"extend", "try", "answer"}, answer' \in BOOLEAN
  PROVE  /\ GivenOK' /\ DriverOK' /\ position \in 1 .. Len(pairs)
         /\ From' = From /\ To' = To /\ Early' = Early /\ SamePair' = SamePair
         /\ kind' = kind /\ kind \in Kinds
         /\ AtomPairs' = AtomPairs /\ Offset' = Offset /\ Size' = Size
<1> USE DEF IInv
<1>1. GivenOK' /\ From' = From /\ To' = To /\ SamePair' = SamePair /\ Early' = Early /\ pairs' = pairs
  BY UnmovedFacts
<1>2. position \in 1 .. Len(pairs)
  BY DEF DriverOK
<1>3. DriverOK'
  BY <1>1, <1>2 DEF DriverOK, result
<1>4. AtomPairs' = AtomPairs /\ Offset' = Offset /\ Size' = Size
  BY <1>1 DEF AtomPairs, Offset, Size
<1> QED
  BY <1>1, <1>2, <1>3, <1>4 DEF StackOK

LEMMA ExtendStep ==
  ASSUME IInv, Extend
  PROVE  IInv'
<1> USE DEF IInv
<1>1. /\ UNCHANGED <<given, position, kind, a, answer, result>> /\ pc = "extend" /\ pc' = "try"
  BY DEF Extend
<1>2. answer' \in BOOLEAN
  BY <1>1 DEF DriverOK
<1>3. /\ GivenOK' /\ DriverOK'
      /\ From' = From /\ To' = To /\ Early' = Early /\ SamePair' = SamePair
      /\ kind' = kind /\ AtomPairs' = AtomPairs /\ Offset' = Offset /\ Size' = Size
  BY <1>1, <1>2, InSearch
<1>4. Climbs(stack) /\ stack \in Seq(AtomPairs) /\ Mapping = stack
  BY <1>1 DEF StackOK, Mapping
<1> DEFINE e == <<IF stack = << >> THEN 1 ELSE Last(stack)[1] + 1, 1>>
<1>5. stack' = Append(stack, e)
  BY DEF Extend
<1>6. e \in Nat \X Nat /\ Len(stack) + 1 <= e[1]
  <2>1. CASE stack = << >>
    BY <2>1
  <2>2. CASE stack # << >>
    <3>1. Last(stack) \in Nat \X Nat /\ Len(stack) <= Last(stack)[1] /\ Len(stack) \in Nat
      BY <2>2, <1>4, ClimbDown
    <3> QED
      BY <2>2, <3>1
  <2> QED
    BY <2>1, <2>2
<1> HIDE DEF e
<1>7. Climbs(stack') /\ stack' # << >> /\ Front(stack') = stack
  BY <1>4, <1>5, <1>6, ClimbOn
<1>8. Mapping' = stack
  BY <1>1, <1>7 DEF Mapping
<1>9. StackOK'
  BY <1>1, <1>3, <1>4, <1>7, <1>8 DEF StackOK
<1>10. StateOK'
  BY <1>1, <1>3, <1>4, <1>8 DEF StateOK
<1> QED
  BY <1>3, <1>9, <1>10

LEMMA BacktrackStep ==
  ASSUME IInv, Backtrack
  PROVE  IInv'
<1> USE DEF IInv
<1>1. UNCHANGED <<given, position, kind, result>> /\ pc = "try"
  BY DEF Backtrack
<1>2. Climbs(stack) /\ stack # << >> /\ Mapping = Front(stack) /\ Front(stack) \in Seq(AtomPairs)
  BY <1>1 DEF StackOK, Mapping
<1>3. SearchState(a, kind, Front(stack), From, To, Early, Offset, Size)
  BY <1>1, <1>2 DEF StateOK
<1>4. Climbs(Front(stack)) /\ Len(stack) \in Nat \ {0} /\ Len(Front(stack)) = Len(stack) - 1
  BY <1>2, ClimbDown
<1>5. CASE Len(stack) = 1
  <2>1. pc' = "answer" /\ answer' = FALSE /\ stack' = << >>
    BY <1>5 DEF Backtrack, Answer
  <2>2. GivenOK' /\ DriverOK' /\ SamePair' = SamePair /\ kind' = kind
    BY <1>1, <2>1, InSearch
  <2>3. Climbs(stack')
    BY <2>1 DEF Climbs
  <2>4. StackOK'
    BY <1>1, <2>1, <2>2, <2>3 DEF StackOK
  <2>5. StateOK'
    BY <2>1 DEF StateOK
  <2> QED
    BY <2>2, <2>4, <2>5
<1>6. CASE Len(stack) # 1
  <2>1. /\ a' = DecreaseDepth(a) /\ pc' = pc /\ answer' = answer
        /\ stack' = Append(Front(Front(stack)), After(Last(Front(stack))))
    BY <1>6 DEF Backtrack
  <2>2. answer' \in BOOLEAN
    BY <2>1 DEF DriverOK
  <2>3. /\ GivenOK' /\ DriverOK' /\ position \in 1 .. Len(pairs)
        /\ From' = From /\ To' = To /\ Early' = Early /\ SamePair' = SamePair
        /\ kind' = kind /\ kind \in Kinds /\ AtomPairs' = AtomPairs /\ Offset' = Offset /\ Size' = Size
    BY <1>1, <2>1, <2>2, InSearch
  <2>4. PICK m \in Seq(AtomPairs) : m = Front(stack)
    BY <1>2
  <2>5. Len(m) > 0 /\ m # << >>
    BY <1>4, <1>6, <2>4
  <2>6. /\ Climbs(Front(m)) /\ Len(m) \in Nat \ {0} /\ Len(Front(m)) = Len(m) - 1
        /\ Last(m) \in Nat \X Nat /\ Len(m) <= Last(m)[1]
    BY <1>4, <2>4, <2>5, ClimbDown
  <2>7. Front(m) \in Seq(AtomPairs)
    BY <2>5, FrontFacts
  <2> PICK d \in Nat \X Nat : d = Last(m)
    BY <2>6
  <2> After(d) \in Nat \X Nat
    BY DEF After
  <2>8. PICK e \in Nat \X Nat : e = After(Last(m))
    OBVIOUS
  <2>9. e[1] = Last(m)[1]
    BY <2>8 DEF After
  <2>10. stack' = Append(Front(m), e)
    BY <2>1, <2>4, <2>8
  <2>11. Climbs(stack') /\ stack' # << >> /\ Front(stack') = Front(m)
    <3>1. Len(Front(m)) + 1 <= e[1]
      BY <2>6, <2>9
    <3> QED
      BY <2>6, <2>10, <3>1, ClimbOn
  <2>12. Mapping' = Front(m)
    BY <1>1, <2>1, <2>11 DEF Mapping
  <2>13. StackOK'
    BY <1>1, <2>1, <2>3, <2>7, <2>11, <2>12 DEF StackOK
  <2>14. SearchState(DecreaseDepth(a), kind, Front(m), From, To, Early, Offset, Size)
    <3>1. Offset \in Nat /\ Size \in Nat /\ Early \in BOOLEAN
      <4>1. HighestId(From) \in Nat /\ HighestId(To) \in Nat
        BY <2>3, PairFacts, HighestFacts
      <4> QED
        BY <4>1 DEF Offset, Size, Early
    <3> QED
      BY <1>3, <2>3, <2>4, <2>5, <3>1, PopState
  <2>15. StateOK'
    BY <2>1, <2>3, <2>12, <2>14 DEF StateOK
  <2> QED
    BY <2>3, <2>13, <2>15
<1> QED
  BY <1>5, <1>6

LEMMA TryStep ==
  ASSUME IInv, Try
  PROVE  IInv'
<1> USE DEF IInv
<1>1. UNCHANGED <<given, position, kind, result>> /\ pc = "try" /\ Candidates # {}
  BY DEF Try
<1>2. Climbs(stack) /\ stack # << >> /\ Mapping = Front(stack) /\ Front(stack) \in Seq(AtomPairs)
  BY <1>1 DEF StackOK, Mapping
<1>3. SearchState(a, kind, Front(stack), From, To, Early, Offset, Size)
  BY <1>1, <1>2 DEF StateOK
<1>4. /\ Climbs(Front(stack)) /\ Len(stack) \in Nat \ {0} /\ Len(Front(stack)) = Len(stack) - 1
      /\ Last(stack) \in Nat \X Nat /\ Len(stack) <= Last(stack)[1]
  BY <1>2, ClimbDown
<1>5. position \in 1 .. Len(pairs) /\ kind \in Kinds
  BY <1>1 DEF DriverOK, StackOK
<1>6. PICK m \in Seq(AtomPairs) : m = Front(stack)
  BY <1>2
<1>7. PICK c : c = Candidate
  OBVIOUS
<1>8. c \in Candidates /\ c \in AtomPairs /\ c \in Nat \X Nat
  BY <1>1, <1>5, <1>7, CandidateFacts
<1>9. Mapped(kind, To)[c[1]].pred = From.heads[c[2]].pred
      /\ (c[1] > Last(stack)[1] \/ c[1] = Last(stack)[1])
  BY <1>8 DEF Candidates
<1>10. Len(stack) <= c[1]
  BY <1>4, <1>8, <1>9
<1>11. PICK o : o = MapPair(kind, c, From, To, IncreaseDepth(a), Early)
  OBVIOUS
<1>12. /\ o.ok \in BOOLEAN
       /\ o.ok => SearchState(o.a, kind, Append(m, c), From, To, Early, Offset, Size)
       /\ SearchState(DecreaseDepth(o.a), kind, m, From, To, Early, Offset, Size)
  <2>1. From \in MarkedRule /\ To \in MarkedRule /\ (SamePair => From = To)
    BY <1>5, PairFacts
  <2>2. kind = "self" => From = To
    BY <1>1, <2>1 DEF StackOK
  <2>3. HighestId(From) \in Nat /\ HighestId(To) \in Nat
    BY <2>1, HighestFacts
  <2>4. Offset \in Nat /\ Size \in Nat /\ Early \in BOOLEAN
    BY <2>3 DEF Offset, Size, Early
  <2>5. Len(Mapped(kind, To)[c[1]].terms) = Len(From.heads[c[2]].terms)
    BY <1>5, <1>8, <1>9, PairFacts DEF AtomPairs
  <2>6. Mappable(kind, c, From, To, Offset, Size)
    BY <1>5, <1>8, <2>1, <2>2, <2>5, PairsAreMappable DEF AtomPairs, Offset, Size
  <2> QED
    BY <1>3, <1>5, <1>6, <1>8, <1>11, <2>4, <2>6, TryState
<1> DEFINE mapping == Append(m, c)
           verdict == IF o.ok THEN Check(kind, Domain(mapping), From, To, o.a) ELSE "Undo"
<1>13. (CASE verdict = "True" -> Answer(TRUE) /\ a' = o.a /\ stack' = mapping
         [] verdict = "Extend" \/ (verdict = "False" /\ ~Early) ->
              pc' = "extend" /\ a' = o.a /\ stack' = mapping /\ UNCHANGED answer
         [] verdict = "Undo" \/ (verdict = "False" /\ Early) ->
              a' = DecreaseDepth(o.a) /\ stack' = Append(m, After(c)) /\ UNCHANGED <<pc, answer>>)
  BY <1>6, <1>7, <1>11 DEF Try, MapPair
<1>14. verdict \in {"True", "False", "Extend", "Undo"} /\ (verdict # "Undo" => o.ok)
  BY <1>5, <1>12, CheckFacts
<1> HIDE DEF verdict
<1>15. /\ Climbs(mapping) /\ mapping \in Seq(AtomPairs)
  <2>1. Len(m) + 1 <= c[1]
    BY <1>4, <1>6, <1>10
  <2> QED
    BY <1>4, <1>6, <1>8, <2>1, ClimbOn, AppendFacts
<1> HIDE DEF mapping
<1>16. ASSUME answer' \in BOOLEAN, pc' \in {"extend", "try", "answer"}
       PROVE  /\ GivenOK' /\ DriverOK' /\ kind' = kind /\ kind \in Kinds
              /\ From' = From /\ To' = To /\ Early' = Early /\ SamePair' = SamePair
              /\ AtomPairs' = AtomPairs /\ Offset' = Offset /\ Size' = Size
  BY <1>1, <1>16, InSearch
<1>17. answer \in BOOLEAN
  BY DEF DriverOK
<1>18. CASE verdict = "True"
  <2>1. pc' = "answer" /\ answer' = TRUE /\ stack' = mapping
    BY <1>13, <1>18 DEF Answer
  <2>2. StackOK'
    BY <1>1, <1>15, <1>16, <2>1 DEF StackOK
  <2>3. StateOK'
    BY <2>1 DEF StateOK
  <2> QED
    BY <1>16, <2>1, <2>2, <2>3
<1>19. CASE verdict = "Extend" \/ (verdict = "False" /\ ~Early)
  <2>1. pc' = "extend" /\ a' = o.a /\ stack' = mapping /\ answer' = answer /\ o.ok
    BY <1>13, <1>14, <1>19
  <2>2. Mapping' = mapping
    BY <2>1 DEF Mapping
  <2>3. StackOK'
    BY <1>1, <1>15, <1>16, <1>17, <2>1, <2>2 DEF StackOK
  <2>4. SearchState(o.a, kind, mapping, From, To, Early, Offset, Size)
    BY <1>12, <2>1 DEF mapping
  <2>5. StateOK'
    BY <1>16, <1>17, <2>1, <2>2, <2>4 DEF StateOK
  <2> QED
    BY <1>16, <1>17, <2>1, <2>3, <2>5
<1>20. CASE verdict = "Undo" \/ (verdict = "False" /\ Early)
  <2>1. pc' = "try" /\ a' = DecreaseDepth(o.a) /\ stack' = Append(m, After(c)) /\ answer' = answer
    BY <1>1, <1>13, <1>20
  <2>2. PICK e : e = After(c)
    OBVIOUS
  <2>3. e \in Nat \X Nat /\ e[1] = c[1]
    BY <1>8, <2>2 DEF After
  <2>4. Climbs(stack') /\ stack' # << >> /\ Front(stack') = m
    <3>1. Len(m) + 1 <= e[1]
      BY <1>4, <1>6, <1>10, <2>3
    <3> QED
      BY <1>4, <1>6, <2>1, <2>2, <2>3, <3>1, ClimbOn
  <2>5. Mapping' = m
    BY <2>1, <2>4 DEF Mapping
  <2>6. StackOK'
    BY <1>1, <1>6, <1>16, <1>17, <2>1, <2>4, <2>5 DEF StackOK
  <2>7. StateOK'
    BY <1>12, <1>16, <1>17, <2>1, <2>5 DEF StateOK
  <2> QED
    BY <1>16, <1>17, <2>1, <2>6, <2>7
<1> QED
  BY <1>14, <1>18, <1>19, <1>20

-----------------------------------------------------------------------------
(* Every behaviour                                                         *)

LEMMA NextIInv == IInv /\ [Next]_vars => IInv'
<1> SUFFICES ASSUME IInv, [Next]_vars PROVE IInv'
  OBVIOUS
<1>1. CASE DriverTimeout \/ CacheHit \/ Pieces \/ Record \/ Finish
  BY <1>1, DriverSteps
<1>2. CASE StartSearch \/ StartSelf
  BY <1>2, StartSteps
<1>3. CASE Iterate \/ SearchTimeout
  BY <1>3, AnswerSteps
<1>4. CASE Extend
  BY <1>4, ExtendStep
<1>5. CASE Try
  BY <1>5, TryStep
<1>6. CASE Backtrack
  BY <1>6, BacktrackStep
<1>7. CASE UNCHANGED vars
  <2>1. /\ UNCHANGED given /\ pc' = pc /\ position' = position /\ kind' = kind /\ a' = a
        /\ stack' = stack /\ answer' = answer /\ cache' = cache /\ graph' = graph
        /\ isTimeout' = isTimeout /\ timeout' = timeout
    BY <1>7 DEF vars
  <2>2. GivenOK' /\ From' = From /\ To' = To /\ SamePair' = SamePair /\ Early' = Early
        /\ pairs' = pairs
    BY <2>1, UnmovedFacts DEF IInv
  <2>3. Mapping' = Mapping /\ AtomPairs' = AtomPairs /\ Offset' = Offset /\ Size' = Size
    BY <2>1, <2>2 DEF Mapping, AtomPairs, Offset, Size
  <2>4. DriverOK'
    BY <2>1, <2>2 DEF IInv, DriverOK
  <2>5. StackOK'
    BY <2>1, <2>2, <2>3 DEF IInv, StackOK
  <2>6. StateOK'
    BY <2>1, <2>2, <2>3 DEF IInv, StateOK
  <2> QED
    BY <2>2, <2>4, <2>5, <2>6 DEF IInv
<1> QED
  BY <1>1, <1>2, <1>3, <1>4, <1>5, <1>6, <1>7 DEF Next

LEMMA InvariantHolds == Spec => []IInv
<1>1. Init => IInv
  BY InitIInv
<1>2. IInv /\ [Next]_vars => IInv'
  BY NextIInv
<1> QED
  BY <1>1, <1>2, PTL DEF Spec

LEMMA IInvTypeOK == IInv => TypeOK
<1> SUFFICES ASSUME IInv PROVE TypeOK
  OBVIOUS
<1> USE DEF IInv
<1>1. ASSUME pc = "try"
      PROVE  Len(stack) \in 1 .. Len(Mapped(kind, To)) + 1
  <2>1. Climbs(stack) /\ stack # << >> /\ Front(stack) \in Seq(AtomPairs)
    BY <1>1 DEF StackOK, Mapping
  <2>2. Climbs(Front(stack)) /\ Len(stack) \in Nat \ {0} /\ Len(Front(stack)) = Len(stack) - 1
    BY <2>1, ClimbDown
  <2>3. position \in 1 .. Len(pairs)
    BY <1>1 DEF DriverOK
  <2>4. Mapped(kind, To) \in Seq(MarkedAtom)
    BY <2>3, PairFacts DEF MarkedRule, Mapped
  <2>5. PICK M \in Nat : M = Len(Mapped(kind, To)) /\ DOMAIN Mapped(kind, To) = 1 .. M
    BY <2>4
  <2>6. CASE Len(stack) = 1
    BY <2>5, <2>6
  <2>7. CASE Len(stack) # 1
    <3>1. PICK m \in Seq(AtomPairs) : m = Front(stack)
      BY <2>1
    <3>2. m # << >>
      BY <2>2, <2>7, <3>1
    <3>3. Last(m) \in AtomPairs
      BY <3>2, FrontFacts
    <3>4. Len(m) <= Last(m)[1] /\ Last(m) \in Nat \X Nat
      BY <2>2, <3>1, <3>2, ClimbDown
    <3>5. PICK d : d = Last(m)[1]
      OBVIOUS
    <3>6. d \in 1 .. M
      BY <2>5, <3>3, <3>5 DEF AtomPairs
    <3>7. Len(stack) - 1 <= d
      BY <2>2, <3>1, <3>4, <3>5
    <3> QED
      BY <2>2, <2>5, <3>6, <3>7
  <2> QED
    BY <2>6, <2>7
<1> QED
  BY <1>1 DEF DriverOK, StackOK, TypeOK, Kinds

\* Every state is well-formed: the position is a pair or just behind them, and
\* the search never tries more atoms than there are.
THEOREM TypeCorrect == Spec => []TypeOK
<1>1. IInv => TypeOK
  BY IInvTypeOK
<1> QED
  BY <1>1, InvariantHolds, PTL

LEMMA IInvBacktracked == IInv => Backtracked
<1> SUFFICES ASSUME IInv, pc \in {"try", "extend"}
             PROVE  LET b == Replay(kind, Mapping, From, To, Early).a
                        group == FinishGroupAssignments(a).group
                    IN  /\ a.constant = b.constant /\ a.edges = b.edges
                        /\ Len(a.levels) = Len(Mapping)
                        /\ \A v \in Ids(a) : group[v] = NoGroup <=> b.group[v] = NoGroup
                        /\ \A v, w \in Ids(a) : b.group[v] = b.group[w] => group[v] = group[w]
  BY DEF Backtracked, Mapping
<1>1. Mapping \in Seq(AtomPairs) /\ kind \in Kinds
  BY DEF IInv, StackOK
<1>2. SearchState(a, kind, Mapping, From, To, Early, Offset, Size)
  BY DEF IInv, StateOK
<1>3. position \in 1 .. Len(pairs)
  BY DEF IInv, DriverOK
<1>4. HighestId(From) \in Nat /\ HighestId(To) \in Nat
  BY <1>3, PairFacts, HighestFacts DEF IInv
<1>5. Offset \in Nat /\ Size \in Nat /\ Early \in BOOLEAN
  BY <1>4 DEF Offset, Size, Early
<1>6. PICK b : b = Replay(kind, Mapping, From, To, Early).a
  OBVIOUS
<1>7. PICK group : group = FinishGroupAssignments(a).group
  OBVIOUS
<1>8. Restored(a, b, group, Mapping)
  BY <1>1, <1>2, <1>5, <1>6, <1>7, SearchStateBacktracked
<1> QED
  BY <1>6, <1>7, <1>8 DEF Restored

\* Undoing assignments (VariableAssignments::decreaseDepth) restores what the
\* atoms still mapped give: after any sequence of mapping and undoing, a search
\* knows the same constants, nulls and groups as one that never went astray.
THEOREM UndoRestores == Spec => []Backtracked
<1>1. IInv => Backtracked
  BY IInvBacktracked
<1> QED
  BY <1>1, InvariantHolds, PTL

=============================================================================
