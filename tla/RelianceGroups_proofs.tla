----------------------- MODULE RelianceGroups_proofs -----------------------
(***************************************************************************)
(* Proofs about computeRelianceGroups, for every graph, every set of       *)
(* active nodes and every order of the adjacency lists: the groups are the *)
(* strongly connected components, sources first, and the minimum group is  *)
(* a source.                                                               *)
(***************************************************************************)
EXTENDS RelianceGroups, FiniteSetTheorems, TLAPS

-----------------------------------------------------------------------------
(* Reachability and components                                             *)

LEMMA PredecessorsDef ==
  ASSUME NEW E, NEW A, NEW B, E \subseteq A \X B, NEW n, NEW m
  PROVE  /\ m \in Predecessors(E, n) <=> <<m, n>> \in E
         /\ m \in Successors(E, n) <=> <<n, m>> \in E
  BY DEF Predecessors, Successors

\* A node reaches itself.
LEMMA ReachRefl ==
  ASSUME NEW E, NEW N, NEW a \in N
  PROVE  a \in Reachable(E, N, a)
  BY DEF Reachable

\* A node reaches what a node it reaches leads to by an edge.
LEMMA ReachStep ==
  ASSUME NEW E, NEW N, NEW a \in N, NEW b \in Reachable(E, N, a),
         NEW c \in N, <<b, c>> \in E
  PROVE  c \in Reachable(E, N, a)
<1>1. b \in N
  BY DEF Reachable
<1>2. SUFFICES ASSUME NEW S \in SUBSET N, a \in S, Closed(Within(E, N), S)
               PROVE  c \in S
  BY DEF Reachable
<1>3. b \in S
  BY <1>2 DEF Reachable
<1>4. <<b, c>> \in Within(E, N)
  BY <1>1 DEF Within
<1> QED
  BY <1>2, <1>3, <1>4 DEF Closed

LEMMA ReachTrans ==
  ASSUME NEW E, NEW N, NEW a \in N, NEW b \in Reachable(E, N, a),
         NEW c \in Reachable(E, N, b)
  PROVE  c \in Reachable(E, N, a)
<1>1. c \in N
  BY DEF Reachable
<1>2. SUFFICES ASSUME NEW S \in SUBSET N, a \in S, Closed(Within(E, N), S)
               PROVE  c \in S
  BY <1>1 DEF Reachable
<1>3. b \in S
  BY <1>2 DEF Reachable
<1> QED
  BY <1>2, <1>3 DEF Reachable

\* Components are what they should be: the classes of an equivalence.
LEMMA ComponentRefl ==
  ASSUME NEW E, NEW N, NEW a \in N
  PROVE  a \in Component(E, N, a) /\ Component(E, N, a) \subseteq N
  BY ReachRefl DEF Component, Reachable

LEMMA ComponentSame ==
  ASSUME NEW E, NEW N, NEW a \in N, NEW b \in Component(E, N, a)
  PROVE  Component(E, N, b) = Component(E, N, a)
<1>1. b \in N /\ b \in Reachable(E, N, a) /\ a \in Reachable(E, N, b)
  BY DEF Component, Reachable
<1>2. ASSUME NEW c \in Component(E, N, b)
      PROVE  c \in Component(E, N, a)
  <2>1. c \in N /\ c \in Reachable(E, N, b) /\ b \in Reachable(E, N, c)
    BY DEF Component, Reachable
  <2>2. c \in Reachable(E, N, a) /\ a \in Reachable(E, N, c)
    BY <1>1, <2>1, ReachTrans
  <2> QED
    BY <2>2 DEF Component
<1>3. ASSUME NEW c \in Component(E, N, a)
      PROVE  c \in Component(E, N, b)
  <2>1. c \in N /\ c \in Reachable(E, N, a) /\ a \in Reachable(E, N, c)
    BY DEF Component, Reachable
  <2>2. c \in Reachable(E, N, b) /\ b \in Reachable(E, N, c)
    BY <1>1, <2>1, ReachTrans
  <2> QED
    BY <2>2 DEF Component
<1> QED
  BY <1>2, <1>3

-----------------------------------------------------------------------------
(* What is reached through active nodes                                    *)

Reach(a) == Reachable(edges, activeNodes, a)

Comp(a) == Component(edges, activeNodes, a)

-----------------------------------------------------------------------------
(* The invariant of the first pass                                         *)

ArgInv == edges \subseteq Nodes \X Nodes /\ activeNodes \subseteq Nodes

Finished == ToSet(nodeStack)

\* The entries of nodes whose neighbours are being visited.
Posts == { i \in DOMAIN dfsStack : dfsStack[i][2] }

Open == { dfsStack[i][1] : i \in Posts }

\* An open node leads to what is above it on the stack, where its unvisited
\* neighbours are.
StackInv ==
  /\ visited = Finished \cup Open
  /\ \A i \in Posts :
       /\ dfsStack[i][1] \notin Finished
       /\ \A j \in DOMAIN dfsStack : j < i => dfsStack[j][1] \in Reach(dfsStack[i][1])
       /\ \A j \in Posts : dfsStack[i][1] = dfsStack[j][1] => i = j
       /\ \A s \in Successors(edges, dfsStack[i][1]) \cap activeNodes :
            s \in visited \/ \E j \in DOMAIN dfsStack : j < i /\ dfsStack[j] = <<s, FALSE>>

\* The component of y has a member among the first nodes of nodeStack.
AmongFirst(first, y) == \E j \in 1 .. first : nodeStack[j] \in Comp(y)

\* A finished component leads to finished nodes only, and what it leads to
\* comes after one of its members, the one that was finished last.
FinishInv ==
  /\ \A u \in Finished : Successors(edges, u) \cap activeNodes \subseteq visited
  /\ \A y \in Finished : Comp(y) \subseteq Finished => Reach(y) \subseteq Finished
  /\ \A i \in DOMAIN nodeStack, y \in activeNodes :
       nodeStack[i] \in Reach(y) /\ Comp(y) \subseteq Finished => AmongFirst(i, y)

ScanInv ==
  /\ pc = "scan" => dfsStack = << >>
  /\ \A n \in activeNodes : n > node => n \in visited
  /\ pc = "fill" => node \in visited \/ \E i \in DOMAIN dfsStack : dfsStack[i] = <<node, FALSE>>
  /\ groups = << >> /\ currentGroup = {} /\ assignments = [n \in Nodes |-> NoGroup]
  /\ minimumGroup = NoGroup /\ ~minFound

FirstInv == pc \in {"scan", "fill"} => StackInv /\ FinishInv /\ ScanInv

-----------------------------------------------------------------------------
(* The invariant of the second pass                                        *)

Collected == UNION ToSet(groups)

ResultInv ==
  /\ \A i \in DOMAIN groups : groups[i] \in Components(edges, activeNodes)
  /\ \A i, j \in DOMAIN groups : groups[i] = groups[j] => i = j
  /\ \A i \in DOMAIN groups : \A c \in groups[i] : \A p \in Predecessors(edges, c) \cap activeNodes :
       \E k \in 1 .. i : p \in groups[k]
  /\ \A n \in Nodes : \/ assignments[n] + 1 \in DOMAIN groups /\ n \in groups[assignments[n] + 1]
                      \/ n \notin Collected /\ assignments[n] = NoGroup
  /\ IF groups = << >> THEN ~minFound ELSE minFound /\ minimumGroup = 0

\* Each component is in a group, the one at hand ("members"), or has a member on
\* nodeStack, no later than the nodes it leads to.
Remaining(members) ==
  /\ \A x \in activeNodes : x \in Collected \cup Finished \cup members
  /\ \A i \in DOMAIN nodeStack, y \in activeNodes :
       nodeStack[i] \in Reach(y) => y \in Collected \cup members \/ AmongFirst(i, y)

\* The group of root is being collected: all its members are on the stack or
\* predecessors of what was collected.
GroupInv(root) ==
  /\ root \notin Collected
  /\ \A y \in activeNodes : root \in Reach(y) => y \in Collected \cup Comp(root)
  /\ Remaining(Comp(root))
  /\ currentGroup \subseteq Comp(root) /\ ToSet(dfsStack) \subseteq Comp(root)
  /\ root \in currentGroup \cup ToSet(dfsStack)
  /\ \A c \in currentGroup : Predecessors(edges, c) \cap activeNodes \subseteq visited \cup ToSet(dfsStack)

SecondInv ==
  /\ pc \in {"collect", "group", "done"} => ResultInv /\ visited = Collected \cup currentGroup
  /\ pc \in {"collect", "done"} => Remaining({}) /\ currentGroup = {} /\ dfsStack = << >>
  /\ pc = "group" => \E root \in activeNodes : GroupInv(root)
  /\ pc = "done" => nodeStack = << >>

-----------------------------------------------------------------------------
(* Sequences                                                               *)

\* SetToSeqs(S) are the sequences that list S.
LEMMA Listing ==
  ASSUME NEW S, IsFiniteSet(S), NEW s \in SetToSeqs(S)
  PROVE  s \in Seq(S) /\ ToSet(s) = S
<1> DEFINE D == 1 .. Cardinality(S)
<1>1. s \in [D -> S] /\ \A i, j \in D : i # j => s[i] # s[j]
  BY DEF SetToSeqs
<1>2. Cardinality(S) \in Nat /\ IsFiniteSet(D) /\ Cardinality(D) = Cardinality(S)
  BY FS_CardinalityType, FS_Interval
<1>3. s \in Injection(D, S)
  BY <1>1 DEF Injection, IsInjective
<1>4. s \in Surjection(D, S)
  BY <1>2, <1>3, FS_Injection
<1>5. \A x \in S : \E i \in D : s[i] = x
  BY <1>4 DEF Surjection
<1> QED
  BY <1>1, <1>2, <1>5 DEF ToSet

LEMMA NeighbourLists ==
  ASSUME ArgInv, NEW E, NEW n, NEW seen, NEW next \in Neighbours(E, n, seen)
  PROVE  next \in Seq(activeNodes) /\ ToSet(next) = (Successors(E, n) \cap activeNodes) \ seen
<1> DEFINE S == (Successors(E, n) \cap activeNodes) \ seen
<1>1. IsFiniteSet(Nodes)
  BY InputAssumption, FS_Interval DEF Nodes
<1>2. IsFiniteSet(S) /\ S \subseteq activeNodes
  BY <1>1, FS_Subset DEF ArgInv
<1>3. next \in Seq(S) /\ ToSet(next) = S
  BY <1>2, Listing DEF Neighbours
<1> QED
  BY <1>2, <1>3

LEMMA TailFacts ==
  ASSUME NEW T, NEW s \in Seq(T), s # << >>
  PROVE  /\ Head(s) = s[1] /\ Head(s) \in T /\ Tail(s) \in Seq(T)
         /\ Len(s) \in Nat /\ Len(s) > 0 /\ Len(Tail(s)) = Len(s) - 1
         /\ \A i \in 1 .. Len(Tail(s)) : Tail(s)[i] = s[i + 1]
         /\ ToSet(s) = {s[1]} \cup ToSet(Tail(s))
<1>1. /\ Head(s) = s[1] /\ Head(s) \in T /\ Tail(s) \in Seq(T)
      /\ Len(s) \in Nat /\ Len(s) > 0 /\ Len(Tail(s)) = Len(s) - 1
      /\ \A i \in 1 .. Len(Tail(s)) : Tail(s)[i] = s[i + 1]
  OBVIOUS
<1>2. \A i \in 1 .. Len(s) : i = 1 \/ (i - 1 \in 1 .. Len(Tail(s)) /\ s[i] = Tail(s)[i - 1])
  BY <1>1
<1>3. \A i \in 1 .. Len(Tail(s)) : i + 1 \in 1 .. Len(s)
  BY <1>1
<1>4. DOMAIN s = 1 .. Len(s) /\ DOMAIN Tail(s) = 1 .. Len(Tail(s)) /\ 1 \in 1 .. Len(s)
  BY <1>1
<1>5. ASSUME NEW i \in DOMAIN s PROVE s[i] \in {s[1]} \cup ToSet(Tail(s))
  BY <1>2, <1>4 DEF ToSet
<1>6. {s[1]} \cup ToSet(Tail(s)) \subseteq ToSet(s)
  BY <1>1, <1>3, <1>4 DEF ToSet
<1>7. ToSet(s) = {s[1]} \cup ToSet(Tail(s))
  BY <1>5, <1>6 DEF ToSet
<1> QED
  BY <1>1, <1>7

\* w is s followed by t; w is s followed by one element and t.
Concatenated(s, t, w) ==
  /\ Len(w) = Len(s) + Len(t) /\ Len(s) \in Nat /\ Len(t) \in Nat
  /\ \A i \in 1 .. Len(s) : w[i] = s[i]
  /\ \A i \in 1 .. Len(t) : w[Len(s) + i] = t[i]
  /\ ToSet(w) = ToSet(s) \cup ToSet(t)

Joined(s, one, t, w) ==
  /\ Len(s) \in Nat /\ Len(t) \in Nat /\ Len(w) = Len(s) + 1 + Len(t)
  /\ \A i \in 1 .. Len(s) : w[i] = s[i]
  /\ w[Len(s) + 1] = one[1]
  /\ \A i \in 1 .. Len(t) : w[Len(s) + 1 + i] = t[i]

LEMMA ConcatFacts ==
  ASSUME NEW T, NEW s \in Seq(T), NEW t \in Seq(T)
  PROVE  s \o t \in Seq(T) /\ Concatenated(s, t, s \o t)
<1>1. /\ s \o t \in Seq(T) /\ Len(s \o t) = Len(s) + Len(t) /\ Len(s) \in Nat /\ Len(t) \in Nat
      /\ \A i \in 1 .. Len(s) : (s \o t)[i] = s[i]
  OBVIOUS
<1>2. \A i \in 1 .. Len(t) : (s \o t)[Len(s) + i] = t[i]
  <2> TAKE i \in 1 .. Len(t)
  <2>1. Len(s) + i \in 1 .. Len(s) + Len(t) /\ Len(s) + i > Len(s) /\ (Len(s) + i) - Len(s) = i
    BY <1>1
  <2> QED
    BY <1>1, <2>1
<1>3. /\ DOMAIN s = 1 .. Len(s) /\ DOMAIN t = 1 .. Len(t)
      /\ DOMAIN (s \o t) = 1 .. Len(s) + Len(t)
  BY <1>1
<1>4. ASSUME NEW i \in 1 .. Len(s) + Len(t) PROVE (s \o t)[i] \in ToSet(s) \cup ToSet(t)
  <2>1. CASE i <= Len(s)
    BY <1>1, <1>3, <2>1 DEF ToSet
  <2>2. CASE i > Len(s)
    <3>1. i - Len(s) \in 1 .. Len(t) /\ Len(s) + (i - Len(s)) = i
      BY <1>1, <2>2
    <3>2. (s \o t)[i] = t[i - Len(s)]
      BY <1>2, <3>1
    <3> QED
      BY <1>3, <3>1, <3>2 DEF ToSet
  <2> QED
    BY <1>1, <2>1, <2>2
<1>5. \A i \in 1 .. Len(s) : i \in 1 .. Len(s) + Len(t)
  BY <1>1
<1>6. \A i \in 1 .. Len(t) : Len(s) + i \in 1 .. Len(s) + Len(t)
  BY <1>1
<1>7. ASSUME NEW i \in DOMAIN s PROVE s[i] \in ToSet(s \o t)
  <2>1. i \in DOMAIN (s \o t) /\ (s \o t)[i] = s[i]
    BY <1>1, <1>3, <1>5
  <2> QED
    BY <2>1 DEF ToSet
<1>8. ASSUME NEW i \in DOMAIN t PROVE t[i] \in ToSet(s \o t)
  <2>1. Len(s) + i \in DOMAIN (s \o t) /\ (s \o t)[Len(s) + i] = t[i]
    BY <1>2, <1>3, <1>6
  <2> QED
    BY <2>1 DEF ToSet
<1>9. ToSet(s \o t) = ToSet(s) \cup ToSet(t)
  BY <1>3, <1>4, <1>7, <1>8 DEF ToSet
<1> QED
  BY <1>1, <1>2, <1>9 DEF Concatenated

LEMMA FunctionAsSequence ==
  ASSUME NEW T, NEW n \in Nat, NEW f \in [1 .. n -> T]
  PROVE  f \in Seq(T) /\ Len(f) = n
OBVIOUS

LEMMA OneElement ==
  ASSUME NEW T, NEW e \in T, NEW one, one = <<e>>
  PROVE  one \in Seq(T) /\ Len(one) = 1 /\ one[1] = e
OBVIOUS

LEMMA ThreeParts ==
  ASSUME NEW T, NEW s \in Seq(T), NEW one \in Seq(T), Len(one) = 1, NEW t \in Seq(T)
  PROVE  /\ (s \o one) \o t \in Seq(T)
         /\ Joined(s, one, t, (s \o one) \o t)
<1>1. s \o one \in Seq(T) /\ Concatenated(s, one, s \o one)
  BY ConcatFacts
<1>2. (s \o one) \o t \in Seq(T) /\ Concatenated(s \o one, t, (s \o one) \o t)
  BY <1>1, ConcatFacts
<1>3. PICK both, w : both = s \o one /\ w = both \o t
  OBVIOUS
<1>4. Concatenated(s, one, both) /\ Concatenated(both, t, w)
  BY <1>1, <1>2, <1>3
<1>5. Joined(s, one, t, w)
  <2>1. /\ Len(s) \in Nat /\ Len(t) \in Nat /\ Len(both) = Len(s) + 1 /\ Len(w) = Len(both) + Len(t)
        /\ \A i \in 1 .. Len(s) : both[i] = s[i]
        /\ \A i \in 1 .. 1 : both[Len(s) + i] = one[i]
        /\ \A i \in 1 .. Len(both) : w[i] = both[i]
        /\ \A i \in 1 .. Len(t) : w[Len(both) + i] = t[i]
    BY <1>4 DEF Concatenated
  <2>2. both[Len(s) + 1] = one[1] /\ Len(s) + 1 \in 1 .. Len(both)
    BY <2>1
  <2>3. \A i \in 1 .. Len(s) : i \in 1 .. Len(both)
    BY <2>1
  <2>4. /\ Len(s) \in Nat /\ Len(t) \in Nat /\ Len(w) = Len(s) + 1 + Len(t)
        /\ \A i \in 1 .. Len(s) : w[i] = s[i]
        /\ w[Len(s) + 1] = one[1]
        /\ \A i \in 1 .. Len(t) : w[Len(s) + 1 + i] = t[i]
    BY <2>1, <2>2, <2>3
  <2> QED
    BY <2>4 DEF Joined
<1> QED
  BY <1>2, <1>3, <1>5

\* The stack after a node was opened: its neighbours, its own entry, the rest.
Filled(stack, next, x, rest) ==
  /\ Len(next) \in Nat /\ Len(rest) \in Nat /\ Len(stack) = Len(next) + 1 + Len(rest)
  /\ \A i \in 1 .. Len(next) : stack[i] = <<next[i], FALSE>>
  /\ stack[Len(next) + 1] = <<x, TRUE>>
  /\ \A i \in 1 .. Len(rest) : stack[Len(next) + 1 + i] = rest[i]

LEMMA FilledFacts ==
  ASSUME NEW N, NEW next \in Seq(N), NEW x \in N, NEW rest \in Seq(N \X BOOLEAN), NEW stack,
         stack = [ i \in DOMAIN next |-> <<next[i], FALSE>> ] \o << <<x, TRUE>> >> \o rest
  PROVE  stack \in Seq(N \X BOOLEAN) /\ Filled(stack, next, x, rest)
<1>1. PICK T : T = N \X BOOLEAN
  OBVIOUS
<1>2. PICK front : front = [ i \in DOMAIN next |-> <<next[i], FALSE>> ]
  OBVIOUS
<1>3. Len(next) \in Nat /\ DOMAIN next = 1 .. Len(next) /\ \A i \in 1 .. Len(next) : next[i] \in N
  OBVIOUS
<1>4. front \in [1 .. Len(next) -> T] /\ \A i \in 1 .. Len(next) : front[i] = <<next[i], FALSE>>
  BY <1>1, <1>2, <1>3
<1>5. front \in Seq(T) /\ Len(front) = Len(next)
  BY <1>3, <1>4, FunctionAsSequence
<1>6. PICK e, one : e = <<x, TRUE>> /\ one = <<e>>
  OBVIOUS
<1>7. e \in T
  BY <1>1, <1>6
<1>8. one \in Seq(T) /\ Len(one) = 1 /\ one[1] = e
  BY <1>6, <1>7, OneElement
<1>9. rest \in Seq(T)
  BY <1>1
<1>10. (front \o one) \o rest \in Seq(T) /\ Joined(front, one, rest, (front \o one) \o rest)
  BY <1>5, <1>8, <1>9, ThreeParts
<1>11. stack = (front \o one) \o rest
  BY <1>2, <1>6
<1>12. stack \in Seq(T) /\ Joined(front, one, rest, stack)
  BY <1>10, <1>11
<1>13. /\ Len(front) \in Nat /\ Len(rest) \in Nat /\ Len(stack) = Len(front) + 1 + Len(rest)
       /\ \A i \in 1 .. Len(front) : stack[i] = front[i]
       /\ stack[Len(front) + 1] = one[1]
       /\ \A i \in 1 .. Len(rest) : stack[Len(front) + 1 + i] = rest[i]
  BY <1>12 DEF Joined
<1> QED
  BY <1>1, <1>4, <1>5, <1>6, <1>8, <1>12, <1>13 DEF Filled

-----------------------------------------------------------------------------
(* What a node leads to in the active graph                                *)

LEMMA Leads ==
  /\ \A a \in activeNodes : Reach(a) \subseteq activeNodes /\ a \in Reach(a)
  /\ \A a \in activeNodes : \A b \in Reach(a) : Reach(b) \subseteq Reach(a)
<1>1. \A a \in activeNodes : Reach(a) \subseteq activeNodes
  BY DEF Reach, Reachable
<1>2. \A a \in activeNodes : a \in Reach(a)
  BY ReachRefl DEF Reach
<1>3. ASSUME NEW a \in activeNodes, NEW b \in Reach(a), NEW c \in Reach(b)
      PROVE  c \in Reach(a)
  BY <1>3, ReachTrans DEF Reach
<1> QED
  BY <1>1, <1>2, <1>3

LEMMA LeadsBySteps ==
  ASSUME ArgInv, NEW a \in activeNodes, NEW b \in Reach(a)
  PROVE  Successors(edges, b) \cap activeNodes \subseteq Reach(a)
<1>1. SUFFICES ASSUME NEW c \in activeNodes, c \in Successors(edges, b)
               PROVE  c \in Reach(a)
  OBVIOUS
<1>2. <<b, c>> \in edges
  BY <1>1, PredecessorsDef DEF ArgInv
<1> QED
  BY <1>1, <1>2, ReachStep DEF Reach

\* The successors of b are the nodes b precedes.
LEMMA BothWays ==
  ASSUME ArgInv, NEW b, NEW c
  PROVE  /\ b \in Predecessors(edges, c) <=> c \in Successors(edges, b)
         /\ b \in Predecessors(edges, c) <=> b \in Successors(Transposed(edges), c)
         /\ b \in Predecessors(edges, c) <=> <<b, c>> \in edges
<1>1. /\ b \in Predecessors(edges, c) <=> <<b, c>> \in edges
      /\ c \in Successors(edges, b) <=> <<b, c>> \in edges
  BY PredecessorsDef DEF ArgInv
<1>2. Transposed(edges) \subseteq Nodes \X Nodes
  BY DEF ArgInv, Transposed
<1>3. b \in Successors(Transposed(edges), c) <=> <<c, b>> \in Transposed(edges)
  BY <1>2, PredecessorsDef
<1>4. <<c, b>> \in Transposed(edges) <=> <<b, c>> \in edges
  <2>1. ASSUME NEW e \in edges, <<c, b>> = <<e[2], e[1]>> PROVE e = <<b, c>>
    BY <2>1 DEF ArgInv
  <2> QED
    BY <2>1 DEF Transposed
<1> QED
  BY <1>1, <1>3, <1>4

\* What a node leads to is in every set that has the node and the active
\* successors of its members.
LEMMA LeadsInside ==
  ASSUME ArgInv, NEW S, S \subseteq activeNodes, NEW a \in S,
         \A u \in S : Successors(edges, u) \cap activeNodes \subseteq S
  PROVE  Reach(a) \subseteq S
<1>1. ASSUME NEW e \in Within(edges, activeNodes), e[1] \in S PROVE e[2] \in S
  <2>1. e \in edges /\ e[2] \in activeNodes
    BY DEF Within
  <2>2. e = <<e[1], e[2]>>
    BY <2>1 DEF ArgInv
  <2>3. e[2] \in Successors(edges, e[1])
    BY <2>1, <2>2, PredecessorsDef DEF ArgInv
  <2> QED
    BY <1>1, <2>1, <2>3
<1>2. Closed(Within(edges, activeNodes), S)
  BY <1>1 DEF Closed
<1> QED
  BY <1>2 DEF Reach, Reachable

LEMMA CompFacts ==
  ASSUME NEW a \in activeNodes
  PROVE  /\ a \in Comp(a) /\ Comp(a) \subseteq Reach(a) /\ Comp(a) \subseteq activeNodes
         /\ \A b \in activeNodes : b \in Comp(a) <=> b \in Reach(a) /\ a \in Reach(b)
         /\ \A b \in Comp(a) : Comp(b) = Comp(a) /\ a \in Comp(b)
<1>1. a \in Comp(a) /\ Comp(a) \subseteq activeNodes
  BY ComponentRefl DEF Comp
<1>2. /\ Comp(a) \subseteq Reach(a)
      /\ \A b \in activeNodes : b \in Comp(a) <=> b \in Reach(a) /\ a \in Reach(b)
  BY DEF Comp, Component, Reach
<1>3. \A b \in Comp(a) : Comp(b) = Comp(a)
  BY ComponentSame DEF Comp
<1> QED
  BY <1>1, <1>2, <1>3

-----------------------------------------------------------------------------
(* The steps of the first pass                                             *)

IInv == ArgInv /\ TypeOK /\ FirstInv /\ SecondInv

\* What no action changes.
LEMMA SameArguments ==
  ASSUME UNCHANGED arguments
  PROVE  /\ edges' = edges /\ activeNodes' = activeNodes /\ (ArgInv => ArgInv')
         /\ \A a : Reachable(edges', activeNodes', a) = Reach(a)
         /\ \A a : Component(edges', activeNodes', a) = Comp(a)
BY DEF arguments, ArgInv, Reach, Comp

\* A neighbour that was visited meanwhile is dropped.
LEMMA SkipVisited ==
  ASSUME IInv, pc = "fill", dfsStack # << >>, Head(dfsStack)[2] = FALSE,
         Head(dfsStack)[1] \in visited, dfsStack' = Tail(dfsStack),
         UNCHANGED <<visited, nodeStack>>,
         UNCHANGED <<arguments, pc, node, currentGroup, result>>
  PROVE  (StackInv /\ FinishInv /\ ScanInv)'
<1> DEFINE n == Len(dfsStack)
<1>1. /\ dfsStack[1] = Head(dfsStack) /\ n \in Nat /\ n > 0 /\ Len(dfsStack') = n - 1
      /\ \A i \in 1 .. n - 1 : dfsStack'[i] = dfsStack[i + 1]
  BY TailFacts DEF IInv, TypeOK
<1>2. DOMAIN dfsStack = 1 .. n /\ DOMAIN dfsStack' = 1 .. n - 1
  <2>1. dfsStack \in Seq(activeNodes \X BOOLEAN) /\ dfsStack' \in Seq(activeNodes \X BOOLEAN)
    BY TailFacts DEF IInv, TypeOK
  <2> QED
    BY <1>1, <2>1
<1> HIDE DEF n
<1>3. /\ \A i \in 1 .. n - 1 : i + 1 \in 1 .. n
      /\ \A i \in 1 .. n : i = 1 \/ (i - 1 \in 1 .. n - 1 /\ (i - 1) + 1 = i)
  BY <1>1
<1>4. StackInv /\ FinishInv /\ ScanInv
  BY DEF IInv, FirstInv
<1>5. 1 \notin Posts /\ \A i : i \in Posts' <=> i \in 1 .. n - 1 /\ i + 1 \in Posts
  BY <1>1, <1>2, <1>3 DEF Posts
<1>6. Finished' = Finished
  BY DEF Finished
<1>7. Open' = Open
  <2>1. ASSUME NEW i \in Posts PROVE i - 1 \in Posts' /\ dfsStack'[i - 1][1] = dfsStack[i][1]
    <3>1. i \in 1 .. n /\ i # 1
      BY <1>2, <1>5 DEF Posts
    <3> QED
      BY <1>1, <1>3, <1>5, <3>1
  <2>2. ASSUME NEW i \in Posts' PROVE i + 1 \in Posts /\ dfsStack'[i][1] = dfsStack[i + 1][1]
    BY <1>1, <1>5
  <2> QED
    BY <2>1, <2>2 DEF Open
<1>8. ASSUME NEW i \in Posts'
      PROVE  /\ dfsStack'[i][1] \notin Finished'
             /\ \A j \in DOMAIN dfsStack' : j < i => dfsStack'[j][1] \in Reach(dfsStack'[i][1])
             /\ \A j \in Posts' : dfsStack'[i][1] = dfsStack'[j][1] => i = j
             /\ \A s \in Successors(edges, dfsStack'[i][1]) \cap activeNodes :
                  s \in visited \/ \E j \in DOMAIN dfsStack' : j < i /\ dfsStack'[j] = <<s, FALSE>>
  <2>0. PICK u : u = dfsStack'[i][1]
    OBVIOUS
  <2>1. i \in 1 .. n - 1 /\ i + 1 \in Posts /\ dfsStack[i + 1][1] = u
    BY <1>1, <1>5, <2>0
  <2>2. u \notin Finished'
    BY <1>4, <1>6, <2>1 DEF StackInv
  <2>3. ASSUME NEW j \in 1 .. n - 1, j < i PROVE dfsStack'[j][1] \in Reach(u)
    <3>1. j + 1 \in DOMAIN dfsStack /\ j + 1 < i + 1
      BY <1>1, <1>2, <1>3, <2>1, <2>3
    <3> QED
      BY <1>1, <1>4, <2>1, <3>1 DEF StackInv
  <2>4. ASSUME NEW j \in Posts', u = dfsStack'[j][1] PROVE i = j
    <3>1. j \in 1 .. n - 1 /\ j + 1 \in Posts /\ dfsStack[j + 1][1] = u
      BY <1>1, <1>5, <2>4
    <3>2. i + 1 = j + 1
      <4>1. dfsStack[i + 1][1] = dfsStack[j + 1][1] /\ i + 1 \in Posts /\ j + 1 \in Posts
        BY <2>1, <3>1
      <4> QED
        BY <1>4, <4>1 DEF StackInv
    <3> QED
      BY <1>1, <2>1, <3>1, <3>2
  <2>5. ASSUME NEW s \in Successors(edges, u) \cap activeNodes, s \notin visited
        PROVE  \E j \in DOMAIN dfsStack' : j < i /\ dfsStack'[j] = <<s, FALSE>>
    <3>1. PICK j \in DOMAIN dfsStack : j < i + 1 /\ dfsStack[j] = <<s, FALSE>>
      BY <1>4, <2>1, <2>5 DEF StackInv
    <3>2. j # 1
      BY <1>1, <2>5, <3>1
    <3>3. j - 1 \in 1 .. n - 1 /\ (j - 1) + 1 = j /\ j - 1 < i
      BY <1>1, <1>2, <1>3, <2>1, <3>1, <3>2
    <3> QED
      BY <1>1, <1>2, <3>1, <3>3
  <2> QED
    BY <1>2, <2>0, <2>2, <2>3, <2>4, <2>5
<1>9. StackInv'
  <2>1. visited' = Finished' \cup Open'
    BY <1>4, <1>6, <1>7 DEF StackInv
  <2> QED
    BY <1>8, <2>1, SameArguments DEF StackInv, Reach
<1>10. FinishInv'
  BY <1>4, SameArguments DEF FinishInv, Finished, AmongFirst, Comp, Reach
<1>11. ScanInv'
  <2>1. node' \in visited' \/ \E i \in DOMAIN dfsStack' : dfsStack'[i] = <<node', FALSE>>
    <3>1. CASE node \in visited
      BY <3>1
    <3>2. CASE node \notin visited
      <4>1. PICK i \in DOMAIN dfsStack : dfsStack[i] = <<node, FALSE>>
        BY <1>4, <3>2 DEF ScanInv
      <4>2. i # 1
        BY <1>1, <3>2, <4>1
      <4>3. i - 1 \in DOMAIN dfsStack' /\ dfsStack'[i - 1] = <<node, FALSE>>
        BY <1>1, <1>2, <1>3, <4>1, <4>2
      <4> QED
        BY <4>3
    <3> QED
      BY <3>1, <3>2
  <2> QED
    BY <1>4, <2>1 DEF ScanInv, result, Nodes, arguments
<1> QED
  BY <1>9, <1>10, <1>11

\* A node that all its neighbours were visited from is finished: it goes on
\* nodeStack.
LEMMA PushFinished ==
  ASSUME IInv, pc = "fill", dfsStack # << >>, NEW x, x = Head(dfsStack)[1],
         Head(dfsStack)[2] = TRUE, nodeStack' = <<x>> \o nodeStack, dfsStack' = Tail(dfsStack),
         UNCHANGED <<arguments, pc, node, visited, currentGroup, result>>
  PROVE  (StackInv /\ FinishInv /\ ScanInv)'
<1> DEFINE n == Len(dfsStack)
           m == Len(nodeStack)
<1>1. /\ dfsStack[1] = Head(dfsStack) /\ n \in Nat /\ n > 0 /\ Len(dfsStack') = n - 1
      /\ \A i \in 1 .. n - 1 : dfsStack'[i] = dfsStack[i + 1]
      /\ x \in activeNodes
  BY TailFacts DEF IInv, TypeOK
<1>18. \A s : dfsStack[1] # <<s, FALSE>>
  <2>1. dfsStack[1][2] = TRUE
    BY <1>1
  <2>2. \A s : <<s, FALSE>>[2] = FALSE
    OBVIOUS
  <2> QED
    BY <2>1, <2>2
<1>2. DOMAIN dfsStack = 1 .. n /\ DOMAIN dfsStack' = 1 .. n - 1
  <2>1. dfsStack \in Seq(activeNodes \X BOOLEAN) /\ dfsStack' \in Seq(activeNodes \X BOOLEAN)
    BY TailFacts DEF IInv, TypeOK
  <2> QED
    BY <1>1, <2>1
<1>3. /\ m \in Nat /\ DOMAIN nodeStack = 1 .. m /\ DOMAIN nodeStack' = 1 .. m + 1
      /\ nodeStack'[1] = x /\ \A i \in 1 .. m : nodeStack'[i + 1] = nodeStack[i]
      /\ Finished' = Finished \cup {x}
  <2>1. nodeStack \in Seq(activeNodes)
    BY DEF IInv, TypeOK
  <2>2. PICK one : one = <<x>>
    OBVIOUS
  <2>3. one \in Seq(activeNodes) /\ Len(one) = 1 /\ one[1] = x
    BY <1>1, <2>2, OneElement
  <2>4. one \o nodeStack \in Seq(activeNodes) /\ Concatenated(one, nodeStack, one \o nodeStack)
    BY <2>1, <2>3, ConcatFacts
  <2>5. nodeStack' \in Seq(activeNodes) /\ Concatenated(one, nodeStack, nodeStack')
    BY <2>2, <2>4
  <2>6. /\ Len(nodeStack') = 1 + m /\ m \in Nat
        /\ \A i \in 1 .. 1 : nodeStack'[i] = one[i]
        /\ \A i \in 1 .. m : nodeStack'[1 + i] = nodeStack[i]
        /\ ToSet(nodeStack') = ToSet(one) \cup Finished
    BY <2>3, <2>5 DEF Concatenated, Finished
  <2>7. ToSet(one) = {x}
    BY <2>2 DEF ToSet
  <2>8. DOMAIN nodeStack = 1 .. m /\ DOMAIN nodeStack' = 1 .. m + 1
    BY <2>1, <2>5, <2>6
  <2>9. \A i \in 1 .. m : nodeStack'[i + 1] = nodeStack[i]
    BY <2>6
  <2> QED
    BY <2>3, <2>6, <2>7, <2>8, <2>9 DEF Finished
<1> HIDE DEF n, m
<1>4. /\ \A i \in 1 .. n - 1 : i + 1 \in 1 .. n
      /\ \A i \in 1 .. n : i = 1 \/ (i - 1 \in 1 .. n - 1 /\ (i - 1) + 1 = i)
      /\ \A i \in 1 .. m + 1 : i = 1 \/ (i - 1 \in 1 .. m /\ (i - 1) + 1 = i)
  BY <1>1, <1>3
<1>5. StackInv /\ FinishInv /\ ScanInv
  BY DEF IInv, FirstInv
<1>6. 1 \in Posts /\ \A i : i \in Posts' <=> i \in 1 .. n - 1 /\ i + 1 \in Posts
  BY <1>1, <1>2, <1>4 DEF Posts
<1>7. ASSUME NEW i \in Posts', NEW u, u = dfsStack'[i][1]
      PROVE  i \in 1 .. n - 1 /\ i + 1 \in Posts /\ dfsStack[i + 1][1] = u /\ u # x
  <2>1. i \in 1 .. n - 1 /\ i + 1 \in Posts /\ dfsStack[i + 1][1] = u
    BY <1>1, <1>6, <1>7
  <2>2. i + 1 # 1
    BY <1>1, <2>1
  <2>3. dfsStack[1][1] = x
    BY <1>1
  <2>4. u # x
    BY <1>5, <1>6, <2>1, <2>2, <2>3 DEF StackInv
  <2> QED
    BY <2>1, <2>4
<1>8. Open = Open' \cup {x}
  <2>1. ASSUME NEW i \in Posts PROVE dfsStack[i][1] = x \/ dfsStack[i][1] \in Open'
    <3>1. i \in 1 .. n
      BY <1>2 DEF Posts
    <3>2. CASE i = 1
      BY <1>1, <3>2
    <3>3. CASE i # 1
      <4>1. i - 1 \in Posts' /\ dfsStack'[i - 1][1] = dfsStack[i][1]
        BY <1>1, <1>4, <1>6, <3>1, <3>3
      <4> QED
        BY <4>1 DEF Open
    <3> QED
      BY <3>2, <3>3
  <2>2. ASSUME NEW i \in Posts' PROVE dfsStack'[i][1] \in Open
    BY <1>7 DEF Open
  <2>3. x \in Open
    BY <1>1, <1>6 DEF Open
  <2>4. Open' \subseteq Open
    BY <2>2 DEF Open
  <2>5. Open \subseteq Open' \cup {x}
    BY <2>1 DEF Open
  <2> QED
    BY <2>3, <2>4, <2>5
<1>9. ASSUME NEW i \in Posts'
      PROVE  /\ dfsStack'[i][1] \notin Finished'
             /\ \A j \in DOMAIN dfsStack' : j < i => dfsStack'[j][1] \in Reach(dfsStack'[i][1])
             /\ \A j \in Posts' : dfsStack'[i][1] = dfsStack'[j][1] => i = j
             /\ \A s \in Successors(edges, dfsStack'[i][1]) \cap activeNodes :
                  s \in visited \/ \E j \in DOMAIN dfsStack' : j < i /\ dfsStack'[j] = <<s, FALSE>>
  <2>0. PICK u : u = dfsStack'[i][1]
    OBVIOUS
  <2>1. i \in 1 .. n - 1 /\ i + 1 \in Posts /\ dfsStack[i + 1][1] = u /\ u # x
    BY <1>7, <2>0
  <2>2. u \notin Finished'
    BY <1>3, <1>5, <2>1 DEF StackInv
  <2>3. ASSUME NEW j \in 1 .. n - 1, j < i PROVE dfsStack'[j][1] \in Reach(u)
    <3>1. j + 1 \in DOMAIN dfsStack /\ j + 1 < i + 1
      BY <1>1, <1>2, <1>4, <2>1, <2>3
    <3> QED
      BY <1>1, <1>5, <2>1, <3>1 DEF StackInv
  <2>4. ASSUME NEW j \in Posts', u = dfsStack'[j][1] PROVE i = j
    <3>1. j \in 1 .. n - 1 /\ j + 1 \in Posts /\ dfsStack[j + 1][1] = u
      BY <1>7, <2>4
    <3>2. i + 1 = j + 1
      <4>1. dfsStack[i + 1][1] = dfsStack[j + 1][1] /\ i + 1 \in Posts /\ j + 1 \in Posts
        BY <2>1, <3>1
      <4> QED
        BY <1>5, <4>1 DEF StackInv
    <3> QED
      BY <1>1, <2>1, <3>1, <3>2
  <2>5. ASSUME NEW s \in Successors(edges, u) \cap activeNodes, s \notin visited
        PROVE  \E j \in DOMAIN dfsStack' : j < i /\ dfsStack'[j] = <<s, FALSE>>
    <3>1. PICK j \in DOMAIN dfsStack : j < i + 1 /\ dfsStack[j] = <<s, FALSE>>
      BY <1>5, <2>1, <2>5 DEF StackInv
    <3>2. j # 1
      BY <1>18, <3>1
    <3>3. j - 1 \in 1 .. n - 1 /\ (j - 1) + 1 = j /\ j - 1 < i
      BY <1>1, <1>2, <1>4, <2>1, <3>1, <3>2
    <3> QED
      BY <1>1, <1>2, <3>1, <3>3
  <2> QED
    BY <1>2, <2>0, <2>2, <2>3, <2>4, <2>5
<1>10. StackInv'
  <2>1. visited' = Finished' \cup Open'
    BY <1>3, <1>5, <1>8 DEF StackInv
  <2> QED
    BY <1>9, <2>1, SameArguments DEF StackInv, Reach
\* The neighbours of x are visited: what is open below x leads to x.
<1>11. x \notin Finished /\ Successors(edges, x) \cap activeNodes \subseteq visited
  <2>1. \A j \in DOMAIN dfsStack : ~(j < 1)
    BY <1>2
  <2>2. dfsStack[1][1] = x
    BY <1>1
  <2> QED
    BY <1>5, <1>6, <2>1, <2>2 DEF StackInv
<1>12. \A s \in Open : x \in Reach(s)
  <2>1. SUFFICES ASSUME NEW i \in Posts PROVE x \in Reach(dfsStack[i][1])
    BY DEF Open
  <2>2. CASE i = 1
    BY <1>1, <2>2, Leads
  <2>3. CASE i # 1
    <3>1. i \in 1 .. n /\ 1 \in DOMAIN dfsStack /\ 1 < i
      BY <1>1, <1>2, <2>3 DEF Posts
    <3> QED
      BY <1>1, <1>5, <3>1 DEF StackInv
  <2> QED
    BY <2>2, <2>3
\* The component of x leads to finished nodes only, if it is finished.
<1>13. ASSUME Comp(x) \subseteq Finished' PROVE Reach(x) \subseteq Finished'
  <2> DEFINE S == Reach(x) \cap Finished'
  <2>1. S \subseteq activeNodes /\ x \in S
    BY <1>1, <1>3, Leads
  <2>2. ASSUME NEW u \in S, NEW s \in Successors(edges, u) \cap activeNodes
        PROVE  s \in S
    <3>1. s \in Reach(x)
      BY <1>1, LeadsBySteps DEF IInv
    <3>2. s \in visited
      BY <1>3, <1>5, <1>11 DEF FinishInv
    <3>3. CASE s \in Finished
      BY <1>3, <3>1, <3>3
    <3>4. CASE s \in Open
      <4>1. s \in Comp(x)
        BY <1>1, <1>12, <3>1, <3>4, CompFacts
      <4> QED
        BY <1>13, <3>1, <4>1
    <3> QED
      BY <1>5, <3>2, <3>3, <3>4 DEF StackInv
  <2> HIDE DEF S
  <2>3. Reach(x) \subseteq S
    BY <2>1, <2>2, LeadsInside DEF IInv
  <2> QED
    BY <2>3 DEF S
<1>14. ASSUME NEW y \in Finished', Comp(y) \subseteq Finished'
       PROVE  Reach(y) \subseteq Finished'
  <2>1. y \in activeNodes
    <3>1. Finished \subseteq activeNodes
      BY <1>5 DEF StackInv, IInv, TypeOK
    <3> QED
      BY <1>1, <1>3, <3>1
  <2>2. CASE x \in Comp(y)
    <3>1. Comp(x) = Comp(y) /\ y \in Comp(x)
      BY <2>1, <2>2, CompFacts
    <3>2. Reach(x) \subseteq Finished' /\ y \in Reach(x)
      BY <1>1, <1>13, <1>14, <3>1, CompFacts
    <3> QED
      BY <1>1, <3>2, Leads
  <2>3. CASE x \notin Comp(y)
    <3>1. y \in Comp(y)
      BY <2>1, CompFacts
    <3>2. Comp(y) \subseteq Finished
      BY <1>3, <1>14, <2>3
    <3>3. Reach(y) \subseteq Finished
      BY <1>5, <3>1, <3>2 DEF FinishInv
    <3> QED
      BY <1>3, <3>3
  <2> QED
    BY <2>2, <2>3
<1>15. ASSUME NEW i \in DOMAIN nodeStack', NEW y \in activeNodes,
              nodeStack'[i] \in Reach(y), Comp(y) \subseteq Finished'
       PROVE  \E j \in 1 .. i : nodeStack'[j] \in Comp(y)
  <2>0. i \in 1 .. m + 1
    BY <1>3
  <2>1. CASE x \in Comp(y)
    <3>1. 1 \in 1 .. i
      BY <1>3, <2>0
    <3> QED
      BY <1>3, <2>1, <3>1
  <2>2. CASE x \notin Comp(y)
    <3>1. y \in Comp(y)
      BY CompFacts
    <3>2. Comp(y) \subseteq Finished
      BY <1>3, <1>15, <2>2
    <3>3. i # 1
      <4>1. Reach(y) \subseteq Finished
        BY <1>5, <3>1, <3>2 DEF FinishInv
      <4> QED
        BY <1>3, <1>11, <1>15, <4>1
    <3>4. i - 1 \in DOMAIN nodeStack /\ nodeStack[i - 1] = nodeStack'[i]
      BY <1>3, <1>4, <2>0, <3>3
    <3>5. AmongFirst(i - 1, y)
      BY <1>5, <1>15, <3>2, <3>4 DEF FinishInv
    <3>6. PICK j \in 1 .. i - 1 : nodeStack[j] \in Comp(y)
      BY <3>5 DEF AmongFirst
    <3>7. j + 1 \in 1 .. i /\ j \in 1 .. m
      BY <1>3, <2>0
    <3> QED
      BY <1>3, <3>6, <3>7
  <2> QED
    BY <2>1, <2>2
<1>16. FinishInv'
  <2>1. \A u \in Finished' : Successors(edges, u) \cap activeNodes \subseteq visited
    BY <1>3, <1>5, <1>11 DEF FinishInv
  <2> QED
    BY <1>14, <1>15, <2>1, SameArguments DEF FinishInv, AmongFirst, Reach, Comp
<1>17. ScanInv'
  <2>1. node \in visited \/ \E i \in DOMAIN dfsStack' : dfsStack'[i] = <<node, FALSE>>
    <3>1. CASE node \notin visited
      <4>1. PICK i \in DOMAIN dfsStack : dfsStack[i] = <<node, FALSE>>
        BY <1>5, <3>1 DEF ScanInv
      <4>2. i # 1
        BY <1>18, <4>1
      <4>3. i - 1 \in DOMAIN dfsStack' /\ dfsStack'[i - 1] = <<node, FALSE>>
        BY <1>1, <1>2, <1>4, <4>1, <4>2
      <4> QED
        BY <4>3
    <3> QED
      BY <3>1
  <2> QED
    BY <1>5, <2>1 DEF ScanInv, result, Nodes, arguments
<1> QED
  BY <1>10, <1>16, <1>17

\* A node is visited: its neighbours go above it on the stack.
LEMMA OpenNode ==
  ASSUME IInv, pc = "fill", dfsStack # << >>, NEW x, x = Head(dfsStack)[1],
         Head(dfsStack)[2] = FALSE, x \notin visited, visited' = visited \cup {x},
         NEW next \in Neighbours(edges, x, visited'),
         dfsStack' \in Seq(activeNodes \X BOOLEAN), Filled(dfsStack', next, x, Tail(dfsStack)),
         UNCHANGED nodeStack,
         UNCHANGED <<arguments, pc, node, currentGroup, result>>
  PROVE  (StackInv /\ FinishInv /\ ScanInv)'
<1> DEFINE n == Len(dfsStack)
           m == Len(next)
<1>1. /\ dfsStack[1] = Head(dfsStack) /\ n \in Nat /\ n > 0
      /\ Tail(dfsStack) \in Seq(activeNodes \X BOOLEAN) /\ Len(Tail(dfsStack)) = n - 1
      /\ \A i \in 1 .. n - 1 : Tail(dfsStack)[i] = dfsStack[i + 1]
      /\ x \in activeNodes /\ DOMAIN dfsStack = 1 .. n
  BY TailFacts DEF IInv, TypeOK
<1>2. next \in Seq(activeNodes) /\ ToSet(next) = (Successors(edges, x) \cap activeNodes) \ visited'
  BY NeighbourLists DEF IInv
<1>3. /\ dfsStack' \in Seq(activeNodes \X BOOLEAN)
      /\ m \in Nat /\ DOMAIN next = 1 .. m /\ DOMAIN dfsStack' = 1 .. m + n
      /\ \A i \in 1 .. m : dfsStack'[i] = <<next[i], FALSE>>
      /\ dfsStack'[m + 1] = <<x, TRUE>>
      /\ \A i \in 1 .. n - 1 : dfsStack'[m + 1 + i] = dfsStack[i + 1]
  <2>1. PICK rest : rest = Tail(dfsStack)
    OBVIOUS
  <2>2. Filled(dfsStack', next, x, rest)
    BY <2>1
  <2>3. /\ m \in Nat /\ Len(rest) = n - 1 /\ Len(dfsStack') = m + 1 + Len(rest)
        /\ \A i \in 1 .. m : dfsStack'[i] = <<next[i], FALSE>>
        /\ dfsStack'[m + 1] = <<x, TRUE>>
        /\ \A i \in 1 .. Len(rest) : dfsStack'[m + 1 + i] = rest[i]
    BY <1>1, <2>1, <2>2 DEF Filled
  <2>4. DOMAIN next = 1 .. m /\ DOMAIN dfsStack' = 1 .. m + n
    BY <1>1, <1>2, <2>3
  <2>5. \A i \in 1 .. n - 1 : dfsStack'[m + 1 + i] = dfsStack[i + 1]
    BY <1>1, <2>1, <2>3
  <2> HIDE DEF n, m
  <2> QED
    BY <2>3, <2>4, <2>5
<1>4. StackInv /\ FinishInv /\ ScanInv
  BY DEF IInv, FirstInv
<1>18. m \in Nat /\ n \in Nat /\ n > 0 /\ m + 1 \in 1 .. m + n
  BY <1>1, <1>3
<1> HIDE DEF n, m
\* The positions of the new stack: the neighbours, the node, what was below it.
<1>5. ASSUME NEW i \in 1 .. m + n
      PROVE  \/ i \in 1 .. m /\ dfsStack'[i] = <<next[i], FALSE>>
             \/ i = m + 1 /\ dfsStack'[i] = <<x, TRUE>>
             \/ i > m + 1 /\ i - m \in 2 .. n /\ dfsStack'[i] = dfsStack[i - m]
  <2>1. CASE i <= m
    <3>1. i \in 1 .. m
      BY <1>1, <1>18, <2>1
    <3> QED
      BY <1>3, <3>1
  <2>2. CASE i = m + 1
    BY <1>3, <2>2
  <2>3. CASE i > m + 1
    <3>1. PICK k : k = i - (m + 1)
      OBVIOUS
    <3>2. k \in 1 .. n - 1 /\ m + 1 + k = i /\ k + 1 = i - m /\ i - m \in 2 .. n
      BY <1>1, <1>18, <2>3, <3>1
    <3>3. dfsStack'[m + 1 + k] = dfsStack[k + 1]
      BY <1>3, <3>2
    <3> QED
      BY <2>3, <3>2, <3>3
  <2>4. i <= m \/ i = m + 1 \/ i > m + 1
    BY <1>1, <1>18
  <2> QED
    BY <2>1, <2>2, <2>3, <2>4
<1>6. ASSUME NEW i \in 2 .. n
      PROVE  i + m \in 1 .. m + n /\ i + m > m + 1 /\ dfsStack'[i + m] = dfsStack[i]
  <2>1. PICK k : k = i - 1
    OBVIOUS
  <2>2. k \in 1 .. n - 1 /\ m + 1 + k = i + m /\ k + 1 = i /\ i + m \in 1 .. m + n /\ i + m > m + 1
    BY <1>1, <1>18, <2>1
  <2>3. dfsStack'[m + 1 + k] = dfsStack[k + 1]
    BY <1>3, <2>2
  <2> QED
    BY <2>2, <2>3
<1>7. \A s : <<s, FALSE>>[2] = FALSE /\ <<s, TRUE>>[2] = TRUE
  OBVIOUS
<1>8. /\ 1 \notin Posts /\ m + 1 \in Posts'
      /\ \A i \in Posts' : i = m + 1 \/ (i > m + 1 /\ i - m \in Posts /\ dfsStack'[i] = dfsStack[i - m])
      /\ \A i \in Posts : i + m \in Posts' /\ dfsStack'[i + m] = dfsStack[i]
  <2>1. 1 \notin Posts
    BY <1>1 DEF Posts
  <2>2. m + 1 \in Posts'
    <3>1. m + 1 \in DOMAIN dfsStack' /\ dfsStack'[m + 1] = <<x, TRUE>>
      BY <1>3, <1>18
    <3>2. dfsStack'[m + 1][2]
      BY <1>7, <3>1
    <3> QED
      BY <3>1, <3>2 DEF Posts
  <2>3. ASSUME NEW i \in Posts'
        PROVE  i = m + 1 \/ (i > m + 1 /\ i - m \in Posts /\ dfsStack'[i] = dfsStack[i - m])
    <3>1. i \in 1 .. m + n /\ dfsStack'[i][2]
      BY <1>3 DEF Posts
    <3>2. CASE i \in 1 .. m /\ dfsStack'[i] = <<next[i], FALSE>>
      BY <1>7, <3>1, <3>2
    <3>3. CASE i > m + 1 /\ i - m \in 2 .. n /\ dfsStack'[i] = dfsStack[i - m]
      <4>1. i - m \in DOMAIN dfsStack
        BY <1>1, <3>3
      <4>2. dfsStack[i - m][2]
        BY <3>1, <3>3
      <4> QED
        BY <3>3, <4>1, <4>2 DEF Posts
    <3> QED
      BY <1>5, <3>1, <3>2, <3>3
  <2>4. ASSUME NEW i \in Posts PROVE i + m \in Posts' /\ dfsStack'[i + m] = dfsStack[i]
    <3>1. i \in 2 .. n /\ dfsStack[i][2]
      <4>1. i \in 1 .. n /\ i # 1
        BY <1>1, <2>1 DEF Posts
      <4>2. dfsStack[i][2]
        BY DEF Posts
      <4> QED
        BY <1>1, <4>1, <4>2
    <3>2. i + m \in DOMAIN dfsStack' /\ dfsStack'[i + m] = dfsStack[i]
      BY <1>3, <1>6, <3>1
    <3>3. dfsStack'[i + m][2]
      BY <3>1, <3>2
    <3> QED
      BY <3>2, <3>3 DEF Posts
  <2> QED
    BY <2>1, <2>2, <2>3, <2>4
<1>9. Finished' = Finished
  BY DEF Finished
<1>10. Open' = Open \cup {x}
  <2>1. \A i \in Posts' : dfsStack'[i][1] \in Open \cup {x}
    BY <1>3, <1>8 DEF Open
  <2>2. Open \subseteq Open'
    BY <1>8 DEF Open
  <2>3. x \in Open'
    BY <1>3, <1>8 DEF Open
  <2>4. Open' \subseteq Open \cup {x}
    BY <2>1 DEF Open
  <2> QED
    BY <2>2, <2>3, <2>4
<1>11. \A i \in Posts : dfsStack[i][1] # x /\ x \in Reach(dfsStack[i][1])
                        /\ dfsStack[i][1] \in activeNodes
  <2> TAKE i \in Posts
  <2>1. dfsStack[i][1] \in Open
    BY DEF Open
  <2>2. dfsStack[i][1] # x /\ dfsStack[i][1] \in activeNodes
    BY <1>4, <2>1 DEF StackInv, IInv, TypeOK
  <2>3. 1 \in DOMAIN dfsStack /\ 1 < i
    BY <1>1, <1>8 DEF Posts
  <2> QED
    BY <1>1, <1>4, <2>2, <2>3 DEF StackInv
<1>12. \A j \in 1 .. m : next[j] \in Reach(x)
  <2>1. \A j \in 1 .. m : next[j] \in Successors(edges, x) \cap activeNodes
    BY <1>2, <1>3 DEF ToSet
  <2> QED
    BY <1>1, <2>1, Leads, LeadsBySteps DEF IInv

<1>13. ASSUME NEW i \in Posts', i = m + 1
       PROVE  /\ dfsStack'[i][1] \notin Finished
              /\ \A j \in DOMAIN dfsStack' : j < i => dfsStack'[j][1] \in Reach(dfsStack'[i][1])
              /\ \A j \in Posts' : dfsStack'[i][1] = dfsStack'[j][1] => i = j
              /\ \A s \in Successors(edges, dfsStack'[i][1]) \cap activeNodes :
                   s \in visited' \/ \E j \in DOMAIN dfsStack' : j < i /\ dfsStack'[j] = <<s, FALSE>>
  <2>1. dfsStack'[i][1] = x /\ x \notin Finished
    BY <1>3, <1>4, <1>13 DEF StackInv
  <2>2. ASSUME NEW j \in 1 .. m + n, j < i PROVE dfsStack'[j][1] \in Reach(x)
    <3>1. j \in 1 .. m
      BY <1>18, <1>13, <2>2
    <3>2. dfsStack'[j][1] = next[j]
      <4>1. dfsStack'[j] = <<next[j], FALSE>>
        BY <1>3, <3>1
      <4>2. <<next[j], FALSE>>[1] = next[j]
        OBVIOUS
      <4> QED
        BY <4>1, <4>2
    <3> QED
      BY <1>12, <3>1, <3>2
  <2>3. \A j \in Posts' : dfsStack'[j][1] = x => j = i
    BY <1>8, <1>11, <1>13
  <2>4. ASSUME NEW s \in Successors(edges, x) \cap activeNodes, s \notin visited'
        PROVE  \E j \in 1 .. m + n : j < i /\ dfsStack'[j] = <<s, FALSE>>
    <3>1. s \in ToSet(next)
      BY <1>2, <2>4
    <3>2. PICK j \in 1 .. m : next[j] = s
      BY <1>3, <3>1 DEF ToSet
    <3>3. j \in 1 .. m + n /\ j < i
      BY <1>1, <1>3, <1>13
    <3> QED
      BY <1>3, <3>2, <3>3
  <2> QED
    BY <1>3, <2>1, <2>2, <2>3, <2>4
<1>14. ASSUME NEW i \in Posts', i # m + 1
       PROVE  /\ dfsStack'[i][1] \notin Finished
              /\ \A j \in DOMAIN dfsStack' : j < i => dfsStack'[j][1] \in Reach(dfsStack'[i][1])
              /\ \A j \in Posts' : dfsStack'[i][1] = dfsStack'[j][1] => i = j
              /\ \A s \in Successors(edges, dfsStack'[i][1]) \cap activeNodes :
                   s \in visited' \/ \E j \in DOMAIN dfsStack' : j < i /\ dfsStack'[j] = <<s, FALSE>>
  <2>1. PICK k, u : k = i - m /\ u = dfsStack'[i][1]
    OBVIOUS
  <2>2. i \in 1 .. m + n /\ i > m + 1 /\ k \in Posts /\ dfsStack[k][1] = u /\ k \in 1 .. n
    BY <1>1, <1>3, <1>8, <1>14, <2>1 DEF Posts
  <2>3. u # x /\ x \in Reach(u) /\ u \in activeNodes /\ u \notin Finished
    BY <1>4, <1>11, <2>2 DEF StackInv
  <2>4. ASSUME NEW j \in 1 .. m + n, j < i PROVE dfsStack'[j][1] \in Reach(u)
    <3>1. CASE j \in 1 .. m /\ dfsStack'[j] = <<next[j], FALSE>>
      BY <1>12, <2>3, <3>1, Leads
    <3>2. CASE j = m + 1
      BY <1>3, <2>3, <3>2
    <3>3. CASE j > m + 1 /\ j - m \in 2 .. n /\ dfsStack'[j] = dfsStack[j - m]
      <4>1. j - m \in DOMAIN dfsStack /\ j - m < k
        BY <1>1, <1>3, <2>1, <2>2, <2>4, <3>3
      <4> QED
        BY <1>4, <2>2, <3>3, <4>1 DEF StackInv
    <3> QED
      BY <1>5, <3>1, <3>2, <3>3
  <2>5. ASSUME NEW j \in Posts', u = dfsStack'[j][1] PROVE i = j
    <3>1. j # m + 1
      BY <1>3, <2>3, <2>5
    <3>2. PICK l : l = j - m
      OBVIOUS
    <3>3. l \in Posts /\ dfsStack[l][1] = u /\ j \in 1 .. m + n
      BY <1>3, <1>8, <2>5, <3>1, <3>2 DEF Posts
    <3>4. k = l
      BY <1>4, <2>2, <3>3 DEF StackInv
    <3> QED
      BY <1>1, <1>3, <2>1, <2>2, <3>2, <3>3, <3>4
  <2>6. ASSUME NEW s \in Successors(edges, u) \cap activeNodes, s \notin visited'
        PROVE  \E j \in 1 .. m + n : j < i /\ dfsStack'[j] = <<s, FALSE>>
    <3>1. PICK j \in DOMAIN dfsStack : j < k /\ dfsStack[j] = <<s, FALSE>>
      BY <1>4, <2>2, <2>6 DEF StackInv
    <3>2. j # 1
      BY <1>1, <2>6, <3>1
    <3>3. j \in 2 .. n
      BY <1>1, <3>1, <3>2
    <3>4. j + m < i
      BY <1>18, <2>1, <2>2, <3>1, <3>3
    <3>5. j + m \in 1 .. m + n /\ j + m < i /\ dfsStack'[j + m] = <<s, FALSE>>
      BY <1>6, <3>1, <3>3, <3>4
    <3> QED
      BY <3>5
  <2> QED
    BY <1>3, <2>1, <2>3, <2>4, <2>5, <2>6
<1>15. StackInv'
  <2>1. visited' = Finished' \cup Open'
    BY <1>4, <1>9, <1>10 DEF StackInv
  <2> QED
    BY <1>9, <1>13, <1>14, <2>1, SameArguments DEF StackInv, Reach
<1>16. FinishInv'
  <2>1. \A u \in Finished : Successors(edges, u) \cap activeNodes \subseteq visited'
    BY <1>4 DEF FinishInv
  <2> QED
    BY <1>4, <2>1, SameArguments DEF FinishInv, Finished, AmongFirst, Comp, Reach
<1>17. ScanInv'
  <2>1. node \in visited' \/ \E i \in DOMAIN dfsStack' : dfsStack'[i] = <<node, FALSE>>
    <3>1. CASE node \notin visited'
      <4>1. PICK i \in DOMAIN dfsStack : dfsStack[i] = <<node, FALSE>>
        BY <1>4, <3>1 DEF ScanInv
      <4>2. i # 1
        BY <1>1, <3>1, <4>1
      <4>3. i \in 2 .. n
        BY <1>1, <4>1, <4>2
      <4> QED
        BY <1>3, <1>6, <4>1, <4>3
    <3> QED
      BY <3>1
  <2> QED
    BY <1>4, <2>1 DEF ScanInv, result, Nodes, arguments
<1> QED
  BY <1>15, <1>16, <1>17

\* A step inside the first pass keeps the whole invariant if it keeps its type
\* and the first pass's part.
LEMMA StillFirst ==
  ASSUME IInv, UNCHANGED arguments, pc' \in {"scan", "fill"}, TypeOK',
         (StackInv /\ FinishInv /\ ScanInv)'
  PROVE  IInv'
<1>1. ArgInv'
  BY SameArguments DEF IInv
<1>2. SecondInv'
  BY DEF SecondInv
<1> QED
  BY <1>1, <1>2 DEF IInv, FirstInv

LEMMA FillKeeps ==
  ASSUME IInv, Fill
  PROVE  IInv'
<1> DEFINE x == Head(dfsStack)[1]
           post == Head(dfsStack)[2]
           rest == UNCHANGED <<arguments, pc, node, currentGroup, result>>
<1>1. /\ pc = "fill" /\ dfsStack # << >> /\ rest
      /\ \/ post /\ nodeStack' = <<x>> \o nodeStack /\ dfsStack' = Tail(dfsStack)
            /\ UNCHANGED visited
         \/ ~post /\ x \in visited /\ dfsStack' = Tail(dfsStack)
            /\ UNCHANGED <<visited, nodeStack>>
         \/ /\ ~post /\ x \notin visited /\ visited' = visited \cup {x} /\ UNCHANGED nodeStack
            /\ \E next \in Neighbours(edges, x, visited') :
                 dfsStack' = [ i \in DOMAIN next |-> <<next[i], FALSE>> ]
                               \o << <<x, TRUE>> >> \o Tail(dfsStack)
  BY DEF Fill
<1>2. /\ TypeOK /\ dfsStack \in Seq(activeNodes \X BOOLEAN)
      /\ x \in activeNodes /\ post \in BOOLEAN /\ Tail(dfsStack) \in Seq(activeNodes \X BOOLEAN)
  BY <1>1, TailFacts DEF IInv, TypeOK
<1>3. arguments' = arguments /\ pc' = pc /\ node' = node /\ currentGroup' = currentGroup
      /\ result' = result
  BY <1>1
<1>4. ASSUME visited \subseteq visited', visited' \subseteq activeNodes,
             nodeStack' \in Seq(activeNodes), dfsStack' \in Seq(activeNodes \X BOOLEAN)
      PROVE  TypeOK'
  BY <1>1, <1>2, <1>3, <1>4, SameArguments DEF TypeOK, result, Nodes
<1>5. CASE post /\ nodeStack' = <<x>> \o nodeStack /\ dfsStack' = Tail(dfsStack)
           /\ UNCHANGED visited
  <2>1. PICK one : one = <<x>>
    OBVIOUS
  <2>2. one \in Seq(activeNodes) /\ nodeStack \in Seq(activeNodes)
    BY <1>2, <2>1, OneElement DEF TypeOK
  <2>3. nodeStack' \in Seq(activeNodes)
    BY <1>5, <2>1, <2>2, ConcatFacts
  <2>4. TypeOK'
    BY <1>2, <1>4, <1>5, <2>3 DEF TypeOK
  <2>5. post = TRUE
    BY <1>2, <1>5
  <2>6. (StackInv /\ FinishInv /\ ScanInv)'
    BY <1>1, <1>5, <2>5, PushFinished
  <2> QED
    BY <1>1, <1>3, <2>4, <2>6, StillFirst
<1>6. CASE ~post /\ x \in visited /\ dfsStack' = Tail(dfsStack) /\ UNCHANGED <<visited, nodeStack>>
  <2>1. TypeOK'
    BY <1>2, <1>4, <1>6 DEF TypeOK
  <2>2. post = FALSE
    BY <1>2, <1>6
  <2>3. (StackInv /\ FinishInv /\ ScanInv)'
    BY <1>1, <1>6, <2>2, SkipVisited
  <2> QED
    BY <1>1, <1>3, <2>1, <2>3, StillFirst
<1>7. CASE /\ ~post /\ x \notin visited /\ visited' = visited \cup {x} /\ UNCHANGED nodeStack
           /\ \E next \in Neighbours(edges, x, visited') :
                dfsStack' = [ i \in DOMAIN next |-> <<next[i], FALSE>> ]
                              \o << <<x, TRUE>> >> \o Tail(dfsStack)
  <2>1. PICK next \in Neighbours(edges, x, visited') :
                dfsStack' = [ i \in DOMAIN next |-> <<next[i], FALSE>> ]
                              \o << <<x, TRUE>> >> \o Tail(dfsStack)
    BY <1>7
  <2>2. next \in Seq(activeNodes)
    BY NeighbourLists DEF IInv
  <2>3. dfsStack' \in Seq(activeNodes \X BOOLEAN) /\ Filled(dfsStack', next, x, Tail(dfsStack))
    BY <1>2, <2>1, <2>2, FilledFacts
  <2>4. TypeOK'
    BY <1>2, <1>4, <1>7, <2>3 DEF TypeOK
  <2>5. post = FALSE
    BY <1>2, <1>7
  <2>6. (StackInv /\ FinishInv /\ ScanInv)'
    BY <1>1, <1>7, <2>3, <2>5, OpenNode
  <2> QED
    BY <1>1, <1>3, <2>4, <2>6, StillFirst
<1> QED
  BY <1>1, <1>5, <1>6, <1>7

\* Between two searches nothing is open.
LEMMA NothingOpen ==
  ASSUME StackInv, dfsStack = << >>
  PROVE  Posts = {} /\ Open = {} /\ visited = Finished
BY DEF StackInv, Posts, Open

LEMMA StartFillKeeps ==
  ASSUME IInv, StartFill
  PROVE  IInv'
<1>1. /\ pc = "scan" /\ node \in activeNodes \ visited /\ dfsStack' = << <<node, FALSE>> >>
      /\ pc' = "fill" /\ UNCHANGED <<arguments, node, visited, nodeStack, currentGroup, result>>
  BY DEF StartFill
<1>2. StackInv /\ FinishInv /\ ScanInv /\ dfsStack = << >>
  BY <1>1 DEF IInv, FirstInv, ScanInv
<1>3. dfsStack' \in Seq(activeNodes \X BOOLEAN) /\ DOMAIN dfsStack' = {1} /\ dfsStack'[1] = <<node, FALSE>>
  <2>1. PICK e \in activeNodes \X BOOLEAN : e = <<node, FALSE>>
    BY <1>1
  <2>2. dfsStack' \in Seq(activeNodes \X BOOLEAN) /\ Len(dfsStack') = 1 /\ dfsStack'[1] = e
    BY <1>1, <2>1, OneElement
  <2>3. DOMAIN dfsStack' = 1 .. 1
    BY <2>2
  <2> QED
    BY <2>1, <2>2, <2>3
<1>4. TypeOK'
  BY <1>1, <1>3, SameArguments DEF IInv, TypeOK, result, Nodes
<1>5. Posts' = {} /\ Finished' = Finished
  <2>1. dfsStack'[1][2] = FALSE
    BY <1>3
  <2> QED
    BY <1>1, <1>3, <2>1 DEF Posts, Finished
<1>6. StackInv'
  <2>1. Open' = {}
    BY <1>5 DEF Open
  <2>2. visited' = Finished' \cup Open'
    BY <1>1, <1>2, <1>5, <2>1, NothingOpen
  <2> QED
    BY <1>5, <2>2 DEF StackInv
<1>7. FinishInv'
  BY <1>1, <1>2, SameArguments DEF FinishInv, Finished, AmongFirst, Comp, Reach
<1>8. ScanInv'
  BY <1>1, <1>2, <1>3 DEF ScanInv, result, Nodes, arguments
<1> QED
  BY <1>1, <1>4, <1>6, <1>7, <1>8, StillFirst

\* A node the search may move on from was visited or is not active.
LEMMA MoveOn ==
  ASSUME IInv, pc \in {"scan", "fill"}, dfsStack = << >>, node \notin activeNodes \ visited,
         pc' = "scan", node >= 0, node' = node - 1,
         UNCHANGED <<arguments, visited, dfsStack, nodeStack, currentGroup, result>>
  PROVE  IInv'
<1>1. StackInv /\ FinishInv /\ ScanInv /\ TypeOK
  BY DEF IInv, FirstInv
<1>2. node \in 0 .. NumNodes - 1 /\ NumNodes \in Nat /\ activeNodes \subseteq 0 .. NumNodes - 1
  BY <1>1, InputAssumption DEF TypeOK, IInv, ArgInv, Nodes
<1>3. node' \in -1 .. NumNodes - 1
  BY <1>2
<1>4. TypeOK'
  BY <1>1, <1>3, SameArguments DEF TypeOK, result, Nodes
<1>5. Posts' = Posts /\ Open' = Open /\ Finished' = Finished
  BY DEF Posts, Open, Finished
<1>6. StackInv'
  <2>1. Posts = {}
    BY <1>1, NothingOpen
  <2> QED
    BY <1>1, <1>5, <2>1 DEF StackInv
<1>7. FinishInv'
  BY <1>1, SameArguments DEF FinishInv, Finished, AmongFirst, Comp, Reach
<1>8. ScanInv'
  <2>1. ASSUME NEW n \in activeNodes, n > node - 1 PROVE n \in visited
    <3>1. n = node \/ n > node
      BY <1>2, <2>1
    <3> QED
      BY <1>1, <3>1 DEF ScanInv
  <2> QED
    BY <1>1, <2>1 DEF ScanInv, result, Nodes, arguments
<1> QED
  BY <1>4, <1>6, <1>7, <1>8, StillFirst

LEMMA SkipNodeKeeps ==
  ASSUME IInv, SkipNode
  PROVE  IInv'
<1>1. dfsStack = << >>
  BY DEF SkipNode, IInv, FirstInv, ScanInv
<1> QED
  BY <1>1, MoveOn DEF SkipNode

LEMMA EndFillKeeps ==
  ASSUME IInv, EndFill
  PROVE  IInv'
<1>1. /\ pc = "fill" /\ dfsStack = << >> /\ pc' = "scan" /\ node' = node - 1
      /\ UNCHANGED <<arguments, visited, dfsStack, nodeStack, currentGroup, result>>
  BY DEF EndFill
<1>2. node \in visited
  <2>1. DOMAIN dfsStack = {}
    BY <1>1
  <2> QED
    BY <1>1, <2>1 DEF IInv, FirstInv, ScanInv
<1>3. node >= 0
  BY <1>2 DEF IInv, TypeOK, ArgInv, Nodes
<1> QED
  BY <1>1, <1>2, <1>3, MoveOn

-----------------------------------------------------------------------------
(* The steps of the second pass                                            *)

\* The parts of the second invariant, for a step that changes neither the
\* arguments nor the groups.
LEMMA SameGroups ==
  ASSUME UNCHANGED <<arguments, result>>
  PROVE  /\ Collected' = Collected
         /\ ResultInv => ResultInv'
<1>1. Collected' = Collected
  BY DEF Collected, result
<1> QED
  BY <1>1, SameArguments DEF ResultInv, result, arguments, Nodes

\* The second pass's part of the invariant is enough once pc has left the first.
LEMMA StillSecond ==
  ASSUME ArgInv, UNCHANGED arguments, pc' \in {"collect", "group", "done"}, TypeOK', SecondInv'
  PROVE  IInv'
<1>1. ArgInv'
  BY SameArguments
<1>2. FirstInv'
  BY DEF FirstInv
<1> QED
  BY <1>1, <1>2 DEF IInv

\* The groups gathered so far are whole components.
LEMMA CollectedWhole ==
  ASSUME ResultInv, NEW a \in activeNodes, NEW b \in Comp(a)
  PROVE  a \in Collected <=> b \in Collected
<1>1. ASSUME NEW c \in activeNodes, NEW d \in Comp(c), c \in Collected PROVE d \in Collected
  <2>1. PICK i \in DOMAIN groups : c \in groups[i]
    BY <1>1 DEF Collected, ToSet
  <2>2. groups[i] \in Components(edges, activeNodes)
    BY DEF ResultInv
  <2>3. PICK e \in activeNodes : groups[i] = Comp(e)
    BY <2>2 DEF Components, Comp
  <2>4. Comp(c) = Comp(e)
    BY <2>1, <2>3, CompFacts
  <2>5. d \in groups[i]
    BY <1>1, <2>3, <2>4
  <2> QED
    BY <2>5 DEF Collected, ToSet
<1>2. b \in activeNodes /\ a \in Comp(b)
  BY CompFacts
<1> QED
  BY <1>1, <1>2

LEMMA EndScanKeeps ==
  ASSUME IInv, EndScan
  PROVE  IInv'
<1>1. /\ pc = "scan" /\ node < 0 /\ pc' = "collect" /\ visited' = {}
      /\ UNCHANGED <<arguments, node, dfsStack, nodeStack, currentGroup, result>>
  BY DEF EndScan
<1>2. /\ StackInv /\ FinishInv /\ ScanInv /\ TypeOK /\ dfsStack = << >>
      /\ currentGroup = {} /\ groups = << >> /\ ~minFound
      /\ assignments = [n \in Nodes |-> NoGroup]
  BY <1>1 DEF IInv, FirstInv, ScanInv
<1>3. activeNodes = Finished
  <2>1. \A n \in activeNodes : n > node
    BY <1>1, <1>2, InputAssumption DEF IInv, ArgInv, TypeOK, Nodes
  <2>2. visited = Finished
    BY <1>2, NothingOpen
  <2> QED
    BY <1>2, <2>1, <2>2 DEF ScanInv, TypeOK
<1>4. TypeOK'
  BY <1>1, <1>2, SameArguments DEF TypeOK, result, Nodes
<1>5. Collected = {} /\ DOMAIN groups = {}
  BY <1>2 DEF Collected, ToSet
<1>6. ResultInv
  BY <1>2, <1>5 DEF ResultInv
<1>7. Remaining({})
  <2>1. ASSUME NEW i \in DOMAIN nodeStack, NEW y \in activeNodes, nodeStack[i] \in Reach(y)
        PROVE  AmongFirst(i, y)
    <3>1. Comp(y) \subseteq Finished
      BY <1>3, CompFacts
    <3> QED
      BY <1>2, <2>1, <3>1 DEF FinishInv
  <2> QED
    BY <1>3, <2>1 DEF Remaining
<1>8. ResultInv' /\ Collected' = {}
  BY <1>1, <1>5, <1>6, SameGroups
<1>9. Remaining({})'
  <2>1. Finished' = Finished
    BY <1>1 DEF Finished
  <2> QED
    BY <1>1, <1>5, <1>7, <1>8, <2>1, SameArguments DEF Remaining, AmongFirst, Reach, Comp
<1>10. SecondInv'
  BY <1>1, <1>2, <1>8, <1>9 DEF SecondInv
<1> QED
  BY <1>1, <1>4, <1>10, StillSecond DEF IInv

\* The top of nodeStack was collected already, or its component is next.
LEMMA StartGroupKeeps ==
  ASSUME IInv, StartGroup
  PROVE  IInv'
<1> DEFINE h == Head(nodeStack)
           m == Len(nodeStack)
<1>1. /\ pc = "collect" /\ nodeStack # << >> /\ nodeStack' = Tail(nodeStack)
      /\ \/ h \in visited /\ UNCHANGED <<pc, dfsStack>>
         \/ h \notin visited /\ pc' = "group" /\ dfsStack' = <<h>>
      /\ UNCHANGED <<arguments, node, visited, currentGroup, result>>
  BY DEF StartGroup
<1>2. /\ ResultInv /\ Remaining({}) /\ currentGroup = {} /\ dfsStack = << >>
      /\ visited = Collected /\ TypeOK /\ ArgInv
  BY <1>1 DEF IInv, SecondInv
<1>3. /\ h \in activeNodes /\ nodeStack[1] = h /\ m \in Nat /\ m > 0
      /\ nodeStack' \in Seq(activeNodes)
      /\ DOMAIN nodeStack = 1 .. m /\ DOMAIN nodeStack' = 1 .. m - 1
      /\ \A i \in 1 .. m - 1 : nodeStack'[i] = nodeStack[i + 1]
      /\ Finished = {h} \cup Finished'
  <2>1. nodeStack \in Seq(activeNodes)
    BY <1>2 DEF TypeOK
  <2>2. /\ h = nodeStack[1] /\ h \in activeNodes /\ Tail(nodeStack) \in Seq(activeNodes)
        /\ m \in Nat /\ m > 0 /\ Len(Tail(nodeStack)) = m - 1
        /\ \A i \in 1 .. Len(Tail(nodeStack)) : Tail(nodeStack)[i] = nodeStack[i + 1]
        /\ ToSet(nodeStack) = {nodeStack[1]} \cup ToSet(Tail(nodeStack))
    BY <1>1, <2>1, TailFacts
  <2>3. DOMAIN nodeStack = 1 .. m /\ DOMAIN Tail(nodeStack) = 1 .. Len(Tail(nodeStack))
    BY <2>1, <2>2
  <2> QED
    BY <1>1, <2>2, <2>3 DEF Finished
<1> HIDE DEF h, m
<1>4. Collected' = Collected /\ ResultInv'
  BY <1>1, <1>2, SameGroups
<1>5. ASSUME NEW members, Comp(h) \subseteq Collected \cup members
      PROVE  Remaining(members)'
  <2>1. ASSUME NEW y \in activeNodes PROVE y \in Collected \cup Finished' \cup members
    <3>1. h \in Comp(h)
      BY <1>3, CompFacts
    <3> QED
      BY <1>2, <1>3, <1>5, <3>1 DEF Remaining
  <2>2. ASSUME NEW i \in 1 .. m - 1, NEW y \in activeNodes, nodeStack'[i] \in Reach(y),
               y \notin Collected \cup members
        PROVE  \E j \in 1 .. i : nodeStack'[j] \in Comp(y)
    <3>1. i + 1 \in DOMAIN nodeStack /\ nodeStack[i + 1] \in Reach(y)
      BY <1>3, <2>2
    <3>2. AmongFirst(i + 1, y)
      BY <1>2, <2>2, <3>1 DEF Remaining
    <3>3. PICK j \in 1 .. i + 1 : nodeStack[j] \in Comp(y)
      BY <3>2 DEF AmongFirst
    <3>4. j # 1
      <4>1. ASSUME h \in Comp(y) PROVE FALSE
        <5>1. y \in Comp(h)
          BY <1>3, <4>1, CompFacts
        <5> QED
          BY <1>5, <2>2, <5>1
      <4> QED
        BY <1>3, <3>3, <4>1
    <3>5. j - 1 \in 1 .. i /\ j - 1 \in 1 .. m - 1 /\ (j - 1) + 1 = j
      BY <1>3, <3>3, <3>4
    <3> QED
      BY <1>3, <3>3, <3>5
  <2> QED
    BY <1>1, <1>3, <1>4, <2>1, <2>2, SameArguments DEF Remaining, AmongFirst, Reach, Comp
<1>6. CASE h \in visited /\ UNCHANGED <<pc, dfsStack>>
  <2>1. Comp(h) \subseteq Collected
    BY <1>2, <1>3, <1>6, CollectedWhole
  <2>2. Remaining({})'
    BY <1>5, <2>1
  <2>3. TypeOK'
    BY <1>1, <1>2, <1>3, <1>6, SameArguments DEF TypeOK, result, Nodes
  <2>4. SecondInv'
    BY <1>1, <1>2, <1>4, <1>6, <2>2 DEF SecondInv
  <2> QED
    BY <1>1, <1>2, <1>6, <2>3, <2>4, StillSecond
<1>7. CASE h \notin visited /\ pc' = "group" /\ dfsStack' = <<h>>
  <2>1. dfsStack' \in Seq(activeNodes) /\ ToSet(dfsStack') = {h}
    BY <1>3, <1>7, OneElement DEF ToSet
  <2>2. TypeOK'
    BY <1>1, <1>2, <1>3, <1>7, <2>1, SameArguments DEF TypeOK, result, Nodes
  <2>3. PICK root, members : root = h /\ members = Comp(h)
    OBVIOUS
  <2>4. Remaining(members)'
    BY <1>5, <2>3
  <2>5. ASSUME NEW y \in activeNodes, h \in Reach(y), y \notin Collected PROVE y \in Comp(h)
    <3>1. 1 \in DOMAIN nodeStack
      BY <1>3
    <3>2. AmongFirst(1, y)
      BY <1>2, <1>3, <2>5, <3>1 DEF Remaining
    <3>3. h \in Comp(y)
      BY <1>3, <3>2 DEF AmongFirst
    <3> QED
      BY <3>3, CompFacts
  <2>6. h \in Comp(h)
    BY <1>3, CompFacts
  <2>7. GroupInv(root)'
    <3>1. Comp(root)' = members
      BY <1>1, <2>3, SameArguments DEF Comp
    <3>2. /\ root \notin Collected' /\ Remaining(Comp(root))'
          /\ currentGroup' = {} /\ ToSet(dfsStack') = {root} /\ root \in Comp(root)'
      BY <1>1, <1>2, <1>4, <1>7, <2>1, <2>3, <2>6, <2>4, <3>1
    <3>3. \A y \in activeNodes' : root \in Reach(y)' => y \in Collected' \cup Comp(root)'
      BY <1>1, <1>4, <2>3, <2>5, <3>1, SameArguments DEF Reach
    <3> QED
      BY <3>2, <3>3 DEF GroupInv
  <2>8. SecondInv'
    BY <1>1, <1>2, <1>3, <1>4, <1>7, <2>3, <2>7, SameArguments DEF SecondInv
  <2> QED
    BY <1>1, <1>2, <1>7, <2>2, <2>8, StillSecond
<1> QED
  BY <1>1, <1>6, <1>7

\* The pieces a step of the collection leaves alone.
LEMMA StillCollecting ==
  ASSUME IInv, pc = "group", UNCHANGED <<arguments, pc, node, nodeStack, result>>,
         NEW root \in activeNodes, GroupInv(root),
         visited' \subseteq activeNodes, dfsStack' \in Seq(activeNodes),
         visited' = Collected \cup currentGroup',
         currentGroup' \subseteq Comp(root), ToSet(dfsStack') \subseteq Comp(root),
         root \in currentGroup' \cup ToSet(dfsStack'),
         \A c \in currentGroup' :
           Predecessors(edges, c) \cap activeNodes \subseteq visited' \cup ToSet(dfsStack')
  PROVE  IInv'
<1>1. ResultInv /\ TypeOK
  BY DEF IInv, SecondInv
<1>2. Collected' = Collected /\ ResultInv'
  BY <1>1, SameGroups
<1>3. PICK members : members = Comp(root)
  OBVIOUS
<1>4. Comp(root)' = members
  BY <1>3, SameArguments DEF Comp
<1>5. Remaining(members)'
  <2>1. Finished' = Finished
    BY DEF Finished
  <2> QED
    BY <1>2, <1>3, <2>1, SameArguments DEF GroupInv, Remaining, AmongFirst, Reach, Comp
<1>6. \A y \in activeNodes' : root \in Reach(y)' => y \in Collected' \cup members
  BY <1>2, <1>3, SameArguments DEF GroupInv, Reach
<1>7. \A c \in currentGroup' :
        Predecessors(edges', c) \cap activeNodes' \subseteq visited' \cup ToSet(dfsStack')
  BY SameArguments
<1>8. GroupInv(root)'
  BY <1>2, <1>3, <1>4, <1>5, <1>6, <1>7 DEF GroupInv
<1>9. TypeOK'
  BY <1>1, <1>2, SameArguments DEF TypeOK, result, Nodes
<1>10. SecondInv'
  BY <1>2, <1>8, SameArguments DEF SecondInv
<1> QED
  BY <1>9, <1>10, StillSecond DEF IInv

LEMMA CollectKeeps ==
  ASSUME IInv, Collect
  PROVE  IInv'
<1>1. PICK c : c = Head(dfsStack)
  OBVIOUS
<1>2. /\ pc = "group" /\ dfsStack # << >>
      /\ UNCHANGED <<arguments, pc, node, nodeStack, result>>
      /\ \/ /\ c \in visited /\ dfsStack' = Tail(dfsStack) /\ UNCHANGED <<visited, currentGroup>>
         \/ /\ c \notin visited /\ visited' = visited \cup {c}
            /\ currentGroup' = currentGroup \cup {c}
            /\ \E next \in Neighbours(Transposed(edges), c, visited') :
                 dfsStack' = next \o Tail(dfsStack)
  BY <1>1 DEF Collect
<1>3. /\ ResultInv /\ TypeOK /\ ArgInv /\ visited = Collected \cup currentGroup
      /\ \E root \in activeNodes : GroupInv(root)
  BY <1>2 DEF IInv, SecondInv
<1>4. PICK root \in activeNodes : GroupInv(root)
  BY <1>3
<1>5. PICK rest : rest = Tail(dfsStack)
  OBVIOUS
<1>6. rest \in Seq(activeNodes) /\ c \in activeNodes /\ ToSet(dfsStack) = {c} \cup ToSet(rest)
  <2>1. dfsStack \in Seq(activeNodes)
    BY <1>2, <1>3 DEF TypeOK
  <2> QED
    BY <1>1, <1>2, <1>5, <2>1, TailFacts
<1>7. CASE c \in visited /\ dfsStack' = Tail(dfsStack) /\ UNCHANGED <<visited, currentGroup>>
  <2>1. root \in currentGroup \cup ToSet(rest)
    BY <1>3, <1>4, <1>6, <1>7 DEF GroupInv
  <2>2. \A d \in currentGroup : Predecessors(edges, d) \cap activeNodes \subseteq visited \cup ToSet(rest)
    BY <1>4, <1>6, <1>7 DEF GroupInv
  <2>3. currentGroup \subseteq Comp(root) /\ ToSet(rest) \subseteq Comp(root) /\ visited \subseteq activeNodes
    BY <1>3, <1>4, <1>6 DEF GroupInv, TypeOK
  <2>4. dfsStack' = rest /\ visited' = visited /\ currentGroup' = currentGroup
    BY <1>5, <1>7
  <2> QED
    BY <1>2, <1>3, <1>4, <1>6, <2>1, <2>2, <2>3, <2>4, StillCollecting
<1>8. CASE /\ c \notin visited /\ visited' = visited \cup {c}
           /\ currentGroup' = currentGroup \cup {c}
           /\ \E next \in Neighbours(Transposed(edges), c, visited') :
                dfsStack' = next \o Tail(dfsStack)
  <2>1. PICK next \in Neighbours(Transposed(edges), c, visited') : dfsStack' = next \o rest
    BY <1>5, <1>8
  <2>2. /\ next \in Seq(activeNodes)
        /\ ToSet(next) = (Successors(Transposed(edges), c) \cap activeNodes) \ visited'
    BY <1>3, NeighbourLists
  <2>3. dfsStack' \in Seq(activeNodes) /\ ToSet(dfsStack') = ToSet(next) \cup ToSet(rest)
    BY <1>6, <2>1, <2>2, ConcatFacts DEF Concatenated
  <2>4. c \in Comp(root)
    BY <1>4, <1>6 DEF GroupInv
  <2>5. ToSet(next) \subseteq Comp(root)
    <3>1. SUFFICES ASSUME NEW p \in ToSet(next) PROVE p \in Comp(root)
      OBVIOUS
    <3>2. p \in activeNodes /\ p \notin Collected /\ c \in Successors(edges, p)
      BY <1>3, <1>8, <2>2, BothWays
    <3>3. c \in Reach(p)
      BY <1>3, <1>6, <3>2, Leads, LeadsBySteps
    <3>4. root \in Reach(c)
      BY <1>6, <2>4, CompFacts
    <3>5. root \in Reach(p)
      BY <3>2, <3>3, <3>4, Leads
    <3> QED
      BY <1>4, <3>2, <3>5 DEF GroupInv
  <2>6. \A d \in currentGroup' :
          Predecessors(edges, d) \cap activeNodes \subseteq visited' \cup ToSet(dfsStack')
    <3>1. \A d \in currentGroup :
            Predecessors(edges, d) \cap activeNodes \subseteq visited \cup {c} \cup ToSet(rest)
      BY <1>4, <1>6 DEF GroupInv
    <3>2. Predecessors(edges, c) \cap activeNodes \subseteq visited' \cup ToSet(next)
      BY <1>3, <2>2, BothWays
    <3> QED
      BY <1>8, <2>3, <3>1, <3>2
  <2>7. /\ currentGroup' \subseteq Comp(root) /\ ToSet(dfsStack') \subseteq Comp(root)
        /\ root \in currentGroup' \cup ToSet(dfsStack')
        /\ visited' \subseteq activeNodes /\ visited' = Collected \cup currentGroup'
    BY <1>3, <1>4, <1>6, <1>8, <2>3, <2>4, <2>5 DEF GroupInv, TypeOK
  <2> QED
    BY <1>2, <1>4, <2>3, <2>6, <2>7, StillCollecting
<1> QED
  BY <1>2, <1>7, <1>8

\* When the stack is empty, the whole component was collected: a member that
\* was not would lead to root through nodes that were not either.
LEMMA WholeComponent ==
  ASSUME ArgInv, ResultInv, visited = Collected \cup currentGroup, dfsStack = << >>,
         NEW root \in activeNodes, GroupInv(root)
  PROVE  currentGroup = Comp(root)
<1>1. ToSet(dfsStack) = {}
  BY DEF ToSet
<1>2. root \in currentGroup /\ currentGroup \subseteq Comp(root)
  BY <1>1 DEF GroupInv
<1>3. ASSUME NEW b \in Comp(root), b \notin currentGroup PROVE FALSE
  <2> DEFINE S == Reach(b) \ currentGroup
  <2>1. b \in activeNodes /\ root \in Reach(b) /\ b \in Reach(root)
    BY <1>3, CompFacts
  <2>2. S \subseteq activeNodes /\ b \in S
    BY <1>3, <2>1, Leads
  <2>3. ASSUME NEW u \in S, NEW s \in Successors(edges, u) \cap activeNodes PROVE s \in S
    <3>1. s \in Reach(b) /\ u \in activeNodes
      BY <2>1, <2>2, LeadsBySteps
    <3>2. ASSUME s \in currentGroup PROVE FALSE
      <4>1. u \in Predecessors(edges, s)
        BY BothWays
      <4>2. u \in Collected
        BY <1>1, <3>1, <3>2, <4>1 DEF GroupInv
      <4>3. u \in Reach(root)
        BY <2>1, Leads
      <4>4. root \in Reach(u)
        <5>1. root \in Reach(s)
          BY <1>2, <3>1, <3>2, CompFacts
        <5>2. s \in Reach(u)
          BY <3>1, Leads, LeadsBySteps
        <5> QED
          BY <3>1, <5>1, <5>2, Leads
      <4>5. u \in Comp(root)
        BY <3>1, <4>3, <4>4, CompFacts
      <4>6. root \in Collected
        BY <4>2, <4>5, CollectedWhole
      <4> QED
        BY <4>6 DEF GroupInv
    <3> QED
      BY <3>1, <3>2
  <2> HIDE DEF S
  <2>4. Reach(b) \subseteq S
    BY <2>2, <2>3, LeadsInside
  <2> QED
    BY <1>2, <2>1, <2>4 DEF S
<1> QED
  BY <1>2, <1>3

\* The list of groups with one more group.
LEMMA AppendFacts ==
  ASSUME NEW T, NEW s \in Seq(T), NEW e \in T, NEW w, w = Append(s, e)
  PROVE  /\ w \in Seq(T) /\ Len(s) \in Nat /\ DOMAIN s = 1 .. Len(s)
         /\ DOMAIN w = 1 .. Len(s) + 1 /\ w[Len(s) + 1] = e
         /\ \A i \in 1 .. Len(s) : w[i] = s[i]
OBVIOUS

LEMMA EndGroupKeeps ==
  ASSUME IInv, EndGroup
  PROVE  IInv'
<1> DEFINE g == Len(groups)
<1>1. /\ pc = "group" /\ dfsStack = << >> /\ pc' = "collect" /\ currentGroup' = {}
      /\ groups' = Append(groups, currentGroup)
      /\ assignments' = [n \in Nodes |-> IF n \in currentGroup THEN g ELSE assignments[n]]
      /\ IF ~ minFound /\ \E member \in currentGroup : ~ HasPredecessors(member)
         THEN minimumGroup' = g /\ minFound' = TRUE
         ELSE UNCHANGED <<minimumGroup, minFound>>
      /\ UNCHANGED <<arguments, node, visited, dfsStack, nodeStack>>
  BY DEF EndGroup
<1>2. /\ ResultInv /\ TypeOK /\ ArgInv /\ visited = Collected \cup currentGroup
      /\ \E root \in activeNodes : GroupInv(root)
  BY <1>1 DEF IInv, SecondInv
<1>3. PICK root \in activeNodes : GroupInv(root)
  BY <1>2
<1>4. PICK members : members = Comp(root)
  OBVIOUS
<1>5. currentGroup = members /\ members \subseteq activeNodes /\ root \in members /\ root \notin Collected
  BY <1>1, <1>2, <1>3, <1>4, WholeComponent, CompFacts DEF GroupInv
<1>6. /\ groups' \in Seq(SUBSET activeNodes) /\ g \in Nat /\ DOMAIN groups = 1 .. g
      /\ DOMAIN groups' = 1 .. g + 1 /\ groups'[g + 1] = members
      /\ \A i \in 1 .. g : groups'[i] = groups[i]
  BY <1>1, <1>2, <1>5, AppendFacts DEF TypeOK
<1> HIDE DEF g
<1>7. Collected' = Collected \cup members
  <2>1. \A x : x \in Collected <=> \E i \in 1 .. g : x \in groups[i]
    BY <1>6 DEF Collected, ToSet
  <2>2. \A x : x \in Collected' <=> \E i \in 1 .. g + 1 : x \in groups'[i]
    BY <1>6 DEF Collected, ToSet
  <2>3. /\ \A i \in 1 .. g : i \in 1 .. g + 1
        /\ g + 1 \in 1 .. g + 1
        /\ \A i \in 1 .. g + 1 : i \in 1 .. g \/ i = g + 1
    BY <1>6
  <2>4. ASSUME NEW x PROVE x \in Collected' <=> x \in Collected \cup members
    BY <1>6, <2>1, <2>2, <2>3
  <2> QED
    BY <2>4
<1>8. \A i \in 1 .. g + 1 : i = g + 1 \/ (i \in 1 .. g /\ groups'[i] = groups[i])
  BY <1>6
\* What a group is made of.
<1>9. \A i \in 1 .. g + 1 : groups'[i] \in Components(edges, activeNodes)
  <2>1. members \in Components(edges, activeNodes)
    BY <1>4 DEF Components, Comp
  <2> QED
    BY <1>2, <1>6, <1>8, <2>1 DEF ResultInv
<1>10. \A i, j \in 1 .. g + 1 : groups'[i] = groups'[j] => i = j
  <2>1. \A i \in 1 .. g : groups[i] # members
    <3>1. \A i \in 1 .. g : root \notin groups[i]
      BY <1>5, <1>6 DEF Collected, ToSet
    <3> QED
      BY <1>5, <3>1
  <2> QED
    BY <1>2, <1>6, <1>8, <2>1 DEF ResultInv
<1>11. ASSUME NEW i \in 1 .. g + 1, NEW c \in groups'[i],
              NEW p \in Predecessors(edges, c) \cap activeNodes
       PROVE  \E k \in 1 .. i : p \in groups'[k]
  <2>1. CASE i \in 1 .. g /\ groups'[i] = groups[i]
    <3>1. PICK k \in 1 .. i : p \in groups[k]
      BY <1>2, <1>6, <2>1 DEF ResultInv
    <3>2. k \in 1 .. g
      BY <1>6, <2>1
    <3> QED
      BY <1>6, <3>1, <3>2
  <2>2. CASE i = g + 1
    <3>1. c \in currentGroup
      BY <1>5, <1>6, <2>2
    <3>2. ToSet(dfsStack) = {}
      BY <1>1 DEF ToSet
    <3>3. p \in Collected \cup members
      BY <1>2, <1>3, <1>5, <3>1, <3>2 DEF GroupInv
    <3>4. PICK k \in 1 .. g + 1 : p \in groups'[k]
      <4>1. CASE p \in members
        <5>1. g + 1 \in 1 .. g + 1
          BY <1>6
        <5> QED
          BY <1>6, <4>1, <5>1
      <4>2. CASE p \in Collected
        <5>1. PICK l \in DOMAIN groups : p \in groups[l]
          BY <4>2 DEF Collected, ToSet
        <5>2. l \in 1 .. g + 1 /\ p \in groups'[l]
          BY <1>6, <5>1
        <5> QED
          BY <5>2
      <4> QED
        BY <3>3, <4>1, <4>2
    <3> QED
      BY <2>2, <3>4
  <2> QED
    BY <1>8, <2>1, <2>2
<1>12. ASSUME NEW n \in Nodes
       PROVE  \/ assignments'[n] + 1 \in 1 .. g + 1 /\ n \in groups'[assignments'[n] + 1]
              \/ n \notin Collected' /\ assignments'[n] = NoGroup
  <2>1. CASE n \in members
    <3>1. assignments'[n] = g /\ g + 1 \in 1 .. g + 1
      BY <1>1, <1>5, <1>6, <2>1
    <3> QED
      BY <1>6, <2>1, <3>1
  <2>2. CASE n \notin members
    <3>1. assignments'[n] = assignments[n]
      BY <1>1, <1>5, <2>2
    <3>2. \/ assignments[n] + 1 \in 1 .. g /\ n \in groups[assignments[n] + 1]
          \/ n \notin Collected /\ assignments[n] = NoGroup
      BY <1>2, <1>6 DEF ResultInv
    <3>3. ASSUME assignments[n] + 1 \in 1 .. g, n \in groups[assignments[n] + 1]
          PROVE  assignments[n] + 1 \in 1 .. g + 1 /\ n \in groups'[assignments[n] + 1]
      <4>1. PICK k \in 1 .. g : k = assignments[n] + 1
        BY <3>3
      <4>2. k \in 1 .. g + 1 /\ groups'[k] = groups[k]
        BY <1>6, <4>1
      <4> QED
        BY <3>3, <4>1, <4>2
    <3> QED
      BY <1>7, <2>2, <3>1, <3>2, <3>3
  <2> QED
    BY <2>1, <2>2
\* The first group has no predecessors outside: nothing was visited before it.
<1>13. minFound' /\ minimumGroup' = 0
  <2>1. CASE groups = << >>
    <3>1. ~minFound /\ g = 0 /\ Collected = {}
      BY <1>2, <2>1 DEF ResultInv, Collected, ToSet, g
    <3>2. ToSet(dfsStack) = {}
      BY <1>1 DEF ToSet
    <3>3. ~ HasPredecessors(root)
      BY <1>2, <1>3, <1>5, <3>1, <3>2 DEF GroupInv, HasPredecessors
    <3> QED
      BY <1>1, <1>5, <3>1, <3>3
  <2>2. CASE groups # << >>
    BY <1>1, <1>2, <2>2 DEF ResultInv
  <2> QED
    BY <2>1, <2>2
<1>14. groups' # << >>
  BY <1>6
<1>15. ResultInv'
  BY <1>1, <1>6, <1>9, <1>10, <1>11, <1>12, <1>13, <1>14, SameArguments DEF ResultInv
<1>16. Remaining({})'
  <2>1. Finished' = Finished
    BY <1>1 DEF Finished
  <2>2. Remaining(members)
    BY <1>3, <1>4 DEF GroupInv
  <2> QED
    BY <1>1, <1>7, <2>1, <2>2, SameArguments DEF Remaining, AmongFirst, Reach, Comp
<1>17. SecondInv'
  BY <1>1, <1>2, <1>5, <1>7, <1>15, <1>16 DEF SecondInv
<1>18. TypeOK'
  <2>1. assignments' \in [Nodes -> Nat \cup {NoGroup}]
    BY <1>1, <1>2, <1>6 DEF TypeOK
  <2>2. minimumGroup' \in Nat \cup {NoGroup}
    BY <1>13
  <2> QED
    BY <1>1, <1>2, <1>6, <2>1, <2>2, SameArguments DEF TypeOK
<1> QED
  BY <1>1, <1>2, <1>17, <1>18, StillSecond

LEMMA ReturnKeeps ==
  ASSUME IInv, Return
  PROVE  IInv'
<1>1. /\ pc = "collect" /\ nodeStack = << >> /\ pc' = "done"
      /\ UNCHANGED <<arguments, node, visited, dfsStack, nodeStack, currentGroup, result>>
  BY DEF Return
<1>2. /\ ResultInv /\ visited = Collected \cup currentGroup /\ Remaining({})
      /\ currentGroup = {} /\ dfsStack = << >> /\ TypeOK
  BY <1>1 DEF IInv, SecondInv
<1>3. ResultInv' /\ Collected' = Collected
  BY <1>1, <1>2, SameGroups
<1>4. Remaining({})'
  <2>1. Finished' = Finished
    BY <1>1 DEF Finished
  <2> QED
    BY <1>1, <1>2, <1>3, <2>1, SameArguments DEF Remaining, AmongFirst, Reach, Comp
<1>5. SecondInv'
  BY <1>1, <1>2, <1>3, <1>4 DEF SecondInv
<1>6. TypeOK'
  BY <1>1, <1>2, SameArguments DEF TypeOK, result, Nodes
<1> QED
  BY <1>1, <1>5, <1>6, StillSecond DEF IInv

-----------------------------------------------------------------------------
(* The invariant                                                           *)

LEMMA InitInv ==
  Init => IInv
<1> SUFFICES ASSUME Init PROVE IInv
  OBVIOUS
<1>1. PICK input \in Inputs : edges = input[1] /\ activeNodes = input[2]
  BY DEF Init
<1>2. ArgInv /\ NumNodes \in Nat \ {0}
  BY <1>1, InputAssumption DEF ArgInv
<1>3. /\ pc = "scan" /\ node = NumNodes - 1 /\ visited = {} /\ dfsStack = << >> /\ nodeStack = << >>
      /\ currentGroup = {} /\ groups = << >> /\ assignments = [n \in Nodes |-> NoGroup]
      /\ minimumGroup = NoGroup /\ minFound = FALSE
  BY DEF Init
<1>4. TypeOK
  BY <1>2, <1>3 DEF TypeOK
<1>5. /\ DOMAIN dfsStack = {} /\ DOMAIN nodeStack = {} /\ Posts = {} /\ Open = {} /\ Finished = {}
  <2>1. DOMAIN dfsStack = {} /\ DOMAIN nodeStack = {}
    BY <1>3
  <2>2. Posts = {} /\ Finished = {}
    BY <2>1 DEF Posts, Finished, ToSet
  <2> QED
    BY <2>1, <2>2 DEF Open
<1>6. StackInv /\ FinishInv
  BY <1>3, <1>5 DEF StackInv, FinishInv
<1>7. ScanInv
  <2>1. \A n \in activeNodes : ~(n > node)
    BY <1>2, <1>3 DEF ArgInv, Nodes
  <2> QED
    BY <1>3, <2>1 DEF ScanInv
<1>8. FirstInv /\ SecondInv
  BY <1>3, <1>6, <1>7 DEF FirstInv, SecondInv
<1> QED
  BY <1>2, <1>4, <1>8 DEF IInv

LEMMA NextInv ==
  IInv /\ [Next]_vars => IInv'
<1> SUFFICES ASSUME IInv, [Next]_vars PROVE IInv'
  OBVIOUS
<1>1. CASE StartFill
  BY <1>1, StartFillKeeps
<1>2. CASE SkipNode
  BY <1>2, SkipNodeKeeps
<1>3. CASE Fill
  BY <1>3, FillKeeps
<1>4. CASE EndFill
  BY <1>4, EndFillKeeps
<1>5. CASE EndScan
  BY <1>5, EndScanKeeps
<1>6. CASE StartGroup
  BY <1>6, StartGroupKeeps
<1>7. CASE Collect
  BY <1>7, CollectKeeps
<1>8. CASE EndGroup
  BY <1>8, EndGroupKeeps
<1>9. CASE Return
  BY <1>9, ReturnKeeps
<1>10. CASE UNCHANGED vars
  <2>1. ArgInv' /\ TypeOK'
    BY <1>10, SameArguments DEF vars, IInv, TypeOK, Nodes, result
  <2>2. FirstInv'
    <3>1. StackInv => StackInv'
      BY <1>10 DEF vars, arguments, StackInv, Finished, Posts, Open, Reach
    <3>2. FinishInv => FinishInv'
      BY <1>10 DEF vars, arguments, FinishInv, Finished, AmongFirst, Reach, Comp
    <3>3. ScanInv => ScanInv'
      BY <1>10 DEF vars, arguments, result, ScanInv
    <3>4. FirstInv /\ pc' = pc
      BY <1>10 DEF vars, IInv
    <3> QED
      BY <3>1, <3>2, <3>3, <3>4 DEF FirstInv
  <2>3. SecondInv'
    BY <1>10 DEF vars, arguments, result, IInv, SecondInv, ResultInv, GroupInv, Remaining, Collected,
                 Finished, AmongFirst, Reach, Comp
  <2> QED
    BY <2>1, <2>2, <2>3 DEF IInv
<1> QED
  BY <1>1, <1>2, <1>3, <1>4, <1>5, <1>6, <1>7, <1>8, <1>9, <1>10 DEF Next, Done

LEMMA Invariance == Spec => []IInv
<1>1. Init => IInv
  BY InitInv
<1>2. IInv /\ [Next]_vars => IInv'
  BY NextInv
<1> QED
  BY <1>1, <1>2, PTL DEF Spec

\* The variables of computeRelianceGroups keep their types: only active nodes
\* are visited, stacked or grouped, in both passes.
THEOREM TypeCorrect == Spec => []TypeOK
<1>1. IInv => TypeOK
  BY DEF IInv
<1> QED
  BY <1>1, Invariance, PTL

-----------------------------------------------------------------------------
(* What the callers rely on                                                *)

LEMMA GroupIsComponent ==
  ASSUME ResultInv, NEW i \in DOMAIN groups
  PROVE  /\ groups[i] \subseteq activeNodes
         /\ \A a \in groups[i] : groups[i] = Comp(a)
<1>1. PICK e \in activeNodes : groups[i] = Comp(e)
  BY DEF ResultInv, Components, Comp
<1> QED
  BY <1>1, CompFacts

\* No edge leads from a later group to an earlier one, at any point of the
\* second pass: when a group is closed, the active predecessors of its members
\* are in it or in earlier groups.
THEOREM EarlierFirst == Spec => []SourcesFirst
<1>1. ASSUME IInv PROVE SourcesFirst
  <2>1. CASE pc \in {"scan", "fill"}
    <3>1. groups = << >>
      BY <1>1, <2>1 DEF IInv, FirstInv, ScanInv
    <3>2. DOMAIN groups = {}
      BY <3>1
    <3> QED
      BY <3>2 DEF SourcesFirst
  <2>2. CASE pc \in {"collect", "group", "done"}
    <3>1. ResultInv /\ ArgInv /\ groups \in Seq(SUBSET activeNodes)
      BY <1>1, <2>2 DEF IInv, SecondInv, TypeOK
    <3>2. ASSUME NEW i \in DOMAIN groups, NEW j \in DOMAIN groups, i < j,
                 NEW e \in edges, e[1] \in groups[j], e[2] \in groups[i]
          PROVE  FALSE
      <4>1. e = <<e[1], e[2]>> /\ e[1] \in activeNodes
        BY <3>1, <3>2, GroupIsComponent DEF ArgInv
      <4>2. e[1] \in Predecessors(edges, e[2]) \cap activeNodes
        BY <3>1, <4>1, BothWays
      <4>3. PICK k \in 1 .. i : e[1] \in groups[k]
        BY <3>1, <3>2, <4>2 DEF ResultInv
      <4>4. DOMAIN groups = 1 .. Len(groups) /\ Len(groups) \in Nat
        BY <3>1
      <4>5. k \in DOMAIN groups /\ k < j
        BY <3>2, <4>3, <4>4
      <4>6. groups[k] = groups[j]
        BY <3>1, <3>2, <4>3, <4>5, GroupIsComponent
      <4>7. k = j
        BY <3>1, <4>5, <4>6 DEF ResultInv
      <4> QED
        BY <4>4, <4>5, <4>7
    <3> QED
      BY <3>2 DEF SourcesFirst
  <2> QED
    BY <1>1, <2>1, <2>2 DEF IInv, TypeOK
<1> QED
  BY <1>1, Invariance, PTL

\* When the function returns, every component of the active graph is exactly
\* one group and assignments leads each active node to its own.
THEOREM Partition == Spec => []ResultIsPartition
<1>1. ASSUME IInv PROVE ResultIsPartition
  <2> DEFINE C == Components(edges, activeNodes)
             n == Len(groups)
  <2>1. SUFFICES ASSUME pc = "done"
                 PROVE  /\ ToSet(groups) = C /\ n = Cardinality(C)
                        /\ \A a \in Nodes : IF a \in activeNodes THEN a \in groups[assignments[a] + 1]
                                                                 ELSE assignments[a] = NoGroup
    BY DEF ResultIsPartition
  <2>2. /\ ResultInv /\ Remaining({}) /\ nodeStack = << >> /\ ArgInv /\ groups \in Seq(SUBSET activeNodes)
    BY <1>1, <2>1 DEF IInv, SecondInv, TypeOK
  <2>3. Finished = {}
    BY <2>2 DEF Finished, ToSet
  <2>4. n \in Nat /\ DOMAIN groups = 1 .. n
    BY <2>2
  <2>5. Collected = activeNodes
    <3>1. \A i \in DOMAIN groups : groups[i] \subseteq activeNodes
      BY <2>2, GroupIsComponent
    <3>2. Collected \subseteq activeNodes
      BY <3>1 DEF Collected, ToSet
    <3>3. activeNodes \subseteq Collected
      BY <2>2, <2>3 DEF Remaining
    <3> QED
      BY <3>2, <3>3
  <2>6. \A i \in DOMAIN groups : groups[i] \in C
    BY <2>2 DEF ResultInv
  <2>7. ASSUME NEW c \in C PROVE \E i \in DOMAIN groups : groups[i] = c
    <3>1. PICK a \in activeNodes : c = Comp(a)
      BY DEF Components, Comp
    <3>2. PICK i \in DOMAIN groups : a \in groups[i]
      BY <2>5 DEF Collected, ToSet
    <3> QED
      BY <2>2, <3>1, <3>2, GroupIsComponent
  <2>8. ToSet(groups) = C
    BY <2>6, <2>7 DEF ToSet
  <2>9. n = Cardinality(C)
    <3> HIDE DEF C, n
    <3>1. groups \in [1 .. n -> C]
      BY <2>2, <2>4, <2>6
    <3>2. groups \in Bijection(1 .. n, C)
      BY <2>2, <2>4, <2>7, <3>1 DEF Bijection, Injection, IsInjective, Surjection, ResultInv
    <3>3. IsFiniteSet(1 .. n) /\ Cardinality(1 .. n) = n
      BY <2>4, FS_Interval
    <3> QED
      BY <3>2, <3>3, FS_Bijection DEF ExistsBijection
  <2>10. ASSUME NEW a \in Nodes
         PROVE  IF a \in activeNodes THEN a \in groups[assignments[a] + 1]
                                     ELSE assignments[a] = NoGroup
    <3>1. \/ assignments[a] + 1 \in DOMAIN groups /\ a \in groups[assignments[a] + 1]
          \/ a \notin Collected /\ assignments[a] = NoGroup
      BY <2>2 DEF ResultInv
    <3>2. ASSUME assignments[a] + 1 \in DOMAIN groups, a \in groups[assignments[a] + 1]
          PROVE  a \in activeNodes
      BY <2>2, <3>2, GroupIsComponent
    <3> QED
      BY <2>5, <3>1, <3>2
  <2> QED
    BY <2>8, <2>9, <2>10
<1> QED
  BY <1>1, Invariance, PTL

\* The group that minimumGroup designates has no active predecessor outside:
\* it is the first group, and it is found although only one member is looked at.
THEOREM MinimumFirst == Spec => []MinimumIsSource
<1>1. ASSUME IInv PROVE MinimumIsSource
  <2>1. SUFFICES ASSUME pc = "done", activeNodes # {}
                 PROVE  /\ minimumGroup # NoGroup
                        /\ groups[minimumGroup + 1] \in SourceComponents(edges, activeNodes)
    BY DEF MinimumIsSource
  <2>2. /\ ResultInv /\ Remaining({}) /\ nodeStack = << >> /\ ArgInv /\ groups \in Seq(SUBSET activeNodes)
    BY <1>1, <2>1 DEF IInv, SecondInv, TypeOK
  <2>3. Finished = {}
    BY <2>2 DEF Finished, ToSet
  <2>4. groups # << >>
    <3>1. PICK a \in activeNodes : a \in Collected
      BY <2>1, <2>2, <2>3 DEF Remaining
    <3>2. PICK i \in DOMAIN groups : a \in groups[i]
      BY <3>1 DEF Collected, ToSet
    <3> QED
      BY <3>2
  <2>5. minimumGroup = 0 /\ 1 \in DOMAIN groups
    <3>1. minimumGroup = 0
      BY <2>2, <2>4 DEF ResultInv
    <3>2. 1 \in DOMAIN groups
      BY <2>2, <2>4
    <3> QED
      BY <3>1, <3>2
  <2>6. groups[1] \in Components(edges, activeNodes)
    BY <2>2, <2>5 DEF ResultInv
  <2>7. ASSUME NEW e \in edges, e[2] \in groups[1], e[1] \in activeNodes PROVE e[1] \in groups[1]
    <3>1. e = <<e[1], e[2]>>
      BY <2>2 DEF ArgInv
    <3>2. e[1] \in Predecessors(edges, e[2]) \cap activeNodes
      BY <2>2, <2>7, <3>1, BothWays
    <3>3. PICK k \in 1 .. 1 : e[1] \in groups[k]
      BY <2>2, <2>5, <2>7, <3>2 DEF ResultInv
    <3> QED
      BY <3>3
  <2> QED
    BY <2>5, <2>6, <2>7 DEF SourceComponents, NoGroup
<1> QED
  BY <1>1, Invariance, PTL

=============================================================================
