----------------------------- MODULE QSQR_proofs -----------------------------
(***************************************************************************)
(* Proofs about top-down query answering, for every program, every         *)
(* database and every query.  The invariant IInv says that every table     *)
(* holds tuples of its width that the program implies, that no input is    *)
(* asked twice, that the executors are those of the program, and of each   *)
(* task on the stack what processTask takes for granted: a rule's rows     *)
(* before atom j stand for substitutions under which the atoms before j    *)
(* hold, the answers counted by a query are no more than there are, and a  *)
(* sub-query lies on the rule that asked it.  Rows are compared with the   *)
(* least model only where RepeatsAreBound holds; the types need nothing.   *)
(* Then the stack is measured: a rule's task is worth two steps for each   *)
(* atom left, a query's what its rules are worth, and as much again as all *)
(* rules for each answer that it has not counted yet.                      *)
(* Last comes that nothing is lost: while a round finds no new answer,     *)
(* every input of every rule is about to be evaluated, on the stack, or    *)
(* closed, and when all are closed the answers are those of the model.     *)
(***************************************************************************)
EXTENDS QSQR, FiniteSetTheorems, SequenceTheorems, WellFoundedInduction, TLAPS

-----------------------------------------------------------------------------
(* Numbers and recursive functions                                         *)

\* Induction over 0 .. n, for a set instead of a predicate.
LEMMA UpTo ==
  ASSUME NEW n \in Nat, NEW S, 0 \in S, \A i \in 1 .. n : i - 1 \in S => i \in S
  PROVE  0 .. n \subseteq S
<1> DEFINE missing == { i \in 0 .. n : i \notin S }
<1>1. SUFFICES missing = {}
  OBVIOUS
<1>2. SUFFICES ASSUME missing # {} PROVE FALSE
  OBVIOUS
<1>3. missing \subseteq Nat
  OBVIOUS
<1>4. PICK m \in missing : \A k \in missing : ~(<<k, m>> \in OpToRel(<, Nat))
  <2> HIDE DEF missing
  <2> QED
    BY <1>2, <1>3, NatLessThanWellFounded, WFMin
<1>5. m \in 1 .. n /\ m - 1 \in 0 .. n /\ m \notin S
  OBVIOUS
<1>6. m - 1 \notin missing
  <2> DEFINE ss == <<m - 1, m>>
  <2>1. ss \in Nat \X Nat /\ ss[1] < ss[2]
    BY <1>5
  <2>2. ss \in OpToRel(<, Nat)
    BY <2>1 DEF OpToRel
  <2> HIDE DEF missing
  <2> QED
    BY <1>4, <2>2
<1> QED
  BY <1>5, <1>6

\* G is defined by recursion over 0 .. n.
Recurses(G, n, base, step) ==
  G = [i \in 0 .. n |-> IF i = 0 THEN base ELSE step[<<i, G[i - 1]>>]]

\* Such a function exists.
LEMMA RecursionExists ==
  ASSUME NEW n \in Nat, NEW T, NEW base \in T, NEW step \in [(1 .. n) \X T -> T]
  PROVE  \E G \in [0 .. n -> T] : Recurses(G, n, base, step)
<1> DEFINE Solves(G, k) == \A i \in 0 .. k : G[i] = IF i = 0 THEN base ELSE step[<<i, G[i - 1]>>]
           solved == { k \in 0 .. n : \E G \in [0 .. n -> T] : Solves(G, k) }
<1>1. 0 \in solved
  <2> DEFINE G == [i \in 0 .. n |-> base]
  <2>1. G \in [0 .. n -> T] /\ Solves(G, 0) /\ 0 \in 0 .. n
    OBVIOUS
  <2> QED
    BY <2>1
<1>2. ASSUME NEW k \in 1 .. n, k - 1 \in solved
      PROVE  k \in solved
  <2>1. PICK G \in [0 .. n -> T] : Solves(G, k - 1)
    BY <1>2
  <2>2. k - 1 \in 0 .. n /\ k \in 0 .. n /\ k # 0
    OBVIOUS
  <2> DEFINE H == [i \in 0 .. n |-> IF i = k THEN step[<<k, G[k - 1]>>] ELSE G[i]]
  <2>3. <<k, G[k - 1]>> \in (1 .. n) \X T
    BY <2>2
  <2>4. H \in [0 .. n -> T]
    BY <2>3
  <2>5. \A i \in 0 .. k - 1 : i \in 0 .. n /\ H[i] = G[i] /\ (i # 0 => i - 1 \in 0 .. k - 1)
    OBVIOUS
  <2>6. H[k] = step[<<k, H[k - 1]>>]
    <3>1. H[k] = step[<<k, G[k - 1]>>]
      BY <2>2
    <3>2. H[k - 1] = G[k - 1]
      BY <2>2, <2>5
    <3> HIDE DEF H
    <3> QED
      BY <3>1, <3>2
  <2>7. Solves(H, k)
    <3> SUFFICES ASSUME NEW i \in 0 .. k
                 PROVE  H[i] = IF i = 0 THEN base ELSE step[<<i, H[i - 1]>>]
      OBVIOUS
    <3>1. CASE i = k
      BY <2>2, <2>6, <3>1
    <3>2. CASE i # k
      <4>1. i \in 0 .. k - 1
        BY <3>2
      <4>2. H[i] = G[i] /\ G[i] = IF i = 0 THEN base ELSE step[<<i, G[i - 1]>>]
        BY <2>1, <2>5, <4>1
      <4>3. i # 0 => H[i - 1] = G[i - 1]
        BY <2>5, <4>1
      <4> HIDE DEF H
      <4> QED
        BY <4>2, <4>3
    <3> QED
      BY <3>1, <3>2
  <2> HIDE DEF H, Solves
  <2> QED
    BY <2>2, <2>4, <2>7
<1>3. n \in solved
  <2> HIDE DEF solved
  <2>1. 0 .. n \subseteq solved
    BY <1>1, <1>2, UpTo
  <2> QED
    BY <2>1
<1>4. PICK G \in [0 .. n -> T] : Solves(G, n)
  BY <1>3
<1> QED
  BY <1>4 DEF Recurses

-----------------------------------------------------------------------------
(* Sequences of positions                                                  *)

Sorting(s) == \A i, j \in DOMAIN s : i < j => s[i] < s[j]

LEMMA IncreasingFacts ==
  ASSUME NEW n \in Nat, NEW S
  PROVE  /\ Increasing(n, S) \in Seq(1 .. n)
         /\ ToSet(Increasing(n, S)) = S \cap 1 .. n
         /\ Sorting(Increasing(n, S))
<1> DEFINE T == Seq(Nat)
           step == [p \in (1 .. n) \X T |-> IF p[1] \in S THEN Append(p[2], p[1]) ELSE p[2]]
           rec(G) == G = [i \in 0 .. n |-> IF i = 0 THEN << >>
                                          ELSE IF i \in S THEN Append(G[i - 1], i) ELSE G[i - 1]]
           up == CHOOSE G : rec(G)
<1>1. PICK G \in [0 .. n -> T] : Recurses(G, n, << >>, step)
  <2>1. << >> \in T /\ step \in [(1 .. n) \X T -> T]
    <3> SUFFICES ASSUME NEW p \in (1 .. n) \X T
                 PROVE  (IF p[1] \in S THEN Append(p[2], p[1]) ELSE p[2]) \in T
      BY EmptySeq
    <3>1. p[1] \in Nat /\ p[2] \in T
      OBVIOUS
    <3> QED
      BY <3>1, AppendProperties
  <2> HIDE DEF T, step
  <2> QED
    BY <2>1, RecursionExists
<1>2. rec(G)
  <2>1. \A i \in 1 .. n : step[<<i, G[i - 1]>>] = IF i \in S THEN Append(G[i - 1], i) ELSE G[i - 1]
    <3> TAKE i \in 1 .. n
    <3>1. G[i - 1] \in T
      BY <1>1
    <3> QED
      BY <3>1
  <2> HIDE DEF step
  <2> QED
    BY <1>1, <2>1 DEF Recurses
<1>3. rec(up)
  BY <1>2
<1>4. Increasing(n, S) = up[n]
  BY DEF Increasing
<1> DEFINE good(i) == /\ up[i] \in Seq(1 .. i)
                      /\ ToSet(up[i]) = S \cap 1 .. i
                      /\ Sorting(up[i])
           goods == { i \in 0 .. n : good(i) }
<1> HIDE DEF up
<1>5. up[0] = << >> /\ \A i \in 1 .. n : up[i] = IF i \in S THEN Append(up[i - 1], i) ELSE up[i - 1]
  <2>1. \A i \in 0 .. n : up[i] = IF i = 0 THEN << >>
                                   ELSE IF i \in S THEN Append(up[i - 1], i) ELSE up[i - 1]
    BY <1>3, Zenon
  <2>2. 0 \in 0 .. n /\ \A i \in 1 .. n : i \in 0 .. n /\ i # 0
    OBVIOUS
  <2> QED
    BY <2>1, <2>2, Zenon
<1>6. 0 \in goods
  <2>1. up[0] \in Seq(1 .. 0) /\ DOMAIN up[0] = {} /\ S \cap 1 .. 0 = {} /\ 0 \in 0 .. n
    BY <1>5, EmptySeq
  <2> QED
    BY <2>1 DEF Sorting, ToSet
<1>7. ASSUME NEW i \in 1 .. n, i - 1 \in goods
      PROVE  i \in goods
  <2> DEFINE s == up[i - 1]
  <2>1. i \in Nat /\ s \in Seq(1 .. (i - 1)) /\ ToSet(s) = S \cap 1 .. (i - 1) /\ Sorting(s)
    BY <1>7
  <2>2. s \in Seq(1 .. i)
    BY <2>1, SeqMonotonic
  <2>3. CASE i \in S
    <3>1. up[i] = Append(s, i)
      BY <1>5, <2>3
    <3> HIDE DEF s
    <3>2. /\ up[i] \in Seq(1 .. i) /\ Len(up[i]) = Len(s) + 1 /\ Len(s) \in Nat
          /\ \A k \in 1 .. Len(s) : up[i][k] = s[k] /\ s[k] \in 1 .. (i - 1)
          /\ up[i][Len(s) + 1] = i
          /\ DOMAIN up[i] = 1 .. Len(s) + 1 /\ DOMAIN s = 1 .. Len(s)
      <4>1. i \in 1 .. i
        BY <2>1
      <4>2. /\ Append(s, i) \in Seq(1 .. i) /\ Len(Append(s, i)) = Len(s) + 1
            /\ \A k \in 1 .. Len(s) : Append(s, i)[k] = s[k]
            /\ Append(s, i)[Len(s) + 1] = i
        BY <2>2, <4>1, AppendProperties
      <4>3. Len(s) \in Nat /\ DOMAIN s = 1 .. Len(s) /\ \A k \in 1 .. Len(s) : s[k] \in 1 .. (i - 1)
        BY <2>1
      <4>4. DOMAIN Append(s, i) = 1 .. Len(s) + 1
        BY <4>2
      <4> QED
        BY <3>1, <4>2, <4>3, <4>4
    <3>3. ToSet(up[i]) = ToSet(s) \cup {i}
      <4>1. DOMAIN up[i] = DOMAIN s \cup {Len(s) + 1}
        BY <3>2
      <4>2. \A k \in DOMAIN s : up[i][k] = s[k]
        BY <3>2
      <4>3. up[i][Len(s) + 1] = i
        BY <3>2
      <4> QED
        BY <4>1, <4>2, <4>3 DEF ToSet
    <3>4. S \cap 1 .. i = (S \cap 1 .. (i - 1)) \cup {i}
      BY <2>3
    <3>5. Sorting(up[i])
      <4> SUFFICES ASSUME NEW k \in DOMAIN up[i], NEW m \in DOMAIN up[i], k < m
                   PROVE  up[i][k] < up[i][m]
        BY DEF Sorting
      <4>1. k \in 1 .. Len(s)
        BY <3>2
      <4>2. CASE m \in 1 .. Len(s)
        <5>1. s[k] < s[m]
          BY <2>1, <3>2, <4>1, <4>2 DEF Sorting
        <5> QED
          BY <3>2, <4>1, <4>2, <5>1
      <4>3. CASE m = Len(s) + 1
        <5>1. up[i][m] = i /\ up[i][k] \in 1 .. (i - 1)
          BY <3>2, <4>1, <4>3
        <5> QED
          BY <2>1, <5>1
      <4> QED
        BY <3>2, <4>2, <4>3
    <3> QED
      BY <2>1, <3>2, <3>3, <3>4, <3>5
  <2>4. CASE i \notin S
    <3>1. up[i] = s /\ S \cap 1 .. i = S \cap 1 .. (i - 1)
      BY <1>5, <2>4
    <3> HIDE DEF s
    <3> QED
      BY <2>1, <2>2, <3>1
  <2> QED
    BY <2>3, <2>4
<1>8. n \in goods
  <2> HIDE DEF goods
  <2>1. 0 .. n \subseteq goods
    BY <1>6, <1>7, UpTo
  <2> QED
    BY <2>1
<1> QED
  BY <1>4, <1>8

LEMMA IncreasingLength ==
  ASSUME NEW n \in Nat, NEW S
  PROVE  Len(Increasing(n, S)) = Cardinality(S \cap 1 .. n)
<1> DEFINE at == Increasing(n, S)
<1>1. at \in Seq(1 .. n) /\ ToSet(at) = S \cap 1 .. n /\ Sorting(at)
  BY IncreasingFacts
<1> HIDE DEF at
<1>2. Len(at) \in Nat /\ DOMAIN at = 1 .. Len(at) /\ at \in [1 .. Len(at) -> 1 .. n]
  BY <1>1
<1>3. at \in [1 .. Len(at) -> S \cap 1 .. n]
  BY <1>1, <1>2 DEF ToSet
<1>4. at \in Injection(1 .. Len(at), S \cap 1 .. n)
  <2>1. \A i, j \in 1 .. Len(at) : at[i] = at[j] => i = j
    <3> SUFFICES ASSUME NEW i \in 1 .. Len(at), NEW j \in 1 .. Len(at), i < j
                 PROVE  at[i] # at[j]
      BY <1>2
    <3>1. at[i] < at[j] /\ at[i] \in 1 .. n
      BY <1>1, <1>2 DEF Sorting
    <3> QED
      BY <3>1
  <2> QED
    BY <1>3, <2>1 DEF Injection, IsInjective
<1>5. at \in Surjection(1 .. Len(at), S \cap 1 .. n)
  BY <1>1, <1>2, <1>3 DEF Surjection, ToSet
<1>6. ExistsBijection(1 .. Len(at), S \cap 1 .. n)
  BY <1>4, <1>5 DEF ExistsBijection, Bijection
<1> QED
  BY <1>2, <1>6, FS_CountingElements DEF at

\* What is picked, and where it comes from.
Picked(T, s, P) ==
  /\ Pick(s, P) \in Seq(T)
  /\ Len(Pick(s, P)) = Cardinality(P \cap DOMAIN s)
  /\ DOMAIN Increasing(Len(s), P) = DOMAIN Pick(s, P)
  /\ \A k \in DOMAIN Pick(s, P) :
       /\ Increasing(Len(s), P)[k] \in P \cap DOMAIN s
       /\ Pick(s, P)[k] = s[Increasing(Len(s), P)[k]]
  /\ \A i \in P \cap DOMAIN s :
       \E k \in DOMAIN Pick(s, P) : Increasing(Len(s), P)[k] = i
  /\ \A v : v \in ToSet(Pick(s, P)) <=> \E i \in P \cap DOMAIN s : v = s[i]

LEMMA PickFacts ==
  ASSUME NEW T, NEW s \in Seq(T), NEW P
  PROVE  Picked(T, s, P)
<1> DEFINE at == Increasing(Len(s), P)
           p == Pick(s, P)
<1>1. Len(s) \in Nat /\ DOMAIN s = 1 .. Len(s)
  OBVIOUS
<1>2. at \in Seq(1 .. Len(s)) /\ ToSet(at) = P \cap DOMAIN s
  BY <1>1, IncreasingFacts
<1>3. Len(at) = Cardinality(P \cap DOMAIN s)
  BY <1>1, IncreasingLength
<1>4. p = [k \in DOMAIN at |-> s[at[k]]]
  BY DEF Pick
<1> HIDE DEF at, p
<1>5. DOMAIN at = 1 .. Len(at) /\ Len(at) \in Nat /\ \A k \in DOMAIN at : at[k] \in P \cap DOMAIN s
  BY <1>2 DEF ToSet
<1>6. \A i \in P \cap DOMAIN s : \E k \in DOMAIN at : at[k] = i
  BY <1>2 DEF ToSet
<1>7. \A k \in DOMAIN at : s[at[k]] \in T
  BY <1>1, <1>5
<1>8. p \in [1 .. Len(at) -> T] /\ DOMAIN p = DOMAIN at
  BY <1>4, <1>5, <1>7
<1>9. p \in Seq(T) /\ Len(p) = Len(at)
  BY <1>5, <1>8
<1>10. \A k \in DOMAIN p : p[k] = s[at[k]]
  BY <1>4, <1>8
<1>11. \A v : v \in ToSet(p) <=> \E i \in P \cap DOMAIN s : v = s[i]
  <2>1. \A k \in DOMAIN p : \E i \in P \cap DOMAIN s : p[k] = s[i]
    BY <1>5, <1>8, <1>10
  <2>2. \A i \in P \cap DOMAIN s : \E k \in DOMAIN p : p[k] = s[i]
    <3> TAKE i \in P \cap DOMAIN s
    <3>1. PICK k \in DOMAIN at : at[k] = i
      BY <1>6
    <3> QED
      BY <1>8, <1>10, <3>1
  <2> QED
    BY <2>1, <2>2 DEF ToSet
<1> QED
  BY <1>3, <1>5, <1>6, <1>8, <1>9, <1>10, <1>11 DEF at, p, Picked

LEMMA FirstIndexFacts ==
  ASSUME NEW T, NEW s \in Seq(T), NEW v \in ToSet(s)
  PROVE  /\ FirstIndex(v, s) \in DOMAIN s
         /\ s[FirstIndex(v, s)] = v
         /\ \A j \in DOMAIN s : s[j] = v => FirstIndex(v, s) <= j
<1> DEFINE at == { i \in DOMAIN s : s[i] = v }
<1>1. at \subseteq Nat /\ at # {} /\ DOMAIN s = 1 .. Len(s) /\ Len(s) \in Nat
  BY DEF ToSet
<1>2. PICK m \in at : \A k \in at : ~(<<k, m>> \in OpToRel(<, Nat))
  <2> HIDE DEF at
  <2> QED
    BY <1>1, NatLessThanWellFounded, WFMin
<1>3. \A k \in at : ~(k < m)
  <2> SUFFICES ASSUME NEW k \in at, k < m
               PROVE  FALSE
    OBVIOUS
  <2> DEFINE km == <<k, m>>
  <2>1. km \in Nat \X Nat /\ km[1] < km[2]
    BY <1>1
  <2>2. km \in OpToRel(<, Nat)
    BY <2>1 DEF OpToRel
  <2> QED
    BY <1>2, <2>2
<1>4. m \in DOMAIN s /\ s[m] = v /\ \A j \in 1 .. m - 1 : s[j] # v
  BY <1>1, <1>3
<1>5. /\ FirstIndex(v, s) \in DOMAIN s
      /\ s[FirstIndex(v, s)] = v
      /\ \A j \in 1 .. FirstIndex(v, s) - 1 : s[j] # v
  BY <1>4 DEF FirstIndex
<1> QED
  BY <1>1, <1>5

LEMMA DistinctFacts ==
  ASSUME NEW T, NEW s \in Seq(T)
  PROVE  Distinct(s) \in Seq(T) /\ ToSet(Distinct(s)) = ToSet(s)
<1> DEFINE P == { i \in DOMAIN s : FirstIndex(s[i], s) = i }
<1>1. Distinct(s) \in Seq(T) /\ \A v : v \in ToSet(Distinct(s)) <=> \E i \in P \cap DOMAIN s : v = s[i]
  <2>1. Distinct(s) = Pick(s, P)
    BY DEF Distinct
  <2> HIDE DEF P
  <2>2. Picked(T, s, P)
    BY PickFacts
  <2> QED
    BY <2>1, <2>2 DEF Picked
<1>2. \A i \in DOMAIN s : \E k \in P \cap DOMAIN s : s[k] = s[i]
  <2> TAKE i \in DOMAIN s
  <2>1. s[i] \in ToSet(s)
    BY DEF ToSet
  <2>2. /\ FirstIndex(s[i], s) \in DOMAIN s /\ s[FirstIndex(s[i], s)] = s[i]
    BY <2>1, FirstIndexFacts
  <2> QED
    BY <2>2
<1>3. \A v : v \in ToSet(s) <=> \E i \in DOMAIN s : v = s[i]
  BY DEF ToSet
<1> HIDE DEF P
<1>4. \A v : v \in ToSet(Distinct(s)) <=> v \in ToSet(s)
  BY <1>1, <1>2, <1>3, Zenon
<1> QED
  BY <1>1, <1>4

\* A function on positions has a least value in every set of them.
LEMMA LeastValue ==
  ASSUME NEW n \in Nat, NEW f \in [1 .. n -> Int], NEW S \in SUBSET (1 .. n), S # {}
  PROVE  \E m \in S : \A k \in S : f[m] <= f[k]
<1> DEFINE good == { i \in 0 .. n : \A T \in SUBSET (1 .. i) :
                       T # {} => \E m \in T : \A k \in T : f[m] <= f[k] }
<1>1. 0 \in good
  <2>1. 0 \in 0 .. n /\ 1 .. 0 = {}
    OBVIOUS
  <2>2. \A T \in SUBSET (1 .. 0) : T = {}
    BY <2>1
  <2> QED
    BY <2>1, <2>2
<1>2. ASSUME NEW i \in 1 .. n, i - 1 \in good
      PROVE  i \in good
  <2>1. i \in 0 .. n /\ i \in Nat /\ f[i] \in Int
    OBVIOUS
  <2>2. SUFFICES ASSUME NEW T \in SUBSET (1 .. i), T # {}
                 PROVE  \E m \in T : \A k \in T : f[m] <= f[k]
    BY <2>1
  <2>3. \A k \in T : k \in 1 .. n /\ f[k] \in Int
    OBVIOUS
  <2>4. CASE i \notin T
    <3>1. T \in SUBSET (1 .. (i - 1))
      BY <2>1, <2>4
    <3> QED
      BY <1>2, <2>2, <3>1
  <2>5. CASE T = {i}
    BY <2>1, <2>5
  <2>6. CASE i \in T /\ T # {i}
    <3>1. T \ {i} \in SUBSET (1 .. (i - 1)) /\ T \ {i} # {}
      BY <2>1, <2>2, <2>6
    <3>2. PICK m \in T \ {i} : \A k \in T \ {i} : f[m] <= f[k]
      BY <1>2, <3>1
    <3>3. CASE f[m] <= f[i]
      BY <3>2, <3>3
    <3>4. CASE f[i] < f[m]
      <4>1. \A k \in T : f[i] <= f[k]
        BY <2>1, <2>3, <3>2, <3>4
      <4> QED
        BY <2>6, <4>1
    <3> QED
      BY <2>1, <2>3, <3>3, <3>4
  <2> QED
    BY <2>4, <2>5, <2>6
<1>3. 0 .. n \subseteq good
  <2> HIDE DEF good
  <2> QED
    BY <1>1, <1>2, UpTo
<1>4. n \in good
  <2> HIDE DEF good
  <2> QED
    BY <1>3
<1>5. \A T \in SUBSET (1 .. n) : T # {} => \E m \in T : \A k \in T : f[m] <= f[k]
  BY <1>4
<1> QED
  BY <1>5

\* The members of S at which f is least, and that there are some.
LeastAt(f, S) == { i \in S : \A j \in S : f[i] <= f[j] }

LEMMA LeastOnes ==
  ASSUME NEW n \in Nat, NEW f \in [1 .. n -> Int], NEW S \in SUBSET (1 .. n), S # {}
  PROVE  /\ LeastAt(f, S) \in SUBSET (1 .. n) /\ LeastAt(f, S) # {}
         /\ \A i \in LeastAt(f, S) : i \in S
         /\ \A i \in LeastAt(f, S), j \in S : f[i] <= f[j] /\ (j \in LeastAt(f, S) <=> f[j] = f[i])
<1>1. PICK m \in S : \A k \in S : f[m] <= f[k]
  BY LeastValue
<1>2. m \in LeastAt(f, S)
  BY <1>1 DEF LeastAt
<1>3. \A i \in LeastAt(f, S) : i \in S /\ \A j \in S : f[i] <= f[j]
  BY DEF LeastAt
<1>4. \A i \in S : i \in 1 .. n /\ f[i] \in Int
  OBVIOUS
<1>5. ASSUME NEW i \in LeastAt(f, S), NEW j \in S
      PROVE  f[i] <= f[j] /\ (j \in LeastAt(f, S) <=> f[j] = f[i])
  <2>1. f[i] \in Int /\ f[j] \in Int /\ \A k \in S : f[i] <= f[k] /\ f[k] \in Int
    BY <1>3, <1>4
  <2>2. f[j] = f[i] => j \in LeastAt(f, S)
    BY <2>1 DEF LeastAt
  <2>3. j \in LeastAt(f, S) => f[j] = f[i]
    BY <1>3, <2>1
  <2> QED
    BY <2>1, <2>2, <2>3
<1> QED
  BY <1>2, <1>3, <1>4, <1>5

LEMMA FiniteTuples ==
  ASSUME NEW n \in Nat, NEW V, IsFiniteSet(V)
  PROVE  IsFiniteSet([1 .. n -> V])
<1> DEFINE finite == { i \in 0 .. n : IsFiniteSet([1 .. i -> V]) }
<1>1. 0 \in finite
  <2>1. [1 .. 0 -> V] = { << >> }
    <3>1. 1 .. 0 = {} /\ DOMAIN << >> = {}
      OBVIOUS
    <3>2. << >> \in [1 .. 0 -> V]
      BY <3>1, EmptySeq
    <3>3. \A t \in [1 .. 0 -> V] : t \in Seq(V) /\ Len(t) = 0
      BY <3>1
    <3>4. \A t \in [1 .. 0 -> V] : t = << >>
      BY <3>3, EmptySeq
    <3> QED
      BY <3>2, <3>4
  <2>2. 0 \in 0 .. n
    OBVIOUS
  <2> QED
    BY <2>1, <2>2, FS_Singleton
<1>2. ASSUME NEW i \in 1 .. n, i - 1 \in finite
      PROVE  i \in finite
  <2> DEFINE D == [1 .. i - 1 -> V] \X V
             f == [p \in D |-> [k \in 1 .. i |-> IF k = i THEN p[2] ELSE p[1][k]]]
  <2>1. IsFiniteSet(D)
    BY <1>2, FS_Product
  <2>2. \A p \in D : f[p] \in [1 .. i -> V]
    <3> TAKE p \in D
    <3>1. p[1] \in [1 .. i - 1 -> V] /\ p[2] \in V
      OBVIOUS
    <3>2. \A k \in 1 .. i : k # i => k \in 1 .. i - 1
      OBVIOUS
    <3> QED
      BY <3>1, <3>2
  <2>3. \A t \in [1 .. i -> V] : \E p \in D : f[p] = t
    <3> TAKE t \in [1 .. i -> V]
    <3> DEFINE u == [k \in 1 .. i - 1 |-> t[k]]
               p == <<u, t[i]>>
    <3>1. u \in [1 .. i - 1 -> V] /\ t[i] \in V /\ p \in D
      OBVIOUS
    <3>2. f[p] = [k \in 1 .. i |-> IF k = i THEN t[i] ELSE u[k]]
      <4>1. f[p] = [k \in 1 .. i |-> IF k = i THEN p[2] ELSE p[1][k]]
        <5> HIDE DEF D, p
        <5> QED
          BY <3>1
      <4>2. p[1] = u /\ p[2] = t[i]
        OBVIOUS
      <4> HIDE DEF f, p, u
      <4> QED
        BY <4>1, <4>2, Zenon
    <3>3. \A k \in 1 .. i : t[k] = IF k = i THEN t[i] ELSE u[k]
      OBVIOUS
    <3>4. f[p] = t
      <4> HIDE DEF u, p, f
      <4> QED
        BY <3>2, <3>3
    <3> QED
      BY <3>1, <3>4
  <2>4. f \in Surjection(D, [1 .. i -> V])
    <3>1. f \in [D -> [1 .. i -> V]]
      <4>1. f = [p \in D |-> f[p]]
        OBVIOUS
      <4> HIDE DEF D, f
      <4> QED
        BY <2>2, <4>1
    <3> HIDE DEF D, f
    <3> QED
      BY <2>3, <3>1 DEF Surjection
  <2>5. i \in 0 .. n
    OBVIOUS
  <2> HIDE DEF D, f
  <2> QED
    BY <2>1, <2>4, <2>5, FS_Surjection
<1>3. 0 .. n \subseteq finite
  <2> HIDE DEF finite
  <2> QED
    BY <1>1, <1>2, UpTo
<1>4. n \in 0 .. n
  OBVIOUS
<1> QED
  BY <1>3, <1>4

LEMMA SetToSeqFacts ==
  ASSUME NEW S, IsFiniteSet(S)
  PROVE  /\ SetToSeq(S) \in Seq(S) /\ ToSet(SetToSeq(S)) = S
         /\ \A i, j \in DOMAIN SetToSeq(S) : SetToSeq(S)[i] = SetToSeq(S)[j] => i = j
<1> DEFINE n == Cardinality(S)
           s == SetToSeq(S)
<1>1. n \in Nat /\ ExistsBijection(1 .. n, S)
  BY FS_CardinalityType
<1>2. PICK f : f \in Bijection(1 .. n, S)
  BY <1>1 DEF ExistsBijection
<1>3. f \in [1 .. n -> S] /\ IsInjective(f)
  BY <1>2 DEF Bijection, Injection
<1>4. s \in [1 .. n -> S] /\ IsInjective(s)
  BY <1>3 DEF SetToSeq
<1>5. s \in Injection(1 .. n, S)
  BY <1>4 DEF Injection
<1>6. IsFiniteSet(1 .. n) /\ Cardinality(1 .. n) = n
  BY <1>1, FS_Interval
<1> HIDE DEF s
<1>7. s \in Surjection(1 .. n, S)
  BY <1>5, <1>6, FS_Injection
<1>8. s \in Seq(S) /\ DOMAIN s = 1 .. n
  BY <1>1, <1>4
<1>9. ToSet(s) = S
  BY <1>4, <1>7, <1>8 DEF ToSet, Surjection
<1> QED
  BY <1>4, <1>8, <1>9 DEF IsInjective, s

-----------------------------------------------------------------------------
(* The order of a body                                                     *)

Terms == Variables \cup Values

\* A literal, adorned or not.
IsLiteral(l) == l.pred \in Preds /\ l.args \in Seq(Terms) /\ Len(l.args) = Arity[l.pred]

\* The argument that column k of the variable occurrences comes from.
ArgAt(l, k) == Increasing(Len(l.args), DOMAIN l.args \ ConstantPositions(l))[k]

Columns(l) ==
  /\ \A k \in DOMAIN VarSeq(l) :
       ArgAt(l, k) \in DOMAIN l.args /\ VarSeq(l)[k] = l.args[ArgAt(l, k)] /\ VarSeq(l)[k] \in Variables
  /\ \A i \in DOMAIN l.args : l.args[i] \in Variables => \E k \in DOMAIN VarSeq(l) : ArgAt(l, k) = i

LEMMA LiteralsAreLiterals ==
  ASSUME NEW l \in Literals
  PROVE  IsLiteral(l)
BY DEF Literals, IsLiteral, Terms

LEMMA LiteralFacts ==
  ASSUME NEW l, IsLiteral(l)
  PROVE  /\ l.pred \in Preds /\ l.args \in Seq(Terms) /\ Arity[l.pred] \in Nat
         /\ Len(l.args) = Arity[l.pred] /\ DOMAIN l.args = 1 .. Arity[l.pred]
         /\ IsFiniteSet(DOMAIN l.args) /\ \A i \in DOMAIN l.args : l.args[i] \in Terms
         /\ VarSeq(l) \in Seq(Variables) /\ ToSet(VarSeq(l)) = VarsOf(l)
         /\ Columns(l)
<1> DEFINE P == DOMAIN l.args \ ConstantPositions(l)
<1>1. l.pred \in Preds /\ l.args \in Seq(Terms) /\ Len(l.args) = Arity[l.pred]
  BY DEF IsLiteral
<1>2. Arity[l.pred] \in Nat /\ DOMAIN l.args = 1 .. Arity[l.pred]
  BY <1>1, PredicateAssumption
<1>3. IsFiniteSet(DOMAIN l.args)
  BY <1>2, FS_Interval
<1>4. P = { i \in DOMAIN l.args : l.args[i] \in Variables } /\ P \cap DOMAIN l.args = P
  BY DEF ConstantPositions
<1>5. /\ VarSeq(l) \in Seq(Terms)
      /\ DOMAIN Increasing(Len(l.args), P) = DOMAIN VarSeq(l)
      /\ \A k \in DOMAIN VarSeq(l) :
           /\ Increasing(Len(l.args), P)[k] \in P
           /\ VarSeq(l)[k] = l.args[Increasing(Len(l.args), P)[k]]
      /\ \A i \in P : \E k \in DOMAIN VarSeq(l) : Increasing(Len(l.args), P)[k] = i
      /\ \A v : v \in ToSet(VarSeq(l)) <=> \E i \in P : v = l.args[i]
  <2>1. P \cap DOMAIN l.args = P
    BY <1>4
  <2>2. VarSeq(l) = Pick(l.args, P)
    BY DEF VarSeq
  <2> HIDE DEF P
  <2>3. Picked(Terms, l.args, P)
    BY <1>1, PickFacts
  <2> QED
    BY <1>1, <2>1, <2>2, <2>3 DEF Picked
<1>6. ToSet(VarSeq(l)) = VarsOf(l)
  <2>1. VarsOf(l) = { l.args[i] : i \in DOMAIN l.args } \cap Variables
    BY DEF VarsOf, ToSet
  <2>2. \A v : v \in { l.args[i] : i \in DOMAIN l.args } \cap Variables <=> \E i \in P : v = l.args[i]
    BY <1>4
  <2> QED
    BY <1>5, <2>1, <2>2
<1>7. VarSeq(l) \in Seq(Variables)
  <2>1. \A k \in DOMAIN VarSeq(l) : VarSeq(l)[k] \in Variables
    BY <1>4, <1>5
  <2> QED
    BY <1>5, <2>1
<1>8. Columns(l)
  <2>1. \A k : ArgAt(l, k) = Increasing(Len(l.args), P)[k]
    BY DEF ArgAt
  <2>2. \A i \in DOMAIN l.args : l.args[i] \in Variables => i \in P
    BY <1>4
  <2>3. \A k \in DOMAIN VarSeq(l) : ArgAt(l, k) \in P /\ VarSeq(l)[k] = l.args[ArgAt(l, k)]
    BY <1>5, <2>1
  <2>4. \A i \in P : i \in DOMAIN l.args /\ l.args[i] \in Variables
    BY <1>4
  <2> HIDE DEF P
  <2> QED
    BY <1>5, <2>1, <2>2, <2>3, <2>4 DEF Columns
<1>9. \A i \in DOMAIN l.args : l.args[i] \in Terms
  <2> DEFINE a == l.args
  <2>1. a \in Seq(Terms)
    BY <1>1
  <2> HIDE DEF a
  <2>2. \A i \in DOMAIN a : a[i] \in Terms
    BY <2>1
  <2> QED
    BY <2>2 DEF a
<1> QED
  BY <1>1, <1>2, <1>3, <1>6, <1>7, <1>8, <1>9

LEMMA FirstOfSorted ==
  ASSUME NEW body \in Seq(Literals), NEW S \in SUBSET DOMAIN body, S # {}
  PROVE  \E i \in S : \A j \in S \ {i} : SortedBefore(i, j, body)
<1> DEFINE n == Len(body)
           edb == [i \in 1 .. n |-> IF body[i].pred \in EDBPreds THEN 0 ELSE 1]
           size == [i \in 1 .. n |-> Len(VarSeq(body[i]))]
           self == [i \in 1 .. n |-> i]
<1>1. n \in Nat /\ DOMAIN body = 1 .. n /\ S \in SUBSET (1 .. n)
  OBVIOUS
<1>2. edb \in [1 .. n -> Int] /\ self \in [1 .. n -> Int]
  OBVIOUS
<1>3. size \in [1 .. n -> Int]
  <2>1. \A i \in 1 .. n : Len(VarSeq(body[i])) \in Nat
    <3> TAKE i \in 1 .. n
    <3>1. body[i] \in Literals
      OBVIOUS
    <3>2. VarSeq(body[i]) \in Seq(Variables)
      BY <3>1, LiteralsAreLiterals, LiteralFacts
    <3> QED
      BY <3>2
  <2> QED
    BY <2>1
<1> HIDE DEF n, edb, size, self
<1> DEFINE E == LeastAt(edb, S)
           F == LeastAt(size, E)
<1>4. /\ E \in SUBSET (1 .. n) /\ E # {} /\ \A i \in E : i \in S
      /\ \A i \in E, j \in S : edb[i] <= edb[j] /\ (j \in E <=> edb[j] = edb[i])
  BY <1>1, <1>2, LeastOnes
<1> HIDE DEF E
<1>5. /\ F \in SUBSET (1 .. n) /\ F # {} /\ \A i \in F : i \in E
      /\ \A i \in F, j \in E : size[i] <= size[j] /\ (j \in F <=> size[j] = size[i])
  BY <1>1, <1>3, <1>4, LeastOnes
<1> HIDE DEF F
<1>6. PICK i \in F : \A j \in F : self[i] <= self[j]
  BY <1>1, <1>2, <1>5, LeastValue
<1>7. ASSUME NEW j \in S \ {i}
      PROVE  SortedBefore(i, j, body)
  <2>1. i \in 1 .. n /\ j \in 1 .. n
    BY <1>1, <1>5
  <2>2. /\ (body[i].pred \in EDBPreds) = (edb[i] = 0)
        /\ (body[j].pred \in EDBPreds) = (edb[j] = 0)
        /\ edb[i] \in {0, 1} /\ edb[j] \in {0, 1}
    BY <2>1 DEF edb
  <2>3. Len(VarSeq(body[i])) = size[i] /\ Len(VarSeq(body[j])) = size[j] /\ size[i] \in Int /\ size[j] \in Int
    BY <1>3, <2>1 DEF size
  <2>4. j \in F => i < j
    <3>1. self[i] = i /\ self[j] = j /\ i # j
      BY <2>1 DEF self
    <3> QED
      BY <1>1, <1>6, <2>1, <3>1
  <2>5. edb[i] <= edb[j] /\ (j \in E <=> edb[j] = edb[i])
    BY <1>4, <1>5
  <2>6. j \in E => size[i] <= size[j] /\ (j \in F <=> size[j] = size[i])
    BY <1>5
  <2> QED
    BY <2>2, <2>3, <2>4, <2>5, <2>6 DEF SortedBefore
<1>8. i \in S
  BY <1>4, <1>5
<1> QED
  BY <1>7, <1>8

LEMMA FirstOfBest ==
  ASSUME NEW body \in Seq(Literals), NEW S \in SUBSET DOMAIN body, S # {}, NEW bound, NEW known
  PROVE  \E i \in S : \A j \in S \ {i} :
           \/ Better(i, j, body, bound, known)
           \/ ~Better(j, i, body, bound, known) /\ SortedBefore(i, j, body)
<1> DEFINE n == Len(body)
           Bounds(k) == Cardinality({ a \in DOMAIN body[k].args :
                                        body[k].args[a] \in known \/ body[k].args[a] \notin Variables })
           Asked(k) == VarsOf(body[k]) \cap bound # {}
           edb == [i \in 1 .. n |-> IF body[i].pred \in EDBPreds THEN 0 ELSE 1]
           free == [i \in 1 .. n |-> 0 - Bounds(i)]
           other == [i \in 1 .. n |-> IF Asked(i) THEN 0 ELSE 1]
<1>1. n \in Nat /\ DOMAIN body = 1 .. n /\ S \in SUBSET (1 .. n)
  OBVIOUS
<1>2. edb \in [1 .. n -> Int] /\ other \in [1 .. n -> Int]
  OBVIOUS
<1>3. \A i \in 1 .. n : Bounds(i) \in Nat
  <2> TAKE i \in 1 .. n
  <2>1. body[i] \in Literals
    OBVIOUS
  <2>2. IsFiniteSet(DOMAIN body[i].args)
    BY <2>1, LiteralsAreLiterals, LiteralFacts
  <2> DEFINE B == { a \in DOMAIN body[i].args : body[i].args[a] \in known \/ body[i].args[a] \notin Variables }
  <2>3. B \in SUBSET DOMAIN body[i].args
    OBVIOUS
  <2>4. IsFiniteSet(B)
    BY <2>2, <2>3, FS_Subset
  <2> QED
    BY <2>4, FS_CardinalityType
<1>4. free \in [1 .. n -> Int]
  <2> HIDE DEF Bounds
  <2> QED
    BY <1>3
<1> HIDE DEF n, edb, free, other
<1> DEFINE E == LeastAt(edb, S)
           F == LeastAt(free, E)
           G == LeastAt(other, F)
<1>5. /\ E \in SUBSET (1 .. n) /\ E # {} /\ \A i \in E : i \in S
      /\ \A i \in E, j \in S : edb[i] <= edb[j] /\ (j \in E <=> edb[j] = edb[i])
  BY <1>1, <1>2, LeastOnes
<1> HIDE DEF E
<1>6. /\ F \in SUBSET (1 .. n) /\ F # {} /\ \A i \in F : i \in E
      /\ \A i \in F, j \in E : free[i] <= free[j] /\ (j \in F <=> free[j] = free[i])
  BY <1>1, <1>4, <1>5, LeastOnes
<1> HIDE DEF F
<1>7. /\ G \in SUBSET (1 .. n) /\ G # {} /\ \A i \in G : i \in F
      /\ \A i \in G, j \in F : other[i] <= other[j] /\ (j \in G <=> other[j] = other[i])
  BY <1>1, <1>2, <1>6, LeastOnes
<1> HIDE DEF G
<1>8. PICK i \in G : \A j \in G \ {i} : SortedBefore(i, j, body)
  BY <1>1, <1>5, <1>6, <1>7, FirstOfSorted
<1>9. ASSUME NEW j \in S \ {i}
      PROVE  \/ Better(i, j, body, bound, known)
             \/ ~Better(j, i, body, bound, known) /\ SortedBefore(i, j, body)
  <2>1. i \in 1 .. n /\ j \in 1 .. n
    BY <1>1, <1>7
  <2>2. /\ (body[i].pred \in EDBPreds) = (edb[i] = 0)
        /\ (body[j].pred \in EDBPreds) = (edb[j] = 0)
        /\ edb[i] \in {0, 1} /\ edb[j] \in {0, 1}
    BY <2>1 DEF edb
  <2>3. /\ Asked(i) <=> other[i] = 0
        /\ Asked(j) <=> other[j] = 0
        /\ other[i] \in {0, 1} /\ other[j] \in {0, 1}
    BY <2>1 DEF other
  <2>4. Bounds(i) \in Nat /\ Bounds(j) \in Nat /\ free[i] = 0 - Bounds(i) /\ free[j] = 0 - Bounds(j)
    BY <1>3, <2>1 DEF free
  <2>5. edb[i] <= edb[j] /\ (j \in E <=> edb[j] = edb[i])
    BY <1>5, <1>6, <1>7
  <2>6. j \in E => free[i] <= free[j] /\ (j \in F <=> free[j] = free[i])
    BY <1>6, <1>7
  <2>7. j \in F => other[i] <= other[j] /\ (j \in G <=> other[j] = other[i])
    BY <1>7
  <2>8. j \in G => SortedBefore(i, j, body)
    BY <1>8
  <2>9. /\ Better(i, j, body, bound, known) <=>
             \/ edb[i] = 0 /\ edb[j] # 0
             \/ edb[i] = edb[j] /\ (Bounds(i) > Bounds(j) \/ (Bounds(i) = Bounds(j) /\ Asked(i) /\ ~Asked(j)))
        /\ Better(j, i, body, bound, known) <=>
             \/ edb[j] = 0 /\ edb[i] # 0
             \/ edb[i] = edb[j] /\ (Bounds(j) > Bounds(i) \/ (Bounds(i) = Bounds(j) /\ Asked(j) /\ ~Asked(i)))
    BY <2>2 DEF Better
  <2> HIDE DEF Bounds, Asked
  <2>10. CASE j \notin E
    BY <2>2, <2>5, <2>9, <2>10
  <2>11. CASE j \in E /\ j \notin F
    BY <2>2, <2>4, <2>5, <2>6, <2>9, <2>11
  <2>12. CASE j \in F /\ j \notin G
    <3>1. j \in E
      BY <1>6, <2>12
    <3>2. other[i] = 0 /\ other[j] = 1
      BY <2>3, <2>7, <2>12
    <3>3. Asked(i) /\ ~Asked(j)
      BY <2>3, <3>2
    <3>4. Bounds(i) = Bounds(j) /\ edb[i] = edb[j]
      BY <2>2, <2>4, <2>5, <2>6, <2>12, <3>1
    <3> QED
      BY <2>9, <3>3, <3>4
  <2>13. CASE j \in G
    <3>1. j \in E /\ j \in F
      BY <1>6, <1>7, <2>13
    <3> QED
      BY <2>2, <2>3, <2>4, <2>5, <2>6, <2>7, <2>8, <2>9, <2>13, <3>1
  <2> QED
    BY <2>10, <2>11, <2>12, <2>13
<1>10. i \in S
  BY <1>5, <1>6, <1>7
<1> QED
  BY <1>9, <1>10

LEMMA NextInPlanFacts ==
  ASSUME NEW body \in Seq(Literals), NEW bound, NEW order, DOMAIN body \ ToSet(order) # {}
  PROVE  /\ NextInPlan(body, bound, order) \in DOMAIN body \ ToSet(order)
         /\ (\E i \in DOMAIN body \ ToSet(order) : VarsOf(body[i]) \cap (bound \cup VarsIn(body, order)) # {}) =>
              VarsOf(body[NextInPlan(body, bound, order)]) \cap (bound \cup VarsIn(body, order)) # {}
<1> DEFINE known == bound \cup VarsIn(body, order)
           rest == DOMAIN body \ ToSet(order)
           joined == { i \in rest : VarsOf(body[i]) \cap known # {} }
<1>1. rest \in SUBSET DOMAIN body /\ joined \in SUBSET DOMAIN body /\ rest # {}
  OBVIOUS
<1>2. NextInPlan(body, bound, order) =
        IF joined = {}
        THEN CHOOSE i \in rest : \A j \in rest \ {i} : SortedBefore(i, j, body)
        ELSE CHOOSE i \in joined : \A j \in joined \ {i} :
               \/ Better(i, j, body, bound, known)
               \/ ~Better(j, i, body, bound, known) /\ SortedBefore(i, j, body)
  BY DEF NextInPlan
<1> HIDE DEF known
<1>3. CASE joined = {}
  <2>1. \E i \in rest : \A j \in rest \ {i} : SortedBefore(i, j, body)
    <3> HIDE DEF rest
    <3> QED
      BY <1>1, FirstOfSorted
  <2>2. NextInPlan(body, bound, order) \in rest
    <3> HIDE DEF rest
    <3> QED
      BY <1>2, <1>3, <2>1
  <2>3. ~(\E i \in rest : VarsOf(body[i]) \cap known # {})
    BY <1>3
  <2> QED
    BY <2>2, <2>3 DEF known
<1>4. CASE joined # {}
  <2>1. \E i \in joined : \A j \in joined \ {i} :
          \/ Better(i, j, body, bound, known)
          \/ ~Better(j, i, body, bound, known) /\ SortedBefore(i, j, body)
    <3> HIDE DEF rest, joined
    <3> QED
      BY <1>1, <1>4, FirstOfBest
  <2>2. NextInPlan(body, bound, order) \in joined
    <3> HIDE DEF rest, joined
    <3> QED
      BY <1>2, <1>4, <2>1
  <2>3. NextInPlan(body, bound, order) \in rest /\ VarsOf(body[NextInPlan(body, bound, order)]) \cap known # {}
    BY <2>2
  <2> QED
    BY <2>3 DEF known
<1> QED
  BY <1>3, <1>4

PlansWith(body, bound, P) ==
  /\ P[0] = << >>
  /\ \A k \in 1 .. Len(body) : DOMAIN body \ ToSet(P[k - 1]) # {} =>
       P[k] = Append(P[k - 1], NextInPlan(body, bound, P[k - 1]))

LEMMA PlanSteps ==
  ASSUME NEW body \in Seq(Literals), NEW bound, NEW P, PlansWith(body, bound, P)
  PROVE  /\ \A k \in 0 .. Len(body) : P[k] \in Seq(DOMAIN body) /\ Len(P[k]) = k
         /\ \A k \in 1 .. Len(body) : P[k] = Append(P[k - 1], NextInPlan(body, bound, P[k - 1]))
         /\ ToSet(P[Len(body)]) = DOMAIN body
         /\ \A k \in 1 .. Len(body) : P[k][1] = NextInPlan(body, bound, << >>)
<1> DEFINE n == Len(body)
           good == { k \in 0 .. n : /\ P[k] \in Seq(DOMAIN body) /\ Len(P[k]) = k
                                    /\ k # 0 => P[k][1] = NextInPlan(body, bound, << >>)
                                    /\ Cardinality(ToSet(P[k])) = k /\ ToSet(P[k]) \subseteq DOMAIN body }
<1>1. n \in Nat /\ DOMAIN body = 1 .. n /\ IsFiniteSet(DOMAIN body) /\ Cardinality(DOMAIN body) = n
  <2>1. n \in Nat /\ DOMAIN body = 1 .. n
    OBVIOUS
  <2> QED
    BY <2>1, FS_Interval
<1>2. 0 \in good
  <2>1. << >> \in Seq(DOMAIN body) /\ Len(<< >>) = 0 /\ ToSet(<< >>) = {} /\ Cardinality({}) = 0
    BY EmptySeq, FS_EmptySet DEF ToSet
  <2>2. 0 \in 0 .. n
    BY <1>1
  <2>3. /\ P[0] \in Seq(DOMAIN body) /\ Len(P[0]) = 0
        /\ Cardinality(ToSet(P[0])) = 0 /\ ToSet(P[0]) \subseteq DOMAIN body
    <3>1. P[0] = << >>
      BY DEF PlansWith
    <3> QED
      BY <2>1, <3>1
  <2> HIDE DEF n
  <2> QED
    BY <2>2, <2>3
<1>3. ASSUME NEW k \in 0 .. n, k \in good, k < n
      PROVE  DOMAIN body \ ToSet(P[k]) # {}
  <2>1. SUFFICES ASSUME ToSet(P[k]) = DOMAIN body
                 PROVE  FALSE
    BY <1>3
  <2> QED
    BY <1>1, <1>3, <2>1
<1>4. ASSUME NEW k \in 1 .. n, k - 1 \in good
      PROVE  k \in good
  <2> DEFINE s == P[k - 1]
             new == NextInPlan(body, bound, s)
  <2>1. k \in 0 .. n /\ k - 1 \in 0 .. n /\ k - 1 < n /\ k - 1 \in Nat
    BY <1>1
  <2>2. DOMAIN body \ ToSet(s) # {}
    BY <1>3, <1>4, <2>1
  <2>3. P[k] = Append(s, new)
    BY <2>2 DEF PlansWith
  <2> HIDE DEF s
  <2>4. new \in DOMAIN body \ ToSet(s)
    BY <2>2, NextInPlanFacts
  <2> HIDE DEF new
  <2>5. s \in Seq(DOMAIN body) /\ Len(s) = k - 1 /\ Cardinality(ToSet(s)) = k - 1 /\ ToSet(s) \subseteq DOMAIN body
    BY <1>4 DEF s
  <2>5a. k - 1 # 0 => s[1] = NextInPlan(body, bound, << >>)
    BY <1>4 DEF s
  <2>5b. k - 1 = 0 => s = << >>
    BY DEF s, PlansWith
  <2>6. /\ P[k] \in Seq(DOMAIN body) /\ Len(P[k]) = k
        /\ \A i \in 1 .. k - 1 : P[k][i] = s[i]
        /\ P[k][k] = new /\ DOMAIN P[k] = 1 .. k /\ DOMAIN s = 1 .. k - 1
    BY <2>1, <2>3, <2>4, <2>5, AppendProperties
  <2>7. ToSet(P[k]) = ToSet(s) \cup {new}
    <3>1. DOMAIN P[k] = DOMAIN s \cup {k}
      BY <2>1, <2>6
    <3> DEFINE t == P[k]
    <3>2. t[k] = new /\ DOMAIN t = DOMAIN s \cup {k} /\ \A i \in DOMAIN s : t[i] = s[i]
      BY <2>6, <3>1
    <3> HIDE DEF t
    <3>3. { t[i] : i \in DOMAIN t } = { s[i] : i \in DOMAIN s } \cup {new}
      BY <3>2
    <3> QED
      BY <3>3 DEF ToSet, t
  <2>8. IsFiniteSet(ToSet(s))
    BY <1>1, <2>5, FS_Subset
  <2>9. Cardinality(ToSet(P[k])) = k
    <3>1. Cardinality(ToSet(s) \cup {new}) = Cardinality(ToSet(s)) + 1
      BY <2>4, <2>8, FS_AddElement
    <3> QED
      BY <2>5, <2>7, <3>1, <2>1
  <2>10. P[k][1] = NextInPlan(body, bound, << >>)
    <3>1. CASE k = 1
      <4>1. s = << >>
        BY <2>5b, <3>1
      <4> QED
        BY <2>6, <3>1, <4>1 DEF new
    <3>2. CASE k # 1
      <4>1. 1 \in 1 .. k - 1 /\ k - 1 # 0
        BY <2>1, <3>2
      <4> QED
        BY <2>5a, <2>6, <4>1
    <3> QED
      BY <3>1, <3>2
  <2> QED
    BY <2>1, <2>4, <2>5, <2>6, <2>7, <2>9, <2>10
<1>5. 0 .. n \subseteq good
  <2> HIDE DEF good
  <2> QED
    BY <1>1, <1>2, <1>4, UpTo
<1>6. ToSet(P[n]) = DOMAIN body
  <2>1. n \in good
    BY <1>1, <1>5
  <2> QED
    BY <1>1, <2>1, FS_Subset
<1>7. \A k \in 0 .. n : P[k] \in Seq(DOMAIN body) /\ Len(P[k]) = k
  BY <1>5
<1>7a. \A k \in 1 .. n : P[k][1] = NextInPlan(body, bound, << >>)
  <2> TAKE k \in 1 .. n
  <2>1. k \in 0 .. n /\ k # 0
    BY <1>1
  <2> QED
    BY <1>5, <2>1
<1>8. \A k \in 1 .. n : P[k] = Append(P[k - 1], NextInPlan(body, bound, P[k - 1]))
  <2> TAKE k \in 1 .. n
  <2>1. k - 1 \in 0 .. n /\ k - 1 < n
    BY <1>1
  <2>2. DOMAIN body \ ToSet(P[k - 1]) # {}
    BY <1>3, <1>5, <2>1
  <2> QED
    BY <2>2 DEF PlansWith
<1> QED
  BY <1>6, <1>7, <1>7a, <1>8

\* Each place of a plan gets the literal the code would choose next.
PlanAppends(body, bound, P) ==
  \A k \in 1 .. Len(body) : P[k] = Append(P[k - 1], NextInPlan(body, bound, P[k - 1]))

LEMMA PlanStepsAppend ==
  ASSUME NEW body \in Seq(Literals), NEW bound, NEW P, PlansWith(body, bound, P)
  PROVE  PlanAppends(body, bound, P)
BY PlanSteps DEF PlanAppends

\* The plan puts every literal of the body somewhere.
LEMMA BestPlanFacts ==
  ASSUME NEW body \in Seq(Literals), NEW bound
  PROVE  /\ BestPlan(body, bound) \in Seq(DOMAIN body)
         /\ Len(BestPlan(body, bound)) = Len(body)
         /\ ToSet(BestPlan(body, bound)) = DOMAIN body
         /\ Len(body) > 0 => BestPlan(body, bound)[1] = NextInPlan(body, bound, << >>)
<1> DEFINE n == Len(body)
           T == Seq(DOMAIN body)
           Left(s) == DOMAIN body \ ToSet(s)
           step == [p \in (1 .. n) \X T |-> IF Left(p[2]) # {} THEN Append(p[2], NextInPlan(body, bound, p[2])) ELSE p[2]]
           rec(G) == G = [k \in 0 .. n |-> IF k = 0 THEN << >>
                            ELSE LET chosen == G[k - 1] IN Append(chosen, NextInPlan(body, bound, chosen))]
           plan == CHOOSE G : rec(G)
<1>1. n \in Nat
  OBVIOUS
<1>2. PICK G \in [0 .. n -> T] : Recurses(G, n, << >>, step)
  <2>1. << >> \in T
    BY EmptySeq
  <2>2. step \in [(1 .. n) \X T -> T]
    <3> SUFFICES ASSUME NEW p \in (1 .. n) \X T
                 PROVE  (IF Left(p[2]) # {} THEN Append(p[2], NextInPlan(body, bound, p[2])) ELSE p[2]) \in T
      OBVIOUS
    <3>1. p[2] \in T
      OBVIOUS
    <3>2. Left(p[2]) # {} => NextInPlan(body, bound, p[2]) \in DOMAIN body
      BY NextInPlanFacts
    <3> QED
      BY <3>1, <3>2, AppendProperties
  <2> HIDE DEF T, step
  <2> QED
    BY <1>1, <2>1, <2>2, RecursionExists
<1>3. /\ G[0] = << >>
      /\ \A k \in 1 .. n : /\ Left(G[k - 1]) # {} => G[k] = Append(G[k - 1], NextInPlan(body, bound, G[k - 1]))
  <2>1. \A k \in 1 .. n : G[k - 1] \in T /\ <<k, G[k - 1]>> \in (1 .. n) \X T
    <3> TAKE k \in 1 .. n
    <3>1. k - 1 \in 0 .. n
      BY <1>1
    <3>2. G[k - 1] \in T
      BY <1>2, <3>1
    <3> HIDE DEF T
    <3> QED
      BY <3>2
  <2>2. \A k \in 1 .. n : step[<<k, G[k - 1]>>] =
          IF Left(G[k - 1]) # {} THEN Append(G[k - 1], NextInPlan(body, bound, G[k - 1])) ELSE G[k - 1]
    <3> HIDE DEF T, Left, n
    <3> QED
      BY <2>1
  <2>3. /\ G[0] = << >> /\ \A k \in 1 .. n : G[k] = step[<<k, G[k - 1]>>]
    <3>1. 0 \in 0 .. n /\ \A k \in 1 .. n : k \in 0 .. n /\ k # 0
      BY <1>1
    <3> HIDE DEF step, n
    <3> QED
      BY <1>2, <3>1 DEF Recurses
  <2> HIDE DEF step, Left
  <2> QED
    BY <2>2, <2>3
<1>4. \A k \in 1 .. n : G[k] = Append(G[k - 1], NextInPlan(body, bound, G[k - 1]))
  <2>1. PlansWith(body, bound, G)
    BY <1>3 DEF PlansWith
  <2>2. PlanAppends(body, bound, G)
    BY <2>1, PlanStepsAppend
  <2> HIDE DEF Left, T, step
  <2> QED
    BY <2>2 DEF PlanAppends
<1>5. rec(G)
  <2>2. \A k \in 0 .. n : G[k] = IF k = 0 THEN << >> ELSE Append(G[k - 1], NextInPlan(body, bound, G[k - 1]))
    <3>1. \A k \in 0 .. n : k = 0 \/ k \in 1 .. n
      BY <1>1
    <3> QED
      BY <1>3, <1>4, <3>1, Zenon
  <2>3. G = [k \in 0 .. n |-> G[k]]
    BY <1>2
  <2> QED
    BY <2>2, <2>3, Zenon
<1>6. rec(plan)
  BY <1>5, Zenon
<1>7. BestPlan(body, bound) = plan[n]
  BY DEF BestPlan
<1> HIDE DEF plan
<1>8. /\ plan[0] = << >>
      /\ \A k \in 1 .. n : plan[k] = Append(plan[k - 1], NextInPlan(body, bound, plan[k - 1]))
  <2>1. \A k \in 0 .. n : plan[k] = IF k = 0 THEN << >> ELSE Append(plan[k - 1], NextInPlan(body, bound, plan[k - 1]))
    BY <1>6, Zenon
  <2>2. 0 \in 0 .. n /\ \A k \in 1 .. n : k \in 0 .. n /\ k # 0
    BY <1>1
  <2> QED
    BY <2>1, <2>2, Zenon
<1>9. /\ \A k \in 0 .. n : plan[k] \in Seq(DOMAIN body) /\ Len(plan[k]) = k
      /\ ToSet(plan[n]) = DOMAIN body
      /\ \A k \in 1 .. n : plan[k][1] = NextInPlan(body, bound, << >>)
  <2>1. PlansWith(body, bound, plan)
    BY <1>8 DEF PlansWith
  <2> QED
    BY <2>1, PlanSteps
<1>10. n \in 0 .. n /\ (n > 0 => n \in 1 .. n)
  BY <1>1
<1> QED
  BY <1>7, <1>9, <1>10

-----------------------------------------------------------------------------
(* The least model                                                         *)

\* A set of numbers has a least one.
LEMMA LeastNumber ==
  ASSUME NEW S \in SUBSET Nat, S # {}
  PROVE  \E m \in S : \A k \in S : m <= k
<1>1. PICK m \in S : \A k \in S : ~(<<k, m>> \in OpToRel(<, Nat))
  BY NatLessThanWellFounded, WFMin
<1>2. ASSUME NEW k \in S PROVE m <= k
  <2>1. SUFFICES ASSUME k < m PROVE FALSE
    OBVIOUS
  <2> DEFINE km == <<k, m>>
  <2>2. km \in Nat \X Nat /\ km[1] < km[2]
    BY <2>1
  <2>3. km \in OpToRel(<, Nat)
    BY <2>2 DEF OpToRel
  <2> QED
    BY <1>1, <2>3
<1> QED
  BY <1>2

LEMMA ImageFinite ==
  ASSUME NEW S, IsFiniteSet(S), NEW f, DOMAIN f = S, f = [x \in S |-> f[x]]
  PROVE  IsFiniteSet({ f[x] : x \in S })
<1>1. f \in Surjection(S, { f[x] : x \in S })
  BY DEF Surjection
<1> QED
  BY <1>1, FS_Surjection

AllTuples == UNION { [1 .. n -> Values] : n \in { Arity[p] : p \in Preds } }

LEMMA AllTuplesFinite == IsFiniteSet(AllTuples) /\ \A p \in Preds : [1 .. Arity[p] -> Values] \subseteq AllTuples
<1> DEFINE D == { Arity[p] : p \in Preds }
           T == { [1 .. n -> Values] : n \in D }
<1>1. IsFiniteSet(D)
  <2> DEFINE f == [p \in Preds |-> Arity[p]]
  <2>1. DOMAIN f = Preds /\ f = [p \in Preds |-> f[p]] /\ D = { f[p] : p \in Preds }
    OBVIOUS
  <2> HIDE DEF f, D
  <2> QED
    BY <2>1, PredicateAssumption, ImageFinite
<1>2. IsFiniteSet(T)
  <2> HIDE DEF D
  <2> DEFINE f == [n \in D |-> [1 .. n -> Values]]
  <2>1. DOMAIN f = D /\ f = [n \in D |-> f[n]] /\ T = { f[n] : n \in D }
    OBVIOUS
  <2> HIDE DEF f, T
  <2> QED
    BY <1>1, <2>1, ImageFinite
<1>3. \A n \in D : n \in Nat
  BY PredicateAssumption
<1>4. \A t \in T : IsFiniteSet(t)
  BY <1>3, TermAssumption, FiniteTuples
<1>5. IsFiniteSet(UNION T)
  <2> HIDE DEF T
  <2> QED
    BY <1>2, <1>4, FS_UNION
<1>6. \A p \in Preds : [1 .. Arity[p] -> Values] \in T
  OBVIOUS
<1> QED
  BY <1>5, <1>6 DEF AllTuples

Below(f, g) == \A p \in Preds : f[p] \subseteq g[p]

\* Rules that only derive what the database and the rules can speak of.
SafeRules ==
  { R \in Seq(DatalogRules) : \A r \in ToSet(R) : VarsOf(r.head) \subseteq UNION { VarsOf(l) : l \in ToSet(r.body) } }

LEMMA ProgramsAreSafe ==
  ASSUME NEW P \in Programs
  PROVE  /\ P \in SafeRules
         /\ \A r \in ToSet(P) : Len(r.body) > 0 /\ r \in DatalogRules
<1>1. P \in Seq(DatalogRules)
  BY ProgramAssumption
<1>2. \A r \in ToSet(P) : r \in DatalogRules
  BY <1>1 DEF ToSet
<1> QED
  BY <1>1, <1>2, RuleAssumption DEF SafeRules

\* Rule r derives tuple t from the facts with substitution s.
DerivesWith(r, s, facts, t) ==
  /\ s \in Substitutions(ToSet(r.body))
  /\ \A l \in ToSet(r.body) : Holds(l, s, facts)
  /\ t = Substituted(r.head.args, s)

LEMMA ConsequencesFacts ==
  ASSUME NEW R, NEW facts, NEW p \in Preds, NEW t
  PROVE  t \in Consequences(R, facts)[p] <=>
           t \in facts[p] \/ \E r \in ToSet(R) : r.head.pred = p /\ \E s : DerivesWith(r, s, facts, t)
<1> DEFINE Found(r) == { Substituted(r.head.args, s) :
             s \in { u \in Substitutions(ToSet(r.body)) : \A l \in ToSet(r.body) : Holds(l, u, facts) } }
<1>1. Consequences(R, facts)[p] = facts[p] \cup UNION { Found(r) : r \in { q \in ToSet(R) : q.head.pred = p } }
  BY DEF Consequences
<1>2. \A r : t \in Found(r) <=> \E s : DerivesWith(r, s, facts, t)
  BY DEF DerivesWith
<1> HIDE DEF Found
<1>3. t \in UNION { Found(r) : r \in { q \in ToSet(R) : q.head.pred = p } }
        <=> \E r \in ToSet(R) : r.head.pred = p /\ t \in Found(r)
  OBVIOUS
<1> QED
  BY <1>1, <1>2, <1>3

\* A substitution turns a literal into a tuple of its predicate.
LEMMA SubstitutedType ==
  ASSUME NEW l, IsLiteral(l), NEW s, \A v \in VarsOf(l) : s[v] \in Values
  PROVE  Substituted(l.args, s) \in [1 .. Arity[l.pred] -> Values]
<1>1. l.args \in Seq(Terms) /\ DOMAIN l.args = 1 .. Arity[l.pred]
  BY LiteralFacts
<1>2. ASSUME NEW i \in DOMAIN l.args
      PROVE  (IF l.args[i] \in Variables THEN s[l.args[i]] ELSE l.args[i]) \in Values
  <2>1. l.args[i] \in Terms
    BY <1>2, LiteralFacts
  <2>2. l.args[i] \in Variables => l.args[i] \in VarsOf(l)
    BY <1>2 DEF VarsOf, ToSet
  <2> QED
    BY <2>1, <2>2 DEF Terms
<1> QED
  BY <1>1, <1>2 DEF Substituted

LEMMA DerivedType ==
  ASSUME NEW R \in SafeRules, NEW r \in ToSet(R), NEW s, NEW facts, NEW t, DerivesWith(r, s, facts, t)
  PROVE  r \in DatalogRules /\ t \in [1 .. Arity[r.head.pred] -> Values]
<1>1. R \in Seq(DatalogRules) /\ VarsOf(r.head) \subseteq UNION { VarsOf(l) : l \in ToSet(r.body) }
  BY DEF SafeRules
<1>2. r \in DatalogRules
  BY <1>1 DEF ToSet
<1>3. r.head \in Literals
  BY <1>2 DEF DatalogRules
<1>4. s \in [UNION { VarsOf(l) : l \in ToSet(r.body) } -> Values] /\ t = Substituted(r.head.args, s)
  BY DEF DerivesWith, Substitutions
<1>5. \A v \in VarsOf(r.head) : s[v] \in Values
  BY <1>1, <1>4
<1> QED
  BY <1>2, <1>3, <1>4, <1>5, LiteralsAreLiterals, SubstitutedType

\* A round of the rules keeps to the interpretations, loses nothing, and finds
\* more from more facts.
LEMMA ConsequencesGrow ==
  ASSUME NEW R \in SafeRules, NEW f \in Interpretations
  PROVE  Consequences(R, f) \in Interpretations /\ Below(f, Consequences(R, f))
<1> DEFINE C == Consequences(R, f)
<1>1. f \in [Preds -> SUBSET AllTuples]
  BY DEF Interpretations, AllTuples
<1>2. ASSUME NEW p \in Preds, NEW t, t \in C[p]
      PROVE  t \in AllTuples
  <2>1. CASE t \in f[p]
    BY <1>1, <2>1
  <2>2. ASSUME NEW r \in ToSet(R), r.head.pred = p, NEW s, DerivesWith(r, s, f, t)
        PROVE  t \in AllTuples
    BY <2>2, DerivedType, AllTuplesFinite
  <2> QED
    BY <1>2, <2>1, <2>2, ConsequencesFacts
<1>3. \A p \in Preds : f[p] \subseteq C[p]
  BY ConsequencesFacts
<1>4. DOMAIN C = Preds /\ C = [p \in Preds |-> C[p]]
  BY DEF Consequences
<1> HIDE DEF C
<1>5. C \in [Preds -> SUBSET AllTuples]
  <2>1. \A p \in Preds : C[p] \in SUBSET AllTuples
    BY <1>2
  <2> QED
    BY <1>4, <2>1
<1> QED
  BY <1>3, <1>5 DEF C, Interpretations, AllTuples, Below

LEMMA ConsequencesMonotone ==
  ASSUME NEW R, NEW f, NEW g, Below(f, g), \A r \in ToSet(R) : \A l \in ToSet(r.body) : l.pred \in Preds
  PROVE  Below(Consequences(R, f), Consequences(R, g))
<1> SUFFICES ASSUME NEW p \in Preds, NEW t, t \in Consequences(R, f)[p]
             PROVE  t \in Consequences(R, g)[p]
  BY DEF Below
<1>1. CASE t \in f[p]
  BY <1>1, ConsequencesFacts DEF Below
<1>2. ASSUME NEW r \in ToSet(R), r.head.pred = p, NEW s, DerivesWith(r, s, f, t)
      PROVE  t \in Consequences(R, g)[p]
  <2>1. DerivesWith(r, s, g, t)
    BY <1>2 DEF DerivesWith, Holds, Below
  <2> QED
    BY <1>2, <2>1, ConsequencesFacts
<1> QED
  BY <1>1, <1>2, ConsequencesFacts

\* M is the least of the interpretations above f that the rules add nothing to.
IsLeastModel(R, f, M) ==
  /\ M \in Interpretations /\ Below(f, M) /\ Consequences(R, M) = M
  /\ \A F \in Interpretations : Below(f, F) /\ Consequences(R, F) = F => Below(M, F)

LEMMA SafeRulesBodies ==
  ASSUME NEW R \in SafeRules
  PROVE  \A r \in ToSet(R) : r \in DatalogRules /\ \A l \in ToSet(r.body) : l \in Literals /\ l.pred \in Preds
<1> SUFFICES ASSUME NEW r \in ToSet(R)
             PROVE  r \in DatalogRules /\ \A l \in ToSet(r.body) : l \in Literals /\ l.pred \in Preds
  OBVIOUS
<1>1. r \in DatalogRules
  BY DEF SafeRules, ToSet
<1>2. r.body \in Seq(Literals)
  BY <1>1 DEF DatalogRules
<1>3. \A l \in ToSet(r.body) : l \in Literals
  BY <1>2 DEF ToSet
<1> QED
  BY <1>1, <1>3, LiteralsAreLiterals, LiteralFacts

\* What the rules grow f to, if f grows: nothing is lost in between.
LEMMA BelowNext ==
  ASSUME NEW R \in SafeRules, NEW f \in Interpretations,
         NEW F \in Interpretations, Consequences(R, F) = F
  PROVE  Below(f, F) <=> Below(Consequences(R, f), F)
<1>1. Below(f, Consequences(R, f))
  BY ConsequencesGrow
<1>2. ASSUME Below(f, F) PROVE Below(Consequences(R, f), F)
  <2>1. Below(Consequences(R, f), Consequences(R, F))
    BY <1>2, SafeRulesBodies, ConsequencesMonotone
  <2> QED
    BY <2>1
<1> QED
  BY <1>1, <1>2 DEF Below

\* The recursion of LeastModel has a solution: the meet of the models above.
LEMMA GrowthExists ==
  ASSUME NEW R \in SafeRules
  PROVE  \E G : G = [facts \in Interpretations |->
                      LET next == Consequences(R, facts) IN IF next = facts THEN facts ELSE G[next]]
<1> DEFINE above(f) == { F \in Interpretations : Consequences(R, F) = F /\ Below(f, F) }
           meet(f) == [p \in Preds |-> { t \in AllTuples : \A F \in above(f) : t \in F[p] }]
           G == [f \in Interpretations |-> meet(f)]
<1>1. ASSUME NEW f \in Interpretations, Consequences(R, f) = f
      PROVE  meet(f) = f
  <2>1. f \in above(f)
    BY <1>1 DEF Below
  <2>2. f \in [Preds -> SUBSET AllTuples]
    BY DEF Interpretations, AllTuples
  <2>3. ASSUME NEW p \in Preds
        PROVE  { t \in AllTuples : \A F \in above(f) : t \in F[p] } = f[p]
    <3>1. \A F \in above(f) : f[p] \subseteq F[p]
      BY DEF Below
    <3> HIDE DEF above
    <3> QED
      BY <2>1, <2>2, <3>1
  <2> HIDE DEF above
  <2> QED
    BY <2>2, <2>3
<1>2. ASSUME NEW f \in Interpretations
      PROVE  above(Consequences(R, f)) = above(f)
  BY BelowNext
<1>3. ASSUME NEW f \in Interpretations
      PROVE  meet(Consequences(R, f)) = meet(f)
  <2> HIDE DEF above
  <2> QED
    BY <1>2
<1> HIDE DEF meet
<1>4. ASSUME NEW f \in Interpretations
      PROVE  G[f] = LET next == Consequences(R, f) IN IF next = f THEN f ELSE G[next]
  <2>1. Consequences(R, f) \in Interpretations
    BY ConsequencesGrow
  <2> QED
    BY <1>1, <1>3, <2>1
<1>5. G = [f \in Interpretations |-> G[f]]
  OBVIOUS
<1> HIDE DEF G
<1>6. G = [facts \in Interpretations |->
            LET next == Consequences(R, facts) IN IF next = facts THEN facts ELSE G[next]]
  BY <1>4, <1>5, Zenon
<1> QED
  BY <1>6, Zenon

\* What is missing from an interpretation.
Missing(f) == { x \in Preds \X AllTuples : x[2] \notin f[x[1]] }

LEMMA MissingShrinks ==
  ASSUME NEW f \in Interpretations, NEW g \in Interpretations, Below(f, g), f # g
  PROVE  /\ Cardinality(Missing(f)) \in Nat /\ Cardinality(Missing(g)) \in Nat
         /\ Cardinality(Missing(g)) < Cardinality(Missing(f))
<1>1. IsFiniteSet(Preds \X AllTuples)
  BY PredicateAssumption, AllTuplesFinite, FS_Product
<1>2. IsFiniteSet(Missing(f)) /\ IsFiniteSet(Missing(g))
  <2>1. Missing(f) \in SUBSET (Preds \X AllTuples) /\ Missing(g) \in SUBSET (Preds \X AllTuples)
    BY DEF Missing
  <2> QED
    BY <1>1, <2>1, FS_Subset
<1>3. f \in [Preds -> SUBSET AllTuples] /\ g \in [Preds -> SUBSET AllTuples]
  BY DEF Interpretations, AllTuples
<1>4. Missing(g) \in SUBSET Missing(f)
  BY DEF Missing, Below
<1>5. PICK p \in Preds : f[p] # g[p]
  BY <1>3
<1>6. PICK t \in g[p] : t \notin f[p]
  BY <1>5 DEF Below
<1>7. Missing(g) # Missing(f)
  <2> DEFINE x == <<p, t>>
  <2>1. x \in Preds \X AllTuples /\ x[1] = p /\ x[2] = t
    BY <1>3, <1>6
  <2>2. x \in Missing(f) /\ x \notin Missing(g)
    <3> HIDE DEF x
    <3> QED
      BY <1>6, <2>1 DEF Missing
  <2> QED
    BY <2>2
<1>8. /\ Cardinality(Missing(f)) \in Nat /\ Cardinality(Missing(g)) \in Nat
  BY <1>2, FS_CardinalityType
<1>9. /\ Cardinality(Missing(g)) <= Cardinality(Missing(f))
      /\ Cardinality(Missing(f)) = Cardinality(Missing(g)) => Missing(f) = Missing(g)
  BY <1>2, <1>4, FS_Subset
<1> QED
  BY <1>7, <1>8, <1>9

\* Whatever solves the recursion of LeastModel yields least models.
LEMMA GrowthIsLeast ==
  ASSUME NEW R \in SafeRules, NEW G,
         \A f \in Interpretations : G[f] = IF Consequences(R, f) = f THEN f ELSE G[Consequences(R, f)]
  PROVE  \A f \in Interpretations : IsLeastModel(R, f, G[f])
<1> DEFINE bad == { f \in Interpretations : ~IsLeastModel(R, f, G[f]) }
           sizes == { n \in Nat : \E f \in bad : n = Cardinality(Missing(f)) }
<1>1. SUFFICES ASSUME bad # {} PROVE FALSE
  OBVIOUS
<1>2. \A f \in bad : Cardinality(Missing(f)) \in Nat
  <2> TAKE f \in bad
  <2>1. Missing(f) \in SUBSET (Preds \X AllTuples)
    BY DEF Missing
  <2>2. IsFiniteSet(Preds \X AllTuples)
    BY PredicateAssumption, AllTuplesFinite, FS_Product
  <2> QED
    BY <2>1, <2>2, FS_Subset, FS_CardinalityType
<1>3. sizes # {} /\ sizes \in SUBSET Nat
  BY <1>1, <1>2
<1>4. PICK m \in sizes : \A k \in sizes : m <= k
  BY <1>3, LeastNumber
<1>5. PICK f \in bad : m = Cardinality(Missing(f))
  BY <1>4
<1> DEFINE next == Consequences(R, f)
<1>6. f \in Interpretations /\ ~IsLeastModel(R, f, G[f])
  BY <1>5
<1>7. next \in Interpretations /\ Below(f, next)
  BY <1>6, ConsequencesGrow
<1>8. next # f
  <2>1. SUFFICES ASSUME next = f PROVE FALSE
    OBVIOUS
  <2>2. G[f] = f
    BY <1>6, <2>1
  <2>3. IsLeastModel(R, f, f)
    BY <1>6, <2>1 DEF IsLeastModel, Below
  <2> QED
    BY <1>6, <2>2, <2>3
<1>9. G[f] = G[next]
  BY <1>6, <1>8
<1>10. next \notin bad
  <2>1. SUFFICES ASSUME next \in bad PROVE FALSE
    OBVIOUS
  <2>2. Cardinality(Missing(next)) < m /\ m \in Nat /\ Cardinality(Missing(next)) \in Nat
    BY <1>3, <1>5, <1>6, <1>7, <1>8, MissingShrinks
  <2>3. Cardinality(Missing(next)) \in sizes
    BY <2>1, <2>2
  <2> QED
    BY <1>4, <2>2, <2>3
<1>11. IsLeastModel(R, next, G[next])
  BY <1>7, <1>10
<1> HIDE DEF next, bad
<1>12. IsLeastModel(R, f, G[next])
  <2>1. \A F \in Interpretations : Consequences(R, F) = F => (Below(f, F) <=> Below(next, F))
    BY <1>6, BelowNext DEF next
  <2> QED
    BY <1>11, <2>1 DEF IsLeastModel
<1> QED
  BY <1>6, <1>9, <1>12

\* The database as an interpretation.
Given(D) == [p \in Preds |-> IF p \in EDBPreds THEN D[p] ELSE {}]

\* LeastModel is what its name says.
LEMMA LeastModelFacts ==
  ASSUME NEW P \in Programs, NEW D \in Databases
  PROVE  IsLeastModel(P, Given(D), LeastModel(P, D)) /\ Given(D) \in Interpretations
<1>1. P \in SafeRules
  BY ProgramsAreSafe
<1> DEFINE rec(G) == G = [facts \in Interpretations |->
                            LET next == Consequences(P, facts) IN IF next = facts THEN facts ELSE G[next]]
           grow == CHOOSE G : rec(G)
<1>2. \E G : rec(G)
  BY <1>1, GrowthExists
<1>3. rec(grow)
  BY <1>2
<1>4. LeastModel(P, D) = grow[Given(D)]
  BY DEF LeastModel, Given
<1> HIDE DEF grow
<1>5. \A f \in Interpretations : grow[f] = IF Consequences(P, f) = f THEN f ELSE grow[Consequences(P, f)]
  BY <1>3, Zenon
<1>6. Given(D) \in Interpretations
  <2>1. \A p \in Preds : p \in EDBPreds => D[p] \subseteq AllTuples
    BY DatabaseAssumption, AllTuplesFinite
  <2>2. Given(D) \in [Preds -> SUBSET AllTuples]
    BY <2>1 DEF Given
  <2> QED
    BY <2>2 DEF Interpretations, AllTuples
<1>7. \A f \in Interpretations : IsLeastModel(P, f, grow[f])
  BY <1>1, <1>5, GrowthIsLeast
<1> QED
  BY <1>4, <1>6, <1>7

-----------------------------------------------------------------------------
(* Adorned rules                                                           *)

\* The variables that a rule's head binds, and those known before its atom j.
BoundByHead(x) == { v \in Variables : \E i \in x.head.bound : x.head.args[i] = v }

Known(x, j) == BoundByHead(x) \cup UNION { VarsOf(x.body[k]) : k \in 1 .. j - 1 }

\* x is rule r, adorned with b.
Adorns(x, r, b) ==
  /\ x.head = [pred |-> r.head.pred, args |-> r.head.args, bound |-> b]
  /\ DOMAIN x.body = 1 .. Len(x.body) /\ Len(x.body) \in Nat \ {0} /\ Len(x.body) = Len(r.body)
  /\ \A j \in DOMAIN x.body :
       /\ IsLiteral(x.body[j])
       /\ \E l \in ToSet(r.body) : x.body[j].pred = l.pred /\ x.body[j].args = l.args
       /\ x.body[j].bound = { i \in DOMAIN x.body[j].args :
                                x.body[j].args[i] \in Known(x, j) \/ x.body[j].args[i] \notin Variables }
  /\ \A l \in ToSet(r.body) : \E j \in DOMAIN x.body : x.body[j].pred = l.pred /\ x.body[j].args = l.args

\* The body of x is that of rule r, in the order of the plan.
Planned(x, r, b) ==
  LET plan == BestPlan(r.body, BoundByHead(x))
  IN  /\ BoundByHead(x) = ToSet(Pick(r.head.args, b)) \cap Variables
      /\ plan \in Seq(DOMAIN r.body) /\ Len(plan) = Len(x.body) /\ DOMAIN plan = DOMAIN x.body
      /\ plan[1] = NextInPlan(r.body, BoundByHead(x), << >>)
      /\ \A j \in DOMAIN x.body : VarsOf(x.body[j]) = VarsOf(r.body[plan[j]])

LEMMA AdornmentFacts ==
  ASSUME NEW r \in AllRules, NEW b \in SUBSET DOMAIN r.head.args
  PROVE  Adorns(AdornedRule[<<r, b>>], r, b) /\ Planned(AdornedRule[<<r, b>>], r, b)
<1> DEFINE x == AdornedRule[<<r, b>>]
           bound == ToSet(Pick(r.head.args, b)) \cap Variables
           plan == BestPlan(r.body, bound)
           known(k) == bound \cup VarsIn(r.body, SubSeq(plan, 1, k - 1))
           Adorned(l, kn) == [pred |-> l.pred, args |-> l.args,
             bound |-> { i \in DOMAIN l.args : l.args[i] \in kn \/ l.args[i] \notin Variables }]
<1>1. r \in DatalogRules /\ Len(r.body) > 0
  <2>1. PICK P \in Programs : r \in ToSet(P)
    BY DEF AllRules
  <2> QED
    BY <2>1, ProgramsAreSafe
<1>2. r.head \in Literals /\ r.body \in Seq(Literals)
  BY <1>1 DEF DatalogRules
<1>3. x = CreateAdornment(r, b)
  <2> DEFINE rb == <<r, b>>
  <2>1. rb \in UNION { {q} \X (SUBSET DOMAIN q.head.args) : q \in AllRules }
    OBVIOUS
  <2>2. rb[1] = r /\ rb[2] = b
    OBVIOUS
  <2> HIDE DEF rb
  <2>3. AdornedRule[rb] = CreateAdornment(rb[1], rb[2])
    BY <2>1 DEF AdornedRule
  <2> QED
    BY <2>2, <2>3 DEF rb
<1>4. /\ plan \in Seq(DOMAIN r.body) /\ Len(plan) = Len(r.body) /\ ToSet(plan) = DOMAIN r.body
      /\ Len(r.body) > 0 => plan[1] = NextInPlan(r.body, bound, << >>)
  <2> HIDE DEF bound
  <2> QED
    BY <1>2, BestPlanFacts
<1>5. x = [head |-> [pred |-> r.head.pred, args |-> r.head.args, bound |-> b],
           body |-> [k \in DOMAIN plan |-> Adorned(r.body[plan[k]], known(k))]]
  BY <1>3 DEF CreateAdornment
<1> HIDE DEF x, plan
<1>6. /\ x.head = [pred |-> r.head.pred, args |-> r.head.args, bound |-> b]
      /\ x.body = [k \in DOMAIN plan |-> Adorned(r.body[plan[k]], known(k))]
  BY <1>5
<1>7. DOMAIN plan = 1 .. Len(r.body) /\ Len(r.body) \in Nat
  BY <1>2, <1>4
<1>8. DOMAIN x.body = 1 .. Len(r.body) /\ Len(x.body) = Len(r.body)
  <2> DEFINE n == Len(r.body)
             xb == x.body
  <2>1. DOMAIN xb = 1 .. n /\ n \in Nat
    BY <1>6, <1>7
  <2> HIDE DEF n, xb
  <2>2. Len(xb) = n
    BY <2>1
  <2> QED
    BY <2>1, <2>2 DEF n, xb
<1> HIDE DEF known, Adorned
<1>9. \A k \in DOMAIN x.body : /\ x.body[k] = Adorned(r.body[plan[k]], known(k))
                               /\ plan[k] \in DOMAIN r.body
  BY <1>4, <1>6, <1>7, <1>8
<1>10. ASSUME NEW k \in DOMAIN x.body
       PROVE  /\ x.body[k].pred = r.body[plan[k]].pred /\ x.body[k].args = r.body[plan[k]].args
              /\ x.body[k].bound = { i \in DOMAIN x.body[k].args :
                   x.body[k].args[i] \in known(k) \/ x.body[k].args[i] \notin Variables }
              /\ VarsOf(x.body[k]) = VarsOf(r.body[plan[k]])
              /\ r.body[plan[k]] \in ToSet(r.body) /\ r.body[plan[k]] \in Literals
  <2> DEFINE l == r.body[plan[k]]
  <2>1. l \in ToSet(r.body) /\ l \in Literals
    BY <1>2, <1>9 DEF ToSet
  <2>2. x.body[k] = Adorned(l, known(k))
    BY <1>9
  <2> HIDE DEF l
  <2>3. /\ x.body[k].pred = l.pred /\ x.body[k].args = l.args
        /\ x.body[k].bound = { i \in DOMAIN l.args : l.args[i] \in known(k) \/ l.args[i] \notin Variables }
    BY <2>2 DEF Adorned
  <2>4. VarsOf(x.body[k]) = VarsOf(l)
    BY <2>3 DEF VarsOf
  <2> QED
    BY <2>1, <2>3, <2>4 DEF l
<1>11. bound = BoundByHead(x)
  <2>1. r.head.args \in Seq(Terms)
    BY <1>2, LiteralsAreLiterals, LiteralFacts
  <2>2. Picked(Terms, r.head.args, b)
    BY <2>1, PickFacts
  <2>3. \A v : v \in ToSet(Pick(r.head.args, b)) <=> \E i \in b : v = r.head.args[i]
    BY <2>2 DEF Picked
  <2>4. x.head.args = r.head.args /\ x.head.bound = b
    BY <1>6
  <2> QED
    BY <2>3, <2>4 DEF BoundByHead
<1>12. ASSUME NEW k \in DOMAIN x.body
       PROVE  known(k) = Known(x, k)
  <2>1. ToSet(SubSeq(plan, 1, k - 1)) = { plan[m] : m \in 1 .. k - 1 }
    <3> DEFINE sub == SubSeq(plan, 1, k - 1)
    <3>1. k \in Nat /\ k - 1 <= Len(plan) /\ k >= 1 /\ Len(plan) \in Nat
      BY <1>4, <1>7, <1>8
    <3>2. DOMAIN sub = 1 .. k - 1 /\ \A m \in 1 .. k - 1 : sub[m] = plan[m]
      BY <1>4, <3>1
    <3> HIDE DEF sub
    <3> QED
      BY <3>2 DEF ToSet, sub
  <2>2. VarsIn(r.body, SubSeq(plan, 1, k - 1)) = UNION { VarsOf(x.body[m]) : m \in 1 .. k - 1 }
    <3>1. \A m \in 1 .. k - 1 : m \in DOMAIN x.body
      BY <1>7, <1>8
    <3>2. \A m \in 1 .. k - 1 : VarsOf(x.body[m]) = VarsOf(r.body[plan[m]])
      BY <1>10, <3>1
    <3> QED
      BY <2>1, <3>2 DEF VarsIn
  <2> QED
    BY <1>11, <2>2 DEF known, Known
<1>13. ASSUME NEW l \in ToSet(r.body)
       PROVE  \E j \in DOMAIN x.body : x.body[j].pred = l.pred /\ x.body[j].args = l.args
  <2>1. PICK i \in DOMAIN r.body : l = r.body[i]
    BY DEF ToSet
  <2>2. PICK j \in DOMAIN plan : plan[j] = i
    BY <1>4 DEF ToSet
  <2>3. j \in DOMAIN x.body
    BY <1>7, <1>8
  <2> QED
    BY <1>10, <2>1, <2>2, <2>3
<1>14. ASSUME NEW j \in DOMAIN x.body
       PROVE  IsLiteral(x.body[j])
  BY <1>10, LiteralsAreLiterals DEF IsLiteral
<1>15. DOMAIN x.body = 1 .. Len(x.body) /\ Len(x.body) \in Nat \ {0}
  BY <1>1, <1>7, <1>8
<1>16. ASSUME NEW j \in DOMAIN x.body
       PROVE  x.body[j].bound = { i \in DOMAIN x.body[j].args :
                                    x.body[j].args[i] \in Known(x, j) \/ x.body[j].args[i] \notin Variables }
  BY <1>10, <1>12
<1>17. ASSUME NEW j \in DOMAIN x.body
       PROVE  \E l \in ToSet(r.body) : x.body[j].pred = l.pred /\ x.body[j].args = l.args
  BY <1>10
<1>18. Adorns(x, r, b)
  BY <1>6, <1>8, <1>13, <1>14, <1>15, <1>16, <1>17 DEF Adorns
<1>19. plan = BestPlan(r.body, BoundByHead(x)) /\ bound = BoundByHead(x)
  BY <1>11 DEF plan
<1> HIDE DEF bound
<1>20. plan[1] = NextInPlan(r.body, BoundByHead(x), << >>)
  BY <1>1, <1>4, <1>19
<1>21. BoundByHead(x) = ToSet(Pick(r.head.args, b)) \cap Variables
  BY <1>19 DEF bound
<1>22. Planned(x, r, b)
  <2>1. Len(plan) = Len(x.body) /\ DOMAIN plan = DOMAIN x.body
    BY <1>4, <1>7, <1>8
  <2> QED
    BY <1>4, <1>10, <1>19, <1>20, <1>21, <2>1, Zenon DEF Planned
<1> QED
  BY <1>18, <1>22 DEF x

\* The columns that KeptColumns keeps: each is there, and what is needed is kept.
Keeps(x, j, sig, kept) ==
  /\ kept \in Seq(1 .. Len(VarSeq(x.body[j])) + Len(sig))
  /\ \A v \in ToSet(VarSeq(x.body[j])) \cup ToSet(sig) : NeededAfter(x, j, v) =>
       \E k \in DOMAIN kept : (VarSeq(x.body[j]) \o sig)[kept[k]] = v

LEMMA KeptFacts ==
  ASSUME NEW x, NEW j, VarSeq(x.body[j]) \in Seq(Variables), NEW sig \in Seq(Variables)
  PROVE  Keeps(x, j, sig, KeptColumns(x, j, sig))
<1> DEFINE occ == VarSeq(x.body[j])
           A == { i \in DOMAIN occ : NeededAfter(x, j, occ[i]) }
           S == { i \in DOMAIN sig : /\ sig[i] \notin ToSet(occ) /\ NeededAfter(x, j, sig[i])
                                     /\ FirstIndex(sig[i], sig) = i }
           fromAtom == Increasing(Len(occ), A)
           fromSig == Increasing(Len(sig), S)
           shifted == [i \in DOMAIN fromSig |-> Len(occ) + fromSig[i]]
           kept == fromAtom \o shifted
           n == Len(occ) + Len(sig)
           V == 1 .. n
<1>1. KeptColumns(x, j, sig) = kept
  BY DEF KeptColumns
<1>2. Len(occ) \in Nat /\ Len(sig) \in Nat /\ DOMAIN occ = 1 .. Len(occ) /\ DOMAIN sig = 1 .. Len(sig)
  OBVIOUS
<1>3. occ \in Seq(Variables)
  OBVIOUS
<1> HIDE DEF A, S, occ
<1>4. fromAtom \in Seq(1 .. Len(occ)) /\ ToSet(fromAtom) = A \cap 1 .. Len(occ)
  BY <1>2, IncreasingFacts
<1>5. fromSig \in Seq(1 .. Len(sig)) /\ ToSet(fromSig) = S \cap 1 .. Len(sig)
  BY <1>2, IncreasingFacts
<1> HIDE DEF fromAtom, fromSig
<1>6. shifted \in Seq(1 .. n) /\ Len(shifted) = Len(fromSig) /\ DOMAIN shifted = DOMAIN fromSig
  <2>1. DOMAIN fromSig = 1 .. Len(fromSig) /\ Len(fromSig) \in Nat
    BY <1>5
  <2>2. \A i \in DOMAIN fromSig : Len(occ) + fromSig[i] \in 1 .. n
    BY <1>2, <1>5
  <2>3. shifted \in [1 .. Len(fromSig) -> 1 .. n]
    BY <2>1, <2>2
  <2>4. shifted \in [1 .. Len(fromSig) -> V]
    BY <2>3
  <2> HIDE DEF V, shifted
  <2>5. shifted \in Seq(V) /\ Len(shifted) = Len(fromSig)
    BY <2>1, <2>4
  <2>6. DOMAIN shifted = DOMAIN fromSig
    BY <2>1, <2>4
  <2> QED
    BY <2>5, <2>6 DEF V
<1>7. fromAtom \in Seq(1 .. n)
  <2>1. DOMAIN fromAtom = 1 .. Len(fromAtom) /\ Len(fromAtom) \in Nat
    BY <1>4
  <2>2. \A i \in DOMAIN fromAtom : fromAtom[i] \in 1 .. n
    BY <1>2, <1>4
  <2>3. \A i \in DOMAIN fromAtom : fromAtom[i] \in V
    BY <2>2
  <2>4. fromAtom \in [1 .. Len(fromAtom) -> 1 .. Len(occ)]
    BY <1>4
  <2> HIDE DEF V
  <2>5. fromAtom \in [1 .. Len(fromAtom) -> V]
    BY <2>1, <2>3, <2>4
  <2>6. fromAtom \in Seq(V)
    BY <2>1, <2>5
  <2> QED
    BY <2>6 DEF V
<1>8. kept \in Seq(1 .. n)
  <2> HIDE DEF shifted, n
  <2> QED
    BY <1>6, <1>7
<1>9. ASSUME NEW v \in ToSet(occ), NeededAfter(x, j, v)
      PROVE  \E k \in DOMAIN kept : (occ \o sig)[kept[k]] = v
  <2>1. PICK i \in DOMAIN occ : occ[i] = v
    BY DEF ToSet
  <2>2. i \in A \cap 1 .. Len(occ)
    BY <1>2, <1>9, <2>1 DEF A
  <2>3. PICK k \in DOMAIN fromAtom : fromAtom[k] = i
    BY <1>4, <2>2 DEF ToSet
  <2>4. k \in DOMAIN kept /\ kept[k] = i
    <3> HIDE DEF shifted
    <3> QED
      BY <1>4, <1>6, <2>3
  <2>5. (occ \o sig)[i] = occ[i]
    BY <1>2, <1>3, <2>1
  <2> QED
    BY <2>1, <2>4, <2>5
<1>10. ASSUME NEW v \in ToSet(sig), v \notin ToSet(occ), NeededAfter(x, j, v)
       PROVE  \E k \in DOMAIN kept : (occ \o sig)[kept[k]] = v
  <2> DEFINE i == FirstIndex(v, sig)
  <2>1. i \in DOMAIN sig /\ sig[i] = v
    BY FirstIndexFacts
  <2>2. FirstIndex(sig[i], sig) = i
    BY <2>1
  <2> HIDE DEF i
  <2>3. i \in S \cap 1 .. Len(sig)
    BY <1>2, <1>10, <2>1, <2>2 DEF S
  <2>4. PICK m \in DOMAIN fromSig : fromSig[m] = i
    BY <1>5, <2>3 DEF ToSet
  <2>5. shifted[m] = Len(occ) + i /\ m \in DOMAIN shifted
    BY <1>6, <2>4
  <2>6. Len(fromAtom) + m \in DOMAIN kept /\ kept[Len(fromAtom) + m] = Len(occ) + i
    <3>1. m \in 1 .. Len(shifted) /\ Len(fromAtom) \in Nat /\ Len(shifted) \in Nat
      BY <1>4, <1>6, <2>5
    <3> HIDE DEF shifted
    <3> QED
      BY <1>6, <1>7, <2>5, <3>1
  <2>7. (occ \o sig)[Len(occ) + i] = sig[i]
    BY <1>2, <1>3, <2>1
  <2> QED
    BY <2>1, <2>6, <2>7
<1>11. Keeps(x, j, sig, kept)
  <2> HIDE DEF kept
  <2> QED
    BY <1>8, <1>9, <1>10 DEF Keeps, occ
<1> QED
  BY <1>1, <1>11

\* What evaluating an adorned rule relies on.
IsRule(x) ==
  /\ IsLiteral(x.head) /\ x.head.bound \subseteq DOMAIN x.head.args
  /\ DOMAIN x.body = 1 .. Len(x.body) /\ Len(x.body) \in Nat \ {0}
  /\ \A j \in DOMAIN x.body :
       /\ IsLiteral(x.body[j]) /\ x.body[j].bound \subseteq DOMAIN x.body[j].args
       /\ ConstantPositions(x.body[j]) \subseteq x.body[j].bound
       /\ \A i \in x.body[j].bound : x.body[j].args[i] \in Known(x, j) \/ x.body[j].args[i] \notin Variables
  /\ VarsOf(x.head) \subseteq Known(x, Len(x.body) + 1)

LEMMA AdornedIsRule ==
  ASSUME NEW r \in AllRules, NEW b \in SUBSET DOMAIN r.head.args, NEW x, Adorns(x, r, b)
  PROVE  IsRule(x)
<1>1. PICK P \in Programs : r \in ToSet(P)
  BY DEF AllRules
<1>2. r \in DatalogRules /\ VarsOf(r.head) \subseteq UNION { VarsOf(l) : l \in ToSet(r.body) }
  BY <1>1, ProgramsAreSafe, RuleAssumption
<1>3. x.head.pred = r.head.pred /\ x.head.args = r.head.args /\ x.head.bound = b
  BY DEF Adorns
<1>4. IsLiteral(x.head)
  BY <1>2, <1>3, LiteralsAreLiterals DEF DatalogRules, IsLiteral
<1>5. VarsOf(x.head) = VarsOf(r.head)
  BY <1>3 DEF VarsOf
<1>6. VarsOf(x.head) \subseteq Known(x, Len(x.body) + 1)
  <2> SUFFICES ASSUME NEW v \in VarsOf(x.head) PROVE v \in Known(x, Len(x.body) + 1)
    OBVIOUS
  <2>1. PICK l \in ToSet(r.body) : v \in VarsOf(l)
    BY <1>2, <1>5
  <2>2. PICK j \in DOMAIN x.body : x.body[j].args = l.args
    BY DEF Adorns
  <2>3. v \in VarsOf(x.body[j])
    BY <2>1, <2>2 DEF VarsOf
  <2>4. j \in 1 .. (Len(x.body) + 1) - 1
    BY DEF Adorns
  <2> QED
    BY <2>3, <2>4 DEF Known
<1>7. DOMAIN x.body = 1 .. Len(x.body) /\ Len(x.body) \in Nat \ {0}
  BY DEF Adorns
<1>8. ASSUME NEW j \in DOMAIN x.body
      PROVE  /\ IsLiteral(x.body[j]) /\ x.body[j].bound \subseteq DOMAIN x.body[j].args
             /\ ConstantPositions(x.body[j]) \subseteq x.body[j].bound
             /\ \A i \in x.body[j].bound : x.body[j].args[i] \in Known(x, j) \/ x.body[j].args[i] \notin Variables
  <2>1. IsLiteral(x.body[j])
    BY DEF Adorns
  <2>2. x.body[j].bound = { i \in DOMAIN x.body[j].args :
                              x.body[j].args[i] \in Known(x, j) \/ x.body[j].args[i] \notin Variables }
    BY DEF Adorns
  <2> QED
    BY <2>1, <2>2 DEF ConstantPositions
<1> QED
  BY <1>3, <1>4, <1>6, <1>7, <1>8 DEF IsRule

\* The variables of the supplementary relation after atom j.
NextSignature(x, j, last) ==
  [k \in DOMAIN KeptColumns(x, j, last) |-> (VarSeq(x.body[j]) \o last)[KeptColumns(x, j, last)[k]]]

LEMMA NextSignatureType ==
  ASSUME NEW x, NEW j, VarSeq(x.body[j]) \in Seq(Variables), NEW last \in Seq(Variables)
  PROVE  NextSignature(x, j, last) \in Seq(Variables)
<1> DEFINE kept == KeptColumns(x, j, last)
           n == Len(VarSeq(x.body[j])) + Len(last)
           V == 1 .. n
           both == VarSeq(x.body[j]) \o last
<1>1. kept \in Seq(V)
  BY KeptFacts DEF Keeps
<1>2. both \in Seq(Variables) /\ DOMAIN both = V
  OBVIOUS
<1>3. NextSignature(x, j, last) = [k \in DOMAIN kept |-> both[kept[k]]]
  BY DEF NextSignature
<1> HIDE DEF kept, both, V
<1>4. DOMAIN kept = 1 .. Len(kept) /\ Len(kept) \in Nat /\ \A k \in DOMAIN kept : kept[k] \in V
  BY <1>1
<1>5. \A k \in DOMAIN kept : both[kept[k]] \in Variables
  BY <1>2, <1>4
<1>6. NextSignature(x, j, last) \in [1 .. Len(kept) -> Variables]
  BY <1>3, <1>4, <1>5
<1> QED
  BY <1>4, <1>6

Signed(x, sig) ==
  /\ DOMAIN sig = 1 .. Len(x.body) + 1
  /\ \A j \in 1 .. Len(x.body) + 1 :
       /\ sig[j] \in Seq(Variables)
       /\ ToSet(sig[j]) \subseteq Known(x, j)
       /\ \A v \in Known(x, j) : NeededAfter(x, j - 1, v) => v \in ToSet(sig[j])
  /\ \A j \in 1 .. Len(x.body) : sig[j + 1] = NextSignature(x, j, sig[j])
  /\ sig[1] = Distinct(Pick(x.head.args, x.head.bound \ ConstantPositions(x.head)))

\* How the signatures are computed, as one function.
LEMMA SignatureSteps ==
  ASSUME NEW x, IsRule(x)
  PROVE  LET sig == Signatures(x) IN
         /\ DOMAIN sig = 1 .. Len(x.body) + 1
         /\ \A j \in 1 .. Len(x.body) + 1 : sig[j] \in Seq(Variables)
         /\ \A j \in 1 .. Len(x.body) : sig[j + 1] = NextSignature(x, j, sig[j])
         /\ sig[1] = Distinct(Pick(x.head.args, x.head.bound \ ConstantPositions(x.head)))
         /\ ToSet(sig[1]) = BoundByHead(x)
<1> DEFINE n == Len(x.body)
           T == Seq(Variables)
           P == x.head.bound \ ConstantPositions(x.head)
           base == Distinct(Pick(x.head.args, P))
           step == [p \in (1 .. n) \X T |-> NextSignature(x, p[1], p[2])]
           rec(G) == G = [j \in 0 .. n |-> IF j = 0 THEN base
                            ELSE LET last == G[j - 1]
                                     kept == KeptColumns(x, j, last)
                                 IN  [k \in DOMAIN kept |-> (VarSeq(x.body[j]) \o last)[kept[k]]]]
           s == CHOOSE G : rec(G)
<1>1. n \in Nat /\ \A j \in 1 .. n : VarSeq(x.body[j]) \in T
  BY LiteralFacts DEF IsRule
<1>2. base \in T /\ ToSet(base) = BoundByHead(x)
  <2>1. x.head.args \in Seq(Terms)
    BY LiteralFacts DEF IsRule
  <2>2. Picked(Terms, x.head.args, P)
    <3> HIDE DEF P
    <3> QED
      BY <2>1, PickFacts
  <2>3. \A i \in P : i \in DOMAIN x.head.args /\ x.head.args[i] \in Variables
    BY DEF ConstantPositions, IsRule
  <2> DEFINE pick == Pick(x.head.args, P)
  <2>4. pick \in Seq(Terms) /\ \A v : v \in ToSet(pick) <=> \E i \in P : v = x.head.args[i]
    <3> HIDE DEF P
    <3> QED
      BY <2>2, <2>3 DEF Picked
  <2> HIDE DEF pick
  <2>5. \A k \in DOMAIN pick : pick[k] \in Variables
    BY <2>3, <2>4 DEF ToSet
  <2>6. pick \in Seq(Variables)
    BY <2>4, <2>5
  <2>7. Distinct(pick) \in Seq(Variables) /\ ToSet(Distinct(pick)) = ToSet(pick)
    BY <2>6, DistinctFacts
  <2>8. \A v \in Variables : (\E i \in P : v = x.head.args[i]) <=> (\E i \in x.head.bound : x.head.args[i] = v)
    BY DEF ConstantPositions, IsRule
  <2>9. \A v : v \in ToSet(pick) <=> v \in BoundByHead(x)
    BY <2>3, <2>4, <2>8 DEF BoundByHead
  <2> QED
    BY <2>7, <2>9 DEF pick
<1>3. step \in [(1 .. n) \X T -> T]
  <2> SUFFICES ASSUME NEW p \in (1 .. n) \X T
               PROVE  NextSignature(x, p[1], p[2]) \in T
    OBVIOUS
  <2>1. p[1] \in 1 .. n /\ p[2] \in T
    OBVIOUS
  <2> QED
    BY <1>1, <2>1, NextSignatureType
<1> HIDE DEF base, T, step, n
<1>4. PICK G \in [0 .. n -> T] : Recurses(G, n, base, step)
  BY <1>1, <1>2, <1>3, RecursionExists
<1>5. \A j \in 0 .. n : G[j] = IF j = 0 THEN base ELSE NextSignature(x, j, G[j - 1])
  <2> TAKE j \in 0 .. n
  <2>1. G[j] = IF j = 0 THEN base ELSE step[<<j, G[j - 1]>>]
    BY <1>4 DEF Recurses
  <2>2. ASSUME j # 0 PROVE step[<<j, G[j - 1]>>] = NextSignature(x, j, G[j - 1])
    <3>1. j \in 1 .. n /\ j - 1 \in 0 .. n
      BY <1>1, <2>2
    <3>2. G[j - 1] \in T
      BY <1>4, <3>1
    <3> QED
      BY <3>1, <3>2 DEF step
  <2> QED
    BY <2>1, <2>2
<1>6. rec(G)
  <2>1. \A j \in 0 .. n : G[j] = IF j = 0 THEN base
          ELSE LET last == G[j - 1]
                   kept == KeptColumns(x, j, last)
               IN  [k \in DOMAIN kept |-> (VarSeq(x.body[j]) \o last)[kept[k]]]
    BY <1>5, Zenon DEF NextSignature
  <2>2. G = [j \in 0 .. n |-> G[j]]
    BY <1>4
  <2> QED
    BY <2>1, <2>2, Zenon
<1>7. rec(s)
  BY <1>6, Zenon
<1>8. Signatures(x) = [j \in 1 .. n + 1 |-> s[j - 1]]
  BY DEF Signatures, n, base
<1> HIDE DEF s
<1>9. \A j \in 0 .. n : s[j] = IF j = 0 THEN base ELSE NextSignature(x, j, s[j - 1])
  BY <1>7, Zenon DEF NextSignature
<1>10. s[0] = base /\ \A j \in 1 .. n : s[j] = NextSignature(x, j, s[j - 1])
  <2>1. 0 \in 0 .. n /\ \A j \in 1 .. n : j \in 0 .. n /\ j # 0
    BY <1>1
  <2> QED
    BY <1>9, <2>1, Zenon
<1>11. \A j \in 0 .. n : s[j] \in T
  <2> DEFINE good == { j \in 0 .. n : s[j] \in T }
  <2>1. 0 \in good
    BY <1>1, <1>2, <1>10
  <2>2. ASSUME NEW j \in 1 .. n, j - 1 \in good PROVE j \in good
    <3>1. s[j - 1] \in T /\ s[j] = NextSignature(x, j, s[j - 1]) /\ j \in 0 .. n
      BY <1>1, <1>10, <2>2
    <3> QED
      BY <1>1, <3>1, NextSignatureType DEF T
  <2>3. 0 .. n \subseteq good
    <3> HIDE DEF good
    <3> QED
      BY <1>1, <2>1, <2>2, UpTo
  <2> QED
    BY <2>3
<1>12. \A j \in 1 .. n + 1 : j - 1 \in 0 .. n /\ Signatures(x)[j] = s[j - 1]
  BY <1>1, <1>8
<1>13. \A j \in 1 .. n : j \in 1 .. n + 1 /\ j + 1 \in 1 .. n + 1 /\ (j + 1) - 1 = j
  BY <1>1
<1>14. \A j \in 1 .. n : Signatures(x)[j + 1] = NextSignature(x, j, Signatures(x)[j])
  <2> TAKE j \in 1 .. n
  <2>1. Signatures(x)[j + 1] = s[j] /\ Signatures(x)[j] = s[j - 1]
    BY <1>12, <1>13
  <2> QED
    BY <1>10, <2>1
<1>15. Signatures(x)[1] = base
  <2>1. 1 \in 1 .. n + 1 /\ 1 - 1 = 0
    BY <1>1
  <2> QED
    BY <1>10, <1>12, <2>1
<1>16. DOMAIN Signatures(x) = 1 .. n + 1 /\ \A j \in 1 .. n + 1 : Signatures(x)[j] \in T
  BY <1>8, <1>11, <1>12
<1> QED
  BY <1>2, <1>14, <1>15, <1>16 DEF n, T, base, P

\* A variable is needed before atom j if it is needed after it, or is in it.
LEMMA NeededBefore ==
  ASSUME NEW x, IsRule(x), NEW j \in 1 .. Len(x.body), NEW v
  PROVE  NeededAfter(x, j - 1, v) <=> NeededAfter(x, j, v) \/ v \in VarsOf(x.body[j])
<1>1. Len(x.body) \in Nat
  BY DEF IsRule
<1>2. (j - 1) + 1 .. Len(x.body) = {j} \cup (j + 1 .. Len(x.body))
  BY <1>1
<1> QED
  BY <1>2 DEF NeededAfter

\* A signature has known variables only, and those that are still needed.
LEMMA SignatureFacts ==
  ASSUME NEW x, IsRule(x)
  PROVE  Signed(x, Signatures(x))
<1> DEFINE n == Len(x.body)
           sig == Signatures(x)
           covers(j) == /\ ToSet(sig[j]) \subseteq Known(x, j)
                        /\ \A v \in Known(x, j) : NeededAfter(x, j - 1, v) => v \in ToSet(sig[j])
           good == { i \in 0 .. n : covers(i + 1) }
<1>1. n \in Nat /\ \A j \in 1 .. n : IsLiteral(x.body[j])
  BY DEF IsRule
<1>2. /\ DOMAIN sig = 1 .. n + 1
      /\ \A j \in 1 .. n + 1 : sig[j] \in Seq(Variables)
      /\ \A j \in 1 .. n : sig[j + 1] = NextSignature(x, j, sig[j])
      /\ sig[1] = Distinct(Pick(x.head.args, x.head.bound \ ConstantPositions(x.head)))
      /\ ToSet(sig[1]) = BoundByHead(x)
  BY SignatureSteps
<1> HIDE DEF sig
<1>3. covers(1)
  <2>1. Known(x, 1) = BoundByHead(x)
    <3>1. 1 .. 1 - 1 = {}
      OBVIOUS
    <3> QED
      BY <3>1 DEF Known
  <2> QED
    BY <1>2, <2>1
<1>4. ASSUME NEW j \in 1 .. n, covers(j)
      PROVE  covers(j + 1)
  <2> DEFINE occ == VarSeq(x.body[j])
             kept == KeptColumns(x, j, sig[j])
             both == occ \o sig[j]
  <2>1. occ \in Seq(Variables) /\ ToSet(occ) = VarsOf(x.body[j])
    BY <1>1, LiteralFacts
  <2>2. sig[j] \in Seq(Variables)
    BY <1>1, <1>2
  <2>3. Keeps(x, j, sig[j], kept)
    BY <2>1, <2>2, KeptFacts
  <2>4. Known(x, j + 1) = Known(x, j) \cup VarsOf(x.body[j])
    <3>1. 1 .. (j + 1) - 1 = (1 .. j - 1) \cup {j}
      BY <1>1
    <3> QED
      BY <3>1 DEF Known
  <2>5. sig[j + 1] = [k \in DOMAIN kept |-> both[kept[k]]]
    BY <1>2 DEF NextSignature
  <2> DEFINE V == 1 .. Len(occ) + Len(sig[j])
  <2>6. both \in Seq(Variables) /\ DOMAIN both = V /\ \A i \in V : both[i] \in ToSet(occ) \cup ToSet(sig[j])
    <3> HIDE DEF occ
    <3>1. both \in Seq(Variables) /\ DOMAIN both = V
      BY <2>1, <2>2
    <3>2. ASSUME NEW i \in V PROVE both[i] \in ToSet(occ) \cup ToSet(sig[j])
      <4>1. Len(occ) \in Nat /\ Len(sig[j]) \in Nat
        BY <2>1, <2>2
      <4>2. CASE i <= Len(occ)
        BY <2>1, <2>2, <4>1, <4>2 DEF ToSet
      <4>3. CASE i > Len(occ)
        <5>1. both[i] = sig[j][i - Len(occ)] /\ i - Len(occ) \in DOMAIN sig[j]
          BY <2>1, <2>2, <4>1, <4>3
        <5> QED
          BY <5>1 DEF ToSet
      <4> QED
        BY <4>1, <4>2, <4>3
    <3> QED
      BY <3>1, <3>2
  <2>7. kept \in Seq(V)
    BY <2>3 DEF Keeps
  <2>8. \A v \in ToSet(occ) \cup ToSet(sig[j]) : NeededAfter(x, j, v) => \E k \in DOMAIN kept : both[kept[k]] = v
    BY <2>3 DEF Keeps
  <2> HIDE DEF occ, kept, both, V
  <2>9. \A k \in DOMAIN kept : kept[k] \in V
    BY <2>7
  <2>10. ToSet(sig[j + 1]) \subseteq Known(x, j + 1)
    BY <1>4, <2>1, <2>4, <2>5, <2>6, <2>9 DEF ToSet
  <2>11. ASSUME NEW v \in Known(x, j + 1), NeededAfter(x, (j + 1) - 1, v)
         PROVE  v \in ToSet(sig[j + 1])
    <3>1. (j + 1) - 1 = j
      OBVIOUS
    <3>2. NeededAfter(x, j, v)
      BY <2>11, <3>1
    <3>3. v \in ToSet(occ) \cup ToSet(sig[j])
      <4>1. NeededAfter(x, j - 1, v)
        BY <3>2, NeededBefore
      <4> QED
        BY <1>4, <2>1, <2>4, <4>1
    <3>4. PICK k \in DOMAIN kept : both[kept[k]] = v
      BY <2>8, <3>2, <3>3
    <3> QED
      BY <2>5, <3>4 DEF ToSet
  <2> QED
    BY <2>10, <2>11
<1>5. 0 .. n \subseteq good
  <2>1. 0 \in good
    <3>1. 0 + 1 = 1 /\ 0 \in 0 .. n
      BY <1>1
    <3> HIDE DEF covers
    <3> QED
      BY <1>3, <3>1
  <2>2. ASSUME NEW i \in 1 .. n, i - 1 \in good PROVE i \in good
    <3>1. (i - 1) + 1 = i /\ i \in 0 .. n
      BY <1>1
    <3> HIDE DEF covers
    <3>2. covers(i)
      BY <2>2, <3>1
    <3> QED
      BY <1>4, <3>1, <3>2
  <2> HIDE DEF good
  <2> QED
    BY <1>1, <2>1, <2>2, UpTo
<1>6. \A j \in 1 .. n + 1 : covers(j)
  <2> TAKE j \in 1 .. n + 1
  <2>1. j - 1 \in 0 .. n /\ (j - 1) + 1 = j
    BY <1>1
  <2> HIDE DEF covers
  <2> QED
    BY <1>5, <2>1
<1>7. Signed(x, sig)
  BY <1>2, <1>6 DEF Signed
<1> QED
  BY <1>7 DEF sig

-----------------------------------------------------------------------------
(* Rows                                                                    *)

LEMMA FunctionIsSequence ==
  ASSUME NEW n \in Nat, NEW S, NEW f \in [1 .. n -> S]
  PROVE  f \in Seq(S) /\ Len(f) = n
OBVIOUS

LEMMA ConcatenationAt ==
  ASSUME NEW S, NEW T, NEW p \in Seq(S), NEW q \in Seq(T), NEW i \in 1 .. Len(p) + Len(q)
  PROVE  /\ i <= Len(p) => i \in DOMAIN p /\ (p \o q)[i] = p[i]
         /\ i > Len(p) => i - Len(p) \in DOMAIN q /\ (p \o q)[i] = q[i - Len(p)]
OBVIOUS

IsExecutor(x) == IsRule(x) /\ Signed(x, x.sig)

\* The columns of a tuple that a literal has variables for.
LEMMA PickRow ==
  ASSUME NEW l, IsLiteral(l), NEW u \in Tuples(Arity[l.pred])
  PROVE  LET row == Pick(u, DOMAIN l.args \ ConstantPositions(l)) IN
         /\ row \in Tuples(Len(VarSeq(l)))
         /\ \A k \in DOMAIN VarSeq(l) : row[k] = u[ArgAt(l, k)]
<1> DEFINE P == DOMAIN l.args \ ConstantPositions(l)
           row == Pick(u, P)
<1>1. /\ Arity[l.pred] \in Nat /\ Len(l.args) = Arity[l.pred] /\ l.args \in Seq(Terms)
      /\ DOMAIN l.args = 1 .. Arity[l.pred]
  BY LiteralFacts
<1>2. u \in Seq(Values) /\ Len(u) = Len(l.args) /\ DOMAIN u = DOMAIN l.args
  BY <1>1 DEF Tuples
<1>3. VarSeq(l) = Pick(l.args, P)
  BY DEF VarSeq
<1>4. \A k : ArgAt(l, k) = Increasing(Len(l.args), P)[k]
  BY DEF ArgAt
<1> HIDE DEF P
<1>5. Picked(Terms, l.args, P) /\ Picked(Values, u, P)
  BY <1>1, <1>2, PickFacts
<1>6. row \in Seq(Values) /\ Len(row) = Cardinality(P \cap DOMAIN u)
  BY <1>5 DEF Picked
<1>7. VarSeq(l) \in Seq(Terms) /\ Len(VarSeq(l)) = Cardinality(P \cap DOMAIN l.args)
  BY <1>3, <1>5 DEF Picked
<1>8. DOMAIN row = DOMAIN VarSeq(l)
  BY <1>2, <1>6, <1>7
<1>9. \A k \in DOMAIN row : row[k] = u[ArgAt(l, k)]
  BY <1>2, <1>4, <1>5 DEF Picked
<1> HIDE DEF row
<1>10. row \in [1 .. Len(VarSeq(l)) -> Values]
  BY <1>2, <1>6, <1>7
<1> QED
  BY <1>8, <1>9, <1>10 DEF Tuples, row, P

\* The bound arguments of a literal.
LEMMA BoundArguments ==
  ASSUME NEW l, IsLiteral(l), NEW b \in SUBSET DOMAIN l.args
  PROVE  LET terms == Pick(l.args, b) IN
         /\ terms \in Seq(Terms) /\ Len(terms) = Cardinality(b) /\ DOMAIN terms = 1 .. Cardinality(b)
         /\ Cardinality(b) \in Nat
         /\ \A k \in DOMAIN terms : terms[k] \in Terms
         /\ \A k \in DOMAIN terms : \E i \in b : terms[k] = l.args[i]
         /\ \A i \in b : l.args[i] \in ToSet(terms)
<1>1. l.args \in Seq(Terms)
  BY LiteralFacts
<1>2. Picked(Terms, l.args, b)
  BY <1>1, PickFacts
<1>3. b \cap DOMAIN l.args = b
  OBVIOUS
<1> DEFINE terms == Pick(l.args, b)
<1>4. terms \in Seq(Terms) /\ Len(terms) = Cardinality(b)
  BY <1>2, <1>3 DEF Picked
<1>5. \A k \in DOMAIN terms : \E i \in b : terms[k] = l.args[i]
  BY <1>2, <1>3 DEF Picked
<1>6. \A i \in b : l.args[i] \in ToSet(terms)
  BY <1>2, <1>3 DEF Picked
<1> HIDE DEF terms
<1>7. Len(terms) \in Nat /\ DOMAIN terms = 1 .. Len(terms)
  BY <1>4
<1>8. \A k \in DOMAIN terms : terms[k] \in Terms
  BY <1>4
<1> QED
  BY <1>4, <1>5, <1>6, <1>7, <1>8 DEF terms

LEMMA PassedType ==
  ASSUME NEW x, IsExecutor(x), NEW j \in 1 .. Len(x.body), NEW rows \in SUBSET Tuples(Len(x.sig[j]))
  PROVE  Passed(x, j, rows) \subseteq Tuples(Cardinality(x.body[j].bound))
<1> DEFINE l == x.body[j]
           terms == Pick(l.args, l.bound)
           passed(row) == [k \in DOMAIN terms |-> IF terms[k] \in Variables THEN row[FirstIndex(terms[k], x.sig[j])]
                                                  ELSE terms[k]]
<1>1. /\ IsLiteral(l) /\ l.bound \in SUBSET DOMAIN l.args
      /\ \A i \in l.bound : l.args[i] \in Known(x, j) \/ l.args[i] \notin Variables
  BY DEF IsExecutor, IsRule
<1>2. j \in 1 .. Len(x.body) + 1 /\ j \in (j - 1) + 1 .. Len(x.body)
  BY DEF IsExecutor, IsRule
<1>3. /\ x.sig[j] \in Seq(Variables)
      /\ \A v \in Known(x, j) : NeededAfter(x, j - 1, v) => v \in ToSet(x.sig[j])
  BY <1>2 DEF IsExecutor, Signed
<1> HIDE DEF l
<1>4. /\ terms \in Seq(Terms) /\ DOMAIN terms = 1 .. Cardinality(l.bound)
      /\ \A k \in DOMAIN terms : terms[k] \in Terms
      /\ \A k \in DOMAIN terms : \E i \in l.bound : terms[k] = l.args[i]
  BY <1>1, BoundArguments
<1> HIDE DEF terms
<1>5. ASSUME NEW row \in rows
      PROVE  passed(row) \in Tuples(Cardinality(l.bound))
  <2>1. ASSUME NEW k \in DOMAIN terms
        PROVE  (IF terms[k] \in Variables THEN row[FirstIndex(terms[k], x.sig[j])] ELSE terms[k]) \in Values
    <3>1. terms[k] \in Terms
      BY <1>4
    <3>2. CASE terms[k] \in Variables
      <4>1. PICK i \in l.bound : terms[k] = l.args[i]
        BY <1>4
      <4>2. terms[k] \in Known(x, j)
        BY <1>1, <3>2, <4>1
      <4>3. terms[k] \in VarsOf(l)
        BY <1>1, <3>2, <4>1 DEF VarsOf, ToSet
      <4>4. terms[k] \in ToSet(x.sig[j])
        BY <1>2, <1>3, <4>2, <4>3 DEF NeededAfter, l
      <4>5. FirstIndex(terms[k], x.sig[j]) \in DOMAIN x.sig[j]
        BY <1>3, <4>4, FirstIndexFacts
      <4>6. row \in [1 .. Len(x.sig[j]) -> Values] /\ DOMAIN x.sig[j] = 1 .. Len(x.sig[j])
        BY <1>3 DEF Tuples
      <4> QED
        BY <3>2, <4>5, <4>6
    <3> QED
      BY <3>1, <3>2 DEF Terms
  <2> QED
    BY <1>4, <2>1 DEF Tuples
<1>6. Passed(x, j, rows) = { passed(row) : row \in rows }
  BY DEF Passed, terms, l
<1> HIDE DEF passed
<1> QED
  BY <1>5, <1>6 DEF l

LEMMA FirstRowsType ==
  ASSUME NEW x, IsExecutor(x), NEW tuples \in SUBSET Tuples(Cardinality(x.head.bound))
  PROVE  FirstRows(x, tuples) \subseteq Tuples(Len(x.sig[1]))
<1> DEFINE terms == Pick(x.head.args, x.head.bound)
           first(t) == [k \in DOMAIN x.sig[1] |-> t[FirstIndex(x.sig[1][k], terms)]]
<1>1. IsLiteral(x.head) /\ x.head.bound \in SUBSET DOMAIN x.head.args
  BY DEF IsExecutor, IsRule
<1>2. /\ terms \in Seq(Terms) /\ DOMAIN terms = 1 .. Cardinality(x.head.bound)
      /\ \A i \in x.head.bound : x.head.args[i] \in ToSet(terms)
  BY <1>1, BoundArguments
<1>3. x.sig[1] \in Seq(Variables) /\ ToSet(x.sig[1]) \subseteq Known(x, 1)
  <2>1. 1 \in 1 .. Len(x.body) + 1
    BY DEF IsExecutor, IsRule
  <2> QED
    BY <2>1 DEF IsExecutor, Signed
<1>4. Known(x, 1) = BoundByHead(x)
  <2>1. 1 .. 1 - 1 = {}
    OBVIOUS
  <2> QED
    BY <2>1 DEF Known
<1> HIDE DEF terms
<1>5. ASSUME NEW t \in tuples
      PROVE  first(t) \in Tuples(Len(x.sig[1]))
  <2>1. ASSUME NEW k \in DOMAIN x.sig[1]
        PROVE  t[FirstIndex(x.sig[1][k], terms)] \in Values
    <3>1. x.sig[1][k] \in BoundByHead(x)
      BY <1>3, <1>4 DEF ToSet
    <3>2. x.sig[1][k] \in ToSet(terms)
      BY <1>2, <3>1 DEF BoundByHead
    <3>3. FirstIndex(x.sig[1][k], terms) \in DOMAIN terms
      BY <1>2, <3>2, FirstIndexFacts
    <3> QED
      BY <1>2, <3>3 DEF Tuples
  <2> QED
    BY <1>3, <2>1 DEF Tuples
<1>6. \A t \in FirstRows(x, tuples) : \E u \in tuples : t = first(u)
  BY DEF FirstRows, terms
<1> HIDE DEF first
<1> QED
  BY <1>5, <1>6

\* What a join keeps of a row of an atom and one of the supplementary relation.
KeptOf(x, j, a, s) ==
  [k \in DOMAIN KeptColumns(x, j, x.sig[j]) |-> (a \o s)[KeptColumns(x, j, x.sig[j])[k]]]

JoinsTo(x, j, a, s, row) ==
  row = KeptOf(x, j, a, s) /\ \A ik \in Joins(x, j) : a[ik[1]] = s[ik[2]]

LEMMA JoinedRows ==
  ASSUME NEW x, IsExecutor(x), NEW j \in 1 .. Len(x.body),
         NEW rows \in SUBSET Tuples(Len(VarSeq(x.body[j]))), NEW suppl \in SUBSET Tuples(Len(x.sig[j]))
  PROVE  /\ Joined(x, j, rows, suppl) \subseteq Tuples(Len(x.sig[j + 1]))
         /\ \A row \in Joined(x, j, rows, suppl) : \E a \in rows, s \in suppl : JoinsTo(x, j, a, s, row)
<1> DEFINE kept == KeptColumns(x, j, x.sig[j])
           occ == VarSeq(x.body[j])
           V == 1 .. Len(occ) + Len(x.sig[j])
<1>1. occ \in Seq(Variables)
  BY LiteralFacts DEF IsExecutor, IsRule
<1>2. j \in 1 .. Len(x.body) + 1 /\ j + 1 \in 1 .. Len(x.body) + 1
  BY DEF IsExecutor, IsRule
<1>3. x.sig[j] \in Seq(Variables) /\ x.sig[j + 1] \in Seq(Variables) /\ x.sig[j + 1] = NextSignature(x, j, x.sig[j])
  BY <1>2 DEF IsExecutor, Signed
<1>4. kept \in Seq(V)
  BY <1>1, <1>3, KeptFacts DEF Keeps
<1>5. DOMAIN x.sig[j + 1] = DOMAIN kept
  BY <1>3 DEF NextSignature
<1>6. DOMAIN kept = 1 .. Len(x.sig[j + 1])
  BY <1>3, <1>5
<1>7. Len(occ) \in Nat /\ Len(x.sig[j]) \in Nat
  BY <1>1, <1>3
<1>8. \A row \in Joined(x, j, rows, suppl) : \E a \in rows, s \in suppl : JoinsTo(x, j, a, s, row)
  <2> TAKE row \in Joined(x, j, rows, suppl)
  <2> DEFINE pairs == { rs \in rows \X suppl : \A ik \in Joins(x, j) : rs[1][ik[1]] = rs[2][ik[2]] }
  <2>1. PICK rs \in pairs : row = [k \in DOMAIN kept |-> (rs[1] \o rs[2])[kept[k]]]
    BY DEF Joined
  <2>2. rs[1] \in rows /\ rs[2] \in suppl /\ \A ik \in Joins(x, j) : rs[1][ik[1]] = rs[2][ik[2]]
    OBVIOUS
  <2>3. row = KeptOf(x, j, rs[1], rs[2])
    BY <2>1 DEF KeptOf
  <2> QED
    BY <2>2, <2>3 DEF JoinsTo
<1>9. ASSUME NEW a \in rows, NEW s \in suppl
      PROVE  KeptOf(x, j, a, s) \in Tuples(Len(x.sig[j + 1]))
  <2>1. a \in [1 .. Len(occ) -> Values] /\ s \in [1 .. Len(x.sig[j]) -> Values]
    BY DEF Tuples
  <2> HIDE DEF occ
  <2>2. a \in Seq(Values) /\ s \in Seq(Values) /\ Len(a) = Len(occ) /\ Len(s) = Len(x.sig[j])
    BY <1>7, <2>1, FunctionIsSequence
  <2>3. \A i \in V : (a \o s)[i] \in Values
    BY <1>7, <2>2
  <2> HIDE DEF V, kept
  <2>4. \A k \in DOMAIN kept : kept[k] \in V
    BY <1>4
  <2>5. KeptOf(x, j, a, s) = [k \in DOMAIN kept |-> (a \o s)[kept[k]]]
    BY DEF KeptOf, kept
  <2>6. \A k \in DOMAIN kept : (a \o s)[kept[k]] \in Values
    BY <2>3, <2>4
  <2> QED
    BY <1>6, <2>5, <2>6 DEF Tuples
<1>10. Joined(x, j, rows, suppl) \subseteq Tuples(Len(x.sig[j + 1]))
  BY <1>8, <1>9 DEF JoinsTo
<1> QED
  BY <1>8, <1>10

LEMMA HeadTuplesType ==
  ASSUME NEW x, IsExecutor(x), NEW rows \in SUBSET Tuples(Len(x.sig[Len(x.body) + 1]))
  PROVE  /\ HeadTuples(x, rows) \subseteq Tuples(Arity[x.head.pred])
         /\ Len(x.sig) = Len(x.body) + 1
<1> DEFINE n == Len(x.body) + 1
           sig == x.sig[n]
           args == x.head.args
           tuple(row) == [i \in DOMAIN args |-> IF args[i] \in Variables THEN row[FirstIndex(args[i], sig)] ELSE args[i]]
<1>1. n \in 1 .. n /\ n \in Nat /\ n - 1 = Len(x.body)
  BY DEF IsExecutor, IsRule
<1>2. /\ sig \in Seq(Variables)
      /\ \A v \in Known(x, n) : NeededAfter(x, n - 1, v) => v \in ToSet(sig)
      /\ DOMAIN x.sig = 1 .. n
  BY <1>1 DEF IsExecutor, Signed
<1>3. VarsOf(x.head) \subseteq ToSet(sig)
  BY <1>2 DEF NeededAfter, IsExecutor, IsRule
<1>4. IsLiteral(x.head)
  BY DEF IsExecutor, IsRule
<1>5. /\ args \in Seq(Terms) /\ DOMAIN args = 1 .. Arity[x.head.pred]
      /\ \A i \in DOMAIN args : args[i] \in Terms
  BY <1>4, LiteralFacts
<1> HIDE DEF sig
<1>6. ASSUME NEW row \in rows
      PROVE  tuple(row) \in Tuples(Arity[x.head.pred])
  <2>1. ASSUME NEW i \in DOMAIN args
        PROVE  (IF args[i] \in Variables THEN row[FirstIndex(args[i], sig)] ELSE args[i]) \in Values
    <3> HIDE DEF args
    <3>1. args[i] \in Terms
      BY <1>5
    <3>2. CASE args[i] \in Variables
      <4>1. args[i] \in ToSet(sig)
        BY <1>3, <3>2 DEF VarsOf, ToSet, args
      <4>2. FirstIndex(args[i], sig) \in DOMAIN sig
        BY <1>2, <4>1, FirstIndexFacts
      <4>3. row \in [1 .. Len(sig) -> Values] /\ DOMAIN sig = 1 .. Len(sig)
        BY <1>2 DEF Tuples, sig
      <4> QED
        BY <3>2, <4>2, <4>3
    <3> QED
      BY <3>1, <3>2 DEF Terms
  <2> HIDE DEF args
  <2> QED
    BY <1>5, <2>1 DEF Tuples
<1>7. Len(x.sig) = n
  BY <1>1, <1>2
<1>8. \A t \in HeadTuples(x, rows) : \E row \in rows : t = tuple(row)
  BY <1>7 DEF HeadTuples, sig
<1> HIDE DEF tuple
<1> QED
  BY <1>6, <1>7, <1>8

-----------------------------------------------------------------------------
(* Rows stand for substitutions                                            *)

\* Row of the supplementary relation before atom j: it is what a substitution,
\* under which the atoms before j hold, gives the variables of its signature.
Stands(x, j, row, facts) ==
  \E s \in [Known(x, j) -> Values] :
    /\ \A k \in DOMAIN x.sig[j] : s[x.sig[j][k]] = row[k]
    /\ \A m \in 1 .. j - 1 : Holds(x.body[m], s, facts)

\* Row a of atom j comes from tuple u, which may differ from the atom only where
\* the atom has variables that are known.
ComesFrom(x, j, a, u) ==
  /\ u \in Tuples(Arity[x.body[j].pred])
  /\ a = Pick(u, DOMAIN x.body[j].args \ ConstantPositions(x.body[j]))
  /\ \A i \in ConstantPositions(x.body[j]) : u[i] = x.body[j].args[i]
  /\ \A i, k \in DOMAIN x.body[j].args :
       x.body[j].args[i] = x.body[j].args[k] /\ x.body[j].args[i] \in Variables \ Known(x, j) => u[i] = u[k]

\* Whether a literal holds depends on the variables it has.
LEMMA HoldsDependsOn ==
  ASSUME NEW l, NEW s, NEW t, NEW facts, \A v \in VarsOf(l) : s[v] = t[v]
  PROVE  Holds(l, s, facts) <=> Holds(l, t, facts)
<1>1. \A i \in DOMAIN l.args : l.args[i] \in Variables => s[l.args[i]] = t[l.args[i]]
  BY DEF VarsOf, ToSet
<1>2. Substituted(l.args, s) = Substituted(l.args, t)
  BY <1>1 DEF Substituted
<1> QED
  BY <1>2 DEF Holds

LEMMA JoinSound ==
  ASSUME NEW x, IsExecutor(x), NEW j \in 1 .. Len(x.body), NEW facts,
         NEW row \in Tuples(Len(x.sig[j])), Stands(x, j, row, facts),
         NEW a, NEW u \in facts[x.body[j].pred], ComesFrom(x, j, a, u),
         \A ik \in Joins(x, j) : a[ik[1]] = row[ik[2]]
  PROVE  Stands(x, j + 1, KeptOf(x, j, a, row), facts)
<1> DEFINE l == x.body[j]
           occ == VarSeq(l)
           sig == x.sig[j]
           kept == KeptColumns(x, j, sig)
           V == 1 .. Len(occ) + Len(sig)
<1>1. IsLiteral(l) /\ Len(x.body) \in Nat /\ DOMAIN x.body = 1 .. Len(x.body)
  BY DEF IsExecutor, IsRule
<1>2. /\ DOMAIN l.args = 1 .. Arity[l.pred] /\ occ \in Seq(Variables) /\ ToSet(occ) = VarsOf(l)
      /\ Columns(l) /\ \A i \in DOMAIN l.args : l.args[i] \in Terms
  BY <1>1, LiteralFacts
<1>3. j \in 1 .. Len(x.body) + 1 /\ j + 1 \in 1 .. Len(x.body) + 1 /\ j \in (j - 1) + 1 .. Len(x.body)
  BY <1>1
<1>4. /\ sig \in Seq(Variables) /\ ToSet(sig) \subseteq Known(x, j)
      /\ \A v \in Known(x, j) : NeededAfter(x, j - 1, v) => v \in ToSet(sig)
      /\ x.sig[j + 1] = NextSignature(x, j, sig)
  BY <1>3 DEF IsExecutor, Signed
<1>5. Known(x, j + 1) = Known(x, j) \cup VarsOf(l)
  <2>1. 1 .. (j + 1) - 1 = (1 .. j - 1) \cup {j}
    BY <1>1
  <2> QED
    BY <2>1 DEF Known
<1>6. PICK s \in [Known(x, j) -> Values] :
        /\ \A k \in DOMAIN sig : s[sig[k]] = row[k]
        /\ \A m \in 1 .. j - 1 : Holds(x.body[m], s, facts)
  BY DEF Stands
<1>7. /\ u \in [1 .. Arity[l.pred] -> Values]
      /\ \A i \in ConstantPositions(l) : u[i] = l.args[i]
      /\ \A i, k \in DOMAIN l.args : l.args[i] = l.args[k] /\ l.args[i] \in Variables /\ l.args[i] \notin Known(x, j)
           => u[i] = u[k]
  BY DEF ComesFrom, Tuples
<1>8. a \in Tuples(Len(occ)) /\ \A k \in DOMAIN occ : a[k] = u[ArgAt(l, k)]
  BY <1>1, PickRow DEF ComesFrom
<1>9. \A v \in VarsOf(l) : v \in Known(x, j) => v \in ToSet(sig)
  BY <1>3, <1>4 DEF NeededAfter
<1>10. Joins(x, j) = { ik \in (DOMAIN occ) \X (DOMAIN sig) : occ[ik[1]] = sig[ik[2]] }
  BY DEF Joins
<1> HIDE DEF l, occ, sig, kept, V
<1> DEFINE at(v) == CHOOSE i \in DOMAIN l.args : l.args[i] = v
           t == [v \in Known(x, j + 1) |-> IF v \in Known(x, j) THEN s[v] ELSE u[at(v)]]
<1>11. \A v \in VarsOf(l) : at(v) \in DOMAIN l.args /\ l.args[at(v)] = v
  BY DEF VarsOf, ToSet
<1>12. t \in [Known(x, j + 1) -> Values]
  <2>1. \A v \in Known(x, j + 1) : v \notin Known(x, j) => u[at(v)] \in Values
    BY <1>2, <1>5, <1>7, <1>11
  <2> HIDE DEF at
  <2> QED
    BY <1>6, <2>1
<1>13. \A v \in Known(x, j) : t[v] = s[v]
  BY <1>5
<1>14. ASSUME NEW i \in DOMAIN l.args, l.args[i] \in Variables
       PROVE  l.args[i] \in Known(x, j + 1) /\ t[l.args[i]] = u[i]
  <2>1. l.args[i] \in VarsOf(l)
    BY <1>14 DEF VarsOf, ToSet
  <2>2. CASE l.args[i] \in Known(x, j)
    <3>1. PICK k \in DOMAIN occ : ArgAt(l, k) = i
      BY <1>2, <1>14 DEF Columns, occ
    <3>2. occ[k] = l.args[i] /\ a[k] = u[i]
      BY <1>2, <1>8, <3>1 DEF Columns, occ
    <3>3. PICK m \in DOMAIN sig : sig[m] = l.args[i]
      BY <1>9, <2>1, <2>2 DEF ToSet
    <3> DEFINE ik == <<k, m>>
    <3>4. ik \in (DOMAIN occ) \X (DOMAIN sig) /\ ik[1] = k /\ ik[2] = m
      OBVIOUS
    <3> HIDE DEF ik
    <3>5. ik \in Joins(x, j)
      BY <1>10, <3>2, <3>3, <3>4
    <3>6. a[k] = row[m]
      BY <3>4, <3>5
    <3>7. s[l.args[i]] = row[m]
      BY <1>6, <3>3
    <3> QED
      BY <1>5, <1>13, <2>2, <3>2, <3>6, <3>7
  <2>3. CASE l.args[i] \notin Known(x, j)
    <3>1. t[l.args[i]] = u[at(l.args[i])]
      BY <1>5, <2>1, <2>3
    <3>2. at(l.args[i]) \in DOMAIN l.args /\ l.args[at(l.args[i])] = l.args[i]
      BY <1>11, <2>1
    <3> HIDE DEF at
    <3>3. u[at(l.args[i])] = u[i]
      BY <1>7, <1>14, <2>3, <3>2
    <3> QED
      BY <1>5, <2>1, <3>1, <3>3
  <2> QED
    BY <2>2, <2>3
<1> HIDE DEF t
<1>15. Holds(l, t, facts)
  <2>1. \A i \in DOMAIN l.args : (IF l.args[i] \in Variables THEN t[l.args[i]] ELSE l.args[i]) = u[i]
    BY <1>7, <1>14 DEF ConstantPositions
  <2>2. Substituted(l.args, t) = [i \in DOMAIN l.args |-> u[i]]
    BY <2>1 DEF Substituted
  <2>3. Substituted(l.args, t) = u
    BY <1>2, <1>7, <2>2
  <2> QED
    BY <2>3 DEF Holds, l
<1>16. \A m \in 1 .. (j + 1) - 1 : Holds(x.body[m], t, facts)
  <2> TAKE m \in 1 .. (j + 1) - 1
  <2>1. CASE m = j
    BY <1>15, <2>1 DEF l
  <2>2. CASE m # j
    <3>1. m \in 1 .. j - 1
      BY <1>1, <2>2
    <3>2. \A v \in VarsOf(x.body[m]) : s[v] = t[v]
      BY <1>13, <3>1 DEF Known
    <3> QED
      BY <1>6, <3>1, <3>2, HoldsDependsOn
  <2> QED
    BY <2>1, <2>2
<1>17. ASSUME NEW i \in V
       PROVE  t[(occ \o sig)[i]] = (a \o row)[i]
  <2>1. /\ Len(occ) \in Nat /\ Len(sig) \in Nat /\ a \in [1 .. Len(occ) -> Values]
        /\ row \in [1 .. Len(sig) -> Values]
    BY <1>2, <1>4, <1>8 DEF Tuples, sig
  <2>2. a \in Seq(Values) /\ row \in Seq(Values) /\ Len(a) = Len(occ) /\ Len(row) = Len(sig)
    BY <2>1, FunctionIsSequence
  <2>5. i \in 1 .. Len(occ) + Len(sig) /\ i \in 1 .. Len(a) + Len(row)
    BY <2>2 DEF V
  <2>6. /\ i <= Len(occ) => i \in DOMAIN occ /\ (occ \o sig)[i] = occ[i]
        /\ i > Len(occ) => i - Len(occ) \in DOMAIN sig /\ (occ \o sig)[i] = sig[i - Len(occ)]
    BY <1>2, <1>4, <2>5, ConcatenationAt
  <2>7. /\ i <= Len(a) => i \in DOMAIN a /\ (a \o row)[i] = a[i]
        /\ i > Len(a) => i - Len(a) \in DOMAIN row /\ (a \o row)[i] = row[i - Len(a)]
    BY <2>2, <2>5, ConcatenationAt
  <2>3. CASE i <= Len(occ)
    <3>1. (occ \o sig)[i] = occ[i] /\ (a \o row)[i] = a[i] /\ i \in DOMAIN occ
      BY <2>2, <2>3, <2>6, <2>7
    <3>2. ArgAt(l, i) \in DOMAIN l.args /\ occ[i] = l.args[ArgAt(l, i)] /\ occ[i] \in Variables
      BY <1>2, <3>1 DEF Columns, occ
    <3>3. a[i] = u[ArgAt(l, i)]
      BY <1>8, <3>1
    <3> QED
      BY <1>14, <3>1, <3>2, <3>3
  <2>4. CASE i > Len(occ)
    <3> DEFINE m == i - Len(occ)
    <3>1. m \in DOMAIN sig /\ (occ \o sig)[i] = sig[m] /\ (a \o row)[i] = row[m]
      BY <2>2, <2>4, <2>6, <2>7
    <3> HIDE DEF m
    <3>2. sig[m] \in Known(x, j)
      BY <1>4, <3>1 DEF ToSet
    <3> QED
      BY <1>6, <1>13, <3>1, <3>2
  <2> QED
    BY <2>1, <2>3, <2>4 DEF V
<1>18. \A k \in DOMAIN x.sig[j + 1] : t[x.sig[j + 1][k]] = KeptOf(x, j, a, row)[k]
  <2>1. kept \in Seq(V)
    BY <1>2, <1>4, KeptFacts DEF Keeps, kept, V, occ, l
  <2>2. \A k \in DOMAIN kept : kept[k] \in V
    BY <2>1
  <2>3. x.sig[j + 1] = [k \in DOMAIN kept |-> (occ \o sig)[kept[k]]]
    BY <1>4 DEF NextSignature, kept, occ, l
  <2>4. KeptOf(x, j, a, row) = [k \in DOMAIN kept |-> (a \o row)[kept[k]]]
    BY DEF KeptOf, kept, sig
  <2>5. ASSUME NEW k \in DOMAIN kept
        PROVE  t[(occ \o sig)[kept[k]]] = (a \o row)[kept[k]]
    BY <1>17, <2>2
  <2>6. /\ DOMAIN x.sig[j + 1] = DOMAIN kept
        /\ \A k \in DOMAIN kept : x.sig[j + 1][k] = (occ \o sig)[kept[k]] /\ KeptOf(x, j, a, row)[k] = (a \o row)[kept[k]]
    BY <2>3, <2>4, Zenon
  <2> QED
    BY <2>5, <2>6
<1> QED
  BY <1>12, <1>16, <1>18 DEF Stands

RepeatsBound(x) ==
  \A j \in DOMAIN x.body : x.body[j].pred \in IDBPreds =>
    \A i, k \in DOMAIN x.body[j].args :
      i # k /\ x.body[j].args[i] = x.body[j].args[k] /\ x.body[j].args[i] \in Variables
        => i \in x.body[j].bound

LEMMA EDBRowsFacts ==
  ASSUME NEW x, IsExecutor(x), NEW j \in 1 .. Len(x.body), x.body[j].pred \in EDBPreds, db \in Databases
  PROVE  /\ EDBRows(x.body[j]) \subseteq Tuples(Len(VarSeq(x.body[j])))
         /\ \A a \in EDBRows(x.body[j]) : \E u \in db[x.body[j].pred] : ComesFrom(x, j, a, u)
<1> DEFINE l == x.body[j]
           good == { u \in db[l.pred] : /\ \A i \in ConstantPositions(l) : u[i] = l.args[i]
                                        /\ \A i, k \in DOMAIN l.args : l.args[i] = l.args[k] => u[i] = u[k] }
<1>1. IsLiteral(l)
  BY DEF IsExecutor, IsRule
<1>2. db[l.pred] \subseteq Tuples(Arity[l.pred])
  BY DatabaseAssumption DEF Tuples
<1>3. EDBRows(l) = { Pick(t, DOMAIN l.args \ ConstantPositions(l)) : t \in good }
  BY DEF EDBRows
<1>4. ASSUME NEW u \in good
      PROVE  /\ Pick(u, DOMAIN l.args \ ConstantPositions(l)) \in Tuples(Len(VarSeq(l)))
             /\ ComesFrom(x, j, Pick(u, DOMAIN l.args \ ConstantPositions(l)), u)
  <2>1. u \in Tuples(Arity[l.pred])
    BY <1>2
  <2>2. Pick(u, DOMAIN l.args \ ConstantPositions(l)) \in Tuples(Len(VarSeq(l)))
    BY <1>1, <2>1, PickRow
  <2>3. ComesFrom(x, j, Pick(u, DOMAIN l.args \ ConstantPositions(l)), u)
    <3>1. /\ \A i \in ConstantPositions(l) : u[i] = l.args[i]
          /\ \A i, k \in DOMAIN l.args : l.args[i] = l.args[k] => u[i] = u[k]
      OBVIOUS
    <3> DEFINE row == Pick(u, DOMAIN l.args \ ConstantPositions(l))
    <3>2. row = Pick(u, DOMAIN x.body[j].args \ ConstantPositions(x.body[j]))
      OBVIOUS
    <3> HIDE DEF row, good
    <3> QED
      BY <2>1, <3>1, <3>2 DEF ComesFrom, row
  <2> QED
    BY <2>2, <2>3
<1>5. \A a \in EDBRows(l) : \E u \in good : a = Pick(u, DOMAIN l.args \ ConstantPositions(l))
  BY <1>3
<1>6. \A u \in good : u \in db[l.pred]
  OBVIOUS
<1> HIDE DEF good
<1> QED
  BY <1>4, <1>5, <1>6

LEMMA AnswerRowsType ==
  ASSUME NEW l, IsLiteral(l), answers[KeyOf(l)] \subseteq Tuples(Arity[l.pred])
  PROVE  AnswerRows(l) \subseteq Tuples(Len(VarSeq(l)))
<1> SUFFICES ASSUME NEW t \in answers[KeyOf(l)]
             PROVE  Pick(t, DOMAIN l.args \ ConstantPositions(l)) \in Tuples(Len(VarSeq(l)))
  BY DEF AnswerRows
<1> QED
  BY PickRow

LEMMA AnswerRowsFacts ==
  ASSUME NEW x, IsExecutor(x), RepeatsBound(x), NEW j \in 1 .. Len(x.body), x.body[j].pred \in IDBPreds,
         answers[KeyOf(x.body[j])] \subseteq Tuples(Arity[x.body[j].pred])
  PROVE  \A a \in AnswerRows(x.body[j]) : \E u \in answers[KeyOf(x.body[j])] : ComesFrom(x, j, a, u)
<1> DEFINE l == x.body[j]
<1>1. /\ j \in DOMAIN x.body
      /\ \A i \in l.bound : l.args[i] \in Known(x, j) \/ l.args[i] \notin Variables
  BY DEF IsExecutor, IsRule
<1>2. \A i, k \in DOMAIN l.args : l.args[i] = l.args[k] /\ l.args[i] \in Variables /\ l.args[i] \notin Known(x, j) => i = k
  BY <1>1 DEF RepeatsBound
<1>3. SUFFICES ASSUME NEW a \in AnswerRows(l)
               PROVE  \E u \in answers[KeyOf(l)] : ComesFrom(x, j, a, u)
  OBVIOUS
<1>4. PICK u \in answers[KeyOf(l)] :
        /\ \A i \in ConstantPositions(l) : u[i] = l.args[i]
        /\ a = Pick(u, DOMAIN l.args \ ConstantPositions(l))
  BY <1>3 DEF AnswerRows
<1>5. u \in Tuples(Arity[l.pred])
  OBVIOUS
<1>6. \A i, k \in DOMAIN l.args : l.args[i] = l.args[k] /\ l.args[i] \in Variables \ Known(x, j) => u[i] = u[k]
  <2> HIDE DEF l
  <2> QED
    BY <1>2
<1>7. ComesFrom(x, j, a, u)
  BY <1>4, <1>5, <1>6 DEF ComesFrom
<1> QED
  BY <1>7

\* Any input will do for the first supplementary relation.
LEMMA FirstSound ==
  ASSUME NEW x, IsExecutor(x), NEW tuples \in SUBSET Tuples(Cardinality(x.head.bound)), NEW facts,
         NEW row \in FirstRows(x, tuples)
  PROVE  Stands(x, 1, row, facts)
<1> DEFINE terms == Pick(x.head.args, x.head.bound)
<1>1. IsLiteral(x.head) /\ x.head.bound \in SUBSET DOMAIN x.head.args /\ Len(x.body) \in Nat
  BY DEF IsExecutor, IsRule
<1>2. /\ terms \in Seq(Terms) /\ DOMAIN terms = 1 .. Cardinality(x.head.bound)
      /\ \A i \in x.head.bound : x.head.args[i] \in ToSet(terms)
  BY <1>1, BoundArguments
<1>3. x.sig[1] \in Seq(Variables) /\ ToSet(x.sig[1]) \subseteq Known(x, 1)
  <2>1. 1 \in 1 .. Len(x.body) + 1
    BY <1>1
  <2> QED
    BY <2>1 DEF IsExecutor, Signed
<1>4. Known(x, 1) = BoundByHead(x) /\ 1 .. 1 - 1 = {}
  <2>1. 1 .. 1 - 1 = {}
    OBVIOUS
  <2> QED
    BY <2>1 DEF Known
<1>5. PICK u \in tuples : row = [k \in DOMAIN x.sig[1] |-> u[FirstIndex(x.sig[1][k], terms)]]
  BY DEF FirstRows
<1> HIDE DEF terms
<1> DEFINE s == [v \in Known(x, 1) |-> u[FirstIndex(v, terms)]]
<1>6. ASSUME NEW v \in Known(x, 1)
      PROVE  u[FirstIndex(v, terms)] \in Values
  <2>1. v \in ToSet(terms)
    BY <1>2, <1>4 DEF BoundByHead
  <2>2. FirstIndex(v, terms) \in DOMAIN terms
    BY <1>2, <2>1, FirstIndexFacts
  <2> QED
    BY <1>2, <2>2 DEF Tuples
<1>7. s \in [Known(x, 1) -> Values]
  BY <1>6
<1>8. \A k \in DOMAIN x.sig[1] : s[x.sig[1][k]] = row[k]
  BY <1>3, <1>5 DEF ToSet
<1> HIDE DEF s
<1> QED
  BY <1>4, <1>7, <1>8 DEF Stands

\* What the last supplementary relation gives the head is a consequence.
LEMMA HeadSound ==
  ASSUME NEW P \in SafeRules, NEW r \in ToSet(P), NEW b, NEW x, Adorns(x, r, b), IsExecutor(x),
         NEW facts, Consequences(P, facts) = facts,
         NEW rows \in SUBSET Tuples(Len(x.sig[Len(x.body) + 1])),
         \A row \in rows : Stands(x, Len(x.body) + 1, row, facts)
  PROVE  HeadTuples(x, rows) \subseteq facts[x.head.pred]
<1> DEFINE n == Len(x.body) + 1
           args == x.head.args
<1>1. Len(x.sig) = n /\ n \in 1 .. n /\ n - 1 = Len(x.body) /\ DOMAIN x.body = 1 .. n - 1
  <2>1. Len(x.sig) = n
    BY HeadTuplesType
  <2>2. Len(x.body) \in Nat /\ DOMAIN x.body = 1 .. Len(x.body)
    BY DEF IsExecutor, IsRule
  <2> QED
    BY <2>1, <2>2
<1>2. SUFFICES ASSUME NEW row \in rows, NEW t,
                      t = [i \in DOMAIN args |-> IF args[i] \in Variables
                             THEN row[FirstIndex(args[i], x.sig[n])] ELSE args[i]]
               PROVE  t \in facts[x.head.pred]
  BY <1>1 DEF HeadTuples
<1>3. PICK s \in [Known(x, n) -> Values] :
        /\ \A k \in DOMAIN x.sig[n] : s[x.sig[n][k]] = row[k]
        /\ \A m \in 1 .. n - 1 : Holds(x.body[m], s, facts)
  BY DEF Stands
<1>4. /\ x.sig[n] \in Seq(Variables)
      /\ \A v \in Known(x, n) : NeededAfter(x, n - 1, v) => v \in ToSet(x.sig[n])
  BY <1>1 DEF IsExecutor, Signed
<1>5. VarsOf(x.head) \subseteq Known(x, n)
  BY DEF IsExecutor, IsRule
<1>6. ASSUME NEW i \in DOMAIN args, args[i] \in Variables
      PROVE  t[i] = s[args[i]]
  <2>1. args[i] \in VarsOf(x.head)
    BY <1>6 DEF VarsOf, ToSet
  <2>2. args[i] \in ToSet(x.sig[n])
    BY <1>4, <1>5, <2>1 DEF NeededAfter
  <2>3. /\ FirstIndex(args[i], x.sig[n]) \in DOMAIN x.sig[n]
        /\ x.sig[n][FirstIndex(args[i], x.sig[n])] = args[i]
    BY <1>4, <2>2, FirstIndexFacts
  <2> HIDE DEF n, args
  <2>4. t[i] = row[FirstIndex(args[i], x.sig[n])]
    BY <1>2, <1>6
  <2> QED
    BY <1>3, <2>3, <2>4
<1> DEFINE B == UNION { VarsOf(l) : l \in ToSet(r.body) }
           g == [v \in B |-> s[v]]
<1>7. \A l \in ToSet(r.body) : \E j \in 1 .. n - 1 : x.body[j].pred = l.pred /\ x.body[j].args = l.args
  BY <1>1 DEF Adorns
<1>8. B \subseteq Known(x, n)
  <2> SUFFICES ASSUME NEW l \in ToSet(r.body), NEW v \in VarsOf(l) PROVE v \in Known(x, n)
    OBVIOUS
  <2>1. PICK j \in 1 .. n - 1 : x.body[j].args = l.args
    BY <1>7
  <2>2. v \in VarsOf(x.body[j])
    BY <2>1 DEF VarsOf
  <2> QED
    BY <2>2 DEF Known
<1>9. g \in Substitutions(ToSet(r.body))
  <2>1. g \in [B -> Values]
    BY <1>3, <1>8
  <2> QED
    BY <2>1 DEF Substitutions
<1>10. ASSUME NEW l \in ToSet(r.body)
       PROVE  Holds(l, g, facts)
  <2>1. PICK j \in 1 .. n - 1 : x.body[j].pred = l.pred /\ x.body[j].args = l.args
    BY <1>7
  <2>2. Holds(x.body[j], s, facts)
    BY <1>3
  <2>3. Holds(l, s, facts)
    BY <2>1, <2>2 DEF Holds
  <2>4. \A v \in VarsOf(l) : g[v] = s[v]
    OBVIOUS
  <2> HIDE DEF g
  <2> QED
    BY <2>3, <2>4, HoldsDependsOn
<1>11. x.head.pred = r.head.pred /\ args = r.head.args
  BY DEF Adorns
<1>12. t = Substituted(r.head.args, g)
  <2>1. VarsOf(r.head) \subseteq B
    BY DEF SafeRules
  <2>2. ASSUME NEW i \in DOMAIN args, args[i] \in Variables
        PROVE  g[args[i]] = t[i]
    <3>1. args[i] \in B
      BY <1>11, <2>1, <2>2 DEF VarsOf, ToSet
    <3>2. g[args[i]] = s[args[i]]
      BY <3>1
    <3> QED
      BY <1>6, <2>2, <3>2
  <2>3. \A i \in DOMAIN args : t[i] = IF args[i] \in Variables THEN g[args[i]] ELSE args[i]
    <3> HIDE DEF g, args
    <3> QED
      BY <1>2, <2>2
  <2>4. t = [i \in DOMAIN args |-> t[i]]
    BY <1>2
  <2> HIDE DEF g, args
  <2>5. t = [i \in DOMAIN args |-> IF args[i] \in Variables THEN g[args[i]] ELSE args[i]]
    BY <2>3, <2>4, Zenon
  <2> QED
    BY <1>11, <2>5 DEF Substituted
<1>13. DerivesWith(r, g, facts, t)
  <2> HIDE DEF g
  <2> QED
    BY <1>9, <1>10, <1>12 DEF DerivesWith
<1>14. r.head.pred \in Preds
  BY SafeRulesBodies, LiteralsAreLiterals DEF DatalogRules, IsLiteral
<1>15. t \in Consequences(P, facts)[r.head.pred]
  <2> HIDE DEF g
  <2> QED
    BY <1>13, <1>14, ConsequencesFacts
<1> QED
  BY <1>11, <1>15

-----------------------------------------------------------------------------
(* Executors                                                               *)

\* RulesFor, of any program.
RuleList(P, k) == Pick(P, { i \in DOMAIN P : P[i].head.pred = k[1] })

\* What CreateRules makes of them.
ExecutorsOf(P, k) == [i \in DOMAIN RuleList(P, k) |-> RuleExecutor(AdornedRule[<<RuleList(P, k)[i], k[2]>>])]

AllExecutors(P) == UNION { ToSet(ExecutorsOf(P, k)) : k \in Keys }

LEMMA RuleListFacts ==
  ASSUME NEW P \in Programs, NEW k
  PROVE  /\ RuleList(P, k) \in Seq(DatalogRules) /\ Len(RuleList(P, k)) \in Nat
         /\ Len(P) \in Nat /\ Len(RuleList(P, k)) <= Len(P)
         /\ DOMAIN RuleList(P, k) = 1 .. Len(RuleList(P, k))
         /\ \A i \in DOMAIN RuleList(P, k) : RuleList(P, k)[i] \in ToSet(P) /\ RuleList(P, k)[i].head.pred = k[1]
         /\ DOMAIN ExecutorsOf(P, k) = 1 .. Len(RuleList(P, k))
         /\ ExecutorsOf(P, k) = << >> <=> Len(RuleList(P, k)) = 0
         /\ Len(ExecutorsOf(P, k)) = Len(RuleList(P, k))
<1> DEFINE S == { i \in DOMAIN P : P[i].head.pred = k[1] }
<1>1. P \in Seq(DatalogRules) /\ Len(P) \in Nat /\ DOMAIN P = 1 .. Len(P)
  BY ProgramAssumption
<1>2. RuleList(P, k) = Pick(P, S)
  BY DEF RuleList
<1>3. Picked(DatalogRules, P, S)
  <2> HIDE DEF S
  <2> QED
    BY <1>1, PickFacts
<1>4. S \cap DOMAIN P = S /\ S \subseteq 1 .. Len(P) /\ \A i \in S : P[i].head.pred = k[1]
  BY <1>1
<1>5. Cardinality(S) <= Len(P) /\ Cardinality(S) \in Nat
  <2>1. IsFiniteSet(1 .. Len(P)) /\ Cardinality(1 .. Len(P)) = Len(P)
    BY <1>1, FS_Interval
  <2> HIDE DEF S
  <2> QED
    BY <2>1, <1>4, FS_Subset, FS_CardinalityType
<1> HIDE DEF S
<1>6. RuleList(P, k) \in Seq(DatalogRules) /\ Len(RuleList(P, k)) = Cardinality(S)
  BY <1>2, <1>3, <1>4 DEF Picked
<1>7. \A i \in DOMAIN RuleList(P, k) : RuleList(P, k)[i] \in ToSet(P) /\ RuleList(P, k)[i].head.pred = k[1]
  <2> SUFFICES ASSUME NEW i \in DOMAIN RuleList(P, k)
               PROVE  RuleList(P, k)[i] \in ToSet(P) /\ RuleList(P, k)[i].head.pred = k[1]
    OBVIOUS
  <2>1. PICK m \in S : RuleList(P, k)[i] = P[m]
    <3> DEFINE m == Increasing(Len(P), S)[i]
    <3>1. m \in S \cap DOMAIN P
      BY <1>2, <1>3 DEF Picked
    <3>2. RuleList(P, k)[i] = P[m]
      BY <1>2, <1>3 DEF Picked
    <3> QED
      BY <3>1, <3>2
  <2> QED
    BY <2>1, <1>4, <1>1 DEF ToSet
<1>8. DOMAIN RuleList(P, k) = 1 .. Len(RuleList(P, k)) /\ Len(RuleList(P, k)) \in Nat
  BY <1>6
<1>9. DOMAIN ExecutorsOf(P, k) = 1 .. Len(RuleList(P, k)) /\ Len(ExecutorsOf(P, k)) = Len(RuleList(P, k))
  <2> DEFINE f == ExecutorsOf(P, k)
  <2>1. DOMAIN f = 1 .. Len(RuleList(P, k))
    BY <1>8 DEF ExecutorsOf
  <2> HIDE DEF f
  <2>2. Len(f) = Len(RuleList(P, k))
    BY <2>1, <1>8
  <2> QED
    BY <2>1, <2>2 DEF f
<1>10. ExecutorsOf(P, k) = << >> <=> Len(RuleList(P, k)) = 0
  <2> DEFINE f == ExecutorsOf(P, k)
  <2>1. f = [i \in DOMAIN f |-> f[i]]
    BY DEF ExecutorsOf
  <2>2. DOMAIN f = 1 .. Len(RuleList(P, k))
    BY <1>9
  <2> HIDE DEF f
  <2> QED
    BY <2>1, <2>2, <1>8 DEF f
<1> QED
  BY <1>1, <1>5, <1>6, <1>7, <1>8, <1>9, <1>10

\* What the evaluation of an executor relies on; the last part only of programs
\* whose repeated variables are bound.
Prepared(x, P, k) ==
  /\ IsExecutor(x)
  /\ KeyOf(x.head) = k
  /\ \E r \in ToSet(P) : Adorns(x, r, k[2])
  /\ RepeatsAreBound => RepeatsBound(x)

LEMMA KeyFacts ==
  ASSUME NEW k \in Keys
  PROVE  /\ k = <<k[1], k[2]>> /\ k[1] \in IDBPreds /\ k[1] \in Preds
         /\ k[2] \in SUBSET (1 .. Arity[k[1]]) /\ Arity[k[1]] \in Nat
         /\ Cardinality(k[2]) \in Nat
<1>1. PICK p \in IDBPreds : k \in {p} \X SUBSET (1 .. Arity[p])
  BY DEF Keys
<1>2. k = <<k[1], k[2]>> /\ k[1] = p /\ k[2] \in SUBSET (1 .. Arity[p])
  BY <1>1
<1>3. k[1] \in Preds /\ Arity[k[1]] \in Nat
  BY <1>2, PredicateAssumption DEF IDBPreds
<1>4. Cardinality(k[2]) \in Nat
  <2>1. \A n \in Nat : IsFiniteSet(1 .. n)
    BY FS_Interval
  <2> QED
    BY <2>1, <1>2, <1>3, FS_Subset, FS_CardinalityType
<1> QED
  BY <1>1, <1>2, <1>3, <1>4

LEMMA ExecutorFacts ==
  ASSUME NEW P \in Programs, NEW k \in Keys, NEW i \in DOMAIN ExecutorsOf(P, k)
  PROVE  Prepared(ExecutorsOf(P, k)[i], P, k) /\ Adorns(ExecutorsOf(P, k)[i], RuleList(P, k)[i], k[2])
<1> DEFINE r == RuleList(P, k)[i]
           a == AdornedRule[<<r, k[2]>>]
           x == ExecutorsOf(P, k)[i]
<1>1. i \in DOMAIN RuleList(P, k) /\ r \in ToSet(P) /\ r.head.pred = k[1]
  BY RuleListFacts
<1>2. r \in DatalogRules /\ r \in AllRules
  BY <1>1, ProgramsAreSafe DEF AllRules
<1>3. DOMAIN r.head.args = 1 .. Arity[k[1]] /\ k[2] \in SUBSET DOMAIN r.head.args
  <2>1. r.head \in Literals
    BY <1>2 DEF DatalogRules
  <2> QED
    BY <2>1, <1>1, LiteralsAreLiterals, LiteralFacts, KeyFacts
<1>4. Adorns(a, r, k[2]) /\ IsRule(a) /\ Signed(a, Signatures(a))
  <2> HIDE DEF r
  <2>1. Adorns(a, r, k[2])
    BY <1>2, <1>3, AdornmentFacts
  <2> HIDE DEF a
  <2>2. IsRule(a)
    BY <2>1, <1>2, <1>3, AdornedIsRule
  <2> QED
    BY <2>1, <2>2, SignatureFacts
<1>5. x.head = a.head /\ x.body = a.body /\ x.sig = Signatures(a)
  BY <1>1 DEF ExecutorsOf, RuleExecutor
<1>6. RepeatsAreBound => RepeatsBound(a)
  <2> SUFFICES ASSUME RepeatsAreBound PROVE RepeatsBound(a)
    OBVIOUS
  <2>1. \A l \in ToSet(a.body) : l.pred \in IDBPreds =>
          \A m, n \in DOMAIN l.args :
            m # n /\ l.args[m] = l.args[n] /\ l.args[m] \in Variables => m \in l.bound
    <3> HIDE DEF r
    <3> QED
      BY <1>2, <1>3 DEF RepeatsAreBound
  <2> QED
    BY <2>1 DEF RepeatsBound, ToSet
<1> HIDE DEF x, a, r
<1>7. IsRule(x) /\ Adorns(x, r, k[2]) /\ (RepeatsBound(a) => RepeatsBound(x))
  <2>1. \A j : Known(x, j) = Known(a, j)
    BY <1>5 DEF Known, BoundByHead
  <2>2. IsRule(x)
    BY <1>4, <1>5, <2>1, Zenon DEF IsRule
  <2>3. Adorns(x, r, k[2])
    <3>1. x.head = [pred |-> r.head.pred, args |-> r.head.args, bound |-> k[2]]
      BY <1>4, <1>5, Zenon DEF Adorns
    <3>2. DOMAIN x.body = 1 .. Len(x.body) /\ Len(x.body) \in Nat \ {0} /\ Len(x.body) = Len(r.body)
      BY <1>4, <1>5, Zenon DEF Adorns
    <3>3. \A j \in DOMAIN x.body :
            /\ IsLiteral(x.body[j])
            /\ \E l \in ToSet(r.body) : x.body[j].pred = l.pred /\ x.body[j].args = l.args
            /\ x.body[j].bound = { m \in DOMAIN x.body[j].args :
                                     x.body[j].args[m] \in Known(x, j) \/ x.body[j].args[m] \notin Variables }
      BY <1>4, <1>5, <2>1 DEF Adorns
    <3>4. \A l \in ToSet(r.body) : \E j \in DOMAIN x.body : x.body[j].pred = l.pred /\ x.body[j].args = l.args
      <4>1. \A l \in ToSet(r.body) : \E j \in DOMAIN a.body : a.body[j].pred = l.pred /\ a.body[j].args = l.args
        BY <1>4 DEF Adorns
      <4> QED
        BY <4>1, <1>5
    <3> QED
      BY <3>1, <3>2, <3>3, <3>4, Zenon DEF Adorns
  <2>4. RepeatsBound(a) => RepeatsBound(x)
    BY <1>5, Zenon DEF RepeatsBound
  <2> QED
    BY <2>2, <2>3, <2>4
<1>8. Signed(x, x.sig)
  <2>1. \A j, v : NeededAfter(x, j, v) <=> NeededAfter(a, j, v)
    BY <1>5 DEF NeededAfter
  <2>2. \A j : Known(x, j) = Known(a, j)
    BY <1>5 DEF Known, BoundByHead
  <2>3. \A j, s : KeptColumns(x, j, s) = KeptColumns(a, j, s)
    <3> TAKE j, s
    <3> DEFINE occ == VarSeq(a.body[j])
    <3>1. VarSeq(x.body[j]) = occ
      BY <1>5
    <3>2. { m \in DOMAIN occ : NeededAfter(x, j, occ[m]) } = { m \in DOMAIN occ : NeededAfter(a, j, occ[m]) }
      BY <2>1
    <3>3. { m \in DOMAIN s : s[m] \notin ToSet(occ) /\ NeededAfter(x, j, s[m]) /\ FirstIndex(s[m], s) = m } =
            { m \in DOMAIN s : s[m] \notin ToSet(occ) /\ NeededAfter(a, j, s[m]) /\ FirstIndex(s[m], s) = m }
      BY <2>1
    <3> HIDE DEF occ
    <3> QED
      BY <3>1, <3>2, <3>3, Zenon DEF KeptColumns, occ
  <2>4. \A j, s : NextSignature(x, j, s) = NextSignature(a, j, s)
    BY <1>5, <2>3 DEF NextSignature
  <2> QED
    BY <1>4, <1>5, <2>1, <2>2, <2>4 DEF Signed
<1>9. KeyOf(x.head) = k
  <2>1. x.head.pred = k[1] /\ x.head.bound = k[2]
    BY <1>7, <1>1 DEF Adorns
  <2> QED
    BY <2>1, KeyFacts DEF KeyOf
<1>10. Prepared(x, P, k)
  BY <1>1, <1>6, <1>7, <1>8, <1>9 DEF Prepared, IsExecutor
<1> QED
  BY <1>7, <1>10 DEF x, r

LEMMA AllExecutorsFacts ==
  ASSUME NEW P \in Programs, NEW x \in AllExecutors(P)
  PROVE  /\ KeyOf(x.head) \in Keys
         /\ Prepared(x, P, KeyOf(x.head))
<1>1. PICK k \in Keys : \E i \in DOMAIN ExecutorsOf(P, k) : x = ExecutorsOf(P, k)[i]
  BY DEF AllExecutors, ToSet
<1>2. Prepared(x, P, k)
  BY <1>1, ExecutorFacts
<1> QED
  BY <1>2 DEF Prepared

\* An IDB atom of an executor has a table, and one that its rows fit into.
LEMMA AtomFacts ==
  ASSUME NEW x, IsExecutor(x), NEW j \in 1 .. Len(x.body)
  PROVE  /\ IsLiteral(x.body[j]) /\ x.body[j].pred \in Preds
         /\ x.body[j].pred \notin EDBPreds => x.body[j].pred \in IDBPreds /\ KeyOf(x.body[j]) \in Keys
         /\ KeyOf(x.body[j])[1] = x.body[j].pred /\ KeyOf(x.body[j])[2] = x.body[j].bound
<1>1. IsLiteral(x.body[j]) /\ x.body[j].bound \subseteq DOMAIN x.body[j].args
  BY DEF IsExecutor, IsRule
<1>2. x.body[j].pred \in Preds /\ DOMAIN x.body[j].args = 1 .. Arity[x.body[j].pred]
  BY <1>1, LiteralFacts
<1>3. x.body[j].pred \notin EDBPreds => x.body[j].pred \in IDBPreds
  BY <1>2 DEF IDBPreds
<1> QED
  BY <1>1, <1>2, <1>3 DEF KeyOf, Keys

-----------------------------------------------------------------------------
(* What the tables may hold                                                *)

\* M contains the database and what the program makes of M.
IsModelOf(M, P, D) == Consequences(P, M) = M /\ \A p \in EDBPreds : D[p] \subseteq M[p]

\* The tuples that a table of predicate p may hold, and the rows that may be in the
\* supplementary relation before atom j or found for atom j: in the model, when
\* what the evaluation does not compare is bound.
TuplesOf(p, M) == { u \in Tuples(Arity[p]) : RepeatsAreBound => u \in M[p] }

RowsOf(x, j, M) == { row \in Tuples(Len(x.sig[j])) : RepeatsAreBound => Stands(x, j, row, M) }

AtomRows(x, j, M) ==
  { a \in Tuples(Len(VarSeq(x.body[j]))) :
      RepeatsAreBound => \E u \in M[x.body[j].pred] : ComesFrom(x, j, a, u) }

LEMMA MeaningIsModel ==
  ASSUME NEW P \in Programs, NEW D \in Databases
  PROVE  IsModelOf(LeastModel(P, D), P, D)
<1>1. IsLeastModel(P, Given(D), LeastModel(P, D))
  BY LeastModelFacts
<1>2. \A p \in EDBPreds : p \in Preds /\ Given(D)[p] = D[p]
  BY PredicateAssumption DEF Given
<1> QED
  BY <1>1, <1>2 DEF IsLeastModel, IsModelOf, Below

LEMMA EDBRowsOK ==
  ASSUME NEW M, NEW P, IsModelOf(M, P, db), db \in Databases,
         NEW x, IsExecutor(x), NEW j \in 1 .. Len(x.body), x.body[j].pred \in EDBPreds
  PROVE  EDBRows(x.body[j]) \subseteq AtomRows(x, j, M)
BY EDBRowsFacts DEF AtomRows, IsModelOf

LEMMA AnswerRowsOK ==
  ASSUME NEW M, NEW x, IsExecutor(x), RepeatsAreBound => RepeatsBound(x),
         NEW j \in 1 .. Len(x.body), x.body[j].pred \in IDBPreds,
         answers[KeyOf(x.body[j])] \subseteq TuplesOf(x.body[j].pred, M)
  PROVE  AnswerRows(x.body[j]) \subseteq AtomRows(x, j, M)
<1>1. IsLiteral(x.body[j]) /\ answers[KeyOf(x.body[j])] \subseteq Tuples(Arity[x.body[j].pred])
  BY AtomFacts DEF TuplesOf
<1>2. AnswerRows(x.body[j]) \subseteq Tuples(Len(VarSeq(x.body[j])))
  BY <1>1, AnswerRowsType
<1>3. RepeatsAreBound =>
        \A a \in AnswerRows(x.body[j]) : \E u \in answers[KeyOf(x.body[j])] : ComesFrom(x, j, a, u)
  BY <1>1, AnswerRowsFacts
<1>4. RepeatsAreBound => \A u \in answers[KeyOf(x.body[j])] : u \in M[x.body[j].pred]
  BY DEF TuplesOf
<1> QED
  BY <1>2, <1>3, <1>4 DEF AtomRows

LEMMA JoinedOK ==
  ASSUME NEW M, NEW x, IsExecutor(x), NEW j \in 1 .. Len(x.body),
         NEW rows \in SUBSET AtomRows(x, j, M), NEW suppl \in SUBSET RowsOf(x, j, M)
  PROVE  Joined(x, j, rows, suppl) \subseteq RowsOf(x, j + 1, M)
<1>1. rows \in SUBSET Tuples(Len(VarSeq(x.body[j]))) /\ suppl \in SUBSET Tuples(Len(x.sig[j]))
  BY DEF AtomRows, RowsOf
<1>2. SUFFICES ASSUME NEW row \in Joined(x, j, rows, suppl)
               PROVE  row \in RowsOf(x, j + 1, M)
  OBVIOUS
<1>3. row \in Tuples(Len(x.sig[j + 1]))
  BY <1>1, JoinedRows
<1>4. PICK a \in rows, s \in suppl : JoinsTo(x, j, a, s, row)
  BY <1>1, JoinedRows
<1>5. ASSUME RepeatsAreBound PROVE Stands(x, j + 1, row, M)
  <2>1. Stands(x, j, s, M) /\ s \in Tuples(Len(x.sig[j]))
    BY <1>5 DEF RowsOf
  <2>2. PICK u \in M[x.body[j].pred] : ComesFrom(x, j, a, u)
    BY <1>5 DEF AtomRows
  <2> QED
    BY <2>1, <2>2, <1>4, JoinSound DEF JoinsTo
<1> QED
  BY <1>3, <1>5 DEF RowsOf

LEMMA FirstRowsOK ==
  ASSUME NEW M, NEW x, IsExecutor(x), NEW tuples \in SUBSET Tuples(Cardinality(x.head.bound))
  PROVE  FirstRows(x, tuples) \subseteq RowsOf(x, 1, M)
BY FirstRowsType, FirstSound DEF RowsOf

LEMMA HeadTuplesOK ==
  ASSUME NEW P \in Programs, NEW D, NEW M, IsModelOf(M, P, D), NEW k, NEW x, Prepared(x, P, k),
         NEW rows \in SUBSET RowsOf(x, Len(x.body) + 1, M)
  PROVE  HeadTuples(x, rows) \subseteq TuplesOf(x.head.pred, M)
<1>1. rows \in SUBSET Tuples(Len(x.sig[Len(x.body) + 1]))
  BY DEF RowsOf
<1>2. HeadTuples(x, rows) \subseteq Tuples(Arity[x.head.pred])
  BY <1>1, HeadTuplesType DEF Prepared
<1>3. PICK r \in ToSet(P) : Adorns(x, r, k[2])
  BY DEF Prepared
<1>4. RepeatsAreBound => \A row \in rows : Stands(x, Len(x.body) + 1, row, M)
  BY DEF RowsOf
<1>5. RepeatsAreBound => HeadTuples(x, rows) \subseteq M[x.head.pred]
  BY <1>1, <1>3, <1>4, ProgramsAreSafe, HeadSound DEF Prepared, IsModelOf
<1> QED
  BY <1>2, <1>5 DEF TuplesOf

-----------------------------------------------------------------------------
(* The stack of tasks                                                      *)

QueryTasks == [type : {"QUERY"}, key : Keys, next : Nat, offset : Nat, repeat : BOOLEAN, total : Nat]
RuleTasks(P) == [type : {"RULE"}, exec : AllExecutors(P), next : Nat, suppl : Seq(SUBSET Seq(Values))]
SubQueries == [type : {"RULE_QUERY"}, next : Nat]
Tasks(P) == QueryTasks \cup RuleTasks(P) \cup SubQueries

\* The rules of a query that is being evaluated have been created, and it has
\* counted the answers before.
QueryTaskOK(t, P, rs, n) ==
  /\ t \in QueryTasks
  /\ t.next \in 2 .. Len(RuleList(P, t.key)) + 1
  /\ rs[t.key] = ExecutorsOf(P, t.key)
  /\ t.total <= n

RuleTaskOK(t, P, M) ==
  /\ t \in RuleTasks(P)
  /\ t.next \in 2 .. Len(t.exec.body) + 1
  /\ Len(t.suppl) = Len(t.exec.body) + 1
  /\ \A m \in DOMAIN t.suppl : t.suppl[m] \subseteq RowsOf(t.exec, m, M)

\* A sub-query is that of the atom that the rule below has just reached.
SubQueryOK(t, below, P, M) ==
  /\ t \in SubQueries
  /\ RuleTaskOK(below, P, M)
  /\ t.next = below.next - 1
  /\ below.exec.body[t.next].pred \in IDBPreds

TaskOK(stack, i, P, M, rs, n) ==
  \/ QueryTaskOK(stack[i], P, rs, n)
  \/ RuleTaskOK(stack[i], P, M)
  \/ i > 1 /\ SubQueryOK(stack[i], stack[i - 1], P, M)

StackOK(stack, P, M, rs, n) ==
  stack \in Seq(Tasks(P)) /\ \A i \in DOMAIN stack : TaskOK(stack, i, P, M, rs, n)

LEMMA StackEmpty ==
  ASSUME NEW P, NEW M, NEW rs, NEW n
  PROVE  StackOK(<< >>, P, M, rs, n)
BY DEF StackOK

\* What the top of the stack can be.
TopOK(stack, P, M, rs, n) ==
  /\ stack = Append(Front(stack), Last(stack))
  /\ StackOK(Front(stack), P, M, rs, n)
  /\ Last(stack).type = "QUERY" => QueryTaskOK(Last(stack), P, rs, n)
  /\ Last(stack).type = "RULE" => RuleTaskOK(Last(stack), P, M)
  /\ Last(stack).type = "RULE_QUERY" =>
       Front(stack) # << >> /\ SubQueryOK(Last(stack), Last(Front(stack)), P, M)
  /\ Last(stack).type \in {"QUERY", "RULE", "RULE_QUERY"}

LEMMA SequenceEnds ==
  ASSUME NEW S, NEW s \in Seq(S), s # << >>
  PROVE  /\ Len(s) \in Nat \ {0} /\ Last(s) \in S /\ Last(s) = s[Len(s)]
         /\ Front(s) \in Seq(S) /\ Len(Front(s)) = Len(s) - 1 /\ DOMAIN Front(s) = 1 .. Len(s) - 1
         /\ \A i \in DOMAIN Front(s) : Front(s)[i] = s[i]
         /\ s = Append(Front(s), Last(s))
<1>1. Len(s) \in Nat \ {0} /\ DOMAIN s = 1 .. Len(s)
  OBVIOUS
<1>2. Last(s) = s[Len(s)] /\ Last(s) \in S
  BY <1>1 DEF Last
<1>3. Front(s) = SubSeq(s, 1, Len(s) - 1)
  BY DEF Front
<1>4. Front(s) \in Seq(S) /\ Len(Front(s)) = Len(s) - 1 /\ \A i \in 1 .. Len(s) - 1 : Front(s)[i] = s[i]
  BY <1>1, <1>3
<1>5. DOMAIN Front(s) = 1 .. Len(s) - 1
  BY <1>1, <1>4
<1>6. s = Append(Front(s), Last(s))
  <2> DEFINE f == Front(s)
             t == Last(s)
  <2>0. f \in Seq(S) /\ Len(f) = Len(s) - 1 /\ t \in S /\ t = s[Len(s)] /\ \A i \in 1 .. Len(s) - 1 : f[i] = s[i]
    BY <1>2, <1>4
  <2> HIDE DEF f, t
  <2>1. Append(f, t) \in Seq(S) /\ Len(Append(f, t)) = Len(s)
    <3>1. Append(f, t) \in Seq(S) /\ Len(Append(f, t)) = Len(f) + 1
      BY <2>0, AppendProperties
    <3>2. Len(f) + 1 = Len(s)
      BY <1>1, <2>0
    <3> QED
      BY <3>1, <3>2
  <2>2. \A i \in 1 .. Len(s) : Append(f, t)[i] = s[i]
    BY <1>1, <2>0, AppendProperties
  <2>3. s = Append(f, t)
    BY <2>1, <2>2, SeqEqual
  <2> QED
    BY <2>3 DEF f, t
<1> QED
  BY <1>1, <1>2, <1>4, <1>5, <1>6

LEMMA SequenceTop ==
  ASSUME NEW S, NEW s \in Seq(S), NEW t \in S
  PROVE  /\ Append(s, t) \in Seq(S) /\ Append(s, t) # << >> /\ Len(Append(s, t)) = Len(s) + 1
         /\ Last(Append(s, t)) = t /\ Front(Append(s, t)) = s
         /\ DOMAIN Append(s, t) = 1 .. Len(s) + 1
         /\ \A i \in DOMAIN s : Append(s, t)[i] = s[i]
<1>1. Append(s, t) \in Seq(S) /\ Len(Append(s, t)) = Len(s) + 1 /\ Len(s) \in Nat
  OBVIOUS
<1>2. \A i \in 1 .. Len(s) : Append(s, t)[i] = s[i]
  OBVIOUS
<1>3. Append(s, t)[Len(s) + 1] = t
  OBVIOUS
<1>4. Append(s, t) # << >> /\ Last(Append(s, t)) = t
  BY <1>1, <1>3 DEF Last
<1>5. Front(Append(s, t)) = s
  <2> DEFINE a == Append(s, t)
  <2>1. Front(a) \in Seq(S) /\ Len(Front(a)) = Len(s) /\ \A i \in 1 .. Len(s) : Front(a)[i] = a[i]
    <3>1. a \in Seq(S) /\ a # << >> /\ Len(a) - 1 = Len(s)
      BY <1>1, <1>4
    <3> HIDE DEF a
    <3>2. Front(a) \in Seq(S) /\ Len(Front(a)) = Len(a) - 1
      BY <3>1, SequenceEnds
    <3>3. \A i \in 1 .. Len(a) - 1 : Front(a)[i] = a[i]
      BY <3>1, SequenceEnds
    <3> QED
      BY <3>1, <3>2, <3>3
  <2> QED
    BY <2>1, <1>2, SeqEqual
<1> QED
  BY <1>1, <1>2, <1>4, <1>5

LEMMA StackTop ==
  ASSUME NEW P, NEW M, NEW rs, NEW n, NEW stack, StackOK(stack, P, M, rs, n), stack # << >>
  PROVE  TopOK(stack, P, M, rs, n)
<1>1. stack \in Seq(Tasks(P)) /\ \A i \in DOMAIN stack : TaskOK(stack, i, P, M, rs, n)
  BY DEF StackOK
<1> DEFINE f == Front(stack)
           top == Len(stack)
<1>2. /\ top \in Nat \ {0} /\ Last(stack) = stack[top]
      /\ f \in Seq(Tasks(P)) /\ Len(f) = top - 1 /\ DOMAIN f = 1 .. top - 1
      /\ \A i \in DOMAIN f : f[i] = stack[i]
      /\ stack = Append(f, Last(stack)) /\ DOMAIN stack = 1 .. top
  BY <1>1, SequenceEnds
<1> HIDE DEF f, top
<1>3. StackOK(f, P, M, rs, n)
  <2>1. ASSUME NEW i \in DOMAIN f PROVE TaskOK(f, i, P, M, rs, n)
    <3>1. i \in DOMAIN stack /\ f[i] = stack[i] /\ (i > 1 => f[i - 1] = stack[i - 1])
      BY <1>2
    <3> QED
      BY <3>1, <1>1 DEF TaskOK
  <2> QED
    BY <1>2, <2>1 DEF StackOK
<1>4. TaskOK(stack, top, P, M, rs, n)
  BY <1>1, <1>2
<1>5. ASSUME top > 1 PROVE f # << >> /\ Last(f) = stack[top - 1]
  <2>1. f # << >>
    BY <1>2, <1>5
  <2>2. Last(f) = f[Len(f)]
    BY DEF Last
  <2> QED
    BY <2>1, <2>2, <1>2, <1>5
<1>6. CASE QueryTaskOK(Last(stack), P, rs, n)
  BY <1>2, <1>3, <1>6 DEF TopOK, f, QueryTaskOK, QueryTasks
<1>7. CASE RuleTaskOK(Last(stack), P, M)
  BY <1>2, <1>3, <1>7 DEF TopOK, f, RuleTaskOK, RuleTasks
<1>8. CASE top > 1 /\ SubQueryOK(Last(stack), stack[top - 1], P, M)
  BY <1>2, <1>3, <1>5, <1>8 DEF TopOK, f, SubQueryOK, SubQueries
<1> QED
  BY <1>2, <1>4, <1>6, <1>7, <1>8 DEF TaskOK

LEMMA StackPush ==
  ASSUME NEW P, NEW M, NEW rs, NEW n, NEW stack, StackOK(stack, P, M, rs, n), NEW t,
         \/ QueryTaskOK(t, P, rs, n)
         \/ RuleTaskOK(t, P, M)
         \/ stack # << >> /\ SubQueryOK(t, Last(stack), P, M)
  PROVE  /\ StackOK(Append(stack, t), P, M, rs, n) /\ Append(stack, t) # << >>
         /\ Last(Append(stack, t)) = t /\ Front(Append(stack, t)) = stack
         /\ t \in Tasks(P)
<1>1. stack \in Seq(Tasks(P)) /\ \A i \in DOMAIN stack : TaskOK(stack, i, P, M, rs, n)
  BY DEF StackOK
<1>2. t \in Tasks(P)
  BY DEF Tasks, QueryTaskOK, RuleTaskOK, SubQueryOK
<1> DEFINE a == Append(stack, t)
<1>3. /\ a \in Seq(Tasks(P)) /\ a # << >> /\ Last(a) = t /\ Front(a) = stack
      /\ DOMAIN a = 1 .. Len(stack) + 1 /\ \A i \in DOMAIN stack : a[i] = stack[i]
  BY <1>1, <1>2, SequenceTop
<1>4. Len(stack) \in Nat /\ DOMAIN stack = 1 .. Len(stack)
  BY <1>1
<1>5. a[Len(stack) + 1] = t
  BY <1>1
<1>6. stack # << >> => Len(stack) > 0 /\ Last(stack) = stack[Len(stack)]
  BY <1>1 DEF Last
<1> HIDE DEF a
<1>7. ASSUME NEW i \in DOMAIN a PROVE TaskOK(a, i, P, M, rs, n)
  <2>1. CASE i \in DOMAIN stack
    <3>1. a[i] = stack[i] /\ (i > 1 => a[i - 1] = stack[i - 1])
      BY <1>3, <1>4, <2>1
    <3> QED
      BY <3>1, <1>1, <2>1 DEF TaskOK
  <2>2. CASE i = Len(stack) + 1
    <3>1. a[i] = t /\ (stack # << >> => i > 1 /\ a[i - 1] = Last(stack))
      BY <1>3, <1>4, <1>5, <1>6, <2>2
    <3> QED
      BY <3>1 DEF TaskOK
  <2> QED
    BY <1>3, <1>4, <2>1, <2>2
<1> QED
  BY <1>2, <1>3, <1>7 DEF StackOK, a

\* Creating rules and finding answers disturbs no task.
LEMMA StackKept ==
  ASSUME NEW P, NEW M, NEW rs, NEW n \in Int, NEW rs2, NEW n2 \in Int, NEW stack, StackOK(stack, P, M, rs, n),
         \A k \in Keys : rs[k] = ExecutorsOf(P, k) => rs2[k] = ExecutorsOf(P, k), n <= n2
  PROVE  StackOK(stack, P, M, rs2, n2)
<1>1. ASSUME NEW t, QueryTaskOK(t, P, rs, n) PROVE QueryTaskOK(t, P, rs2, n2)
  BY <1>1 DEF QueryTaskOK, QueryTasks
<1> QED
  BY <1>1 DEF StackOK, TaskOK

-----------------------------------------------------------------------------
(* Evaluating atoms and rules                                              *)

CallOK(c) == c = NoCall \/ c \in [key : Keys, offset : Nat, repeat : BOOLEAN]

\* No input is asked twice.
InputOK(s, k) ==
  s \in Seq(Tuples(Cardinality(k[2]))) /\ \A i, j \in DOMAIN s : s[i] = s[j] => i = j

InputsOK(I) == DOMAIN I = Keys /\ \A k \in Keys : InputOK(I[k], k)

AnswersOK(A, M) == DOMAIN A = Keys /\ \A k \in Keys : A[k] \subseteq TuplesOf(k[1], M)

\* What the evaluation of an atom or a rule leaves.
Continues(P, M, rs, n) ==
  /\ StackOK(tasks', P, M, rs, n)
  /\ CallOK(call') /\ InputsOK(inputs')
  /\ pc' \in {pc, "cartesian"}

LEMMA TopChanged ==
  ASSUME NEW S, NEW s \in Seq(S), s # << >>, NEW t \in S
  PROVE  [s EXCEPT ![Len(s)] = t] = Append(Front(s), t)
<1> DEFINE e == [s EXCEPT ![Len(s)] = t]
           f == Front(s)
           a == Append(f, t)
<1>1. /\ Len(s) \in Nat \ {0} /\ f \in Seq(S) /\ Len(f) = Len(s) - 1
      /\ \A i \in 1 .. Len(s) - 1 : f[i] = s[i]
  BY SequenceEnds
<1>2. e \in Seq(S) /\ Len(e) = Len(s) /\ \A i \in 1 .. Len(s) : e[i] = IF i = Len(s) THEN t ELSE s[i]
  BY <1>1, ExceptSeq
<1> HIDE DEF e, f
<1>3. a \in Seq(S) /\ Len(a) = Len(f) + 1 /\ (\A i \in 1 .. Len(f) : a[i] = f[i]) /\ a[Len(f) + 1] = t
  BY <1>1, AppendProperties
<1>4. Len(a) = Len(s)
  BY <1>1, <1>3
<1> HIDE DEF a
<1>5. \A i \in 1 .. Len(s) : e[i] = a[i]
  BY <1>1, <1>2, <1>3
<1>6. e = a
  BY <1>2, <1>3, <1>4, <1>5, SeqEqual
<1> QED
  BY <1>6 DEF e, f, a

\* A task of a rule is as its record says.
RuleTaskIs(t, P, M) ==
  /\ t.exec \in AllExecutors(P) /\ Prepared(t.exec, P, KeyOf(t.exec.head)) /\ IsExecutor(t.exec)
  /\ KeyOf(t.exec.head) \in Keys
  /\ Len(t.exec.body) \in Nat \ {0} /\ DOMAIN t.exec.body = 1 .. Len(t.exec.body)
  /\ t.next - 1 \in 1 .. Len(t.exec.body)
  /\ t.suppl \in Seq(SUBSET Seq(Values)) /\ Len(t.suppl) = Len(t.exec.body) + 1
  /\ DOMAIN t.suppl = 1 .. Len(t.exec.body) + 1
  /\ \A m \in 1 .. Len(t.exec.body) + 1 :
       t.suppl[m] \subseteq RowsOf(t.exec, m, M) /\ RowsOf(t.exec, m, M) \subseteq Tuples(Len(t.exec.sig[m]))

LEMMA RuleTaskFacts ==
  ASSUME NEW P \in Programs, NEW M, NEW t, RuleTaskOK(t, P, M)
  PROVE  RuleTaskIs(t, P, M) /\ t.type = "RULE"
<1>1. t.exec \in AllExecutors(P) /\ t.suppl \in Seq(SUBSET Seq(Values)) /\ t.type = "RULE"
  BY DEF RuleTaskOK, RuleTasks
<1>2. KeyOf(t.exec.head) \in Keys /\ Prepared(t.exec, P, KeyOf(t.exec.head)) /\ IsExecutor(t.exec)
  BY <1>1, AllExecutorsFacts DEF Prepared
<1>3. Len(t.exec.body) \in Nat \ {0} /\ DOMAIN t.exec.body = 1 .. Len(t.exec.body)
  BY <1>2 DEF IsExecutor, IsRule
<1>4. t.next \in 2 .. Len(t.exec.body) + 1 /\ Len(t.suppl) = Len(t.exec.body) + 1
  BY DEF RuleTaskOK
<1>5. t.next - 1 \in 1 .. Len(t.exec.body)
  BY <1>3, <1>4
<1>6. DOMAIN t.suppl = 1 .. Len(t.exec.body) + 1
  BY <1>1, <1>4
<1>7. \A m \in 1 .. Len(t.exec.body) + 1 :
        t.suppl[m] \subseteq RowsOf(t.exec, m, M) /\ RowsOf(t.exec, m, M) \subseteq Tuples(Len(t.exec.sig[m]))
  BY <1>6 DEF RuleTaskOK, RowsOf
<1> QED
  BY <1>1, <1>2, <1>3, <1>4, <1>5, <1>6, <1>7 DEF RuleTaskIs

\* An executor's signatures are as long as its rows, which are sequences of values.
LEMMA RowsAreSequences ==
  ASSUME NEW x, IsExecutor(x), NEW j \in 1 .. Len(x.body) + 1
  PROVE  Tuples(Len(x.sig[j])) \subseteq Seq(Values)
<1>1. Len(x.sig[j]) \in Nat
  BY DEF IsExecutor, Signed
<1> QED
  BY <1>1, FunctionIsSequence DEF Tuples

\* More rows for the next supplementary relation.
LEMMA RuleTaskGrows ==
  ASSUME NEW P \in Programs, NEW M, NEW t, RuleTaskOK(t, P, M),
         NEW j \in 1 .. Len(t.exec.body) + 1, NEW rows \in SUBSET RowsOf(t.exec, j, M)
  PROVE  RuleTaskOK([t EXCEPT !.suppl[j] = @ \cup rows], P, M)
<1> DEFINE suppl == [t.suppl EXCEPT ![j] = t.suppl[j] \cup rows]
           t2 == [t EXCEPT !.suppl = suppl]
<1>1. RuleTaskIs(t, P, M) /\ t \in RuleTasks(P) /\ t.next \in 2 .. Len(t.exec.body) + 1
  BY RuleTaskFacts DEF RuleTaskOK
<1>2. rows \subseteq Seq(Values)
  BY <1>1, RowsAreSequences DEF RuleTaskIs
<1>3. j \in 1 .. Len(t.suppl) /\ t.suppl[j] \cup rows \in SUBSET Seq(Values)
  BY <1>1, <1>2 DEF RuleTaskIs
<1>4. /\ suppl \in Seq(SUBSET Seq(Values)) /\ Len(suppl) = Len(t.suppl)
      /\ \A m \in 1 .. Len(t.suppl) : suppl[m] = IF m = j THEN t.suppl[j] \cup rows ELSE t.suppl[m]
  BY <1>1, <1>3, ExceptSeq DEF RuleTaskIs
<1>5. Len(suppl) = Len(t.exec.body) + 1 /\ DOMAIN suppl = 1 .. Len(t.exec.body) + 1
  BY <1>1, <1>4 DEF RuleTaskIs
<1>6. \A m \in DOMAIN suppl : suppl[m] \subseteq RowsOf(t.exec, m, M)
  BY <1>1, <1>4, <1>5 DEF RuleTaskIs
<1> HIDE DEF suppl
<1>7. t2 \in RuleTasks(P) /\ t2.suppl = suppl /\ t2.exec = t.exec /\ t2.next = t.next
  BY <1>1, <1>4 DEF RuleTasks
<1> HIDE DEF t2
<1>8. RuleTaskOK(t2, P, M)
  BY <1>1, <1>5, <1>6, <1>7 DEF RuleTaskOK
<1>9. t2 = [t EXCEPT !.suppl[j] = @ \cup rows]
  BY DEF t2, suppl
<1> QED
  BY <1>8, <1>9

LEMMA JoinAtomOK ==
  ASSUME NEW P \in Programs, NEW M, NEW rs, NEW n, NEW stack, StackOK(stack, P, M, rs, n),
         stack # << >>, RuleTaskOK(Last(stack), P, M), NEW j, j = Last(stack).next - 1,
         NEW rows \in SUBSET AtomRows(Last(stack).exec, j, M),
         InputsOK(inputs), JoinAtom(stack, j, rows)
  PROVE  Continues(P, M, rs, n)
<1> DEFINE t == Last(stack)
           x == t.exec
           new == Joined(x, j, rows, t.suppl[j])
           t2 == [t EXCEPT !.suppl[j + 1] = @ \cup new]
           s2 == [stack EXCEPT ![Len(stack)].suppl[j + 1] = @ \cup new]
<1>1. stack \in Seq(Tasks(P)) /\ RuleTaskIs(t, P, M)
  BY RuleTaskFacts DEF StackOK
<1>2. IsExecutor(x) /\ j \in 1 .. Len(x.body) /\ j + 1 \in 1 .. Len(x.body) + 1 /\ j \in 1 .. Len(x.body) + 1
  BY <1>1 DEF RuleTaskIs
<1>3. new \in SUBSET RowsOf(x, j + 1, M)
  <2>1. t.suppl[j] \in SUBSET RowsOf(x, j, M)
    BY <1>1, <1>2 DEF RuleTaskIs
  <2> HIDE DEF x
  <2> QED
    BY <2>1, <1>2, JoinedOK DEF x
<1>4. RuleTaskOK(t2, P, M)
  <2> HIDE DEF new
  <2> QED
    BY <1>2, <1>3, RuleTaskGrows
<1>5. s2 = [stack EXCEPT ![Len(stack)] = t2]
  <2>1. t = stack[Len(stack)] /\ Len(stack) \in DOMAIN stack
    <3>1. DOMAIN stack = 1 .. Len(stack)
      BY <1>1
    <3>2. Len(stack) \in Nat \ {0} /\ Last(stack) = stack[Len(stack)]
      BY <1>1, SequenceEnds
    <3> QED
      BY <3>1, <3>2
  <2> HIDE DEF new
  <2> QED
    BY <2>1
<1>6. t2 \in Tasks(P)
  BY <1>4 DEF RuleTaskOK, Tasks
<1>7. StackOK(s2, P, M, rs, n)
  <2>1. StackOK(Front(stack), P, M, rs, n)
    BY StackTop DEF TopOK
  <2> HIDE DEF t2
  <2>2. StackOK(Append(Front(stack), t2), P, M, rs, n)
    BY <2>1, <1>4, StackPush
  <2>3. [stack EXCEPT ![Len(stack)] = t2] = Append(Front(stack), t2)
    BY <1>1, <1>6, TopChanged
  <2> HIDE DEF s2
  <2> QED
    BY <2>2, <2>3, <1>5
<1>8. tasks' = stack \/ tasks' = s2
  BY DEF JoinAtom
<1>9. call' = NoCall /\ inputs' = inputs /\ pc' \in {pc, "cartesian"}
  BY DEF JoinAtom
<1> HIDE DEF s2
<1> QED
  BY <1>7, <1>8, <1>9 DEF Continues, CallOK

LEMMA InputsAppended ==
  ASSUME NEW k \in Keys, NEW s, InputOK(s, k), NEW S \in SUBSET Tuples(Cardinality(k[2])),
         S \cap ToSet(s) = {}
  PROVE  InputOK(s \o SetToSeq(S), k)
<1> DEFINE T == Tuples(Cardinality(k[2]))
           more == SetToSeq(S)
           both == s \o more
<1>1. IsFiniteSet(S)
  <2>1. IsFiniteSet(T)
    BY KeyFacts, TermAssumption, FiniteTuples DEF Tuples
  <2> HIDE DEF T
  <2> QED
    BY <2>1, FS_Subset DEF T
<1>2. more \in Seq(S) /\ ToSet(more) = S /\ \A i, j \in DOMAIN more : more[i] = more[j] => i = j
  BY <1>1, SetToSeqFacts
<1> HIDE DEF more
<1>3. s \in Seq(T) /\ more \in Seq(T) /\ \A i, j \in DOMAIN s : s[i] = s[j] => i = j
  BY <1>2 DEF InputOK
<1> HIDE DEF T
<1>4. both \in Seq(T) /\ Len(both) = Len(s) + Len(more)
  BY <1>3, ConcatProperties
<1>5. Len(s) \in Nat /\ Len(more) \in Nat /\ DOMAIN s = 1 .. Len(s) /\ DOMAIN more = 1 .. Len(more)
  BY <1>3
<1>6. DOMAIN both = 1 .. Len(s) + Len(more)
  BY <1>4
<1>7. \A i \in 1 .. Len(s) + Len(more) :
        /\ i <= Len(s) => i \in DOMAIN s /\ both[i] = s[i]
        /\ i > Len(s) => i - Len(s) \in DOMAIN more /\ both[i] = more[i - Len(s)]
  BY <1>3, ConcatenationAt
<1>8. \A i \in DOMAIN s, m \in DOMAIN more : s[i] # more[m]
  BY <1>2 DEF ToSet
<1> HIDE DEF both
<1>9. ASSUME NEW i \in DOMAIN both, NEW j \in DOMAIN both, both[i] = both[j]
      PROVE  i = j
  <2>1. CASE i <= Len(s) /\ j <= Len(s)
    BY <1>3, <1>6, <1>7, <1>9, <2>1
  <2>2. CASE i > Len(s) /\ j > Len(s)
    <3>1. i - Len(s) = j - Len(s)
      BY <1>2, <1>6, <1>7, <1>9, <2>2
    <3> QED
      BY <3>1, <1>5, <1>6
  <2>3. CASE i <= Len(s) /\ j > Len(s)
    BY <1>6, <1>7, <1>8, <1>9, <2>3
  <2>4. CASE i > Len(s) /\ j <= Len(s)
    BY <1>6, <1>7, <1>8, <1>9, <2>4
  <2> QED
    BY <1>5, <1>6, <2>1, <2>2, <2>3, <2>4
<1> QED
  BY <1>4, <1>9 DEF InputOK, both, more, T

LEMMA EvaluateAtomOK ==
  ASSUME NEW P \in Programs, NEW M, NEW rs, NEW n, NEW stack, StackOK(stack, P, M, rs, n),
         stack # << >>, RuleTaskOK(Last(stack), P, M), NEW j, j = Last(stack).next - 1,
         db \in Databases, IsModelOf(M, P, db), InputsOK(inputs), AnswersOK(answers, M),
         EvaluateAtom(stack, j)
  PROVE  Continues(P, M, rs, n)
<1> DEFINE t == Last(stack)
           x == t.exec
           l == x.body[j]
           fresh == NewInputs(t, j)
<1>1. RuleTaskIs(t, P, M)
  BY RuleTaskFacts
<1>2. IsExecutor(x) /\ j \in 1 .. Len(x.body) /\ (RepeatsAreBound => RepeatsBound(x))
  BY <1>1 DEF RuleTaskIs, Prepared
<1>3. CASE l.pred \in EDBPreds
  <2>1. JoinAtom(stack, j, EDBRows(l))
    BY <1>3 DEF EvaluateAtom
  <2>2. EDBRows(l) \in SUBSET AtomRows(x, j, M)
    <3> HIDE DEF x
    <3> QED
      BY <1>2, <1>3, EDBRowsOK
  <2> QED
    BY <2>1, <2>2, JoinAtomOK
<1>4. ASSUME l.pred \notin EDBPreds
      PROVE  l.pred \in IDBPreds /\ KeyOf(l) \in Keys /\ KeyOf(l)[2] = l.bound /\ KeyOf(l)[1] = l.pred
  <2> HIDE DEF x
  <2> QED
    BY <1>2, <1>4, AtomFacts
<1>5. CASE l.pred \notin EDBPreds /\ fresh = {}
  <2>1. JoinAtom(stack, j, AnswerRows(l))
    BY <1>5 DEF EvaluateAtom
  <2>2. answers[KeyOf(l)] \subseteq TuplesOf(l.pred, M)
    BY <1>4, <1>5 DEF AnswersOK
  <2>3. AnswerRows(l) \in SUBSET AtomRows(x, j, M)
    <3> HIDE DEF x
    <3> QED
      BY <1>2, <1>4, <1>5, <2>2, AnswerRowsOK
  <2> QED
    BY <2>1, <2>3, JoinAtomOK
<1>6. CASE l.pred \notin EDBPreds /\ fresh # {}
  <2> DEFINE sub == [type |-> "RULE_QUERY", next |-> j]
             k == KeyOf(l)
  <2>1. /\ inputs' = [inputs EXCEPT ![k] = @ \o SetToSeq(fresh)]
        /\ tasks' = Append(stack, sub)
        /\ call' = [key |-> k, offset |-> Len(inputs[k]), repeat |-> TRUE]
        /\ pc' = pc
    BY <1>6 DEF EvaluateAtom
  <2>2. t.suppl[j] \in SUBSET Tuples(Len(x.sig[j]))
    BY <1>1, <1>2 DEF RuleTaskIs
  <2>3. fresh \in SUBSET Tuples(Cardinality(k[2])) /\ fresh \cap ToSet(inputs[k]) = {}
    <3>1. fresh = Passed(x, j, t.suppl[j]) \ ToSet(inputs[k])
      BY DEF NewInputs
    <3>2. Passed(x, j, t.suppl[j]) \subseteq Tuples(Cardinality(l.bound))
      <4> HIDE DEF x
      <4> QED
        BY <1>2, <2>2, PassedType
    <3> QED
      BY <3>1, <3>2, <1>4, <1>6
  <2> HIDE DEF fresh
  <2>4. k \in Keys /\ InputOK(inputs[k], k)
    BY <1>4, <1>6 DEF InputsOK
  <2>5. InputOK(inputs[k] \o SetToSeq(fresh), k)
    <3> HIDE DEF k
    <3> QED
      BY <2>3, <2>4, InputsAppended
  <2>6. InputsOK(inputs')
    <3> DEFINE g == inputs[k] \o SetToSeq(fresh)
    <3>1. InputOK(g, k) /\ k \in Keys
      BY <2>4, <2>5
    <3>2. inputs' = [inputs EXCEPT ![k] = g]
      BY <2>1
    <3> HIDE DEF k, g
    <3> QED
      BY <3>1, <3>2 DEF InputsOK
  <2>7. CallOK(call')
    <3>1. Len(inputs[k]) \in Nat
      BY <2>4 DEF InputOK
    <3> HIDE DEF k
    <3> QED
      BY <2>1, <2>4, <3>1 DEF CallOK
  <2>8. SubQueryOK(sub, t, P, M)
    BY <1>2, <1>4, <1>6 DEF SubQueryOK, SubQueries
  <2>9. StackOK(tasks', P, M, rs, n)
    <3> HIDE DEF sub
    <3> QED
      BY <2>1, <2>8, StackPush
  <2> QED
    BY <2>1, <2>6, <2>7, <2>9 DEF Continues
<1> QED
  BY <1>3, <1>5, <1>6

\* A rule that begins: its first supplementary relation is filled.
LEMMA RuleBegins ==
  ASSUME NEW P \in Programs, NEW M, NEW x \in AllExecutors(P), NEW rows \in SUBSET RowsOf(x, 1, M)
  PROVE  RuleTaskOK(RuleTask(x, 2, <<rows>> \o [j \in DOMAIN x.body |-> {}]), P, M)
<1> DEFINE n == Len(x.body)
           none == [j \in DOMAIN x.body |-> {}]
           suppl == <<rows>> \o none
           t == RuleTask(x, 2, suppl)
           V == SUBSET Seq(Values)
<1>1. IsExecutor(x) /\ n \in Nat \ {0} /\ DOMAIN x.body = 1 .. n
  BY AllExecutorsFacts DEF Prepared, IsExecutor, IsRule
<1>2. rows \in V
  <2>1. 1 \in 1 .. Len(x.body) + 1
    BY <1>1
  <2> QED
    BY <1>1, <2>1, RowsAreSequences DEF RowsOf
<1> HIDE DEF V
<1>3. none \in Seq(V) /\ Len(none) = n /\ \A i \in 1 .. n : none[i] = {}
  <2>1. {} \in V
    BY DEF V
  <2> HIDE DEF n
  <2> QED
    BY <1>1, <2>1
<1> HIDE DEF none
<1>4. suppl \in Seq(V) /\ Len(suppl) = n + 1 /\ suppl[1] = rows /\ \A i \in 2 .. n + 1 : suppl[i] = {}
  <2>1. <<rows>> \in Seq(V) /\ Len(<<rows>>) = 1 /\ <<rows>>[1] = rows
    BY <1>2
  <2>2. suppl \in Seq(V) /\ Len(suppl) = 1 + n
    BY <1>3, <2>1, ConcatProperties
  <2>3. \A i \in 1 .. Len(<<rows>>) + Len(none) :
          /\ i <= Len(<<rows>>) => i \in DOMAIN <<rows>> /\ suppl[i] = <<rows>>[i]
          /\ i > Len(<<rows>>) => i - Len(<<rows>>) \in DOMAIN none /\ suppl[i] = none[i - Len(<<rows>>)]
    BY <1>3, <2>1, ConcatenationAt
  <2> HIDE DEF suppl, n
  <2>4. suppl[1] = rows
    BY <1>1, <1>3, <2>1, <2>3
  <2>5. \A i \in 2 .. n + 1 : suppl[i] = {}
    BY <1>1, <1>3, <2>1, <2>3
  <2> QED
    BY <1>1, <2>2, <2>4, <2>5
<1>5. DOMAIN suppl = 1 .. n + 1
  BY <1>1, <1>4
<1> HIDE DEF suppl
<1>6. t \in RuleTasks(P) /\ t.exec = x /\ t.next = 2 /\ t.suppl = suppl
  BY <1>4 DEF RuleTasks, RuleTask, V
<1>7. \A m \in DOMAIN suppl : suppl[m] \subseteq RowsOf(x, m, M)
  BY <1>1, <1>4, <1>5
<1> HIDE DEF t
<1>8. RuleTaskOK(t, P, M)
  BY <1>1, <1>4, <1>6, <1>7 DEF RuleTaskOK
<1> QED
  BY <1>8 DEF t, suppl, none

\* The inputs after the offset fill the first supplementary relation.
LEMMA FirstRowsTyped ==
  ASSUME NEW P \in Programs, NEW M, NEW x \in AllExecutors(P), NEW k, k = KeyOf(x.head), NEW offset \in Nat,
         InputsOK(inputs)
  PROVE  FirstRows(x, ToSet(SubSeq(inputs[k], offset + 1, Len(inputs[k])))) \in SUBSET RowsOf(x, 1, M)
<1> DEFINE T == Tuples(Cardinality(k[2]))
           s == inputs[k]
           asks == SubSeq(s, offset + 1, Len(s))
<1>1. k \in Keys /\ IsExecutor(x) /\ k[2] = x.head.bound
  BY AllExecutorsFacts DEF Prepared, KeyOf
<1>2. s \in Seq(T)
  BY <1>1 DEF InputsOK, InputOK
<1>3. ToSet(asks) \subseteq T
  <2> HIDE DEF T, s
  <2>1. s \in Seq(T) /\ Len(s) \in Nat
    BY <1>2
  <2>2. asks \in Seq(T)
    BY <2>1
  <2> HIDE DEF asks
  <2> QED
    BY <2>2 DEF ToSet
<1> HIDE DEF asks
<1>4. FirstRows(x, ToSet(asks)) \in SUBSET RowsOf(x, 1, M)
  BY <1>1, <1>3, FirstRowsOK
<1> QED
  BY <1>4 DEF asks, s

LEMMA EvaluateRuleOK ==
  ASSUME NEW P \in Programs, NEW M, NEW rs, NEW n, NEW stack, StackOK(stack, P, M, rs, n),
         NEW x \in AllExecutors(P), NEW k, k = KeyOf(x.head), NEW offset \in Nat,
         db \in Databases, IsModelOf(M, P, db), InputsOK(inputs), AnswersOK(answers, M),
         EvaluateRule(stack, x, k, offset)
  PROVE  Continues(P, M, rs, n)
<1> DEFINE asks == SubSeq(inputs[k], offset + 1, Len(inputs[k]))
           rows == FirstRows(x, ToSet(asks))
           t == RuleTask(x, 2, <<rows>> \o [j \in DOMAIN x.body |-> {}])
           s2 == Append(stack, t)
<1>1. k \in Keys /\ IsExecutor(x) /\ k[2] = x.head.bound
  BY AllExecutorsFacts DEF Prepared, KeyOf
<1>2. rows \in SUBSET RowsOf(x, 1, M)
  BY FirstRowsTyped
<1>3. CASE rows = {}
  BY <1>3 DEF EvaluateRule, Continues, CallOK
<1>4. CASE rows # {}
  <2>1. EvaluateAtom(s2, 1)
    BY <1>4 DEF EvaluateRule
  <2>2. RuleTaskOK(t, P, M) /\ t.next = 2
    <3> HIDE DEF rows
    <3> QED
      BY <1>2, RuleBegins DEF RuleTask
  <2> HIDE DEF t
  <2>3. StackOK(s2, P, M, rs, n) /\ s2 # << >> /\ Last(s2) = t
    BY <2>2, StackPush
  <2> HIDE DEF s2
  <2>4. 1 = Last(s2).next - 1 /\ RuleTaskOK(Last(s2), P, M)
    BY <2>2, <2>3
  <2> QED
    BY <2>1, <2>3, <2>4, EvaluateAtomOK
<1> QED
  BY <1>3, <1>4

-----------------------------------------------------------------------------
(* The invariant                                                           *)

GivenOK ==
  /\ program \in Programs /\ db \in Databases
  /\ query = [pred |-> query.pred, args |-> query.args, joins |-> query.joins, values |-> query.values]
  /\ query.pred \in IDBPreds
  /\ query.args \in [1 .. Arity[query.pred] -> Variables \cup Values]
  /\ query.joins \subseteq DOMAIN query.args
  /\ \A v \in query.values : \A i \in query.joins : v[i] \in Values

PcOK ==
  /\ pc \in {"start", "running", "done", "unplannable", "cartesian"}
  /\ pc \in {"start", "done"} => tasks = << >> /\ call = NoCall
  /\ total \in Nat

RulesOK(rs, P) ==
  DOMAIN rs = Keys /\ \A k \in Keys : rs[k] = << >> \/ rs[k] = ExecutorsOf(P, k)

IInv ==
  /\ GivenOK /\ PcOK /\ CallOK(call)
  /\ RulesOK(rules, program) /\ InputsOK(inputs) /\ AnswersOK(answers, Meaning)
  /\ StackOK(tasks, program, Meaning, rules, AnswerCount)

\* What AnswerCount counts.
Found(A) == UNION { {k} \X A[k] : k \in Keys }

LEMMA KeysFinite == IsFiniteSet(Keys)
<1> DEFINE of == [p \in IDBPreds |-> {p} \X SUBSET (1 .. Arity[p])]
<1>1. IsFiniteSet(IDBPreds) /\ \A p \in IDBPreds : Arity[p] \in Nat
  BY PredicateAssumption, FS_Subset DEF IDBPreds
<1>2. \A p \in IDBPreds : IsFiniteSet(of[p])
  <2> TAKE p \in IDBPreds
  <2>1. IsFiniteSet(1 .. Arity[p])
    <3>1. \A n \in Nat : IsFiniteSet(1 .. n)
      BY FS_Interval
    <3> QED
      BY <3>1, <1>1
  <2>2. IsFiniteSet(SUBSET (1 .. Arity[p]))
    BY <2>1, FS_SUBSET
  <2>3. IsFiniteSet({p})
    BY FS_Singleton
  <2>4. IsFiniteSet({p} \X SUBSET (1 .. Arity[p]))
    BY <2>2, <2>3, FS_Product
  <2> QED
    BY <2>4
<1>3. DOMAIN of = IDBPreds /\ of = [p \in IDBPreds |-> of[p]]
  OBVIOUS
<1>4. Keys = UNION { of[p] : p \in IDBPreds }
  BY DEF Keys
<1> HIDE DEF of
<1>5. IsFiniteSet({ of[p] : p \in IDBPreds })
  BY <1>1, <1>3, ImageFinite
<1>6. IsFiniteSet(UNION { of[p] : p \in IDBPreds })
  BY <1>2, <1>5, FS_UNION
<1> QED
  BY <1>4, <1>6

LEMMA FoundFinite ==
  ASSUME NEW A, \A k \in Keys : A[k] \subseteq Tuples(Arity[k[1]])
  PROVE  IsFiniteSet(Found(A)) /\ Cardinality(Found(A)) \in Nat
<1>1. \A k \in Keys : A[k] \subseteq AllTuples
  BY KeyFacts, AllTuplesFinite DEF Tuples
<1>2. Found(A) \subseteq Keys \X AllTuples
  BY <1>1 DEF Found
<1>3. IsFiniteSet(Keys \X AllTuples)
  BY KeysFinite, AllTuplesFinite, FS_Product
<1> QED
  BY <1>2, <1>3, FS_Subset, FS_CardinalityType

\* More answers, counted.
LEMMA FoundGrows ==
  ASSUME NEW A, NEW B, \A k \in Keys : A[k] \subseteq B[k] /\ B[k] \subseteq Tuples(Arity[k[1]])
  PROVE  /\ Cardinality(Found(A)) <= Cardinality(Found(B))
         /\ (\E k \in Keys : B[k] # A[k]) => Cardinality(Found(A)) < Cardinality(Found(B))
<1>1. /\ IsFiniteSet(Found(A)) /\ IsFiniteSet(Found(B))
      /\ Cardinality(Found(A)) \in Nat /\ Cardinality(Found(B)) \in Nat
  BY FoundFinite
<1>2. Found(A) \subseteq Found(B)
  BY DEF Found
<1>3. ASSUME NEW k \in Keys, B[k] # A[k] PROVE Found(A) # Found(B)
  <2>1. PICK u \in B[k] : u \notin A[k]
    BY <1>3
  <2>2. <<k, u>> \in Found(B)
    BY <2>1 DEF Found
  <2>3. <<k, u>> \notin Found(A)
    BY <2>1 DEF Found
  <2> QED
    BY <2>2, <2>3
<1>4. Cardinality(Found(A)) <= Cardinality(Found(B))
  BY <1>1, <1>2, FS_Subset
<1>5. Found(A) # Found(B) => Cardinality(Found(A)) < Cardinality(Found(B))
  BY <1>1, <1>2, FS_Subset
<1> QED
  BY <1>3, <1>4, <1>5

\* What every step of the evaluation may use.
Stable ==
  /\ program \in Programs /\ db \in Databases /\ IsModelOf(Meaning, program, db)
  /\ AnswerCount \in Nat /\ AnswerCount = Cardinality(Found(answers))
  /\ \A k \in Keys : RulesFor(k) = RuleList(program, k)

LEMMA StableFacts ==
  ASSUME GivenOK, AnswersOK(answers, Meaning)
  PROVE  Stable
<1>1. program \in Programs /\ db \in Databases
  BY DEF GivenOK
<1>2. Meaning = LeastModel(program, db)
  BY <1>1 DEF Meaning, Models
<1>3. IsModelOf(Meaning, program, db)
  BY <1>1, <1>2, MeaningIsModel
<1>4. AnswerCount = Cardinality(Found(answers))
  BY DEF AnswerCount, Found
<1>5. AnswerCount \in Nat
  BY <1>4, FoundFinite DEF AnswersOK, TuplesOf
<1>6. \A k \in Keys : RulesFor(k) = RuleList(program, k)
  BY DEF RulesFor, RuleList
<1> QED
  BY <1>1, <1>3, <1>4, <1>5, <1>6 DEF Stable

LEMMA SeedsFacts ==
  ASSUME GivenOK
  PROVE  QueryKey \in Keys /\ Seeds \subseteq Tuples(Cardinality(QueryKey[2]))
<1> DEFINE n == Arity[query.pred]
           bound == QueryKey[2]
           C == ConstantPositions(query)
<1>1. n \in Nat /\ query.pred \in IDBPreds /\ query.args \in [1 .. n -> Terms] /\ DOMAIN query.args = 1 .. n
  BY PredicateAssumption DEF GivenOK, Terms, IDBPreds
<1>2. QueryKey = <<query.pred, C \cup query.joins>> /\ bound = C \cup query.joins
  BY DEF QueryKey
<1>3. bound \in SUBSET (1 .. n)
  BY <1>1, <1>2 DEF ConstantPositions, GivenOK
<1>4. \A i \in 1 .. n : i \in C => query.args[i] \in Values
  BY <1>1 DEF ConstantPositions, Terms
<1>5. QueryKey \in Keys
  BY <1>1, <1>2, <1>3 DEF Keys
<1>6. ASSUME NEW v \in query.values
      PROVE  Pick([i \in DOMAIN query.args |-> IF i \in query.joins THEN v[i] ELSE query.args[i]], bound)
               \in Tuples(Cardinality(bound))
  <2> DEFINE s == [i \in DOMAIN query.args |-> IF i \in query.joins THEN v[i] ELSE query.args[i]]
             T == Terms \cup Values
  <2>1. \A i \in query.joins : v[i] \in Values
    BY DEF GivenOK
  <2>2. s \in [1 .. n -> T] /\ \A i \in bound : s[i] \in Values
    BY <1>1, <1>2, <1>3, <1>4, <2>1
  <2> HIDE DEF s, T, bound
  <2>3. s \in Seq(T) /\ DOMAIN s = 1 .. n
    BY <1>1, <2>2, FunctionIsSequence
  <2>4. Picked(T, s, bound)
    BY <2>3, PickFacts
  <2>5. bound \cap DOMAIN s = bound
    BY <1>3, <2>3
  <2>6. Pick(s, bound) \in Seq(T) /\ Len(Pick(s, bound)) = Cardinality(bound)
    BY <2>4, <2>5 DEF Picked
  <2>7. \A k \in DOMAIN Pick(s, bound) : Pick(s, bound)[k] \in Values
    BY <2>2, <2>4, <2>5 DEF Picked
  <2>8. Pick(s, bound) \in [1 .. Cardinality(bound) -> Values]
    <3> DEFINE p == Pick(s, bound)
    <3>1. DOMAIN p = 1 .. Cardinality(bound) /\ p = [k \in DOMAIN p |-> p[k]]
      BY <2>6
    <3> HIDE DEF p
    <3> QED
      BY <3>1, <2>7 DEF p
  <2> QED
    BY <2>8 DEF Tuples, s
<1> QED
  BY <1>5, <1>6 DEF Seeds

LEMMA StartsOK ==
  ASSUME IInv, tasks = << >>, BeginRound
  PROVE  IInv'
<1>1. Stable
  BY StableFacts DEF IInv
<1>2. QueryKey \in Keys /\ Seeds \in SUBSET Tuples(Cardinality(QueryKey[2]))
  BY SeedsFacts DEF IInv
<1>3. Meaning' = Meaning /\ AnswerCount' = AnswerCount
  BY DEF BeginRound, given, Meaning, AnswerCount
<1>4. InputsOK(inputs')
  <2>1. inputs' = [k \in Keys |-> IF k = QueryKey THEN SetToSeq(Seeds) ELSE << >>]
    BY DEF BeginRound
  <2>2. \A k \in Keys : InputOK(<< >>, k)
    BY DEF InputOK
  <2>3. InputOK(<< >> \o SetToSeq(Seeds), QueryKey)
    <3>1. Seeds \cap ToSet(<< >>) = {}
      BY DEF ToSet
    <3> QED
      BY <1>2, <2>2, <3>1, InputsAppended
  <2>4. << >> \o SetToSeq(Seeds) = SetToSeq(Seeds)
    <3> DEFINE T == Tuples(Cardinality(QueryKey[2]))
    <3>1. IsFiniteSet(T)
      BY <1>2, KeyFacts, TermAssumption, FiniteTuples DEF Tuples
    <3>2. IsFiniteSet(Seeds)
      <4> HIDE DEF T
      <4> QED
        BY <1>2, <3>1, FS_Subset DEF T
    <3>3. SetToSeq(Seeds) \in Seq(Seeds)
      BY <3>2, SetToSeqFacts
    <3> QED
      BY <3>3, ConcatEmptySeq
  <2> QED
    BY <2>1, <2>2, <2>3, <2>4 DEF InputsOK
<1>5. CallOK(call')
  BY <1>2 DEF BeginRound, CallOK
<1>6. PcOK'
  BY <1>1 DEF BeginRound, PcOK, Stable
<1>7. GivenOK'
  BY DEF IInv, GivenOK, BeginRound, given
<1>8. RulesOK(rules', program') /\ AnswersOK(answers', Meaning)
  BY DEF IInv, BeginRound, given
<1>9. StackOK(tasks', program', Meaning, rules', AnswerCount)
  BY StackEmpty DEF BeginRound
<1> QED
  BY <1>3, <1>4, <1>5, <1>6, <1>7, <1>8, <1>9 DEF IInv

\* A step of the evaluation that continues.
LEMMA ContinuesOK ==
  ASSUME IInv, pc = "running", UNCHANGED <<given, total>>, RulesOK(rules', program), AnswersOK(answers', Meaning),
         Continues(program, Meaning, rules', Cardinality(Found(answers')))
  PROVE  IInv'
<1>1. Meaning' = Meaning
  BY DEF given, Meaning
<1>2. AnswerCount' = Cardinality(Found(answers'))
  BY DEF AnswerCount, Found
<1>3. PcOK'
  BY DEF IInv, PcOK, Continues
<1>4. GivenOK'
  BY DEF IInv, GivenOK, given
<1>5. program' = program
  BY DEF given
<1> QED
  BY <1>1, <1>2, <1>3, <1>4, <1>5 DEF IInv, Continues

LEMMA InitOK ==
  ASSUME Init
  PROVE  IInv
<1>1. program \in Programs /\ db \in Databases /\ query \in Queries
  BY DEF Init
<1>2. GivenOK
  BY <1>1, QueryAssumption DEF GivenOK
<1>3. pc = "start" /\ tasks = << >> /\ total = 0 /\ call = NoCall
  BY DEF Init
<1>4. PcOK /\ CallOK(call)
  BY <1>3 DEF PcOK, CallOK
<1>5. RulesOK(rules, program)
  BY DEF Init, RulesOK
<1>6. InputsOK(inputs)
  BY DEF Init, InputsOK, InputOK
<1>7. AnswersOK(answers, Meaning)
  BY DEF Init, AnswersOK
<1>8. StackOK(tasks, program, Meaning, rules, AnswerCount)
  BY <1>3, StackEmpty
<1> QED
  BY <1>2, <1>4, <1>5, <1>6, <1>7, <1>8 DEF IInv

LEMMA StartOK ==
  ASSUME IInv, Start \/ RepeatRound
  PROVE  IInv'
<1>1. tasks = << >> /\ BeginRound
  BY DEF IInv, PcOK, Start, RepeatRound, RoundOver
<1> QED
  BY <1>1, StartsOK

LEMMA FinishOK ==
  ASSUME IInv, Finish
  PROVE  IInv'
<1>1. /\ tasks = << >> /\ call = NoCall
      /\ tasks' = tasks /\ call' = call /\ pc' = "done" /\ total' = total
      /\ rules' = rules /\ inputs' = inputs /\ answers' = answers
      /\ program' = program /\ db' = db /\ query' = query
  BY DEF Finish, RoundOver, given
<1>2. Meaning' = Meaning /\ AnswerCount' = AnswerCount
  BY <1>1 DEF Meaning, AnswerCount
<1>3. PcOK' /\ CallOK(call')
  BY <1>1 DEF IInv, PcOK, CallOK
<1>4. GivenOK'
  BY <1>1 DEF IInv, GivenOK
<1> QED
  BY <1>1, <1>2, <1>3, <1>4 DEF IInv

LEMMA AskAgainOK ==
  ASSUME IInv, AskAgain
  PROVE  IInv'
<1>1. /\ tasks = << >> /\ call = NoCall
      /\ tasks' = tasks /\ call' = call /\ pc' = "start" /\ total' = total
      /\ rules' = [k \in Keys |-> << >>] /\ inputs' = inputs /\ answers' = answers
      /\ program' = program /\ db' = db /\ query' = [query EXCEPT !.values = Remaining]
  BY DEF AskAgain, IInv, PcOK
<1>2. Meaning' = Meaning
  BY <1>1 DEF Meaning
<1>3. PcOK' /\ CallOK(call')
  BY <1>1 DEF IInv, PcOK, CallOK
<1>4. Remaining \subseteq query.values
  BY DEF Remaining
<1>5. query = [pred |-> query.pred, args |-> query.args, joins |-> query.joins, values |-> query.values]
  BY DEF IInv, GivenOK
<1>6. query' = [pred |-> query.pred, args |-> query.args, joins |-> query.joins, values |-> Remaining]
  <2> HIDE DEF Remaining
  <2> QED
    BY <1>1, <1>5
<1>7. /\ query'.pred = query.pred /\ query'.args = query.args /\ query'.joins = query.joins
      /\ query'.values = Remaining
  BY <1>6
<1>8. GivenOK'
  BY <1>1, <1>4, <1>6, <1>7 DEF IInv, GivenOK
<1>9. RulesOK(rules', program')
  BY <1>1 DEF RulesOK
<1>10. StackOK(tasks', program', Meaning', rules', AnswerCount')
  BY <1>1, StackEmpty
<1> QED
  BY <1>1, <1>2, <1>3, <1>8, <1>9, <1>10 DEF IInv

\* Entering QSQR::evaluate: the executors are there, and the task of the query.
QueryBegun == QueryTask(call.key, 2, call.offset, call.repeat, AnswerCount)

LEMMA QueryBegins ==
  ASSUME IInv, Evaluate, CreateRules(call.key)
  PROVE  /\ RulesOK(rules', program) /\ StackOK(tasks, program, Meaning, rules', AnswerCount)
         /\ RulesFor(call.key) # << >> =>
              /\ QueryTaskOK(QueryBegun, program, rules', AnswerCount)
              /\ QueryBegun.next = 2 /\ QueryBegun.key = call.key /\ QueryBegun.total = AnswerCount
              /\ QueryBegun.type = "QUERY"
              /\ StackOK(Append(tasks, QueryBegun), program, Meaning, rules', AnswerCount)
              /\ rules'[call.key][1] \in AllExecutors(program)
              /\ call.key = KeyOf(rules'[call.key][1].head)
<1> DEFINE k == call.key
           R == RuleList(program, k)
           n == AnswerCount
           t == QueryBegun
<1>1. Stable
  BY StableFacts DEF IInv
<1>2. k \in Keys /\ call.offset \in Nat /\ call.repeat \in BOOLEAN
  BY DEF IInv, CallOK, Evaluate
<1>3. RulesFor(k) = R
  BY <1>1, <1>2 DEF Stable
<1>4. RulesOK(rules', program) /\ rules'[k] = ExecutorsOf(program, k)
  <2>1. RulesOK(rules, program)
    BY DEF IInv
  <2>2. CASE rules[k] # << >>
    BY <1>2, <2>1, <2>2 DEF CreateRules, RulesOK
  <2>3. CASE rules[k] = << >>
    <3>1. rules' = [rules EXCEPT ![k] = ExecutorsOf(program, k)]
      BY <1>3, <2>3 DEF CreateRules, ExecutorsOf
    <3> HIDE DEF k
    <3> QED
      BY <1>2, <2>1, <3>1 DEF RulesOK
  <2> QED
    BY <2>2, <2>3
<1>5. StackOK(tasks, program, Meaning, rules', n)
  <2>1. \A key \in Keys : rules[key] = ExecutorsOf(program, key) => rules'[key] = ExecutorsOf(program, key)
    <3> TAKE key \in Keys
    <3>1. CASE key = k
      BY <1>4, <3>1
    <3>2. CASE key # k
      BY <3>2 DEF CreateRules
    <3> QED
      BY <3>1, <3>2
  <2>2. n \in Int /\ n <= n
    BY <1>1 DEF Stable
  <2>3. StackOK(tasks, program, Meaning, rules, n)
    BY DEF IInv
  <2> HIDE DEF n
  <2> QED
    BY <2>1, <2>2, <2>3, StackKept
<1>6. ASSUME R # << >>
      PROVE  /\ QueryTaskOK(t, program, rules', n) /\ t.next = 2 /\ t.key = k /\ t.total = n /\ t.type = "QUERY"
             /\ StackOK(Append(tasks, t), program, Meaning, rules', n)
             /\ rules'[k][1] \in AllExecutors(program) /\ k = KeyOf(rules'[k][1].head)
  <2>1. 1 \in DOMAIN R /\ Len(R) >= 1 /\ Len(R) \in Nat
    <3>1. R \in Seq(DatalogRules) /\ DOMAIN R = 1 .. Len(R)
      BY <1>1, RuleListFacts DEF Stable
    <3> HIDE DEF R
    <3> QED
      BY <3>1, <1>6, EmptySeq
  <2>2. rules'[k][1] \in AllExecutors(program) /\ k = KeyOf(rules'[k][1].head)
    <3>1. 1 \in DOMAIN ExecutorsOf(program, k)
      BY <1>1, <2>1, RuleListFacts DEF Stable
    <3>2. rules'[k][1] \in AllExecutors(program)
      BY <1>2, <1>4, <3>1 DEF AllExecutors, ToSet
    <3>3. Prepared(rules'[k][1], program, k)
      <4> HIDE DEF k
      <4> QED
        BY <1>1, <1>2, <1>4, <3>1, ExecutorFacts DEF Stable
    <3> QED
      BY <3>2, <3>3 DEF Prepared
  <2>3. n \in Nat
    BY <1>1 DEF Stable
  <2> HIDE DEF n, k
  <2>4. t \in QueryTasks /\ t.next = 2 /\ t.key = k /\ t.total = n /\ t.type = "QUERY"
    BY <1>2, <2>3 DEF QueryBegun, QueryTask, QueryTasks, k, n
  <2> HIDE DEF t
  <2>5. t.next \in 2 .. Len(RuleList(program, t.key)) + 1
    BY <2>1, <2>4
  <2>6. QueryTaskOK(t, program, rules', n)
    BY <1>4, <2>3, <2>4, <2>5 DEF QueryTaskOK
  <2>7. StackOK(Append(tasks, t), program, Meaning, rules', n)
    BY <1>5, <2>6, StackPush
  <2> QED
    BY <2>2, <2>4, <2>6, <2>7
<1> QED
  BY <1>3, <1>4, <1>5, <1>6

LEMMA EvaluateOK ==
  ASSUME IInv, Evaluate
  PROVE  IInv'
<1> DEFINE k == call.key
           n == AnswerCount
           t == QueryBegun
<1>1. Stable
  BY StableFacts DEF IInv
<1>2. pc = "running" /\ k \in Keys /\ call.offset \in Nat /\ CallOK(call)
  BY DEF IInv, CallOK, Evaluate
<1>3. /\ UNCHANGED <<given, total, answers>>
      /\ AnswersOK(answers', Meaning) /\ n = Cardinality(Found(answers'))
  BY <1>1 DEF Evaluate, IInv, Stable
<1>4. CASE pc' = "unplannable" /\ UNCHANGED <<rules, tasks, call, inputs>>
  <2>1. Meaning' = Meaning /\ AnswerCount' = AnswerCount
    BY <1>3 DEF given, Meaning, AnswerCount
  <2>2. PcOK' /\ CallOK(call')
    BY <1>3, <1>4 DEF IInv, PcOK
  <2>3. GivenOK'
    BY <1>3 DEF IInv, GivenOK, given
  <2> QED
    BY <1>3, <1>4, <2>1, <2>2, <2>3 DEF IInv, given
<1>5. CASE CreateRules(k) /\ RulesFor(k) = << >> /\ call' = NoCall /\ UNCHANGED <<pc, tasks, inputs>>
  <2>1. RulesOK(rules', program) /\ StackOK(tasks, program, Meaning, rules', n)
    BY <1>5, QueryBegins
  <2>2. Continues(program, Meaning, rules', n)
    BY <1>5, <2>1 DEF Continues, CallOK, IInv
  <2> QED
    BY <1>2, <1>3, <2>1, <2>2, ContinuesOK
<1>6. CASE CreateRules(k) /\ RulesFor(k) # << >> /\ EvaluateRule(Append(tasks, t), rules'[k][1], k, call.offset)
  <2> DEFINE stack == Append(tasks, t)
             x == rules'[k][1]
  <2>1. /\ RulesOK(rules', program) /\ StackOK(stack, program, Meaning, rules', n)
        /\ x \in AllExecutors(program) /\ k = KeyOf(x.head)
    BY <1>6, QueryBegins
  <2>2. EvaluateRule(stack, x, k, call.offset)
    BY <1>6
  <2>3. Continues(program, Meaning, rules', n)
    <3> HIDE DEF stack, x, k, n
    <3> QED
      BY <1>1, <1>2, <2>1, <2>2, EvaluateRuleOK DEF Stable, IInv
  <2> QED
    BY <1>2, <1>3, <2>1, <2>3, ContinuesOK
<1>7. \/ pc' = "unplannable" /\ UNCHANGED <<rules, tasks, call, inputs>>
      \/ CreateRules(k) /\ RulesFor(k) = << >> /\ call' = NoCall /\ UNCHANGED <<pc, tasks, inputs>>
      \/ CreateRules(k) /\ RulesFor(k) # << >> /\ EvaluateRule(Append(tasks, t), rules'[k][1], k, call.offset)
  BY Zenon DEF Evaluate, QueryBegun
<1> QED
  BY <1>4, <1>5, <1>6, <1>7

\* The task of a query that goes on, with the next rule or with all of them again.
QueryNext == [Last(tasks) EXCEPT !.next = @ + 1]
QueryAgain == [Last(tasks) EXCEPT !.next = 2, !.total = AnswerCount]

\* What the task t becomes when it goes on as t2.
GoesOn(t, t2) ==
  QueryTaskOK(t2, program, rules, AnswerCount) /\ t2.type = "QUERY" /\ t2.key = t.key /\ t2.offset = t.offset

LEMMA QueryGoesOn ==
  ASSUME IInv, Pending("QUERY")
  PROVE  /\ Stable /\ pc = "running" /\ tasks # << >> /\ tasks = Append(Front(tasks), Last(tasks))
         /\ StackOK(Front(tasks), program, Meaning, rules, AnswerCount)
         /\ QueryTaskOK(Last(tasks), program, rules, AnswerCount) /\ Last(tasks).type = "QUERY"
         /\ RulesFor(Last(tasks).key) = RuleList(program, Last(tasks).key)
         /\ Len(RuleList(program, Last(tasks).key)) \in Nat \ {0} /\ Last(tasks).offset \in Nat /\ Last(tasks).key \in Keys
         /\ Last(tasks).next <= Len(RuleList(program, Last(tasks).key)) =>
              GoesOn(Last(tasks), QueryNext) /\ QueryNext.next = Last(tasks).next + 1 /\ QueryNext.total = Last(tasks).total
         /\ GoesOn(Last(tasks), QueryAgain) /\ QueryAgain.next = 2 /\ QueryAgain.total = AnswerCount
<1> DEFINE task == Last(tasks)
           n == AnswerCount
           R == RuleList(program, task.key)
<1>1. Stable /\ pc = "running" /\ tasks # << >> /\ task.type = "QUERY"
  BY StableFacts DEF IInv, Pending
<1>2. TopOK(tasks, program, Meaning, rules, n)
  BY <1>1, StackTop DEF IInv
<1>3. /\ StackOK(Front(tasks), program, Meaning, rules, n) /\ QueryTaskOK(task, program, rules, n)
      /\ tasks = Append(Front(tasks), task)
  BY <1>1, <1>2 DEF TopOK
<1>4. /\ task \in QueryTasks /\ task.key \in Keys /\ task.next \in 2 .. Len(R) + 1 /\ Len(R) \in Nat
      /\ n \in Nat /\ task.offset \in Nat
  BY <1>1, <1>3, RuleListFacts DEF QueryTaskOK, QueryTasks, Stable
<1>5. RulesFor(task.key) = R /\ Len(R) # 0
  BY <1>1, <1>4 DEF Stable
<1>6. ASSUME task.next <= Len(R)
      PROVE  GoesOn(task, QueryNext) /\ QueryNext.next = task.next + 1 /\ QueryNext.total = task.total
  <2> DEFINE t == [task EXCEPT !.next = @ + 1]
  <2> HIDE DEF task
  <2>1. /\ t \in QueryTasks /\ t.key = task.key /\ t.offset = task.offset /\ t.next = task.next + 1
        /\ t.total = task.total /\ t.type = "QUERY"
    BY <1>4 DEF QueryTasks
  <2>2. t.next \in 2 .. Len(RuleList(program, t.key)) + 1
    BY <1>4, <1>6, <2>1
  <2>3. t = QueryNext
    BY DEF QueryNext, task
  <2> HIDE DEF t
  <2> QED
    BY <1>3, <1>4, <2>1, <2>2, <2>3 DEF QueryTaskOK, GoesOn
<1>7. GoesOn(task, QueryAgain) /\ QueryAgain.next = 2 /\ QueryAgain.total = n
  <2> DEFINE t == [task EXCEPT !.next = 2, !.total = n]
  <2> HIDE DEF task, n
  <2>1. /\ t \in QueryTasks /\ t.key = task.key /\ t.offset = task.offset /\ t.next = 2 /\ t.total = n
        /\ t.type = "QUERY"
    BY <1>4 DEF QueryTasks
  <2>2. t.next \in 2 .. Len(RuleList(program, t.key)) + 1
    BY <1>4, <1>5, <2>1
  <2>3. t = QueryAgain
    BY DEF QueryAgain, task, n
  <2> HIDE DEF t
  <2> QED
    BY <1>3, <1>4, <2>1, <2>2, <2>3 DEF QueryTaskOK, GoesOn, n
<1> QED
  BY <1>1, <1>3, <1>4, <1>5, <1>6, <1>7

\* A rule of a query that goes on.
LEMMA RuleOfQuery ==
  ASSUME IInv, Pending("QUERY"), NEW i \in 1 .. Len(RuleList(program, Last(tasks).key))
  PROVE  /\ rules[Last(tasks).key][i] \in AllExecutors(program)
         /\ Last(tasks).key = KeyOf(rules[Last(tasks).key][i].head)
<1> DEFINE k == Last(tasks).key
<1>1. Stable /\ k \in Keys /\ rules[k] = ExecutorsOf(program, k)
  BY QueryGoesOn DEF QueryTaskOK
<1>2. i \in DOMAIN ExecutorsOf(program, k)
  BY <1>1, RuleListFacts DEF Stable
<1>3. rules[k][i] \in AllExecutors(program)
  BY <1>1, <1>2 DEF AllExecutors, ToSet
<1>4. Prepared(rules[k][i], program, k)
  <2> HIDE DEF k
  <2> QED
    BY <1>1, <1>2, ExecutorFacts DEF Stable
<1> QED
  BY <1>3, <1>4 DEF Prepared

LEMMA ProcessQueryOK ==
  ASSUME IInv, ProcessQuery
  PROVE  IInv'
<1> DEFINE task == Last(tasks)
           rest == Front(tasks)
           n == AnswerCount
           R == RuleList(program, task.key)
<1>1. Pending("QUERY")
  BY DEF ProcessQuery
<1>2. /\ Stable /\ pc = "running" /\ StackOK(rest, program, Meaning, rules, n)
      /\ RulesFor(task.key) = R /\ Len(R) \in Nat \ {0} /\ task.offset \in Nat
  BY <1>1, QueryGoesOn
<1>3. /\ UNCHANGED <<given, total>> /\ rules' = rules /\ answers' = answers
      /\ RulesOK(rules', program) /\ AnswersOK(answers', Meaning) /\ n = Cardinality(Found(answers'))
  BY <1>2 DEF ProcessQuery, IInv, Stable
\* Whatever the task becomes and the rule that is evaluated.
<1>4. ASSUME NEW t, GoesOn(task, t), NEW i \in 1 .. Len(R),
             EvaluateRule(Append(rest, t), rules[task.key][i], task.key, task.offset)
      PROVE  IInv'
  <2> DEFINE x == rules[task.key][i]
             k == task.key
             stack == Append(rest, t)
  <2>1. x \in AllExecutors(program) /\ k = KeyOf(x.head)
    BY <1>1, RuleOfQuery
  <2>2. StackOK(stack, program, Meaning, rules', n)
    <3>1. QueryTaskOK(t, program, rules, n)
      BY <1>4 DEF GoesOn
    <3> HIDE DEF rest, n
    <3> QED
      BY <1>2, <1>3, <3>1, StackPush
  <2>3. EvaluateRule(stack, x, k, task.offset)
    BY <1>4
  <2>4. Continues(program, Meaning, rules', n)
    <3> HIDE DEF stack, x, k, n, task
    <3> QED
      BY <1>2, <2>1, <2>2, <2>3, EvaluateRuleOK DEF Stable, IInv
  <2> QED
    BY <1>2, <1>3, <2>4, ContinuesOK
<1>5. CASE task.next <= Len(R)
  <2>1. EvaluateRule(Append(rest, QueryNext), rules[task.key][task.next], task.key, task.offset)
    BY <1>2, <1>5 DEF ProcessQuery, QueryNext
  <2>2. GoesOn(task, QueryNext) /\ task.next \in 2 .. Len(R) + 1
    BY <1>1, <1>5, QueryGoesOn DEF QueryTaskOK
  <2>3. task.next \in 1 .. Len(R)
    BY <1>2, <1>5, <2>2
  <2> QED
    BY <1>4, <2>1, <2>2, <2>3
<1>6. CASE ~(task.next <= Len(R)) /\ Repeats(task)
  <2>1. EvaluateRule(Append(rest, QueryAgain), rules[task.key][1], task.key, task.offset)
    BY <1>2, <1>6 DEF ProcessQuery, QueryAgain
  <2>2. GoesOn(task, QueryAgain) /\ 1 \in 1 .. Len(R)
    BY <1>1, <1>2, QueryGoesOn
  <2> QED
    BY <1>4, <2>1, <2>2
<1>7. CASE ~(task.next <= Len(R)) /\ ~Repeats(task)
  <2>1. tasks' = rest /\ UNCHANGED <<pc, call, inputs>>
    BY <1>2, <1>7 DEF ProcessQuery
  <2>2. Continues(program, Meaning, rules', n)
    BY <1>2, <1>3, <2>1 DEF Continues, IInv
  <2> QED
    BY <1>2, <1>3, <2>2, ContinuesOK
<1> QED
  BY <1>5, <1>6, <1>7

\* The task of a rule that goes on with its next atom.
RuleNext == RuleTask(Last(tasks).exec, Last(tasks).next + 1, Last(tasks).suppl)

LEMMA RuleGoesOn ==
  ASSUME IInv, Pending("RULE")
  PROVE  /\ Stable /\ pc = "running" /\ tasks # << >> /\ call = NoCall /\ tasks = Append(Front(tasks), Last(tasks))
         /\ StackOK(Front(tasks), program, Meaning, rules, AnswerCount)
         /\ RuleTaskOK(Last(tasks), program, Meaning) /\ RuleTaskIs(Last(tasks), program, Meaning)
         /\ Last(tasks).type = "RULE"
         /\ Last(tasks).next <= Len(Last(tasks).exec.body) =>
              /\ RuleTaskOK(RuleNext, program, Meaning) /\ RuleNext.type = "RULE"
              /\ RuleNext.next = Last(tasks).next + 1 /\ Last(tasks).next = RuleNext.next - 1
              /\ RuleNext.exec = Last(tasks).exec
              /\ StackOK(Append(Front(tasks), RuleNext), program, Meaning, rules, AnswerCount)
              /\ Append(Front(tasks), RuleNext) # << >> /\ Last(Append(Front(tasks), RuleNext)) = RuleNext
<1> DEFINE task == Last(tasks)
           rest == Front(tasks)
           n == AnswerCount
           x == task.exec
           t == RuleNext
<1>1. Stable /\ pc = "running" /\ tasks # << >> /\ task.type = "RULE" /\ call = NoCall
  BY StableFacts DEF IInv, Pending
<1>2. TopOK(tasks, program, Meaning, rules, n)
  BY <1>1, StackTop DEF IInv
<1>3. /\ StackOK(rest, program, Meaning, rules, n) /\ RuleTaskOK(task, program, Meaning)
      /\ tasks = Append(rest, task)
  BY <1>1, <1>2 DEF TopOK
<1>4. RuleTaskIs(task, program, Meaning)
  BY <1>1, <1>3, RuleTaskFacts DEF Stable
<1>5. ASSUME task.next <= Len(x.body)
      PROVE  /\ RuleTaskOK(t, program, Meaning) /\ t.type = "RULE" /\ t.next = task.next + 1
             /\ task.next = t.next - 1 /\ t.exec = x
             /\ StackOK(Append(rest, t), program, Meaning, rules, n)
             /\ Append(rest, t) # << >> /\ Last(Append(rest, t)) = t
  <2>1. task \in RuleTasks(program) /\ task.next \in 2 .. Len(x.body) + 1 /\ task.next \in Nat
    BY <1>3 DEF RuleTaskOK, RuleTasks
  <2> HIDE DEF task
  <2>2. /\ t \in RuleTasks(program) /\ t.exec = x /\ t.suppl = task.suppl /\ t.next = task.next + 1
        /\ t.type = "RULE"
    BY <2>1 DEF RuleTasks, RuleTask, RuleNext, task
  <2> HIDE DEF t
  <2>3. t.next \in 2 .. Len(t.exec.body) + 1 /\ task.next = t.next - 1
    BY <1>4, <1>5, <2>1, <2>2 DEF RuleTaskIs
  <2>4. RuleTaskOK(t, program, Meaning)
    BY <1>3, <2>1, <2>2, <2>3 DEF RuleTaskOK
  <2> HIDE DEF rest, n
  <2>5. StackOK(Append(rest, t), program, Meaning, rules, n) /\ Append(rest, t) # << >> /\ Last(Append(rest, t)) = t
    BY <1>3, <2>4, StackPush
  <2> QED
    BY <2>2, <2>3, <2>4, <2>5
<1> QED
  BY <1>1, <1>3, <1>4, <1>5

\* The answers of a rule that ends.
LEMMA AnswersGrow ==
  ASSUME IInv, Pending("RULE"),
         answers' = [answers EXCEPT ![KeyOf(Last(tasks).exec.head)] =
                       @ \cup HeadTuples(Last(tasks).exec, Last(Last(tasks).suppl))]
  PROVE  /\ AnswersOK(answers', Meaning) /\ KeyOf(Last(tasks).exec.head) \in Keys
         /\ \A key \in Keys : answers[key] \subseteq answers'[key]
<1> DEFINE task == Last(tasks)
           x == task.exec
           k == KeyOf(x.head)
           more == HeadTuples(x, Last(task.suppl))
<1>1. Stable /\ RuleTaskIs(task, program, Meaning)
  BY RuleGoesOn
<1>2. k \in Keys /\ k[1] = x.head.pred /\ Prepared(x, program, k)
  BY <1>1 DEF RuleTaskIs, KeyOf
<1>3. Last(task.suppl) \in SUBSET RowsOf(x, Len(x.body) + 1, Meaning)
  <2> HIDE DEF task
  <2>1. Last(task.suppl) = task.suppl[Len(x.body) + 1] /\ Len(x.body) + 1 \in 1 .. Len(x.body) + 1
    BY <1>1 DEF RuleTaskIs, Last
  <2> QED
    BY <1>1, <2>1 DEF RuleTaskIs
<1>4. more \subseteq TuplesOf(k[1], Meaning)
  <2> HIDE DEF x, k
  <2> QED
    BY <1>1, <1>2, <1>3, HeadTuplesOK DEF Stable
<1>5. answers' = [answers EXCEPT ![k] = @ \cup more] /\ AnswersOK(answers, Meaning)
  BY DEF IInv
<1> HIDE DEF more, k, x, task
<1>6. AnswersOK(answers', Meaning) /\ \A key \in Keys : answers[key] \subseteq answers'[key]
  BY <1>2, <1>4, <1>5 DEF AnswersOK
<1> QED
  BY <1>2, <1>6 DEF k, x, task

LEMMA ProcessRuleOK ==
  ASSUME IInv, ProcessRule
  PROVE  IInv'
<1> DEFINE task == Last(tasks)
           rest == Front(tasks)
           n == AnswerCount
           x == task.exec
<1>1. Pending("RULE") /\ Stable /\ pc = "running" /\ StackOK(rest, program, Meaning, rules, n)
  BY RuleGoesOn DEF ProcessRule
<1>2. UNCHANGED <<given, total>> /\ rules' = rules /\ RulesOK(rules', program)
  BY DEF ProcessRule, IInv
<1>3. CASE task.next <= Len(x.body) /\ task.suppl[task.next] # {}
  <2> DEFINE stack == Append(rest, RuleNext)
  <2>1. EvaluateAtom(stack, task.next) /\ answers' = answers
    BY <1>3 DEF ProcessRule, RuleNext
  <2>2. /\ StackOK(stack, program, Meaning, rules', n) /\ stack # << >>
        /\ RuleTaskOK(Last(stack), program, Meaning) /\ task.next = Last(stack).next - 1
    BY <1>1, <1>2, <1>3, RuleGoesOn
  <2> HIDE DEF stack
  <2>3. Continues(program, Meaning, rules', n)
    <3> HIDE DEF task, n
    <3> QED
      BY <1>1, <2>1, <2>2, EvaluateAtomOK DEF Stable, IInv
  <2>4. AnswersOK(answers', Meaning) /\ n = Cardinality(Found(answers'))
    BY <1>1, <2>1 DEF IInv, Stable
  <2> QED
    BY <1>1, <1>2, <2>3, <2>4, ContinuesOK
<1>4. CASE ~(task.next <= Len(x.body) /\ task.suppl[task.next] # {})
  <2> DEFINE n2 == Cardinality(Found(answers'))
  <2>1. /\ answers' = [answers EXCEPT ![KeyOf(x.head)] = @ \cup HeadTuples(x, Last(task.suppl))]
        /\ tasks' = rest /\ UNCHANGED <<pc, call, inputs>>
    BY <1>4, Zenon DEF ProcessRule
  <2>2. AnswersOK(answers', Meaning) /\ \A key \in Keys : answers[key] \subseteq answers'[key]
    BY <1>1, <2>1, AnswersGrow
  <2>3. n \in Nat /\ n2 \in Nat /\ n <= n2
    <3>1. \A key \in Keys : answers'[key] \subseteq Tuples(Arity[key[1]])
      BY <2>2 DEF AnswersOK, TuplesOf
    <3>2. Cardinality(Found(answers)) <= n2 /\ n2 \in Nat
      BY <2>2, <3>1, FoundGrows, FoundFinite
    <3> QED
      BY <1>1, <3>2 DEF Stable
  <2>4. StackOK(rest, program, Meaning, rules', n2)
    <3> HIDE DEF rest, n, n2
    <3>1. n \in Int /\ n2 \in Int
      BY <2>3
    <3> QED
      BY <1>1, <1>2, <2>3, <3>1, StackKept
  <2>5. Continues(program, Meaning, rules', n2)
    BY <2>1, <2>4 DEF Continues, IInv
  <2> QED
    BY <1>1, <1>2, <2>2, <2>5, ContinuesOK
<1> QED
  BY <1>3, <1>4

LEMMA ProcessRuleQueryOK ==
  ASSUME IInv, ProcessRuleQuery
  PROVE  IInv'
<1> DEFINE stack == Front(tasks)
           task == Last(stack)
           n == AnswerCount
           x == task.exec
           j == Last(tasks).next
           l == x.body[j]
<1>1. Stable /\ pc = "running" /\ tasks # << >> /\ Last(tasks).type = "RULE_QUERY"
  BY StableFacts DEF IInv, ProcessRuleQuery, Pending
<1>2. TopOK(tasks, program, Meaning, rules, n)
  BY <1>1, StackTop DEF IInv
<1>3. StackOK(stack, program, Meaning, rules, n) /\ stack # << >> /\ SubQueryOK(Last(tasks), task, program, Meaning)
  BY <1>1, <1>2 DEF TopOK
<1>4. RuleTaskOK(task, program, Meaning) /\ j = task.next - 1 /\ l.pred \in IDBPreds
  BY <1>3 DEF SubQueryOK
<1>5. RuleTaskIs(task, program, Meaning)
  BY <1>1, <1>4, RuleTaskFacts DEF Stable
<1>6. IsExecutor(x) /\ j \in 1 .. Len(x.body) /\ (RepeatsAreBound => RepeatsBound(x))
  BY <1>4, <1>5 DEF RuleTaskIs, Prepared
<1>7. /\ UNCHANGED <<given, total>> /\ rules' = rules /\ answers' = answers
      /\ RulesOK(rules', program) /\ AnswersOK(answers', Meaning) /\ n = Cardinality(Found(answers'))
  BY <1>1 DEF ProcessRuleQuery, IInv, Stable
<1>8. JoinAtom(stack, j, AnswerRows(l))
  BY DEF ProcessRuleQuery
<1>9. answers[KeyOf(l)] \subseteq TuplesOf(l.pred, Meaning)
  <2>1. KeyOf(l) \in Keys /\ KeyOf(l)[1] = l.pred
    <3>1. l.pred \notin EDBPreds
      BY <1>4 DEF IDBPreds
    <3> HIDE DEF x, j
    <3> QED
      BY <1>6, <3>1, AtomFacts
  <2> QED
    BY <2>1 DEF IInv, AnswersOK
<1>10. AnswerRows(l) \in SUBSET AtomRows(x, j, Meaning)
  <2> HIDE DEF x, j
  <2> QED
    BY <1>4, <1>6, <1>9, AnswerRowsOK
<1>11. Continues(program, Meaning, rules', n)
  <2>1. InputsOK(inputs) /\ StackOK(stack, program, Meaning, rules', n)
    BY <1>3, <1>7 DEF IInv
  <2> HIDE DEF stack, j, n
  <2> QED
    BY <1>1, <1>3, <1>4, <1>8, <1>10, <2>1, JoinAtomOK DEF Stable
<1> QED
  BY <1>1, <1>7, <1>11, ContinuesOK

LEMMA Inductive ==
  ASSUME IInv, [Next]_vars
  PROVE  IInv'
<1>1. CASE UNCHANGED vars
  <2>1. /\ pc' = pc /\ rules' = rules /\ inputs' = inputs /\ answers' = answers /\ tasks' = tasks
        /\ call' = call /\ total' = total /\ program' = program /\ db' = db /\ query' = query
    BY <1>1 DEF vars, given
  <2>2. Meaning' = Meaning /\ AnswerCount' = AnswerCount
    BY <2>1 DEF Meaning, AnswerCount
  <2>3. GivenOK' /\ PcOK'
    BY <2>1 DEF IInv, GivenOK, PcOK
  <2> QED
    BY <2>1, <2>2, <2>3 DEF IInv
<1>2. CASE Next
  BY <1>2, StartOK, FinishOK, AskAgainOK, EvaluateOK, ProcessQueryOK, ProcessRuleOK, ProcessRuleQueryOK DEF Next
<1> QED
  BY <1>1, <1>2

\* Nothing in a sequence twice: as many members as places.
LEMMA NothingTwice ==
  ASSUME NEW S, NEW s \in Seq(S), \A i, j \in DOMAIN s : s[i] = s[j] => i = j
  PROVE  Cardinality(ToSet(s)) = Len(s)
<1>1. Len(s) \in Nat /\ DOMAIN s = 1 .. Len(s)
  OBVIOUS
<1>2. s \in [1 .. Len(s) -> ToSet(s)]
  <2>1. s = [i \in DOMAIN s |-> s[i]]
    OBVIOUS
  <2> QED
    BY <1>1, <2>1 DEF ToSet
<1>3. s \in Bijection(1 .. Len(s), ToSet(s))
  BY <1>1, <1>2 DEF Bijection, Injection, Surjection, IsInjective, ToSet
<1> QED
  BY <1>1, <1>3, FS_CountingElements DEF ExistsBijection

LEMMA InvariantTypes ==
  ASSUME IInv
  PROVE  TypeOK
<1>1. Stable
  BY StableFacts DEF IInv
<1>2. pc \in {"start", "running", "done", "unplannable", "cartesian"}
  BY DEF IInv, PcOK
<1>3. ASSUME NEW k \in Keys PROVE Len(rules[k]) \in {0, Len(RulesFor(k))}
  <2>1. RulesFor(k) = RuleList(program, k) /\ (rules[k] = << >> \/ rules[k] = ExecutorsOf(program, k))
    BY <1>1 DEF Stable, IInv, RulesOK
  <2>2. Len(ExecutorsOf(program, k)) = Len(RuleList(program, k))
    BY <1>1, RuleListFacts DEF Stable
  <2> QED
    BY <2>1, <2>2
<1>4. \A k \in Keys : answers[k] \subseteq Tuples(Arity[k[1]])
  BY DEF IInv, AnswersOK, TuplesOf
<1>5. ASSUME NEW k \in Keys
      PROVE  /\ ToSet(inputs[k]) \subseteq Tuples(Cardinality(k[2]))
             /\ Cardinality(ToSet(inputs[k])) = Len(inputs[k])
  <2> DEFINE s == inputs[k]
             T == Tuples(Cardinality(k[2]))
  <2>1. s \in Seq(T) /\ \A i, j \in DOMAIN s : s[i] = s[j] => i = j
    BY DEF IInv, InputsOK, InputOK
  <2> HIDE DEF s, T
  <2>2. ToSet(s) \subseteq T
    BY <2>1 DEF ToSet
  <2>3. Cardinality(ToSet(s)) = Len(s)
    BY <2>1, NothingTwice
  <2> QED
    BY <2>2, <2>3 DEF s, T
<1>6. ASSUME NEW i \in DOMAIN tasks, tasks[i].type = "RULE_QUERY"
      PROVE  i > 1 /\ tasks[i - 1].type = "RULE"
  <2>1. TaskOK(tasks, i, program, Meaning, rules, AnswerCount)
    BY DEF IInv, StackOK
  <2>2. ~QueryTaskOK(tasks[i], program, rules, AnswerCount) /\ ~RuleTaskOK(tasks[i], program, Meaning)
    BY <1>6 DEF QueryTaskOK, QueryTasks, RuleTaskOK, RuleTasks
  <2>3. i > 1 /\ RuleTaskOK(tasks[i - 1], program, Meaning)
    BY <2>1, <2>2 DEF TaskOK, SubQueryOK
  <2> QED
    BY <1>1, <2>3, RuleTaskFacts DEF Stable
<1> QED
  BY <1>2, <1>3, <1>4, <1>5, <1>6 DEF TypeOK

\* QSQR keeps its types: the executors of a predicate are created all at once,
\* every table holds tuples of its width, no input is asked twice, and a sub-query
\* is answered to the rule that asked it.
THEOREM TypeCorrect == Spec => []TypeOK
<1>1. Init => IInv
  BY InitOK
<1>2. IInv /\ [Next]_vars => IInv'
  BY Inductive
<1>3. IInv => TypeOK
  BY InvariantTypes
<1> QED
  BY <1>1, <1>2, <1>3, PTL DEF Spec

\* QSQR is sound, for every program whose rules have no IDB atom with a repeated
\* variable that nothing binds before (the rows of such an atom are not compared,
\* bindingstable.cpp:226): what is in an answer table follows from the program and
\* the database.
THEOREM Soundness ==
  ASSUME RepeatsAreBound
  PROVE  Spec => []AnswersSound
<1>1. Init => IInv
  BY InitOK
<1>2. IInv /\ [Next]_vars => IInv'
  BY Inductive
<1>3. IInv => AnswersSound
  BY DEF IInv, AnswersOK, TuplesOf, AnswersSound
<1> QED
  BY <1>1, <1>2, <1>3, PTL DEF Spec

-----------------------------------------------------------------------------
(* Every step leaves less to do                                            *)

LEMMA SumAppended ==
  ASSUME NEW w \in Seq(Int), NEW v \in Int
  PROVE  SumOf(w) \in Int /\ SumOf(Append(w, v)) = SumOf(w) + v
<1> DEFINE Sums(s, G) == /\ G \in [0 .. Len(s) -> Int] /\ G[0] = 0 /\ G[Len(s)] = SumOf(s)
                         /\ \A i \in 1 .. Len(s) : G[i] = G[i - 1] + s[i]
<1>1. ASSUME NEW s \in Seq(Int)
      PROVE  \E G : Sums(s, G)
  <2> DEFINE n == Len(s)
             step == [x \in (1 .. n) \X Int |-> x[2] + s[x[1]]]
  <2>1. n \in Nat /\ \A i \in 1 .. n : s[i] \in Int
    OBVIOUS
  <2>2. step \in [(1 .. n) \X Int -> Int]
    <3>1. ASSUME NEW x \in (1 .. n) \X Int PROVE x[2] + s[x[1]] \in Int
      BY <2>1
    <3> QED
      BY <3>1
  <2>3. \A i \in 1 .. n, m \in Int : step[<<i, m>>] = m + s[i]
    <3> TAKE i \in 1 .. n, m \in Int
    <3> DEFINE x == <<i, m>>
    <3>1. x \in (1 .. n) \X Int /\ x[1] = i /\ x[2] = m
      OBVIOUS
    <3> HIDE DEF x
    <3>2. step[x] = x[2] + s[x[1]]
      BY <3>1
    <3> QED
      BY <3>1, <3>2 DEF x
  <2> HIDE DEF step
  <2>4. PICK G \in [0 .. n -> Int] : Recurses(G, n, 0, step)
    <3> DEFINE T == Int
    <3>1. n \in Nat /\ 0 \in T /\ step \in [(1 .. n) \X T -> T]
      BY <2>1, <2>2
    <3> HIDE DEF n, T
    <3>2. \E G \in [0 .. n -> T] : Recurses(G, n, 0, step)
      BY <3>1, RecursionExists
    <3> QED
      BY <3>2 DEF T
  <2>5. G = [i \in 0 .. n |-> IF i = 0 THEN 0 ELSE G[i - 1] + s[i]]
    <3>1. G = [i \in 0 .. n |-> IF i = 0 THEN 0 ELSE step[<<i, G[i - 1]>>]]
      BY <2>4 DEF Recurses
    <3>2. \A i \in 0 .. n : i # 0 => i \in 1 .. n /\ G[i - 1] \in Int
      <4> HIDE DEF n
      <4> TAKE i \in 0 .. n
      <4> HAVE i # 0
      <4>1. i \in 1 .. n /\ i - 1 \in 0 .. n
        BY <2>1
      <4> QED
        BY <2>4, <4>1
    <3>3. \A i \in 0 .. n : i # 0 => step[<<i, G[i - 1]>>] = G[i - 1] + s[i]
      BY <2>3, <3>2
    <3> HIDE DEF n
    <3> QED
      BY <3>1, <3>3
  <2> DEFINE rec(u) == [i \in 0 .. Len(s) |-> IF i = 0 THEN 0 ELSE u[i - 1] + s[i]]
  <2>6. SumOf(s) = (CHOOSE u : u = rec(u))[Len(s)]
    BY DEF SumOf
  <2>7. PICK H : H = rec(H) /\ SumOf(s) = H[Len(s)]
    <3>1. G = rec(G)
      BY <2>5
    <3> HIDE DEF rec
    <3> QED
      BY <2>6, <3>1
  <2>8. H[0] = 0 /\ \A i \in 1 .. n : H[i] = H[i - 1] + s[i]
    <3>1. 0 \in 0 .. n /\ \A i \in 1 .. n : i \in 0 .. n /\ i # 0
      BY <2>1
    <3> HIDE DEF n
    <3>2. \A i \in 0 .. n : H[i] = IF i = 0 THEN 0 ELSE H[i - 1] + s[i]
      BY <2>7 DEF n
    <3> QED
      BY <3>1, <3>2
  <2>9. DOMAIN H = 0 .. n /\ H = [i \in DOMAIN H |-> H[i]]
    <3>1. H = [i \in 0 .. n |-> IF i = 0 THEN 0 ELSE H[i - 1] + s[i]]
      BY <2>7
    <3> QED
      BY <3>1
  <2>10. \A i \in 0 .. n : H[i] \in Int
    <3> DEFINE typed == { i \in 0 .. n : H[i] \in Int }
    <3>1. 0 \in typed /\ \A i \in 1 .. n : i - 1 \in typed => i \in typed
      <4>1. 0 \in 0 .. n /\ \A i \in 1 .. n : i \in 0 .. n /\ i \in DOMAIN s
        BY <2>1
      <4>2. \A i \in 1 .. n : s[i] \in Int
        BY <4>1
      <4> HIDE DEF n
      <4>3. 0 \in typed
        BY <2>8, <4>1
      <4>4. \A i \in 1 .. n : H[i - 1] \in Int => H[i] \in Int
        BY <2>8, <4>2
      <4> QED
        BY <4>1, <4>3, <4>4
    <3> HIDE DEF typed, n
    <3>2. 0 .. n \subseteq typed
      BY <2>1, <3>1, UpTo
    <3> QED
      BY <3>2 DEF typed
  <2>11. H \in [0 .. n -> Int]
    BY <2>9, <2>10
  <2> QED
    BY <2>7, <2>8, <2>11
<1> DEFINE a == Append(w, v)
<1>2. /\ a \in Seq(Int) /\ Len(a) = Len(w) + 1 /\ a[Len(w) + 1] = v /\ Len(w) \in Nat
      /\ \A i \in 1 .. Len(w) : a[i] = w[i]
  OBVIOUS
<1> HIDE DEF a
<1>3. PICK G : Sums(w, G)
  <2> HIDE DEF Sums
  <2> QED
    BY <1>1
<1>4. PICK H : Sums(a, H)
  <2> HIDE DEF Sums
  <2> QED
    BY <1>1, <1>2
<1>5. 0 .. Len(w) \subseteq { i \in 0 .. Len(w) : G[i] = H[i] }
  <2> DEFINE same == { i \in 0 .. Len(w) : G[i] = H[i] }
  <2>1. 0 \in same
    BY <1>2, <1>3, <1>4
  <2>2. \A i \in 1 .. Len(w) : i - 1 \in same => i \in same
    BY <1>2, <1>3, <1>4
  <2> HIDE DEF same
  <2>3. 0 .. Len(w) \subseteq same
    BY <1>2, <2>1, <2>2, UpTo
  <2> QED
    BY <2>3 DEF same
<1>6. Len(w) + 1 \in 1 .. Len(a) /\ Len(w) \in 0 .. Len(w)
  BY <1>2
<1>7. SumOf(w) = G[Len(w)] /\ G[Len(w)] = H[Len(w)] /\ G[Len(w)] \in Int
  BY <1>3, <1>5, <1>6
<1>8. SumOf(a) = H[Len(w) + 1] /\ H[Len(w) + 1] = H[Len(w)] + v
  BY <1>2, <1>4, <1>6
<1> QED
  BY <1>7, <1>8 DEF a

\* PredicateSteps, StepsLeft and the steps left of a stack, for any program P and
\* number n of answers; K stands for RuleSteps.
RoundSteps(P, K) == (1 + Len(P)) * (1 + K)

Steps(t, P, n, K) ==
  CASE t.type = "RULE_QUERY" -> 1
    [] t.type = "RULE" -> 2 * (Len(t.exec.body) + 2 - t.next)
    [] OTHER -> 1 + (1 + Len(RuleList(P, t.key)) - t.next) * (1 + K) + (n - t.total) * (1 + RoundSteps(P, K))

StackSteps(stack, P, n, K) == SumOf([i \in DOMAIN stack |-> Steps(stack[i], P, n, K)])

LEMMA Products ==
  ASSUME NEW a \in Nat, NEW b \in Nat, NEW c \in Nat, a <= b
  PROVE  a * c <= b * c /\ a * c \in Nat /\ b * c \in Nat
<1>1. PICK d \in Nat : b = a + d
  <2>1. b - a \in Nat /\ b = a + (b - a)
    OBVIOUS
  <2> QED
    BY <2>1
<1>2. b * c = a * c + d * c
  BY <1>1
<1>3. a * c \in Nat /\ d * c \in Nat
  BY <1>1
<1> QED
  BY <1>2, <1>3

LEMMA StepsFacts ==
  ASSUME NEW P \in Programs, NEW n \in Nat, NEW K \in Nat, NEW t \in Tasks(P)
  PROVE  /\ Steps(t, P, n, K) \in Int
         /\ t.type = "RULE_QUERY" => Steps(t, P, n, K) = 1
         /\ t.type = "RULE" => Steps(t, P, n, K) = 2 * (Len(t.exec.body) + 2 - t.next)
         /\ t.type = "QUERY" => Steps(t, P, n, K) =
              1 + (1 + Len(RuleList(P, t.key)) - t.next) * (1 + K) + (n - t.total) * (1 + RoundSteps(P, K))
<1>1. t \in QueryTasks \/ t \in RuleTasks(P) \/ t \in SubQueries
  BY DEF Tasks
<1>2. RoundSteps(P, K) \in Nat
  BY RuleListFacts DEF RoundSteps
<1>3. CASE t \in QueryTasks
  <2>1. t.type = "QUERY" /\ t.next \in Nat /\ t.total \in Nat /\ Len(RuleList(P, t.key)) \in Nat
    BY <1>3, RuleListFacts DEF QueryTasks
  <2>2. Steps(t, P, n, K) =
          1 + (1 + Len(RuleList(P, t.key)) - t.next) * (1 + K) + (n - t.total) * (1 + RoundSteps(P, K))
    BY <2>1, Zenon DEF Steps
  <2>3. (1 + Len(RuleList(P, t.key)) - t.next) * (1 + K) \in Int /\ (n - t.total) * (1 + RoundSteps(P, K)) \in Int
    BY <1>2, <2>1
  <2> QED
    BY <2>1, <2>2, <2>3
<1>4. CASE t \in RuleTasks(P)
  <2>1. t.type = "RULE" /\ t.next \in Nat /\ t.exec \in AllExecutors(P)
    BY <1>4 DEF RuleTasks
  <2>2. Len(t.exec.body) \in Nat
    <3>1. IsExecutor(t.exec)
      BY <2>1, AllExecutorsFacts DEF Prepared
    <3> QED
      BY <3>1 DEF IsExecutor, IsRule
  <2>3. Steps(t, P, n, K) = 2 * (Len(t.exec.body) + 2 - t.next)
    BY <2>1 DEF Steps
  <2>4. 2 * (Len(t.exec.body) + 2 - t.next) \in Int
    BY <2>1, <2>2
  <2> HIDE DEF Steps
  <2> QED
    BY <2>1, <2>3, <2>4
<1>5. CASE t \in SubQueries
  BY <1>5 DEF Steps, SubQueries
<1> QED
  BY <1>1, <1>3, <1>4, <1>5

LEMMA StackStepsPush ==
  ASSUME NEW P \in Programs, NEW n \in Nat, NEW K \in Nat, NEW stack \in Seq(Tasks(P)), NEW t \in Tasks(P)
  PROVE  /\ StackSteps(stack, P, n, K) \in Int
         /\ StackSteps(Append(stack, t), P, n, K) = StackSteps(stack, P, n, K) + Steps(t, P, n, K)
<1> DEFINE f(s) == [i \in DOMAIN s |-> Steps(s[i], P, n, K)]
           a == Append(stack, t)
           v == Steps(t, P, n, K)
<1>1. \A u \in Tasks(P) : Steps(u, P, n, K) \in Int
  BY StepsFacts
<1>2. Len(stack) \in Nat /\ DOMAIN stack = 1 .. Len(stack) /\ \A i \in DOMAIN stack : stack[i] \in Tasks(P)
  OBVIOUS
<1>3. f(stack) \in Seq(Int) /\ Len(f(stack)) = Len(stack)
  <2>1. f(stack) \in [1 .. Len(stack) -> Int]
    BY <1>1, <1>2
  <2> HIDE DEF f
  <2> QED
    BY <1>2, <2>1, FunctionIsSequence
<1>4. /\ DOMAIN a = 1 .. Len(stack) + 1 /\ a[Len(stack) + 1] = t
      /\ \A i \in 1 .. Len(stack) : a[i] = stack[i]
  BY <1>2
<1>5. f(a) = Append(f(stack), v)
  <2> HIDE DEF a
  <2> DEFINE g == Append(f(stack), v)
  <2>1. DOMAIN g = 1 .. Len(stack) + 1 /\ g = [i \in DOMAIN g |-> g[i]] /\ g[Len(stack) + 1] = v
        /\ \A i \in 1 .. Len(stack) : g[i] = f(stack)[i]
    <3> DEFINE w == f(stack)
    <3>1. w \in Seq(Int) /\ Len(w) = Len(stack) /\ v \in Int
      BY <1>1, <1>3
    <3> HIDE DEF f, w, v
    <3>2. g = Append(w, v)
      BY DEF w
    <3>3. Append(w, v) \in Seq(Int) /\ Len(Append(w, v)) = Len(w) + 1 /\ Append(w, v)[Len(w) + 1] = v
          /\ \A i \in 1 .. Len(w) : Append(w, v)[i] = w[i]
      BY <3>1, AppendProperties
    <3> HIDE DEF g
    <3>4. g \in Seq(Int) /\ Len(g) = Len(stack) + 1
      BY <3>1, <3>2, <3>3
    <3>5. DOMAIN g = 1 .. Len(stack) + 1 /\ g = [i \in DOMAIN g |-> g[i]]
      BY <3>4
    <3> QED
      BY <3>1, <3>2, <3>3, <3>5 DEF w
  <2> HIDE DEF v, g
  <2>2. \A i \in 1 .. Len(stack) + 1 : g[i] = Steps(a[i], P, n, K)
    <3> TAKE i \in 1 .. Len(stack) + 1
    <3>1. CASE i \in 1 .. Len(stack)
      BY <1>2, <1>4, <2>1, <3>1
    <3>2. CASE i = Len(stack) + 1
      BY <1>4, <2>1, <3>2 DEF v
    <3> QED
      BY <1>2, <3>1, <3>2
  <2>3. f(a) = g
    BY <1>4, <2>1, <2>2
  <2> QED
    BY <2>3 DEF g
<1>6. v \in Int
  BY <1>1
<1> HIDE DEF f, a, v
<1>7. SumOf(f(stack)) \in Int /\ SumOf(f(a)) = SumOf(f(stack)) + v
  BY <1>3, <1>5, <1>6, SumAppended
<1> QED
  BY <1>7 DEF f, a, v, StackSteps

LEMMA GreatestValue ==
  ASSUME NEW n \in Nat, NEW f \in [1 .. n -> Nat]
  PROVE  \E top \in {0} \cup { f[i] : i \in 1 .. n } : \A y \in {0} \cup { f[i] : i \in 1 .. n } : top >= y
<1>1. CASE n = 0
  BY <1>1
<1>2. CASE n # 0
  <2> DEFINE g == [i \in 1 .. n |-> - f[i]]
             I == 1 .. n
  <2>1. g \in [I -> Int] /\ I \in SUBSET (1 .. n) /\ I # {} /\ \A i \in I : g[i] = - f[i] /\ f[i] \in Nat
    BY <1>2
  <2> HIDE DEF g
  <2>2. \E m \in I : \A k \in I : g[m] <= g[k]
    <3> HIDE DEF I
    <3>1. g \in [1 .. n -> Int]
      BY <2>1 DEF I
    <3> QED
      BY <2>1, <3>1, LeastValue
  <2>3. PICK m \in I : \A k \in I : g[m] <= g[k]
    BY <2>2
  <2>4. \A k \in I : f[m] >= f[k] /\ f[m] >= 0
    BY <2>1, <2>3
  <2>5. f[m] >= 0
    BY <2>1, <2>3
  <2> QED
    BY <2>4, <2>5
<1> QED
  BY <1>1, <1>2

\* A rule takes all the steps of its atoms, and some.
LEMMA RuleStepsFacts ==
  ASSUME program \in Programs
  PROVE  /\ RuleSteps \in Nat
         /\ \A x \in AllExecutors(program) : 2 * Len(x.body) + 3 <= RuleSteps
<1> DEFINE S == {0} \cup { Len(r.body) : r \in ToSet(program) }
           n == Len(program)
           f == [i \in 1 .. n |-> Len(program[i].body)]
<1>1. n \in Nat /\ DOMAIN program = 1 .. n /\ \A i \in 1 .. n : Len(program[i].body) \in Nat
  <2>1. program \in Seq(DatalogRules)
    BY ProgramAssumption
  <2>2. \A r \in DatalogRules : Len(r.body) \in Nat
    BY DEF DatalogRules
  <2> QED
    BY <2>1, <2>2
<1> HIDE DEF n
<1>2. f \in [1 .. n -> Nat]
  BY <1>1
<1>3. S = {0} \cup { f[i] : i \in 1 .. n } /\ S \subseteq Nat
  BY <1>1 DEF ToSet
<1> HIDE DEF S, f
<1>7. \E top \in S : \A y \in S : top >= y
  BY <1>1, <1>2, <1>3, GreatestValue
<1>8. Max(S) \in S /\ \A y \in S : Max(S) >= y
  BY <1>7 DEF Max
<1>9. RuleSteps = 1 + 2 * (1 + Max(S)) /\ Max(S) \in Nat
  BY <1>3, <1>8 DEF RuleSteps, AtomSteps, S
<1>10. ASSUME NEW x \in AllExecutors(program)
       PROVE  2 * Len(x.body) + 3 <= RuleSteps
  <2>1. PICK r \in ToSet(program) : Len(x.body) = Len(r.body) /\ Len(x.body) \in Nat
    BY AllExecutorsFacts DEF Prepared, Adorns
  <2>2. Len(x.body) \in S
    BY <2>1 DEF S
  <2> QED
    BY <1>8, <1>9, <2>1, <2>2
<1> QED
  BY <1>9, <1>10

\* What InputCount counts.
Asked(I) == UNION { {k} \X DOMAIN I[k] : k \in Keys }

LEMMA AskedFinite ==
  ASSUME NEW I, InputsOK(I)
  PROVE  IsFiniteSet(Asked(I)) /\ Cardinality(Asked(I)) \in Nat
<1> DEFINE of == [k \in Keys |-> {k} \X DOMAIN I[k]]
<1>1. \A k \in Keys : IsFiniteSet(of[k])
  <2> TAKE k \in Keys
  <2>1. Len(I[k]) \in Nat /\ DOMAIN I[k] = 1 .. Len(I[k])
    BY DEF InputsOK, InputOK
  <2>2. IsFiniteSet(DOMAIN I[k]) /\ IsFiniteSet({k})
    <3>1. \A n \in Nat : IsFiniteSet(1 .. n)
      BY FS_Interval
    <3> QED
      BY <2>1, <3>1, FS_Singleton
  <2>3. IsFiniteSet({k} \X DOMAIN I[k])
    BY <2>2, FS_Product
  <2> QED
    BY <2>3
<1>2. DOMAIN of = Keys /\ of = [k \in Keys |-> of[k]] /\ Asked(I) = UNION { of[k] : k \in Keys }
  BY DEF Asked
<1> HIDE DEF of
<1>3. IsFiniteSet({ of[k] : k \in Keys })
  BY <1>2, KeysFinite, ImageFinite
<1>4. IsFiniteSet(UNION { of[k] : k \in Keys })
  BY <1>1, <1>3, FS_UNION
<1> QED
  BY <1>2, <1>4, FS_CardinalityType

\* A new input, counted.
LEMMA AskedGrows ==
  ASSUME NEW I, InputsOK(I), NEW k \in Keys, NEW more, more \in Seq(Tuples(Cardinality(k[2]))), more # << >>,
         NEW J, J = [I EXCEPT ![k] = @ \o more], InputsOK(J)
  PROVE  Cardinality(Asked(I)) < Cardinality(Asked(J))
<1>1. IsFiniteSet(Asked(I)) /\ IsFiniteSet(Asked(J)) /\ Cardinality(Asked(I)) \in Nat /\ Cardinality(Asked(J)) \in Nat
  BY AskedFinite
<1>2. DOMAIN I = Keys /\ J[k] = I[k] \o more /\ \A key \in Keys : key # k => J[key] = I[key]
  BY DEF InputsOK
<1> DEFINE T == Tuples(Cardinality(k[2]))
           s == I[k]
           l == Len(s) + 1
<1>3. s \in Seq(T) /\ more \in Seq(T)
  BY DEF InputsOK, InputOK
<1> HIDE DEF T, s
<1>4. /\ s \o more \in Seq(T) /\ Len(s \o more) = Len(s) + Len(more)
      /\ Len(s) \in Nat /\ Len(more) \in Nat \ {0} /\ DOMAIN s = 1 .. Len(s)
  BY <1>3, ConcatProperties, EmptySeq
<1>5. DOMAIN (s \o more) = 1 .. Len(s) + Len(more)
  BY <1>4
<1>6. DOMAIN s \subseteq DOMAIN J[k] /\ l \in DOMAIN J[k] /\ l \notin DOMAIN I[k]
  <2>1. l \in 1 .. Len(s) + Len(more) /\ l \notin 1 .. Len(s) /\ 1 .. Len(s) \subseteq 1 .. Len(s) + Len(more)
    BY <1>4
  <2>2. J[k] = s \o more /\ I[k] = s
    BY <1>2 DEF s
  <2> QED
    BY <1>4, <1>5, <2>1, <2>2
<1> HIDE DEF l
<1>7. Asked(I) \subseteq Asked(J)
  <2>1. \A key \in Keys : DOMAIN I[key] \subseteq DOMAIN J[key]
    BY <1>2, <1>6 DEF s
  <2> QED
    BY <2>1 DEF Asked
<1>8. Asked(I) # Asked(J)
  <2>1. <<k, l>> \in Asked(J)
    BY <1>6 DEF Asked
  <2>2. <<k, l>> \notin Asked(I)
    BY <1>6 DEF Asked
  <2> QED
    BY <2>1, <2>2
<1> DEFINE F == Asked(I)
           G == Asked(J)
<1>9. F \subseteq G /\ F # G /\ IsFiniteSet(G) /\ Cardinality(F) \in Nat /\ Cardinality(G) \in Nat
  BY <1>1, <1>7, <1>8
<1> HIDE DEF F, G
<1>10. Cardinality(F) <= Cardinality(G) /\ Cardinality(F) # Cardinality(G)
  BY <1>9, FS_Subset
<1>11. Cardinality(F) < Cardinality(G)
  BY <1>9, <1>10
<1> QED
  BY <1>11 DEF F, G

\* A sub-query was asked, or the steps left on the stack are at most m.
LeavesAtMost(m, P, n, K) ==
  \/ InputCount' > InputCount
  \/ inputs' = inputs /\ call' = NoCall /\ StackSteps(tasks', P, n, K) <= m

LEMMA JoinAtomLeaves ==
  ASSUME NEW P \in Programs, NEW M, NEW n \in Nat, NEW K \in Nat,
         NEW stack \in Seq(Tasks(P)), stack # << >>, RuleTaskOK(Last(stack), P, M), NEW j, NEW rows,
         JoinAtom(stack, j, rows), pc' = "running"
  PROVE  LeavesAtMost(StackSteps(stack, P, n, K), P, n, K)
<1> DEFINE t == Last(stack)
           top == Len(stack)
           new == Joined(t.exec, j, rows, t.suppl[j])
           s2 == [stack EXCEPT ![top].suppl[j + 1] = @ \cup new]
<1>1. tasks' = s2 /\ call' = NoCall /\ inputs' = inputs
  BY DEF JoinAtom
<1>2. top \in Nat \ {0} /\ DOMAIN stack = 1 .. top /\ t = stack[top]
  <2>1. DOMAIN stack = 1 .. top /\ top \in Nat /\ top # 0
    OBVIOUS
  <2>2. t = stack[top]
    BY DEF Last
  <2> QED
    BY <2>1, <2>2
<1>3. t \in RuleTasks(P)
  BY DEF RuleTaskOK
<1> HIDE DEF new, t, top
<1>4. DOMAIN s2 = DOMAIN stack /\ \A i \in DOMAIN stack : i # top => s2[i] = stack[i]
  OBVIOUS
<1>5. s2[top] = [stack[top] EXCEPT !.suppl = [stack[top].suppl EXCEPT ![j + 1] = @ \cup new]]
  <2>1. top \in DOMAIN stack
    BY <1>2
  <2> QED
    BY <2>1
<1>6. s2[top].type = t.type /\ s2[top].exec = t.exec /\ s2[top].next = t.next /\ t.type = "RULE"
  BY <1>2, <1>3, <1>5 DEF RuleTasks
<1> HIDE DEF s2
<1>7. \A i \in DOMAIN stack : Steps(s2[i], P, n, K) = Steps(stack[i], P, n, K)
  <2>1. Steps(s2[top], P, n, K) = Steps(t, P, n, K)
    BY <1>6 DEF Steps
  <2> QED
    BY <1>2, <1>4, <2>1
<1>8. StackSteps(s2, P, n, K) = StackSteps(stack, P, n, K)
  <2>1. [i \in DOMAIN s2 |-> Steps(s2[i], P, n, K)] = [i \in DOMAIN stack |-> Steps(stack[i], P, n, K)]
    BY <1>4, <1>7
  <2> QED
    BY <2>1 DEF StackSteps
<1>9. StackSteps(stack, P, n, K) \in Int
  BY <1>2, StackStepsPush, SequenceEnds
<1> QED
  BY <1>1, <1>8, <1>9 DEF LeavesAtMost

LEMMA EvaluateAtomLeaves ==
  ASSUME NEW P \in Programs, NEW M, NEW rs, NEW n \in Nat, NEW K \in Nat,
         NEW stack, StackOK(stack, P, M, rs, n), stack # << >>, RuleTaskOK(Last(stack), P, M),
         NEW j, j = Last(stack).next - 1, InputsOK(inputs), InputsOK(inputs'),
         EvaluateAtom(stack, j), pc' = "running"
  PROVE  LeavesAtMost(StackSteps(stack, P, n, K), P, n, K)
<1> DEFINE t == Last(stack)
           x == t.exec
           l == x.body[j]
           fresh == NewInputs(t, j)
           m == StackSteps(stack, P, n, K)
<1>1. RuleTaskIs(t, P, M) /\ stack \in Seq(Tasks(P))
  BY RuleTaskFacts DEF StackOK
<1>2. ASSUME NEW rows, JoinAtom(stack, j, rows)
      PROVE  LeavesAtMost(m, P, n, K)
  BY <1>1, <1>2, JoinAtomLeaves
<1>3. CASE l.pred \in EDBPreds
  <2>1. JoinAtom(stack, j, EDBRows(l))
    BY <1>3 DEF EvaluateAtom
  <2> QED
    BY <2>1, <1>2
<1>4. CASE l.pred \notin EDBPreds /\ fresh = {}
  <2>1. JoinAtom(stack, j, AnswerRows(l))
    BY <1>4 DEF EvaluateAtom
  <2> QED
    BY <2>1, <1>2
<1>5. CASE l.pred \notin EDBPreds /\ fresh # {}
  <2> DEFINE k == KeyOf(l)
             more == SetToSeq(fresh)
             T == Tuples(Cardinality(k[2]))
  <2>1. inputs' = [inputs EXCEPT ![k] = @ \o more]
    BY <1>5 DEF EvaluateAtom
  <2>2. IsExecutor(x) /\ j \in 1 .. Len(x.body) /\ t.suppl[j] \in SUBSET Tuples(Len(x.sig[j]))
    <3>1. j = t.next - 1
      OBVIOUS
    <3> HIDE DEF t
    <3>2. IsExecutor(x) /\ j \in 1 .. Len(x.body)
      BY <1>1, <3>1 DEF RuleTaskIs
    <3>3. j \in 1 .. Len(x.body) + 1
      BY <1>1, <3>2 DEF RuleTaskIs
    <3>4. t.suppl[j] \subseteq Tuples(Len(x.sig[j]))
      BY <1>1, <3>3 DEF RuleTaskIs
    <3> QED
      BY <3>2, <3>4
  <2>3. k \in Keys /\ k[2] = l.bound
    <3> HIDE DEF x
    <3> QED
      BY <1>5, <2>2, AtomFacts
  <2>4. fresh \in SUBSET T
    <3>1. fresh = Passed(x, j, t.suppl[j]) \ ToSet(inputs[k])
      BY DEF NewInputs
    <3>2. Passed(x, j, t.suppl[j]) \subseteq Tuples(Cardinality(l.bound))
      <4> HIDE DEF x
      <4> QED
        BY <2>2, PassedType
    <3> QED
      BY <2>3, <3>1, <3>2
  <2>5. IsFiniteSet(T)
    BY <2>3, KeyFacts, TermAssumption, FiniteTuples DEF Tuples
  <2> HIDE DEF fresh
  <2>6. more \in Seq(fresh) /\ ToSet(more) = fresh
    <3> HIDE DEF T
    <3>1. IsFiniteSet(fresh)
      BY <2>4, <2>5, FS_Subset
    <3> QED
      BY <3>1, SetToSeqFacts
  <2>7. more \in Seq(T) /\ more # << >>
    <3> HIDE DEF more, T
    <3>1. ToSet(<< >>) = {}
      BY DEF ToSet
    <3> QED
      BY <1>5, <2>4, <2>6, <3>1
  <2>8. Cardinality(Asked(inputs)) < Cardinality(Asked(inputs'))
    <3> HIDE DEF more, k
    <3> QED
      BY <2>1, <2>3, <2>7, AskedGrows
  <2>9. InputCount = Cardinality(Asked(inputs)) /\ InputCount' = Cardinality(Asked(inputs'))
    BY DEF InputCount, Asked
  <2>10. InputCount' > InputCount
    <3>1. Cardinality(Asked(inputs)) \in Nat /\ Cardinality(Asked(inputs')) \in Nat
      BY AskedFinite
    <3> QED
      BY <2>8, <2>9, <3>1
  <2> QED
    BY <2>10 DEF LeavesAtMost
<1> QED
  BY <1>3, <1>4, <1>5

LEMMA EvaluateRuleLeaves ==
  ASSUME NEW P \in Programs, NEW M, NEW rs, NEW n \in Nat, NEW K \in Nat,
         NEW stack, StackOK(stack, P, M, rs, n), NEW x \in AllExecutors(P), NEW k, k = KeyOf(x.head),
         NEW offset \in Nat, InputsOK(inputs), InputsOK(inputs'),
         EvaluateRule(stack, x, k, offset), pc' = "running"
  PROVE  LeavesAtMost(StackSteps(stack, P, n, K) + 2 * Len(x.body), P, n, K)
<1> DEFINE rows == FirstRows(x, ToSet(SubSeq(inputs[k], offset + 1, Len(inputs[k]))))
           t == RuleTask(x, 2, <<rows>> \o [j \in DOMAIN x.body |-> {}])
           s2 == Append(stack, t)
           m == StackSteps(stack, P, n, K)
<1>1. stack \in Seq(Tasks(P)) /\ Len(x.body) \in Nat
  BY AllExecutorsFacts DEF StackOK, Prepared, IsExecutor, IsRule
<1>2. rows \in SUBSET RowsOf(x, 1, M)
  BY FirstRowsTyped
<1>3. RuleTaskOK(t, P, M) /\ t.next = 2 /\ t.exec = x
  <2> HIDE DEF rows
  <2> QED
    BY <1>2, RuleBegins DEF RuleTask
<1>4. t \in Tasks(P) /\ t.type = "RULE"
  BY <1>3 DEF RuleTaskOK, Tasks, RuleTasks
<1>5. CASE rows = {}
  <2>1. tasks' = stack /\ call' = NoCall /\ inputs' = inputs
    BY <1>5 DEF EvaluateRule
  <2>2. m \in Int
    BY <1>1, <1>4, StackStepsPush
  <2> HIDE DEF m
  <2>3. m <= m + 2 * Len(x.body)
    BY <1>1, <2>2
  <2> QED
    BY <2>1, <2>3 DEF LeavesAtMost, m
<1>6. CASE rows # {}
  <2>1. EvaluateAtom(s2, 1)
    BY <1>6 DEF EvaluateRule
  <2> HIDE DEF t
  <2>2. StackOK(s2, P, M, rs, n) /\ s2 # << >> /\ Last(s2) = t
    BY <1>3, StackPush
  <2>3. StackSteps(s2, P, n, K) = m + 2 * Len(x.body)
    <3>1. t.type = "RULE" => Steps(t, P, n, K) = 2 * (Len(t.exec.body) + 2 - t.next)
      BY <1>4, StepsFacts, Zenon
    <3>2. Steps(t, P, n, K) = 2 * Len(x.body)
      BY <1>1, <1>3, <1>4, <3>1
    <3>3. StackSteps(s2, P, n, K) = m + Steps(t, P, n, K)
      BY <1>1, <1>4, StackStepsPush, Zenon
    <3> HIDE DEF s2, m
    <3> QED
      BY <3>2, <3>3
  <2> HIDE DEF s2, m
  <2>4. 1 = Last(s2).next - 1 /\ RuleTaskOK(Last(s2), P, M)
    BY <1>3, <2>2
  <2>5. LeavesAtMost(StackSteps(s2, P, n, K), P, n, K)
    BY <2>1, <2>2, <2>4, EvaluateAtomLeaves
  <2> QED
    BY <2>3, <2>5 DEF m
<1> QED
  BY <1>5, <1>6

LEMMA WorkIs ==
  WorkLeft = (IF call = NoCall THEN 0 ELSE 2 + RoundSteps(program, RuleSteps))
               + StackSteps(tasks, program, AnswerCount, RuleSteps)
<1>1. \A t : StepsLeft(t) = Steps(t, program, AnswerCount, RuleSteps)
  <2>1. \A key : RulesFor(key) = RuleList(program, key)
    BY DEF RulesFor, RuleList
  <2>2. PredicateSteps = RoundSteps(program, RuleSteps)
    BY DEF PredicateSteps, RoundSteps
  <2> QED
    BY <2>1, <2>2, Zenon DEF StepsLeft, Steps, AtomSteps
<1>2. [i \in DOMAIN tasks |-> StepsLeft(tasks[i])]
        = [i \in DOMAIN tasks |-> Steps(tasks[i], program, AnswerCount, RuleSteps)]
  BY <1>1
<1> QED
  BY <1>2 DEF WorkLeft, StackSteps, PredicateSteps, RoundSteps

LEMMA WorkIsNext ==
  (WorkLeft = (IF call = NoCall THEN 0 ELSE 2 + RoundSteps(program, RuleSteps))
               + StackSteps(tasks, program, AnswerCount, RuleSteps))'
BY WorkIs, PTL

LEMMA RuleStepsKept ==
  ASSUME program' = program
  PROVE  RuleSteps' = RuleSteps
BY DEF RuleSteps, AtomSteps

\* A sub-query was asked, or there is less to do.
LessToDo == InputCount' > InputCount \/ (InputCount' = InputCount /\ WorkLeft' < WorkLeft)

LEMMA Decreases ==
  ASSUME IInv, IInv', program' = program, AnswerCount' = AnswerCount, WorkLeft \in Int,
         NEW m \in Int, m < WorkLeft,
         LeavesAtMost(m, program, AnswerCount, RuleSteps)
  PROVE  LessToDo
<1>1. CASE InputCount' > InputCount
  BY <1>1 DEF LessToDo
<1>2. CASE inputs' = inputs /\ call' = NoCall /\ StackSteps(tasks', program, AnswerCount, RuleSteps) <= m
  <2> DEFINE s == StackSteps(tasks', program, AnswerCount, RuleSteps)
  <2>1. InputCount' = InputCount /\ RuleSteps' = RuleSteps
    BY <1>2, RuleStepsKept DEF InputCount
  <2>2. WorkLeft' = 0 + s
    BY <1>2, <2>1, WorkIsNext
  <2>3. s \in Int
    <3>1. Stable /\ program \in Programs
      BY StableFacts DEF IInv, GivenOK
    <3>2. tasks' \in Seq(Tasks(program)) /\ AnswerCount \in Nat /\ RuleSteps \in Nat
      BY <3>1, RuleStepsFacts DEF IInv, StackOK, Stable
    <3>3. [type |-> "RULE_QUERY", next |-> 0] \in Tasks(program)
      BY DEF Tasks, SubQueries
    <3> QED
      BY <3>1, <3>2, <3>3, StackStepsPush
  <2> HIDE DEF s
  <2>4. s <= m
    BY <1>2 DEF s
  <2> QED
    BY <2>1, <2>2, <2>3, <2>4 DEF LessToDo
<1> QED
  BY <1>1, <1>2 DEF LeavesAtMost

LEMMA WorkFacts ==
  ASSUME IInv
  PROVE  /\ StackSteps(tasks, program, AnswerCount, RuleSteps) \in Int /\ WorkLeft \in Int
         /\ RuleSteps \in Nat /\ Len(program) \in Nat /\ AnswerCount \in Nat /\ program \in Programs
         /\ RoundSteps(program, RuleSteps) \in Nat
         /\ tasks \in Seq(Tasks(program))
         /\ call = NoCall => WorkLeft = StackSteps(tasks, program, AnswerCount, RuleSteps)
         /\ call # NoCall => WorkLeft = 2 + RoundSteps(program, RuleSteps)
                                          + StackSteps(tasks, program, AnswerCount, RuleSteps)
<1>1. Stable /\ program \in Programs
  BY StableFacts DEF IInv, GivenOK
<1>2. tasks \in Seq(Tasks(program)) /\ AnswerCount \in Nat /\ RuleSteps \in Nat /\ Len(program) \in Nat
  BY <1>1, RuleStepsFacts, RuleListFacts DEF IInv, StackOK, Stable
<1>3. [type |-> "RULE_QUERY", next |-> 0] \in Tasks(program)
  BY DEF Tasks, SubQueries
<1>4. StackSteps(tasks, program, AnswerCount, RuleSteps) \in Int
  BY <1>1, <1>2, <1>3, StackStepsPush
<1>5. RoundSteps(program, RuleSteps) \in Nat
  BY <1>2 DEF RoundSteps
<1> QED
  BY <1>1, <1>2, <1>4, <1>5, WorkIs

\* The steps of a query's task, less those of the rounds that new answers cause.
LEMMA RoundFacts ==
  ASSUME NEW l \in Nat, NEW r \in Nat \ {0}, r <= l, NEW K \in Nat, NEW b \in Nat, b + 3 <= K
  PROVE  /\ (1 + r - 2) * (1 + K) \in Nat /\ (1 + l) * (1 + K) \in Nat
         /\ (1 + r - 2) * (1 + K) + b + 4 <= (1 + l) * (1 + K)
<1> DEFINE c == 1 + K
           d == 1 + r - 2
<1>1. c \in Nat /\ d \in Nat /\ d <= l /\ b + 4 <= c
  OBVIOUS
<1>2. (1 + l) * (1 + K) = l * c + c
  OBVIOUS
<1> HIDE DEF c, d
<1>3. d * c <= l * c /\ d * c \in Nat /\ l * c \in Nat
  BY <1>1, Products
<1>4. d * c + b + 4 <= l * c + c
  BY <1>1, <1>3
<1> QED
  BY <1>1, <1>2, <1>3, <1>4 DEF c, d

LEMMA EvaluateLeaves ==
  ASSUME IInv, IInv', Evaluate, pc' = "running"
  PROVE  LessToDo
<1> DEFINE k == call.key
           n == AnswerCount
           K == RuleSteps
           t == QueryBegun
           S == StackSteps(tasks, program, n, K)
           r == Len(RuleList(program, k))
           stack == Append(tasks, t)
           x == rules'[k][1]
           W == RoundSteps(program, K)
<1>1. /\ S \in Int /\ WorkLeft \in Int /\ K \in Nat /\ n \in Nat /\ program \in Programs
      /\ tasks \in Seq(Tasks(program)) /\ Len(program) \in Nat /\ W \in Nat
  BY WorkFacts
<1>2. WorkLeft = 2 + W + S /\ k \in Keys /\ call.offset \in Nat
  BY WorkFacts DEF IInv, CallOK, Evaluate
<1>3. program' = program /\ AnswerCount' = AnswerCount /\ InputsOK(inputs) /\ InputsOK(inputs')
  BY DEF Evaluate, given, IInv, AnswerCount
<1>4. \/ CreateRules(k) /\ RulesFor(k) = << >> /\ call' = NoCall /\ UNCHANGED <<pc, tasks, inputs>>
      \/ CreateRules(k) /\ RulesFor(k) # << >> /\ EvaluateRule(stack, x, k, call.offset)
  <2>1. pc' # "unplannable"
    OBVIOUS
  <2> QED
    BY <2>1, Zenon DEF Evaluate, QueryBegun
<1>5. RulesFor(k) = RuleList(program, k) /\ r \in Nat /\ r <= Len(program) /\ (r = 0 => RuleList(program, k) = << >>)
  <2>1. RulesFor(k) = RuleList(program, k)
    BY DEF RulesFor, RuleList
  <2>2. r \in Nat /\ r <= Len(program) /\ RuleList(program, k) \in Seq(DatalogRules)
    BY <1>1, RuleListFacts
  <2> QED
    BY <2>1, <2>2, EmptySeq
<1>6. CASE call' = NoCall /\ UNCHANGED <<pc, tasks, inputs>>
  <2>1. LeavesAtMost(S, program, n, K)
    <3>1. tasks' = tasks /\ inputs' = inputs
      BY <1>6
    <3> HIDE DEF n, K
    <3>2. StackSteps(tasks', program, n, K) <= S
      BY <1>1, <3>1
    <3> QED
      BY <1>6, <3>1, <3>2 DEF LeavesAtMost
  <2> HIDE DEF S, W, n, K
  <2>2. S < WorkLeft
    BY <1>1, <1>2
  <2> QED
    BY <1>1, <1>3, <2>1, <2>2, Decreases DEF n, K
<1>7. CASE CreateRules(k) /\ RulesFor(k) # << >> /\ EvaluateRule(stack, x, k, call.offset)
  <2>1. /\ QueryTaskOK(t, program, rules', n) /\ t.next = 2 /\ t.key = k /\ t.total = n /\ t.type = "QUERY"
        /\ StackOK(stack, program, Meaning, rules', n)
        /\ x \in AllExecutors(program) /\ k = KeyOf(x.head)
    BY <1>7, QueryBegins
  <2>2. r # 0
    BY <1>5, <1>7
  <2>3. 2 * Len(x.body) \in Nat /\ 2 * Len(x.body) + 3 <= K
    <3>1. Len(x.body) \in Nat
      BY <2>1, AllExecutorsFacts DEF Prepared, IsExecutor, IsRule
    <3> HIDE DEF x
    <3> QED
      BY <1>1, <2>1, <3>1, RuleStepsFacts
  <2>4. LeavesAtMost(StackSteps(stack, program, n, K) + 2 * Len(x.body), program, n, K)
    <3>1. EvaluateRule(stack, x, k, call.offset)
      BY <1>7
    <3> HIDE DEF stack, x, n, K, k, r
    <3> QED
      BY <1>1, <1>2, <1>3, <2>1, <3>1, EvaluateRuleLeaves
  <2>5. t \in Tasks(program)
    BY <2>1 DEF QueryTaskOK, Tasks
  <2>6. Steps(t, program, n, K) = 1 + (1 + r - 2) * (1 + K)
    <3> HIDE DEF t, n, K
    <3>1. t.type = "QUERY" => Steps(t, program, n, K) =
            1 + (1 + Len(RuleList(program, t.key)) - t.next) * (1 + K) + (n - t.total) * (1 + RoundSteps(program, K))
      BY <1>1, <2>5, StepsFacts, Zenon
    <3>2. Steps(t, program, n, K) = 1 + (1 + r - 2) * (1 + K) + (n - n) * (1 + W)
      BY <2>1, <3>1
    <3> HIDE DEF W, r
    <3>3. (n - n) * (1 + W) = 0
      BY <1>1
    <3>4. (1 + r - 2) * (1 + K) \in Int
      BY <1>1, <1>5
    <3> QED
      BY <3>2, <3>3, <3>4
  <2>7. StackSteps(stack, program, n, K) = S + Steps(t, program, n, K)
    <3> HIDE DEF t, n, K
    <3> QED
      BY <1>1, <2>5, StackStepsPush, Zenon
  <2>8. /\ (1 + r - 2) * (1 + K) \in Nat /\ (1 + r - 2) * (1 + K) + 2 * Len(x.body) + 4 <= W
    <3> DEFINE b == 2 * Len(x.body)
               l == Len(program)
    <3>1. b \in Nat /\ b + 3 <= K /\ l \in Nat /\ r \in Nat \ {0} /\ r <= l /\ K \in Nat
      BY <1>1, <1>5, <2>2, <2>3
    <3>2. W = (1 + l) * (1 + K)
      BY DEF RoundSteps
    <3> HIDE DEF b, l, r, K, W
    <3>3. (1 + r - 2) * (1 + K) \in Nat /\ (1 + r - 2) * (1 + K) + b + 4 <= (1 + l) * (1 + K)
      BY <3>1, RoundFacts
    <3> QED
      BY <3>2, <3>3 DEF b
  <2> DEFINE c == (1 + r - 2) * (1 + K)
             b == 2 * Len(x.body)
             m == StackSteps(stack, program, n, K) + b
  <2>9. m = S + (1 + c) + b
    BY <2>6, <2>7
  <2> HIDE DEF c, b, S, W, n, K, stack
  <2>10. c \in Nat /\ b \in Nat /\ c + b + 4 <= W
    BY <2>3, <2>8 DEF c, b
  <2>11. m \in Int /\ m < WorkLeft
    <3> HIDE DEF m
    <3> QED
      BY <1>1, <1>2, <2>9, <2>10
  <2>12. LeavesAtMost(m, program, n, K)
    BY <2>4 DEF b
  <2> HIDE DEF m
  <2> QED
    BY <1>1, <1>3, <2>11, <2>12, Decreases DEF n, K
<1> QED
  BY <1>4, <1>6, <1>7

\* What is left below the task on top of the stack, and of that task.
LEMMA TopSteps ==
  ASSUME IInv, call = NoCall, tasks # << >>
  PROVE  /\ WorkLeft = StackSteps(Front(tasks), program, AnswerCount, RuleSteps)
                         + Steps(Last(tasks), program, AnswerCount, RuleSteps)
         /\ StackSteps(Front(tasks), program, AnswerCount, RuleSteps) \in Int
         /\ Steps(Last(tasks), program, AnswerCount, RuleSteps) \in Int
         /\ Front(tasks) \in Seq(Tasks(program)) /\ Last(tasks) \in Tasks(program)
<1> DEFINE f == Front(tasks)
           t == Last(tasks)
<1>1. /\ WorkLeft = StackSteps(tasks, program, AnswerCount, RuleSteps) /\ tasks \in Seq(Tasks(program))
      /\ program \in Programs /\ AnswerCount \in Nat /\ RuleSteps \in Nat
  BY WorkFacts
<1>2. f \in Seq(Tasks(program)) /\ t \in Tasks(program) /\ tasks = Append(f, t)
  BY <1>1, SequenceEnds
<1> HIDE DEF f, t
<1>3. /\ StackSteps(f, program, AnswerCount, RuleSteps) \in Int
      /\ StackSteps(Append(f, t), program, AnswerCount, RuleSteps)
           = StackSteps(f, program, AnswerCount, RuleSteps) + Steps(t, program, AnswerCount, RuleSteps)
  BY <1>1, <1>2, StackStepsPush, Zenon
<1>4. Steps(t, program, AnswerCount, RuleSteps) \in Int
  BY <1>1, <1>2, StepsFacts
<1> QED
  BY <1>1, <1>2, <1>3, <1>4 DEF f, t

LEMMA ProcessQueryLeaves ==
  ASSUME IInv, IInv', ProcessQuery, pc' = "running"
  PROVE  LessToDo
<1> DEFINE task == Last(tasks)
           rest == Front(tasks)
           n == AnswerCount
           K == RuleSteps
           R == RuleList(program, task.key)
           r == Len(R)
           W == RoundSteps(program, K)
           S == StackSteps(rest, program, n, K)
<1>1. Pending("QUERY")
  BY DEF ProcessQuery
<1>2. /\ program' = program /\ AnswerCount' = AnswerCount /\ InputsOK(inputs) /\ InputsOK(inputs')
      /\ WorkLeft \in Int /\ K \in Nat /\ n \in Nat /\ program \in Programs /\ W \in Nat /\ Len(program) \in Nat
  <2>1. program' = program /\ AnswerCount' = AnswerCount /\ InputsOK(inputs) /\ InputsOK(inputs')
    BY DEF ProcessQuery, given, IInv, AnswerCount
  <2> QED
    BY <2>1, WorkFacts
<1>3. /\ tasks # << >> /\ StackOK(rest, program, Meaning, rules, n) /\ QueryTaskOK(task, program, rules, n)
      /\ task.type = "QUERY" /\ RulesFor(task.key) = R /\ r \in Nat \ {0} /\ task.offset \in Nat /\ task.key \in Keys
  BY <1>1, QueryGoesOn
<1>4. /\ WorkLeft = S + Steps(task, program, n, K) /\ S \in Int
      /\ rest \in Seq(Tasks(program)) /\ task \in Tasks(program)
  BY <1>1, TopSteps DEF Pending
<1>5. task.next \in 2 .. r + 1 /\ task.total \in Nat /\ task.total <= n /\ r <= Len(program)
  BY <1>2, <1>3, RuleListFacts DEF QueryTaskOK, QueryTasks
<1>6. Steps(task, program, n, K) = 1 + (1 + r - task.next) * (1 + K) + (n - task.total) * (1 + W)
  <2> HIDE DEF task, n, K
  <2>1. task.type = "QUERY" => Steps(task, program, n, K) =
          1 + (1 + Len(RuleList(program, task.key)) - task.next) * (1 + K)
            + (n - task.total) * (1 + RoundSteps(program, K))
    BY <1>2, <1>4, StepsFacts, Zenon
  <2> QED
    BY <1>3, <2>1
\* The task goes on as t with a rule x.
<1>7. ASSUME NEW t, GoesOn(task, t), NEW i \in 1 .. r,
             EvaluateRule(Append(rest, t), rules[task.key][i], task.key, task.offset),
             (1 + r - t.next) * (1 + K) + (n - t.total) * (1 + W) + K
               <= (1 + r - task.next) * (1 + K) + (n - task.total) * (1 + W) + 2
      PROVE  LessToDo
  <2> DEFINE x == rules[task.key][i]
             k == task.key
             stack == Append(rest, t)
             b == 2 * Len(x.body)
  <2>1. x \in AllExecutors(program) /\ k = KeyOf(x.head)
    BY <1>1, RuleOfQuery
  <2>2. b \in Nat /\ b + 3 <= K
    <3>1. Len(x.body) \in Nat
      BY <2>1, AllExecutorsFacts DEF Prepared, IsExecutor, IsRule
    <3> HIDE DEF x
    <3> QED
      BY <1>2, <2>1, <3>1, RuleStepsFacts
  <2>3. QueryTaskOK(t, program, rules, n) /\ t.type = "QUERY" /\ t.key = k /\ t \in Tasks(program)
    BY <1>7 DEF GoesOn, QueryTaskOK, Tasks
  <2>4. LeavesAtMost(StackSteps(stack, program, n, K) + b, program, n, K)
    <3>1. StackOK(stack, program, Meaning, rules, n)
      <4> HIDE DEF rest, n
      <4> QED
        BY <1>3, <2>3, StackPush
    <3>2. EvaluateRule(stack, x, k, task.offset)
      BY <1>7
    <3> HIDE DEF stack, x, n, K, k, task
    <3> QED
      BY <1>2, <1>3, <2>1, <3>1, <3>2, EvaluateRuleLeaves
  <2>5. Steps(t, program, n, K) = 1 + (1 + r - t.next) * (1 + K) + (n - t.total) * (1 + W)
    <3> HIDE DEF task, n, K
    <3>1. t.type = "QUERY" => Steps(t, program, n, K) =
            1 + (1 + Len(RuleList(program, t.key)) - t.next) * (1 + K)
              + (n - t.total) * (1 + RoundSteps(program, K))
      BY <1>2, <2>3, StepsFacts, Zenon
    <3> QED
      BY <2>3, <3>1
  <2>6. StackSteps(stack, program, n, K) = S + Steps(t, program, n, K)
    <3> HIDE DEF n, K, rest
    <3> QED
      BY <1>2, <1>4, <2>3, StackStepsPush, Zenon
  <2> DEFINE m == StackSteps(stack, program, n, K) + b
             old == (1 + r - task.next) * (1 + K) + (n - task.total) * (1 + W)
             new == (1 + r - t.next) * (1 + K) + (n - t.total) * (1 + W)
  <2>6a. /\ (1 + r - task.next) * (1 + K) \in Int /\ (n - task.total) * (1 + W) \in Int
         /\ (1 + r - t.next) * (1 + K) \in Int /\ (n - t.total) * (1 + W) \in Int
    <3>1. t.next \in Nat /\ t.total \in Nat
      BY <2>3 DEF QueryTaskOK, QueryTasks
    <3> DEFINE p == task.next
               q == task.total
               p2 == t.next
               q2 == t.total
    <3>0. p \in Int /\ q \in Int /\ p2 \in Int /\ q2 \in Int /\ r \in Int /\ n \in Int /\ K \in Int /\ W \in Int
      BY <1>2, <1>3, <1>5, <3>1
    <3> HIDE DEF W, r, K, n, task, p, q, p2, q2
    <3>2. (1 + r - p) \in Int /\ (n - q) \in Int /\ (1 + r - p2) \in Int /\ (n - q2) \in Int
          /\ 1 + K \in Int /\ 1 + W \in Int
      BY <3>0
    <3>3. \A u \in Int, v \in Int : u * v \in Int
      OBVIOUS
    <3>4. /\ (1 + r - p) * (1 + K) \in Int /\ (n - q) * (1 + W) \in Int
          /\ (1 + r - p2) * (1 + K) \in Int /\ (n - q2) * (1 + W) \in Int
      BY <3>2, <3>3
    <3> QED
      BY <3>4 DEF p, q, p2, q2
  <2>7. old \in Int /\ new \in Int /\ new + K <= old + 2
    <3>1. \A u \in Int, v \in Int : u + v \in Int
      OBVIOUS
    <3>2. old \in Int /\ new \in Int
      BY <2>6a, <3>1
    <3> QED
      BY <1>7, <3>2
  <2>8. Steps(task, program, n, K) = 1 + old /\ Steps(t, program, n, K) = 1 + new
    <3> DEFINE u == (1 + r - task.next) * (1 + K)
               v == (n - task.total) * (1 + W)
               u2 == (1 + r - t.next) * (1 + K)
               v2 == (n - t.total) * (1 + W)
    <3>1. u \in Int /\ v \in Int /\ u2 \in Int /\ v2 \in Int
      BY <2>6a
    <3>2. /\ Steps(task, program, n, K) = 1 + u + v /\ old = u + v
          /\ Steps(t, program, n, K) = 1 + u2 + v2 /\ new = u2 + v2
      BY <1>6, <2>5
    <3> HIDE DEF u, v, u2, v2, old, new
    <3> QED
      BY <3>1, <3>2
  <2> HIDE DEF old, new
  <2>9. m = S + (1 + new) + b /\ WorkLeft = S + (1 + old)
    BY <1>4, <2>6, <2>8
  <2>10. LeavesAtMost(m, program, n, K)
    BY <2>4
  <2> HIDE DEF m, b, S, n, K
  <2>11. m \in Int /\ m < WorkLeft
    BY <1>2, <1>4, <2>2, <2>7, <2>9
  <2> QED
    BY <1>2, <2>10, <2>11, Decreases DEF n, K
<1>8. CASE task.next <= r
  <2>1. EvaluateRule(Append(rest, QueryNext), rules[task.key][task.next], task.key, task.offset)
    BY <1>3, <1>8 DEF ProcessQuery, QueryNext
  <2>2. GoesOn(task, QueryNext) /\ QueryNext.next = task.next + 1 /\ QueryNext.total = task.total
    BY <1>1, <1>8, QueryGoesOn
  <2>3. task.next \in 1 .. r
    BY <1>3, <1>5, <1>8
  <2>4. (1 + r - (task.next + 1)) * (1 + K) + (n - task.total) * (1 + W) + K
          <= (1 + r - task.next) * (1 + K) + (n - task.total) * (1 + W) + 2
    <3> DEFINE d == 1 + r - task.next
               e == (n - task.total) * (1 + W)
               g == 1 + r - (task.next + 1)
    <3>1. e \in Int /\ d \in Int /\ d = g + 1 /\ g \in Int
      <4>1. n - task.total \in Int /\ 1 + W \in Int
        BY <1>2, <1>5
      <4>2. \A u \in Int, v \in Int : u * v \in Int
        OBVIOUS
      <4>3. e \in Int
        <5> HIDE DEF W, n
        <5> QED
          BY <4>1, <4>2
      <4> HIDE DEF e, r
      <4> QED
        BY <1>3, <1>5, <4>3
    <3> HIDE DEF d, e, g, K
    <3>2. d * (1 + K) = g * (1 + K) + (1 + K) /\ g * (1 + K) \in Int
      BY <1>2, <3>1
    <3>3. g * (1 + K) + e + K <= d * (1 + K) + e + 2
      BY <1>2, <3>1, <3>2
    <3> QED
      BY <3>3 DEF d, e, g
  <2> QED
    BY <1>7, <2>1, <2>2, <2>3, <2>4
<1>9. ASSUME ~(task.next <= r) PROVE (1 + r - task.next) * (1 + K) = 0
  <2>1. 1 + r - task.next = 0
    BY <1>3, <1>5, <1>9
  <2> HIDE DEF K
  <2> QED
    BY <1>2, <2>1
<1>10. CASE ~(task.next <= r) /\ Repeats(task)
  <2>1. EvaluateRule(Append(rest, QueryAgain), rules[task.key][1], task.key, task.offset)
    BY <1>3, <1>10 DEF ProcessQuery, QueryAgain
  <2>2. GoesOn(task, QueryAgain) /\ QueryAgain.next = 2 /\ QueryAgain.total = n /\ 1 \in 1 .. r
    BY <1>1, <1>3, QueryGoesOn
  <2>3. n - task.total \in Nat \ {0}
    BY <1>2, <1>5, <1>10 DEF Repeats
  <2>4. (1 + r - 2) * (1 + K) + (n - n) * (1 + W) + K
          <= (1 + r - task.next) * (1 + K) + (n - task.total) * (1 + W) + 2
    <3> DEFINE c == (1 + r - 2) * (1 + K)
               e == (n - task.total) * (1 + W)
               l == Len(program)
    <3>1. 3 <= K
      <4> DEFINE x == rules[task.key][1]
      <4>1. x \in AllExecutors(program)
        BY <1>1, <2>2, RuleOfQuery
      <4>2. Len(x.body) \in Nat
        BY <4>1, AllExecutorsFacts DEF Prepared, IsExecutor, IsRule
      <4>3. 2 * Len(x.body) + 3 <= K
        <5> HIDE DEF x
        <5> QED
          BY <1>2, <4>1, RuleStepsFacts
      <4> HIDE DEF x, K
      <4> QED
        BY <1>2, <4>2, <4>3
    <3>2. c \in Nat /\ c + (K - 3) + 4 <= W
      <4>1. W = (1 + l) * (1 + K)
        BY DEF RoundSteps
      <4>2. l \in Nat /\ r \in Nat \ {0} /\ r <= l /\ K \in Nat /\ K - 3 \in Nat /\ (K - 3) + 3 <= K
        BY <1>2, <1>3, <1>5, <3>1
      <4> HIDE DEF l, r, K, W
      <4>3. (1 + r - 2) * (1 + K) \in Nat /\ (1 + r - 2) * (1 + K) + (K - 3) + 4 <= (1 + l) * (1 + K)
        BY <4>2, RoundFacts
      <4> QED
        BY <4>1, <4>3
    <3>3. e >= 1 + W /\ e \in Nat
      <4> DEFINE a == n - task.total
                 v == 1 + W
      <4>1. 1 \in Nat /\ a \in Nat /\ v \in Nat /\ 1 <= a
        BY <1>2, <2>3
      <4> HIDE DEF a, v
      <4>2. 1 * v <= a * v /\ a * v \in Nat
        BY <4>1, Products
      <4>3. 1 * v = v
        BY <4>1
      <4> QED
        BY <4>1, <4>2, <4>3 DEF a, v
    <3>4. (n - n) * (1 + W) = 0
      <4> HIDE DEF W, n
      <4> QED
        BY <1>2
    <3>5. (1 + r - task.next) * (1 + K) = 0
      BY <1>9, <1>10
    <3> HIDE DEF c, e, W, K
    <3>6. c + 0 + K <= 0 + e + 2
      BY <1>2, <3>1, <3>2, <3>3
    <3> QED
      BY <3>4, <3>5, <3>6 DEF c, e
  <2> QED
    BY <1>7, <2>1, <2>2, <2>4
<1>11. CASE ~(task.next <= r) /\ ~Repeats(task)
  <2>1. tasks' = rest /\ call' = NoCall /\ inputs' = inputs
    BY <1>1, <1>3, <1>11 DEF ProcessQuery, Pending
  <2>2. LeavesAtMost(S, program, n, K)
    <3> HIDE DEF n, K, rest
    <3>1. StackSteps(tasks', program, n, K) <= S
      BY <1>4, <2>1
    <3> QED
      BY <2>1, <3>1 DEF LeavesAtMost
  <2>3. (n - task.total) * (1 + W) \in Nat
    <3> DEFINE a == n - task.total
               v == 1 + W
    <3>1. a \in Nat /\ v \in Nat
      BY <1>2, <1>5
    <3> HIDE DEF a, v
    <3>2. a * v \in Nat
      BY <3>1
    <3> QED
      BY <3>2 DEF a, v
  <2>4. S < WorkLeft
    <3> DEFINE e == (n - task.total) * (1 + W)
    <3>1. Steps(task, program, n, K) = 1 + 0 + e /\ e \in Nat
      BY <1>6, <1>9, <1>11, <2>3
    <3> HIDE DEF e, S
    <3> QED
      BY <1>4, <3>1
  <2> HIDE DEF S, n, K
  <2> QED
    BY <1>2, <1>4, <2>2, <2>4, Decreases DEF n, K
<1> QED
  BY <1>8, <1>10, <1>11

LEMMA ProcessRuleLeaves ==
  ASSUME IInv, IInv', ProcessRule, pc' = "running"
  PROVE  LessToDo \/ AnswerCount' > AnswerCount
<1> DEFINE task == Last(tasks)
           rest == Front(tasks)
           n == AnswerCount
           K == RuleSteps
           x == task.exec
           S == StackSteps(rest, program, n, K)
<1>1. Pending("RULE") /\ program' = program /\ InputsOK(inputs) /\ InputsOK(inputs')
  BY DEF ProcessRule, given, IInv
<1>2. /\ tasks # << >> /\ call = NoCall /\ RuleTaskOK(task, program, Meaning) /\ RuleTaskIs(task, program, Meaning)
      /\ task.type = "RULE" /\ Stable
  BY <1>1, RuleGoesOn
<1>3. WorkLeft \in Int /\ K \in Nat /\ n \in Nat /\ program \in Programs
  BY WorkFacts
<1>4. /\ WorkLeft = S + Steps(task, program, n, K) /\ S \in Int
      /\ rest \in Seq(Tasks(program)) /\ task \in Tasks(program)
  BY <1>2, TopSteps
<1>5. task.next \in 2 .. Len(x.body) + 1 /\ Len(x.body) \in Nat
  BY <1>2 DEF RuleTaskOK, RuleTaskIs
<1>6. Steps(task, program, n, K) = 2 * (Len(x.body) + 2 - task.next)
  <2> HIDE DEF task, n, K
  <2>1. task.type = "RULE" => Steps(task, program, n, K) = 2 * (Len(task.exec.body) + 2 - task.next)
    BY <1>3, <1>4, StepsFacts, Zenon
  <2> QED
    BY <1>2, <2>1
<1>7. CASE task.next <= Len(x.body) /\ task.suppl[task.next] # {}
  <2> DEFINE t == RuleNext
             stack == Append(rest, t)
             m == StackSteps(stack, program, n, K)
  <2>1. EvaluateAtom(stack, task.next) /\ AnswerCount' = AnswerCount
    BY <1>7 DEF ProcessRule, RuleNext, AnswerCount
  <2>2. /\ StackOK(stack, program, Meaning, rules, n) /\ stack # << >> /\ Last(stack) = t
        /\ RuleTaskOK(t, program, Meaning) /\ task.next = t.next - 1 /\ t.next = task.next + 1
        /\ t.exec = x /\ t.type = "RULE"
    BY <1>1, <1>7, RuleGoesOn
  <2>3. LeavesAtMost(m, program, n, K)
    <3>1. RuleTaskOK(Last(stack), program, Meaning) /\ task.next = Last(stack).next - 1
      BY <2>2
    <3> HIDE DEF stack, n, K, task
    <3> QED
      BY <1>1, <1>3, <2>1, <2>2, <3>1, EvaluateAtomLeaves
  <2>4. t \in Tasks(program)
    BY <2>2 DEF RuleTaskOK, Tasks
  <2>5. m = S + Steps(t, program, n, K)
    <3> HIDE DEF n, K, rest, t
    <3> QED
      BY <1>3, <1>4, <2>4, StackStepsPush, Zenon
  <2>6. Steps(t, program, n, K) = 2 * (Len(x.body) + 2 - (task.next + 1))
    <3> HIDE DEF task, n, K, t
    <3>1. t.type = "RULE" => Steps(t, program, n, K) = 2 * (Len(t.exec.body) + 2 - t.next)
      BY <1>3, <2>4, StepsFacts, Zenon
    <3> QED
      BY <2>2, <3>1
  <2> HIDE DEF m, S, n, K
  <2>7. m \in Int /\ m < WorkLeft
    <3> DEFINE l == Len(x.body)
               p == task.next
    <3>1. m = S + 2 * (l + 2 - (p + 1)) /\ WorkLeft = S + 2 * (l + 2 - p) /\ l \in Nat /\ p \in Int /\ S \in Int
      BY <1>4, <1>5, <1>6, <2>5, <2>6
    <3> HIDE DEF l, p
    <3> QED
      BY <3>1
  <2>8. LessToDo
    BY <1>1, <1>3, <2>1, <2>3, <2>7, Decreases DEF n, K
  <2> QED
    BY <2>8
<1>8. CASE ~(task.next <= Len(x.body) /\ task.suppl[task.next] # {})
  <2>1. /\ answers' = [answers EXCEPT ![KeyOf(x.head)] = @ \cup HeadTuples(x, Last(task.suppl))]
        /\ tasks' = rest /\ UNCHANGED <<pc, call, inputs>>
    BY <1>8, Zenon DEF ProcessRule
  <2>2. AnswersOK(answers', Meaning) /\ \A key \in Keys : answers[key] \subseteq answers'[key]
    BY <1>1, <2>1, AnswersGrow
  <2>3. AnswerCount = Cardinality(Found(answers)) /\ AnswerCount' = Cardinality(Found(answers'))
    BY DEF AnswerCount, Found
  <2>4. \A key \in Keys : answers'[key] \subseteq Tuples(Arity[key[1]])
    BY <2>2 DEF AnswersOK, TuplesOf
  <2>5. CASE \E key \in Keys : answers'[key] # answers[key]
    <3>1. Cardinality(Found(answers)) < Cardinality(Found(answers'))
      BY <2>2, <2>4, <2>5, FoundGrows
    <3>2. Cardinality(Found(answers')) \in Nat
      BY <2>4, FoundFinite
    <3> QED
      BY <1>3, <2>3, <3>1, <3>2
  <2>6. CASE ~ \E key \in Keys : answers'[key] # answers[key]
    <3>1. AnswerCount' = AnswerCount
      <4>1. Found(answers') = Found(answers)
        BY <2>6 DEF Found
      <4> QED
        BY <2>3, <4>1
    <3>2. LeavesAtMost(S, program, n, K)
      <4> HIDE DEF n, K, rest
      <4>1. StackSteps(tasks', program, n, K) <= S
        BY <1>4, <2>1
      <4> QED
        BY <1>2, <2>1, <4>1 DEF LeavesAtMost
    <3> HIDE DEF S, n, K
    <3>3. S < WorkLeft
      <4> DEFINE l == Len(x.body)
                 p == task.next
      <4>1. WorkLeft = S + 2 * (l + 2 - p) /\ l \in Nat /\ p \in 2 .. l + 1 /\ S \in Int
        BY <1>4, <1>5, <1>6
      <4> HIDE DEF l, p
      <4> QED
        BY <4>1
    <3>4. LessToDo
      BY <1>1, <1>3, <1>4, <3>1, <3>2, <3>3, Decreases DEF n, K
    <3> QED
      BY <3>4
  <2> QED
    BY <2>5, <2>6
<1> QED
  BY <1>7, <1>8

LEMMA ProcessRuleQueryLeaves ==
  ASSUME IInv, IInv', ProcessRuleQuery, pc' = "running"
  PROVE  LessToDo
<1> DEFINE stack == Front(tasks)
           task == Last(tasks)
           n == AnswerCount
           K == RuleSteps
           S == StackSteps(stack, program, n, K)
<1>1. /\ pc = "running" /\ call = NoCall /\ tasks # << >> /\ task.type = "RULE_QUERY"
      /\ program' = program /\ AnswerCount' = AnswerCount
      /\ JoinAtom(stack, task.next, AnswerRows(Last(stack).exec.body[task.next]))
  BY DEF ProcessRuleQuery, Pending, given, AnswerCount
<1>2. TopOK(tasks, program, Meaning, rules, n)
  BY <1>1, StackTop DEF IInv
<1>3. stack # << >> /\ RuleTaskOK(Last(stack), program, Meaning)
  BY <1>1, <1>2 DEF TopOK, SubQueryOK
<1>4. WorkLeft \in Int /\ K \in Nat /\ n \in Nat /\ program \in Programs
  BY WorkFacts
<1>5. /\ WorkLeft = S + Steps(task, program, n, K) /\ S \in Int
      /\ stack \in Seq(Tasks(program)) /\ task \in Tasks(program)
  BY <1>1, TopSteps
<1>6. Steps(task, program, n, K) = 1
  <2> HIDE DEF task, n, K
  <2>1. task.type = "RULE_QUERY" => Steps(task, program, n, K) = 1
    BY <1>4, <1>5, StepsFacts, Zenon
  <2> QED
    BY <1>1, <2>1
<1>7. LeavesAtMost(S, program, n, K)
  <2> HIDE DEF stack, n, K, task
  <2> QED
    BY <1>1, <1>3, <1>4, <1>5, JoinAtomLeaves
<1> HIDE DEF S, n, K, task
<1>8. S < WorkLeft
  BY <1>5, <1>6
<1> QED
  BY <1>1, <1>4, <1>5, <1>7, <1>8, Decreases DEF n, K

\* A round is repeated only if there are answers that the one before had not.
LEMMA RoundLeaves ==
  ASSUME IInv, RepeatRound
  PROVE  total' > total
BY DEF RepeatRound, BeginRound, ShouldRepeat

LEMMA Advancing ==
  ASSUME IInv, IInv', Next, pc = "running", pc' = "running"
  PROVE  \/ AnswerCount' > AnswerCount
         \/ total' > total
         \/ InputCount' > InputCount
         \/ total' = total /\ InputCount' = InputCount /\ WorkLeft' < WorkLeft
<1>1. CASE Start \/ Finish \/ AskAgain
  BY <1>1 DEF Start, Finish, AskAgain
<1>2. CASE RepeatRound
  BY <1>2, RoundLeaves
<1>3. CASE Evaluate
  <2>1. total' = total
    BY <1>3 DEF Evaluate
  <2> QED
    BY <1>3, <2>1, EvaluateLeaves DEF LessToDo
<1>4. CASE ProcessQuery
  <2>1. total' = total
    BY <1>4 DEF ProcessQuery
  <2> QED
    BY <1>4, <2>1, ProcessQueryLeaves DEF LessToDo
<1>5. CASE ProcessRule
  <2>1. total' = total
    BY <1>5 DEF ProcessRule
  <2> QED
    BY <1>5, <2>1, ProcessRuleLeaves DEF LessToDo
<1>6. CASE ProcessRuleQuery
  <2>1. total' = total
    BY <1>6 DEF ProcessRuleQuery
  <2> QED
    BY <1>6, <2>1, ProcessRuleQueryLeaves DEF LessToDo
<1> QED
  BY <1>1, <1>2, <1>3, <1>4, <1>5, <1>6 DEF Next

\* No query goes round in circles, with however many rules, values and sub-queries: a
\* step of processTask or QSQR::evaluate finds an answer, asks a sub-query that was
\* not asked in the round, begins a round because the last one found answers, or
\* leaves strictly less to do.  Answers and inputs are finitely many tuples, so only
\* finitely many steps do one of the first three.
THEOREM AlwaysAdvances == Spec => Advances
<1>1. Init => IInv
  BY InitOK
<1>2. IInv /\ [Next]_vars => IInv'
  BY Inductive
<1>3. IInv /\ IInv' /\ [Next]_vars =>
        [ pc = "running" /\ pc' = "running" =>
            \/ AnswerCount' > AnswerCount
            \/ total' > total
            \/ InputCount' > InputCount
            \/ total' = total /\ InputCount' = InputCount /\ WorkLeft' < WorkLeft ]_vars
  BY Advancing
<1> QED
  BY <1>1, <1>2, <1>3, PTL DEF Spec, Advances

-----------------------------------------------------------------------------
(* No row is lost                                                          *)

\* s gives every variable of an executor a value.
Assigns(s, x) == \A v \in Known(x, Len(x.body) + 1) : s[v] \in Values

\* The rows that s makes of a signature, and of the variables of a literal.
RowOf(x, j, s) == [k \in DOMAIN x.sig[j] |-> s[x.sig[j][k]]]

AtomRow(l, s) == [k \in DOMAIN VarSeq(l) |-> s[VarSeq(l)[k]]]

\* RepeatsInPlace, of an executor.
InPlace(x) ==
  LET terms == Pick(x.head.args, x.head.bound)
  IN  \A i \in DOMAIN terms :
        terms[i] \in Variables /\ FirstIndex(terms[i], terms) # i =>
          FirstIndex(terms[i], x.sig[1]) = FirstIndex(terms[i], terms)

\* What is picked of a literal's arguments under a substitution.
LEMMA PickSubstituted ==
  ASSUME NEW l, IsLiteral(l), NEW s, \A v \in VarsOf(l) : s[v] \in Values, NEW b
  PROVE  LET terms == Pick(l.args, b)
             picked == Pick(Substituted(l.args, s), b) IN
         /\ DOMAIN picked = DOMAIN terms
         /\ picked = [k \in DOMAIN terms |-> IF terms[k] \in Variables THEN s[terms[k]] ELSE terms[k]]
<1> DEFINE u == Substituted(l.args, s)
           at == Increasing(Len(l.args), b)
           terms == Pick(l.args, b)
<1>1. /\ Arity[l.pred] \in Nat /\ Len(l.args) = Arity[l.pred] /\ l.args \in Seq(Terms)
      /\ DOMAIN l.args = 1 .. Arity[l.pred]
  BY LiteralFacts
<1>2. u \in [1 .. Arity[l.pred] -> Values]
  BY SubstitutedType
<1>3. Len(u) = Len(l.args)
  <2> HIDE DEF u
  <2> QED
    BY <1>1, <1>2
<1>4. Picked(Terms, l.args, b)
  BY <1>1, PickFacts
<1>5. DOMAIN terms = DOMAIN at /\ \A k \in DOMAIN at : at[k] \in DOMAIN l.args /\ terms[k] = l.args[at[k]]
  BY <1>4 DEF Picked
<1>6. Pick(u, b) = [k \in DOMAIN at |-> u[at[k]]]
  BY <1>3 DEF Pick
<1>7. \A i \in DOMAIN l.args : u[i] = IF l.args[i] \in Variables THEN s[l.args[i]] ELSE l.args[i]
  BY DEF Substituted
<1> HIDE DEF u, at, terms
<1>8. \A k \in DOMAIN terms : u[at[k]] = IF terms[k] \in Variables THEN s[terms[k]] ELSE terms[k]
  BY <1>5, <1>7
<1>9. Pick(u, b) = [k \in DOMAIN terms |-> IF terms[k] \in Variables THEN s[terms[k]] ELSE terms[k]]
  BY <1>5, <1>6, <1>8
<1> QED
  BY <1>9 DEF u, terms

LEMMA AssignedVariables ==
  ASSUME NEW x, IsExecutor(x), NEW s, Assigns(s, x)
  PROVE  /\ \A j \in 1 .. Len(x.body) : \A v \in VarsOf(x.body[j]) : s[v] \in Values
         /\ \A v \in VarsOf(x.head) : s[v] \in Values
         /\ \A v \in BoundByHead(x) : s[v] \in Values
<1>1. Len(x.body) \in Nat /\ VarsOf(x.head) \subseteq Known(x, Len(x.body) + 1)
  BY DEF IsExecutor, IsRule
<1>2. (Len(x.body) + 1) - 1 = Len(x.body)
  BY <1>1
<1>3. \A j \in 1 .. Len(x.body) : VarsOf(x.body[j]) \subseteq Known(x, Len(x.body) + 1)
  BY <1>2 DEF Known
<1>4. BoundByHead(x) \subseteq Known(x, Len(x.body) + 1)
  BY DEF Known
<1> QED
  BY <1>1, <1>3, <1>4 DEF Assigns

\* The input of a rule instance gets into the first supplementary relation.
LEMMA FirstRowFound ==
  ASSUME NEW x, IsExecutor(x), InPlace(x), NEW s, Assigns(s, x)
  PROVE  RowOf(x, 1, s) \in FirstRows(x, { Pick(Substituted(x.head.args, s), x.head.bound) })
<1> DEFINE terms == Pick(x.head.args, x.head.bound)
           t == Pick(Substituted(x.head.args, s), x.head.bound)
           sig == x.sig[1]
<1>1. IsLiteral(x.head) /\ x.head.bound \in SUBSET DOMAIN x.head.args /\ Len(x.body) \in Nat
  BY DEF IsExecutor, IsRule
<1>2. /\ terms \in Seq(Terms) /\ \A k \in DOMAIN terms : terms[k] \in ToSet(terms)
      /\ \A i \in x.head.bound : x.head.args[i] \in ToSet(terms)
  <2>1. /\ terms \in Seq(Terms)
        /\ \A i \in x.head.bound : x.head.args[i] \in ToSet(terms)
    BY <1>1, BoundArguments
  <2> QED
    BY <2>1 DEF ToSet
<1>3. \A k \in DOMAIN terms : t[k] = IF terms[k] \in Variables THEN s[terms[k]] ELSE terms[k]
  <2>1. \A v \in VarsOf(x.head) : s[v] \in Values
    BY AssignedVariables
  <2>2. t = [k \in DOMAIN terms |-> IF terms[k] \in Variables THEN s[terms[k]] ELSE terms[k]]
    BY <1>1, <2>1, PickSubstituted
  <2> HIDE DEF t, terms
  <2> QED
    BY <2>2
<1>4. sig \in Seq(Variables) /\ ToSet(sig) \subseteq BoundByHead(x)
  <2>1. 1 \in 1 .. Len(x.body) + 1 /\ 1 .. 1 - 1 = {}
    BY <1>1
  <2>2. Known(x, 1) = BoundByHead(x)
    BY <2>1 DEF Known
  <2> QED
    BY <2>1, <2>2 DEF IsExecutor, Signed
<1>5. \A i \in DOMAIN terms : terms[i] \in Variables /\ FirstIndex(terms[i], terms) # i =>
        FirstIndex(terms[i], sig) = FirstIndex(terms[i], terms)
  BY DEF InPlace
<1>6. BoundByHead(x) \subseteq Variables \cap ToSet(terms)
  BY <1>2 DEF BoundByHead
<1> HIDE DEF terms, t, sig
<1>7. \A k \in DOMAIN terms : FirstIndex(terms[k], terms) \in DOMAIN terms /\ terms[FirstIndex(terms[k], terms)] = terms[k]
  BY <1>2, FirstIndexFacts
<1>8. Unifiable(x, t)
  <2>1. \A i \in DOMAIN terms : /\ terms[i] \notin Variables => t[i] = terms[i]
                                /\ terms[i] \in Variables /\ FirstIndex(terms[i], terms) # i =>
                                     t[i] = t[FirstIndex(terms[i], sig)]
    <3> TAKE i \in DOMAIN terms
    <3>1. terms[i] \notin Variables => t[i] = terms[i]
      BY <1>3
    <3>2. ASSUME terms[i] \in Variables, FirstIndex(terms[i], terms) # i
          PROVE  t[i] = t[FirstIndex(terms[i], sig)]
      <4> DEFINE f == FirstIndex(terms[i], terms)
      <4>1. FirstIndex(terms[i], sig) = f
        BY <1>5, <3>2
      <4>2. f \in DOMAIN terms /\ terms[f] = terms[i]
        BY <1>7
      <4> HIDE DEF f
      <4>3. t[f] = s[terms[i]] /\ t[i] = s[terms[i]]
        BY <1>3, <3>2, <4>2
      <4> QED
        BY <4>1, <4>3
    <3> QED
      BY <3>1, <3>2
  <2> QED
    BY <2>1 DEF Unifiable, terms, sig
<1>9. \A k \in DOMAIN sig : t[FirstIndex(sig[k], terms)] = s[sig[k]]
  <2> TAKE k \in DOMAIN sig
  <2>1. sig[k] \in Variables /\ sig[k] \in ToSet(terms)
    BY <1>4, <1>6 DEF ToSet
  <2>2. FirstIndex(sig[k], terms) \in DOMAIN terms /\ terms[FirstIndex(sig[k], terms)] = sig[k]
    BY <1>2, <2>1, FirstIndexFacts
  <2> QED
    BY <1>3, <2>1, <2>2
<1>10. RowOf(x, 1, s) = [k \in DOMAIN sig |-> t[FirstIndex(sig[k], terms)]]
  BY <1>9 DEF RowOf, sig
<1>11. FirstRows(x, {t}) = { [k \in DOMAIN sig |-> u[FirstIndex(sig[k], terms)]] : u \in { w \in {t} : Unifiable(x, w) } }
  BY DEF FirstRows, sig, terms
<1>12. RowOf(x, 1, s) \in FirstRows(x, {t})
  BY <1>8, <1>10, <1>11
<1> QED
  BY <1>12 DEF t

\* A variable of a signature is found in the row that a substitution makes of it.
LEMMA RowAt ==
  ASSUME NEW x, IsExecutor(x), NEW j \in 1 .. Len(x.body) + 1, NEW s, NEW v \in Known(x, j), NeededAfter(x, j - 1, v)
  PROVE  v \in ToSet(x.sig[j]) /\ RowOf(x, j, s)[FirstIndex(v, x.sig[j])] = s[v]
<1>1. x.sig[j] \in Seq(Variables) /\ v \in ToSet(x.sig[j])
  BY DEF IsExecutor, Signed
<1>2. FirstIndex(v, x.sig[j]) \in DOMAIN x.sig[j] /\ x.sig[j][FirstIndex(v, x.sig[j])] = v
  BY <1>1, FirstIndexFacts
<1> QED
  BY <1>1, <1>2 DEF RowOf

\* The sub-query that a rule instance needs is made.
LEMMA PassedFound ==
  ASSUME NEW x, IsExecutor(x), NEW s, Assigns(s, x), NEW j \in 1 .. Len(x.body), NEW rows, RowOf(x, j, s) \in rows
  PROVE  Pick(Substituted(x.body[j].args, s), x.body[j].bound) \in Passed(x, j, rows)
<1> DEFINE l == x.body[j]
           terms == Pick(l.args, l.bound)
           row == RowOf(x, j, s)
<1>1. /\ IsLiteral(l) /\ l.bound \in SUBSET DOMAIN l.args
      /\ \A i \in l.bound : l.args[i] \in Known(x, j) \/ l.args[i] \notin Variables
      /\ j \in 1 .. Len(x.body) + 1 /\ j \in (j - 1) + 1 .. Len(x.body)
  BY DEF IsExecutor, IsRule
<1>2. \A k \in DOMAIN terms : \E i \in l.bound : terms[k] = l.args[i]
  <2> HIDE DEF l
  <2> QED
    BY <1>1, BoundArguments
<1>3. Pick(Substituted(l.args, s), l.bound) = [k \in DOMAIN terms |-> IF terms[k] \in Variables THEN s[terms[k]] ELSE terms[k]]
  <2>1. IsLiteral(l) /\ \A v \in VarsOf(l) : s[v] \in Values
    BY <1>1, AssignedVariables
  <2> HIDE DEF l
  <2> QED
    BY <2>1, PickSubstituted
<1>4. ASSUME NEW k \in DOMAIN terms, terms[k] \in Variables
      PROVE  row[FirstIndex(terms[k], x.sig[j])] = s[terms[k]]
  <2>1. PICK i \in l.bound : terms[k] = l.args[i]
    BY <1>2
  <2>2. terms[k] \in Known(x, j) /\ terms[k] \in VarsOf(l)
    BY <1>1, <1>4, <2>1 DEF VarsOf, ToSet
  <2> HIDE DEF terms
  <2>3. NeededAfter(x, j - 1, terms[k])
    BY <1>1, <2>2 DEF NeededAfter, l
  <2> QED
    BY <1>1, <2>2, <2>3, RowAt
<1>5. Passed(x, j, rows) = { [k \in DOMAIN terms |-> IF terms[k] \in Variables THEN r[FirstIndex(terms[k], x.sig[j])]
                                                     ELSE terms[k]] : r \in rows }
  BY DEF Passed
<1> HIDE DEF terms, row
<1>6. [k \in DOMAIN terms |-> IF terms[k] \in Variables THEN s[terms[k]] ELSE terms[k]]
        = [k \in DOMAIN terms |-> IF terms[k] \in Variables THEN row[FirstIndex(terms[k], x.sig[j])] ELSE terms[k]]
  BY <1>4
<1>7. row \in rows
  BY DEF row
<1> QED
  BY <1>3, <1>5, <1>6, <1>7 DEF l

\* What a substitution makes of a literal passes for it, and becomes its row.
LEMMA AtomRowFound ==
  ASSUME NEW l, IsLiteral(l), NEW s, \A v \in VarsOf(l) : s[v] \in Values
  PROVE  LET u == Substituted(l.args, s) IN
         /\ \A i \in ConstantPositions(l) : u[i] = l.args[i]
         /\ \A i, k \in DOMAIN l.args : l.args[i] = l.args[k] => u[i] = u[k]
         /\ Pick(u, DOMAIN l.args \ ConstantPositions(l)) = AtomRow(l, s)
<1> DEFINE u == Substituted(l.args, s)
           P == DOMAIN l.args \ ConstantPositions(l)
<1>1. \A i \in DOMAIN l.args : u[i] = IF l.args[i] \in Variables THEN s[l.args[i]] ELSE l.args[i]
  BY DEF Substituted
<1>2. \A i \in ConstantPositions(l) : i \in DOMAIN l.args /\ l.args[i] \notin Variables
  BY DEF ConstantPositions
<1>3. VarSeq(l) \in Seq(Variables)
  BY LiteralFacts
<1>4. VarSeq(l) = Pick(l.args, P)
  BY DEF VarSeq
<1>5. Pick(u, P) = [k \in DOMAIN VarSeq(l) |-> IF VarSeq(l)[k] \in Variables THEN s[VarSeq(l)[k]] ELSE VarSeq(l)[k]]
  <2> HIDE DEF P
  <2> QED
    BY <1>4, PickSubstituted
<1> HIDE DEF u, P
<1>6. \A k \in DOMAIN VarSeq(l) : VarSeq(l)[k] \in Variables
  BY <1>3
<1>7. Pick(u, P) = AtomRow(l, s)
  BY <1>5, <1>6 DEF AtomRow
<1> QED
  BY <1>1, <1>2, <1>7 DEF u, P

\* Joining keeps it.
LEMMA JoinFound ==
  ASSUME NEW x, IsExecutor(x), NEW s, NEW j \in 1 .. Len(x.body),
         NEW rows, AtomRow(x.body[j], s) \in rows, NEW suppl, RowOf(x, j, s) \in suppl
  PROVE  RowOf(x, j + 1, s) \in Joined(x, j, rows, suppl)
<1> DEFINE keep == KeptColumns(x, j, x.sig[j])
           occ == VarSeq(x.body[j])
           sig == x.sig[j]
           a == AtomRow(x.body[j], s)
           row == RowOf(x, j, s)
<1>1. occ \in Seq(Variables)
  BY LiteralFacts DEF IsExecutor, IsRule
<1>2. j \in 1 .. Len(x.body) + 1 /\ j + 1 \in 1 .. Len(x.body) + 1
  BY DEF IsExecutor, IsRule
<1>3. sig \in Seq(Variables) /\ x.sig[j + 1] = [k \in DOMAIN keep |-> (occ \o sig)[keep[k]]]
  BY <1>2 DEF IsExecutor, Signed, NextSignature
<1>4. keep \in Seq(1 .. Len(occ) + Len(sig))
  BY <1>1, <1>3, KeptFacts DEF Keeps
<1>5. \A ik \in Joins(x, j) : ik[1] \in DOMAIN occ /\ ik[2] \in DOMAIN sig /\ occ[ik[1]] = sig[ik[2]]
  BY DEF Joins
<1>6. a = [k \in DOMAIN occ |-> s[occ[k]]] /\ row = [k \in DOMAIN sig |-> s[sig[k]]]
  BY DEF AtomRow, RowOf
<1>7. Joined(x, j, rows, suppl) =
        { [k \in DOMAIN keep |-> (rs[1] \o rs[2])[keep[k]]] :
            rs \in { rt \in rows \X suppl : \A ik \in Joins(x, j) : rt[1][ik[1]] = rt[2][ik[2]] } }
  BY DEF Joined
<1>8. a \in rows /\ row \in suppl
  OBVIOUS
<1>9. RowOf(x, j + 1, s) = [k \in DOMAIN x.sig[j + 1] |-> s[x.sig[j + 1][k]]]
  BY DEF RowOf
<1> HIDE DEF keep, occ, sig, a, row
<1>10. \A ik \in Joins(x, j) : a[ik[1]] = row[ik[2]]
  BY <1>5, <1>6
<1>11. \A i \in 1 .. Len(occ) + Len(sig) : (a \o row)[i] = s[(occ \o sig)[i]]
  <2> TAKE i \in 1 .. Len(occ) + Len(sig)
  <2> DEFINE V == { s[v] : v \in Variables }
  <2>1. Len(occ) \in Nat /\ Len(sig) \in Nat /\ DOMAIN occ = 1 .. Len(occ) /\ DOMAIN sig = 1 .. Len(sig)
    BY <1>1, <1>3
  <2>2. a \in [1 .. Len(occ) -> V] /\ row \in [1 .. Len(sig) -> V]
    BY <1>1, <1>3, <1>6, <2>1
  <2> HIDE DEF V
  <2>3. a \in Seq(V) /\ row \in Seq(V) /\ Len(a) = Len(occ) /\ Len(row) = Len(sig)
    BY <2>1, <2>2, FunctionIsSequence
  <2>4. CASE i <= Len(occ)
    <3>1. (occ \o sig)[i] = occ[i] /\ i \in DOMAIN occ
      BY <1>1, <1>3, <2>4
    <3>2. (a \o row)[i] = a[i]
      BY <2>1, <2>3, <2>4
    <3> QED
      BY <1>6, <3>1, <3>2
  <2>5. CASE i > Len(occ)
    <3>1. (occ \o sig)[i] = sig[i - Len(occ)] /\ i - Len(occ) \in DOMAIN sig
      BY <1>1, <1>3, <2>5
    <3>2. (a \o row)[i] = row[i - Len(occ)]
      BY <2>1, <2>3, <2>5
    <3> QED
      BY <1>6, <3>1, <3>2
  <2>6. i <= Len(occ) \/ i > Len(occ)
    BY <2>1
  <2> QED
    BY <2>4, <2>5, <2>6, Zenon
<1>12. \A k \in DOMAIN keep : keep[k] \in 1 .. Len(occ) + Len(sig)
  BY <1>4
<1>13. RowOf(x, j + 1, s) = [k \in DOMAIN keep |-> (a \o row)[keep[k]]]
  <2>1. DOMAIN x.sig[j + 1] = DOMAIN keep /\ \A k \in DOMAIN keep : x.sig[j + 1][k] = (occ \o sig)[keep[k]]
    BY <1>3
  <2>2. \A k \in DOMAIN keep : s[x.sig[j + 1][k]] = (a \o row)[keep[k]]
    BY <1>11, <1>12, <2>1, Zenon
  <2> QED
    BY <1>9, <2>1, <2>2
<1> DEFINE pairs == { rt \in rows \X suppl : \A ik \in Joins(x, j) : rt[1][ik[1]] = rt[2][ik[2]] }
           kept(rs) == [k \in DOMAIN keep |-> (rs[1] \o rs[2])[keep[k]]]
<1>14. <<a, row>> \in pairs
  BY <1>8, <1>10
<1>15. RowOf(x, j + 1, s) = kept(<<a, row>>)
  BY <1>13
<1>16. Joined(x, j, rows, suppl) = { kept(rs) : rs \in pairs }
  BY <1>7
<1> HIDE DEF pairs, kept
<1> QED
  BY <1>14, <1>15, <1>16

\* The last supplementary relation gives the head.
LEMMA HeadFound ==
  ASSUME NEW x, IsExecutor(x), NEW s, NEW rows, RowOf(x, Len(x.body) + 1, s) \in rows
  PROVE  Substituted(x.head.args, s) \in HeadTuples(x, rows)
<1> DEFINE n == Len(x.body) + 1
           args == x.head.args
           row == RowOf(x, n, s)
<1>1. n \in 1 .. Len(x.body) + 1 /\ n \in Nat /\ n - 1 = Len(x.body) /\ DOMAIN x.sig = 1 .. n
  BY DEF IsExecutor, IsRule, Signed
<1>2. Len(x.sig) = n
  BY <1>1
<1>3. VarsOf(x.head) \subseteq Known(x, n)
  BY DEF IsExecutor, IsRule
<1>4. ASSUME NEW i \in DOMAIN args, args[i] \in Variables
      PROVE  row[FirstIndex(args[i], x.sig[n])] = s[args[i]]
  <2>1. args[i] \in VarsOf(x.head)
    BY <1>4 DEF VarsOf, ToSet
  <2>2. args[i] \in Known(x, n) /\ NeededAfter(x, n - 1, args[i])
    BY <1>3, <2>1 DEF NeededAfter
  <2> QED
    BY <1>1, <2>2, RowAt
<1>5. HeadTuples(x, rows) = { [i \in DOMAIN args |-> IF args[i] \in Variables
                                 THEN r[FirstIndex(args[i], x.sig[n])] ELSE args[i]] : r \in rows }
  BY <1>2 DEF HeadTuples
<1>6. row \in rows
  OBVIOUS
<1>7. Substituted(args, s) = [i \in DOMAIN args |-> IF args[i] \in Variables THEN s[args[i]] ELSE args[i]]
  BY DEF Substituted
<1> HIDE DEF args, row, n
<1>8. Substituted(args, s) = [i \in DOMAIN args |-> IF args[i] \in Variables
                                 THEN row[FirstIndex(args[i], x.sig[n])] ELSE args[i]]
  BY <1>4, <1>7
<1> QED
  BY <1>5, <1>6, <1>8 DEF args

-----------------------------------------------------------------------------
(* Closed inputs                                                           *)

\* The rows that atom l is joined with.
AtomTable(l) == IF l.pred \in EDBPreds THEN EDBRows(l) ELSE AnswerRows(l)

\* Of the supplementary relations S: what atom j asks has been asked, and what it is
\* joined to is there.
HasAsked(x, j, S, I) ==
  KeyOf(x.body[j]) \in Keys => Passed(x, j, S[j]) \subseteq ToSet(I[KeyOf(x.body[j])])

Settled(x, j, S) == Joined(x, j, AtomTable(x.body[j]), S[j]) \subseteq S[j + 1]

\* Evaluating the rule for input t again would find nothing: no answer, and no
\* sub-query that is not among the inputs I.
Closed(x, t, I) ==
  \E S :
    /\ FirstRows(x, {t}) \subseteq S[1]
    /\ \A j \in 1 .. Len(x.body) : HasAsked(x, j, S, I) /\ Settled(x, j, S)
    /\ HeadTuples(x, S[Len(x.body) + 1]) \subseteq answers[KeyOf(x.head)]

\* The answers have every fact of F that the inputs ask for.
Answered(F, I) ==
  /\ \A p \in EDBPreds : F[p] \subseteq db[p]
  /\ \A k \in Keys : \A u \in F[k[1]] : Pick(u, k[2]) \in ToSet(I[k]) => u \in answers[k]

LEMMA ClosedFinds ==
  ASSUME NEW x, IsExecutor(x), InPlace(x), NEW s, Assigns(s, x), NEW I,
         Closed(x, Pick(Substituted(x.head.args, s), x.head.bound), I),
         NEW F, Answered(F, I), \A j \in 1 .. Len(x.body) : Holds(x.body[j], s, F)
  PROVE  Substituted(x.head.args, s) \in answers[KeyOf(x.head)]
<1> DEFINE n == Len(x.body)
           t == Pick(Substituted(x.head.args, s), x.head.bound)
<1>1. PICK S : /\ FirstRows(x, {t}) \subseteq S[1]
               /\ \A j \in 1 .. n : HasAsked(x, j, S, I) /\ Settled(x, j, S)
               /\ HeadTuples(x, S[n + 1]) \subseteq answers[KeyOf(x.head)]
  BY DEF Closed
<1>2. n \in Nat
  BY DEF IsExecutor, IsRule
<1>3. RowOf(x, 1, s) \in S[1]
  BY <1>1, FirstRowFound
<1>4. ASSUME NEW j \in 1 .. n, RowOf(x, j, s) \in S[j]
      PROVE  RowOf(x, j + 1, s) \in S[j + 1]
  <2> DEFINE l == x.body[j]
             u == Substituted(l.args, s)
  <2>1. IsLiteral(l) /\ \A v \in VarsOf(l) : s[v] \in Values
    BY AssignedVariables DEF IsExecutor, IsRule
  <2>2. u \in F[l.pred]
    BY DEF Holds
  <2>3. /\ \A i \in ConstantPositions(l) : u[i] = l.args[i]
        /\ \A i, k \in DOMAIN l.args : l.args[i] = l.args[k] => u[i] = u[k]
        /\ Pick(u, DOMAIN l.args \ ConstantPositions(l)) = AtomRow(l, s)
    <3> HIDE DEF l
    <3> QED
      BY <2>1, AtomRowFound
  <2>4. AtomRow(l, s) \in AtomTable(l)
    <3>1. CASE l.pred \in EDBPreds
      <4>1. u \in db[l.pred]
        BY <2>2, <3>1 DEF Answered
      <4>2. EDBRows(l) =
              { Pick(w, DOMAIN l.args \ ConstantPositions(l)) :
                  w \in { v \in db[l.pred] : /\ \A i \in ConstantPositions(l) : v[i] = l.args[i]
                                            /\ \A i, k \in DOMAIN l.args : l.args[i] = l.args[k] => v[i] = v[k] } }
        BY DEF EDBRows
      <4> HIDE DEF u, l
      <4>3. AtomRow(l, s) \in EDBRows(l)
        BY <2>3, <4>1, <4>2
      <4> QED
        BY <3>1, <4>3 DEF AtomTable
    <3>2. CASE l.pred \notin EDBPreds
      <4>1. l.pred \in IDBPreds /\ KeyOf(l) \in Keys /\ KeyOf(l)[1] = l.pred /\ KeyOf(l)[2] = l.bound
        BY <3>2, AtomFacts
      <4>2. Pick(u, l.bound) \in Passed(x, j, S[j])
        BY <1>4, PassedFound
      <4>3. Pick(u, l.bound) \in ToSet(I[KeyOf(l)])
        BY <1>1, <4>1, <4>2 DEF HasAsked
      <4>4. AnswerRows(l) =
              { Pick(w, DOMAIN l.args \ ConstantPositions(l)) :
                  w \in { v \in answers[KeyOf(l)] : \A i \in ConstantPositions(l) : v[i] = l.args[i] } }
        BY DEF AnswerRows
      <4> HIDE DEF u, l
      <4>5. u \in answers[KeyOf(l)]
        BY <2>2, <4>1, <4>3 DEF Answered
      <4>6. AtomRow(l, s) \in AnswerRows(l)
        BY <2>3, <4>4, <4>5
      <4> QED
        BY <3>2, <4>6 DEF AtomTable
    <3> QED
      BY <3>1, <3>2
  <2>5. RowOf(x, j + 1, s) \in Joined(x, j, AtomTable(l), S[j])
    BY <1>4, <2>4, JoinFound
  <2> QED
    BY <1>1, <2>5 DEF Settled
<1> DEFINE R == { j \in 0 .. n : RowOf(x, j + 1, s) \in S[j + 1] }
<1>5. 0 \in R
  BY <1>2, <1>3
<1>6. \A i \in 1 .. n : i - 1 \in R => i \in R
  <2> SUFFICES ASSUME NEW i \in 1 .. n, i - 1 \in R PROVE i \in R
    OBVIOUS
  <2>1. (i - 1) + 1 = i /\ i \in 0 .. n
    BY <1>2
  <2>2. RowOf(x, i, s) \in S[i]
    BY <2>1
  <2>3. RowOf(x, i + 1, s) \in S[i + 1]
    BY <1>4, <2>2
  <2> QED
    BY <2>1, <2>3
<1> HIDE DEF R
<1>7. n \in R
  <2>1. 0 .. n \subseteq R
    BY <1>2, <1>5, <1>6, UpTo
  <2> QED
    BY <1>2, <2>1
<1>8. RowOf(x, n + 1, s) \in S[n + 1]
  BY <1>7 DEF R
<1>9. Substituted(x.head.args, s) \in HeadTuples(x, S[n + 1])
  BY <1>8, HeadFound
<1> QED
  BY <1>1, <1>9

LEMMA ExecutorInPlace ==
  ASSUME RepeatsInPlace, NEW P \in Programs, NEW k \in Keys, NEW i \in DOMAIN ExecutorsOf(P, k)
  PROVE  InPlace(ExecutorsOf(P, k)[i])
<1> DEFINE r == RuleList(P, k)[i]
           y == RuleExecutor(AdornedRule[<<r, k[2]>>])
           x == ExecutorsOf(P, k)[i]
<1>1. i \in DOMAIN RuleList(P, k) /\ r \in ToSet(P) /\ r.head.pred = k[1]
  BY RuleListFacts
<1>2. r \in DatalogRules /\ r \in AllRules
  BY <1>1, ProgramsAreSafe DEF AllRules
<1>3. DOMAIN r.head.args = 1 .. Arity[k[1]] /\ k[2] \in SUBSET DOMAIN r.head.args
  <2>1. r.head \in Literals
    BY <1>2 DEF DatalogRules
  <2> QED
    BY <2>1, <1>1, LiteralsAreLiterals, LiteralFacts, KeyFacts
<1>4. x = y
  BY <1>1 DEF ExecutorsOf
<1>5. x.head.args = r.head.args /\ x.head.bound = k[2]
  <2>1. Adorns(x, r, k[2])
    BY ExecutorFacts
  <2> HIDE DEF r, y, x
  <2> QED
    BY <2>1 DEF Adorns
<1> HIDE DEF r, y, x
<1>6. LET terms == Pick(r.head.args, k[2])
      IN  \A m \in DOMAIN terms : terms[m] \in Variables /\ FirstIndex(terms[m], terms) # m =>
            FirstIndex(terms[m], y.sig[1]) = FirstIndex(terms[m], terms)
  BY <1>2, <1>3 DEF RepeatsInPlace, y
<1> QED
  BY <1>4, <1>5, <1>6 DEF InPlace, x

\* An instance of a rule is one of its executor for a predicate.
LEMMA InstanceOfExecutor ==
  ASSUME NEW P \in Programs, NEW r \in ToSet(P), NEW s, NEW facts, NEW t, DerivesWith(r, s, facts, t),
         NEW b \in SUBSET DOMAIN r.head.args, NEW x, Adorns(x, r, b)
  PROVE  /\ Assigns(s, x) /\ t = Substituted(x.head.args, s)
         /\ \A j \in 1 .. Len(x.body) : Holds(x.body[j], s, facts)
<1> DEFINE B == UNION { VarsOf(l) : l \in ToSet(r.body) }
<1>1. s \in [B -> Values] /\ t = Substituted(r.head.args, s) /\ \A l \in ToSet(r.body) : Holds(l, s, facts)
  BY DEF DerivesWith, Substitutions
<1>2. VarsOf(r.head) \subseteq B
  BY ProgramsAreSafe DEF SafeRules
<1>3. /\ x.head.args = r.head.args /\ x.head.bound = b
      /\ Len(x.body) \in Nat /\ DOMAIN x.body = 1 .. Len(x.body)
      /\ \A j \in DOMAIN x.body : \E l \in ToSet(r.body) : x.body[j].pred = l.pred /\ x.body[j].args = l.args
  BY DEF Adorns
<1>4. \A j \in 1 .. Len(x.body) : VarsOf(x.body[j]) \subseteq B
  BY <1>3 DEF VarsOf
<1>5. ASSUME NEW j \in 1 .. Len(x.body)
      PROVE  Holds(x.body[j], s, facts)
  <2>1. PICK l \in ToSet(r.body) : x.body[j].pred = l.pred /\ x.body[j].args = l.args
    BY <1>3
  <2>2. Holds(l, s, facts)
    BY <1>1
  <2> QED
    BY <2>1, <2>2 DEF Holds
<1>6. BoundByHead(x) \subseteq B
  <2> SUFFICES ASSUME NEW v \in BoundByHead(x) PROVE v \in B
    OBVIOUS
  <2>1. v \in Variables /\ \E i \in x.head.bound : x.head.args[i] = v
    BY DEF BoundByHead
  <2>2. v \in VarsOf(r.head)
    BY <1>3, <2>1 DEF VarsOf, ToSet
  <2> QED
    BY <1>2, <2>2
<1> HIDE DEF B
<1>7. Assigns(s, x)
  <2>1. (Len(x.body) + 1) - 1 = Len(x.body)
    BY <1>3
  <2>2. Known(x, Len(x.body) + 1) \subseteq B
    BY <1>4, <1>6, <2>1 DEF Known
  <2> QED
    BY <1>1, <2>2 DEF Assigns
<1> QED
  BY <1>1, <1>3, <1>5, <1>7

LEMMA RuleIsPicked ==
  ASSUME NEW P \in Programs, NEW r \in ToSet(P), NEW k, r.head.pred = k[1]
  PROVE  \E i \in DOMAIN RuleList(P, k) : RuleList(P, k)[i] = r
<1> DEFINE S == { i \in DOMAIN P : P[i].head.pred = k[1] }
<1>1. P \in Seq(DatalogRules)
  BY ProgramAssumption
<1>2. RuleList(P, k) = Pick(P, S)
  BY DEF RuleList
<1>3. PICK m \in DOMAIN P : P[m] = r
  BY DEF ToSet
<1>4. m \in S
  BY <1>3
<1> HIDE DEF S
<1>5. \A v : v \in ToSet(Pick(P, S)) <=> \E i \in S \cap DOMAIN P : v = P[i]
  <2>1. Picked(DatalogRules, P, S)
    BY <1>1, PickFacts
  <2> QED
    BY <2>1 DEF Picked
<1>6. r \in ToSet(RuleList(P, k))
  BY <1>2, <1>3, <1>4, <1>5
<1> QED
  BY <1>6 DEF ToSet

\* Every input of every predicate is closed under its rules.
AllClosed(P, I) ==
  \A k \in Keys : \A i \in DOMAIN ExecutorsOf(P, k) : \A t \in ToSet(I[k]) : Closed(ExecutorsOf(P, k)[i], t, I)

\* The facts of a model M that are not asked for or have been answered.
NotMissed(M, I) ==
  [p \in Preds |->
     IF p \in EDBPreds THEN db[p]
     ELSE { u \in M[p] : \A k \in Keys : k[1] = p /\ Pick(u, k[2]) \in ToSet(I[k]) => u \in answers[k] }]

LEMMA NotMissedAnswered ==
  ASSUME NEW M, NEW I
  PROVE  Answered(NotMissed(M, I), I)
<1>1. \A p \in EDBPreds : NotMissed(M, I)[p] = db[p]
  BY PredicateAssumption DEF NotMissed
<1>2. ASSUME NEW k \in Keys, NEW u \in NotMissed(M, I)[k[1]], Pick(u, k[2]) \in ToSet(I[k])
      PROVE  u \in answers[k]
  <2>1. k[1] \in Preds /\ k[1] \notin EDBPreds
    BY KeyFacts DEF IDBPreds
  <2>2. NotMissed(M, I)[k[1]] =
          { w \in M[k[1]] : \A key \in Keys : key[1] = k[1] /\ Pick(w, key[2]) \in ToSet(I[key]) => w \in answers[key] }
    BY <2>1 DEF NotMissed
  <2> QED
    BY <1>2, <2>2
<1> QED
  BY <1>1, <1>2 DEF Answered

\* When all inputs are closed, they are answered as the model does: what is not
\* missed of it is a model too, so nothing is.
LEMMA ClosedIsComplete ==
  ASSUME NEW P \in Programs, db \in Databases, RepeatsInPlace, NEW I, AllClosed(P, I)
  PROVE  Answered(LeastModel(P, db), I)
<1> DEFINE M == LeastModel(P, db)
           F == NotMissed(M, I)
<1>1. IsLeastModel(P, Given(db), M) /\ P \in SafeRules /\ Given(db) \in Interpretations
  BY LeastModelFacts, ProgramsAreSafe
<1> HIDE DEF M
<1>2. M \in Interpretations /\ Below(Given(db), M) /\ Consequences(P, M) = M
  BY <1>1 DEF IsLeastModel
<1>3. \A p \in EDBPreds : p \in Preds /\ Given(db)[p] = db[p]
  BY PredicateAssumption DEF Given
<1>4. \A p \in Preds : /\ p \in EDBPreds => F[p] = db[p]
                       /\ p \notin EDBPreds => F[p] = { u \in M[p] :
                            \A k \in Keys : k[1] = p /\ Pick(u, k[2]) \in ToSet(I[k]) => u \in answers[k] }
  BY DEF NotMissed
<1>5. Answered(F, I)
  BY NotMissedAnswered
<1>6. F = [p \in Preds |-> F[p]]
  BY DEF NotMissed
<1> HIDE DEF F
<1>7. Below(F, M)
  <2>1. \A p \in EDBPreds : db[p] \subseteq M[p]
    BY <1>2, <1>3 DEF Below
  <2> QED
    BY <1>4, <2>1 DEF Below
<1>8. F \in Interpretations
  <2>1. \A p \in Preds : F[p] \in SUBSET AllTuples
    BY <1>2, <1>7 DEF Below, Interpretations, AllTuples
  <2> QED
    BY <1>6, <2>1 DEF Interpretations, AllTuples
<1>9. Below(Given(db), F)
  BY <1>4 DEF Below, Given
<1>10. ASSUME NEW p \in Preds, NEW t \in Consequences(P, F)[p]
       PROVE  t \in F[p]
  <2>1. CASE t \in F[p]
    BY <2>1
  <2>2. CASE \E r \in ToSet(P) : r.head.pred = p /\ \E s : DerivesWith(r, s, F, t)
    <3>1. PICK r \in ToSet(P) : r.head.pred = p /\ \E s : DerivesWith(r, s, F, t)
      BY <2>2
    <3>2. PICK s : DerivesWith(r, s, F, t)
      BY <3>1
    <3>3. r \in DatalogRules /\ p \in IDBPreds /\ p \notin EDBPreds
      BY <3>1, ProgramsAreSafe, RuleAssumption DEF IDBPreds
    <3>4. t \in M[p]
      <4>1. Below(Consequences(P, F), Consequences(P, M))
        BY <1>1, <1>7, ConsequencesMonotone, SafeRulesBodies
      <4> QED
        BY <1>2, <1>10, <4>1 DEF Below
    <3>5. ASSUME NEW k \in Keys, k[1] = p, Pick(t, k[2]) \in ToSet(I[k])
          PROVE  t \in answers[k]
      <4>1. PICK i \in DOMAIN RuleList(P, k) : RuleList(P, k)[i] = r
        BY <3>1, <3>5, RuleIsPicked
      <4> DEFINE x == ExecutorsOf(P, k)[i]
      <4>2. i \in DOMAIN ExecutorsOf(P, k)
        BY RuleListFacts
      <4>3. Prepared(x, P, k) /\ Adorns(x, r, k[2]) /\ InPlace(x)
        BY <4>1, <4>2, ExecutorFacts, ExecutorInPlace
      <4>4. k[2] \in SUBSET DOMAIN r.head.args
        <5>1. IsLiteral(r.head)
          BY <3>3, LiteralsAreLiterals DEF DatalogRules
        <5> QED
          BY <3>1, <3>5, <5>1, LiteralFacts, KeyFacts
      <4>5. \A u \in ToSet(I[k]) : Closed(x, u, I)
        BY <4>2 DEF AllClosed
      <4> HIDE DEF x
      <4>6. IsExecutor(x) /\ KeyOf(x.head) = k
        BY <4>3 DEF Prepared
      <4>7. x.head.bound = k[2]
        BY <4>3 DEF Adorns
      <4>8. /\ Assigns(s, x) /\ t = Substituted(x.head.args, s)
            /\ \A j \in 1 .. Len(x.body) : Holds(x.body[j], s, F)
        BY <3>2, <4>3, <4>4, InstanceOfExecutor
      <4>9. Closed(x, Pick(Substituted(x.head.args, s), x.head.bound), I)
        BY <3>5, <4>5, <4>7, <4>8
      <4> QED
        BY <1>5, <4>3, <4>6, <4>8, <4>9, ClosedFinds
    <3> QED
      BY <1>4, <3>3, <3>4, <3>5
  <2> QED
    BY <1>10, <2>1, <2>2, ConsequencesFacts
<1>11. Consequences(P, F) = F
  <2>1. Consequences(P, F) \in Interpretations /\ Below(F, Consequences(P, F))
    BY <1>1, <1>8, ConsequencesGrow
  <2>2. \A p \in Preds : Consequences(P, F)[p] = F[p]
    BY <1>10, <2>1 DEF Below
  <2> QED
    BY <1>8, <2>1, <2>2 DEF Interpretations
<1>12. Below(M, F)
  BY <1>1, <1>8, <1>9, <1>11 DEF IsLeastModel
<1>13. \A p \in Preds : M[p] \subseteq F[p]
  BY <1>12 DEF Below
<1>14. Answered(M, I)
  <2>1. \A p \in EDBPreds : M[p] \subseteq db[p]
    BY <1>3, <1>5, <1>13 DEF Answered
  <2>2. \A k \in Keys : M[k[1]] \subseteq F[k[1]]
    BY <1>13, KeyFacts
  <2> QED
    BY <1>5, <2>1, <2>2 DEF Answered
<1> QED
  BY <1>14 DEF M

-----------------------------------------------------------------------------
(* What a round has done                                                   *)

\* A rule's task has done with the atoms before the one it has reached, and has no
\* rows beyond that one.
Reached(t, I) ==
  /\ \A m \in 1 .. t.next - 2 : HasAsked(t.exec, m, t.suppl, I) /\ Settled(t.exec, m, t.suppl)
  /\ \A m \in 1 .. Len(t.exec.body) + 1 : m > t.next => t.suppl[m] = {}

\* It has asked for that one too, and has the answers unless the task above it is to
\* bring them.
TaskProgress(t, above, I) ==
  t.type = "RULE" =>
    /\ Reached(t, I)
    /\ HasAsked(t.exec, t.next - 1, t.suppl, I)
    /\ above = "RULE_QUERY" \/ Settled(t.exec, t.next - 1, t.suppl)

Progress(stack, above, I) ==
  \A q \in DOMAIN stack : TaskProgress(stack[q], IF q < Len(stack) THEN stack[q + 1].type ELSE above, I)

\* Task t will evaluate, or is evaluating, rule i for u, the input m of k.
Covers(P, t, k, i, m, u) ==
  \/ t.type = "QUERY" /\ t.key = k /\ t.offset < m /\ t.next <= i
  \/ t.type = "RULE" /\ t.exec = ExecutorsOf(P, k)[i] /\ FirstRows(t.exec, {u}) \subseteq t.suppl[1]

CoversIn(P, stack, k, i, m, u) == \E q \in DOMAIN stack : Covers(P, stack[q], k, i, m, u)

Called(c, k, m) == c # NoCall /\ c.key = k /\ c.offset < m

\* In a round without new answers: rule i has nothing left to find for input m of k, or
\* it is going to be evaluated.
IsCovered(P, stack, c, I, k, i, m) ==
  \/ Called(c, k, m)
  \/ CoversIn(P, stack, k, i, m, I[k][m])
  \/ Closed(ExecutorsOf(P, k)[i], I[k][m], I)

RoundOK(P, stack, c, I) ==
  /\ Progress(stack, "NONE", I)
  /\ \A k \in Keys : \A i \in DOMAIN ExecutorsOf(P, k) : \A m \in DOMAIN I[k] : IsCovered(P, stack, c, I, k, i, m)

\* From the inputs I to J, with c called for the new ones.
Extends(I, J, c) ==
  \A k \in Keys :
    /\ ToSet(I[k]) \subseteq ToSet(J[k])
    /\ \A m \in DOMAIN J[k] : (m \in DOMAIN I[k] /\ J[k][m] = I[k][m]) \/ Called(c, k, m)

Carries(P, stack, stack2) ==
  \A k, i, m, u : CoversIn(P, stack, k, i, m, u) => CoversIn(P, stack2, k, i, m, u)

\* What the evaluation that begins with a stack does.
Goes(P, stack) ==
  Progress(tasks', "NONE", inputs') /\ Carries(P, stack, tasks') /\ Extends(inputs, inputs', call')

LEMMA HasAskedMore ==
  ASSUME NEW x, NEW j, NEW S, NEW I, NEW J, \A k \in Keys : ToSet(I[k]) \subseteq ToSet(J[k]), HasAsked(x, j, S, I)
  PROVE  HasAsked(x, j, S, J)
BY DEF HasAsked

LEMMA ClosedMore ==
  ASSUME NEW x, NEW t, NEW I, NEW J, \A k \in Keys : ToSet(I[k]) \subseteq ToSet(J[k]), Closed(x, t, I)
  PROVE  Closed(x, t, J)
BY HasAskedMore DEF Closed

LEMMA ProgressMore ==
  ASSUME NEW stack, NEW above, NEW I, NEW J, \A k \in Keys : ToSet(I[k]) \subseteq ToSet(J[k]),
         Progress(stack, above, I)
  PROVE  Progress(stack, above, J)
<1>1. \A t : Reached(t, I) => Reached(t, J)
  BY HasAskedMore DEF Reached
<1>2. \A t, a : TaskProgress(t, a, I) => TaskProgress(t, a, J)
  BY <1>1, HasAskedMore DEF TaskProgress
<1> QED
  BY <1>2 DEF Progress

\* Whatever lies above tasks that wait for nothing.
LEMMA ProgressUnder ==
  ASSUME NEW stack, NEW a, a # "RULE_QUERY", NEW b, NEW I, Progress(stack, a, I)
  PROVE  Progress(stack, b, I)
<1>1. \A t : TaskProgress(t, a, I) => TaskProgress(t, b, I)
  BY DEF TaskProgress
<1> SUFFICES ASSUME NEW q \in DOMAIN stack
             PROVE  TaskProgress(stack[q], IF q < Len(stack) THEN stack[q + 1].type ELSE b, I)
  BY DEF Progress
<1>2. TaskProgress(stack[q], IF q < Len(stack) THEN stack[q + 1].type ELSE a, I)
  BY DEF Progress
<1>3. CASE q < Len(stack)
  BY <1>2, <1>3
<1>4. CASE ~(q < Len(stack))
  BY <1>1, <1>2, <1>4
<1> QED
  BY <1>3, <1>4

LEMMA ProgressPush ==
  ASSUME NEW S, NEW f \in Seq(S), NEW t \in S, NEW above, NEW I
  PROVE  Progress(Append(f, t), above, I) <=> Progress(f, t.type, I) /\ TaskProgress(t, above, I)
<1> DEFINE s == Append(f, t)
           of(g, q, a) == IF q < Len(g) THEN g[q + 1].type ELSE a
<1>1. /\ Len(s) = Len(f) + 1 /\ DOMAIN s = 1 .. Len(f) + 1 /\ \A q \in DOMAIN f : s[q] = f[q]
      /\ Len(f) \in Nat /\ DOMAIN f = 1 .. Len(f)
  BY SequenceTop
<1>2. s[Len(f) + 1] = t
  BY <1>1
<1> HIDE DEF s
<1>3. \A q \in DOMAIN f : of(s, q, above) = of(f, q, t.type)
  <2> TAKE q \in DOMAIN f
  <2>1. q \in Nat /\ q <= Len(f)
    BY <1>1
  <2>2. CASE q < Len(f)
    BY <1>1, <2>1, <2>2
  <2>3. CASE q = Len(f)
    BY <1>1, <1>2, <2>1, <2>3
  <2> QED
    BY <1>1, <2>1, <2>2, <2>3
<1>4. of(s, Len(f) + 1, above) = above
  BY <1>1
<1>5. Progress(s, above, I) <=> \A q \in DOMAIN s : TaskProgress(s[q], of(s, q, above), I)
  BY DEF Progress
<1>6. Progress(f, t.type, I) <=> \A q \in DOMAIN f : TaskProgress(f[q], of(f, q, t.type), I)
  BY DEF Progress
<1> HIDE DEF of
<1>7. \A q \in DOMAIN s : q \in DOMAIN f \/ q = Len(f) + 1
  BY <1>1
<1>8. Len(f) + 1 \in DOMAIN s /\ \A q \in DOMAIN f : q \in DOMAIN s
  BY <1>1
<1>9. Progress(s, above, I) => Progress(f, t.type, I) /\ TaskProgress(t, above, I)
  BY <1>1, <1>2, <1>3, <1>4, <1>5, <1>6, <1>8
<1>10. Progress(f, t.type, I) /\ TaskProgress(t, above, I) => Progress(s, above, I)
  BY <1>1, <1>2, <1>3, <1>4, <1>5, <1>6, <1>7
<1> QED
  BY <1>9, <1>10 DEF s

LEMMA CoversPush ==
  ASSUME NEW P, NEW S, NEW f \in Seq(S), NEW t \in S, NEW k, NEW i, NEW m, NEW u
  PROVE  CoversIn(P, Append(f, t), k, i, m, u) <=> CoversIn(P, f, k, i, m, u) \/ Covers(P, t, k, i, m, u)
<1> DEFINE s == Append(f, t)
<1>1. DOMAIN s = 1 .. Len(f) + 1 /\ (\A q \in DOMAIN f : s[q] = f[q]) /\ Len(f) \in Nat /\ DOMAIN f = 1 .. Len(f)
  BY SequenceTop
<1>2. s[Len(f) + 1] = t
  BY <1>1
<1> HIDE DEF s
<1>3. /\ \A q \in DOMAIN s : q \in DOMAIN f \/ q = Len(f) + 1
      /\ Len(f) + 1 \in DOMAIN s /\ \A q \in DOMAIN f : q \in DOMAIN s
  BY <1>1
<1>4. CoversIn(P, s, k, i, m, u) <=> \E q \in DOMAIN s : Covers(P, s[q], k, i, m, u)
  BY DEF CoversIn
<1>5. CoversIn(P, f, k, i, m, u) <=> \E q \in DOMAIN f : Covers(P, f[q], k, i, m, u)
  BY DEF CoversIn
<1>6. CoversIn(P, s, k, i, m, u) => CoversIn(P, f, k, i, m, u) \/ Covers(P, t, k, i, m, u)
  BY <1>1, <1>2, <1>3, <1>4, <1>5
<1>7. CoversIn(P, f, k, i, m, u) \/ Covers(P, t, k, i, m, u) => CoversIn(P, s, k, i, m, u)
  BY <1>1, <1>2, <1>3, <1>4, <1>5
<1> QED
  BY <1>6, <1>7 DEF s

\* The task that has reached atom j, with what the atom was joined to.
Joining(t, j, rows) == [t EXCEPT !.suppl[j + 1] = @ \cup Joined(t.exec, j, rows, t.suppl[j])]

IsJoined(t2, t, j, rows) ==
  /\ t2.type = "RULE" /\ t2.exec = t.exec /\ t2.next = t.next
  /\ t2.suppl[j + 1] = t.suppl[j + 1] \cup Joined(t.exec, j, rows, t.suppl[j])
  /\ \A m \in 1 .. Len(t.exec.body) + 1 : m # j + 1 => t2.suppl[m] = t.suppl[m]
  /\ j + 1 = t.next /\ t.next \in 2 .. Len(t.exec.body) + 1 /\ Len(t.exec.body) \in Nat

LEMMA JoiningFacts ==
  ASSUME NEW P \in Programs, NEW M, NEW t, RuleTaskOK(t, P, M), NEW j, j = t.next - 1, NEW rows
  PROVE  IsJoined(Joining(t, j, rows), t, j, rows)
<1> DEFINE t2 == Joining(t, j, rows)
<1> DEFINE more == t.suppl[j + 1] \cup Joined(t.exec, j, rows, t.suppl[j])
<1>1. t \in RuleTasks(P) /\ RuleTaskIs(t, P, M) /\ t.type = "RULE" /\ t.next \in 2 .. Len(t.exec.body) + 1
  BY RuleTaskFacts DEF RuleTaskOK
<1>2. Len(t.exec.body) \in Nat /\ DOMAIN t.suppl = 1 .. Len(t.exec.body) + 1
  BY <1>1 DEF RuleTaskIs
<1>3. j + 1 = t.next /\ j + 1 \in DOMAIN t.suppl
  BY <1>1, <1>2
<1>4. t2 = [t EXCEPT !.suppl = [t.suppl EXCEPT ![j + 1] = more]]
  BY DEF Joining
<1> HIDE DEF more, t2
<1>5. t = [type |-> t.type, exec |-> t.exec, next |-> t.next, suppl |-> t.suppl]
  BY <1>1 DEF RuleTasks
<1>6. /\ t2.type = t.type /\ t2.exec = t.exec /\ t2.next = t.next
      /\ t2.suppl = [t.suppl EXCEPT ![j + 1] = more]
  BY <1>4, <1>5
<1>7. /\ t2.suppl[j + 1] = more
      /\ \A m \in 1 .. Len(t.exec.body) + 1 : m # j + 1 => t2.suppl[m] = t.suppl[m]
  BY <1>2, <1>3, <1>6
<1> HIDE DEF t2
<1>8. IsJoined(t2, t, j, rows)
  BY <1>1, <1>2, <1>3, <1>6, <1>7 DEF more, IsJoined
<1> QED
  BY <1>8 DEF t2

StillCovers(P, t, t2) == \A k, i, m, u : Covers(P, t, k, i, m, u) => Covers(P, t2, k, i, m, u)

LEMMA JoiningGoes ==
  ASSUME NEW P \in Programs, NEW M, NEW t, RuleTaskOK(t, P, M), NEW j, j = t.next - 1,
         NEW I, Reached(t, I), HasAsked(t.exec, j, t.suppl, I), NEW above
  PROVE  /\ TaskProgress(Joining(t, j, AtomTable(t.exec.body[j])), above, I)
         /\ StillCovers(P, t, Joining(t, j, AtomTable(t.exec.body[j])))
<1> DEFINE x == t.exec
           t2 == Joining(t, j, AtomTable(t.exec.body[j]))
<1>1. /\ t2.type = "RULE" /\ t2.exec = x /\ t2.next = t.next
      /\ t2.suppl[j + 1] = t.suppl[j + 1] \cup Joined(x, j, AtomTable(x.body[j]), t.suppl[j])
      /\ \A m \in 1 .. Len(x.body) + 1 : m # j + 1 => t2.suppl[m] = t.suppl[m]
      /\ j + 1 = t.next /\ t.next \in 2 .. Len(x.body) + 1 /\ Len(x.body) \in Nat
  <2>1. IsJoined(t2, t, j, AtomTable(t.exec.body[j]))
    BY JoiningFacts
  <2> QED
    BY <2>1 DEF x, IsJoined
<1> HIDE DEF t2
<1>2. t.type = "RULE"
  BY RuleTaskFacts
<1>3. /\ \A m \in 1 .. t.next - 2 : HasAsked(x, m, t.suppl, I) /\ Settled(x, m, t.suppl)
      /\ \A m \in 1 .. Len(x.body) + 1 : m > t.next => t.suppl[m] = {}
  BY DEF Reached
<1> HIDE DEF x
<1>4. \A m : t2.suppl[m] = t.suppl[m] /\ HasAsked(x, m, t.suppl, I) => HasAsked(x, m, t2.suppl, I)
  BY DEF HasAsked
<1>5. \A m : t2.suppl[m] = t.suppl[m] /\ t2.suppl[m + 1] = t.suppl[m + 1] /\ Settled(x, m, t.suppl) => Settled(x, m, t2.suppl)
  BY DEF Settled
<1>6. \A m \in 1 .. t2.next - 2 : HasAsked(x, m, t2.suppl, I) /\ Settled(x, m, t2.suppl)
  <2> TAKE m \in 1 .. t2.next - 2
  <2>1. m # j + 1 /\ m + 1 # j + 1 /\ m \in 1 .. t.next - 2
        /\ m \in 1 .. Len(x.body) + 1 /\ m + 1 \in 1 .. Len(x.body) + 1
    BY <1>1
  <2> QED
    BY <1>1, <1>3, <1>4, <1>5, <2>1
<1>7. \A m \in 1 .. Len(x.body) + 1 : m > t2.next => t2.suppl[m] = {}
  BY <1>1, <1>3
<1>8. Reached(t2, I)
  BY <1>1, <1>6, <1>7 DEF Reached
<1>9. HasAsked(x, j, t2.suppl, I)
  <2>1. j # j + 1 /\ j \in 1 .. Len(x.body) + 1
    BY <1>1
  <2> QED
    BY <1>1, <1>4, <2>1 DEF x
<1>10. Settled(x, j, t2.suppl)
  <2>1. j # j + 1 /\ j \in 1 .. Len(x.body) + 1
    BY <1>1
  <2>2. t2.suppl[j] = t.suppl[j]
    BY <1>1, <2>1
  <2> QED
    BY <1>1, <2>2 DEF Settled
<1>11. TaskProgress(t2, above, I)
  BY <1>1, <1>8, <1>9, <1>10 DEF TaskProgress
<1>12. t2.suppl[1] = t.suppl[1]
  <2>1. j + 1 # 1 /\ 1 \in 1 .. Len(x.body) + 1
    BY <1>1
  <2> QED
    BY <1>1, <2>1
<1>13. StillCovers(P, t, t2)
  BY <1>1, <1>2, <1>12 DEF Covers, StillCovers, x
<1> QED
  BY <1>11, <1>13 DEF t2

\* The inputs stay as they are.
LEMMA ExtendsSame ==
  ASSUME NEW I, NEW c
  PROVE  Extends(I, I, c)
BY DEF Extends

LEMMA JoinAtomGoes ==
  ASSUME NEW P \in Programs, NEW M, NEW rs, NEW n, NEW stack, StackOK(stack, P, M, rs, n),
         stack # << >>, RuleTaskOK(Last(stack), P, M), NEW j, j = Last(stack).next - 1,
         Progress(Front(stack), "RULE", inputs), Reached(Last(stack), inputs),
         HasAsked(Last(stack).exec, j, Last(stack).suppl, inputs),
         JoinAtom(stack, j, AtomTable(Last(stack).exec.body[j])), pc = "running", pc' = "running"
  PROVE  Goes(P, stack)
<1> DEFINE t == Last(stack)
           rows == AtomTable(t.exec.body[j])
           t2 == Joining(t, j, rows)
<1>1. stack \in Seq(Tasks(P)) /\ Len(stack) \in DOMAIN stack /\ t = stack[Len(stack)]
  <2>1. stack \in Seq(Tasks(P))
    BY DEF StackOK
  <2> QED
    BY <2>1, SequenceEnds
<1>2. /\ tasks' = [stack EXCEPT ![Len(stack)].suppl[j + 1] = @ \cup Joined(t.exec, j, rows, t.suppl[j])]
      /\ inputs' = inputs
  BY DEF JoinAtom
<1>3. tasks' = [stack EXCEPT ![Len(stack)] = t2]
  BY <1>1, <1>2 DEF Joining
<1>4. /\ TaskProgress(t2, "NONE", inputs) /\ StillCovers(P, t, t2)
      /\ t2.type = "RULE"
  <2> HIDE DEF t, t2
  <2>1. t2 = Joining(t, j, AtomTable(t.exec.body[j]))
    BY DEF t2
  <2> HIDE DEF rows
  <2>2. RuleTaskOK(t, P, M) /\ j = t.next - 1 /\ Reached(t, inputs) /\ HasAsked(t.exec, j, t.suppl, inputs)
    BY DEF t
  <2>3. t2.type = "RULE"
    <3>1. IsJoined(t2, t, j, AtomTable(t.exec.body[j]))
      BY <2>1, <2>2, JoiningFacts
    <3> QED
      BY <3>1 DEF IsJoined
  <2>4. TaskProgress(t2, "NONE", inputs) /\ StillCovers(P, t, t2)
    BY <2>1, <2>2, JoiningGoes
  <2> QED
    BY <2>3, <2>4
<1>5. Front(stack) \in Seq(Tasks(P)) /\ t \in Tasks(P) /\ stack = Append(Front(stack), t)
  BY <1>1, SequenceEnds
<1> HIDE DEF t2, rows
<1>6. t2 \in Tasks(P) \cup {t2} /\ stack \in Seq(Tasks(P) \cup {t2}) /\ Front(stack) \in Seq(Tasks(P) \cup {t2})
  BY <1>1, <1>5
<1>7. tasks' = Append(Front(stack), t2)
  BY <1>3, <1>6, TopChanged
<1>8. Progress(tasks', "NONE", inputs')
  <2> DEFINE f == Front(stack)
  <2> HIDE DEF t, f
  <2>1. Progress(f, t2.type, inputs)
    BY <1>4 DEF f
  <2>2. f \in Seq(Tasks(P) \cup {t2}) /\ t2 \in Tasks(P) \cup {t2}
    BY <1>6 DEF f
  <2>3. Progress(Append(f, t2), "NONE", inputs) <=> Progress(f, t2.type, inputs) /\ TaskProgress(t2, "NONE", inputs)
    BY <2>2, ProgressPush
  <2> QED
    BY <1>2, <1>4, <1>7, <2>1, <2>3 DEF f
<1>9. Carries(P, stack, tasks')
  <2> HIDE DEF t
  <2> SUFFICES ASSUME NEW k, NEW i, NEW m, NEW u, CoversIn(P, stack, k, i, m, u)
               PROVE  CoversIn(P, tasks', k, i, m, u)
    BY DEF Carries
  <2>1. CoversIn(P, Front(stack), k, i, m, u) \/ Covers(P, t, k, i, m, u)
    BY <1>5, CoversPush
  <2> QED
    BY <1>4, <1>6, <1>7, <2>1, CoversPush DEF StillCovers
<1> QED
  BY <1>2, <1>8, <1>9, ExtendsSame DEF Goes

\* A sub-query's new inputs are appended, and it is called for them.
LEMMA InputsExtended ==
  ASSUME NEW I, InputsOK(I), NEW k \in Keys, NEW S \in SUBSET Tuples(Cardinality(k[2])),
         NEW J, J = [I EXCEPT ![k] = @ \o SetToSeq(S)],
         NEW c, c # NoCall, c.key = k, c.offset = Len(I[k])
  PROVE  Extends(I, J, c) /\ S \subseteq ToSet(J[k])
<1> DEFINE T == Tuples(Cardinality(k[2]))
           s == I[k]
           more == SetToSeq(S)
           both == s \o more
<1>1. IsFiniteSet(S)
  <2>1. IsFiniteSet(T)
    BY KeyFacts, TermAssumption, FiniteTuples DEF Tuples
  <2> HIDE DEF T
  <2> QED
    BY <2>1, FS_Subset DEF T
<1>2. more \in Seq(S) /\ ToSet(more) = S
  BY <1>1, SetToSeqFacts
<1>3. s \in Seq(T) /\ more \in Seq(T)
  BY <1>2 DEF InputsOK, InputOK
<1>4. J = [I EXCEPT ![k] = both] /\ DOMAIN I = Keys
  BY DEF InputsOK
<1> HIDE DEF more, T, s
<1>5. /\ Len(s) \in Nat /\ Len(more) \in Nat /\ DOMAIN s = 1 .. Len(s) /\ DOMAIN more = 1 .. Len(more)
      /\ DOMAIN both = 1 .. Len(s) + Len(more)
  <2>1. both \in Seq(T) /\ Len(both) = Len(s) + Len(more)
    BY <1>3, ConcatProperties
  <2> QED
    BY <1>3, <2>1
<1>6. \A i \in 1 .. Len(s) + Len(more) :
        /\ i <= Len(s) => i \in DOMAIN s /\ both[i] = s[i]
        /\ i > Len(s) => i - Len(s) \in DOMAIN more /\ both[i] = more[i - Len(s)]
  BY <1>3, ConcatenationAt
<1> HIDE DEF both
<1>7. J[k] = both /\ \A key \in Keys : key # k => J[key] = I[key]
  BY <1>4
<1>8. ToSet(s) \subseteq ToSet(both)
  BY <1>5, <1>6 DEF ToSet
<1>9. ToSet(more) \subseteq ToSet(both)
  <2> SUFFICES ASSUME NEW i \in DOMAIN more PROVE more[i] \in ToSet(both)
    BY DEF ToSet
  <2>1. /\ Len(s) + i \in 1 .. Len(s) + Len(more) /\ Len(s) + i > Len(s) /\ (Len(s) + i) - Len(s) = i
    BY <1>5
  <2>2. both[Len(s) + i] = more[i]
    BY <1>6, <2>1
  <2> QED
    BY <1>5, <2>1, <2>2 DEF ToSet
<1>10. \A m \in DOMAIN both : (m \in DOMAIN s /\ both[m] = s[m]) \/ Called(c, k, m)
  <2> TAKE m \in DOMAIN both
  <2>1. CASE m <= Len(s)
    BY <1>5, <1>6, <2>1
  <2>2. CASE m > Len(s)
    BY <2>2 DEF Called, s
  <2> QED
    BY <1>5, <2>1, <2>2
<1>11. Extends(I, J, c)
  <2> SUFFICES ASSUME NEW key \in Keys
               PROVE  /\ ToSet(I[key]) \subseteq ToSet(J[key])
                      /\ \A m \in DOMAIN J[key] : (m \in DOMAIN I[key] /\ J[key][m] = I[key][m]) \/ Called(c, key, m)
    BY DEF Extends
  <2>1. CASE key = k
    BY <1>7, <1>8, <1>10, <2>1 DEF s
  <2>2. CASE key # k
    BY <1>7, <2>2
  <2> QED
    BY <2>1, <2>2
<1> QED
  BY <1>2, <1>7, <1>9, <1>11

\* A sub-query is put on the stack.
LEMMA SubQueryGoes ==
  ASSUME NEW P \in Programs, NEW stack \in Seq(Tasks(P)), stack # << >>, Last(stack).type = "RULE",
         NEW j, j = Last(stack).next - 1, j \in Nat,
         NEW I, NEW J, \A k \in Keys : ToSet(I[k]) \subseteq ToSet(J[k]),
         Progress(Front(stack), "RULE", I), Reached(Last(stack), I),
         HasAsked(Last(stack).exec, j, Last(stack).suppl, J)
  PROVE  LET sub == [type |-> "RULE_QUERY", next |-> j]
         IN  Progress(Append(stack, sub), "NONE", J) /\ Carries(P, stack, Append(stack, sub))
<1> DEFINE sub == [type |-> "RULE_QUERY", next |-> j]
           f == Front(stack)
           t == Last(stack)
           S == Tasks(P)
<1>1. f \in Seq(S) /\ t \in S /\ stack = Append(f, t)
  BY SequenceEnds
<1>2. sub \in S /\ sub.type = "RULE_QUERY"
  BY DEF Tasks, SubQueries
<1>3. t.type = "RULE" /\ j = t.next - 1 /\ Progress(f, "RULE", J)
  BY ProgressMore
<1>4. Reached(t, J)
  BY HasAskedMore DEF Reached
<1>5. HasAsked(t.exec, t.next - 1, t.suppl, J)
  OBVIOUS
<1> HIDE DEF S, sub, t, f
<1>6. TaskProgress(t, "RULE_QUERY", J)
  BY <1>4, <1>5 DEF TaskProgress
<1>7. TaskProgress(sub, "NONE", J)
  BY <1>2 DEF TaskProgress
<1>8. Progress(stack, "RULE_QUERY", J)
  <2>1. Progress(Append(f, t), "RULE_QUERY", J) <=> Progress(f, t.type, J) /\ TaskProgress(t, "RULE_QUERY", J)
    BY <1>1, ProgressPush
  <2> QED
    BY <1>1, <1>3, <1>6, <2>1
<1>9. Progress(Append(stack, sub), "NONE", J)
  <2>1. stack \in Seq(S)
    BY DEF S
  <2>2. Progress(Append(stack, sub), "NONE", J) <=> Progress(stack, sub.type, J) /\ TaskProgress(sub, "NONE", J)
    BY <1>2, <2>1, ProgressPush
  <2> QED
    BY <1>2, <1>7, <1>8, <2>2
<1>10. Carries(P, stack, Append(stack, sub))
  <2>1. stack \in Seq(S)
    BY DEF S
  <2> QED
    BY <1>2, <2>1, CoversPush DEF Carries
<1> QED
  BY <1>9, <1>10 DEF sub

\* An atom is reached by the task on top: it asks what has not been asked, or is
\* joined to what it has asked for.
LEMMA EvaluateAtomGoes ==
  ASSUME NEW P \in Programs, NEW M, NEW rs, NEW n, NEW stack, StackOK(stack, P, M, rs, n),
         stack # << >>, RuleTaskOK(Last(stack), P, M), NEW j, j = Last(stack).next - 1, InputsOK(inputs),
         Progress(Front(stack), "RULE", inputs), Reached(Last(stack), inputs),
         EvaluateAtom(stack, j), pc = "running", pc' = "running"
  PROVE  Goes(P, stack)
<1> DEFINE t == Last(stack)
           x == t.exec
           l == x.body[j]
           k == KeyOf(l)
           asks == Passed(x, j, t.suppl[j])
           fresh == NewInputs(t, j)
<1>1. RuleTaskIs(t, P, M) /\ t.type = "RULE"
  BY RuleTaskFacts
<1>2. IsExecutor(x) /\ j \in 1 .. Len(x.body)
  BY <1>1 DEF RuleTaskIs, Prepared
<1>3. /\ l.pred \in EDBPreds => KeyOf(l) \notin Keys
      /\ l.pred \notin EDBPreds => KeyOf(l) \in Keys /\ KeyOf(l)[2] = l.bound
  <2> HIDE DEF x
  <2>1. KeyOf(l)[1] = l.pred /\ (l.pred \notin EDBPreds => KeyOf(l) \in Keys /\ KeyOf(l)[2] = l.bound)
    BY <1>2, AtomFacts
  <2>2. KeyOf(l) \in Keys => KeyOf(l)[1] \notin EDBPreds
    BY KeyFacts DEF IDBPreds
  <2> QED
    BY <2>1, <2>2
<1>4. fresh = asks \ ToSet(inputs[k])
  BY DEF NewInputs
<1>5. CASE l.pred \in EDBPreds \/ fresh = {}
  <2>1. HasAsked(x, j, t.suppl, inputs)
    BY <1>3, <1>4, <1>5 DEF HasAsked
  <2>2. JoinAtom(stack, j, AtomTable(l))
    <3>1. CASE l.pred \in EDBPreds
      BY <3>1 DEF EvaluateAtom, AtomTable
    <3>2. CASE l.pred \notin EDBPreds /\ fresh = {}
      BY <3>2 DEF EvaluateAtom, AtomTable
    <3> QED
      BY <1>5, <3>1, <3>2
  <2> QED
    BY <2>1, <2>2, JoinAtomGoes
<1>6. CASE l.pred \notin EDBPreds /\ fresh # {}
  <2> DEFINE sub == [type |-> "RULE_QUERY", next |-> j]
  <2>1. /\ inputs' = [inputs EXCEPT ![k] = @ \o SetToSeq(fresh)]
        /\ tasks' = Append(stack, sub)
        /\ call' = [key |-> k, offset |-> Len(inputs[k]), repeat |-> TRUE]
    BY <1>6 DEF EvaluateAtom
  <2>2. fresh \in SUBSET Tuples(Cardinality(k[2])) /\ k \in Keys
    <3>1. t.suppl[j] \in SUBSET Tuples(Len(x.sig[j]))
      BY <1>1, <1>2 DEF RuleTaskIs
    <3>2. asks \subseteq Tuples(Cardinality(l.bound))
      <4> HIDE DEF x
      <4> QED
        BY <1>2, <3>1, PassedType
    <3> QED
      BY <3>2, <1>3, <1>4, <1>6
  <2>3. call' # NoCall /\ call'.key = k /\ call'.offset = Len(inputs[k])
    BY <2>1 DEF NoCall
  <2>4. Extends(inputs, inputs', call') /\ fresh \subseteq ToSet(inputs'[k])
    <3> HIDE DEF fresh, k
    <3>1. inputs' = [inputs EXCEPT ![k] = @ \o SetToSeq(fresh)]
      BY <2>1
    <3>2. /\ k \in Keys /\ fresh \in SUBSET Tuples(Cardinality(k[2]))
          /\ call' # NoCall /\ call'.key = k /\ call'.offset = Len(inputs[k])
      BY <2>2, <2>3
    <3> QED
      BY <3>1, <3>2, InputsExtended
  <2>5. \A key \in Keys : ToSet(inputs[key]) \subseteq ToSet(inputs'[key])
    BY <2>4 DEF Extends
  <2>6. HasAsked(x, j, t.suppl, inputs')
    <3>1. asks \subseteq ToSet(inputs'[k])
      <4> HIDE DEF k, asks, fresh
      <4> QED
        BY <1>4, <2>2, <2>4, <2>5
    <3> QED
      BY <3>1 DEF HasAsked
  <2>7. Progress(tasks', "NONE", inputs') /\ Carries(P, stack, tasks')
    <3>1. stack \in Seq(Tasks(P)) /\ j \in Nat
      BY <1>2 DEF StackOK
    <3>2. LET s == [type |-> "RULE_QUERY", next |-> j]
          IN  Progress(Append(stack, s), "NONE", inputs') /\ Carries(P, stack, Append(stack, s))
      BY <1>1, <2>5, <2>6, <3>1, SubQueryGoes
    <3> QED
      BY <2>1, <3>2
  <2> QED
    BY <2>4, <2>7 DEF Goes
<1> QED
  BY <1>5, <1>6

\* The supplementary relations of a rule that begins.
LEMMA FirstSupplementary ==
  ASSUME NEW x, IsExecutor(x), NEW rows
  PROVE  LET suppl == <<rows>> \o [j \in DOMAIN x.body |-> {}]
         IN  suppl[1] = rows /\ \A i \in 2 .. Len(x.body) + 1 : suppl[i] = {}
<1> DEFINE n == Len(x.body)
           none == [j \in DOMAIN x.body |-> {}]
           suppl == <<rows>> \o none
           V == {rows, {}}
<1>1. n \in Nat \ {0} /\ DOMAIN x.body = 1 .. n
  BY DEF IsExecutor, IsRule
<1> HIDE DEF n
<1>2. none \in Seq(V) /\ Len(none) = n /\ \A i \in 1 .. n : none[i] = {}
  BY <1>1
<1>3. <<rows>> \in Seq(V) /\ Len(<<rows>>) = 1 /\ <<rows>>[1] = rows
  OBVIOUS
<1> HIDE DEF none, V
<1>4. \A i \in 1 .. Len(<<rows>>) + Len(none) :
        /\ i <= Len(<<rows>>) => i \in DOMAIN <<rows>> /\ suppl[i] = <<rows>>[i]
        /\ i > Len(<<rows>>) => i - Len(<<rows>>) \in DOMAIN none /\ suppl[i] = none[i - Len(<<rows>>)]
  BY <1>2, <1>3, ConcatenationAt
<1> HIDE DEF suppl
<1>5. suppl[1] = rows
  BY <1>1, <1>2, <1>3, <1>4
<1>6. \A i \in 2 .. n + 1 : suppl[i] = {}
  BY <1>1, <1>2, <1>3, <1>4
<1> QED
  BY <1>5, <1>6 DEF suppl, none, n

\* An input that gives the first supplementary relation nothing.
LEMMA ClosedWithout ==
  ASSUME NEW x, NEW u, FirstRows(x, {u}) = {}, Len(x.body) \in Nat, NEW I
  PROVE  Closed(x, u, I)
<1> DEFINE S == [j \in 1 .. Len(x.body) + 1 |-> {}]
<1>1. \A j \in 1 .. Len(x.body) + 1 : S[j] = {}
  OBVIOUS
<1> HIDE DEF S
<1>2. \A j \in 1 .. Len(x.body) : S[j] = {} /\ S[j + 1] = {}
  BY <1>1
<1>3. \A j \in 1 .. Len(x.body) : HasAsked(x, j, S, I) /\ Settled(x, j, S)
  <2> TAKE j \in 1 .. Len(x.body)
  <2>1. Passed(x, j, {}) = {}
    BY DEF Passed
  <2>2. \A rows : Joined(x, j, rows, {}) = {}
    <3>1. \A rows : rows \X {} = {}
      OBVIOUS
    <3> QED
      BY <3>1 DEF Joined
  <2> QED
    BY <1>2, <2>1, <2>2 DEF HasAsked, Settled
<1>4. HeadTuples(x, {}) = {}
  BY DEF HeadTuples
<1>5. S[Len(x.body) + 1] = {}
  BY <1>1
<1> QED
  BY <1>3, <1>4, <1>5 DEF Closed

\* The evaluation of rule i sees to the inputs of k after the offset.
SeesTo(P, k, i, offset) ==
  \A m \in DOMAIN inputs[k] : m > offset =>
    CoversIn(P, tasks', k, i, m, inputs[k][m]) \/ Closed(ExecutorsOf(P, k)[i], inputs[k][m], inputs')

LEMMA EvaluateRuleGoes ==
  ASSUME NEW P \in Programs, NEW M, NEW rs, NEW n, NEW stack, StackOK(stack, P, M, rs, n),
         NEW k \in Keys, NEW i \in DOMAIN ExecutorsOf(P, k), NEW offset \in Nat, InputsOK(inputs),
         Progress(stack, "RULE", inputs),
         EvaluateRule(stack, ExecutorsOf(P, k)[i], k, offset), pc = "running", pc' = "running"
  PROVE  Goes(P, stack) /\ SeesTo(P, k, i, offset)
<1> DEFINE x == ExecutorsOf(P, k)[i]
           asks == SubSeq(inputs[k], offset + 1, Len(inputs[k]))
           rows == FirstRows(x, ToSet(asks))
           suppl == <<rows>> \o [j \in DOMAIN x.body |-> {}]
           t == RuleTask(x, 2, suppl)
           s2 == Append(stack, t)
<1>1. x \in AllExecutors(P) /\ IsExecutor(x) /\ k = KeyOf(x.head)
  <2>1. Prepared(x, P, k)
    BY ExecutorFacts
  <2> QED
    BY <2>1 DEF Prepared, AllExecutors, ToSet
<1>2. rows \in SUBSET RowsOf(x, 1, M)
  <2> HIDE DEF x
  <2> QED
    BY <1>1, FirstRowsTyped
<1>3. EvaluateRule(stack, x, k, offset)
  OBVIOUS
<1> HIDE DEF x
<1>4. Len(x.body) \in Nat \ {0}
  BY <1>1 DEF IsExecutor, IsRule
<1>5. \A m \in DOMAIN inputs[k] : m > offset => FirstRows(x, {inputs[k][m]}) \subseteq rows
  <2> TAKE m \in DOMAIN inputs[k]
  <2> HAVE m > offset
  <2> DEFINE s == inputs[k]
             T == Tuples(Cardinality(k[2]))
  <2>1. s \in Seq(T)
    BY DEF InputsOK, InputOK
  <2> HIDE DEF T
  <2>2. m \in 1 .. Len(s) /\ Len(s) \in Nat
    BY <2>1
  <2> HIDE DEF s
  <2>3. m - offset \in 1 .. Len(s) - offset /\ (offset + 1) + (m - offset) - 1 = m
    BY <2>2
  <2>4. asks \in Seq(T) /\ Len(asks) = Len(s) - offset /\ asks[m - offset] = s[m]
    <3> DEFINE first == offset + 1
               p == SubSeq(s, first, Len(s))
    <3>1. first \in 1 .. Len(s) /\ m - offset \in 1 .. Len(s) - first + 1 /\ first + (m - offset) - 1 = m
          /\ Len(s) - first + 1 = Len(s) - offset
      BY <2>2
    <3> HIDE DEF first
    <3>2. p \in Seq(T) /\ Len(p) = Len(s) - first + 1
      BY <2>1, <3>1
    <3>3. p[m - offset] = s[first + (m - offset) - 1]
      <4>1. first \in Int /\ Len(s) \in Int /\ \A l \in first .. Len(s) : s[l] \in T
        BY <2>1, <3>1
      <4>2. \A l \in 1 .. Len(s) - first + 1 : p[l] = s[first + l - 1]
        BY <4>1, SubSeqProperties
      <4> HIDE DEF p
      <4> QED
        BY <3>1, <4>2
    <3>4. asks = p
      BY DEF s, first
    <3> HIDE DEF p, asks
    <3> QED
      BY <3>1, <3>2, <3>3, <3>4
  <2>5. m - offset \in DOMAIN asks
    <3> HIDE DEF asks
    <3>1. DOMAIN asks = 1 .. Len(asks)
      BY <2>4
    <3> QED
      BY <2>3, <2>4, <3>1
  <2>6. {s[m]} \subseteq ToSet(asks)
    BY <2>4, <2>5 DEF ToSet
  <2> HIDE DEF asks
  <2> QED
    BY <2>6 DEF FirstRows, s
<1> HIDE DEF asks
<1>6. CASE rows = {}
  <2>1. tasks' = stack /\ inputs' = inputs
    BY <1>3, <1>6 DEF EvaluateRule, asks
  <2>2. Progress(stack, "NONE", inputs)
    BY ProgressUnder
  <2>3. Carries(P, stack, stack)
    BY DEF Carries
  <2>4. SeesTo(P, k, i, offset)
    <3> SUFFICES ASSUME NEW m \in DOMAIN inputs[k], m > offset PROVE Closed(x, inputs[k][m], inputs)
      BY <2>1 DEF SeesTo, x
    <3>1. FirstRows(x, {inputs[k][m]}) = {}
      BY <1>5, <1>6
    <3> QED
      BY <1>4, <3>1, ClosedWithout
  <2> QED
    BY <2>1, <2>2, <2>3, <2>4, ExtendsSame DEF Goes
<1>7. CASE rows # {}
  <2>1. EvaluateAtom(s2, 1)
    BY <1>3, <1>7 DEF EvaluateRule, asks
  <2> HIDE DEF rows
  <2>2. RuleTaskOK(t, P, M)
    BY <1>1, <1>2, RuleBegins
  <2>3. t.type = "RULE" /\ t.exec = x /\ t.next = 2 /\ t.suppl = suppl
    BY DEF RuleTask
  <2>4. suppl[1] = rows /\ \A m \in 2 .. Len(x.body) + 1 : suppl[m] = {}
    BY <1>1, FirstSupplementary
  <2> HIDE DEF t, suppl
  <2>5. Reached(t, inputs)
    <3>1. \A m \in 1 .. t.next - 2 : FALSE
      BY <2>3
    <3>2. \A m \in 1 .. Len(t.exec.body) + 1 : m > t.next => t.suppl[m] = {}
      BY <1>4, <2>3, <2>4
    <3> QED
      BY <3>1, <3>2 DEF Reached
  <2>6. StackOK(s2, P, M, rs, n) /\ s2 # << >> /\ Last(s2) = t /\ Front(s2) = stack /\ t \in Tasks(P)
    BY <2>2, StackPush
  <2>7. Goes(P, s2)
    <3> HIDE DEF s2
    <3>1. 1 = Last(s2).next - 1 /\ RuleTaskOK(Last(s2), P, M)
      BY <2>2, <2>3, <2>6
    <3>2. Progress(Front(s2), "RULE", inputs) /\ Reached(Last(s2), inputs)
      BY <2>5, <2>6
    <3> QED
      BY <2>1, <2>6, <3>1, <3>2, EvaluateAtomGoes
  <2>8. stack \in Seq(Tasks(P))
    BY DEF StackOK
  <2>9. \A key, q, m, u : CoversIn(P, s2, key, q, m, u) <=> CoversIn(P, stack, key, q, m, u) \/ Covers(P, t, key, q, m, u)
    BY <2>6, <2>8, CoversPush
  <2> HIDE DEF s2
  <2>10. Carries(P, s2, tasks')
    BY <2>7 DEF Goes
  <2>11. Carries(P, stack, tasks')
    BY <2>9, <2>10 DEF Carries
  <2>12. SeesTo(P, k, i, offset)
    <3> SUFFICES ASSUME NEW m \in DOMAIN inputs[k], m > offset PROVE CoversIn(P, tasks', k, i, m, inputs[k][m])
      BY DEF SeesTo
    <3>1. Covers(P, t, k, i, m, inputs[k][m])
      BY <1>5, <2>3, <2>4 DEF Covers, x
    <3> QED
      BY <2>9, <2>10, <3>1 DEF Carries
  <2> QED
    BY <2>7, <2>11, <2>12 DEF Goes
<1> QED
  BY <1>6, <1>7

\* While no answer comes in, the same is settled and closed.
LEMMA TablesKept ==
  ASSUME answers' = answers, db' = db
  PROVE  \A l : AtomTable(l)' = AtomTable(l)
<1> SUFFICES ASSUME NEW l PROVE AtomTable(l)' = AtomTable(l)
  OBVIOUS
<1>1. EDBRows(l)' = EDBRows(l)
  BY DEF EDBRows
<1>2. AnswerRows(l)' = AnswerRows(l)
  BY DEF AnswerRows
<1> QED
  BY <1>1, <1>2 DEF AtomTable

LEMMA SettledKept ==
  ASSUME answers' = answers, db' = db
  PROVE  \A x, j, S : Settled(x, j, S)' <=> Settled(x, j, S)
BY TablesKept DEF Settled

LEMMA ClosedKept ==
  ASSUME answers' = answers, db' = db
  PROVE  \A x, t, I : Closed(x, t, I)' <=> Closed(x, t, I)
BY SettledKept DEF Closed

LEMMA RoundKept ==
  ASSUME answers' = answers, db' = db, program' = program
  PROVE  RoundOK(program, tasks', call', inputs') <=> RoundOK(program, tasks, call, inputs)'
BY SettledKept, ClosedKept DEF RoundOK, Progress, TaskProgress, Reached, IsCovered

\* A round goes on, with every input covered and none forgotten.
RoundGoesOn == RoundOK(program, tasks', call', inputs') /\ \A k \in Keys : ToSet(inputs[k]) \subseteq ToSet(inputs'[k])

\* What was to be evaluated is on the stack, or has been taken care of.
Hands(P, stack) ==
  \A k \in Keys : \A i \in DOMAIN ExecutorsOf(P, k) : \A m \in DOMAIN inputs[k] :
    Called(call, k, m) \/ CoversIn(P, tasks, k, i, m, inputs[k][m]) =>
      \/ CoversIn(P, stack, k, i, m, inputs[k][m])
      \/ CoversIn(P, tasks', k, i, m, inputs[k][m])
      \/ Closed(ExecutorsOf(P, k)[i], inputs[k][m], inputs')

LEMMA RoundGoes ==
  ASSUME NEW stack, Goes(program, stack), RoundOK(program, tasks, call, inputs), Hands(program, stack)
  PROVE  RoundGoesOn
<1> DEFINE P == program
<1>1. Progress(tasks', "NONE", inputs') /\ Carries(P, stack, tasks') /\ Extends(inputs, inputs', call')
  BY DEF Goes
<1>2. \A k \in Keys : ToSet(inputs[k]) \subseteq ToSet(inputs'[k])
  BY <1>1 DEF Extends
<1>3. ASSUME NEW k \in Keys, NEW i \in DOMAIN ExecutorsOf(P, k), NEW m \in DOMAIN inputs'[k]
      PROVE  IsCovered(P, tasks', call', inputs', k, i, m)
  <2>1. CASE Called(call', k, m)
    BY <2>1 DEF IsCovered
  <2>2. CASE m \in DOMAIN inputs[k] /\ inputs'[k][m] = inputs[k][m]
    <3> DEFINE u == inputs[k][m]
               x == ExecutorsOf(P, k)[i]
    <3>1. IsCovered(P, tasks, call, inputs, k, i, m)
      BY <2>2 DEF RoundOK
    <3>2. Called(call, k, m) \/ CoversIn(P, tasks, k, i, m, u) \/ Closed(x, u, inputs)
      BY <3>1 DEF IsCovered
    <3>3. CoversIn(P, stack, k, i, m, u) => CoversIn(P, tasks', k, i, m, u)
      BY <1>1 DEF Carries
    <3>4. Closed(x, u, inputs) => Closed(x, u, inputs')
      BY <1>2, ClosedMore
    <3>5. Called(call, k, m) \/ CoversIn(P, tasks, k, i, m, u) =>
            CoversIn(P, stack, k, i, m, u) \/ CoversIn(P, tasks', k, i, m, u) \/ Closed(x, u, inputs')
      BY <2>2 DEF Hands
    <3>6. CoversIn(P, tasks', k, i, m, u) \/ Closed(x, u, inputs')
      BY <3>2, <3>3, <3>4, <3>5
    <3> QED
      BY <2>2, <3>6 DEF IsCovered
  <2> QED
    BY <1>1, <1>3, <2>1, <2>2 DEF Extends
<1> QED
  BY <1>1, <1>2, <1>3 DEF RoundGoesOn, RoundOK

\* Nothing is done to a stack.
LEMMA GoesNowhere ==
  ASSUME NEW stack, tasks' = stack, inputs' = inputs, Progress(stack, "NONE", inputs)
  PROVE  Goes(program, stack)
BY ExtendsSame DEF Goes, Carries

LEMMA EvaluateRound ==
  ASSUME IInv, RoundOK(program, tasks, call, inputs), Evaluate, pc' = "running"
  PROVE  RoundGoesOn
<1> DEFINE k == call.key
           n == AnswerCount
           t == QueryBegun
           P == program
<1>1. Stable
  BY StableFacts DEF IInv
<1>2. pc = "running" /\ k \in Keys /\ call.offset \in Nat
  BY DEF IInv, CallOK, Evaluate
<1>3. \/ CreateRules(k) /\ RulesFor(k) = << >> /\ call' = NoCall /\ UNCHANGED <<pc, tasks, inputs>>
      \/ CreateRules(k) /\ RulesFor(k) # << >> /\ EvaluateRule(Append(tasks, t), rules'[k][1], k, call.offset)
  BY Zenon DEF Evaluate, QueryBegun
<1>4. RulesFor(k) = RuleList(P, k) /\ Progress(tasks, "NONE", inputs) /\ P \in Programs
  BY <1>1, <1>2 DEF Stable, RoundOK
<1>5. CASE RulesFor(k) = << >> /\ UNCHANGED <<pc, tasks, inputs>>
  <2>1. Goes(P, tasks)
    BY <1>4, <1>5, GoesNowhere
  <2>2. DOMAIN ExecutorsOf(P, k) = {}
    <3>1. Len(RuleList(P, k)) = 0
      <4>1. RuleList(P, k) = << >>
        BY <1>4, <1>5
      <4> QED
        BY <4>1, EmptySeq
    <3>2. DOMAIN ExecutorsOf(P, k) = 1 .. Len(RuleList(P, k))
      BY <1>4, RuleListFacts
    <3> QED
      BY <3>1, <3>2
  <2>3. Hands(P, tasks)
    BY <2>2 DEF Hands, Called
  <2> QED
    BY <2>1, <2>3, RoundGoes
<1>6. CASE CreateRules(k) /\ RulesFor(k) # << >> /\ EvaluateRule(Append(tasks, t), rules'[k][1], k, call.offset)
  <2> DEFINE stack == Append(tasks, t)
  <2>1. /\ QueryTaskOK(t, P, rules', n) /\ t.next = 2 /\ t.key = k /\ t.type = "QUERY"
        /\ StackOK(tasks, P, Meaning, rules', n) /\ StackOK(stack, P, Meaning, rules', n)
    BY <1>6, QueryBegins
  <2>2. t.offset = call.offset /\ t \in Tasks(P)
    BY <2>1 DEF QueryBegun, QueryTask, QueryTaskOK, Tasks
  <2>3. tasks \in Seq(Tasks(P))
    BY <2>1 DEF StackOK
  <2>4. rules'[k] = ExecutorsOf(P, k) /\ 1 \in DOMAIN ExecutorsOf(P, k)
    <3>1. rules'[k] = ExecutorsOf(P, k)
      BY <2>1 DEF QueryTaskOK
    <3>2. RuleList(P, k) \in Seq(DatalogRules) /\ DOMAIN ExecutorsOf(P, k) = 1 .. Len(RuleList(P, k))
      BY <1>4, RuleListFacts
    <3>3. Len(RuleList(P, k)) \in Nat \ {0}
      <4> DEFINE R == RuleList(P, k)
      <4>1. R \in Seq(DatalogRules) /\ R # << >>
        BY <1>4, <1>6, <3>2
      <4> HIDE DEF R
      <4>2. Len(R) \in Nat \ {0}
        BY <4>1, EmptySeq
      <4> QED
        BY <4>2 DEF R
    <3> QED
      BY <3>1, <3>2, <3>3
  <2> HIDE DEF t
  <2>5. Progress(stack, "RULE", inputs)
    <3>1. Progress(tasks, t.type, inputs)
      BY <1>4, <2>1, ProgressUnder
    <3>2. TaskProgress(t, "RULE", inputs)
      BY <2>1 DEF TaskProgress
    <3> QED
      BY <2>2, <2>3, <3>1, <3>2, ProgressPush
  <2>6. \A key, i, m, u : CoversIn(P, stack, key, i, m, u) <=> CoversIn(P, tasks, key, i, m, u) \/ Covers(P, t, key, i, m, u)
    BY <2>2, <2>3, CoversPush
  <2>7. EvaluateRule(stack, ExecutorsOf(P, k)[1], k, call.offset) /\ InputsOK(inputs)
    BY <1>6, <2>4 DEF IInv
  <2> HIDE DEF stack, n
  <2>8. Goes(P, stack) /\ SeesTo(P, k, 1, call.offset)
    <3> HIDE DEF k
    <3> QED
      BY <1>2, <1>4, <2>1, <2>4, <2>5, <2>7, EvaluateRuleGoes
  <2>9. ASSUME NEW i \in DOMAIN ExecutorsOf(P, k), NEW m \in DOMAIN inputs[k], Called(call, k, m)
        PROVE  \/ CoversIn(P, stack, k, i, m, inputs[k][m])
               \/ CoversIn(P, tasks', k, i, m, inputs[k][m])
               \/ Closed(ExecutorsOf(P, k)[i], inputs[k][m], inputs')
    <3>1. call.offset < m
      BY <2>9 DEF Called
    <3>2. CASE i = 1
      <4>1. m > call.offset
        BY <3>1
      <4> QED
        BY <2>8, <3>2, <4>1 DEF SeesTo
    <3>3. CASE i # 1
      <4>1. 2 <= i
        <5>1. i \in Nat \ {0}
          <6>1. DOMAIN ExecutorsOf(P, k) = 1 .. Len(RuleList(P, k))
            BY <1>4, RuleListFacts
          <6> QED
            BY <6>1
        <5> QED
          BY <3>3, <5>1
      <4>2. Covers(P, t, k, i, m, inputs[k][m])
        BY <2>1, <2>2, <3>1, <4>1 DEF Covers
      <4> QED
        BY <2>6, <4>2
    <3> QED
      BY <3>2, <3>3
  <2>10. Hands(P, stack)
    <3> SUFFICES ASSUME NEW key \in Keys, NEW i \in DOMAIN ExecutorsOf(P, key), NEW m \in DOMAIN inputs[key],
                        Called(call, key, m) \/ CoversIn(P, tasks, key, i, m, inputs[key][m])
                 PROVE  \/ CoversIn(P, stack, key, i, m, inputs[key][m])
                        \/ CoversIn(P, tasks', key, i, m, inputs[key][m])
                        \/ Closed(ExecutorsOf(P, key)[i], inputs[key][m], inputs')
      BY DEF Hands
    <3>1. CASE CoversIn(P, tasks, key, i, m, inputs[key][m])
      BY <2>6, <3>1
    <3>2. CASE Called(call, key, m)
      <4>1. key = k
        BY <3>2 DEF Called
      <4> QED
        BY <2>9, <3>2, <4>1
    <3> QED
      BY <3>1, <3>2
  <2> QED
    BY <2>8, <2>10, RoundGoes
<1> QED
  BY <1>3, <1>5, <1>6

\* What lies below the task on top of the stack, and that task.
LEMMA TopProgress ==
  ASSUME NEW P, NEW S, NEW f \in Seq(S), NEW t \in S, tasks = Append(f, t), RoundOK(P, tasks, call, inputs)
  PROVE  /\ Progress(f, t.type, inputs) /\ TaskProgress(t, "NONE", inputs)
         /\ \A k, i, m, u : CoversIn(P, tasks, k, i, m, u) <=> CoversIn(P, f, k, i, m, u) \/ Covers(P, t, k, i, m, u)
<1>1. Progress(Append(f, t), "NONE", inputs)
  BY DEF RoundOK
<1>2. Progress(f, t.type, inputs) /\ TaskProgress(t, "NONE", inputs)
  BY <1>1, ProgressPush
<1>3. \A k, i, m, u : CoversIn(P, Append(f, t), k, i, m, u) <=> CoversIn(P, f, k, i, m, u) \/ Covers(P, t, k, i, m, u)
  BY CoversPush
<1> QED
  BY <1>2, <1>3

\* The task goes on as t2, which covers what it did and i does not see to.
LEMMA QueryRound ==
  ASSUME IInv, RoundOK(program, tasks, call, inputs), Pending("QUERY"), pc' = "running",
         NEW t2, GoesOn(Last(tasks), t2), NEW i \in 1 .. Len(RuleList(program, Last(tasks).key)),
         Last(tasks).next <= Len(RuleList(program, Last(tasks).key)) => i = Last(tasks).next /\ t2.next = i + 1,
         EvaluateRule(Append(Front(tasks), t2), rules[Last(tasks).key][i], Last(tasks).key, Last(tasks).offset)
  PROVE  RoundGoesOn
<1> DEFINE task == Last(tasks)
           rest == Front(tasks)
           n == AnswerCount
           P == program
           k == task.key
           R == RuleList(P, k)
           stack == Append(rest, t2)
<1>1. /\ Stable /\ pc = "running" /\ StackOK(rest, P, Meaning, rules, n) /\ tasks = Append(rest, task)
      /\ QueryTaskOK(task, P, rules, n) /\ task.type = "QUERY"
      /\ Len(R) \in Nat \ {0} /\ task.offset \in Nat /\ k \in Keys
  BY QueryGoesOn
<1>2. QueryTaskOK(t2, P, rules, n) /\ t2.type = "QUERY" /\ t2.key = k /\ t2.offset = task.offset
  BY DEF GoesOn
<1>3. rest \in Seq(Tasks(P)) /\ task \in Tasks(P) /\ t2 \in Tasks(P) /\ P \in Programs
  BY <1>1, <1>2 DEF StackOK, QueryTaskOK, Tasks, Stable
<1>4. DOMAIN ExecutorsOf(P, k) = 1 .. Len(R) /\ rules[k] = ExecutorsOf(P, k)
  BY <1>1, <1>3, RuleListFacts DEF QueryTaskOK
<1>5. /\ i \in DOMAIN ExecutorsOf(P, k)
      /\ EvaluateRule(stack, ExecutorsOf(P, k)[i], k, task.offset) /\ InputsOK(inputs)
  BY <1>4 DEF IInv
<1>6. task.next <= Len(R) => i = task.next /\ t2.next = i + 1
  OBVIOUS
<1>7. task.next \in Nat
  BY <1>1 DEF QueryTaskOK
<1>8. StackOK(stack, P, Meaning, rules, n)
  <2> HIDE DEF rest, n
  <2> QED
    BY <1>1, <1>2, StackPush
<1> HIDE DEF task, n, rest, k
<1>9. /\ Progress(rest, task.type, inputs)
      /\ \A key, q, m, u : CoversIn(P, tasks, key, q, m, u) <=> CoversIn(P, rest, key, q, m, u) \/ Covers(P, task, key, q, m, u)
  BY <1>1, <1>3, TopProgress
<1>10. Progress(stack, "RULE", inputs)
  <2>1. Progress(rest, t2.type, inputs)
    BY <1>1, <1>2, <1>9
  <2>2. TaskProgress(t2, "RULE", inputs)
    BY <1>2 DEF TaskProgress
  <2> QED
    BY <1>3, <2>1, <2>2, ProgressPush
<1>11. \A key, q, m, u : CoversIn(P, stack, key, q, m, u) <=> CoversIn(P, rest, key, q, m, u) \/ Covers(P, t2, key, q, m, u)
  BY <1>3, CoversPush
<1> HIDE DEF stack
<1>12. Goes(P, stack) /\ SeesTo(P, k, i, task.offset)
  BY <1>1, <1>3, <1>5, <1>8, <1>10, EvaluateRuleGoes
<1>13. ASSUME NEW q \in DOMAIN ExecutorsOf(P, k), NEW m \in DOMAIN inputs[k], task.offset < m, task.next <= q
       PROVE  \/ CoversIn(P, stack, k, q, m, inputs[k][m])
              \/ CoversIn(P, tasks', k, q, m, inputs[k][m])
              \/ Closed(ExecutorsOf(P, k)[q], inputs[k][m], inputs')
  <2>1. q \in 1 .. Len(R)
    BY <1>4, <1>13
  <2>2. i = task.next /\ t2.next = i + 1
    BY <1>1, <1>6, <1>7, <1>13, <2>1
  <2>3. CASE q = i
    <3>1. m > task.offset
      BY <1>13
    <3> QED
      BY <1>12, <2>3, <3>1 DEF SeesTo
  <2>4. CASE q # i
    <3>1. t2.next <= q
      BY <1>7, <1>13, <2>1, <2>2, <2>4
    <3>2. Covers(P, t2, k, q, m, inputs[k][m])
      BY <1>2, <1>13, <3>1 DEF Covers
    <3> QED
      BY <1>11, <3>2
  <2> QED
    BY <2>3, <2>4
<1>14. Hands(P, stack)
  <2> SUFFICES ASSUME NEW key \in Keys, NEW q \in DOMAIN ExecutorsOf(P, key), NEW m \in DOMAIN inputs[key],
                      Called(call, key, m) \/ CoversIn(P, tasks, key, q, m, inputs[key][m])
               PROVE  \/ CoversIn(P, stack, key, q, m, inputs[key][m])
                      \/ CoversIn(P, tasks', key, q, m, inputs[key][m])
                      \/ Closed(ExecutorsOf(P, key)[q], inputs[key][m], inputs')
    BY DEF Hands
  <2>1. call = NoCall
    BY DEF Pending
  <2>2. CASE CoversIn(P, rest, key, q, m, inputs[key][m])
    BY <1>11, <2>2
  <2>3. CASE Covers(P, task, key, q, m, inputs[key][m])
    <3>1. key = k /\ task.offset < m /\ task.next <= q
      BY <1>1, <2>3 DEF Covers, k
    <3> QED
      BY <1>13, <3>1
  <2> QED
    BY <1>9, <2>1, <2>2, <2>3 DEF Called
<1> QED
  BY <1>12, <1>14, RoundGoes

LEMMA ProcessQueryRound ==
  ASSUME IInv, RoundOK(program, tasks, call, inputs), ProcessQuery, pc' = "running"
  PROVE  RoundGoesOn
<1> DEFINE task == Last(tasks)
           rest == Front(tasks)
           n == AnswerCount
           P == program
           k == task.key
           R == RuleList(P, k)
<1>1. Pending("QUERY")
  BY DEF ProcessQuery
<1>2. /\ Stable /\ StackOK(rest, P, Meaning, rules, n) /\ tasks = Append(rest, task)
      /\ QueryTaskOK(task, P, rules, n) /\ task.type = "QUERY"
      /\ RulesFor(k) = R /\ Len(R) \in Nat \ {0} /\ k \in Keys
  BY <1>1, QueryGoesOn
<1>3. CASE task.next <= Len(R)
  <2>1. EvaluateRule(Append(rest, QueryNext), rules[k][task.next], k, task.offset)
    BY <1>2, <1>3 DEF ProcessQuery, QueryNext
  <2>2. GoesOn(task, QueryNext) /\ QueryNext.next = task.next + 1 /\ task.next \in 2 .. Len(R) + 1
    BY <1>1, <1>3, QueryGoesOn DEF QueryTaskOK
  <2>3. task.next \in 1 .. Len(R)
    BY <1>2, <1>3, <2>2
  <2> QED
    BY <1>1, <2>1, <2>2, <2>3, QueryRound
<1>4. CASE ~(task.next <= Len(R)) /\ Repeats(task)
  <2>1. EvaluateRule(Append(rest, QueryAgain), rules[k][1], k, task.offset)
    BY <1>2, <1>4 DEF ProcessQuery, QueryAgain
  <2>2. GoesOn(task, QueryAgain) /\ 1 \in 1 .. Len(R)
    BY <1>1, <1>2, QueryGoesOn
  <2> QED
    BY <1>1, <1>4, <2>1, <2>2, QueryRound
<1>5. CASE ~(task.next <= Len(R)) /\ ~Repeats(task)
  <2>1. tasks' = rest /\ UNCHANGED <<pc, call, inputs>>
    BY <1>2, <1>5 DEF ProcessQuery
  <2>2. rest \in Seq(Tasks(P)) /\ task \in Tasks(P) /\ P \in Programs /\ task.next \in Nat
    BY <1>2 DEF StackOK, QueryTaskOK, Tasks, Stable
  <2>3. DOMAIN ExecutorsOf(P, k) = 1 .. Len(R)
    BY <2>2, RuleListFacts
  <2> HIDE DEF task, rest, k
  <2>4. /\ Progress(rest, task.type, inputs)
        /\ \A key, q, m, u : CoversIn(P, tasks, key, q, m, u) <=> CoversIn(P, rest, key, q, m, u) \/ Covers(P, task, key, q, m, u)
    BY <1>2, <2>2, TopProgress
  <2>5. Goes(P, rest)
    <3>1. Progress(rest, "NONE", inputs)
      BY <1>2, <2>4, ProgressUnder
    <3> QED
      BY <2>1, <3>1, GoesNowhere
  <2>6. Hands(P, rest)
    <3> SUFFICES ASSUME NEW key \in Keys, NEW q \in DOMAIN ExecutorsOf(P, key), NEW m \in DOMAIN inputs[key],
                        Called(call, key, m) \/ CoversIn(P, tasks, key, q, m, inputs[key][m])
                 PROVE  CoversIn(P, rest, key, q, m, inputs[key][m])
      BY DEF Hands
    <3>1. call = NoCall
      BY <1>1 DEF Pending
    <3>2. ASSUME Covers(P, task, key, q, m, inputs[key][m])
          PROVE  FALSE
      <4>1. key = k /\ task.next <= q
        BY <1>2, <3>2 DEF Covers, k
      <4> QED
        BY <1>2, <1>5, <2>2, <2>3, <4>1
    <3> QED
      BY <2>4, <3>1, <3>2 DEF Called
  <2> QED
    BY <2>5, <2>6, RoundGoes
<1> QED
  BY <1>3, <1>4, <1>5

\* The last atom is done with, or nothing is left for the next one.
HasEnded(t) == t.next <= Len(t.exec.body) => t.suppl[t.next] = {}

FindsNothing(t) == HeadTuples(t.exec, Last(t.suppl)) \subseteq answers[KeyOf(t.exec.head)]

BeganWith(t, u) == FirstRows(t.exec, {u}) \subseteq t.suppl[1]

\* A rule's task that ends without a new answer has closed its inputs.
LEMMA RuleEndsClosed ==
  ASSUME NEW P \in Programs, NEW M, NEW t, RuleTaskOK(t, P, M), NEW I, TaskProgress(t, "NONE", I),
         HasEnded(t), FindsNothing(t), NEW u, BeganWith(t, u)
  PROVE  Closed(t.exec, u, I)
<1> DEFINE x == t.exec
           S == t.suppl
           n == Len(x.body)
<1>1. RuleTaskIs(t, P, M) /\ t.type = "RULE"
  BY RuleTaskFacts
<1>2. n \in Nat \ {0} /\ t.next \in 2 .. n + 1 /\ Len(S) = n + 1
  BY <1>1 DEF RuleTaskIs, RuleTaskOK
<1>3. /\ \A m \in 1 .. t.next - 1 : HasAsked(x, m, S, I) /\ Settled(x, m, S)
      /\ \A m \in 1 .. n + 1 : m > t.next => S[m] = {}
  <2>1. Reached(t, I) /\ HasAsked(x, t.next - 1, S, I) /\ Settled(x, t.next - 1, S)
    BY <1>1 DEF TaskProgress
  <2>2. /\ \A m \in 1 .. t.next - 2 : HasAsked(x, m, S, I) /\ Settled(x, m, S)
        /\ \A m \in 1 .. n + 1 : m > t.next => S[m] = {}
    BY <2>1 DEF Reached
  <2>3. \A m \in 1 .. t.next - 1 : m \in 1 .. t.next - 2 \/ m = t.next - 1
    BY <1>2
  <2> QED
    BY <2>1, <2>2, <2>3
<1>4. t.next <= n => S[t.next] = {}
  BY DEF HasEnded
<1>5. HeadTuples(x, S[n + 1]) \subseteq answers[KeyOf(x.head)] /\ FirstRows(x, {u}) \subseteq S[1]
  BY <1>2 DEF Last, FindsNothing, BeganWith
<1> HIDE DEF n
<1>6. \A m \in 1 .. n : HasAsked(x, m, S, I) /\ Settled(x, m, S)
  <2> TAKE m \in 1 .. n
  <2> DEFINE c == t.next
  <2>c. c \in Nat /\ m \in Nat /\ 1 <= m /\ m <= n
    BY <1>2
  <2> HIDE DEF c
  <2>1. CASE m \in 1 .. c - 1
    BY <1>3, <2>1 DEF c
  <2>2. CASE m \notin 1 .. c - 1
    <3>1. m = c \/ m > c
      BY <2>c, <2>2
    <3>2. S[m] = {}
      <4>1. m \in 1 .. n + 1
        BY <1>2, <2>c
      <4>2. CASE m = c
        BY <1>4, <2>c, <4>2 DEF c
      <4>3. CASE m > c
        BY <1>3, <4>1, <4>3 DEF c
      <4> QED
        BY <3>1, <4>2, <4>3
    <3>3. Passed(x, m, {}) = {}
      BY DEF Passed
    <3>4. \A rows : Joined(x, m, rows, {}) = {}
      <4>1. \A rows : rows \X {} = {}
        OBVIOUS
      <4> QED
        BY <4>1 DEF Joined
    <3> QED
      BY <3>2, <3>3, <3>4 DEF HasAsked, Settled
  <2> QED
    BY <2>1, <2>2
<1> QED
  BY <1>5, <1>6 DEF Closed, n

LEMMA ProcessRuleRound ==
  ASSUME IInv, RoundOK(program, tasks, call, inputs), ProcessRule, pc' = "running", answers' = answers
  PROVE  RoundGoesOn
<1> DEFINE task == Last(tasks)
           rest == Front(tasks)
           n == AnswerCount
           x == task.exec
           P == program
<1>1. Pending("RULE")
  BY DEF ProcessRule
<1>2. /\ Stable /\ pc = "running" /\ call = NoCall /\ tasks = Append(rest, task)
      /\ StackOK(rest, P, Meaning, rules, n) /\ RuleTaskOK(task, P, Meaning) /\ RuleTaskIs(task, P, Meaning)
      /\ task.type = "RULE"
  BY <1>1, RuleGoesOn
<1>3. P \in Programs /\ rest \in Seq(Tasks(P)) /\ task \in Tasks(P)
  BY <1>2 DEF StackOK, RuleTaskOK, Tasks, Stable
<1>4. /\ Progress(rest, "RULE", inputs) /\ TaskProgress(task, "NONE", inputs)
      /\ \A key, q, m, u : CoversIn(P, tasks, key, q, m, u) <=> CoversIn(P, rest, key, q, m, u) \/ Covers(P, task, key, q, m, u)
  <2> HIDE DEF rest, task
  <2> QED
    BY <1>2, <1>3, TopProgress
<1>5. CASE task.next <= Len(x.body) /\ task.suppl[task.next] # {}
  <2> DEFINE t == RuleNext
             stack == Append(rest, t)
  <2>1. EvaluateAtom(stack, task.next)
    BY <1>5 DEF ProcessRule, RuleNext
  <2>2. /\ StackOK(stack, P, Meaning, rules, n) /\ stack # << >> /\ Last(stack) = t
        /\ RuleTaskOK(t, P, Meaning) /\ task.next = t.next - 1 /\ t.next = task.next + 1
        /\ t.type = "RULE" /\ t.exec = x
    BY <1>1, <1>5, RuleGoesOn
  <2>3. t.suppl = task.suppl
    BY DEF RuleNext, RuleTask
  <2>4. Reached(t, inputs)
    <3>1. /\ Reached(task, inputs) /\ HasAsked(x, task.next - 1, task.suppl, inputs)
          /\ Settled(x, task.next - 1, task.suppl)
      BY <1>2, <1>4 DEF TaskProgress
    <3>2. task.next \in 2 .. Len(x.body) + 1 /\ Len(x.body) \in Nat
      BY <1>2 DEF RuleTaskOK, RuleTaskIs
    <3> HIDE DEF t, task
    <3>3. \A m \in 1 .. t.next - 2 : m \in 1 .. task.next - 2 \/ m = task.next - 1
      BY <2>2, <3>2
    <3>4. \A m \in 1 .. t.next - 2 : HasAsked(t.exec, m, t.suppl, inputs) /\ Settled(t.exec, m, t.suppl)
      BY <2>2, <2>3, <3>1, <3>3 DEF Reached
    <3>5. \A m \in 1 .. Len(t.exec.body) + 1 : m > t.next => t.suppl[m] = {}
      <4> TAKE m \in 1 .. Len(t.exec.body) + 1
      <4>1. m > t.next => m > task.next
        BY <2>2, <3>2
      <4> QED
        BY <2>2, <2>3, <3>1, <4>1 DEF Reached
    <3> QED
      BY <3>4, <3>5 DEF Reached
  <2>5. t \in Tasks(P)
    BY <2>2 DEF RuleTaskOK, Tasks
  <2> HIDE DEF t
  <2>6. Front(stack) = rest
    <3> HIDE DEF rest
    <3> QED
      BY <1>3, <2>5, SequenceTop
  <2>7. \A key, q, m, u : CoversIn(P, stack, key, q, m, u) <=> CoversIn(P, rest, key, q, m, u) \/ Covers(P, t, key, q, m, u)
    BY <1>3, <2>5, CoversPush
  <2> HIDE DEF stack
  <2>8. Goes(P, stack)
    <3>1. /\ RuleTaskOK(Last(stack), P, Meaning) /\ task.next = Last(stack).next - 1
          /\ Progress(Front(stack), "RULE", inputs) /\ Reached(Last(stack), inputs) /\ InputsOK(inputs)
      BY <1>4, <2>2, <2>4, <2>6 DEF IInv
    <3> HIDE DEF task, n
    <3> QED
      BY <1>2, <1>3, <2>1, <2>2, <3>1, EvaluateAtomGoes
  <2>9. \A key, q, m, u : Covers(P, task, key, q, m, u) => Covers(P, t, key, q, m, u)
    <3> HIDE DEF task
    <3> QED
      BY <1>2, <2>2, <2>3 DEF Covers, x
  <2>10. Hands(P, stack)
    BY <1>2, <1>4, <2>7, <2>9 DEF Hands, Called
  <2> QED
    BY <2>8, <2>10, RoundGoes
<1>6. CASE ~(task.next <= Len(x.body) /\ task.suppl[task.next] # {})
  <2>1. /\ answers' = [answers EXCEPT ![KeyOf(x.head)] = @ \cup HeadTuples(x, Last(task.suppl))]
        /\ tasks' = rest /\ UNCHANGED <<pc, call, inputs>>
    BY <1>6, Zenon DEF ProcessRule
  <2>2. HeadTuples(x, Last(task.suppl)) \subseteq answers[KeyOf(x.head)]
    <3> DEFINE more == HeadTuples(x, Last(task.suppl))
               k == KeyOf(x.head)
    <3>1. k \in Keys /\ DOMAIN answers = Keys
      BY <1>2 DEF RuleTaskIs, IInv, AnswersOK
    <3>2. answers = [answers EXCEPT ![k] = @ \cup more]
      BY <2>1
    <3> HIDE DEF k, more
    <3>3. answers[k] = answers[k] \cup more
      BY <3>1, <3>2
    <3> QED
      BY <3>3 DEF k, more
  <2> HIDE DEF rest
  <2>3. Goes(P, rest)
    <3>1. Progress(rest, "NONE", inputs)
      BY <1>4, ProgressUnder
    <3> QED
      BY <2>1, <3>1, GoesNowhere
  <2>4. \A key, q, m, u : Covers(P, task, key, q, m, u) => Closed(ExecutorsOf(P, key)[q], u, inputs)
    <3> SUFFICES ASSUME NEW key, NEW q, NEW m, NEW u, Covers(P, task, key, q, m, u)
                 PROVE  Closed(ExecutorsOf(P, key)[q], u, inputs)
      OBVIOUS
    <3> HIDE DEF task
    <3>1. task.exec = ExecutorsOf(P, key)[q] /\ FirstRows(task.exec, {u}) \subseteq task.suppl[1]
      BY <1>2 DEF Covers
    <3>2. HasEnded(task) /\ FindsNothing(task) /\ BeganWith(task, u)
      BY <1>6, <2>2, <3>1 DEF HasEnded, FindsNothing, BeganWith, x
    <3>3. Closed(task.exec, u, inputs)
      BY <1>2, <1>3, <1>4, <3>2, RuleEndsClosed
    <3> QED
      BY <3>1, <3>3
  <2>5. Hands(P, rest)
    BY <1>2, <1>4, <2>1, <2>4 DEF Hands, Called
  <2> QED
    BY <2>3, <2>5, RoundGoes
<1> QED
  BY <1>5, <1>6

LEMMA ProcessRuleQueryRound ==
  ASSUME IInv, RoundOK(program, tasks, call, inputs), ProcessRuleQuery, pc' = "running"
  PROVE  RoundGoesOn
<1> DEFINE stack == Front(tasks)
           sub == Last(tasks)
           task == Last(stack)
           n == AnswerCount
           P == program
           x == task.exec
           j == sub.next
           l == x.body[j]
<1>1. Stable /\ pc = "running" /\ tasks # << >> /\ sub.type = "RULE_QUERY" /\ call = NoCall
  BY StableFacts DEF IInv, ProcessRuleQuery, Pending
<1>2. TopOK(tasks, P, Meaning, rules, n)
  BY <1>1, StackTop DEF IInv
<1>3. /\ StackOK(stack, P, Meaning, rules, n) /\ stack # << >> /\ SubQueryOK(sub, task, P, Meaning)
      /\ tasks = Append(stack, sub)
  BY <1>1, <1>2 DEF TopOK
<1>4. RuleTaskOK(task, P, Meaning) /\ j = task.next - 1 /\ l.pred \in IDBPreds /\ sub \in Tasks(P)
  BY <1>3 DEF SubQueryOK, Tasks
<1>5. P \in Programs /\ task.type = "RULE" /\ stack \in Seq(Tasks(P))
  BY <1>1, <1>3, <1>4, RuleTaskFacts DEF Stable, StackOK
<1>6. JoinAtom(stack, j, AtomTable(l))
  BY <1>4 DEF ProcessRuleQuery, AtomTable, IDBPreds
<1> HIDE DEF stack, sub
<1>7. /\ Progress(stack, "RULE_QUERY", inputs)
      /\ \A key, q, m, u : CoversIn(P, tasks, key, q, m, u) <=> CoversIn(P, stack, key, q, m, u) \/ Covers(P, sub, key, q, m, u)
  BY <1>1, <1>3, <1>4, <1>5, TopProgress
<1>8. Front(stack) \in Seq(Tasks(P)) /\ task \in Tasks(P) /\ stack = Append(Front(stack), task)
  BY <1>3, <1>5, SequenceEnds
<1>9. Progress(Front(stack), "RULE", inputs) /\ TaskProgress(task, "RULE_QUERY", inputs)
  <2> DEFINE f == Front(stack)
  <2>1. Progress(Append(f, task), "RULE_QUERY", inputs) <=> Progress(f, task.type, inputs) /\ TaskProgress(task, "RULE_QUERY", inputs)
    <3> HIDE DEF f, task
    <3> QED
      BY <1>8, ProgressPush DEF f
  <2> HIDE DEF task, f
  <2> QED
    BY <1>5, <1>7, <1>8, <2>1 DEF f
<1>10. Reached(task, inputs) /\ HasAsked(x, j, task.suppl, inputs)
  BY <1>4, <1>5, <1>9 DEF TaskProgress
<1>11. Goes(P, stack)
  <2> HIDE DEF j, n
  <2> QED
    BY <1>1, <1>3, <1>4, <1>5, <1>6, <1>9, <1>10, JoinAtomGoes
<1>12. Hands(P, stack)
  BY <1>1, <1>7 DEF Hands, Called, Covers
<1> QED
  BY <1>11, <1>12, RoundGoes

\* Equal where they are picked, with equal length.
LEMMA PickSame ==
  ASSUME NEW T, NEW s \in Seq(T), NEW t \in Seq(T), Len(s) = Len(t), NEW S, \A i \in S \cap DOMAIN s : s[i] = t[i]
  PROVE  Pick(s, S) = Pick(t, S)
<1> DEFINE p == Pick(s, S)
           q == Pick(t, S)
           at == Increasing(Len(s), S)
<1>1. Picked(T, s, S) /\ Picked(T, t, S)
  BY PickFacts
<1>2. /\ p \in Seq(T) /\ DOMAIN at = DOMAIN p
      /\ \A k \in DOMAIN p : at[k] \in S \cap DOMAIN s /\ p[k] = s[at[k]]
  BY <1>1 DEF Picked
<1>3. /\ q \in Seq(T) /\ DOMAIN at = DOMAIN q
      /\ \A k \in DOMAIN q : q[k] = t[at[k]]
  BY <1>1 DEF Picked
<1> HIDE DEF p, q, at
<1>4. \A k \in DOMAIN p : p[k] = q[k]
  BY <1>2, <1>3
<1>5. p = q
  <2>1. p = [k \in DOMAIN p |-> p[k]] /\ q = [k \in DOMAIN q |-> q[k]]
    BY DEF p, q, Pick
  <2>2. DOMAIN p = DOMAIN q
    BY <1>2, <1>3
  <2> QED
    BY <1>4, <2>1, <2>2
<1> QED
  BY <1>5 DEF p, q

\* The least model has tuples of the width of their predicate.
LEMMA ModelTyped ==
  ASSUME NEW P \in Programs, NEW D \in Databases
  PROVE  \A p \in Preds : LeastModel(P, D)[p] \subseteq Tuples(Arity[p])
<1> DEFINE M == LeastModel(P, D)
           N == [p \in Preds |-> { u \in M[p] : u \in Tuples(Arity[p]) }]
<1>1. IsLeastModel(P, Given(D), M) /\ P \in SafeRules /\ Given(D) \in Interpretations
  BY LeastModelFacts, ProgramsAreSafe
<1> HIDE DEF M
<1>2. M \in Interpretations /\ Below(Given(D), M) /\ Consequences(P, M) = M
  BY <1>1 DEF IsLeastModel
<1>3. \A p \in Preds : N[p] = { u \in M[p] : u \in Tuples(Arity[p]) }
  OBVIOUS
<1>4. N = [p \in Preds |-> N[p]]
  OBVIOUS
<1> HIDE DEF N
<1>5. Below(N, M)
  BY <1>3 DEF Below
<1>6. N \in Interpretations
  <2>1. \A p \in Preds : N[p] \in SUBSET AllTuples
    BY <1>2, <1>5 DEF Below, Interpretations, AllTuples
  <2> QED
    BY <1>4, <2>1 DEF Interpretations, AllTuples
<1>7. Below(Given(D), N)
  <2> SUFFICES ASSUME NEW p \in Preds, NEW u \in Given(D)[p] PROVE u \in N[p]
    BY DEF Below
  <2>1. u \in M[p]
    BY <1>2 DEF Below
  <2>2. u \in Tuples(Arity[p])
    BY DatabaseAssumption, PredicateAssumption DEF Given, Tuples
  <2> QED
    BY <1>3, <2>1, <2>2
<1>8. Consequences(P, N) \in Interpretations /\ Below(N, Consequences(P, N))
  BY <1>1, <1>6, ConsequencesGrow
<1>9. ASSUME NEW p \in Preds, NEW t \in Consequences(P, N)[p]
      PROVE  t \in N[p]
  <2>1. Below(Consequences(P, N), Consequences(P, M))
    BY <1>1, <1>5, ConsequencesMonotone, SafeRulesBodies
  <2>2. t \in M[p]
    BY <1>2, <2>1 DEF Below
  <2>3. CASE t \in N[p]
    BY <2>3
  <2>4. CASE \E r \in ToSet(P) : r.head.pred = p /\ \E s : DerivesWith(r, s, N, t)
    <3>1. PICK r \in ToSet(P) : r.head.pred = p /\ \E s : DerivesWith(r, s, N, t)
      BY <2>4
    <3>2. PICK s : DerivesWith(r, s, N, t)
      BY <3>1
    <3>3. t \in Tuples(Arity[p])
      BY <1>1, <3>1, <3>2, DerivedType DEF Tuples
    <3> QED
      BY <1>3, <2>2, <3>3
  <2> QED
    BY <1>9, <2>3, <2>4, ConsequencesFacts
<1>10. Consequences(P, N) = N
  <2>1. \A p \in Preds : Consequences(P, N)[p] = N[p]
    BY <1>8, <1>9 DEF Below
  <2> QED
    BY <1>6, <1>8, <2>1 DEF Interpretations
<1>11. Below(M, N)
  BY <1>1, <1>6, <1>7, <1>10 DEF IsLeastModel
<1> QED
  BY <1>3, <1>11 DEF Below, M

\* A fact of the model that the query asks for is asked for.
LEMMA FilteredIsAsked ==
  ASSUME GivenOK, NEW t \in Filtered(Meaning[query.pred])
  PROVE  Pick(t, QueryKey[2]) \in Seeds /\ t \in Meaning[QueryKey[1]]
<1> DEFINE n == Arity[query.pred]
           bound == QueryKey[2]
           C == ConstantPositions(query)
<1>1. n \in Nat /\ query.pred \in Preds /\ DOMAIN query.args = 1 .. n
  BY PredicateAssumption DEF GivenOK, IDBPreds
<1>2. QueryKey = <<query.pred, C \cup query.joins>> /\ bound = C \cup query.joins /\ QueryKey[1] = query.pred
  BY DEF QueryKey
<1>3. /\ t \in Meaning[query.pred] /\ \A i \in C : t[i] = query.args[i]
      /\ \E v \in query.values : \A i \in query.joins : t[i] = v[i]
  BY DEF Filtered
<1>4. PICK v \in query.values : \A i \in query.joins : t[i] = v[i]
  BY <1>3
<1>5. t \in [1 .. n -> Values]
  <2>1. Meaning = LeastModel(program, db) /\ program \in Programs /\ db \in Databases
    BY DEF GivenOK, Meaning, Models
  <2>2. LeastModel(program, db)[query.pred] \subseteq Tuples(Arity[query.pred])
    BY <1>1, <2>1, ModelTyped
  <2> QED
    BY <1>3, <2>1, <2>2 DEF Tuples
<1> DEFINE s == [i \in DOMAIN query.args |-> IF i \in query.joins THEN v[i] ELSE query.args[i]]
           T == Terms \cup Values \cup { query.args[i] : i \in DOMAIN query.args }
<1>6. Pick(s, bound) \in Seeds
  BY DEF Seeds
<1>7. query.joins \subseteq DOMAIN query.args /\ \A i \in query.joins : v[i] \in Values
  BY DEF GivenOK
<1>8. s \in [1 .. n -> T] /\ t \in [1 .. n -> T]
  BY <1>1, <1>5, <1>7
<1>9. \A i \in bound \cap (1 .. n) : s[i] = t[i]
  <2> TAKE i \in bound \cap (1 .. n)
  <2>1. CASE i \in query.joins
    BY <1>1, <1>4, <2>1
  <2>2. CASE i \notin query.joins
    <3>1. i \in C
      BY <1>2, <2>2
    <3> QED
      BY <1>1, <1>3, <2>2, <3>1
  <2> QED
    BY <2>1, <2>2
<1> HIDE DEF s, T, bound
<1>10. s \in Seq(T) /\ DOMAIN s = 1 .. n /\ t \in Seq(T) /\ DOMAIN t = 1 .. n /\ Len(s) = n /\ Len(t) = n
  BY <1>1, <1>8, FunctionIsSequence
<1>11. Pick(s, bound) = Pick(t, bound)
  BY <1>9, <1>10, PickSame
<1> QED
  BY <1>2, <1>3, <1>6, <1>11 DEF bound

\* A query that has ended was answered with what the model has for it.
LEMMA ClosedIsExact ==
  ASSUME RepeatsAreBound, RepeatsInPlace, IInv, NEW I, AllClosed(program, I),
         Seeds \subseteq ToSet(I[QueryKey])
  PROVE  Filtered(answers[QueryKey]) = Filtered(Meaning[query.pred])
<1>1. /\ GivenOK /\ program \in Programs /\ db \in Databases
      /\ QueryKey \in Keys /\ QueryKey[1] = query.pred
  BY SeedsFacts DEF IInv, GivenOK, QueryKey
<1>2. Meaning = LeastModel(program, db)
  BY <1>1 DEF Meaning, Models
<1>3. Answered(Meaning, I)
  BY <1>1, <1>2, ClosedIsComplete
<1>4. answers[QueryKey] \subseteq Meaning[query.pred]
  BY <1>1 DEF IInv, AnswersOK, TuplesOf
<1>5. ASSUME NEW t \in Filtered(Meaning[query.pred])
      PROVE  t \in answers[QueryKey]
  <2>1. Pick(t, QueryKey[2]) \in ToSet(I[QueryKey]) /\ t \in Meaning[QueryKey[1]]
    BY <1>1, FilteredIsAsked
  <2> QED
    BY <1>1, <1>3, <2>1 DEF Answered
<1> QED
  BY <1>4, <1>5 DEF Filtered

\* A round that is over has closed every input.
LEMMA RoundCloses ==
  ASSUME RoundOK(program, << >>, NoCall, inputs), InputsOK(inputs)
  PROVE  AllClosed(program, inputs)
<1> SUFFICES ASSUME NEW k \in Keys, NEW i \in DOMAIN ExecutorsOf(program, k), NEW t \in ToSet(inputs[k])
             PROVE  Closed(ExecutorsOf(program, k)[i], t, inputs)
  BY DEF AllClosed
<1>1. PICK m \in DOMAIN inputs[k] : inputs[k][m] = t
  BY DEF ToSet
<1>2. IsCovered(program, << >>, NoCall, inputs, k, i, m)
  BY DEF RoundOK
<1>3. ~Called(NoCall, k, m) /\ ~CoversIn(program, << >>, k, i, m, inputs[k][m])
  BY DEF Called, CoversIn
<1> QED
  BY <1>1, <1>2, <1>3 DEF IsCovered

\* A round begins with the query's inputs, all to be evaluated.
LEMMA RoundStarts ==
  ASSUME IInv, tasks = << >>, BeginRound
  PROVE  RoundOK(program, tasks', call', inputs') /\ Seeds \subseteq ToSet(inputs'[QueryKey])
<1> DEFINE s == SetToSeq(Seeds)
           T == Tuples(Cardinality(QueryKey[2]))
<1>1. QueryKey \in Keys /\ Seeds \subseteq T
  BY SeedsFacts DEF IInv
<1>2. /\ inputs' = [k \in Keys |-> IF k = QueryKey THEN s ELSE << >>]
      /\ call' = [key |-> QueryKey, offset |-> 0, repeat |-> FALSE]
      /\ tasks' = << >>
  BY DEF BeginRound
<1>3. s \in Seq(Seeds) /\ ToSet(s) = Seeds
  <2>1. IsFiniteSet(T)
    BY <1>1, KeyFacts, TermAssumption, FiniteTuples DEF Tuples
  <2> HIDE DEF T
  <2>2. IsFiniteSet(Seeds)
    BY <1>1, <2>1, FS_Subset
  <2> QED
    BY <2>2, SetToSeqFacts
<1> HIDE DEF s
<1>4. inputs'[QueryKey] = s
  BY <1>1, <1>2
<1>5. call' # NoCall /\ call'.key = QueryKey /\ call'.offset = 0
  <2>1. QueryKey # << >>
    BY DEF QueryKey
  <2> QED
    BY <1>2, <2>1 DEF NoCall
<1>6. Progress(tasks', "NONE", inputs')
  BY <1>2 DEF Progress
<1>7. ASSUME NEW k \in Keys, NEW m \in DOMAIN inputs'[k]
      PROVE  Called(call', k, m)
  <2>1. k = QueryKey
    BY <1>2
  <2>2. m \in Nat /\ 0 < m
    BY <1>3, <1>4, <2>1
  <2> QED
    BY <1>5, <2>1, <2>2 DEF Called
<1>8. RoundOK(program, tasks', call', inputs')
  BY <1>6, <1>7 DEF RoundOK, IsCovered
<1> QED
  BY <1>3, <1>4, <1>8

-----------------------------------------------------------------------------
(* What the evaluation cannot do                                           *)

\* Atom j shares no variable with those known before it.
Apart(x, j) == VarsOf(x.body[j]) \cap Known(x, j) = {}

\* A rule of P that some adornment leaves with an atom apart from those before it.
FallsApart(P) ==
  \E r \in ToSet(P) : \E b \in SUBSET DOMAIN r.head.args : ~Connected(AdornedRule[<<r, b>>])

\* An atom that is joined with nothing shares no variable that is known.
LEMMA UnjoinedIsApart ==
  ASSUME NEW x, IsExecutor(x), NEW j \in 1 .. Len(x.body), Joins(x, j) = {}
  PROVE  Apart(x, j)
<1> SUFFICES ASSUME NEW v \in VarsOf(x.body[j]), v \in Known(x, j)
             PROVE  FALSE
  BY DEF Apart
<1>1. IsRule(x) /\ Signed(x, x.sig) /\ Len(x.body) \in Nat
  BY DEF IsExecutor, IsRule
<1>2. j - 1 + 1 = j /\ j \in 1 .. Len(x.body) + 1 /\ j \in (j - 1) + 1 .. Len(x.body)
  BY <1>1
<1>3. NeededAfter(x, j - 1, v)
  BY <1>2 DEF NeededAfter
<1>4. v \in ToSet(x.sig[j])
  BY <1>1, <1>2, <1>3 DEF Signed
<1>5. v \in ToSet(VarSeq(x.body[j]))
  BY AtomFacts, LiteralFacts
<1>6. PICK m \in DOMAIN x.sig[j] : x.sig[j][m] = v
  BY <1>4 DEF ToSet
<1>7. PICK n \in DOMAIN VarSeq(x.body[j]) : VarSeq(x.body[j])[n] = v
  BY <1>5 DEF ToSet
<1>8. <<n, m>> \in Joins(x, j)
  BY <1>6, <1>7 DEF Joins
<1> QED
  BY <1>8

\* An atom apart from those before it, but the first, disconnects its rule.
LEMMA ApartDisconnects ==
  ASSUME NEW x, NEW j \in 2 .. Len(x.body), Apart(x, j),
         Picked(Terms, x.head.args, x.head.bound), x.head.bound \subseteq DOMAIN x.head.args
  PROVE  ~Connected(x)
<1> DEFINE before == [k \in 1 .. j - 1 |-> k]
           bound == ToSet(Pick(x.head.args, x.head.bound))
<1>1. ToSet(before) = 1 .. j - 1
  BY DEF ToSet
<1>2. VarsIn(x.body, before) = UNION { VarsOf(x.body[m]) : m \in 1 .. j - 1 }
  <2> HIDE DEF before
  <2> QED
    BY <1>1 DEF VarsIn
<1>3. ASSUME NEW v \in VarsOf(x.body[j]), v \in bound
      PROVE  v \in BoundByHead(x)
  <2>1. v \in Variables
    BY DEF VarsOf
  <2>2. \E i \in x.head.bound : v = x.head.args[i]
    BY <1>3 DEF Picked
  <2> QED
    BY <2>1, <2>2 DEF BoundByHead
<1>4. VarsOf(x.body[j]) \cap (bound \cup VarsIn(x.body, before)) = {}
  BY <1>2, <1>3 DEF Apart, Known
<1> QED
  BY <1>4 DEF Connected

\* Where the head binds a variable, the first atom of the plan has a bound one.
LEMMA FirstIsJoined ==
  ASSUME NEW r \in AllRules, NEW b \in SUBSET DOMAIN r.head.args, NEW x, Adorns(x, r, b), Planned(x, r, b),
         BoundByHead(x) # {}
  PROVE  ~Apart(x, 1)
<1> DEFINE bound == BoundByHead(x)
           first == NextInPlan(r.body, bound, << >>)
<1>1. r \in DatalogRules /\ VarsOf(r.head) \subseteq UNION { VarsOf(l) : l \in ToSet(r.body) } /\ Len(r.body) > 0
  <2>1. PICK P \in Programs : r \in ToSet(P)
    BY DEF AllRules
  <2> QED
    BY <2>1, ProgramsAreSafe DEF SafeRules
<1>2. r.body \in Seq(Literals)
  BY <1>1 DEF DatalogRules
<1>3. PICK v \in Variables : \E i \in x.head.bound : x.head.args[i] = v
  BY DEF BoundByHead
<1>4. v \in VarsOf(r.head)
  <2>1. x.head.args = r.head.args /\ x.head.bound = b
    BY DEF Adorns
  <2> QED
    BY <1>3, <2>1 DEF VarsOf, ToSet
<1>5. PICK i \in DOMAIN r.body : v \in VarsOf(r.body[i])
  BY <1>1, <1>4 DEF ToSet
<1>6. v \in bound
  BY <1>3 DEF BoundByHead
<1>7. ToSet(<< >>) = {} /\ VarsIn(r.body, << >>) = {}
  BY DEF ToSet, VarsIn
<1> HIDE DEF bound
<1>8. DOMAIN r.body \ ToSet(<< >>) # {} /\ bound \cup VarsIn(r.body, << >>) = bound /\ i \in DOMAIN r.body \ ToSet(<< >>)
  BY <1>5, <1>7
<1>9. VarsOf(r.body[first]) \cap bound # {}
  BY <1>2, <1>5, <1>6, <1>8, NextInPlanFacts
<1>10. 1 \in DOMAIN x.body
  BY DEF Adorns
<1>11. VarsOf(x.body[1]) = VarsOf(r.body[first])
  BY <1>10 DEF Planned, bound
<1> QED
  BY <1>9, <1>11 DEF Apart, Known, bound

\* An adorned rule with an atom apart is one that falls apart, unless it is the
\* first and nothing is bound.
LEMMA ApartFallsApart ==
  ASSUME NEW P \in Programs, NEW r \in ToSet(P), NEW b \in SUBSET DOMAIN r.head.args,
         NEW j \in DOMAIN AdornedRule[<<r, b>>].body, Apart(AdornedRule[<<r, b>>], j),
         j = 1 => BoundByHead(AdornedRule[<<r, b>>]) # {}
  PROVE  FallsApart(P)
<1> DEFINE x == AdornedRule[<<r, b>>]
<1>1. r \in AllRules
  BY DEF AllRules
<1>2. Adorns(x, r, b) /\ Planned(x, r, b)
  BY <1>1, AdornmentFacts
<1>3. j # 1
  <2> SUFFICES ASSUME j = 1 PROVE FALSE
    OBVIOUS
  <2>1. BoundByHead(x) # {} /\ Apart(x, 1)
    OBVIOUS
  <2> HIDE DEF x
  <2> QED
    BY <1>1, <1>2, <2>1, FirstIsJoined
<1>4. Apart(x, j) /\ j \in DOMAIN x.body
  OBVIOUS
<1>5. ~Connected(x)
  <2> HIDE DEF x
  <2>1. j \in 2 .. Len(x.body)
    BY <1>2, <1>3, <1>4 DEF Adorns
  <2>2. IsRule(x)
    BY <1>1, <1>2, AdornedIsRule
  <2>3. x.head.args \in Seq(Terms) /\ x.head.bound \subseteq DOMAIN x.head.args
    BY <2>2, LiteralFacts DEF IsRule
  <2>4. Picked(Terms, x.head.args, x.head.bound)
    BY <2>3, PickFacts
  <2> QED
    BY <1>4, <2>1, <2>3, <2>4, ApartDisconnects
<1> QED
  BY <1>5 DEF FallsApart

\* What was thrown for an atom that is multiplied.
Multiplied(x, j) == j \in 1 .. Len(x.body) /\ Joins(x, j) = {} /\ x.sig[j] # << >>

LEMMA MultipliedFallsApart ==
  ASSUME NEW P \in Programs, NEW x \in AllExecutors(P), NEW j, Multiplied(x, j)
  PROVE  FallsApart(P)
<1>1. PICK k \in Keys : \E i \in DOMAIN ExecutorsOf(P, k) : x = ExecutorsOf(P, k)[i]
  BY DEF AllExecutors, ToSet
<1>2. PICK i \in DOMAIN ExecutorsOf(P, k) : x = ExecutorsOf(P, k)[i]
  BY <1>1
<1> DEFINE r == RuleList(P, k)[i]
           y == AdornedRule[<<r, k[2]>>]
<1>3. r \in ToSet(P) /\ i \in DOMAIN RuleList(P, k)
  BY RuleListFacts
<1>4. x.head = y.head /\ x.body = y.body
  BY <1>2, <1>3 DEF ExecutorsOf, RuleExecutor
<1>5. IsExecutor(x) /\ Adorns(x, r, k[2])
  BY <1>2, ExecutorFacts DEF Prepared
<1> HIDE DEF r, y
<1>6. k[2] \in SUBSET DOMAIN r.head.args
  <2>1. IsLiteral(x.head) /\ x.head.bound \subseteq DOMAIN x.head.args
    BY <1>5 DEF IsExecutor, IsRule
  <2> QED
    BY <1>5, <2>1 DEF Adorns
<1>7. j \in DOMAIN x.body /\ Apart(x, j)
  BY <1>5, UnjoinedIsApart DEF Multiplied, IsExecutor, IsRule
<1>8. j = 1 => BoundByHead(x) # {}
  <2> SUFFICES ASSUME j = 1 PROVE BoundByHead(x) # {}
    OBVIOUS
  <2>1. 1 \in 1 .. Len(x.body) + 1
    BY <1>5 DEF IsExecutor, IsRule
  <2>2. x.sig[1] \in Seq(Variables) /\ ToSet(x.sig[1]) \subseteq Known(x, 1) /\ x.sig[1] # << >>
    BY <1>5, <2>1 DEF IsExecutor, Signed, Multiplied
  <2>3. ToSet(x.sig[1]) # {}
    <3>1. 1 \in DOMAIN x.sig[1]
      BY <2>2
    <3> QED
      BY <3>1 DEF ToSet
  <2>4. Known(x, 1) = BoundByHead(x)
    BY DEF Known
  <2> QED
    BY <2>2, <2>3, <2>4
<1>9. Apart(y, j) /\ j \in DOMAIN y.body /\ BoundByHead(y) = BoundByHead(x)
  BY <1>4, <1>7 DEF Apart, Known, BoundByHead
<1> QED
  <2>1. y = AdornedRule[<<r, k[2]>>]
    BY DEF y
  <2>2. FallsApart(P)
    BY <1>3, <1>6, <1>8, <1>9, <2>1, ApartFallsApart
  <2> QED
    BY <2>2

\* A rule without a plan for an adornment has, under it, a last atom apart from
\* the others.
LEMMA UnplannableFallsApart ==
  ASSUME NEW P \in Programs, NEW r \in ToSet(P), NEW b \in SUBSET DOMAIN r.head.args, ~Plannable(r, b)
  PROVE  FallsApart(P)
<1> DEFINE x == AdornedRule[<<r, b>>]
           plan == BestPlan(r.body, BoundByHead(x))
           n == Len(plan)
<1>1. r \in AllRules
  BY DEF AllRules
<1>2. Adorns(x, r, b) /\ Planned(x, r, b)
  BY <1>1, AdornmentFacts
<1>3. x = AdornedRule[<<r, b>>]
  OBVIOUS
<1> HIDE DEF x
<1>4. n > 1 /\ VarsOf(r.body[Last(plan)]) \cap (BoundByHead(x) \cup VarsIn(r.body, Front(plan))) = {}
  BY <1>2 DEF Planned, Plannable
<1>5. /\ plan \in Seq(DOMAIN r.body) /\ n = Len(x.body) /\ DOMAIN plan = DOMAIN x.body
      /\ \A j \in DOMAIN x.body : VarsOf(x.body[j]) = VarsOf(r.body[plan[j]])
  BY <1>2 DEF Planned
<1> HIDE DEF plan
<1>6. n \in Nat /\ n \in DOMAIN x.body /\ n # 1 /\ DOMAIN x.body = 1 .. n /\ plan # << >>
  BY <1>4, <1>5
<1>7. Last(plan) = plan[n] /\ DOMAIN Front(plan) = 1 .. n - 1 /\ \A m \in 1 .. n - 1 : Front(plan)[m] = plan[m]
  BY <1>5, <1>6, SequenceEnds
<1>8. ToSet(Front(plan)) = { plan[m] : m \in 1 .. n - 1 }
  BY <1>7 DEF ToSet
<1>9. VarsIn(r.body, Front(plan)) = UNION { VarsOf(x.body[m]) : m \in 1 .. n - 1 }
  <2>1. \A m \in 1 .. n - 1 : m \in DOMAIN x.body
    BY <1>6
  <2>2. \A m \in 1 .. n - 1 : VarsOf(x.body[m]) = VarsOf(r.body[plan[m]])
    BY <1>5, <2>1
  <2> HIDE DEF n
  <2> QED
    BY <1>8, <2>2 DEF VarsIn
<1>10. Apart(x, n)
  BY <1>4, <1>5, <1>6, <1>7, <1>9 DEF Apart, Known
<1> HIDE DEF n
<1> QED
  BY <1>3, <1>6, <1>10, ApartFallsApart

\* The evaluation throws for an atom that is multiplied, of whatever task.
LEMMA JoinAtomBreaks ==
  ASSUME NEW P \in Programs, NEW M, NEW stack, RuleTaskOK(Last(stack), P, M),
         NEW j, j = Last(stack).next - 1, NEW rows,
         JoinAtom(stack, j, rows), pc # "cartesian", pc' = "cartesian"
  PROVE  FallsApart(P)
<1> DEFINE x == Last(stack).exec
<1>1. Joins(x, j) = {} /\ x.sig[j] # << >>
  BY DEF JoinAtom
<1>2. x \in AllExecutors(P) /\ j \in 1 .. Len(x.body)
  BY RuleTaskFacts DEF RuleTaskIs
<1>3. Multiplied(x, j)
  BY <1>1, <1>2 DEF Multiplied
<1> HIDE DEF x
<1> QED
  BY <1>2, <1>3, MultipliedFallsApart

LEMMA EvaluateAtomBreaks ==
  ASSUME NEW P \in Programs, NEW M, NEW stack, RuleTaskOK(Last(stack), P, M),
         NEW j, j = Last(stack).next - 1,
         EvaluateAtom(stack, j), pc # "cartesian", pc' = "cartesian"
  PROVE  FallsApart(P)
<1> DEFINE l == Last(stack).exec.body[j]
<1>1. JoinAtom(stack, j, EDBRows(l)) \/ JoinAtom(stack, j, AnswerRows(l))
  BY Zenon DEF EvaluateAtom
<1> HIDE DEF l
<1> QED
  BY <1>1, JoinAtomBreaks

LEMMA EvaluateRuleBreaks ==
  ASSUME NEW P \in Programs, NEW M, NEW rs, NEW n, NEW stack, StackOK(stack, P, M, rs, n),
         NEW x \in AllExecutors(P), NEW k, k = KeyOf(x.head), NEW offset \in Nat, InputsOK(inputs),
         EvaluateRule(stack, x, k, offset), pc # "cartesian", pc' = "cartesian"
  PROVE  FallsApart(P)
<1> DEFINE rows == FirstRows(x, ToSet(SubSeq(inputs[k], offset + 1, Len(inputs[k]))))
           t == RuleTask(x, 2, <<rows>> \o [j \in DOMAIN x.body |-> {}])
           s2 == Append(stack, t)
<1>1. EvaluateAtom(s2, 1)
  BY DEF EvaluateRule
<1>2. rows \in SUBSET RowsOf(x, 1, M)
  BY FirstRowsTyped
<1>3. RuleTaskOK(t, P, M) /\ t.next = 2
  <2> HIDE DEF rows
  <2> QED
    BY <1>2, RuleBegins DEF RuleTask
<1> HIDE DEF t
<1>4. Last(s2) = t
  BY <1>3, StackPush
<1> HIDE DEF s2
<1>5. 1 = Last(s2).next - 1 /\ RuleTaskOK(Last(s2), P, M)
  BY <1>3, <1>4
<1> QED
  BY <1>1, <1>5, EvaluateAtomBreaks

\* The query is thrown out only where a rule falls apart.
Broken == pc \in {"unplannable", "cartesian"}

LEMMA EvaluateBreaks ==
  ASSUME IInv, Evaluate, Broken'
  PROVE  FallsApart(program)
<1> DEFINE k == call.key
           t == QueryBegun
<1>1. Stable /\ pc = "running" /\ k \in Keys /\ call.offset \in Nat
  BY StableFacts DEF IInv, CallOK, Evaluate
<1>2. RulesFor(k) = RuleList(program, k) /\ program \in Programs
  BY <1>1 DEF Stable
<1>3. CASE \E i \in DOMAIN RulesFor(k) : ~Plannable(RulesFor(k)[i], k[2])
  <2>1. PICK i \in DOMAIN RuleList(program, k) : ~Plannable(RuleList(program, k)[i], k[2])
    BY <1>2, <1>3
  <2> DEFINE r == RuleList(program, k)[i]
  <2> HIDE DEF k
  <2>2. r \in ToSet(program) /\ r.head.pred = k[1]
    BY <1>2, RuleListFacts
  <2>3. r \in DatalogRules
    BY <1>2, <2>2, ProgramsAreSafe
  <2>4. r.head \in Literals
    BY <2>3 DEF DatalogRules
  <2> HIDE DEF r
  <2>5. k[2] \in SUBSET DOMAIN r.head.args
    BY <1>1, <2>2, <2>4, LiteralsAreLiterals, LiteralFacts, KeyFacts
  <2>6. ~Plannable(r, k[2])
    BY <2>1 DEF r
  <2> QED
    BY <1>2, <2>2, <2>5, <2>6, UnplannableFallsApart
<1>4. CASE ~(\E i \in DOMAIN RulesFor(k) : ~Plannable(RulesFor(k)[i], k[2]))
  <2>1. CreateRules(k) /\ pc' # pc
    BY <1>1, <1>4 DEF Evaluate, Broken
  <2>2. RulesFor(k) # << >> /\ EvaluateRule(Append(tasks, t), rules'[k][1], k, call.offset)
    BY <1>4, <2>1 DEF Evaluate, QueryBegun
  <2> DEFINE stack == Append(tasks, t)
             x == rules'[k][1]
  <2>3. /\ StackOK(stack, program, Meaning, rules', AnswerCount)
        /\ x \in AllExecutors(program) /\ k = KeyOf(x.head)
    BY <2>1, <2>2, QueryBegins
  <2>4. EvaluateRule(stack, x, k, call.offset) /\ InputsOK(inputs) /\ pc # "cartesian"
    BY <1>1, <2>2 DEF IInv
  <2>5. pc' = "cartesian"
    BY <1>1, <2>1, <2>2 DEF Broken, EvaluateRule, EvaluateAtom, JoinAtom
  <2> HIDE DEF stack, x, k
  <2> QED
    BY <1>1, <1>2, <2>3, <2>4, <2>5, EvaluateRuleBreaks
<1> QED
  BY <1>3, <1>4

LEMMA ProcessQueryBreaks ==
  ASSUME IInv, ProcessQuery, pc' = "cartesian"
  PROVE  FallsApart(program)
<1> DEFINE task == Last(tasks)
           rest == Front(tasks)
           R == RuleList(program, task.key)
<1>1. Pending("QUERY")
  BY DEF ProcessQuery
<1>2. /\ Stable /\ pc = "running" /\ StackOK(rest, program, Meaning, rules, AnswerCount)
      /\ RulesFor(task.key) = R /\ Len(R) \in Nat \ {0} /\ task.offset \in Nat
  BY <1>1, QueryGoesOn
<1>3. ASSUME NEW t, GoesOn(task, t), NEW i \in 1 .. Len(R),
             EvaluateRule(Append(rest, t), rules[task.key][i], task.key, task.offset)
      PROVE  FallsApart(program)
  <2> DEFINE x == rules[task.key][i]
             k == task.key
             stack == Append(rest, t)
  <2>1. x \in AllExecutors(program) /\ k = KeyOf(x.head)
    BY <1>1, RuleOfQuery
  <2>2. StackOK(stack, program, Meaning, rules, AnswerCount)
    <3>1. QueryTaskOK(t, program, rules, AnswerCount)
      BY <1>3 DEF GoesOn
    <3> HIDE DEF rest
    <3> QED
      BY <1>2, <3>1, StackPush
  <2>3. EvaluateRule(stack, x, k, task.offset) /\ InputsOK(inputs) /\ pc # "cartesian"
    BY <1>2, <1>3 DEF IInv
  <2> HIDE DEF stack, x, k, task
  <2> QED
    BY <1>2, <2>1, <2>2, <2>3, EvaluateRuleBreaks DEF Stable
<1>4. CASE task.next <= Len(R)
  <2>1. EvaluateRule(Append(rest, QueryNext), rules[task.key][task.next], task.key, task.offset)
    BY <1>2, <1>4 DEF ProcessQuery, QueryNext
  <2>2. GoesOn(task, QueryNext) /\ task.next \in 2 .. Len(R) + 1
    BY <1>1, <1>4, QueryGoesOn DEF QueryTaskOK
  <2>3. task.next \in 1 .. Len(R)
    BY <1>2, <1>4, <2>2
  <2> QED
    BY <1>3, <2>1, <2>2, <2>3
<1>5. CASE ~(task.next <= Len(R)) /\ Repeats(task)
  <2>1. EvaluateRule(Append(rest, QueryAgain), rules[task.key][1], task.key, task.offset)
    BY <1>2, <1>5 DEF ProcessQuery, QueryAgain
  <2>2. GoesOn(task, QueryAgain) /\ 1 \in 1 .. Len(R)
    BY <1>1, <1>2, QueryGoesOn
  <2> QED
    BY <1>3, <2>1, <2>2
<1>6. CASE ~(task.next <= Len(R)) /\ ~Repeats(task)
  BY <1>2, <1>6 DEF ProcessQuery
<1> QED
  BY <1>4, <1>5, <1>6

LEMMA ProcessRuleBreaks ==
  ASSUME IInv, ProcessRule, pc' = "cartesian"
  PROVE  FallsApart(program)
<1> DEFINE task == Last(tasks)
           rest == Front(tasks)
           x == task.exec
           stack == Append(rest, RuleNext)
<1>1. Pending("RULE") /\ Stable /\ pc = "running"
  BY RuleGoesOn DEF ProcessRule
<1>2. task.next <= Len(x.body) /\ task.suppl[task.next] # {}
  BY <1>1, Zenon DEF ProcessRule
<1>3. EvaluateAtom(stack, task.next)
  BY <1>2 DEF ProcessRule, RuleNext
<1>4. RuleTaskOK(Last(stack), program, Meaning) /\ task.next = Last(stack).next - 1
  BY <1>1, <1>2, RuleGoesOn
<1> HIDE DEF stack, task
<1> QED
  BY <1>1, <1>3, <1>4, EvaluateAtomBreaks DEF Stable

LEMMA ProcessRuleQueryBreaks ==
  ASSUME IInv, ProcessRuleQuery, pc' = "cartesian"
  PROVE  FallsApart(program)
<1> DEFINE stack == Front(tasks)
           task == Last(stack)
           j == Last(tasks).next
           l == task.exec.body[j]
<1>1. Stable /\ pc = "running" /\ tasks # << >> /\ Last(tasks).type = "RULE_QUERY"
  BY StableFacts DEF IInv, ProcessRuleQuery, Pending
<1>2. TopOK(tasks, program, Meaning, rules, AnswerCount)
  BY <1>1, StackTop DEF IInv
<1>3. RuleTaskOK(task, program, Meaning) /\ j = task.next - 1
  BY <1>1, <1>2 DEF TopOK, SubQueryOK
<1>4. JoinAtom(stack, j, AnswerRows(l))
  BY DEF ProcessRuleQuery
<1> HIDE DEF stack, j
<1> QED
  BY <1>1, <1>3, <1>4, JoinAtomBreaks DEF Stable

-----------------------------------------------------------------------------
(* Completeness                                                            *)

\* Where a round that found nothing has come to: what was asked is asked, and
\* every input of every rule is to be evaluated, being evaluated or closed.
RoundInv ==
  pc = "running" =>
    /\ total <= AnswerCount
    /\ AnswerCount = total =>
         Seeds \subseteq ToSet(inputs[QueryKey]) /\ RoundOK(program, tasks, call, inputs)

ResultOK == pc = "done" => result = Filtered(Meaning[query.pred])

BrokenOK == Broken => FallsApart(program)

TableOK == answers = [k \in Keys |-> answers[k]]

CInv == RoundInv /\ ResultOK /\ BrokenOK /\ TableOK

\* Only where a rule falls apart is the query thrown out.
LEMMA BrokenKept ==
  ASSUME IInv, IInv', BrokenOK, [Next]_vars
  PROVE  BrokenOK'
<1> SUFFICES ASSUME Broken' PROVE FallsApart(program')
  BY DEF BrokenOK, FallsApart
<1>1. CASE UNCHANGED vars
  BY <1>1 DEF vars, given, BrokenOK, Broken
<1>2. CASE Start \/ RepeatRound \/ Finish \/ AskAgain
  BY <1>2 DEF Start, RepeatRound, BeginRound, Finish, AskAgain, Broken
<1>3. ASSUME Evaluate \/ ProcessQuery \/ ProcessRule \/ ProcessRuleQuery PROVE program' = program
  BY <1>3 DEF Evaluate, ProcessQuery, ProcessRule, ProcessRuleQuery, given
<1>4. CASE Evaluate
  BY <1>3, <1>4, EvaluateBreaks
<1>5. CASE ProcessQuery \/ ProcessRule \/ ProcessRuleQuery
  <2>1. pc' = "cartesian"
    BY <1>5 DEF Broken, ProcessQuery, ProcessRule, ProcessRuleQuery, Pending, EvaluateRule, EvaluateAtom, JoinAtom
  <2> QED
    BY <1>3, <1>5, <2>1, ProcessQueryBreaks, ProcessRuleBreaks, ProcessRuleQueryBreaks
<1> QED
  BY <1>1, <1>2, <1>4, <1>5 DEF Next

\* A step of a round that finds nothing leaves it where it has come to.
LEMMA RoundInvKept ==
  ASSUME IInv, IInv', RoundInv, pc = "running", UNCHANGED given, total' = total, AnswerCount <= AnswerCount',
         AnswerCount' = AnswerCount /\ RoundOK(program, tasks, call, inputs) => answers' = answers /\ RoundGoesOn
  PROVE  RoundInv'
<1>1. total \in Nat /\ AnswerCount \in Nat
  BY StableFacts DEF IInv, PcOK, Stable
<1>2. AnswerCount' \in Nat
  <2>1. (GivenOK /\ AnswersOK(answers, Meaning) => Stable)'
    BY StableFacts, PTL
  <2> QED
    BY <2>1 DEF IInv, Stable
<1>3. total <= AnswerCount
  BY DEF RoundInv
<1>4. ASSUME AnswerCount' = total
      PROVE  /\ (Seeds \subseteq ToSet(inputs[QueryKey]))'
             /\ RoundOK(program, tasks, call, inputs)'
  <2>1. AnswerCount = total /\ AnswerCount' = AnswerCount
    BY <1>1, <1>2, <1>3, <1>4
  <2>2. Seeds \subseteq ToSet(inputs[QueryKey]) /\ RoundOK(program, tasks, call, inputs)
    BY <2>1 DEF RoundInv
  <2>3. answers' = answers /\ RoundGoesOn
    BY <2>1, <2>2
  <2>4. program' = program /\ db' = db /\ query' = query
    BY DEF given
  <2>5. RoundOK(program, tasks, call, inputs)'
    BY <2>3, <2>4, RoundKept DEF RoundGoesOn
  <2>6. QueryKey \in Keys
    BY SeedsFacts DEF IInv
  <2>7. Seeds \subseteq ToSet(inputs'[QueryKey])
    BY <2>2, <2>3, <2>6 DEF RoundGoesOn
  <2>8. Seeds' = Seeds /\ QueryKey' = QueryKey
    BY <2>4 DEF Seeds, QueryKey, ConstantPositions
  <2> QED
    BY <2>5, <2>7, <2>8
<1>5. total <= AnswerCount'
  BY <1>1, <1>2, <1>3
<1> QED
  BY <1>4, <1>5 DEF RoundInv

\* As many answers as before are the same answers.
LEMMA NothingFound ==
  ASSUME IInv, TableOK, ProcessRule
  PROVE  AnswerCount <= AnswerCount' /\ (AnswerCount' = AnswerCount => answers' = answers) /\ TableOK'
<1> DEFINE task == Last(tasks)
           x == task.exec
           k == KeyOf(x.head)
           more == HeadTuples(x, Last(task.suppl))
<1>1. Pending("RULE") /\ DOMAIN answers = Keys /\ AnswerCount \in Nat
  BY StableFacts DEF ProcessRule, IInv, AnswersOK, Stable
<1>2. CASE answers' = answers
  <2>1. AnswerCount' = AnswerCount /\ TableOK'
    BY <1>2 DEF AnswerCount, TableOK
  <2> QED
    BY <1>1, <1>2, <2>1
<1>3. CASE answers' = [answers EXCEPT ![k] = @ \cup more]
  <2>1. AnswersOK(answers', Meaning) /\ \A key \in Keys : answers[key] \subseteq answers'[key]
    BY <1>1, <1>3, AnswersGrow
  <2>2. AnswerCount = Cardinality(Found(answers)) /\ AnswerCount' = Cardinality(Found(answers'))
    BY DEF AnswerCount, Found
  <2>3. \A key \in Keys : answers'[key] \subseteq Tuples(Arity[key[1]])
    BY <2>1 DEF AnswersOK, TuplesOf
  <2>4. AnswerCount' \in Nat /\ AnswerCount <= AnswerCount'
    BY <2>1, <2>2, <2>3, FoundGrows, FoundFinite
  <2>5. (\E key \in Keys : answers'[key] # answers[key]) => AnswerCount < AnswerCount'
    BY <2>1, <2>2, <2>3, FoundGrows
  <2>6. answers' = [key \in Keys |-> answers'[key]]
    <3> HIDE DEF k, more
    <3> QED
      BY <1>1, <1>3
  <2>7. AnswerCount' = AnswerCount => answers' = answers
    <3> SUFFICES ASSUME AnswerCount' = AnswerCount PROVE answers' = answers
      OBVIOUS
    <3>1. ~(AnswerCount < AnswerCount')
      BY <1>1
    <3>2. \A key \in Keys : answers'[key] = answers[key]
      BY <2>5, <3>1
    <3>3. answers = [key \in Keys |-> answers[key]]
      BY DEF TableOK
    <3>4. [key \in Keys |-> answers'[key]] = [key \in Keys |-> answers[key]]
      BY <3>2
    <3> QED
      BY <2>6, <3>3, <3>4
  <2>8. TableOK'
    BY <2>6 DEF TableOK
  <2> QED
    BY <2>4, <2>7, <2>8
<1> QED
  BY <1>2, <1>3, Zenon DEF ProcessRule

LEMMA RoundInvNext ==
  ASSUME IInv, IInv', CInv, [Next]_vars
  PROVE  RoundInv' /\ TableOK'
<1>1. CASE UNCHANGED vars
  <2>1. /\ pc' = pc /\ inputs' = inputs /\ answers' = answers /\ tasks' = tasks /\ call' = call
        /\ total' = total /\ program' = program /\ db' = db /\ query' = query
    BY <1>1 DEF vars, given
  <2>2. Seeds' = Seeds /\ QueryKey' = QueryKey /\ AnswerCount' = AnswerCount
    BY <2>1 DEF Seeds, QueryKey, ConstantPositions, AnswerCount
  <2>3. RoundOK(program, tasks, call, inputs)' <=> RoundOK(program, tasks, call, inputs)
    BY <2>1, RoundKept
  <2> QED
    BY <2>1, <2>2, <2>3 DEF CInv, RoundInv, TableOK
<1>2. CASE Start \/ RepeatRound
  <2>1. tasks = << >> /\ BeginRound
    BY <1>2 DEF IInv, PcOK, Start, RepeatRound, RoundOver
  <2>2. answers' = answers /\ program' = program /\ db' = db /\ query' = query /\ total' = AnswerCount
    BY <2>1 DEF BeginRound, given
  <2>3. RoundOK(program, tasks', call', inputs') /\ Seeds \subseteq ToSet(inputs'[QueryKey])
    BY <2>1, RoundStarts
  <2>4. RoundOK(program, tasks, call, inputs)'
    BY <2>2, <2>3, RoundKept
  <2>5. Seeds' = Seeds /\ QueryKey' = QueryKey /\ AnswerCount' = AnswerCount
    BY <2>2 DEF Seeds, QueryKey, ConstantPositions, AnswerCount
  <2>6. AnswerCount \in Nat
    BY StableFacts DEF IInv, Stable
  <2> QED
    BY <2>2, <2>3, <2>4, <2>5, <2>6 DEF CInv, RoundInv, TableOK
<1>3. CASE Finish \/ AskAgain
  BY <1>3 DEF Finish, AskAgain, CInv, RoundInv, TableOK
<1>4. CASE Evaluate \/ ProcessQuery \/ ProcessRuleQuery
  <2>1. /\ pc = "running" /\ UNCHANGED given /\ total' = total /\ answers' = answers
    BY <1>4 DEF Evaluate, ProcessQuery, ProcessRuleQuery, Pending
  <2>2. AnswerCount' = AnswerCount /\ AnswerCount \in Nat
    BY <2>1, StableFacts DEF AnswerCount, IInv, Stable
  <2>3. pc' = "running" /\ RoundOK(program, tasks, call, inputs) => RoundGoesOn
    BY <1>4, EvaluateRound, ProcessQueryRound, ProcessRuleQueryRound
  <2>4. CASE pc' = "running"
    BY <2>1, <2>2, <2>3, <2>4, RoundInvKept DEF CInv, TableOK
  <2>5. CASE pc' # "running"
    BY <2>1, <2>5 DEF CInv, RoundInv, TableOK
  <2> QED
    BY <2>4, <2>5
<1>5. CASE ProcessRule
  <2>1. pc = "running" /\ UNCHANGED given /\ total' = total
    BY <1>5 DEF ProcessRule, Pending
  <2>2. AnswerCount <= AnswerCount' /\ (AnswerCount' = AnswerCount => answers' = answers) /\ TableOK'
    BY <1>5, NothingFound DEF CInv
  <2>3. CASE pc' = "running"
    <3>1. AnswerCount' = AnswerCount /\ RoundOK(program, tasks, call, inputs) => answers' = answers /\ RoundGoesOn
      BY <1>5, <2>2, <2>3, ProcessRuleRound
    <3> QED
      BY <2>1, <2>2, <3>1, RoundInvKept DEF CInv
  <2>4. CASE pc' # "running"
    BY <2>2, <2>4 DEF RoundInv
  <2> QED
    BY <2>3, <2>4
<1> QED
  BY <1>1, <1>2, <1>3, <1>4, <1>5 DEF Next

\* What is handed out is what the program means.
LEMMA ResultExact ==
  ASSUME RepeatsAreBound, RepeatsInPlace, IInv, CInv, [Next]_vars
  PROVE  ResultOK'
<1>1. CASE UNCHANGED vars
  <2>1. pc' = pc /\ result' = result /\ program' = program /\ db' = db /\ query' = query
    BY <1>1 DEF vars, given
  <2>2. Filtered(Meaning[query.pred])' = Filtered(Meaning[query.pred])
    BY <2>1 DEF Filtered, Meaning, ConstantPositions
  <2> QED
    BY <2>1, <2>2 DEF CInv, ResultOK
<1>2. CASE Finish
  <2>1. /\ pc = "running" /\ call = NoCall /\ tasks = << >> /\ ~(AnswerCount > total)
        /\ result' = Filtered(answers[QueryKey]) /\ program' = program /\ db' = db /\ query' = query
    BY <1>2 DEF Finish, RoundOver, ShouldRepeat, given
  <2>2. total \in Nat /\ AnswerCount \in Nat
    BY StableFacts DEF IInv, PcOK, Stable
  <2>3. AnswerCount = total
    BY <2>1, <2>2 DEF CInv, RoundInv
  <2>4. Seeds \subseteq ToSet(inputs[QueryKey]) /\ RoundOK(program, << >>, NoCall, inputs)
    BY <2>1, <2>3 DEF CInv, RoundInv
  <2>5. AllClosed(program, inputs)
    BY <2>4, RoundCloses DEF IInv
  <2>6. result' = Filtered(Meaning[query.pred])
    BY <2>1, <2>4, <2>5, ClosedIsExact
  <2>7. Filtered(Meaning[query.pred])' = Filtered(Meaning[query.pred])
    BY <2>1 DEF Filtered, Meaning, ConstantPositions
  <2> QED
    BY <2>6, <2>7 DEF ResultOK
<1>3. CASE Next /\ ~Finish
  <2>1. pc' # "done"
    BY <1>3 DEF Next, Start, RepeatRound, BeginRound, AskAgain, Evaluate, ProcessQuery, ProcessRule,
                ProcessRuleQuery, Pending, EvaluateRule, EvaluateAtom, JoinAtom
  <2> QED
    BY <2>1 DEF ResultOK
<1> QED
  BY <1>1, <1>2, <1>3

\* Where repeated variables are bound and compared in their places, a query is
\* answered with every answer the program means, and no other.  It is thrown out
\* only where a rule falls apart.
THEOREM Completeness ==
  ASSUME RepeatsAreBound, RepeatsInPlace
  PROVE  Spec => []TopDownExact
<1>1. Init => IInv /\ CInv
  <2> SUFFICES ASSUME Init PROVE CInv
    BY InitOK
  <2>1. pc = "start" /\ answers = [k \in Keys |-> {}]
    BY DEF Init
  <2>2. TableOK
    BY <2>1 DEF TableOK
  <2> QED
    BY <2>1, <2>2 DEF CInv, RoundInv, ResultOK, BrokenOK, Broken
<1>2. IInv /\ CInv /\ [Next]_vars => (IInv /\ CInv)'
  <2> SUFFICES ASSUME IInv, CInv, [Next]_vars PROVE IInv' /\ CInv'
    OBVIOUS
  <2>1. IInv'
    BY Inductive
  <2>2. RoundInv' /\ TableOK' /\ ResultOK' /\ BrokenOK'
    BY <2>1, RoundInvNext, ResultExact, BrokenKept DEF CInv
  <2> QED
    BY <2>1, <2>2 DEF CInv
<1>3. CInv => TopDownExact
  BY DEF CInv, ResultOK, BrokenOK, Broken, FallsApart, TopDownExact
<1> QED
  BY <1>1, <1>2, <1>3, PTL DEF Spec

=============================================================================
