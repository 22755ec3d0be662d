---------------------- MODULE TerminationChecks_proofs ----------------------
(***************************************************************************)
(* Proofs about the static checks for termination, for all programs and    *)
(* databases over any predicates: the state is well formed, the flag of    *)
(* the chase manager is exact, its search through nested terms ends, and   *)
(* ids can be read.                                                        *)
(***************************************************************************)
EXTENDS TerminationChecks, FiniteSetTheorems, SequenceTheorems, WellFoundedInduction, TLAPS

-----------------------------------------------------------------------------
(* Numbers and folds                                                       *)

\* A set of numbers has a least one.
LEMMA LeastNumber ==
  ASSUME NEW S, S \subseteq Nat, S # {}
  PROVE  \E m \in S : \A k \in S : m <= k
<1>1. PICK m \in S : \A k \in S : ~(<<k, m>> \in OpToRel(<, Nat))
  BY NatLessThanWellFounded, WFMin
<1>2. ASSUME NEW k \in S, k < m
      PROVE  FALSE
  <2> DEFINE ss == <<k, m>>
  <2>1. ss \in Nat \X Nat /\ ss[1] < ss[2]
    BY <1>2
  <2>2. ss \in OpToRel(<, Nat)
    BY <2>1 DEF OpToRel
  <2> QED
    BY <1>1, <2>2
<1> QED
  BY <1>2

\* Induction over 0 .. n.
LEMMA UpTo ==
  ASSUME NEW n \in Nat, NEW S, 0 \in S, \A k \in 1 .. n : k - 1 \in S => k \in S
  PROVE  0 .. n \subseteq S
<1>1. SUFFICES ASSUME (0 .. n) \ S # {}
               PROVE  FALSE
  OBVIOUS
<1> DEFINE rest == (0 .. n) \ S
<1>a. rest \subseteq Nat /\ rest # {}
  BY <1>1
<1>2. PICK m \in rest : \A k \in rest : m <= k
  <2> HIDE DEF rest
  <2> QED
    BY <1>a, LeastNumber
<1>3. m \in 1 .. n /\ m - 1 \in 0 .. n
  BY <1>2
<1>4. m - 1 \in S
  BY <1>2, <1>3
<1> QED
  BY <1>2, <1>3, <1>4

LEMMA MaxOfUpTo ==
  ASSUME NEW k \in Nat \ {0}
  PROVE  Max(1 .. k) = k /\ (1 .. k) \ {k} = 1 .. (k - 1) /\ 1 .. k # {}
<1>1. k \in 1 .. k /\ \A y \in 1 .. k : k >= y
  OBVIOUS
<1>2. \A x \in 1 .. k : (\A y \in 1 .. k : x >= y) => x = k
  BY <1>1
<1>3. Max(1 .. k) = k
  BY <1>1, <1>2 DEF Max
<1> QED
  BY <1>1, <1>3

LEMMA MaxOfSet ==
  ASSUME NEW n \in Nat, NEW S \in SUBSET (1 .. n), S # {}
  PROVE  Max(S) \in S /\ \A x \in S : x <= Max(S)
<1> DEFINE upper == { m \in Nat : \A x \in S : x <= m }
<1>1. n \in upper /\ upper \subseteq Nat
  OBVIOUS
<1>2. PICK m \in upper : \A k \in upper : m <= k
  BY <1>1, LeastNumber
<1>3. m \in S
  <2>1. ASSUME m \notin S
        PROVE  FALSE
    <3>0. PICK x \in S : TRUE
      OBVIOUS
    <3>1. x \in 1 .. n /\ x <= m /\ m \in Nat
      BY <1>2, <3>0
    <3>2. m - 1 \in Nat
      BY <3>1
    <3>3. \A y \in S : y <= m - 1
      <4> TAKE y \in S
      <4>1. y <= m /\ y # m /\ y \in Nat
        BY <1>2, <2>1
      <4> QED
        BY <4>1, <3>1
    <3> QED
      BY <1>2, <3>1, <3>2, <3>3
  <2> QED
    BY <2>1
<1>4. \A y \in S : m >= y
  BY <1>2
<1> QED
  BY <1>3, <1>4 DEF Max

\* G recurses over the subsets of 1 .. n by their greatest element, as FoldLeft does.
Recursion(G, n, base, seq, step) ==
  \A s \in SUBSET (1 .. n) :
    G[s] = IF s = {} THEN base ELSE step[<<G[s \ {Max(s)}], seq[Max(s)]>>]

LEMMA RecursionExists ==
  ASSUME NEW n \in Nat, NEW T, NEW B, NEW base \in T, NEW seq \in [1 .. n -> B],
         NEW step \in [T \X B -> T]
  PROVE  \E G \in [SUBSET (1 .. n) -> T] : Recursion(G, n, base, seq, step)
<1> DEFINE solved == { k \in 0 .. n : \E G \in [SUBSET (1 .. k) -> T] : Recursion(G, k, base, seq, step) }
<1>1. 0 \in solved
  <2> DEFINE G == [s \in SUBSET (1 .. 0) |-> base]
  <2>1. G \in [SUBSET (1 .. 0) -> T] /\ \A s \in SUBSET (1 .. 0) : s = {} /\ G[s] = base
    OBVIOUS
  <2>2. Recursion(G, 0, base, seq, step)
    <3> HIDE DEF G
    <3> QED
      BY <2>1 DEF Recursion
  <2>3. \E F \in [SUBSET (1 .. 0) -> T] : Recursion(F, 0, base, seq, step)
    BY <2>1, <2>2
  <2> QED
    <3> HIDE DEF G
    <3>1. 0 \in 0 .. n
      OBVIOUS
    <3> QED
      BY <2>3, <3>1, Zenon
<1>2. ASSUME NEW k \in 1 .. n, k - 1 \in solved
      PROVE  k \in solved
  <2>1. PICK G \in [SUBSET (1 .. (k - 1)) -> T] : Recursion(G, k - 1, base, seq, step)
    BY <1>2
  <2> DEFINE H == [s \in SUBSET (1 .. k) |->
                     IF k \in s THEN step[<<G[s \ {k}], seq[k]>>] ELSE G[s]]
  <2>2. k \in Nat /\ k <= n /\ \A s \in SUBSET (1 .. k) :
          /\ s \ {k} \in SUBSET (1 .. (k - 1))
          /\ k \notin s => s \in SUBSET (1 .. (k - 1))
    OBVIOUS
  <2>3. H \in [SUBSET (1 .. k) -> T]
    <3>1. \A s \in SUBSET (1 .. k) : <<G[s \ {k}], seq[k]>> \in T \X B
      BY <2>2
    <3> QED
      BY <2>2, <3>1
  <2>4. ASSUME NEW s \in SUBSET (1 .. k), s # {}
        PROVE  H[s] = step[<<H[s \ {Max(s)}], seq[Max(s)]>>]
    <3>1. Max(s) \in s /\ \A x \in s : x <= Max(s)
      BY <2>2, <2>4, MaxOfSet
    <3>2. CASE k \in s
      <4>1. Max(s) = k
        <5>1. PICK m \in s : m = Max(s)
          BY <3>1
        <5>2. m \in 1 .. k /\ k <= m
          BY <3>1, <3>2, <5>1
        <5> QED
          BY <5>1, <5>2, <2>2
      <4>2. s \ {k} \in SUBSET (1 .. k) /\ k \notin s \ {k}
        OBVIOUS
      <4>3. H[s \ {k}] = G[s \ {k}]
        BY <4>2
      <4>4. H[s] = step[<<G[s \ {k}], seq[k]>>]
        BY <3>2
      <4> QED
        BY <4>1, <4>3, <4>4
    <3>3. CASE k \notin s
      <4>1. s \in SUBSET (1 .. (k - 1)) /\ s \ {Max(s)} \in SUBSET (1 .. k)
        BY <2>2, <3>3
      <4>2. H[s] = G[s] /\ H[s \ {Max(s)}] = G[s \ {Max(s)}]
        BY <3>3, <4>1
      <4>3. G[s] = step[<<G[s \ {Max(s)}], seq[Max(s)]>>]
        BY <2>1, <2>4, <4>1 DEF Recursion
      <4> QED
        BY <4>2, <4>3
    <3> QED
      BY <3>2, <3>3
  <2>5. H[{}] = base
    <3>1. {} \in SUBSET (1 .. k) /\ {} \in SUBSET (1 .. (k - 1)) /\ k \notin {}
      OBVIOUS
    <3>2. H[{}] = G[{}]
      BY <3>1
    <3>3. G[{}] = base
      BY <2>1, <3>1 DEF Recursion
    <3> QED
      BY <3>2, <3>3
  <2>6. Recursion(H, k, base, seq, step)
    <3> HIDE DEF H
    <3> QED
      BY <2>4, <2>5 DEF Recursion
  <2>7. \E F \in [SUBSET (1 .. k) -> T] : Recursion(F, k, base, seq, step)
    <3> HIDE DEF H
    <3> QED
      BY <2>3, <2>6
  <2> QED
    <3> HIDE DEF H
    <3> QED
      BY <2>7
<1>3. 0 .. n \subseteq solved
  <2> HIDE DEF solved
  <2> QED
    BY <1>1, <1>2, UpTo
<1>4. n \in solved
  <2> HIDE DEF solved
  <2>1. n \in 0 .. n
    OBVIOUS
  <2> QED
    BY <1>3, <2>1
<1> QED
  BY <1>4

\* g has the results of a fold, up to each element.
Folds(g, n, base, seq, step, end) ==
  /\ g[0] = base /\ g[n] = end
  /\ \A k \in 1 .. n : g[k] = step[<<g[k - 1], seq[k]>>]

\* A fold, step by step: iter folds over the subsets of 1 .. n.
LEMMA FoldSteps ==
  ASSUME NEW n \in Nat, NEW T, NEW B, NEW base \in T, NEW seq \in [1 .. n -> B],
         NEW step \in [T \X B -> T], NEW iter, iter[{}] = base,
         \A k \in 1 .. n : iter[1 .. (k - 1)] \in T =>
                            iter[1 .. k] = step[<<iter[1 .. (k - 1)], seq[k]>>]
  PROVE  \E g \in [0 .. n -> T] : Folds(g, n, base, seq, step, iter[1 .. n])
<1> DEFINE g == [k \in 0 .. n |-> iter[1 .. k]]
<1>1. \A k \in 0 .. n : g[k] = iter[1 .. k]
  OBVIOUS
<1>2. g[0] = base
  <2>1. 0 \in 0 .. n /\ 1 .. 0 = {}
    OBVIOUS
  <2> QED
    BY <1>1, <2>1
<1>3. \A k \in 1 .. n : k \in 0 .. n /\ k - 1 \in 0 .. n
  OBVIOUS
<1>4. \A k \in 1 .. n : g[k - 1] \in T => g[k] = step[<<g[k - 1], seq[k]>>]
  <2> HIDE DEF g
  <2> QED
    BY <1>1, <1>3
<1>5. \A k \in 0 .. n : g[k] \in T
  <2> DEFINE typed == { k \in 0 .. n : g[k] \in T }
  <2> HIDE DEF g
  <2>1. 0 \in typed
    BY <1>2
  <2>2. \A k \in 1 .. n : k - 1 \in typed => k \in typed
    <3> TAKE k \in 1 .. n
    <3> HAVE k - 1 \in typed
    <3>1. <<g[k - 1], seq[k]>> \in T \X B
      OBVIOUS
    <3> QED
      BY <1>3, <1>4, <3>1
  <2>3. 0 .. n \subseteq typed
    <3> HIDE DEF typed
    <3> QED
      BY <2>1, <2>2, UpTo
  <2> QED
    BY <2>3
<1>6. g \in [0 .. n -> T] /\ g[n] = iter[1 .. n]
  <2>1. n \in 0 .. n
    OBVIOUS
  <2> QED
    BY <1>1, <1>5, <2>1
<1> QED
  <2> HIDE DEF g
  <2> QED
    BY <1>2, <1>3, <1>4, <1>5, <1>6 DEF Folds

-----------------------------------------------------------------------------
(* Sequences                                                               *)

LEMMA AppendFacts ==
  ASSUME NEW T, NEW h \in Seq(T), NEW x \in T
  PROVE  /\ ToSet(Append(h, x)) = ToSet(h) \cup {x}
         /\ Len(Append(h, x)) = Len(h) + 1 /\ Len(h) \in Nat
         /\ Append(h, x) \in Seq(T)
<1> DEFINE f == Append(h, x)
<1>1. /\ DOMAIN f = 1 .. Len(h) + 1 /\ Len(h) \in Nat /\ f[Len(h) + 1] = x
      /\ DOMAIN h = 1 .. Len(h) /\ \A i \in 1 .. Len(h) : f[i] = h[i]
      /\ Len(f) = Len(h) + 1 /\ f \in Seq(T)
  OBVIOUS
<1> HIDE DEF f
<1>2. ToSet(f) = { f[i] : i \in 1 .. Len(h) + 1 } /\ ToSet(h) = { f[i] : i \in 1 .. Len(h) }
  BY <1>1 DEF ToSet
<1>3. 1 .. Len(h) + 1 = (1 .. Len(h)) \cup {Len(h) + 1}
  BY <1>1
<1>4. ToSet(f) = ToSet(h) \cup {f[Len(h) + 1]}
  BY <1>2, <1>3
<1> QED
  BY <1>1, <1>4 DEF f

LEMMA SeqIn ==
  ASSUME NEW T, NEW s \in Seq(T), NEW S, \A i \in DOMAIN s : s[i] \in S
  PROVE  s \in Seq(S)
<1>1. DOMAIN s = 1 .. Len(s) /\ Len(s) \in Nat /\ s = [i \in 1 .. Len(s) |-> s[i]]
  OBVIOUS
<1>2. \A i \in 1 .. Len(s) : s[i] \in S
  BY <1>1
<1> QED
  BY <1>1, <1>2

LEMMA TupleIn ==
  ASSUME NEW n \in Nat, NEW T, NEW f \in [1 .. n -> T]
  PROVE  f \in Seq(T)
OBVIOUS

\* Unique, element by element.
UniqueRun(g, s) ==
  /\ g[0] = << >> /\ g[Len(s)] = Unique(s)
  /\ \A k \in 1 .. Len(s) : g[k] = IF Contains(g[k - 1], s[k]) THEN g[k - 1] ELSE Append(g[k - 1], s[k])

LEMMA UniqueSteps ==
  ASSUME NEW T0, NEW s \in Seq(T0)
  PROVE  \E g \in [0 .. Len(s) -> Seq(T0)] : UniqueRun(g, s)
<1> DEFINE T == Seq(T0)
           B == T0
           op(a, x) == IF Contains(a, x) THEN a ELSE Append(a, x)
           step == [z \in T \X B |-> op(z[1], z[2])]
<1>1. PICK n \in Nat : n = Len(s)
  OBVIOUS
<1>2. DOMAIN s = 1 .. n /\ s \in [1 .. n -> B] /\ << >> \in T
  BY <1>1
<1>3. ASSUME NEW a \in T, NEW x \in B
      PROVE  op(a, x) \in T
  OBVIOUS
<1> HIDE DEF op, T, B
<1>4. step \in [T \X B -> T]
  BY <1>3
<1>5. \A a \in T, x \in B : step[<<a, x>>] = op(a, x)
  <2> TAKE a \in T, x \in B
  <2>1. PICK z \in T \X B : z = <<a, x>>
    OBVIOUS
  <2> QED
    BY <2>1
<1> HIDE DEF step
<1>6. PICK G \in [SUBSET (1 .. n) -> T] : Recursion(G, n, << >>, s, step)
  BY <1>2, <1>4, RecursionExists
<1> DEFINE Body(iter) == [d \in SUBSET (1 .. n) |->
                            IF d = {} THEN << >> ELSE op(iter[d \ {Max(d)}], s[Max(d)])]
<1>7. \A d \in SUBSET (1 .. n) : G[d] = Body(G)[d]
  <2> TAKE d \in SUBSET (1 .. n)
  <2>1. CASE d = {}
    BY <1>6, <2>1 DEF Recursion
  <2>2. CASE d # {}
    <3>1. Max(d) \in 1 .. n /\ d \ {Max(d)} \in SUBSET (1 .. n)
      BY <2>2, MaxOfSet
    <3>2. s[Max(d)] \in B /\ G[d \ {Max(d)}] \in T
      BY <3>1, <1>2
    <3>3. step[<<G[d \ {Max(d)}], s[Max(d)]>>] = op(G[d \ {Max(d)}], s[Max(d)])
      BY <1>5, <3>2
    <3> QED
      BY <1>6, <2>2, <3>3 DEF Recursion
  <2> QED
    BY <2>1, <2>2
<1>8. G = Body(G)
  <2>1. DOMAIN G = DOMAIN Body(G)
    OBVIOUS
  <2> QED
    BY <1>7
<1>9. Unique(s) = (CHOOSE iter : iter = Body(iter))[1 .. n]
  <2>1. DOMAIN s = 1 .. n
    BY <1>2
  <2> QED
    BY <2>1 DEF Unique, FoldLeft, MapThenFoldSet, op
<1>10. PICK iter : iter = Body(iter) /\ Unique(s) = iter[1 .. n]
  <2> HIDE DEF Body
  <2> QED
    BY <1>8, <1>9
<1>11. iter[{}] = << >>
  <2>1. {} \in SUBSET (1 .. n)
    OBVIOUS
  <2> QED
    BY <1>10, <2>1
<1>12. ASSUME NEW k \in 1 .. n
       PROVE  iter[1 .. k] = op(iter[1 .. (k - 1)], s[k])
  <2>1. k \in Nat \ {0} /\ 1 .. k \in SUBSET (1 .. n)
    BY <1>1
  <2>2. Max(1 .. k) = k /\ (1 .. k) \ {k} = 1 .. (k - 1) /\ 1 .. k # {}
    BY <2>1, MaxOfUpTo
  <2> QED
    BY <1>10, <2>1, <2>2
<1>13. PICK g \in [0 .. n -> T] : Folds(g, n, << >>, s, step, iter[1 .. n])
  <2>1. \A k \in 1 .. n : iter[1 .. (k - 1)] \in T =>
          iter[1 .. k] = step[<<iter[1 .. (k - 1)], s[k]>>]
    BY <1>2, <1>5, <1>12
  <2> HIDE DEF Body
  <2> QED
    BY <1>2, <1>4, <1>11, <2>1, FoldSteps
<1>14. \A k \in 1 .. n : g[k] = op(g[k - 1], s[k])
  <2> TAKE k \in 1 .. n
  <2>1. g[k - 1] \in T /\ s[k] \in B
    BY <1>2
  <2> QED
    BY <1>5, <1>13, <2>1 DEF Folds
<1>15. g[0] = << >> /\ g[n] = Unique(s)
  BY <1>10, <1>13 DEF Folds
<1>16. UniqueRun(g, s)
  BY <1>1, <1>14, <1>15 DEF op, UniqueRun
<1>17. g \in [0 .. Len(s) -> Seq(T0)]
  BY <1>1 DEF T
<1> QED
  BY <1>16, <1>17

\* Unique has the elements of s.
LEMMA UniqueFacts ==
  ASSUME NEW T, NEW s \in Seq(T)
  PROVE  Unique(s) \in Seq(T) /\ ToSet(Unique(s)) = ToSet(s)
<1>1. PICK n \in Nat : n = Len(s) /\ DOMAIN s = 1 .. n /\ s \in [1 .. n -> T]
  OBVIOUS
<1>2. PICK g \in [0 .. n -> Seq(T)] :
        /\ g[0] = << >> /\ g[n] = Unique(s)
        /\ \A k \in 1 .. n : g[k] = IF Contains(g[k - 1], s[k]) THEN g[k - 1]
                                    ELSE Append(g[k - 1], s[k])
  <2>1. PICK g \in [0 .. Len(s) -> Seq(T)] : UniqueRun(g, s)
    BY UniqueSteps
  <2> QED
    BY <1>1, <2>1 DEF UniqueRun
<1> DEFINE up(k) == { s[i] : i \in 1 .. k }
           done == { k \in 0 .. n : ToSet(g[k]) = up(k) }
<1>3. 0 \in done
  BY <1>2 DEF ToSet
<1>4. \A k \in 1 .. n : k - 1 \in done => k \in done
  <2> TAKE k \in 1 .. n
  <2> HAVE k - 1 \in done
  <2>1. PICK h \in Seq(T) : h = g[k - 1] /\ ToSet(h) = up(k - 1)
    BY <1>2
  <2>2. PICK x \in T : x = s[k] /\ k \in 0 .. n
    BY <1>1
  <2>3. up(k) = up(k - 1) \cup {x}
    BY <2>2
  <2>4. CASE Contains(h, x)
    <3>1. g[k] = h
      BY <1>2, <2>1, <2>2, <2>4
    <3>2. x \in ToSet(h)
      <4>1. DOMAIN h = 1 .. Len(h)
        OBVIOUS
      <4> QED
        BY <2>4, <4>1 DEF Contains, ToSet
    <3> HIDE DEF up
    <3> QED
      BY <2>1, <2>2, <2>3, <3>1, <3>2
  <2>5. CASE ~Contains(h, x)
    <3>1. g[k] = Append(h, x)
      BY <1>2, <2>1, <2>2, <2>5
    <3>2. ToSet(Append(h, x)) = ToSet(h) \cup {x}
      BY AppendFacts
    <3> HIDE DEF up
    <3> QED
      BY <2>1, <2>2, <2>3, <3>1, <3>2
  <2> QED
    BY <2>4, <2>5
<1>5. 0 .. n \subseteq done
  <2> HIDE DEF done
  <2> QED
    BY <1>3, <1>4, UpTo
<1>6. ToSet(g[n]) = up(n)
  BY <1>5
<1>7. g[n] \in Seq(T)
  BY <1>2
<1>8. ToSet(s) = up(n)
  BY <1>1 DEF ToSet
<1> QED
  <2> HIDE DEF up
  <2> QED
    BY <1>2, <1>6, <1>7, <1>8

\* Selected, element by element.
SelectedRun(g, s, S) ==
  /\ g[0] = << >> /\ g[Len(s)] = Selected(s, S)
  /\ \A k \in 1 .. Len(s) : g[k] = IF s[k] \in S THEN Append(g[k - 1], s[k]) ELSE g[k - 1]

LEMMA SelectedSteps ==
  ASSUME NEW T0, NEW s \in Seq(T0), NEW S
  PROVE  \E g \in [0 .. Len(s) -> Seq(T0)] : SelectedRun(g, s, S)
<1> DEFINE T == Seq(T0)
           B == T0
           op(a, x) == IF x \in S THEN Append(a, x) ELSE a
           step == [z \in T \X B |-> op(z[1], z[2])]
<1>1. PICK n \in Nat : n = Len(s)
  OBVIOUS
<1>2. DOMAIN s = 1 .. n /\ s \in [1 .. n -> B] /\ << >> \in T
  BY <1>1
<1>3. ASSUME NEW a \in T, NEW x \in B
      PROVE  op(a, x) \in T
  OBVIOUS
<1> HIDE DEF op, T, B
<1>4. step \in [T \X B -> T]
  BY <1>3
<1>5. \A a \in T, x \in B : step[<<a, x>>] = op(a, x)
  <2> TAKE a \in T, x \in B
  <2>1. PICK z \in T \X B : z = <<a, x>>
    OBVIOUS
  <2> QED
    BY <2>1
<1> HIDE DEF step
<1>6. PICK G \in [SUBSET (1 .. n) -> T] : Recursion(G, n, << >>, s, step)
  BY <1>2, <1>4, RecursionExists
<1> DEFINE Body(iter) == [d \in SUBSET (1 .. n) |->
                            IF d = {} THEN << >> ELSE op(iter[d \ {Max(d)}], s[Max(d)])]
<1>7. \A d \in SUBSET (1 .. n) : G[d] = Body(G)[d]
  <2> TAKE d \in SUBSET (1 .. n)
  <2>1. CASE d = {}
    BY <1>6, <2>1 DEF Recursion
  <2>2. CASE d # {}
    <3>1. Max(d) \in 1 .. n /\ d \ {Max(d)} \in SUBSET (1 .. n)
      BY <2>2, MaxOfSet
    <3>2. s[Max(d)] \in B /\ G[d \ {Max(d)}] \in T
      BY <3>1, <1>2
    <3>3. step[<<G[d \ {Max(d)}], s[Max(d)]>>] = op(G[d \ {Max(d)}], s[Max(d)])
      BY <1>5, <3>2
    <3> QED
      BY <1>6, <2>2, <3>3 DEF Recursion
  <2> QED
    BY <2>1, <2>2
<1>8. G = Body(G)
  <2>1. DOMAIN G = DOMAIN Body(G)
    OBVIOUS
  <2> QED
    BY <1>7
<1>9. Selected(s, S) = (CHOOSE iter : iter = Body(iter))[1 .. n]
  <2>1. DOMAIN s = 1 .. n
    BY <1>2
  <2> QED
    BY <2>1 DEF Selected, FoldLeft, MapThenFoldSet, op
<1>10. PICK iter : iter = Body(iter) /\ Selected(s, S) = iter[1 .. n]
  <2> HIDE DEF Body
  <2> QED
    BY <1>8, <1>9
<1>11. iter[{}] = << >>
  <2>1. {} \in SUBSET (1 .. n)
    OBVIOUS
  <2> QED
    BY <1>10, <2>1
<1>12. ASSUME NEW k \in 1 .. n
       PROVE  iter[1 .. k] = op(iter[1 .. (k - 1)], s[k])
  <2>1. k \in Nat \ {0} /\ 1 .. k \in SUBSET (1 .. n)
    BY <1>1
  <2>2. Max(1 .. k) = k /\ (1 .. k) \ {k} = 1 .. (k - 1) /\ 1 .. k # {}
    BY <2>1, MaxOfUpTo
  <2> QED
    BY <1>10, <2>1, <2>2
<1>13. PICK g \in [0 .. n -> T] : Folds(g, n, << >>, s, step, iter[1 .. n])
  <2>1. \A k \in 1 .. n : iter[1 .. (k - 1)] \in T =>
          iter[1 .. k] = step[<<iter[1 .. (k - 1)], s[k]>>]
    BY <1>2, <1>5, <1>12
  <2> HIDE DEF Body
  <2> QED
    BY <1>2, <1>4, <1>11, <2>1, FoldSteps
<1>14. \A k \in 1 .. n : g[k] = op(g[k - 1], s[k])
  <2> TAKE k \in 1 .. n
  <2>1. g[k - 1] \in T /\ s[k] \in B
    BY <1>2
  <2> QED
    BY <1>5, <1>13, <2>1 DEF Folds
<1>15. g[0] = << >> /\ g[n] = Selected(s, S)
  BY <1>10, <1>13 DEF Folds
<1>16. SelectedRun(g, s, S)
  BY <1>1, <1>14, <1>15 DEF op, SelectedRun
<1>17. g \in [0 .. Len(s) -> Seq(T0)]
  BY <1>1 DEF T
<1> QED
  BY <1>16, <1>17

\* Selected has the elements of s in S, at most as often.
LEMMA SelectedFacts ==
  ASSUME NEW T, NEW s \in Seq(T), NEW S
  PROVE  /\ Selected(s, S) \in Seq(T) /\ Selected(s, S) \in Seq(S)
         /\ ToSet(Selected(s, S)) = ToSet(s) \cap S
         /\ Len(Selected(s, S)) <= Len(s)
<1>1. PICK n \in Nat : n = Len(s) /\ DOMAIN s = 1 .. n /\ s \in [1 .. n -> T]
  OBVIOUS
<1>2. PICK g \in [0 .. n -> Seq(T)] :
        /\ g[0] = << >> /\ g[n] = Selected(s, S)
        /\ \A k \in 1 .. n : g[k] = IF s[k] \in S THEN Append(g[k - 1], s[k]) ELSE g[k - 1]
  <2>1. PICK g \in [0 .. Len(s) -> Seq(T)] : SelectedRun(g, s, S)
    BY SelectedSteps
  <2> QED
    BY <1>1, <2>1 DEF SelectedRun
<1> DEFINE up(k) == { s[i] : i \in 1 .. k }
           done == { k \in 0 .. n : ToSet(g[k]) = up(k) \cap S /\ Len(g[k]) <= k }
<1>3. 0 \in done
  BY <1>2 DEF ToSet
<1>4. \A k \in 1 .. n : k - 1 \in done => k \in done
  <2> TAKE k \in 1 .. n
  <2> HAVE k - 1 \in done
  <2>1. PICK h \in Seq(T) : h = g[k - 1] /\ ToSet(h) = up(k - 1) \cap S /\ Len(h) <= k - 1
    BY <1>2
  <2>2. PICK x \in T : x = s[k] /\ k \in 0 .. n
    BY <1>1
  <2>3. up(k) = up(k - 1) \cup {x}
    BY <2>2
  <2>4. CASE x \in S
    <3>1. g[k] = Append(h, x)
      BY <1>2, <2>1, <2>2, <2>4
    <3>2. ToSet(Append(h, x)) = ToSet(h) \cup {x} /\ Len(Append(h, x)) = Len(h) + 1 /\ Len(h) \in Nat
      BY <2>2, AppendFacts
    <3> HIDE DEF up
    <3>3. ToSet(g[k]) = up(k) \cap S
      BY <2>1, <2>3, <2>4, <3>1, <3>2
    <3>4. Len(g[k]) <= k
      BY <2>1, <3>1, <3>2
    <3> QED
      BY <2>2, <3>3, <3>4
  <2>5. CASE x \notin S
    <3>1. g[k] = h
      BY <1>2, <2>1, <2>2, <2>5
    <3> HIDE DEF up
    <3> QED
      BY <2>1, <2>2, <2>3, <2>5, <3>1
  <2> QED
    BY <2>4, <2>5
<1>5. 0 .. n \subseteq done
  <2> HIDE DEF done
  <2> QED
    BY <1>3, <1>4, UpTo
<1>6. ToSet(g[n]) = up(n) \cap S /\ Len(g[n]) <= n
  BY <1>5
<1>7. g[n] \in Seq(T)
  BY <1>2
<1>8. ToSet(s) = up(n)
  BY <1>1 DEF ToSet
<1> QED
  <2> HIDE DEF up
  <2> QED
    <3>1. g[n] \in Seq(S)
      <4>1. PICK h \in Seq(T) : h = g[n]
        BY <1>7
      <4>2. \A i \in DOMAIN h : h[i] \in ToSet(h)
        BY DEF ToSet
      <4>3. ToSet(h) \subseteq S
        BY <1>6, <4>1
      <4>4. h \in Seq(S)
        BY <4>2, <4>3, SeqIn
      <4> QED
        BY <4>1, <4>4
    <3> QED
      BY <1>1, <1>2, <1>6, <1>7, <1>8, <3>1

\* A fold by a function exists.
LEMMA RunExists ==
  ASSUME NEW n \in Nat, NEW T, NEW B, NEW base \in T, NEW seq \in [1 .. n -> B],
         NEW step \in [T \X B -> T]
  PROVE  \E g \in [0 .. n -> T] : Folds(g, n, base, seq, step, g[n])
<1>1. PICK G \in [SUBSET (1 .. n) -> T] : Recursion(G, n, base, seq, step)
  BY RecursionExists
<1>2. G[{}] = base
  <2>1. {} \in SUBSET (1 .. n)
    OBVIOUS
  <2> QED
    BY <1>1, <2>1 DEF Recursion
<1>3. \A k \in 1 .. n : G[1 .. k] = step[<<G[1 .. (k - 1)], seq[k]>>]
  <2> TAKE k \in 1 .. n
  <2>1. k \in Nat \ {0} /\ 1 .. k \in SUBSET (1 .. n)
    OBVIOUS
  <2>2. Max(1 .. k) = k /\ (1 .. k) \ {k} = 1 .. (k - 1) /\ 1 .. k # {}
    BY <2>1, MaxOfUpTo
  <2> QED
    BY <1>1, <2>1, <2>2 DEF Recursion
<1>4. PICK g \in [0 .. n -> T] : Folds(g, n, base, seq, step, G[1 .. n])
  BY <1>2, <1>3, FoldSteps
<1> QED
  BY <1>4 DEF Folds

LEMMA ConcatFacts ==
  ASSUME NEW T, NEW s \in Seq(T), NEW t \in Seq(T)
  PROVE  s \o t \in Seq(T) /\ ToSet(s \o t) = ToSet(s) \cup ToSet(t)
<1> DEFINE f == s \o t
<1>1. /\ DOMAIN f = 1 .. Len(s) + Len(t) /\ Len(s) \in Nat /\ Len(t) \in Nat /\ f \in Seq(T)
      /\ DOMAIN s = 1 .. Len(s) /\ DOMAIN t = 1 .. Len(t)
      /\ \A i \in 1 .. Len(s) : f[i] = s[i]
      /\ \A i \in 1 .. Len(t) : f[Len(s) + i] = t[i]
  OBVIOUS
<1> HIDE DEF f
<1>2. ToSet(f) \subseteq ToSet(s) \cup ToSet(t)
  <2> SUFFICES ASSUME NEW i \in DOMAIN f
               PROVE  f[i] \in ToSet(s) \cup ToSet(t)
    BY DEF ToSet
  <2>1. CASE i <= Len(s)
    BY <1>1, <2>1 DEF ToSet
  <2>2. CASE ~(i <= Len(s))
    <3>1. i - Len(s) \in 1 .. Len(t) /\ i = Len(s) + (i - Len(s))
      BY <1>1, <2>2
    <3>2. f[i] = t[i - Len(s)]
      BY <1>1, <3>1
    <3> QED
      BY <1>1, <3>1, <3>2 DEF ToSet
  <2> QED
    BY <2>1, <2>2
<1>3. ToSet(s) \subseteq ToSet(f)
  BY <1>1 DEF ToSet
<1>4. ToSet(t) \subseteq ToSet(f)
  <2> SUFFICES ASSUME NEW i \in 1 .. Len(t)
               PROVE  t[i] \in ToSet(f)
    BY <1>1 DEF ToSet
  <2>1. Len(s) + i \in DOMAIN f /\ f[Len(s) + i] = t[i]
    BY <1>1
  <2> QED
    BY <2>1 DEF ToSet
<1> QED
  BY <1>1, <1>2, <1>3, <1>4 DEF f

\* FlattenSeq, sequence by sequence.
FlattenRun(g, seqs) ==
  /\ g[1] = seqs[1]
  /\ \A i \in 2 .. Len(seqs) : g[i] = g[i - 1] \o seqs[i]

LEMMA FlattenSteps ==
  ASSUME NEW T, NEW seqs \in Seq(Seq(T)), seqs # << >>
  PROVE  \E g : FlattenRun(g, seqs) /\ FlattenSeq(seqs) = g[Len(seqs)]
<1>1. PICK L \in Nat \ {0} : L = Len(seqs) /\ DOMAIN seqs = 1 .. L /\ \A i \in 1 .. L : seqs[i] \in Seq(T)
  OBVIOUS
<1> DEFINE M == L - 1
           U == Seq(T)
           rest == [k \in 1 .. M |-> seqs[k + 1]]
           step == [p \in U \X U |-> p[1] \o p[2]]
           Body(f) == [i \in 1 .. L |-> IF i = 1 THEN seqs[i] ELSE f[i - 1] \o seqs[i]]
<1>2. M \in Nat /\ seqs[1] \in U /\ rest \in [1 .. M -> U]
  <2>1. M \in Nat /\ 1 \in 1 .. L /\ \A k \in 1 .. M : k + 1 \in 1 .. L
    BY <1>1
  <2> QED
    BY <1>1, <2>1
<1>3. step \in [U \X U -> U]
  <2>1. \A s \in U, t \in U : s \o t \in U
    BY ConcatFacts
  <2> HIDE DEF U
  <2> QED
    BY <2>1
<1>4. \A s \in U, t \in U : step[<<s, t>>] = s \o t
  <2> HIDE DEF U
  <2> TAKE s \in U, t \in U
  <2>1. PICK z \in U \X U : z = <<s, t>>
    OBVIOUS
  <2> QED
    BY <2>1
<1>5. PICK g \in [0 .. M -> U] : Folds(g, M, seqs[1], rest, step, g[M])
  <2> HIDE DEF M, U, rest, step
  <2> QED
    BY <1>2, <1>3, RunExists
<1>6. g[0] = seqs[1]
  BY <1>5 DEF Folds
<1>7. \A k \in 1 .. M : g[k] = g[k - 1] \o seqs[k + 1]
  <2> TAKE k \in 1 .. M
  <2>1. k - 1 \in 0 .. M /\ k + 1 \in 1 .. L
    BY <1>1
  <2>2. g[k - 1] \in U /\ rest[k] = seqs[k + 1] /\ seqs[k + 1] \in U
    BY <1>1, <2>1
  <2>3. g[k] = step[<<g[k - 1], rest[k]>>]
    <3> HIDE DEF M, U, rest, step
    <3> QED
      BY <1>5 DEF Folds
  <2> HIDE DEF M, U, rest, step
  <2> QED
    BY <1>4, <2>2, <2>3
<1> DEFINE F == [i \in 1 .. L |-> g[i - 1]]
<1>8. \A i \in 1 .. L : F[i] = Body(F)[i]
  <2> TAKE i \in 1 .. L
  <2>1. CASE i = 1
    BY <1>6, <2>1
  <2>2. CASE i # 1
    <3>1. i - 1 \in 1 .. M /\ i - 1 \in 1 .. L /\ (i - 1) + 1 = i
      BY <1>1, <2>2
    <3>2. g[i - 1] = g[(i - 1) - 1] \o seqs[(i - 1) + 1]
      BY <1>7, <3>1
    <3>3. F[i] = g[i - 1] /\ F[i - 1] = g[(i - 1) - 1]
      BY <3>1
    <3>4. F[i] = F[i - 1] \o seqs[i]
      BY <3>1, <3>2, <3>3
    <3> HIDE DEF F
    <3> QED
      BY <2>2, <3>4
  <2> QED
    BY <2>1, <2>2
<1>9. F = Body(F)
  <2>1. F = [i \in 1 .. L |-> F[i]] /\ Body(F) = [i \in 1 .. L |-> Body(F)[i]]
    OBVIOUS
  <2> HIDE DEF F, Body
  <2> QED
    BY <1>8, <2>1
<1>10. FlattenSeq(seqs) = (CHOOSE f : f = Body(f))[Len(seqs)]
  BY <1>1 DEF FlattenSeq
<1>11. PICK f : f = Body(f) /\ FlattenSeq(seqs) = f[Len(seqs)]
  <2> HIDE DEF Body, F
  <2> QED
    BY <1>9, <1>10
<1>12. FlattenRun(f, seqs)
  <2>1. f[1] = seqs[1]
    <3>1. 1 \in 1 .. L
      BY <1>1
    <3> QED
      BY <1>11, <3>1
  <2>2. ASSUME NEW i \in 2 .. Len(seqs)
        PROVE  f[i] = f[i - 1] \o seqs[i]
    <3>1. i \in 1 .. L /\ i # 1
      BY <1>1
    <3> QED
      BY <1>11, <3>1
  <2> QED
    BY <2>1, <2>2 DEF FlattenRun
<1> QED
  BY <1>11, <1>12

\* FlattenSeq has the elements of all the sequences.
LEMMA FlattenFacts ==
  ASSUME NEW T, NEW seqs \in Seq(Seq(T))
  PROVE  /\ FlattenSeq(seqs) \in Seq(T)
         /\ ToSet(FlattenSeq(seqs)) = UNION { ToSet(seqs[i]) : i \in DOMAIN seqs }
<1>1. PICK L \in Nat : L = Len(seqs) /\ DOMAIN seqs = 1 .. L /\ \A i \in 1 .. L : seqs[i] \in Seq(T)
  OBVIOUS
<1>2. CASE seqs = << >>
  <2>1. FlattenSeq(seqs) = << >>
    BY <1>2 DEF FlattenSeq
  <2>2. ToSet(<< >>) = {} /\ << >> \in Seq(T) /\ DOMAIN << >> = {}
    BY DEF ToSet
  <2> QED
    BY <1>2, <2>1, <2>2
<1>3. CASE seqs # << >>
  <2>1. PICK g : FlattenRun(g, seqs) /\ FlattenSeq(seqs) = g[L]
    BY <1>1, <1>3, FlattenSteps
  <2>2. L # 0
    BY <1>1, <1>3
  <2> DEFINE up(k) == UNION { ToSet(seqs[i]) : i \in 1 .. k }
             done == { k \in 0 .. L : k # 0 => g[k] \in Seq(T) /\ ToSet(g[k]) = up(k) }
  <2>3. 0 \in done
    BY <2>2
  <2>4. \A k \in 1 .. L : k - 1 \in done => k \in done
    <3> TAKE k \in 1 .. L
    <3> HAVE k - 1 \in done
    <3>1. seqs[k] \in Seq(T) /\ k \in 0 .. L
      BY <1>1
    <3>2. CASE k = 1
      <4>1. g[k] = seqs[k] /\ up(k) = ToSet(seqs[k])
        BY <2>1, <3>2 DEF FlattenRun
      <4> HIDE DEF up
      <4> QED
        BY <3>1, <4>1
    <3>3. CASE k # 1
      <4>1. k \in 2 .. L /\ k - 1 # 0
        BY <3>3
      <4>2. g[k] = g[k - 1] \o seqs[k]
        BY <1>1, <2>1, <4>1 DEF FlattenRun
      <4>3. g[k - 1] \in Seq(T) /\ ToSet(g[k - 1]) = up(k - 1)
        BY <4>1
      <4>4. g[k] \in Seq(T) /\ ToSet(g[k]) = up(k - 1) \cup ToSet(seqs[k])
        <5> HIDE DEF up
        <5> QED
          BY <3>1, <4>2, <4>3, ConcatFacts
      <4>5. up(k) = up(k - 1) \cup ToSet(seqs[k])
        <5>1. 1 .. k = (1 .. (k - 1)) \cup {k}
          OBVIOUS
        <5> QED
          BY <5>1
      <4> HIDE DEF up
      <4> QED
        BY <3>1, <4>4, <4>5
    <3> QED
      BY <3>2, <3>3
  <2>5. 0 .. L \subseteq done
    <3> HIDE DEF done
    <3> QED
      BY <2>3, <2>4, UpTo
  <2>6. g[L] \in Seq(T) /\ ToSet(g[L]) = up(L)
    <3>1. L \in done
      <4> HIDE DEF done
      <4> QED
        BY <2>5
    <3> HIDE DEF up
    <3> QED
      BY <2>2, <3>1
  <2> QED
    BY <1>1, <2>1, <2>6
<1> QED
  BY <1>2, <1>3

-----------------------------------------------------------------------------
(* What can be reached along edges, a set of pairs of numbers              *)

Closed(E, C) == \A e \in E : e[1] \in C => e[2] \in C

Reached(E, X) == { u \in Nat : \A C \in SUBSET Nat : X \subseteq C /\ Closed(E, C) => u \in C }

Children(E, t) == { e[2] : e \in { e \in E : e[1] = t } }

Below(E, t) == Reached(E, Children(E, t))

Acyclic(E) == \A t \in Nat : t \notin Below(E, t)

Edges(E) == E \in SUBSET (Nat \X Nat)

LEMMA EdgeFacts ==
  ASSUME NEW E, Edges(E)
  PROVE  /\ \A e \in E : e[1] \in Nat /\ e[2] \in Nat /\ e = <<e[1], e[2]>>
         /\ \A t : Children(E, t) \subseteq Nat
<1>1. \A e \in E : e \in Nat \X Nat
  BY DEF Edges
<1>2. \A e \in E : e[1] \in Nat /\ e[2] \in Nat /\ e = <<e[1], e[2]>>
  BY <1>1
<1> QED
  BY <1>2 DEF Children

\* The least closed set.
LEMMA ReachedFacts ==
  ASSUME NEW E, Edges(E), NEW X \in SUBSET Nat
  PROVE  /\ X \subseteq Reached(E, X) /\ Closed(E, Reached(E, X))
         /\ Reached(E, X) \subseteq Nat
<1>1. \A e \in E : e[1] \in Nat /\ e[2] \in Nat
  BY EdgeFacts
<1>2. X \subseteq Reached(E, X) /\ Reached(E, X) \subseteq Nat
  BY DEF Reached
<1>3. ASSUME NEW e \in E, e[1] \in Reached(E, X)
      PROVE  e[2] \in Reached(E, X)
  <2>1. ASSUME NEW C \in SUBSET Nat, X \subseteq C, Closed(E, C)
        PROVE  e[2] \in C
    <3>1. e[1] \in C
      BY <1>3, <2>1 DEF Reached
    <3> QED
      BY <2>1, <3>1 DEF Closed
  <2> QED
    BY <1>1, <2>1 DEF Reached
<1> QED
  BY <1>2, <1>3 DEF Closed

LEMMA ReachedLeast ==
  ASSUME NEW E, NEW X, NEW C \in SUBSET Nat, X \subseteq C, Closed(E, C)
  PROVE  Reached(E, X) \subseteq C
BY DEF Reached

LEMMA ReachedMonotone ==
  ASSUME NEW E, Edges(E), NEW F, Edges(F), E \subseteq F,
         NEW Y \in SUBSET Nat, NEW X, X \subseteq Y
  PROVE  Reached(E, X) \subseteq Reached(F, Y)
<1>1. /\ Y \subseteq Reached(F, Y) /\ Closed(F, Reached(F, Y)) /\ Reached(F, Y) \in SUBSET Nat
  BY ReachedFacts
<1>2. Closed(E, Reached(F, Y))
  BY <1>1 DEF Closed
<1> QED
  BY <1>1, <1>2, ReachedLeast

LEMMA ReachedTransitive ==
  ASSUME NEW E, Edges(E), NEW Y \in SUBSET Nat, NEW X, X \subseteq Reached(E, Y)
  PROVE  Reached(E, X) \subseteq Reached(E, Y)
BY ReachedFacts, ReachedLeast

\* The nodes of X, and what their children reach.
LEMMA ReachedUnfold ==
  ASSUME NEW E, Edges(E), NEW X \in SUBSET Nat, NEW Y \in SUBSET Nat,
         \A e \in E : e[1] \in X => e[2] \in X \cup Y, Y \subseteq Reached(E, X)
  PROVE  Reached(E, X) = X \cup Reached(E, Y)
<1>1. /\ X \subseteq Reached(E, X)
      /\ Y \subseteq Reached(E, Y) /\ Closed(E, Reached(E, Y)) /\ Reached(E, Y) \in SUBSET Nat
  BY ReachedFacts
<1>2. Reached(E, Y) \subseteq Reached(E, X)
  BY ReachedTransitive
<1>3. Closed(E, X \cup Reached(E, Y))
  BY <1>1 DEF Closed
<1>4. Reached(E, X) \subseteq X \cup Reached(E, Y)
  BY <1>1, <1>3, ReachedLeast
<1> QED
  BY <1>1, <1>2, <1>4

\* A union reaches what its parts reach.
LEMMA ReachedUnion ==
  ASSUME NEW E, Edges(E), NEW X \in SUBSET Nat, NEW Y \in SUBSET Nat
  PROVE  Reached(E, X \cup Y) = Reached(E, X) \cup Reached(E, Y)
<1>1. /\ X \subseteq Reached(E, X) /\ Closed(E, Reached(E, X)) /\ Reached(E, X) \in SUBSET Nat
      /\ Y \subseteq Reached(E, Y) /\ Closed(E, Reached(E, Y)) /\ Reached(E, Y) \in SUBSET Nat
  BY ReachedFacts
<1>2. Closed(E, Reached(E, X) \cup Reached(E, Y))
  BY <1>1 DEF Closed
<1>3. Reached(E, X \cup Y) \subseteq Reached(E, X) \cup Reached(E, Y)
  BY <1>1, <1>2, ReachedLeast
<1>4. X \cup Y \in SUBSET Nat
  OBVIOUS
<1>5. Reached(E, X) \subseteq Reached(E, X \cup Y) /\ Reached(E, Y) \subseteq Reached(E, X \cup Y)
  BY <1>4, ReachedMonotone
<1> QED
  BY <1>3, <1>5

\* What is reached from a set is reached from a node of it.
LEMMA ReachedFromOne ==
  ASSUME NEW E, Edges(E), NEW X \in SUBSET Nat, NEW u \in Reached(E, X)
  PROVE  \E x \in X : u \in Reached(E, {x})
<1> DEFINE C == { w \in Nat : \E x \in X : w \in Reached(E, {x}) }
<1>1. \A x \in X : x \in Reached(E, {x}) /\ Closed(E, Reached(E, {x})) /\ Reached(E, {x}) \subseteq Nat
  <2> TAKE x \in X
  <2>1. {x} \in SUBSET Nat
    OBVIOUS
  <2> QED
    BY <2>1, ReachedFacts
<1>2. X \subseteq C
  BY <1>1
<1>3. Closed(E, C)
  <2> SUFFICES ASSUME NEW e \in E, e[1] \in C
               PROVE  e[2] \in C
    BY DEF Closed
  <2>1. PICK x \in X : e[1] \in Reached(E, {x})
    OBVIOUS
  <2>2. e[2] \in Reached(E, {x})
    BY <1>1, <2>1 DEF Closed
  <2> QED
    BY <1>1, <2>2
<1>4. u \in C
  <2>1. C \in SUBSET Nat
    OBVIOUS
  <2> HIDE DEF C
  <2> QED
    BY <1>2, <1>3, <2>1, ReachedLeast
<1> QED
  BY <1>4

\* Edges from n to A let nothing be reached that n and A do not reach.
LEMMA ReachedWithMore ==
  ASSUME NEW E, Edges(E), NEW n \in Nat, NEW A \in SUBSET Nat, NEW X \in SUBSET Nat
  PROVE  Reached(E \cup ({n} \X A), X) \subseteq
           Reached(E, X) \cup { u \in Reached(E, A) : n \in Reached(E, X) }
<1> DEFINE F == E \cup ({n} \X A)
           C == Reached(E, X) \cup { u \in Reached(E, A) : n \in Reached(E, X) }
<1>1. /\ X \subseteq Reached(E, X) /\ Closed(E, Reached(E, X)) /\ Reached(E, X) \in SUBSET Nat
      /\ A \subseteq Reached(E, A) /\ Closed(E, Reached(E, A)) /\ Reached(E, A) \in SUBSET Nat
  BY ReachedFacts
<1>2. ASSUME NEW e \in F, e[1] \in C
      PROVE  e[2] \in C
  <2>1. CASE e \in E
    BY <1>1, <1>2, <2>1 DEF Closed
  <2>2. CASE e \in {n} \X A
    <3>1. e[1] = n /\ e[2] \in A
      BY <2>2
    <3>2. e[2] \in Reached(E, A)
      BY <1>1, <3>1
    <3>3. n \in Reached(E, X) \/ n \in { u \in Reached(E, A) : n \in Reached(E, X) }
      BY <1>2, <3>1
    <3> QED
      BY <3>2, <3>3
  <2> QED
    BY <2>1, <2>2
<1>3. Closed(F, C) /\ X \subseteq C /\ C \in SUBSET Nat
  <2>1. Closed(F, C)
    <3> HIDE DEF F, C
    <3> QED
      BY <1>2 DEF Closed
  <2> QED
    BY <1>1, <2>1
<1> HIDE DEF F, C
<1>4. Reached(F, X) \subseteq C
  BY <1>3, ReachedLeast
<1> QED
  BY <1>4 DEF F, C

LEMMA BelowFacts ==
  ASSUME NEW E, Edges(E), NEW t \in Nat
  PROVE  /\ Below(E, t) \subseteq Nat /\ Children(E, t) \subseteq Below(E, t)
         /\ Closed(E, Below(E, t))
         /\ \A u \in Below(E, t) : Below(E, u) \subseteq Below(E, t)
         /\ Reached(E, {t}) = {t} \cup Below(E, t)
<1>1. Children(E, t) \in SUBSET Nat
  BY EdgeFacts
<1>2. /\ Below(E, t) \subseteq Nat /\ Children(E, t) \subseteq Below(E, t)
      /\ Closed(E, Below(E, t))
  BY <1>1, ReachedFacts DEF Below
<1>3. ASSUME NEW u \in Below(E, t)
      PROVE  Below(E, u) \subseteq Below(E, t)
  <2>1. Children(E, u) \subseteq Below(E, t)
    BY <1>2 DEF Children, Closed
  <2> QED
    BY <1>1, <2>1, ReachedTransitive DEF Below
<1>4. Reached(E, {t}) = {t} \cup Below(E, t)
  <2>1. {t} \in SUBSET Nat
    OBVIOUS
  <2>2. \A e \in E : e[1] \in {t} => e[2] \in {t} \cup Children(E, t)
    BY DEF Children
  <2>3. Children(E, t) \subseteq Reached(E, {t})
    BY <2>1, ReachedFacts DEF Children, Closed
  <2> QED
    BY <1>1, <2>1, <2>2, <2>3, ReachedUnfold DEF Below
<1> QED
  BY <1>2, <1>3, <1>4

\* All edges are between numbers up to N.
Within(E, N) == \A e \in E : e[1] \in 0 .. N /\ e[2] \in 0 .. N

LEMMA ReachedWithin ==
  ASSUME NEW E, Edges(E), NEW N \in Nat, Within(E, N), NEW X \in SUBSET (0 .. N)
  PROVE  /\ Reached(E, X) \subseteq 0 .. N /\ IsFiniteSet(Reached(E, X))
         /\ Cardinality(Reached(E, X)) \in 0 .. N + 1
<1>1. Closed(E, 0 .. N)
  BY DEF Closed, Within
<1>2. 0 .. N \in SUBSET Nat
  OBVIOUS
<1>3. Reached(E, X) \subseteq 0 .. N
  BY <1>1, <1>2, ReachedLeast
<1>4. IsFiniteSet(0 .. N) /\ Cardinality(0 .. N) = N + 1
  <2>1. 0 \in Int /\ N \in Int /\ ~(0 > N)
    OBVIOUS
  <2> QED
    BY <2>1, FS_Interval
<1>5. IsFiniteSet(Reached(E, X)) /\ Cardinality(Reached(E, X)) <= N + 1
  BY <1>3, <1>4, FS_Subset
<1>6. Cardinality(Reached(E, X)) \in Nat
  BY <1>5, FS_CardinalityType
<1> QED
  BY <1>3, <1>5, <1>6

\* Without cycles, a set of nodes has one that none of its nodes reaches.
LEMMA TopOf ==
  ASSUME NEW E, Edges(E), NEW N \in Nat, Within(E, N), Acyclic(E),
         NEW X \in SUBSET (0 .. N), X # {}
  PROVE  \E x \in X : \A y \in X : x \notin Below(E, y)
<1> DEFINE size(y) == Cardinality(Below(E, y))
           left == { N + 1 - size(y) : y \in X }
<1>1. ASSUME NEW y \in X
      PROVE  y \in Nat /\ IsFiniteSet(Below(E, y)) /\ size(y) \in 0 .. N + 1
  <2>1. Children(E, y) \in SUBSET (0 .. N)
    BY DEF Children, Within
  <2> QED
    BY <2>1, ReachedWithin DEF Below
<1>2. left \subseteq Nat /\ left # {}
  <2> HIDE DEF size
  <2>1. \A y \in X : N + 1 - size(y) \in Nat
    BY <1>1
  <2> QED
    BY <2>1
<1>3. PICK m \in left : \A k \in left : m <= k
  <2> HIDE DEF left
  <2> QED
    BY <1>2, LeastNumber
<1>4. PICK x \in X : m = N + 1 - size(x)
  OBVIOUS
<1>5. ASSUME NEW y \in X, x \in Below(E, y)
      PROVE  FALSE
  <2>1. Below(E, x) \subseteq Below(E, y) /\ x \notin Below(E, x)
    BY <1>1, <1>5, BelowFacts DEF Acyclic
  <2>2. Below(E, x) # Below(E, y)
    BY <1>5, <2>1
  <2>3. size(x) <= size(y) /\ size(x) # size(y)
    BY <1>1, <2>1, <2>2, FS_Subset
  <2>4. m <= N + 1 - size(y)
    BY <1>3
  <2> HIDE DEF size, left
  <2> QED
    BY <1>1, <1>4, <2>3, <2>4
<1> QED
  BY <1>5

\* And one that reaches none of its nodes.
LEMMA BottomOf ==
  ASSUME NEW E, Edges(E), NEW N \in Nat, Within(E, N), Acyclic(E),
         NEW X \in SUBSET (0 .. N), X # {}
  PROVE  \E x \in X : \A y \in X : y \notin Below(E, x)
<1> DEFINE size(y) == Cardinality(Below(E, y))
           sizes == { size(y) : y \in X }
<1>1. ASSUME NEW y \in X
      PROVE  y \in Nat /\ IsFiniteSet(Below(E, y)) /\ size(y) \in 0 .. N + 1
  <2>1. Children(E, y) \in SUBSET (0 .. N)
    BY DEF Children, Within
  <2> QED
    BY <2>1, ReachedWithin DEF Below
<1>2. sizes \subseteq Nat /\ sizes # {}
  <2> HIDE DEF size
  <2>1. \A y \in X : size(y) \in Nat
    BY <1>1
  <2> QED
    BY <2>1
<1>3. PICK m \in sizes : \A k \in sizes : m <= k
  <2> HIDE DEF sizes
  <2> QED
    BY <1>2, LeastNumber
<1>4. PICK x \in X : m = size(x)
  OBVIOUS
<1>5. ASSUME NEW y \in X, y \in Below(E, x)
      PROVE  FALSE
  <2>1. Below(E, y) \subseteq Below(E, x) /\ y \notin Below(E, y)
    BY <1>1, <1>5, BelowFacts DEF Acyclic
  <2>2. Below(E, x) # Below(E, y)
    BY <1>5, <2>1
  <2>3. size(y) <= size(x) /\ size(x) # size(y)
    BY <1>1, <2>1, <2>2, FS_Subset
  <2>4. m <= size(y)
    BY <1>3
  <2> HIDE DEF size, sizes
  <2> QED
    BY <1>1, <1>4, <2>3, <2>4
<1> QED
  BY <1>5

\* Graph::isCyclic finds no cycle where there is none.
LEMMA TrimFacts ==
  ASSUME NEW E, Edges(E), NEW N \in Nat, Within(E, N), Acyclic(E)
  PROVE  ~IsCyclicGraph(E)
<1> DEFINE left(es) == { e \in es : \E f \in es : f[1] = e[2] }
           Body(S) == [es \in SUBSET E |-> IF left(es) = es THEN es # {} ELSE S[left(es)]]
           G == [es \in SUBSET E |-> FALSE]
<1>1. ASSUME NEW es \in SUBSET E, left(es) = es
      PROVE  es = {}
  <2> SUFFICES ASSUME es # {}
               PROVE  FALSE
    OBVIOUS
  <2> DEFINE X == { e[2] : e \in es }
  <2>1. X \in SUBSET (0 .. N) /\ X # {}
    BY DEF Within
  <2>2. PICK x \in X : \A y \in X : y \notin Below(E, x)
    <3> HIDE DEF X
    <3> QED
      BY <2>1, BottomOf
  <2>3. PICK e \in es : x = e[2]
    OBVIOUS
  <2>4. PICK f \in es : f[1] = x
    BY <1>1, <2>3
  <2>5. f[2] \in Children(E, x) /\ f[2] \in X
    BY <2>4 DEF Children
  <2>6. x \in Nat
    BY <2>1
  <2>7. f[2] \in Below(E, x)
    BY <2>5, <2>6, BelowFacts
  <2> QED
    BY <2>2, <2>5, <2>7
<1>2. \A es \in SUBSET E : left(es) \in SUBSET es /\ left(es) \in SUBSET E
  OBVIOUS
<1>3. IsCyclicGraph(E) = (CHOOSE S : S = Body(S))[E]
  BY DEF IsCyclicGraph
<1> HIDE DEF left
<1>4. G = Body(G)
  BY <1>1, <1>2
<1> HIDE DEF G
<1>5. PICK S : S = Body(S) /\ IsCyclicGraph(E) = S[E]
  <2> HIDE DEF Body
  <2> QED
    BY <1>3, <1>4
<1>6. \A es \in SUBSET E : S[es] = IF left(es) = es THEN es # {} ELSE S[left(es)]
  BY <1>5
<1> HIDE DEF Body
<1>7. \A es \in SUBSET E : IsFiniteSet(es) /\ Cardinality(es) \in Nat
  <2>1. IsFiniteSet(0 .. N)
    <3>1. 0 \in Int /\ N \in Int
      OBVIOUS
    <3> QED
      BY <3>1, FS_Interval
  <2>2. IsFiniteSet((0 .. N) \X (0 .. N))
    BY <2>1, FS_Product
  <2>3. E \subseteq (0 .. N) \X (0 .. N)
    BY EdgeFacts DEF Within
  <2> QED
    BY <2>2, <2>3, FS_Subset, FS_CardinalityType
<1> DEFINE bad == { es \in SUBSET E : S[es] # FALSE }
           sizes == { Cardinality(es) : es \in bad }
<1>8. bad = {}
  <2> SUFFICES ASSUME bad # {}
               PROVE  FALSE
    OBVIOUS
  <2>1. sizes \subseteq Nat /\ sizes # {}
    BY <1>7
  <2>2. PICK m \in sizes : \A k \in sizes : m <= k
    <3> HIDE DEF sizes
    <3> QED
      BY <2>1, LeastNumber
  <2>3. PICK es \in bad : m = Cardinality(es)
    OBVIOUS
  <2>4. left(es) # es /\ left(es) \in bad
    <3>1. CASE left(es) = es
      <4>1. es = {} /\ S[es] = (es # {})
        BY <1>1, <1>6, <3>1
      <4> QED
        BY <4>1
    <3>2. CASE left(es) # es
      BY <1>2, <1>6, <3>2
    <3> QED
      BY <3>1, <3>2
  <2>5. left(es) \in SUBSET es
    BY <1>2
  <2>6. Cardinality(left(es)) <= Cardinality(es) /\ Cardinality(left(es)) # Cardinality(es)
    BY <1>7, <2>4, <2>5, FS_Subset
  <2>7. m <= Cardinality(left(es))
    BY <2>2, <2>4
  <2>8. Cardinality(es) \in Nat /\ Cardinality(left(es)) \in Nat
    BY <1>7, <2>4
  <2> HIDE DEF bad, sizes
  <2> QED
    BY <2>3, <2>6, <2>7, <2>8
<1>9. S[E] = FALSE
  BY <1>8
<1> QED
  BY <1>5, <1>9

\* E has an edge from each term to each term directly inside it.
Graphs(E, N, rs, sum) ==
  /\ Edges(E) /\ Within(E, N)
  /\ Terms(rs, sum) \in SUBSET (0 .. N)
  /\ \A u \in Terms(rs, sum) : Nested(rs, sum, u) = Children(E, u)
  /\ \A e \in E : e[1] \in Terms(rs, sum) /\ e[2] \in Terms(rs, sum)

\* The worklist of checkRecursive finds what is reached, whatever it drops.
LEMMA SearchFacts ==
  ASSUME NEW rs, NEW sum, NEW f, NEW N \in Nat, NEW E, Graphs(E, N, rs, sum),
         Acyclic(E), NEW t \in Terms(rs, sum)
  PROVE  CheckRecursive(rs, sum, f, t) <=> \E u \in Below(E, t) : SymbolOf(u) = f
<1> DEFINE K == Terms(rs, sum)
           next(X) == (UNION { Nested(rs, sum, u) : u \in X }) \ X
           here(X) == \E u \in X : SymbolOf(u) = f
           found(X) == here(Reached(E, X))
           Body(S) == [X \in SUBSET K |-> X # {} /\ (here(X) \/ S[next(X)])]
<1>0. /\ Edges(E) /\ Within(E, N) /\ K \in SUBSET (0 .. N) /\ K \subseteq Nat
      /\ \A u \in K : Nested(rs, sum, u) = Children(E, u) /\ Children(E, u) \subseteq K
  BY DEF Graphs, Children
<1>1. ASSUME NEW X \in SUBSET K
      PROVE  /\ next(X) \in SUBSET K /\ X \in SUBSET Nat /\ next(X) \in SUBSET Nat
             /\ Reached(E, X) = X \cup Reached(E, next(X))
             /\ Reached(E, X) \subseteq K
             /\ \A x \in Reached(E, next(X)) : \E y \in X : x \in Below(E, y)
  <2>1. next(X) \in SUBSET K
    BY <1>0
  <2>2. X \in SUBSET Nat /\ next(X) \in SUBSET Nat
    BY <1>0, <2>1
  <2>3. \A e \in E : e[1] \in X => e[2] \in X \cup next(X)
    <3> SUFFICES ASSUME NEW e \in E, e[1] \in X
                 PROVE  e[2] \in UNION { Nested(rs, sum, u) : u \in X }
      OBVIOUS
    <3>1. e[2] \in Children(E, e[1])
      BY DEF Children
    <3> QED
      BY <1>0, <3>1
  <2>4. next(X) \subseteq Reached(E, X)
    <3> SUFFICES ASSUME NEW u \in X, NEW a \in Nested(rs, sum, u)
                 PROVE  a \in Reached(E, X)
      OBVIOUS
    <3>1. PICK e \in E : e[1] = u /\ e[2] = a
      BY <1>0 DEF Children
    <3> QED
      BY <1>0, <2>2, <3>1, ReachedFacts DEF Closed
  <2>5. Reached(E, X) = X \cup Reached(E, next(X))
    <3> HIDE DEF next
    <3> QED
      BY <1>0, <2>2, <2>3, <2>4, ReachedUnfold
  <2>6. Reached(E, X) \subseteq K
    <3>1. Closed(E, K)
      BY DEF Closed, Graphs
    <3> QED
      BY <1>0, <3>1, ReachedLeast
  <2>7. ASSUME NEW x \in Reached(E, next(X))
        PROVE  \E y \in X : x \in Below(E, y)
    <3>1. PICK z \in next(X) : x \in Reached(E, {z})
      <4> HIDE DEF next
      <4> QED
        BY <1>0, <2>2, <2>7, ReachedFromOne
    <3>2. PICK y \in X : z \in Children(E, y)
      BY <1>0, <3>1
    <3>3. y \in Nat /\ z \in Nat /\ z \in Below(E, y)
      BY <1>0, <2>2, <3>2, BelowFacts
    <3>4. x = z \/ x \in Below(E, z)
      BY <1>0, <3>1, <3>3, BelowFacts
    <3>5. Below(E, z) \subseteq Below(E, y)
      BY <1>0, <3>3, BelowFacts
    <3> QED
      BY <3>3, <3>4, <3>5
  <2> HIDE DEF next
  <2> QED
    BY <2>1, <2>2, <2>5, <2>6, <2>7
<1>2. ASSUME NEW X \in SUBSET K
      PROVE  found(X) <=> X # {} /\ (here(X) \/ found(next(X)))
  <2>1. X = {} => next(X) = {}
    OBVIOUS
  <2>2. Reached(E, {}) = {}
    <3>1. Closed(E, {}) /\ {} \in SUBSET Nat
      BY DEF Closed
    <3> QED
      BY <3>1, ReachedLeast
  <2> HIDE DEF next
  <2> QED
    BY <1>1, <2>1, <2>2
<1> HIDE DEF next, found, here
<1> DEFINE G == [X \in SUBSET K |-> found(X)]
<1>3. G = Body(G)
  <2>1. \A X \in SUBSET K : next(X) \in SUBSET K
    BY <1>1
  <2>2. \A X \in SUBSET K : found(X) \in BOOLEAN
    BY DEF found, here
  <2>3. \A X \in SUBSET K : G[X] = (X # {} /\ (here(X) \/ G[next(X)]))
    BY <1>2, <2>1, <2>2
  <2> HIDE DEF K
  <2> QED
    BY <2>3
<1>4. CheckRecursive(rs, sum, f, t) = (CHOOSE S : S = Body(S))[Nested(rs, sum, t)]
  BY DEF CheckRecursive, next, here
<1>5. PICK S : S = Body(S) /\ CheckRecursive(rs, sum, f, t) = S[Nested(rs, sum, t)]
  <2> HIDE DEF Body, G
  <2> QED
    BY <1>3, <1>4
<1>6. \A X \in SUBSET K : S[X] = (X # {} /\ (here(X) \/ S[next(X)]))
  BY <1>5
<1> HIDE DEF Body, G
<1> DEFINE size(X) == Cardinality(Reached(E, X))
           bad == { X \in SUBSET K : ~(S[X] <=> found(X)) }
<1>7. ASSUME NEW X \in SUBSET K, X # {}
      PROVE  /\ next(X) \in SUBSET K /\ size(X) \in Nat
             /\ size(next(X)) < size(X)
  <2>1. next(X) \in SUBSET K /\ X \in SUBSET (0 .. N) /\ next(X) \in SUBSET (0 .. N)
    BY <1>0, <1>1
  <2>2. /\ IsFiniteSet(Reached(E, X)) /\ size(X) \in 0 .. N + 1
        /\ IsFiniteSet(Reached(E, next(X))) /\ size(next(X)) \in 0 .. N + 1
    BY <1>0, <2>1, ReachedWithin
  <2>3. PICK x \in X : \A y \in X : x \notin Below(E, y)
    BY <1>0, <1>7, <2>1, TopOf
  <2>4. x \in Reached(E, X) /\ x \notin Reached(E, next(X)) /\ Reached(E, next(X)) \subseteq Reached(E, X)
    BY <1>1, <2>3
  <2>5. size(next(X)) <= size(X) /\ size(next(X)) # size(X)
    BY <2>2, <2>4, FS_Subset
  <2> HIDE DEF size
  <2> QED
    BY <2>1, <2>2, <2>5
<1>8. bad = {}
  <2> SUFFICES ASSUME bad # {}
               PROVE  FALSE
    OBVIOUS
  <2> DEFINE sizes == { size(X) : X \in bad }
  <2>1. ASSUME NEW X \in bad
        PROVE  X # {} /\ next(X) \in bad
    <3>1. X \in SUBSET K /\ next(X) \in SUBSET K
      BY <1>1
    <3>2. found(X) <=> X # {} /\ (here(X) \/ found(next(X)))
      BY <1>2, <3>1
    <3>3. S[X] = (X # {} /\ (here(X) \/ S[next(X)]))
      BY <1>6, <3>1
    <3> QED
      BY <3>1, <3>2, <3>3
  <2>2. sizes \subseteq Nat /\ sizes # {}
    <3>1. \A X \in bad : size(X) \in Nat
      BY <1>7, <2>1
    <3> HIDE DEF bad, size
    <3> QED
      BY <3>1
  <2>3. PICK m \in sizes : \A k \in sizes : m <= k
    <3> HIDE DEF sizes
    <3> QED
      BY <2>2, LeastNumber
  <2>4. PICK X \in bad : m = size(X)
    OBVIOUS
  <2>5. X \in SUBSET K /\ X # {} /\ next(X) \in bad
    BY <2>1
  <2>6. size(next(X)) < size(X) /\ size(X) \in Nat
    BY <1>7, <2>5
  <2>7. size(next(X)) \in sizes
    BY <2>5
  <2>8. m <= size(next(X)) /\ size(next(X)) \in Nat
    BY <2>2, <2>3, <2>7
  <2> HIDE DEF size, bad, sizes
  <2> QED
    BY <2>4, <2>6, <2>8
<1>9. Nested(rs, sum, t) \in SUBSET K /\ Nested(rs, sum, t) = Children(E, t)
  BY <1>0
<1>10. S[Nested(rs, sum, t)] <=> found(Children(E, t))
  <2> HIDE DEF K
  <2> QED
    BY <1>8, <1>9
<1> QED
  BY <1>5, <1>10 DEF found, here, Below

Roots(E, f) == { e[2] : e \in { e \in E : SymbolOf(e[1]) = f } }

\* From a term with symbol f, a term with symbol f is reached.
NestsIn(E, f) == \E u \in Reached(E, Roots(E, f)) : SymbolOf(u) = f

LEMMA NestsFacts ==
  ASSUME NEW N \in Nat, Edges(Inside), Within(Inside, N), NEW f
  PROVE  Nests(f) <=> NestsIn(Inside, f)
<1> DEFINE E == Inside
           D == { e[1] : e \in E } \cup { e[2] : e \in E }
           more(ts) == ts \cup { e[2] : e \in { e \in E : e[1] \in ts } }
           Body(S) == [ts \in SUBSET D |-> IF more(ts) = ts THEN ts ELSE S[more(ts)]]
           G == [ts \in SUBSET D |-> Reached(E, ts)]
<1>0. Edges(E) /\ Within(E, N) /\ D \in SUBSET (0 .. N) /\ D \in SUBSET Nat
  BY DEF Within
<1>1. ASSUME NEW ts \in SUBSET D
      PROVE  /\ more(ts) \in SUBSET D /\ ts \in SUBSET Nat /\ more(ts) \in SUBSET Nat
             /\ more(ts) = ts => Reached(E, ts) = ts
             /\ Reached(E, more(ts)) = Reached(E, ts)
  <2>1. more(ts) \in SUBSET D /\ ts \in SUBSET Nat /\ more(ts) \in SUBSET Nat
    BY <1>0
  <2>2. ASSUME more(ts) = ts
        PROVE  Reached(E, ts) = ts
    <3>1. Closed(E, ts)
      BY <2>2 DEF Closed
    <3> HIDE DEF E
    <3> QED
      BY <1>0, <2>1, <3>1, ReachedLeast, ReachedFacts
  <2>3. more(ts) \subseteq Reached(E, ts) /\ ts \subseteq more(ts)
    <3> HIDE DEF E
    <3> QED
      BY <1>0, <2>1, ReachedFacts DEF Closed
  <2>4. Reached(E, more(ts)) \subseteq Reached(E, ts)
    <3> HIDE DEF E, more
    <3> QED
      BY <1>0, <2>1, <2>3, ReachedTransitive
  <2>5. Reached(E, ts) \subseteq Reached(E, more(ts))
    <3> HIDE DEF E, more
    <3> QED
      BY <1>0, <2>1, <2>3, ReachedMonotone
  <2> HIDE DEF E, more
  <2> QED
    BY <2>1, <2>2, <2>4, <2>5
<1>2. Nests(f) = \E t \in (CHOOSE S : S = Body(S))[Roots(E, f)] : SymbolOf(t) = f
  BY DEF Nests, Roots
<1>3. \A ts \in SUBSET D : ts \subseteq more(ts)
  OBVIOUS
<1>4. Roots(E, f) \in SUBSET D
  BY DEF Roots
<1> HIDE DEF more, E, D
<1>5. G = Body(G)
  <2>1. \A ts \in SUBSET D : G[ts] = IF more(ts) = ts THEN ts ELSE G[more(ts)]
    BY <1>1
  <2> QED
    BY <2>1
<1> HIDE DEF G
<1>6. PICK S : S = Body(S) /\ Nests(f) = \E t \in S[Roots(E, f)] : SymbolOf(t) = f
  <2> HIDE DEF Body
  <2> QED
    BY <1>2, <1>5
<1>7. \A ts \in SUBSET D : S[ts] = IF more(ts) = ts THEN ts ELSE S[more(ts)]
  BY <1>6
<1> HIDE DEF Body
<1> DEFINE bad == { ts \in SUBSET D : S[ts] # Reached(E, ts) }
           left(ts) == N + 1 - Cardinality(ts)
<1>8. \A ts \in SUBSET D : left(ts) \in Nat /\ Cardinality(ts) \in Nat /\ IsFiniteSet(ts)
  <2>1. IsFiniteSet(0 .. N) /\ Cardinality(0 .. N) = N + 1
    <3>1. 0 \in Int /\ N \in Int /\ ~(0 > N)
      OBVIOUS
    <3> QED
      BY <3>1, FS_Interval
  <2> TAKE ts \in SUBSET D
  <2>2. ts \in SUBSET (0 .. N)
    BY <1>0
  <2>3. IsFiniteSet(ts) /\ Cardinality(ts) <= N + 1
    BY <2>1, <2>2, FS_Subset
  <2>4. Cardinality(ts) \in Nat
    BY <2>3, FS_CardinalityType
  <2> QED
    BY <2>3, <2>4
<1>9. bad = {}
  <2> SUFFICES ASSUME bad # {}
               PROVE  FALSE
    OBVIOUS
  <2> DEFINE sizes == { left(ts) : ts \in bad }
  <2>1. sizes \subseteq Nat /\ sizes # {}
    <3>1. \A ts \in bad : left(ts) \in Nat
      BY <1>8
    <3> HIDE DEF bad, left
    <3> QED
      BY <3>1
  <2>2. PICK m \in sizes : \A k \in sizes : m <= k
    <3> HIDE DEF sizes
    <3> QED
      BY <2>1, LeastNumber
  <2>3. PICK ts \in bad : m = left(ts)
    OBVIOUS
  <2>4. more(ts) # ts /\ more(ts) \in bad
    BY <1>1, <1>7, <2>3
  <2>5. ts \in SUBSET D /\ more(ts) \in SUBSET D /\ ts \subseteq more(ts)
    BY <1>3, <2>4
  <2>6. Cardinality(ts) <= Cardinality(more(ts)) /\ Cardinality(ts) # Cardinality(more(ts))
    BY <1>8, <2>4, <2>5, FS_Subset
  <2>7. m <= left(more(ts))
    BY <2>2, <2>4
  <2>8. /\ Cardinality(ts) \in Nat /\ Cardinality(more(ts)) \in Nat
    BY <1>8, <2>5
  <2> HIDE DEF bad, sizes
  <2> QED
    BY <2>3, <2>6, <2>7, <2>8
<1>10. S[Roots(E, f)] = Reached(E, Roots(E, f))
  BY <1>4, <1>9
<1> QED
  BY <1>6, <1>10 DEF NestsIn, E

-----------------------------------------------------------------------------
(* Terms and the rows they stand for                                       *)

LEMMA TermFacts ==
  ASSUME NEW f \in Nat \ {0}, NEW c \in 0 .. CounterWidth - 1
  PROVE  /\ TermOf(f, c) \in Nat /\ IsFunction(TermOf(f, c))
         /\ SymbolOf(TermOf(f, c)) = f /\ Counter(TermOf(f, c)) = c
<1>1. CounterWidth \in Nat /\ CounterWidth > 0
  BY WidthAssumption
<1>2. f * CounterWidth + c \in Nat
  BY <1>1
<1>3. f * CounterWidth + c >= CounterWidth
  BY <1>1
<1>4. (f * CounterWidth + c) \div CounterWidth = f
  BY <1>1
<1>5. (f * CounterWidth + c) % CounterWidth = c
  BY <1>1
<1> QED
  BY <1>2, <1>3, <1>4, <1>5 DEF TermOf, IsFunction, SymbolOf, Counter

\* The arguments that terms are made from.
Values(rs, sum) == (0 .. CounterWidth - 1) \cup Terms(rs, sum)

Distinct(rs) == \A f \in DOMAIN rs : \A i, j \in DOMAIN rs[f] : rs[f][i] = rs[f][j] => i = j

RowsOK(rs, sum, F) ==
  /\ rs \in [F -> Seq(Seq(Nat))]
  /\ Distinct(rs)
  /\ \A f \in F : \A i \in DOMAIN rs[f] : ToSet(rs[f][i]) \subseteq Values(rs, sum)

InsideOf(rs, sum) ==
  UNION { UNION { { <<TermFor(rs, sum, f, rs[f][i]), a>> : a \in Functions(rs[f][i]) } :
                  i \in DOMAIN rs[f] } : f \in DOMAIN rs }

\* The counter of the term of row i.
Place(sum, i) == IF sum THEN 0 ELSE i - 1

\* Numbers above all terms of symbols up to M.
Bound(M) == (M + 1) * CounterWidth

Typed(rs, sum, F) == rs \in [F -> Seq(Seq(Nat))] /\ Distinct(rs) /\ Room(rs, sum)

RowTerm(rs, sum, M, f, i) ==
  /\ TermFor(rs, sum, f, rs[f][i]) = TermOf(f, Place(sum, i))
  /\ Place(sum, i) \in 0 .. CounterWidth - 1 /\ f \in Nat \ {0}
  /\ TermOf(f, Place(sum, i)) \in 0 .. Bound(M)
  /\ rs[f][i] \in Seq(Nat)

LEMMA RowTermFacts ==
  ASSUME NEW M \in Nat, NEW F \in SUBSET (1 .. M), NEW rs, NEW sum \in BOOLEAN, Typed(rs, sum, F),
         NEW f \in F, NEW i \in DOMAIN rs[f]
  PROVE  RowTerm(rs, sum, M, f, i)
<1>1. /\ CounterWidth \in Nat /\ CounterWidth > 0 /\ f \in Nat \ {0} /\ f <= M
      /\ rs[f] \in Seq(Seq(Nat)) /\ i \in 1 .. Len(rs[f]) /\ (sum \/ Len(rs[f]) < CounterWidth)
  BY WidthAssumption DEF Room, Typed
<1>2. Place(sum, i) \in 0 .. CounterWidth - 1
  BY <1>1 DEF Place
<1>3. TermFor(rs, sum, f, rs[f][i]) = TermOf(f, Place(sum, i))
  <2>1. (CHOOSE j \in DOMAIN rs[f] : rs[f][j] = rs[f][i]) = i
    BY DEF Distinct, Typed
  <2> QED
    BY <2>1 DEF TermFor, Place
<1>4. TermOf(f, Place(sum, i)) \in 0 .. Bound(M)
  <2>1. PICK c \in 0 .. CounterWidth - 1 : c = Place(sum, i)
    BY <1>2
  <2>2. f * CounterWidth <= M * CounterWidth
    BY <1>1
  <2>3. (M + 1) * CounterWidth = M * CounterWidth + CounterWidth
    BY <1>1
  <2>4. f * CounterWidth \in Nat /\ M * CounterWidth \in Nat
    BY <1>1
  <2>5. f * CounterWidth + c \in 0 .. (M + 1) * CounterWidth
    <3>1. PICK a \in Nat : a = f * CounterWidth
      BY <2>4
    <3>2. PICK b \in Nat : b = M * CounterWidth
      BY <2>4
    <3>3. a <= b
      BY <2>2, <3>1, <3>2
    <3>4. a + c \in 0 .. b + CounterWidth
      BY <1>1, <3>3
    <3> QED
      BY <2>3, <3>1, <3>2, <3>4
  <2> QED
    BY <2>1, <2>5 DEF TermOf, Bound
<1> QED
  BY <1>1, <1>2, <1>3, <1>4 DEF RowTerm

HasRow(rs, sum, F, t) == \E f \in F : \E i \in DOMAIN rs[f] : t = TermOf(f, Place(sum, i))

Placed(rs, sum, F) ==
  \A f \in F : \A i \in DOMAIN rs[f] : TermOf(f, Place(sum, i)) \in Terms(rs, sum)

LEMMA PlacedFacts ==
  ASSUME NEW M \in Nat, NEW F \in SUBSET (1 .. M), NEW rs, NEW sum \in BOOLEAN, Typed(rs, sum, F)
  PROVE  Placed(rs, sum, F)
<1>0. DOMAIN rs = F
  BY DEF Typed
<1>1. ASSUME NEW f \in F, NEW i \in DOMAIN rs[f]
      PROVE  TermOf(f, Place(sum, i)) \in Terms(rs, sum)
  <2>1. TermFor(rs, sum, f, rs[f][i]) = TermOf(f, Place(sum, i))
    <3>1. RowTerm(rs, sum, M, f, i)
      BY RowTermFacts
    <3> QED
      BY <3>1 DEF RowTerm
  <2>2. TermFor(rs, sum, f, rs[f][i]) \in Terms(rs, sum)
    <3>1. rs[f][i] \in ToSet(rs[f])
      BY DEF ToSet
    <3> QED
      BY <1>0, <3>1 DEF Terms
  <2> QED
    BY <2>1, <2>2
<1> QED
  BY <1>1 DEF Placed

LEMMA TermsFacts ==
  ASSUME NEW M \in Nat, NEW F \in SUBSET (1 .. M), NEW rs, NEW sum \in BOOLEAN, Typed(rs, sum, F)
  PROVE  /\ \A t \in Terms(rs, sum) : HasRow(rs, sum, F, t)
         /\ Terms(rs, sum) \in SUBSET (0 .. Bound(M))
         /\ \A t \in Terms(rs, sum) : IsFunction(t)
<1>0. DOMAIN rs = F
  BY DEF Typed
<1>1. ASSUME NEW t \in Terms(rs, sum)
      PROVE  /\ HasRow(rs, sum, F, t)
             /\ t \in 0 .. Bound(M) /\ IsFunction(t)
  <2>1a. PICK f \in F : \E i \in DOMAIN rs[f] : t = TermFor(rs, sum, f, rs[f][i])
    BY <1>0 DEF Terms, ToSet
  <2>1. PICK i \in DOMAIN rs[f] : t = TermFor(rs, sum, f, rs[f][i])
    BY <2>1a
  <2>2. /\ t = TermOf(f, Place(sum, i)) /\ t \in 0 .. Bound(M)
        /\ f \in Nat \ {0} /\ Place(sum, i) \in 0 .. CounterWidth - 1
    <3>1. RowTerm(rs, sum, M, f, i)
      BY RowTermFacts
    <3> QED
      BY <2>1, <3>1 DEF RowTerm
  <2>3. IsFunction(t)
    BY <2>2, TermFacts
  <2> QED
    BY <2>2, <2>3 DEF HasRow
<1> QED
  BY <1>1

\* The functions in a row of values are its terms.
RowTerms(rs, sum) ==
  \A row : ToSet(row) \subseteq Values(rs, sum) => Functions(row) = ToSet(row) \cap Terms(rs, sum)

LEMMA FunctionsFacts ==
  ASSUME NEW M \in Nat, NEW F \in SUBSET (1 .. M), NEW rs, NEW sum \in BOOLEAN, Typed(rs, sum, F)
  PROVE  RowTerms(rs, sum)
<1>1. \A t \in Terms(rs, sum) : IsFunction(t)
  BY TermsFacts
<1>2. \A t \in 0 .. CounterWidth - 1 : ~IsFunction(t)
  BY WidthAssumption DEF IsFunction
<1> QED
  BY <1>1, <1>2 DEF RowTerms, Functions, Values

LEMMA GraphFacts ==
  ASSUME NEW M \in Nat, NEW F \in SUBSET (1 .. M), NEW rs, NEW sum \in BOOLEAN,
         RowsOK(rs, sum, F), Room(rs, sum)
  PROVE  /\ Graphs(InsideOf(rs, sum), Bound(M), rs, sum) /\ Bound(M) \in Nat
         /\ \A f \in F : \A i \in DOMAIN rs[f] :
              Functions(rs[f][i]) \subseteq Children(InsideOf(rs, sum), TermOf(f, Place(sum, i)))
<1> DEFINE E == InsideOf(rs, sum)
           K == Terms(rs, sum)
           N == Bound(M)
<1>1. rs \in [F -> Seq(Seq(Nat))] /\ Typed(rs, sum, F) /\ DOMAIN rs = F
  BY DEF RowsOK, Typed
<1>2. N \in Nat
  <2>1. CounterWidth \in Nat
    BY WidthAssumption
  <2> QED
    BY <2>1 DEF Bound
<1>3. K \in SUBSET (0 .. N) /\ K \subseteq Nat
  <2>1. K \in SUBSET (0 .. N)
    BY <1>1, TermsFacts
  <2> QED
    BY <1>2, <2>1
<1>4. ASSUME NEW f \in F, NEW i \in DOMAIN rs[f]
      PROVE  /\ TermFor(rs, sum, f, rs[f][i]) = TermOf(f, Place(sum, i))
             /\ TermOf(f, Place(sum, i)) \in K
             /\ Functions(rs[f][i]) \subseteq K
             /\ SymbolOf(TermOf(f, Place(sum, i))) = f
             /\ Counter(TermOf(f, Place(sum, i))) = Place(sum, i)
  <2>1. /\ TermFor(rs, sum, f, rs[f][i]) = TermOf(f, Place(sum, i))
        /\ Place(sum, i) \in 0 .. CounterWidth - 1 /\ f \in Nat \ {0}
    <3>1. RowTerm(rs, sum, M, f, i)
      BY <1>1, RowTermFacts
    <3> QED
      BY <3>1 DEF RowTerm
  <2>2. TermOf(f, Place(sum, i)) \in K
    <3>1. Placed(rs, sum, F)
      BY <1>1, PlacedFacts
    <3> QED
      BY <3>1 DEF Placed
  <2>3. ToSet(rs[f][i]) \subseteq Values(rs, sum)
    BY DEF RowsOK
  <2>4. Functions(rs[f][i]) \subseteq K
    <3>0. PICK row : row = rs[f][i]
      OBVIOUS
    <3>a. ToSet(row) \subseteq Values(rs, sum)
      BY <2>3, <3>0
    <3>b. RowTerms(rs, sum)
      BY <1>1, FunctionsFacts
    <3>1. Functions(rs[f][i]) = ToSet(rs[f][i]) \cap Terms(rs, sum)
      BY <3>0, <3>a, <3>b DEF RowTerms
    <3> QED
      BY <3>1
  <2> QED
    BY <2>1, <2>2, <2>4, TermFacts
<1>5. ASSUME NEW e \in E
      PROVE  \E f \in F : \E i \in DOMAIN rs[f] :
               e = <<TermOf(f, Place(sum, i)), e[2]>> /\ e[2] \in Functions(rs[f][i])
  <2>1a. PICK f \in F : \E i \in DOMAIN rs[f] :
          e \in { <<TermFor(rs, sum, f, rs[f][i]), a>> : a \in Functions(rs[f][i]) }
    BY <1>1, <1>5 DEF InsideOf
  <2>1. PICK i \in DOMAIN rs[f] :
          e \in { <<TermFor(rs, sum, f, rs[f][i]), a>> : a \in Functions(rs[f][i]) }
    BY <2>1a
  <2>2. PICK a \in Functions(rs[f][i]) : e = <<TermFor(rs, sum, f, rs[f][i]), a>>
    BY <2>1
  <2>3. e[2] = a
    BY <2>2
  <2> QED
    BY <1>4, <2>2, <2>3
<1>6. ASSUME NEW f \in F, NEW i \in DOMAIN rs[f], NEW a \in Functions(rs[f][i])
      PROVE  <<TermOf(f, Place(sum, i)), a>> \in E
  <2> DEFINE of(g, j) == { <<TermFor(rs, sum, g, rs[g][j]), b>> : b \in Functions(rs[g][j]) }
  <2>1. <<TermFor(rs, sum, f, rs[f][i]), a>> \in E
    <3>1. <<TermFor(rs, sum, f, rs[f][i]), a>> \in of(f, i)
      OBVIOUS
    <3>2. E = UNION { UNION { of(g, j) : j \in DOMAIN rs[g] } : g \in F }
      BY <1>1 DEF InsideOf
    <3>3. PICK u : u = <<TermFor(rs, sum, f, rs[f][i]), a>>
      OBVIOUS
    <3>4. u \in of(f, i)
      BY <3>1, <3>3
    <3> HIDE DEF of, E
    <3>5. u \in UNION { of(f, j) : j \in DOMAIN rs[f] }
      BY <3>4
    <3>6. u \in E
      BY <3>2, <3>5
    <3> QED
      BY <3>3, <3>6
  <2> QED
    BY <1>4, <2>1
<1> HIDE DEF E, K, N
<1>7. \A e \in E : e[1] \in K /\ e[2] \in K /\ e = <<e[1], e[2]>>
  <2> TAKE e \in E
  <2>1a. PICK f \in F : \E i \in DOMAIN rs[f] :
          e = <<TermOf(f, Place(sum, i)), e[2]>> /\ e[2] \in Functions(rs[f][i])
    BY <1>5
  <2>1. PICK i \in DOMAIN rs[f] :
          e = <<TermOf(f, Place(sum, i)), e[2]>> /\ e[2] \in Functions(rs[f][i])
    BY <2>1a
  <2>2. e[1] = TermOf(f, Place(sum, i))
    BY <2>1
  <2> QED
    BY <1>4, <2>1, <2>2
<1>8. Edges(E) /\ Within(E, N)
  <2>1. \A e \in E : e[1] \in Nat /\ e[2] \in Nat /\ e = <<e[1], e[2]>>
    BY <1>3, <1>7
  <2>2. Edges(E)
    BY <2>1 DEF Edges
  <2>3. Within(E, N)
    BY <1>3, <1>7 DEF Within
  <2> QED
    BY <2>2, <2>3
<1>9. \A f \in F : \A i \in DOMAIN rs[f] : Functions(rs[f][i]) \subseteq Children(E, TermOf(f, Place(sum, i)))
  <2> SUFFICES ASSUME NEW f \in F, NEW i \in DOMAIN rs[f], NEW a \in Functions(rs[f][i])
               PROVE  a \in Children(E, TermOf(f, Place(sum, i)))
    OBVIOUS
  <2>1. <<TermOf(f, Place(sum, i)), a>> \in E
    BY <1>6
  <2> DEFINE e == <<TermOf(f, Place(sum, i)), a>>
  <2>2. e \in E /\ e[1] = TermOf(f, Place(sum, i)) /\ e[2] = a
    BY <2>1
  <2> HIDE DEF e
  <2> QED
    BY <2>2 DEF Children
<1>10. ASSUME NEW u \in K
       PROVE  Nested(rs, sum, u) = Children(E, u)
  <2>1a. PICK f \in F : \E i \in DOMAIN rs[f] : u = TermOf(f, Place(sum, i))
    <3>1. HasRow(rs, sum, F, u)
      BY <1>1, <1>10, TermsFacts DEF K
    <3> QED
      BY <3>1 DEF HasRow
  <2>1. PICK i \in DOMAIN rs[f] : u = TermOf(f, Place(sum, i))
    BY <2>1a
  <2>2. SymbolOf(u) = f /\ Counter(u) = Place(sum, i)
    BY <1>4, <2>1
  <2>3. ASSUME NEW a \in Children(E, u)
        PROVE  \E j \in DOMAIN rs[f] : a \in Functions(rs[f][j]) /\ (~sum => j = i)
    <3>1. PICK e \in E : e[1] = u /\ e[2] = a
      BY <2>3 DEF Children
    <3>2a. PICK g \in F : \E j \in DOMAIN rs[g] :
            e = <<TermOf(g, Place(sum, j)), e[2]>> /\ e[2] \in Functions(rs[g][j])
      BY <1>5, <3>1
    <3>2. PICK j \in DOMAIN rs[g] :
            e = <<TermOf(g, Place(sum, j)), e[2]>> /\ e[2] \in Functions(rs[g][j])
      BY <3>2a
    <3>3. u = TermOf(g, Place(sum, j))
      BY <3>1, <3>2
    <3>4. g = f /\ Place(sum, j) = Place(sum, i)
      BY <1>4, <2>2, <3>3
    <3>5. i \in Int /\ j \in Int
      BY <1>1
    <3>6. ~sum => j = i
      BY <3>4, <3>5 DEF Place
    <3> QED
      BY <3>1, <3>2, <3>4, <3>6
  <2>4. CASE sum
    <3>1. Nested(rs, sum, u) = UNION { Functions(rs[f][j]) : j \in DOMAIN rs[f] }
      BY <2>2, <2>4 DEF Nested
    <3>2. \A j \in DOMAIN rs[f] : Functions(rs[f][j]) \subseteq Children(E, u)
      <4>1. \A j \in DOMAIN rs[f] : Place(sum, j) = Place(sum, i)
        BY <2>4 DEF Place
      <4> QED
        BY <1>9, <2>1, <4>1
    <3> QED
      BY <2>3, <3>1, <3>2
  <2>5. CASE ~sum
    <3>1. i \in Int
      BY <1>1
    <3>2. Counter(u) + 1 = i
      BY <2>2, <2>5, <3>1 DEF Place
    <3>3. Nested(rs, sum, u) = Functions(rs[f][i])
      BY <2>2, <2>5, <3>2 DEF Nested, Arguments
    <3>4. Functions(rs[f][i]) \subseteq Children(E, u)
      BY <1>9, <2>1
    <3> QED
      BY <2>3, <2>5, <3>3, <3>4
  <2> QED
    BY <2>4, <2>5
<1>11. Graphs(E, N, rs, sum)
  BY <1>3, <1>7, <1>8, <1>10 DEF Graphs, K
<1> QED
  BY <1>2, <1>9, <1>11 DEF E, N

IsInside(rs, sum, F, e) ==
  \E f \in F : \E i \in DOMAIN rs[f] : \E a \in Functions(rs[f][i]) : e = <<TermOf(f, Place(sum, i)), a>>

LEMMA InsideFacts ==
  ASSUME NEW M \in Nat, NEW F \in SUBSET (1 .. M), NEW rs, NEW sum \in BOOLEAN, Typed(rs, sum, F)
  PROVE  \A e : e \in InsideOf(rs, sum) <=> IsInside(rs, sum, F, e)
<1> DEFINE of(f, i) == { <<TermFor(rs, sum, f, rs[f][i]), a>> : a \in Functions(rs[f][i]) }
<1>1. InsideOf(rs, sum) = UNION { UNION { of(f, i) : i \in DOMAIN rs[f] } : f \in F }
  <2>1. DOMAIN rs = F
    BY DEF Typed
  <2> QED
    BY <2>1 DEF InsideOf
<1>2. ASSUME NEW f \in F, NEW i \in DOMAIN rs[f]
      PROVE  of(f, i) = { <<TermOf(f, Place(sum, i)), a>> : a \in Functions(rs[f][i]) }
  <2>1. TermFor(rs, sum, f, rs[f][i]) = TermOf(f, Place(sum, i))
    <3>1. RowTerm(rs, sum, M, f, i)
      BY RowTermFacts
    <3> QED
      BY <3>1 DEF RowTerm
  <2> QED
    BY <2>1
<1> HIDE DEF of
<1>3. ASSUME NEW e, e \in InsideOf(rs, sum)
      PROVE  IsInside(rs, sum, F, e)
  <2>1. PICK f \in F : e \in UNION { of(f, i) : i \in DOMAIN rs[f] }
    BY <1>1, <1>3
  <2>2. PICK i \in DOMAIN rs[f] : e \in of(f, i)
    BY <2>1
  <2>3. PICK a \in Functions(rs[f][i]) : e = <<TermOf(f, Place(sum, i)), a>>
    BY <1>2, <2>2
  <2> QED
    BY <2>3 DEF IsInside
<1>4. ASSUME NEW e, IsInside(rs, sum, F, e)
      PROVE  e \in InsideOf(rs, sum)
  <2>1. PICK f \in F : \E i \in DOMAIN rs[f] : \E a \in Functions(rs[f][i]) : e = <<TermOf(f, Place(sum, i)), a>>
    BY <1>4 DEF IsInside
  <2>2. PICK i \in DOMAIN rs[f] : \E a \in Functions(rs[f][i]) : e = <<TermOf(f, Place(sum, i)), a>>
    BY <2>1
  <2>3. e \in of(f, i)
    BY <1>2, <2>2
  <2> QED
    BY <1>1, <2>3
<1> QED
  BY <1>3, <1>4

\* What a row that is looked up or added brings.
Brings(rs, next, sum, F, f, row) ==
  /\ RowsOK(next, sum, F)
  /\ TermFor(next, sum, f, row) \in Terms(next, sum)
  /\ SymbolOf(TermFor(next, sum, f, row)) = f
  /\ Terms(rs, sum) \subseteq Terms(next, sum)
  /\ Functions(row) \subseteq Terms(rs, sum)
  /\ InsideOf(next, sum) = InsideOf(rs, sum) \cup ({TermFor(next, sum, f, row)} \X Functions(row))
  /\ Contains(rs[f], row) => InsideOf(next, sum) = InsideOf(rs, sum)
  /\ ~Contains(rs[f], row) /\ ~sum => TermFor(next, sum, f, row) \notin Terms(rs, sum)

\* A row is looked up, or added at the end.
Grows(rs, next, F, f, row) ==
  /\ next \in [F -> Seq(Seq(Nat))]
  /\ \A g \in F : /\ Len(rs[g]) <= Len(next[g])
                  /\ \A i \in DOMAIN rs[g] : i \in DOMAIN next[g]
                                          /\ next[g][i] = rs[g][i]
  /\ \E i \in DOMAIN next[f] :
       /\ next[f][i] = row
       /\ ~Contains(rs[f], row) => i = Len(rs[f]) + 1
  /\ ~Contains(rs[f], row) =>
       \A g \in F : \A i \in DOMAIN next[g] :
         i \in DOMAIN rs[g] \/ (g = f /\ i = Len(rs[f]) + 1)

LEMMA InternTyped ==
  ASSUME NEW F, NEW rs \in [F -> Seq(Seq(Nat))], NEW f \in F, NEW row \in Seq(Nat)
  PROVE  Grows(rs, Intern(rs, f, row), F, f, row)
<1>1. CASE Contains(rs[f], row)
  <2>1. Intern(rs, f, row) = rs
    BY <1>1 DEF Intern
  <2>2. \E i \in DOMAIN rs[f] : rs[f][i] = row
    <3>1. DOMAIN rs[f] = 1 .. Len(rs[f])
      OBVIOUS
    <3> QED
      BY <1>1, <3>1 DEF Contains
  <2>3. \A g \in F : Len(rs[g]) \in Nat
    OBVIOUS
  <2> QED
    BY <1>1, <2>1, <2>2, <2>3 DEF Grows
<1>2. CASE ~Contains(rs[f], row)
  <2> DEFINE next == Intern(rs, f, row)
  <2>1. next = [rs EXCEPT ![f] = Append(rs[f], row)]
    BY <1>2 DEF Intern
  <2>2. rs[f] \in Seq(Seq(Nat)) /\ Append(rs[f], row) \in Seq(Seq(Nat))
    OBVIOUS
  <2>3. /\ DOMAIN rs[f] = 1 .. Len(rs[f]) /\ Len(rs[f]) \in Nat
        /\ Len(Append(rs[f], row)) = Len(rs[f]) + 1
        /\ DOMAIN Append(rs[f], row) = 1 .. Len(rs[f]) + 1
        /\ Append(rs[f], row)[Len(rs[f]) + 1] = row
        /\ \A i \in 1 .. Len(rs[f]) : Append(rs[f], row)[i] = rs[f][i]
    BY <2>2
  <2>4. /\ next \in [F -> Seq(Seq(Nat))] /\ next[f] = Append(rs[f], row)
        /\ \A g \in F : g # f => next[g] = rs[g]
    BY <2>1, <2>2
  <2> HIDE DEF next
  <2>5. \A g \in F : /\ Len(rs[g]) <= Len(next[g])
                     /\ \A i \in DOMAIN rs[g] : i \in DOMAIN next[g] /\ next[g][i] = rs[g][i]
    <3> TAKE g \in F
    <3>1. CASE g = f
      BY <2>3, <2>4, <3>1
    <3>2. CASE g # f
      <4>1. Len(rs[g]) \in Nat
        OBVIOUS
      <4> QED
        BY <2>4, <3>2, <4>1
    <3> QED
      BY <3>1, <3>2
  <2>6. Len(rs[f]) + 1 \in DOMAIN next[f] /\ next[f][Len(rs[f]) + 1] = row
    BY <2>3, <2>4
  <2>7. \A g \in F : \A i \in DOMAIN next[g] : i \in DOMAIN rs[g] \/ (g = f /\ i = Len(rs[f]) + 1)
    <3> SUFFICES ASSUME NEW g \in F, NEW i \in DOMAIN next[g]
                 PROVE  i \in DOMAIN rs[g] \/ (g = f /\ i = Len(rs[f]) + 1)
      OBVIOUS
    <3>1. CASE g = f
      BY <2>3, <2>4, <3>1
    <3>2. CASE g # f
      BY <2>4, <3>2
    <3> QED
      BY <3>1, <3>2
  <2> QED
    BY <2>4, <2>5, <2>6, <2>7 DEF next, Grows
<1> QED
  BY <1>1, <1>2

LEMMA InternFacts ==
  ASSUME NEW M \in Nat, NEW F \in SUBSET (1 .. M), NEW rs, NEW sum \in BOOLEAN,
         RowsOK(rs, sum, F), NEW f \in F, NEW row \in Seq(Nat),
         ToSet(row) \subseteq Values(rs, sum), Room(Intern(rs, f, row), sum)
  PROVE  Brings(rs, Intern(rs, f, row), sum, F, f, row)
<1> DEFINE next == Intern(rs, f, row)
           n == TermFor(next, sum, f, row)
           old(g, i) == i \in DOMAIN rs[g]
           new(g, i) == g = f /\ i = Len(rs[f]) + 1 /\ next[g][i] = row /\ ~Contains(rs[f], row)
<1>1. rs \in [F -> Seq(Seq(Nat))] /\ Distinct(rs) /\ DOMAIN rs = F
  BY DEF RowsOK
<1>2. /\ next \in [F -> Seq(Seq(Nat))] /\ DOMAIN next = F
      /\ \A g \in F : /\ Len(rs[g]) <= Len(next[g])
                      /\ \A i \in DOMAIN rs[g] : i \in DOMAIN next[g] /\ next[g][i] = rs[g][i]
  <2>1. Grows(rs, next, F, f, row)
    BY <1>1, InternTyped
  <2> HIDE DEF next
  <2> QED
    BY <2>1 DEF Grows
<1>3. PICK at \in DOMAIN next[f] : next[f][at] = row /\ (~Contains(rs[f], row) => at = Len(rs[f]) + 1)
  <2>1. Grows(rs, next, F, f, row)
    BY <1>1, InternTyped
  <2> HIDE DEF next
  <2> QED
    BY <2>1 DEF Grows
<1>4. \A g \in F : \A i \in DOMAIN next[g] : old(g, i) \/ new(g, i)
  <2>1. CASE Contains(rs[f], row)
    BY <2>1 DEF Intern
  <2>2. CASE ~Contains(rs[f], row)
    <3>1. Grows(rs, next, F, f, row)
      BY <1>1, InternTyped
    <3>2. at = Len(rs[f]) + 1
      BY <1>3, <2>2
    <3> HIDE DEF next
    <3>3. \A g \in F : \A i \in DOMAIN next[g] : i \in DOMAIN rs[g] \/ (g = f /\ i = Len(rs[f]) + 1)
      BY <2>2, <3>1 DEF Grows
    <3> QED
      BY <1>3, <2>2, <3>2, <3>3
  <2> QED
    BY <2>1, <2>2
<1>5. \A g \in F : \A i \in DOMAIN rs[g] : new(f, Len(rs[f]) + 1) /\ g = f => rs[g][i] # row
  <2>1. DOMAIN rs[f] = 1 .. Len(rs[f])
    BY <1>1
  <2> QED
    BY <2>1 DEF Contains
<1>6. \A g \in F : \A i \in DOMAIN rs[g] : ~(g = f /\ i = Len(rs[f]) + 1)
  <2>1. DOMAIN rs[f] = 1 .. Len(rs[f]) /\ Len(rs[f]) \in Nat
    BY <1>1
  <2> QED
    BY <2>1
<1>7. Room(rs, sum)
  <2> SUFFICES ASSUME ~sum, NEW g \in F
               PROVE  Len(rs[g]) < CounterWidth
    BY <1>1 DEF Room
  <2>1. Len(rs[g]) \in Nat /\ Len(next[g]) \in Nat /\ CounterWidth \in Nat
    BY <1>1, <1>2, WidthAssumption
  <2>2. Len(next[g]) < CounterWidth /\ Len(rs[g]) <= Len(next[g])
    BY <1>2 DEF Room
  <2> QED
    BY <2>1, <2>2
<1>8. Distinct(next)
  <2> SUFFICES ASSUME NEW g \in F, NEW i \in DOMAIN next[g], NEW j \in DOMAIN next[g],
                      next[g][i] = next[g][j]
               PROVE  i = j
    BY <1>2 DEF Distinct
  <2>1. CASE old(g, i) /\ old(g, j)
    BY <1>1, <1>2, <2>1 DEF Distinct
  <2>2. CASE new(g, i) /\ new(g, j)
    BY <2>2
  <2>3. CASE old(g, i) /\ new(g, j)
    BY <1>2, <1>5, <2>3
  <2>4. CASE new(g, i) /\ old(g, j)
    BY <1>2, <1>5, <2>4
  <2> HIDE DEF old, new
  <2> QED
    BY <1>4, <2>1, <2>2, <2>3, <2>4
<1>9. Typed(rs, sum, F) /\ Typed(next, sum, F)
  BY <1>1, <1>2, <1>7, <1>8 DEF Typed
<1>10. Terms(rs, sum) \subseteq Terms(next, sum)
  <2> SUFFICES ASSUME NEW t \in Terms(rs, sum)
               PROVE  t \in Terms(next, sum)
    OBVIOUS
  <2>1. HasRow(rs, sum, F, t)
    BY <1>9, TermsFacts
  <2>2. PICK g \in F : \E i \in DOMAIN rs[g] : t = TermOf(g, Place(sum, i))
    BY <2>1 DEF HasRow
  <2>3. PICK i \in DOMAIN rs[g] : t = TermOf(g, Place(sum, i))
    BY <2>2
  <2>4. i \in DOMAIN next[g]
    BY <1>2
  <2> HIDE DEF next
  <2>5. Placed(next, sum, F)
    BY <1>9, PlacedFacts
  <2> QED
    BY <2>3, <2>4, <2>5 DEF Placed
<1>11. RowsOK(next, sum, F)
  <2>1. Values(rs, sum) \subseteq Values(next, sum)
    BY <1>10 DEF Values
  <2>2. ASSUME NEW g \in F, NEW i \in DOMAIN next[g]
        PROVE  ToSet(next[g][i]) \subseteq Values(next, sum)
    <3>1. CASE old(g, i)
      <4>1. ToSet(rs[g][i]) \subseteq Values(rs, sum) /\ next[g][i] = rs[g][i]
        BY <1>2, <3>1 DEF RowsOK
      <4> QED
        BY <2>1, <4>1
    <3>2. CASE new(g, i)
      BY <2>1, <3>2
    <3> QED
      BY <1>4, <3>1, <3>2
  <2> HIDE DEF next
  <2> QED
    BY <1>2, <1>8, <2>2 DEF RowsOK
<1>12. n = TermOf(f, Place(sum, at)) /\ Place(sum, at) \in 0 .. CounterWidth - 1 /\ f \in Nat \ {0}
  <2>1. RowTerm(next, sum, M, f, at)
    <3> HIDE DEF next
    <3> QED
      BY <1>9, RowTermFacts
  <2> QED
    BY <1>3, <2>1 DEF RowTerm
<1>13. n \in Terms(next, sum) /\ SymbolOf(n) = f
  <2> HIDE DEF next, n
  <2>a. at \in DOMAIN next[f]
    BY <1>3
  <2>b. Placed(next, sum, F)
    BY <1>9, PlacedFacts
  <2>1. n \in Terms(next, sum)
    BY <1>12, <2>a, <2>b DEF Placed
  <2>2. SymbolOf(n) = f
    BY <1>12, TermFacts
  <2> QED
    BY <2>1, <2>2
<1>14. Functions(row) \subseteq Terms(rs, sum)
  <2>1. RowTerms(rs, sum)
    BY <1>9, FunctionsFacts
  <2> QED
    BY <2>1 DEF RowTerms
<1>15. ASSUME NEW e
       PROVE  e \in InsideOf(next, sum) <=> e \in InsideOf(rs, sum) \/ e \in {n} \X Functions(row)
  <2>1. ASSUME IsInside(next, sum, F, e)
        PROVE  IsInside(rs, sum, F, e) \/ e \in {n} \X Functions(row)
    <3>1. PICK g \in F : \E i \in DOMAIN next[g] : \E a \in Functions(next[g][i]) :
                           e = <<TermOf(g, Place(sum, i)), a>>
      BY <2>1 DEF IsInside
    <3>2. PICK i \in DOMAIN next[g] : \E a \in Functions(next[g][i]) :
                           e = <<TermOf(g, Place(sum, i)), a>>
      BY <3>1
    <3>3. PICK a \in Functions(next[g][i]) : e = <<TermOf(g, Place(sum, i)), a>>
      BY <3>2
    <3>4. CASE old(g, i)
      <4>1. next[g][i] = rs[g][i]
        BY <1>2, <3>4
      <4> HIDE DEF next
      <4> QED
        BY <3>3, <3>4, <4>1 DEF IsInside
    <3>5. CASE new(g, i)
      <4>1. i = at /\ a \in Functions(row)
        BY <1>3, <3>5
      <4>2. e = <<n, a>>
        BY <1>12, <3>3, <3>5, <4>1
      <4> HIDE DEF next, n
      <4> QED
        BY <4>1, <4>2
    <3> QED
      BY <1>4, <3>4, <3>5
  <2>2. ASSUME IsInside(rs, sum, F, e)
        PROVE  IsInside(next, sum, F, e)
    <3>1. PICK g \in F : \E i \in DOMAIN rs[g] : \E a \in Functions(rs[g][i]) :
                           e = <<TermOf(g, Place(sum, i)), a>>
      BY <2>2 DEF IsInside
    <3>2. PICK i \in DOMAIN rs[g] : \E a \in Functions(rs[g][i]) :
                           e = <<TermOf(g, Place(sum, i)), a>>
      BY <3>1
    <3>3. i \in DOMAIN next[g] /\ next[g][i] = rs[g][i]
      BY <1>2
    <3> HIDE DEF next
    <3> QED
      BY <3>2, <3>3 DEF IsInside
  <2>3. ASSUME e \in {n} \X Functions(row)
        PROVE  IsInside(next, sum, F, e)
    <3>1. PICK a \in Functions(row) : e = <<n, a>>
      BY <2>3
    <3>2. e = <<TermOf(f, Place(sum, at)), a>> /\ a \in Functions(next[f][at])
      BY <1>3, <1>12, <3>1
    <3> HIDE DEF next, n
    <3> QED
      BY <3>2 DEF IsInside
  <2> HIDE DEF next, n
  <2>4. e \in InsideOf(next, sum) <=> IsInside(next, sum, F, e)
    BY <1>9, InsideFacts
  <2>5. e \in InsideOf(rs, sum) <=> IsInside(rs, sum, F, e)
    BY <1>9, InsideFacts
  <2> QED
    BY <2>1, <2>2, <2>3, <2>4, <2>5
<1>16. InsideOf(next, sum) = InsideOf(rs, sum) \cup ({n} \X Functions(row))
  <2> HIDE DEF next, n
  <2> QED
    BY <1>15
<1>17. Contains(rs[f], row) => InsideOf(next, sum) = InsideOf(rs, sum)
  BY DEF Intern
<1>18. ASSUME ~Contains(rs[f], row), ~sum
       PROVE  n \notin Terms(rs, sum)
  <2>1. at = Len(rs[f]) + 1 /\ Len(rs[f]) \in Nat
    BY <1>1, <1>3, <1>18
  <2>2. SUFFICES ASSUME n \in Terms(rs, sum)
                 PROVE  FALSE
    OBVIOUS
  <2>3. HasRow(rs, sum, F, n)
    <3> HIDE DEF n
    <3> QED
      BY <1>9, <2>2, TermsFacts
  <2>4. PICK g \in F : \E i \in DOMAIN rs[g] : n = TermOf(g, Place(sum, i))
    BY <2>3 DEF HasRow
  <2>5. PICK i \in DOMAIN rs[g] : n = TermOf(g, Place(sum, i))
    BY <2>4
  <2>6. Place(sum, i) \in 0 .. CounterWidth - 1 /\ g \in Nat \ {0}
    <3>1. RowTerm(rs, sum, M, g, i)
      BY <1>9, RowTermFacts
    <3> QED
      BY <3>1 DEF RowTerm
  <2> HIDE DEF n
  <2>6a. SymbolOf(n) = g /\ Counter(n) = Place(sum, i)
    BY <2>5, <2>6, TermFacts
  <2>6b. SymbolOf(n) = f /\ Counter(n) = Place(sum, at)
    BY <1>12, TermFacts
  <2>7. g = f /\ Place(sum, i) = Place(sum, at)
    BY <2>6a, <2>6b
  <2>8. i \in 1 .. Len(rs[f])
    BY <1>1, <2>7
  <2> QED
    BY <1>18, <2>1, <2>7, <2>8 DEF Place
<1> QED
  BY <1>10, <1>11, <1>13, <1>14, <1>16, <1>17, <1>18 DEF Brings

\* Edges from n to A close no cycle when A does not reach n.
LEMMA AcyclicWithMore ==
  ASSUME NEW E, Edges(E), NEW n \in Nat, NEW A \in SUBSET Nat, Acyclic(E), n \notin Reached(E, A)
  PROVE  Acyclic(E \cup ({n} \X A))
<1> DEFINE F == E \cup ({n} \X A)
<1> SUFFICES ASSUME NEW t \in Nat, t \in Reached(F, Children(F, t))
             PROVE  FALSE
  BY DEF Acyclic, Below
<1> DEFINE X == Children(E, t) \cup (IF t = n THEN A ELSE {})
<1>1. Children(F, t) = X
  <2>1. ASSUME NEW u \in Children(F, t)
        PROVE  u \in X
    <3>1. PICK e \in F : e[1] = t /\ e[2] = u
      BY <2>1 DEF Children
    <3> QED
      BY <3>1 DEF Children
  <2>2. ASSUME NEW u \in X
        PROVE  u \in Children(F, t)
    <3>1. CASE u \in Children(E, t)
      BY <3>1 DEF Children
    <3>2. CASE t = n /\ u \in A
      <4> DEFINE e == <<n, u>>
      <4>1. e \in F /\ e[1] = t /\ e[2] = u
        BY <3>2
      <4> HIDE DEF e, F
      <4> QED
        BY <4>1 DEF Children
    <3> QED
      BY <2>2, <3>1, <3>2
  <2> HIDE DEF F, X
  <2> QED
    BY <2>1, <2>2
<1>2. X \in SUBSET Nat /\ Children(E, t) \in SUBSET Nat
  BY EdgeFacts
<1>3. t \in Reached(E, X) \cup { u \in Reached(E, A) : n \in Reached(E, X) }
  <2>1. t \in Reached(F, X)
    BY <1>1
  <2> HIDE DEF X
  <2> QED
    BY <1>2, <2>1, ReachedWithMore
<1>4. t \notin Reached(E, Children(E, t))
  BY DEF Acyclic, Below
<1>5. CASE t = n
  <2>1. Reached(E, X) = Reached(E, Children(E, t)) \cup Reached(E, A)
    BY <1>2, <1>5, ReachedUnion
  <2> QED
    BY <1>3, <1>4, <1>5, <2>1
<1>6. CASE t # n
  <2>1. X = Children(E, t)
    BY <1>6
  <2>2. t \in Reached(E, A) /\ n \in Reached(E, Children(E, t))
    BY <1>3, <1>4, <2>1
  <2>3. Children(E, t) \subseteq Reached(E, A)
    <3>1. Closed(E, Reached(E, A))
      BY ReachedFacts
    <3> QED
      BY <2>2, <3>1 DEF Children, Closed
  <2>4. Reached(E, Children(E, t)) \subseteq Reached(E, A)
    BY <2>3, ReachedTransitive
  <2> QED
    BY <2>2, <2>4
<1> QED
  BY <1>5, <1>6

\* F has the edges of E, and edges from terms of symbol f to A.
MoreRoots(E, F, A, f) ==
  /\ A \subseteq Roots(F, f)
  /\ \A g : /\ Roots(E, g) \subseteq Roots(F, g)
            /\ Roots(F, g) \subseteq Roots(E, g) \cup (IF g = f THEN A ELSE {})
            /\ Roots(E, g) \subseteq Nat

LEMMA RootsFacts ==
  ASSUME NEW E, Edges(E), NEW n \in Nat, NEW A \in SUBSET Nat, NEW f, SymbolOf(n) = f
  PROVE  MoreRoots(E, E \cup ({n} \X A), A, f)
<1> DEFINE F == E \cup ({n} \X A)
<1>1. A \subseteq Roots(F, f)
  <2> SUFFICES ASSUME NEW a \in A
               PROVE  a \in Roots(F, f)
    OBVIOUS
  <2> DEFINE e == <<n, a>>
  <2>1. e \in F /\ SymbolOf(e[1]) = f /\ e[2] = a
    OBVIOUS
  <2> HIDE DEF e, F
  <2> QED
    BY <2>1 DEF Roots
<1>2. ASSUME NEW g
      PROVE  /\ Roots(E, g) \subseteq Roots(F, g)
             /\ Roots(F, g) \subseteq Roots(E, g) \cup (IF g = f THEN A ELSE {})
             /\ Roots(E, g) \subseteq Nat
  <2>1. Roots(E, g) \subseteq Roots(F, g)
    BY DEF Roots
  <2>2. ASSUME NEW u \in Roots(F, g)
        PROVE  u \in Roots(E, g) \cup (IF g = f THEN A ELSE {})
    <3>1. PICK e \in F : SymbolOf(e[1]) = g /\ e[2] = u
      BY <2>2 DEF Roots
    <3>2. CASE e \in E
      BY <3>1, <3>2 DEF Roots
    <3>3. CASE e \in {n} \X A
      <4>1. e[1] = n /\ e[2] \in A
        BY <3>3
      <4> QED
        BY <3>1, <4>1
    <3> QED
      BY <3>2, <3>3
  <2>3. Roots(E, g) \subseteq Nat
    BY EdgeFacts DEF Roots
  <2> QED
    BY <2>1, <2>2, <2>3
<1> HIDE DEF F
<1>3. MoreRoots(E, F, A, f)
  BY <1>1, <1>2 DEF MoreRoots
<1> QED
  BY <1>3 DEF F

\* The flag tells exactly whether a term contains its own symbol; without the flag, and
\* where terms are not summarised, no term contains itself.
Flag(rs, sum, tgt, F, cyc) ==
  /\ cyc \in BOOLEAN
  /\ cyc <=> \E g \in F : tgt \in {0, RuleOf(g)} /\ NestsIn(InsideOf(rs, sum), g)
  /\ Acyclic(InsideOf(rs, sum)) \/ (sum /\ cyc)

\* checkRecursive before a row is interned tells whether its arguments reach symbol f.
LEMMA ClosesFacts ==
  ASSUME NEW rs, NEW sum, NEW f, NEW N \in Nat, NEW E, Graphs(E, N, rs, sum),
         Acyclic(E), NEW row, Functions(row) \subseteq Terms(rs, sum)
  PROVE  ClosesCycle(rs, sum, f, row) <=> \E u \in Reached(E, Functions(row)) : SymbolOf(u) = f
<1> DEFINE A == Functions(row)
<1>1. Edges(E) /\ Terms(rs, sum) \subseteq Nat
  BY DEF Graphs
<1>2. A \in SUBSET Nat
  BY <1>1
<1>3. \A a \in A : CheckRecursive(rs, sum, f, a) <=> \E u \in Below(E, a) : SymbolOf(u) = f
  BY SearchFacts
<1>4. \A a \in A : Reached(E, {a}) = {a} \cup Below(E, a)
  <2> TAKE a \in A
  <2>1. a \in Nat
    BY <1>2
  <2> QED
    BY <1>1, <2>1, BelowFacts
<1> HIDE DEF A
<1>5. \A a \in A : Reached(E, {a}) \subseteq Reached(E, A)
  <2> TAKE a \in A
  <2>1. {a} \subseteq A
    OBVIOUS
  <2> QED
    BY <1>1, <1>2, <2>1, ReachedMonotone
<1>6. \A u \in Reached(E, A) : \E a \in A : u \in Reached(E, {a})
  BY <1>1, <1>2, ReachedFromOne
<1>7. ClosesCycle(rs, sum, f, row) <=> \E a \in A : \E u \in Reached(E, {a}) : SymbolOf(u) = f
  <2>1. ClosesCycle(rs, sum, f, row) <=> \E a \in A : SymbolOf(a) = f \/ CheckRecursive(rs, sum, f, a)
    BY DEF ClosesCycle, A
  <2>2. ASSUME NEW a \in A
        PROVE  (SymbolOf(a) = f \/ CheckRecursive(rs, sum, f, a)) <=> \E u \in Reached(E, {a}) : SymbolOf(u) = f
    BY <1>3, <1>4
  <2> QED
    BY <2>1, <2>2
<1>8. (\E a \in A : \E u \in Reached(E, {a}) : SymbolOf(u) = f) <=> \E u \in Reached(E, A) : SymbolOf(u) = f
  BY <1>5, <1>6
<1> QED
  BY <1>7, <1>8 DEF A

\* In a summarising chase, two terms with one symbol are one term.
LEMMA SummaryFacts ==
  ASSUME NEW M \in Nat, NEW F \in SUBSET (1 .. M), NEW rs, Typed(rs, TRUE, F),
         NEW t \in Terms(rs, TRUE), NEW u \in Terms(rs, TRUE), SymbolOf(t) = SymbolOf(u)
  PROVE  t = u
<1>1. ASSUME NEW w \in Terms(rs, TRUE)
      PROVE  w = TermOf(SymbolOf(w), 0)
  <2>1. HasRow(rs, TRUE, F, w)
    BY TermsFacts
  <2>2. PICK f \in F : \E i \in DOMAIN rs[f] : w = TermOf(f, Place(TRUE, i))
    BY <2>1 DEF HasRow
  <2>3. w = TermOf(f, 0)
    BY <2>2 DEF Place
  <2>4. f \in Nat \ {0} /\ 0 \in 0 .. CounterWidth - 1
    BY WidthAssumption
  <2>5. SymbolOf(TermOf(f, 0)) = f
    BY <2>4, TermFacts
  <2> QED
    BY <2>3, <2>5
<1>2. t = TermOf(SymbolOf(t), 0) /\ u = TermOf(SymbolOf(u), 0)
  BY <1>1
<1> QED
  BY <1>2

\* An acyclic summarising chase nests no symbol.
LEMMA SummaryNests ==
  ASSUME NEW M \in Nat, NEW F \in SUBSET (1 .. M), NEW rs, RowsOK(rs, TRUE, F), Room(rs, TRUE),
         Acyclic(InsideOf(rs, TRUE)), NEW g
  PROVE  ~NestsIn(InsideOf(rs, TRUE), g)
<1> DEFINE E == InsideOf(rs, TRUE)
<1>1. SUFFICES ASSUME NestsIn(E, g)
               PROVE  FALSE
  OBVIOUS
<1>2. Graphs(E, Bound(M), rs, TRUE) /\ Bound(M) \in Nat
  BY GraphFacts
<1>3. Edges(E) /\ Terms(rs, TRUE) \subseteq Nat /\ \A e \in E : e[1] \in Terms(rs, TRUE) /\ e[2] \in Terms(rs, TRUE)
  <2> HIDE DEF E
  <2>1. Edges(E) /\ Terms(rs, TRUE) \in SUBSET (0 .. Bound(M))
    BY <1>2 DEF Graphs
  <2>2. \A e \in E : e[1] \in Terms(rs, TRUE) /\ e[2] \in Terms(rs, TRUE)
    BY <1>2 DEF Graphs
  <2>3. 0 .. Bound(M) \subseteq Nat
    BY <1>2
  <2> QED
    BY <2>1, <2>2, <2>3
<1>4. Typed(rs, TRUE, F)
  BY DEF RowsOK, Typed
<1> HIDE DEF E
<1>5. PICK u \in Reached(E, Roots(E, g)) : SymbolOf(u) = g
  BY <1>1 DEF NestsIn
<1>6. Roots(E, g) \in SUBSET Nat
  BY <1>3 DEF Roots
<1>7. PICK r \in Roots(E, g) : u \in Reached(E, {r})
  BY <1>3, <1>6, ReachedFromOne
<1>8. PICK e \in E : SymbolOf(e[1]) = g /\ e[2] = r
  BY <1>7 DEF Roots
<1>9. r \in Children(E, e[1])
  BY <1>8 DEF Children
<1>10. e[1] \in Nat /\ Children(E, e[1]) \in SUBSET Nat
  BY <1>3 DEF Children
<1>11. u \in Below(E, e[1])
  <2>1. {r} \subseteq Children(E, e[1])
    BY <1>9
  <2> QED
    BY <1>3, <1>7, <1>10, <2>1, ReachedMonotone DEF Below
<1>12. u \in Terms(rs, TRUE)
  <2>1. Closed(E, Terms(rs, TRUE)) /\ Roots(E, g) \subseteq Terms(rs, TRUE)
    BY <1>3 DEF Closed, Roots
  <2>2. Reached(E, Roots(E, g)) \subseteq Terms(rs, TRUE)
    BY <1>3, <2>1, ReachedLeast
  <2> QED
    BY <2>2
<1>13. u = e[1]
  BY <1>3, <1>4, <1>5, <1>8, <1>12, SummaryFacts
<1> QED
  BY <1>10, <1>11, <1>13 DEF Acyclic, E

\* Interning a row and looking for its symbol among its arguments keeps the flag exact.
\* A typed row is interned, in state rs to state next, and looked through for its symbol.
Checks(M, F, rs, sum, f, row, next, tgt, cyc, checked, cyc2) ==
  /\ M \in Nat /\ F \in SUBSET (1 .. M) /\ sum \in BOOLEAN /\ checked \in BOOLEAN
  /\ f \in F /\ RowsOK(rs, sum, F) /\ Room(rs, sum) /\ Room(next, sum)
  /\ Brings(rs, next, sum, F, f, row)
  /\ sum => tgt = 0
  /\ checked <=> tgt \in {0, RuleOf(f)}
  /\ cyc2 = (cyc \/ (checked /\ ClosesCycle(rs, sum, f, row)))

LEMMA FlagStep ==
  ASSUME NEW M, NEW F, NEW rs, NEW sum, NEW f, NEW row, NEW next, NEW tgt, NEW cyc,
         NEW checked, NEW cyc2, Checks(M, F, rs, sum, f, row, next, tgt, cyc, checked, cyc2),
         Flag(rs, sum, tgt, F, cyc)
  PROVE  Flag(next, sum, tgt, F, cyc2)
<1>0. /\ M \in Nat /\ F \in SUBSET (1 .. M) /\ sum \in BOOLEAN /\ checked \in BOOLEAN
      /\ f \in F /\ RowsOK(rs, sum, F) /\ Room(rs, sum) /\ Room(next, sum)
      /\ Brings(rs, next, sum, F, f, row)
      /\ sum => tgt = 0
      /\ checked <=> tgt \in {0, RuleOf(f)}
      /\ cyc2 = (cyc \/ (checked /\ ClosesCycle(rs, sum, f, row)))
  BY DEF Checks
<1> DEFINE E == InsideOf(rs, sum)
           E2 == InsideOf(next, sum)
           A == Functions(row)
           n == TermFor(next, sum, f, row)
           N == Bound(M)
           C == \E u \in Reached(E, A) : SymbolOf(u) = f
           nests(g) == tgt \in {0, RuleOf(g)} /\ NestsIn(E, g)
           nests2(g) == tgt \in {0, RuleOf(g)} /\ NestsIn(E2, g)
<1>1. Graphs(E, N, rs, sum) /\ N \in Nat
  BY <1>0, GraphFacts
<1>2. Graphs(E2, N, next, sum) /\ RowsOK(next, sum, F)
  <2>1. RowsOK(next, sum, F)
    BY <1>0 DEF Brings
  <2> QED
    BY <1>0, <2>1, GraphFacts
<1>3. /\ E2 = E \cup ({n} \X A) /\ A \subseteq Terms(rs, sum)
      /\ n \in Terms(next, sum) /\ SymbolOf(n) = f
      /\ Contains(rs[f], row) => E2 = E
      /\ ~Contains(rs[f], row) /\ ~sum => n \notin Terms(rs, sum)
  BY <1>0 DEF Brings
<1>4. /\ Edges(E) /\ Edges(E2) /\ Terms(rs, sum) \subseteq Nat /\ Terms(next, sum) \subseteq Nat
      /\ Closed(E, Terms(rs, sum))
      /\ \A g : Roots(E, g) \subseteq Terms(rs, sum)
  BY <1>1, <1>2 DEF Graphs, Closed, Roots
<1>5. n \in Nat /\ A \in SUBSET Nat
  BY <1>3, <1>4
<1>6. cyc \in BOOLEAN /\ (cyc <=> \E g \in F : nests(g)) /\ (Acyclic(E) \/ (sum /\ cyc))
  BY DEF Flag
<1>7. Acyclic(E) => (ClosesCycle(rs, sum, f, row) <=> C)
  BY <1>1, <1>3, ClosesFacts
<1> HIDE DEF E, E2, A, n, N
<1>8. /\ A \subseteq Roots(E2, f)
      /\ \A g : /\ Roots(E, g) \subseteq Roots(E2, g) /\ Roots(E2, g) \in SUBSET Nat
                /\ Roots(E2, g) \subseteq Roots(E, g) \cup (IF g = f THEN A ELSE {})
  <2>1. /\ A \subseteq Roots(E2, f)
        /\ \A g : /\ Roots(E, g) \subseteq Roots(E2, g)
                  /\ Roots(E2, g) \subseteq Roots(E, g) \cup (IF g = f THEN A ELSE {})
    <3>1. E2 = E \cup ({n} \X A) /\ SymbolOf(n) = f
      BY <1>3
    <3>2. MoreRoots(E, E2, A, f)
      BY <1>4, <1>5, <3>1, RootsFacts
    <3> QED
      BY <3>2 DEF MoreRoots
  <2>2. \A g : Roots(E2, g) \subseteq Nat
    BY <1>4, <1>5, <2>1
  <2> QED
    BY <2>1, <2>2
<1>9. ASSUME NEW g, NestsIn(E, g)
      PROVE  NestsIn(E2, g)
  <2>1. Reached(E, Roots(E, g)) \subseteq Reached(E2, Roots(E2, g))
    <3>1. E \subseteq E2
      BY <1>3
    <3> QED
      BY <1>4, <1>8, <3>1, ReachedMonotone
  <2> QED
    BY <1>9, <2>1 DEF NestsIn
<1>10. C => NestsIn(E2, f)
  <2>1. Reached(E, A) \subseteq Reached(E2, Roots(E2, f))
    <3>1. E \subseteq E2
      BY <1>3
    <3> QED
      BY <1>4, <1>8, <3>1, ReachedMonotone
  <2> QED
    BY <2>1 DEF NestsIn
<1>11. Reached(E, A) \subseteq Terms(rs, sum)
  BY <1>3, <1>4, ReachedLeast
<1>12. ASSUME ~sum
       PROVE  /\ Acyclic(E2)
              /\ \A g \in F : NestsIn(E2, g) => NestsIn(E, g) \/ (g = f /\ C)
  <2>1. Acyclic(E)
    BY <1>6, <1>12
  <2>2. CASE Contains(rs[f], row)
    BY <1>3, <2>1, <2>2
  <2>3. CASE ~Contains(rs[f], row)
    <3>1. n \notin Terms(rs, sum)
      BY <1>3, <1>12, <2>3
    <3>2. n \notin Reached(E, A)
      BY <1>11, <3>1
    <3>3. Acyclic(E2)
      BY <1>3, <1>4, <1>5, <2>1, <3>2, AcyclicWithMore
    <3>4. ASSUME NEW g \in F, NestsIn(E2, g)
          PROVE  NestsIn(E, g) \/ (g = f /\ C)
      <4>1. PICK u \in Reached(E2, Roots(E2, g)) : SymbolOf(u) = g
        BY <3>4 DEF NestsIn
      <4>2. Roots(E2, g) \subseteq Terms(rs, sum)
        BY <1>3, <1>4, <1>8
      <4>3. Reached(E, Roots(E2, g)) \subseteq Terms(rs, sum)
        BY <1>4, <4>2, ReachedLeast
      <4>4. u \in Reached(E, Roots(E2, g))
        <5>1. u \in Reached(E, Roots(E2, g)) \cup { w \in Reached(E, A) : n \in Reached(E, Roots(E2, g)) }
          BY <1>3, <1>4, <1>5, <1>8, <4>1, ReachedWithMore
        <5> QED
          BY <3>1, <4>3, <5>1
      <4>5. CASE g # f
        <5>1. Roots(E2, g) = Roots(E, g)
          BY <1>8, <4>5
        <5> QED
          BY <4>1, <4>4, <5>1 DEF NestsIn
      <4>6. CASE g = f
        <5>1. Roots(E2, g) = Roots(E, g) \cup A
          BY <1>8, <4>6
        <5>2. Roots(E, g) \in SUBSET Nat
          BY <1>8
        <5>3. u \in Reached(E, Roots(E, g)) \cup Reached(E, A)
          BY <1>4, <1>5, <4>4, <5>1, <5>2, ReachedUnion
        <5> QED
          BY <4>1, <4>6, <5>3 DEF NestsIn
      <4> QED
        BY <4>5, <4>6
    <3> QED
      BY <3>3, <3>4
  <2> QED
    BY <2>2, <2>3
<1>13. ASSUME sum, ~cyc, ~C
       PROVE  Acyclic(E2) /\ \A g \in F : ~NestsIn(E2, g)
  <2>1. n \notin Reached(E, A)
    BY <1>3, <1>13
  <2>2. Acyclic(E)
    BY <1>6, <1>13
  <2>3. Acyclic(E2)
    BY <1>3, <1>4, <1>5, <2>1, <2>2, AcyclicWithMore
  <2>4. sum = TRUE
    BY <1>13
  <2>5. \A g \in F : ~NestsIn(E2, g)
    BY <1>0, <1>2, <2>3, <2>4, SummaryNests DEF E2
  <2> QED
    BY <2>3, <2>5
<1>14. ASSUME ~cyc
       PROVE  cyc2 <=> checked /\ C
  BY <1>0, <1>6, <1>7, <1>14
<1>15. cyc2 \in BOOLEAN
  BY <1>0, <1>6
<1>16. cyc2 <=> \E g \in F : nests2(g)
  <2>1. CASE cyc
    <3>1. PICK g \in F : nests(g)
      BY <1>6, <2>1
    <3> QED
      BY <1>0, <1>9, <2>1, <3>1
  <2>2. CASE ~cyc /\ checked /\ C
    <3>1. nests2(f)
      BY <1>0, <1>10, <2>2
    <3> QED
      BY <1>0, <1>14, <2>2, <3>1
  <2>3. CASE ~cyc /\ ~(checked /\ C)
    <3>1. ~cyc2
      BY <1>14, <2>3
    <3>2. ASSUME NEW g \in F, nests2(g)
          PROVE  FALSE
      <4>1. CASE ~sum
        <5>1. NestsIn(E, g) \/ (g = f /\ C)
          BY <1>12, <3>2, <4>1
        <5>2. CASE NestsIn(E, g)
          BY <1>6, <2>3, <3>2, <5>2
        <5>3. CASE g = f /\ C
          BY <1>0, <2>3, <3>2, <5>3
        <5> QED
          BY <5>1, <5>2, <5>3
      <4>2. CASE sum
        <5>1. ~C
          BY <1>0, <2>3, <4>2
        <5> QED
          BY <1>13, <2>3, <3>2, <4>2, <5>1
      <4> QED
        BY <4>1, <4>2
    <3> QED
      BY <3>1, <3>2
  <2> QED
    BY <1>15, <2>1, <2>2, <2>3
<1>17. Acyclic(E2) \/ (sum /\ cyc2)
  <2>1. CASE ~sum
    BY <1>12, <2>1
  <2>2. CASE sum /\ cyc
    BY <1>0, <2>2
  <2>3. CASE sum /\ ~cyc /\ C
    BY <1>0, <1>14, <2>3
  <2>4. CASE sum /\ ~cyc /\ ~C
    BY <1>13, <2>4
  <2> HIDE DEF C
  <2> QED
    BY <1>0, <1>6, <2>1, <2>2, <2>3, <2>4
<1> QED
  BY <1>15, <1>16, <1>17 DEF Flag, E2

-----------------------------------------------------------------------------
(* The chase manager along a column of rows                                *)

\* The state of the chase manager with the function symbols F.
Manager(F) == [rows : [F -> Seq(Seq(Nat))], cyclic : BOOLEAN, ids : Seq(Nat)]

InternRow(a, sum, checked, f, row) ==
  [rows |-> Intern(a.rows, f, row),
   cyclic |-> a.cyclic \/ (checked /\ ClosesCycle(a.rows, sum, f, row)),
   ids |-> Append(a.ids, TermFor(Intern(a.rows, f, row), sum, f, row))]

LEMMA InternRowTyped ==
  ASSUME NEW F \in SUBSET Nat, NEW sum \in BOOLEAN, NEW checked,
         NEW f \in F, NEW a \in Manager(F), NEW row \in Seq(Nat)
  PROVE  /\ InternRow(a, sum, checked, f, row) \in Manager(F)
         /\ Grows(a.rows, InternRow(a, sum, checked, f, row).rows, F, f, row)
<1> DEFINE rs == a.rows
           next == Intern(rs, f, row)
           n == TermFor(next, sum, f, row)
<1>1. rs \in [F -> Seq(Seq(Nat))] /\ a.cyclic \in BOOLEAN /\ a.ids \in Seq(Nat)
  BY DEF Manager
<1>2. Grows(rs, next, F, f, row)
  <2> HIDE DEF rs
  <2> QED
    BY <1>1, InternTyped
<1>3. n \in Nat
  <2>1. CounterWidth \in Nat /\ f \in Nat
    BY WidthAssumption
  <2>2. next \in [F -> Seq(Seq(Nat))] /\ \E i \in DOMAIN next[f] : next[f][i] = row
    <3> HIDE DEF next, rs
    <3> QED
      BY <1>2 DEF Grows
  <2> DEFINE i == CHOOSE i \in DOMAIN next[f] : next[f][i] = row
  <2>3. i \in DOMAIN next[f]
    <3> HIDE DEF next, rs
    <3> QED
      BY <2>2
  <2>4. i - 1 \in Nat
    <3> HIDE DEF next, rs, i
    <3>1. next[f] \in Seq(Seq(Nat))
      BY <2>2
    <3> QED
      BY <2>3, <3>1
  <2> DEFINE c == IF sum THEN 0 ELSE i - 1
  <2>5. c \in Nat
    <3> HIDE DEF i
    <3> QED
      BY <2>4
  <2>6. n = f * CounterWidth + c
    BY DEF TermFor, TermOf
  <2> HIDE DEF c, n
  <2> QED
    BY <2>1, <2>5, <2>6
<1>4. next \in [F -> Seq(Seq(Nat))]
  <2> HIDE DEF next, rs
  <2> QED
    BY <1>2 DEF Grows
<1>5. Append(a.ids, n) \in Seq(Nat)
  <2> HIDE DEF n
  <2> QED
    BY <1>1, <1>3
<1>6. (a.cyclic \/ (checked /\ ClosesCycle(rs, sum, f, row))) \in BOOLEAN
  OBVIOUS
<1> QED
  BY <1>2, <1>4, <1>5, <1>6 DEF InternRow, Manager

LEMMA Restarted ==
  ASSUME NEW F, NEW s \in Manager(F)
  PROVE  /\ [s EXCEPT !.ids = << >>] \in Manager(F)
         /\ [s EXCEPT !.ids = << >>] = [rows |-> s.rows, cyclic |-> s.cyclic, ids |-> << >>]
<1>1. s = [rows |-> s.rows, cyclic |-> s.cyclic, ids |-> s.ids]
  BY DEF Manager
<1>2. s.rows \in [F -> Seq(Seq(Nat))] /\ s.cyclic \in BOOLEAN
  BY DEF Manager
<1>3. [s EXCEPT !.ids = << >>] = [rows |-> s.rows, cyclic |-> s.cyclic, ids |-> << >>]
  BY <1>1
<1>4. << >> \in Seq(Nat)
  OBVIOUS
<1> QED
  BY <1>2, <1>3, <1>4 DEF Manager

\* NewOrExistingIDs, row by row.
IDsRun(g, s, sum, checked, f, column) ==
  /\ g[0] = [s EXCEPT !.ids = << >>] /\ g[Len(column)] = NewOrExistingIDs(s, sum, checked, f, column)
  /\ \A k \in 1 .. Len(column) : g[k] = InternRow(g[k - 1], sum, checked, f, column[k])

LEMMA IDsSteps ==
  ASSUME NEW F \in SUBSET Nat, NEW sum \in BOOLEAN, NEW checked,
         NEW f \in F, NEW s \in Manager(F), NEW column \in Seq(Seq(Nat))
  PROVE  \E g \in [0 .. Len(column) -> Manager(F)] : IDsRun(g, s, sum, checked, f, column)
<1> DEFINE T == Manager(F)
           B == Seq(Nat)
           op(a, x) == InternRow(a, sum, checked, f, x)
           step == [z \in T \X B |-> op(z[1], z[2])]
<1>1. PICK n \in Nat : n = Len(column)
  OBVIOUS
<1>2. DOMAIN column = 1 .. n /\ column \in [1 .. n -> B] /\ [s EXCEPT !.ids = << >>] \in T
  <2>1. [s EXCEPT !.ids = << >>] \in T
    BY Restarted
  <2> QED
    BY <1>1, <2>1
<1>3. ASSUME NEW a \in T, NEW x \in B
      PROVE  op(a, x) \in T
  BY InternRowTyped
<1> HIDE DEF op, T, B
<1>4. step \in [T \X B -> T]
  BY <1>3
<1>5. \A a \in T, x \in B : step[<<a, x>>] = op(a, x)
  <2> TAKE a \in T, x \in B
  <2>1. PICK z \in T \X B : z = <<a, x>>
    OBVIOUS
  <2> QED
    BY <2>1
<1> HIDE DEF step
<1>6. PICK G \in [SUBSET (1 .. n) -> T] : Recursion(G, n, [s EXCEPT !.ids = << >>], column, step)
  BY <1>2, <1>4, RecursionExists
<1> DEFINE Body(iter) == [d \in SUBSET (1 .. n) |->
                            IF d = {} THEN [s EXCEPT !.ids = << >>] ELSE op(iter[d \ {Max(d)}], column[Max(d)])]
<1>7. \A d \in SUBSET (1 .. n) : G[d] = Body(G)[d]
  <2> TAKE d \in SUBSET (1 .. n)
  <2>1. CASE d = {}
    BY <1>6, <2>1 DEF Recursion
  <2>2. CASE d # {}
    <3>1. Max(d) \in 1 .. n /\ d \ {Max(d)} \in SUBSET (1 .. n)
      BY <2>2, MaxOfSet
    <3>2. column[Max(d)] \in B /\ G[d \ {Max(d)}] \in T
      BY <3>1, <1>2
    <3>3. step[<<G[d \ {Max(d)}], column[Max(d)]>>] = op(G[d \ {Max(d)}], column[Max(d)])
      BY <1>5, <3>2
    <3> QED
      BY <1>6, <2>2, <3>3 DEF Recursion
  <2> QED
    BY <2>1, <2>2
<1>8. G = Body(G)
  <2>1. DOMAIN G = DOMAIN Body(G)
    OBVIOUS
  <2> QED
    BY <1>7
<1>9. NewOrExistingIDs(s, sum, checked, f, column) = (CHOOSE iter : iter = Body(iter))[1 .. n]
  <2>1. DOMAIN column = 1 .. n
    BY <1>2
  <2> QED
    BY <2>1 DEF NewOrExistingIDs, InternRow, FoldLeft, MapThenFoldSet, op
<1>10. PICK iter : iter = Body(iter) /\ NewOrExistingIDs(s, sum, checked, f, column) = iter[1 .. n]
  <2> HIDE DEF Body
  <2> QED
    BY <1>8, <1>9
<1>11. iter[{}] = [s EXCEPT !.ids = << >>]
  <2>1. {} \in SUBSET (1 .. n)
    OBVIOUS
  <2> QED
    BY <1>10, <2>1
<1>12. ASSUME NEW k \in 1 .. n
       PROVE  iter[1 .. k] = op(iter[1 .. (k - 1)], column[k])
  <2>1. k \in Nat \ {0} /\ 1 .. k \in SUBSET (1 .. n)
    BY <1>1
  <2>2. Max(1 .. k) = k /\ (1 .. k) \ {k} = 1 .. (k - 1) /\ 1 .. k # {}
    BY <2>1, MaxOfUpTo
  <2> QED
    BY <1>10, <2>1, <2>2
<1>13. PICK g \in [0 .. n -> T] : Folds(g, n, [s EXCEPT !.ids = << >>], column, step, iter[1 .. n])
  <2>1. \A k \in 1 .. n : iter[1 .. (k - 1)] \in T =>
          iter[1 .. k] = step[<<iter[1 .. (k - 1)], column[k]>>]
    BY <1>2, <1>5, <1>12
  <2> HIDE DEF Body
  <2> QED
    BY <1>2, <1>4, <1>11, <2>1, FoldSteps
<1>14. \A k \in 1 .. n : g[k] = op(g[k - 1], column[k])
  <2> TAKE k \in 1 .. n
  <2>1. g[k - 1] \in T /\ column[k] \in B
    BY <1>2
  <2> QED
    BY <1>5, <1>13, <2>1 DEF Folds
<1>15. g[0] = [s EXCEPT !.ids = << >>] /\ g[n] = NewOrExistingIDs(s, sum, checked, f, column)
  BY <1>10, <1>13 DEF Folds
<1>16. IDsRun(g, s, sum, checked, f, column)
  BY <1>1, <1>14, <1>15 DEF op, IDsRun
<1>17. g \in [0 .. Len(column) -> Manager(F)]
  BY <1>1 DEF T
<1> QED
  BY <1>16, <1>17

Grown(rs, next, F) == \A g \in F : Len(rs[g]) <= Len(next[g])

LEMMA GrownFacts ==
  ASSUME NEW F, NEW rs \in [F -> Seq(Seq(Nat))], NEW next \in [F -> Seq(Seq(Nat))],
         Grown(rs, next, F)
  PROVE  /\ \A sum : Room(next, sum) => Room(rs, sum)
         /\ \A last \in [F -> Seq(Seq(Nat))] : Grown(next, last, F) => Grown(rs, last, F)
<1>1. \A g \in F : Len(rs[g]) \in Nat /\ Len(next[g]) \in Nat /\ Len(rs[g]) <= Len(next[g])
  BY DEF Grown
<1>2. ASSUME NEW sum, Room(next, sum)
      PROVE  Room(rs, sum)
  <2>1. CounterWidth \in Nat
    BY WidthAssumption
  <2>2. sum \/ \A g \in F : Len(next[g]) < CounterWidth
    BY <1>2 DEF Room
  <2>3. sum \/ \A g \in F : Len(rs[g]) < CounterWidth
    BY <1>1, <2>1, <2>2
  <2> QED
    BY <2>3 DEF Room
<1>3. ASSUME NEW last \in [F -> Seq(Seq(Nat))], Grown(next, last, F)
      PROVE  Grown(rs, last, F)
  <2>1. \A g \in F : Len(last[g]) \in Nat /\ Len(next[g]) <= Len(last[g])
    BY <1>3 DEF Grown
  <2> QED
    BY <1>1, <2>1 DEF Grown
<1> QED
  BY <1>2, <1>3

\* The rows are well formed and, where terms are checked, the flag is exact.
Sound(a, sum, tgt, chk, F) ==
  RowsOK(a.rows, sum, F) /\ (chk => Flag(a.rows, sum, tgt, F, a.cyclic))

\* b comes of a, and is sound with more terms when a was sound.
Follows(a, b, sum, tgt, chk, F) ==
  /\ Sound(b, sum, tgt, chk, F)
  /\ Terms(a.rows, sum) \subseteq Terms(b.rows, sum)

\* A checked function symbol f in the chase of the rules of target tgt, or of all rules.
Checking(M, F, sum, tgt, chk, checked, f) ==
  /\ M \in Nat /\ F \in SUBSET (1 .. M) /\ sum \in BOOLEAN
  /\ sum => tgt = 0
  /\ chk \in BOOLEAN /\ checked \in BOOLEAN /\ f \in F
  /\ checked <=> chk /\ tgt \in {0, RuleOf(f)}

LEMMA InternRowSound ==
  ASSUME NEW M, NEW F, NEW sum, NEW tgt, NEW chk, NEW checked, NEW f,
         Checking(M, F, sum, tgt, chk, checked, f),
         NEW a \in Manager(F), NEW row \in Seq(Nat), NEW b, b = InternRow(a, sum, checked, f, row),
         Sound(a, sum, tgt, chk, F), Room(b.rows, sum), ToSet(row) \subseteq Values(a.rows, sum)
  PROVE  /\ Follows(a, b, sum, tgt, chk, F)
         /\ TermFor(b.rows, sum, f, row) \in Terms(b.rows, sum)
<1>0. /\ M \in Nat /\ F \in SUBSET (1 .. M) /\ sum \in BOOLEAN
      /\ sum => tgt = 0
      /\ chk \in BOOLEAN /\ checked \in BOOLEAN /\ f \in F
      /\ checked <=> chk /\ tgt \in {0, RuleOf(f)}
  BY DEF Checking
<1> DEFINE rs == a.rows
           next == Intern(rs, f, row)
<1>1. rs \in [F -> Seq(Seq(Nat))] /\ b.rows = next
  BY DEF Manager, InternRow
<1>2. Room(next, sum) /\ RowsOK(rs, sum, F) /\ ToSet(row) \subseteq Values(rs, sum)
  BY <1>1 DEF Sound
<1>3. Brings(rs, next, sum, F, f, row)
  <2> HIDE DEF rs
  <2> QED
    BY <1>0, <1>1, <1>2, InternFacts
<1>4. /\ RowsOK(next, sum, F) /\ TermFor(next, sum, f, row) \in Terms(next, sum)
      /\ Terms(rs, sum) \subseteq Terms(next, sum)
  <2> HIDE DEF rs, next
  <2> QED
    BY <1>3 DEF Brings
<1>5. Room(rs, sum)
  <2>1. Grows(rs, next, F, f, row)
    <3> HIDE DEF rs
    <3> QED
      BY <1>0, <1>1, InternTyped
  <2>2. Grown(rs, next, F) /\ next \in [F -> Seq(Seq(Nat))]
    <3> HIDE DEF rs, next
    <3> QED
      BY <2>1 DEF Grows, Grown
  <2> HIDE DEF rs, next
  <2> QED
    BY <1>1, <1>2, <2>2, GrownFacts
<1>6. ASSUME chk
      PROVE  Flag(next, sum, tgt, F, b.cyclic)
  <2>1. Flag(rs, sum, tgt, F, a.cyclic)
    BY <1>6 DEF Sound
  <2>2. b.cyclic = (a.cyclic \/ (checked /\ ClosesCycle(rs, sum, f, row)))
    BY DEF InternRow
  <2>3. checked <=> tgt \in {0, RuleOf(f)}
    BY <1>0, <1>6
  <2> HIDE DEF rs, next
  <2> QED
    <3>1. Checks(M, F, rs, sum, f, row, next, tgt, a.cyclic, checked, b.cyclic)
      BY <1>0, <1>2, <1>3, <1>5, <2>2, <2>3 DEF Checks
    <3> QED
      BY <2>1, <3>1, FlagStep
<1> HIDE DEF next
<1>7. Sound(b, sum, tgt, chk, F)
  BY <1>1, <1>4, <1>6 DEF Sound
<1> QED
  BY <1>1, <1>4, <1>7 DEF Follows

IDsResult(s, e, sum, tgt, chk, F, column) ==
  /\ e \in Manager(F) /\ Len(e.ids) = Len(column)
  /\ Grown(s.rows, e.rows, F)
  /\ /\ Room(e.rows, sum) /\ Sound(s, sum, tgt, chk, F)
     /\ \A k \in DOMAIN column : ToSet(column[k]) \subseteq Values(s.rows, sum)
     => /\ Follows(s, e, sum, tgt, chk, F)
        /\ \A k \in DOMAIN e.ids : e.ids[k] \in Terms(e.rows, sum)

\* Terms for a column of rows keep the chase manager sound.
LEMMA IDsFacts ==
  ASSUME NEW M, NEW F, NEW sum, NEW tgt, NEW chk, NEW checked, NEW f,
         Checking(M, F, sum, tgt, chk, checked, f),
         NEW s \in Manager(F), NEW column \in Seq(Seq(Nat))
  PROVE  IDsResult(s, NewOrExistingIDs(s, sum, checked, f, column), sum, tgt, chk, F, column)
<1>0. /\ M \in Nat /\ F \in SUBSET (1 .. M) /\ sum \in BOOLEAN /\ f \in F
  BY DEF Checking
<1>a. F \in SUBSET Nat
  BY <1>0
<1> DEFINE e == NewOrExistingIDs(s, sum, checked, f, column)
           ok == /\ Room(e.rows, sum) /\ Sound(s, sum, tgt, chk, F)
                 /\ \A k \in DOMAIN column : ToSet(column[k]) \subseteq Values(s.rows, sum)
           right(a) == /\ Follows(s, a, sum, tgt, chk, F)
                       /\ \A k \in DOMAIN a.ids : a.ids[k] \in Terms(a.rows, sum)
<1>1. PICK n \in Nat : n = Len(column) /\ DOMAIN column = 1 .. n /\ column \in [1 .. n -> Seq(Nat)]
  OBVIOUS
<1>2. PICK g \in [0 .. n -> Manager(F)] : IDsRun(g, s, sum, checked, f, column)
  <2>1. PICK g \in [0 .. Len(column) -> Manager(F)] : IDsRun(g, s, sum, checked, f, column)
    BY <1>0, <1>a, IDsSteps
  <2> QED
    BY <1>1, <2>1
<1>3. /\ g[0] = [s EXCEPT !.ids = << >>] /\ g[n] = e
      /\ \A k \in 1 .. n : g[k] = InternRow(g[k - 1], sum, checked, f, column[k])
  BY <1>1, <1>2 DEF IDsRun
<1> HIDE DEF e
<1>4. g[0].rows = s.rows /\ g[0].cyclic = s.cyclic /\ g[0].ids = << >>
  BY <1>3, Restarted
<1>5. \A k \in 0 .. n : /\ g[k] \in Manager(F) /\ g[k].rows \in [F -> Seq(Seq(Nat))]
                        /\ g[k].ids \in Seq(Nat)
  BY <1>2 DEF Manager
<1>6. ASSUME NEW k \in 1 .. n
      PROVE  /\ Grown(g[k - 1].rows, g[k].rows, F)
             /\ g[k].ids = Append(g[k - 1].ids, TermFor(g[k].rows, sum, f, column[k]))
             /\ k - 1 \in 0 .. n /\ k \in 0 .. n /\ column[k] \in Seq(Nat)
  <2>1. k - 1 \in 0 .. n /\ k \in 0 .. n /\ column[k] \in Seq(Nat)
    BY <1>1
  <2>a. PICK a \in Manager(F) : a = g[k - 1]
    BY <1>5, <2>1
  <2>b. PICK row \in Seq(Nat) : row = column[k]
    BY <2>1
  <2>c. g[k] = InternRow(a, sum, checked, f, row)
    BY <1>3, <2>a, <2>b
  <2>2. Grows(g[k - 1].rows, g[k].rows, F, f, column[k])
    BY <1>0, <1>a, <2>a, <2>b, <2>c, InternRowTyped
  <2>3. g[k].ids = Append(g[k - 1].ids, TermFor(g[k].rows, sum, f, column[k]))
    BY <2>a, <2>b, <2>c DEF InternRow
  <2> QED
    BY <2>1, <2>2, <2>3 DEF Grows, Grown
<1> DEFINE far == { k \in 0 .. n : Len(g[k].ids) = k /\ Grown(s.rows, g[k].rows, F) }
<1>7. 0 .. n \subseteq far
  <2>1. 0 \in far
    <3>1. \A h \in F : Len(s.rows[h]) \in Nat
      BY <1>4, <1>5
    <3> QED
      BY <1>4, <3>1 DEF Grown
  <2>2. \A k \in 1 .. n : k - 1 \in far => k \in far
    <3> TAKE k \in 1 .. n
    <3> HAVE k - 1 \in far
    <3>1. Grown(s.rows, g[k].rows, F)
      <4>1. s.rows \in [F -> Seq(Seq(Nat))] /\ g[k - 1].rows \in [F -> Seq(Seq(Nat))] /\ g[k].rows \in [F -> Seq(Seq(Nat))]
        <5>1. s.rows \in [F -> Seq(Seq(Nat))]
          BY DEF Manager
        <5>2. k - 1 \in 0 .. n /\ k \in 0 .. n
          BY <1>6
        <5> QED
          BY <1>5, <5>1, <5>2
      <4>a. PICK r0 \in [F -> Seq(Seq(Nat))] : r0 = s.rows
        BY <4>1
      <4>b. PICK r1 \in [F -> Seq(Seq(Nat))] : r1 = g[k - 1].rows
        BY <4>1
      <4>c. PICK r2 \in [F -> Seq(Seq(Nat))] : r2 = g[k].rows
        BY <4>1
      <4>2. Grown(r0, r1, F) /\ Grown(r1, r2, F)
        BY <1>6, <4>a, <4>b, <4>c
      <4>3. Grown(r0, r2, F)
        BY <4>2, GrownFacts
      <4> QED
        BY <4>3, <4>a, <4>c
    <3>2. Len(g[k].ids) = k
      <4>1. g[k - 1].ids \in Seq(Nat) /\ g[k].ids \in Seq(Nat) /\ Len(g[k - 1].ids) = k - 1
        BY <1>5, <1>6
      <4> QED
        BY <1>6, <4>1
    <3> QED
      BY <1>6, <3>1, <3>2
  <2> HIDE DEF far
  <2> QED
    BY <2>1, <2>2, UpTo
<1>8. ASSUME ok
      PROVE  right(g[n])
  <2> DEFINE roomy == { k \in 0 .. n : Room(g[n - k].rows, sum) }
             good == { k \in 0 .. n : right(g[k]) }
  <2>1. 0 .. n \subseteq roomy
    <3>1. 0 \in roomy
      BY <1>3, <1>8
    <3>2. \A k \in 1 .. n : k - 1 \in roomy => k \in roomy
      <4> TAKE k \in 1 .. n
      <4> HAVE k - 1 \in roomy
      <4>1. PICK m \in 1 .. n : m = n - (k - 1) /\ m - 1 = n - k
        OBVIOUS
      <4>2. Room(g[m].rows, sum)
        BY <4>1
      <4>3. Room(g[m - 1].rows, sum)
        <5>1. g[m - 1].rows \in [F -> Seq(Seq(Nat))] /\ g[m].rows \in [F -> Seq(Seq(Nat))]
          BY <1>5, <1>6
        <5>2. Grown(g[m - 1].rows, g[m].rows, F)
          BY <1>6
        <5>3. PICK r1 \in [F -> Seq(Seq(Nat))] : r1 = g[m - 1].rows
          BY <5>1
        <5>4. PICK r2 \in [F -> Seq(Seq(Nat))] : r2 = g[m].rows
          BY <5>1
        <5>5. Grown(r1, r2, F) /\ Room(r2, sum)
          BY <4>2, <5>2, <5>3, <5>4
        <5>6. Room(r1, sum)
          BY <5>5, GrownFacts
        <5> QED
          BY <5>3, <5>6
      <4> QED
        BY <4>1, <4>3
    <3> HIDE DEF roomy
    <3> QED
      BY <3>1, <3>2, UpTo
  <2>2. \A k \in 0 .. n : Room(g[k].rows, sum)
    <3> TAKE k \in 0 .. n
    <3>1. n - k \in 0 .. n /\ n - (n - k) = k
      OBVIOUS
    <3>2. n - k \in roomy
      <4> HIDE DEF roomy
      <4> QED
        BY <2>1, <3>1
    <3> QED
      BY <3>1, <3>2
  <2>3. 0 \in good
    <3>1. Sound(g[0], sum, tgt, chk, F)
      BY <1>4, <1>8 DEF Sound
    <3>2. \A k \in DOMAIN g[0].ids : FALSE
      BY <1>4
    <3> QED
      BY <1>4, <3>1, <3>2 DEF Follows
  <2>4. \A k \in 1 .. n : k - 1 \in good => k \in good
    <3> TAKE k \in 1 .. n
    <3> HAVE k - 1 \in good
    <3>0. right(g[k - 1])
      OBVIOUS
    <3>1. PICK a \in Manager(F) : a = g[k - 1]
      BY <1>5, <1>6
    <3>2. PICK b \in Manager(F) : b = g[k]
      BY <1>5, <1>6
    <3>x. PICK row \in Seq(Nat) : row = column[k]
      BY <1>6
    <3>3. b = InternRow(a, sum, checked, f, row) /\ Room(b.rows, sum)
      BY <1>3, <1>6, <2>2, <3>1, <3>2, <3>x
    <3>4. Sound(a, sum, tgt, chk, F) /\ Terms(s.rows, sum) \subseteq Terms(a.rows, sum)
      BY <3>0, <3>1 DEF Follows
    <3>5. ToSet(row) \subseteq Values(a.rows, sum)
      BY <1>1, <1>8, <3>4, <3>x DEF Values
    <3>6. /\ Follows(a, b, sum, tgt, chk, F)
          /\ TermFor(b.rows, sum, f, row) \in Terms(b.rows, sum)
      BY <3>3, <3>4, <3>5, InternRowSound
    <3>7. Follows(s, b, sum, tgt, chk, F) /\ Terms(a.rows, sum) \subseteq Terms(b.rows, sum)
      BY <3>4, <3>6 DEF Follows
    <3>8. \A i \in DOMAIN b.ids : b.ids[i] \in Terms(b.rows, sum)
      <4>1. b.ids = Append(a.ids, TermFor(b.rows, sum, f, row)) /\ a.ids \in Seq(Nat)
        BY <1>5, <1>6, <3>1, <3>2, <3>x
      <4>2. \A i \in DOMAIN a.ids : a.ids[i] \in Terms(b.rows, sum)
        BY <3>0, <3>1, <3>7
      <4>3. a.ids \in Seq(Terms(b.rows, sum))
        <5>1. PICK ids \in Seq(Nat) : ids = a.ids
          BY <4>1
        <5>2. \A i \in DOMAIN ids : ids[i] \in Terms(b.rows, sum)
          BY <4>2, <5>1
        <5>3. ids \in Seq(Terms(b.rows, sum))
          BY <5>2, SeqIn
        <5> QED
          BY <5>1, <5>3
      <4>4. b.ids \in Seq(Terms(b.rows, sum))
        BY <3>6, <4>1, <4>3
      <4> QED
        BY <4>4
    <3> QED
      BY <1>6, <3>2, <3>7, <3>8
  <2>5. 0 .. n \subseteq good
    <3> HIDE DEF good
    <3> QED
      BY <2>3, <2>4, UpTo
  <2> QED
    BY <2>5
<1>9. e \in Manager(F) /\ Len(e.ids) = Len(column) /\ Grown(s.rows, e.rows, F)
  <2>1. n \in far /\ n \in 0 .. n
    <3> HIDE DEF far
    <3> QED
      BY <1>7
  <2> QED
    BY <1>1, <1>3, <1>5, <2>1
<1>10. IDsResult(s, e, sum, tgt, chk, F, column)
  BY <1>3, <1>8, <1>9 DEF IDsResult
<1> QED
  BY <1>10 DEF e

\* Along a chain of rows that only grow, the last one has room only if all have.
LEMMA ChainFacts ==
  ASSUME NEW n \in Nat, NEW F, NEW sum, NEW h \in [0 .. n -> [F -> Seq(Seq(Nat))]],
         \A k \in 1 .. n : Grown(h[k - 1], h[k], F)
  PROVE  \A k \in 0 .. n : Grown(h[0], h[k], F) /\ (Room(h[n], sum) => Room(h[k], sum))
<1> DEFINE far == { k \in 0 .. n : Grown(h[0], h[k], F) }
           roomy == { k \in 0 .. n : Room(h[n], sum) => Room(h[n - k], sum) }
<1>1. ASSUME NEW k \in 1 .. n
      PROVE  /\ h[k - 1] \in [F -> Seq(Seq(Nat))] /\ h[k] \in [F -> Seq(Seq(Nat))]
             /\ Grown(h[k - 1], h[k], F) /\ k - 1 \in 0 .. n /\ k \in 0 .. n
  <2>1. k - 1 \in 0 .. n /\ k \in 0 .. n
    OBVIOUS
  <2> QED
    BY <2>1
<1>2. 0 .. n \subseteq far
  <2>1. 0 \in far
    <3>1. 0 \in 0 .. n /\ h[0] \in [F -> Seq(Seq(Nat))]
      OBVIOUS
    <3>2. \A f \in F : Len(h[0][f]) \in Nat
      BY <3>1
    <3> QED
      BY <3>1, <3>2 DEF Grown
  <2>2. \A k \in 1 .. n : k - 1 \in far => k \in far
    <3> TAKE k \in 1 .. n
    <3> HAVE k - 1 \in far
    <3>1. PICK a \in [F -> Seq(Seq(Nat))] : a = h[0]
      OBVIOUS
    <3>2. PICK b \in [F -> Seq(Seq(Nat))] : b = h[k - 1]
      BY <1>1
    <3>3. PICK c \in [F -> Seq(Seq(Nat))] : c = h[k]
      BY <1>1
    <3>4. Grown(a, b, F) /\ Grown(b, c, F)
      BY <1>1, <3>1, <3>2, <3>3
    <3>5. Grown(a, c, F)
      BY <3>4, GrownFacts
    <3> QED
      BY <1>1, <3>1, <3>3, <3>5
  <2> HIDE DEF far
  <2> QED
    BY <2>1, <2>2, UpTo
<1>3. 0 .. n \subseteq roomy
  <2>1. 0 \in roomy
    OBVIOUS
  <2>2. \A k \in 1 .. n : k - 1 \in roomy => k \in roomy
    <3> TAKE k \in 1 .. n
    <3> HAVE k - 1 \in roomy
    <3>1. PICK m \in 1 .. n : m = n - (k - 1) /\ m - 1 = n - k
      OBVIOUS
    <3>2. PICK b \in [F -> Seq(Seq(Nat))] : b = h[m - 1]
      BY <1>1
    <3>3. PICK c \in [F -> Seq(Seq(Nat))] : c = h[m]
      BY <1>1
    <3>4. Grown(b, c, F) /\ (Room(h[n], sum) => Room(c, sum))
      BY <1>1, <3>1, <3>2, <3>3
    <3>5. Room(c, sum) => Room(b, sum)
      BY <3>4, GrownFacts
    <3> QED
      BY <1>1, <3>1, <3>2, <3>4, <3>5
  <2> HIDE DEF roomy
  <2> QED
    BY <2>1, <2>2, UpTo
<1>4. ASSUME NEW k \in 0 .. n
      PROVE  Grown(h[0], h[k], F) /\ (Room(h[n], sum) => Room(h[k], sum))
  <2>1. k \in far /\ n - k \in roomy /\ n - (n - k) = k
    <3>1. n - k \in 0 .. n /\ n - (n - k) = k
      OBVIOUS
    <3> HIDE DEF far, roomy
    <3> QED
      BY <1>2, <1>3, <3>1
  <2> QED
    BY <2>1
<1> QED
  BY <1>4

-----------------------------------------------------------------------------
(* Programs over all predicates                                            *)

Width(q) == IF q \in Predicates THEN Arity[q] ELSE 2

Vars == 1 .. VarWidth - 1

AnyAtom == { a \in [p : AllPredicates, t : Seq(Vars)] : Len(a.t) = Width(a.p) }

AnyRule == [body : Seq(AnyAtom), heads : Seq(AnyAtom)]

LEMMA WidthFacts == \A q \in AllPredicates : Width(q) \in Nat
BY ProgramAssumption DEF Width

LEMMA AtomFacts ==
  ASSUME NEW a \in AnyAtom
  PROVE  /\ a.p \in AllPredicates /\ a.t \in Seq(Vars) /\ Len(a.t) = Width(a.p)
         /\ DOMAIN a.t = 1 .. Width(a.p) /\ \A k \in DOMAIN a.t : a.t[k] \in ToSet(a.t)
         /\ ToSet(a.t) \subseteq Vars
<1>1. a \in [p : AllPredicates, t : Seq(Vars)] /\ Len(a.t) = Width(a.p)
  BY DEF AnyAtom
<1>2. a.p \in AllPredicates /\ a.t \in Seq(Vars)
  BY <1>1
<1>3. DOMAIN a.t = 1 .. Len(a.t)
  BY <1>2
<1> QED
  BY <1>1, <1>2, <1>3 DEF ToSet

LEMMA VarsOfFacts ==
  ASSUME NEW atoms \in Seq(AnyAtom)
  PROVE  /\ VarsOf(atoms) \in Seq(Vars)
         /\ ToSet(VarsOf(atoms)) = UNION { ToSet(atoms[i].t) : i \in DOMAIN atoms }
         /\ ToSet(VarsOf(atoms)) \subseteq Vars
<1> DEFINE ts == [i \in DOMAIN atoms |-> atoms[i].t]
<1>1. DOMAIN atoms = 1 .. Len(atoms) /\ Len(atoms) \in Nat /\ \A i \in DOMAIN atoms : atoms[i] \in AnyAtom
  OBVIOUS
<1>2. \A i \in DOMAIN atoms : atoms[i].t \in Seq(Vars) /\ ToSet(atoms[i].t) \subseteq Vars
  BY <1>1, AtomFacts
<1>3. ts \in Seq(Seq(Vars)) /\ DOMAIN ts = DOMAIN atoms /\ \A i \in DOMAIN atoms : ts[i] = atoms[i].t
  BY <1>1, <1>2
<1> HIDE DEF ts
<1>4. /\ FlattenSeq(ts) \in Seq(Vars)
      /\ ToSet(FlattenSeq(ts)) = UNION { ToSet(ts[i]) : i \in DOMAIN ts }
  BY <1>3, FlattenFacts
<1>5. Unique(FlattenSeq(ts)) \in Seq(Vars) /\ ToSet(Unique(FlattenSeq(ts))) = ToSet(FlattenSeq(ts))
  BY <1>4, UniqueFacts
<1>6. UNION { ToSet(ts[i]) : i \in DOMAIN ts } = UNION { ToSet(atoms[i].t) : i \in DOMAIN atoms }
  BY <1>3
<1>7. VarsOf(atoms) = Unique(FlattenSeq(ts))
  BY DEF VarsOf, ts
<1>8. UNION { ToSet(atoms[i].t) : i \in DOMAIN atoms } \subseteq Vars
  BY <1>2
<1> QED
  BY <1>4, <1>5, <1>6, <1>7, <1>8

LEMMA RuleVars ==
  ASSUME NEW r \in AnyRule
  PROVE  /\ r.body \in Seq(AnyAtom) /\ r.heads \in Seq(AnyAtom)
         /\ Frontier(r) \in Seq(ToSet(BodyVars(r)))
         /\ ExistentialVars(r) \in Seq(Vars)
         /\ ToSet(ExistentialVars(r)) = ToSet(VarsOf(r.heads)) \ ToSet(BodyVars(r))
         /\ ToSet(BodyVars(r)) \subseteq Vars /\ BodyVars(r) \in Seq(Vars)
<1>1. r.body \in Seq(AnyAtom) /\ r.heads \in Seq(AnyAtom)
  BY DEF AnyRule
<1>2. VarsOf(r.heads) \in Seq(Vars) /\ ToSet(BodyVars(r)) \subseteq Vars /\ BodyVars(r) \in Seq(Vars)
  BY <1>1, VarsOfFacts DEF BodyVars
<1>3. Frontier(r) \in Seq(ToSet(BodyVars(r)))
  BY <1>2, SelectedFacts DEF Frontier
<1>4. /\ ExistentialVars(r) \in Seq(Vars)
      /\ ToSet(ExistentialVars(r)) = ToSet(VarsOf(r.heads)) \cap (ToSet(VarsOf(r.heads)) \ ToSet(BodyVars(r)))
  BY <1>2, SelectedFacts DEF ExistentialVars
<1> QED
  BY <1>1, <1>2, <1>3, <1>4

SymbolsOf(p) == { Symbol(x[1], x[2]) : x \in ExtVars(p) }

LEMMA SymbolFacts ==
  ASSUME NEW i \in Nat \ {0}, NEW v \in Vars
  PROVE  Symbol(i, v) \in Nat \ {0} /\ RuleOf(Symbol(i, v)) = i /\ VarOf(Symbol(i, v)) = v
<1>1. VarWidth \in Nat /\ VarWidth > 3 /\ v \in 0 .. VarWidth - 1 /\ v # 0
  BY WidthAssumption DEF Vars
<1>2. i * VarWidth \in Nat
  BY <1>1
<1>3. (i * VarWidth + v) \div VarWidth = i
  BY <1>1
<1>4. (i * VarWidth + v) % VarWidth = v
  BY <1>1
<1> QED
  BY <1>1, <1>2, <1>3, <1>4 DEF Symbol, RuleOf, VarOf

LEMMA SymbolsFacts ==
  ASSUME NEW p \in Seq(AnyRule)
  PROVE  /\ \E M \in Nat : SymbolsOf(p) \in SUBSET (1 .. M)
         /\ \A i \in DOMAIN p : \A v \in ToSet(ExistentialVars(p[i])) :
              Symbol(i, v) \in SymbolsOf(p) /\ RuleOf(Symbol(i, v)) = i
         /\ \A f \in SymbolsOf(p) : <<RuleOf(f), VarOf(f)>> \in ExtVars(p) /\ f \in Nat \ {0}
<1>1. DOMAIN p = 1 .. Len(p) /\ Len(p) \in Nat /\ \A i \in DOMAIN p : p[i] \in AnyRule
  OBVIOUS
<1>2. ASSUME NEW i \in DOMAIN p, NEW v \in ToSet(ExistentialVars(p[i]))
      PROVE  /\ i \in Nat \ {0} /\ v \in Vars /\ Symbol(i, v) \in SymbolsOf(p)
             /\ RuleOf(Symbol(i, v)) = i /\ VarOf(Symbol(i, v)) = v
             /\ <<i, v>> \in ExtVars(p) /\ Symbol(i, v) \in Nat \ {0}
  <2>1. ExistentialVars(p[i]) \in Seq(Vars)
    BY <1>1, RuleVars
  <2>2. v \in Vars
    <3>1. DOMAIN ExistentialVars(p[i]) = 1 .. Len(ExistentialVars(p[i]))
      BY <2>1
    <3> QED
      BY <2>1, <3>1 DEF ToSet
  <2>3. i \in Nat \ {0}
    BY <1>1
  <2>4. <<i, v>> \in ExtVars(p)
    BY DEF ExtVars
  <2>5. Symbol(i, v) \in SymbolsOf(p)
    <3> DEFINE x == <<i, v>>
    <3>1. x \in ExtVars(p) /\ x[1] = i /\ x[2] = v
      BY <2>4
    <3> HIDE DEF x
    <3> QED
      BY <3>1 DEF SymbolsOf
  <2> QED
    BY <2>2, <2>3, <2>4, <2>5, SymbolFacts
<1>3. PICK M \in Nat : M = (Len(p) + 1) * VarWidth
  BY <1>1, WidthAssumption
<1>4. SymbolsOf(p) \in SUBSET (1 .. M)
  <2> SUFFICES ASSUME NEW x \in ExtVars(p)
               PROVE  Symbol(x[1], x[2]) \in 1 .. M
    BY DEF SymbolsOf
  <2>1. PICK i \in DOMAIN p : \E v \in ToSet(ExistentialVars(p[i])) : x = <<i, v>>
    BY DEF ExtVars
  <2>2. PICK v \in ToSet(ExistentialVars(p[i])) : x = <<i, v>>
    BY <2>1
  <2>3. i \in 1 .. Len(p) /\ v \in 1 .. VarWidth - 1 /\ VarWidth \in Nat
    BY <1>1, <1>2, WidthAssumption DEF Vars
  <2>4. i * VarWidth <= Len(p) * VarWidth /\ i * VarWidth \in Nat /\ Len(p) * VarWidth \in Nat
    BY <1>1, <2>3
  <2>5. M = Len(p) * VarWidth + VarWidth
    BY <1>1, <1>3, <2>3
  <2>6. i * VarWidth + v \in 1 .. M
    <3>1. PICK a \in Nat : a = i * VarWidth
      BY <2>4
    <3>2. PICK b \in Nat : b = Len(p) * VarWidth
      BY <2>4
    <3>3. a <= b /\ M = b + VarWidth
      BY <2>4, <2>5, <3>1, <3>2
    <3>4. a + v \in 1 .. M
      BY <2>3, <3>3
    <3> QED
      BY <3>1, <3>4
  <2> QED
    BY <2>2, <2>6 DEF Symbol
<1>5. ASSUME NEW f \in SymbolsOf(p)
      PROVE  <<RuleOf(f), VarOf(f)>> \in ExtVars(p) /\ f \in Nat \ {0}
  <2>1. PICK x \in ExtVars(p) : f = Symbol(x[1], x[2])
    BY DEF SymbolsOf
  <2>2. PICK i \in DOMAIN p : \E v \in ToSet(ExistentialVars(p[i])) : x = <<i, v>>
    BY DEF ExtVars
  <2>3. PICK v \in ToSet(ExistentialVars(p[i])) : x = <<i, v>>
    BY <2>2
  <2>4. f = Symbol(i, v)
    BY <2>1, <2>3
  <2> QED
    BY <1>2, <2>4
<1> QED
  BY <1>2, <1>4, <1>5

-----------------------------------------------------------------------------
(* Terms for the existential variables of a rule                           *)

Partial == UNION { [D -> Nat] : D \in SUBSET Nat }

\* A chase manager and matches.
ExtState(F, N) == [mgmt : Manager(F), ms : [1 .. N -> Partial]]

\* The terms of one existential variable.
AddTerms(a, sum, checked, i, column, ms, v) ==
  [mgmt |-> NewOrExistingIDs(a.mgmt, sum, checked, Symbol(i, v), column),
   ms |-> [n \in DOMAIN ms |->
             [w \in DOMAIN a.ms[n] \cup {v} |->
                IF w = v THEN NewOrExistingIDs(a.mgmt, sum, checked, Symbol(i, v), column).ids[n]
                         ELSE a.ms[n][w]]]]

RuleChecking(M, F, sum, tgt, chk, checked, i) ==
  \A v \in ToSet(ExistentialVars(rules[i])) : Checking(M, F, sum, tgt, chk, checked, Symbol(i, v))

LEMMA AddTermsTyped ==
  ASSUME NEW M, NEW F, NEW sum, NEW tgt, NEW chk, NEW checked, NEW i,
         RuleChecking(M, F, sum, tgt, chk, checked, i),
         NEW v \in ToSet(ExistentialVars(rules[i])), v \in Nat,
         NEW N \in Nat, NEW ms, DOMAIN ms = 1 .. N, NEW column \in Seq(Seq(Nat)), Len(column) = N,
         NEW a \in ExtState(F, N)
  PROVE  /\ AddTerms(a, sum, checked, i, column, ms, v) \in ExtState(F, N)
         /\ IDsResult(a.mgmt, AddTerms(a, sum, checked, i, column, ms, v).mgmt, sum, tgt, chk, F, column)
<1> DEFINE f == Symbol(i, v)
           e == NewOrExistingIDs(a.mgmt, sum, checked, f, column)
           next == [n \in 1 .. N |-> [w \in DOMAIN a.ms[n] \cup {v} |-> IF w = v THEN e.ids[n] ELSE a.ms[n][w]]]
<1>1. Checking(M, F, sum, tgt, chk, checked, f)
  BY DEF RuleChecking
<1>2. a.mgmt \in Manager(F) /\ a.ms \in [1 .. N -> Partial]
  BY DEF ExtState
<1>3. IDsResult(a.mgmt, e, sum, tgt, chk, F, column)
  <2> HIDE DEF f
  <2> QED
    BY <1>1, <1>2, IDsFacts
<1>4. e \in Manager(F) /\ e.ids \in Seq(Nat) /\ Len(e.ids) = N
  <2> HIDE DEF e
  <2>1. e \in Manager(F) /\ Len(e.ids) = N
    BY <1>3 DEF IDsResult
  <2> QED
    BY <2>1 DEF Manager
<1>5. AddTerms(a, sum, checked, i, column, ms, v) = [mgmt |-> e, ms |-> next]
  BY DEF AddTerms
<1> HIDE DEF e
<1>6. ASSUME NEW n \in 1 .. N
      PROVE  next[n] \in Partial
  <2>0. a.ms[n] \in Partial
    BY <1>2
  <2>1. PICK D \in SUBSET Nat : a.ms[n] \in [D -> Nat]
    BY <2>0, Zenon DEF Partial
  <2>2. e.ids[n] \in Nat
    BY <1>4
  <2>3. next[n] \in [D \cup {v} -> Nat]
    BY <2>1, <2>2
  <2>4. D \cup {v} \in SUBSET Nat
    OBVIOUS
  <2> HIDE DEF next
  <2> QED
    BY <2>3, <2>4 DEF Partial
<1>7. next \in [1 .. N -> Partial]
  <2>1. next = [n \in 1 .. N |-> next[n]]
    OBVIOUS
  <2> HIDE DEF next
  <2> QED
    BY <1>6, <2>1
<1> HIDE DEF next
<1>8. [mgmt |-> e, ms |-> next] \in ExtState(F, N)
  BY <1>4, <1>7 DEF ExtState
<1> QED
  BY <1>3, <1>5, <1>8

ColumnOf(i, ms) ==
  [n \in DOMAIN ms |-> [k \in DOMAIN Frontier(rules[i]) |-> ms[n][Frontier(rules[i])[k]]]]

BaseOf(s, ms) == [mgmt |-> [rows |-> s.rows, cyclic |-> s.cyclic, ids |-> << >>], ms |-> ms]

\* Extended, variable by variable.
ExtendedRun(g, s, i, ms) ==
  /\ g[0] = BaseOf(s, ms) /\ g[Len(ExistentialVars(rules[i]))] = Extended(s, i, ms)
  /\ \A k \in 1 .. Len(ExistentialVars(rules[i])) : g[k] = AddTerms(g[k - 1], IsSum, IsChecking /\ target \in {0, i}, i, ColumnOf(i, ms), ms, ExistentialVars(rules[i])[k])

LEMMA ExtendedSteps ==
  ASSUME NEW M, NEW F, NEW tgt, NEW i, NEW N \in Nat, NEW ms, NEW s,
         RuleChecking(M, F, IsSum, tgt, IsChecking, IsChecking /\ target \in {0, i}, i),
         ExistentialVars(rules[i]) \in Seq(ToSet(ExistentialVars(rules[i]))),
         ToSet(ExistentialVars(rules[i])) \subseteq Nat,
         DOMAIN ms = 1 .. N, ColumnOf(i, ms) \in Seq(Seq(Nat)), Len(ColumnOf(i, ms)) = N,
         BaseOf(s, ms) \in ExtState(F, N)
  PROVE  \E g \in [0 .. Len(ExistentialVars(rules[i])) -> ExtState(F, N)] : ExtendedRun(g, s, i, ms)
<1> DEFINE T == ExtState(F, N)
           B == ToSet(ExistentialVars(rules[i]))
           op(a, x) == AddTerms(a, IsSum, IsChecking /\ target \in {0, i}, i, ColumnOf(i, ms), ms, x)
           step == [z \in T \X B |-> op(z[1], z[2])]
<1>1. PICK n \in Nat : n = Len(ExistentialVars(rules[i]))
  OBVIOUS
<1>2. DOMAIN ExistentialVars(rules[i]) = 1 .. n /\ ExistentialVars(rules[i]) \in [1 .. n -> B] /\ BaseOf(s, ms) \in T
  BY <1>1
<1>3. ASSUME NEW a \in T, NEW x \in B
      PROVE  op(a, x) \in T
  BY AddTermsTyped
<1> HIDE DEF op, T, B
<1>4. step \in [T \X B -> T]
  BY <1>3
<1>5. \A a \in T, x \in B : step[<<a, x>>] = op(a, x)
  <2> TAKE a \in T, x \in B
  <2>1. PICK z \in T \X B : z = <<a, x>>
    OBVIOUS
  <2> QED
    BY <2>1
<1> HIDE DEF step
<1>6. PICK G \in [SUBSET (1 .. n) -> T] : Recursion(G, n, BaseOf(s, ms), ExistentialVars(rules[i]), step)
  BY <1>2, <1>4, RecursionExists
<1> DEFINE Body(iter) == [d \in SUBSET (1 .. n) |->
                            IF d = {} THEN BaseOf(s, ms) ELSE op(iter[d \ {Max(d)}], ExistentialVars(rules[i])[Max(d)])]
<1>7. \A d \in SUBSET (1 .. n) : G[d] = Body(G)[d]
  <2> TAKE d \in SUBSET (1 .. n)
  <2>1. CASE d = {}
    BY <1>6, <2>1 DEF Recursion
  <2>2. CASE d # {}
    <3>1. Max(d) \in 1 .. n /\ d \ {Max(d)} \in SUBSET (1 .. n)
      BY <2>2, MaxOfSet
    <3>2. ExistentialVars(rules[i])[Max(d)] \in B /\ G[d \ {Max(d)}] \in T
      BY <3>1, <1>2
    <3>3. step[<<G[d \ {Max(d)}], ExistentialVars(rules[i])[Max(d)]>>] = op(G[d \ {Max(d)}], ExistentialVars(rules[i])[Max(d)])
      BY <1>5, <3>2
    <3> QED
      BY <1>6, <2>2, <3>3 DEF Recursion
  <2> QED
    BY <2>1, <2>2
<1>8. G = Body(G)
  <2>1. DOMAIN G = DOMAIN Body(G)
    OBVIOUS
  <2> QED
    BY <1>7
<1>9. Extended(s, i, ms) = (CHOOSE iter : iter = Body(iter))[1 .. n]
  <2>1. DOMAIN ExistentialVars(rules[i]) = 1 .. n
    BY <1>2
  <2> QED
    BY <2>1 DEF Extended, AddTerms, ColumnOf, BaseOf, FoldLeft, MapThenFoldSet, op
<1>10. PICK iter : iter = Body(iter) /\ Extended(s, i, ms) = iter[1 .. n]
  <2> HIDE DEF Body
  <2> QED
    BY <1>8, <1>9
<1>11. iter[{}] = BaseOf(s, ms)
  <2>1. {} \in SUBSET (1 .. n)
    OBVIOUS
  <2> QED
    BY <1>10, <2>1
<1>12. ASSUME NEW k \in 1 .. n
       PROVE  iter[1 .. k] = op(iter[1 .. (k - 1)], ExistentialVars(rules[i])[k])
  <2>1. k \in Nat \ {0} /\ 1 .. k \in SUBSET (1 .. n)
    BY <1>1
  <2>2. Max(1 .. k) = k /\ (1 .. k) \ {k} = 1 .. (k - 1) /\ 1 .. k # {}
    BY <2>1, MaxOfUpTo
  <2> QED
    BY <1>10, <2>1, <2>2
<1>13. PICK g \in [0 .. n -> T] : Folds(g, n, BaseOf(s, ms), ExistentialVars(rules[i]), step, iter[1 .. n])
  <2>1. \A k \in 1 .. n : iter[1 .. (k - 1)] \in T =>
          iter[1 .. k] = step[<<iter[1 .. (k - 1)], ExistentialVars(rules[i])[k]>>]
    BY <1>2, <1>5, <1>12
  <2> HIDE DEF Body
  <2> QED
    BY <1>2, <1>4, <1>11, <2>1, FoldSteps
<1>14. \A k \in 1 .. n : g[k] = op(g[k - 1], ExistentialVars(rules[i])[k])
  <2> TAKE k \in 1 .. n
  <2>1. g[k - 1] \in T /\ ExistentialVars(rules[i])[k] \in B
    BY <1>2
  <2> QED
    BY <1>5, <1>13, <2>1 DEF Folds
<1>15. g[0] = BaseOf(s, ms) /\ g[n] = Extended(s, i, ms)
  BY <1>10, <1>13 DEF Folds
<1>16. ExtendedRun(g, s, i, ms)
  BY <1>1, <1>14, <1>15 DEF op, ExtendedRun
<1>17. g \in [0 .. Len(ExistentialVars(rules[i])) -> ExtState(F, N)]
  BY <1>1 DEF T
<1> QED
  BY <1>16, <1>17

\* The chase at hand has the function symbols F of its rules.
Setting(M, F) ==
  /\ M \in Nat /\ F \in SUBSET (1 .. M) /\ F = SymbolsOf(rules)
  /\ rules \in Seq(AnyRule)
  /\ IsSum => target = 0

LEMMA SettingFacts ==
  ASSUME NEW M, NEW F, Setting(M, F), NEW i \in Rules
  PROVE  /\ RuleChecking(M, F, IsSum, target, IsChecking, IsChecking /\ target \in {0, i}, i)
         /\ rules[i] \in AnyRule
         /\ ExistentialVars(rules[i]) \in Seq(ToSet(ExistentialVars(rules[i])))
         /\ ToSet(ExistentialVars(rules[i])) \subseteq Nat
<1>1. /\ M \in Nat /\ F \in SUBSET (1 .. M) /\ F = SymbolsOf(rules)
      /\ rules \in Seq(AnyRule) /\ (IsSum => target = 0)
  BY DEF Setting
<1>2. rules[i] \in AnyRule
  BY <1>1 DEF Rules
<1>3. ExistentialVars(rules[i]) \in Seq(Vars)
  BY <1>2, RuleVars
<1>4. /\ \A v \in ToSet(ExistentialVars(rules[i])) : v \in Vars
      /\ ExistentialVars(rules[i]) \in Seq(ToSet(ExistentialVars(rules[i])))
  <2>1. PICK s \in Seq(Vars) : s = ExistentialVars(rules[i])
    BY <1>3
  <2>2. \A k \in DOMAIN s : s[k] \in ToSet(s) /\ s[k] \in Vars
    BY DEF ToSet
  <2>3. s \in Seq(ToSet(s))
    BY <2>2, SeqIn
  <2>4. \A v \in ToSet(s) : v \in Vars
    BY <2>2 DEF ToSet
  <2> QED
    BY <2>1, <2>3, <2>4
<1>5. ASSUME NEW v \in ToSet(ExistentialVars(rules[i]))
      PROVE  Checking(M, F, IsSum, target, IsChecking, IsChecking /\ target \in {0, i}, Symbol(i, v))
  <2>1. Symbol(i, v) \in F /\ RuleOf(Symbol(i, v)) = i
    BY <1>1, SymbolsFacts DEF Rules
  <2>2. IsSum \in BOOLEAN /\ IsChecking \in BOOLEAN /\ (IsChecking /\ target \in {0, i}) \in BOOLEAN
    BY DEF IsSum, IsChecking
  <2> QED
    BY <1>1, <2>1, <2>2 DEF Checking
<1>6. ToSet(ExistentialVars(rules[i])) \subseteq Nat
  <2>1. Vars \subseteq Nat
    BY WidthAssumption DEF Vars
  <2> QED
    BY <1>4, <2>1
<1> QED
  BY <1>2, <1>4, <1>5, <1>6 DEF RuleChecking

BodyMatch(i, V) == [ToSet(BodyVars(rules[i])) -> V]

LEMMA ColumnFacts ==
  ASSUME NEW i, rules[i] \in AnyRule, NEW V, NEW ms \in Seq(BodyMatch(i, V))
  PROVE  /\ ColumnOf(i, ms) \in Seq(Seq(V)) /\ Len(ColumnOf(i, ms)) = Len(ms)
         /\ \A n \in DOMAIN ColumnOf(i, ms) : ToSet(ColumnOf(i, ms)[n]) \subseteq V
<1> DEFINE fr == Frontier(rules[i])
           B == ToSet(BodyVars(rules[i]))
           row(m) == [k \in DOMAIN fr |-> m[fr[k]]]
           column == [n \in DOMAIN ms |-> row(ms[n])]
<1>1. fr \in Seq(B)
  BY RuleVars
<1>2. DOMAIN fr = 1 .. Len(fr) /\ Len(fr) \in Nat /\ \A k \in DOMAIN fr : fr[k] \in B
  <2> HIDE DEF fr, B
  <2> QED
    BY <1>1
<1>3. DOMAIN ms = 1 .. Len(ms) /\ Len(ms) \in Nat /\ \A n \in DOMAIN ms : ms[n] \in [B -> V]
  BY DEF BodyMatch
<1>4. ColumnOf(i, ms) = column
  BY DEF ColumnOf
<1> HIDE DEF fr, B
<1>5. \A m \in [B -> V] : row(m) \in Seq(V)
  BY <1>2
<1> HIDE DEF row
<1>6. column \in Seq(Seq(V)) /\ Len(column) = Len(ms) /\ DOMAIN column = 1 .. Len(ms)
  BY <1>3, <1>5
<1> HIDE DEF column
<1>7. \A n \in DOMAIN column : ToSet(column[n]) \subseteq V
  <2> TAKE n \in DOMAIN column
  <2>1. PICK c \in Seq(V) : c = column[n]
    BY <1>6
  <2>2. \A k \in DOMAIN c : c[k] \in V
    OBVIOUS
  <2> QED
    BY <2>1, <2>2 DEF ToSet
<1> QED
  BY <1>4, <1>6, <1>7

ExtendedResult(F, i, s, ms, e) ==
  /\ e \in ExtState(F, Len(ms)) /\ Grown(s.rows, e.mgmt.rows, F)
  /\ /\ Room(e.mgmt.rows, IsSum) /\ Sound(s, IsSum, target, IsChecking, F)
     /\ ms \in Seq(BodyMatch(i, Values(s.rows, IsSum)))
     => /\ Follows(s, e.mgmt, IsSum, target, IsChecking, F)
        /\ \A n \in DOMAIN ms :
             e.ms[n] \in [ToSet(BodyVars(rules[i])) \cup ToSet(ExistentialVars(rules[i]))
                            -> Values(e.mgmt.rows, IsSum)]

\* The terms for the existential variables keep the chase manager sound.
LEMMA ExtendedFacts ==
  ASSUME NEW M, NEW F, Setting(M, F), NEW i \in Rules, NEW s,
         s.rows \in [F -> Seq(Seq(Nat))], s.cyclic \in BOOLEAN, NEW ms \in Seq(BodyMatch(i, Nat))
  PROVE  ExtendedResult(F, i, s, ms, Extended(s, i, ms))
<1> DEFINE N == Len(ms)
           ext == ExistentialVars(rules[i])
           EV == ToSet(ExistentialVars(rules[i]))
           B == ToSet(BodyVars(rules[i]))
           column == ColumnOf(i, ms)
           checked == IsChecking /\ target \in {0, i}
           e == Extended(s, i, ms)
           V(a) == Values(a.mgmt.rows, IsSum)
<1>1. /\ RuleChecking(M, F, IsSum, target, IsChecking, checked, i)
      /\ rules[i] \in AnyRule /\ ext \in Seq(EV) /\ EV \subseteq Nat
  BY SettingFacts
<1>2. /\ N \in Nat /\ DOMAIN ms = 1 .. N /\ column \in Seq(Seq(Nat)) /\ Len(column) = N
      /\ \A n \in 1 .. N : ms[n] \in [B -> Nat]
  <2>1. column \in Seq(Seq(Nat)) /\ Len(column) = N
    BY <1>1, ColumnFacts
  <2> QED
    BY <2>1 DEF BodyMatch
<1>3. BaseOf(s, ms) \in ExtState(F, N)
  <2>1. B \in SUBSET Nat
    <3>1. Vars \subseteq Nat
      BY WidthAssumption DEF Vars
    <3>2. B \subseteq Vars
      BY <1>1, RuleVars
    <3> QED
      BY <3>1, <3>2
  <2>2. \A n \in 1 .. N : ms[n] \in Partial
    <3> HIDE DEF B, N
    <3> QED
      BY <1>2, <2>1 DEF Partial
  <2>3. ms = [n \in 1 .. N |-> ms[n]]
    BY <1>2
  <2>4. ms \in [1 .. N -> Partial]
    <3> HIDE DEF N
    <3> QED
      BY <2>2, <2>3
  <2>5. [rows |-> s.rows, cyclic |-> s.cyclic, ids |-> << >>] \in Manager(F)
    BY DEF Manager
  <2> HIDE DEF N
  <2> QED
    BY <2>4, <2>5 DEF BaseOf, ExtState
<1>4. PICK L \in Nat : L = Len(ext) /\ DOMAIN ext = 1 .. L /\ \A k \in 1 .. L : ext[k] \in EV
  <2> HIDE DEF ext, EV
  <2> QED
    BY <1>1
<1>5. PICK g \in [0 .. L -> ExtState(F, N)] : ExtendedRun(g, s, i, ms)
  <2>1. PICK g \in [0 .. Len(ext) -> ExtState(F, N)] : ExtendedRun(g, s, i, ms)
    BY <1>1, <1>2, <1>3, ExtendedSteps
  <2> QED
    BY <1>4, <2>1
<1>6. /\ g[0] = BaseOf(s, ms) /\ g[L] = e
      /\ \A k \in 1 .. L : g[k] = AddTerms(g[k - 1], IsSum, checked, i, column, ms, ext[k])
  BY <1>4, <1>5 DEF ExtendedRun
<1> HIDE DEF e, column, checked, ext, EV, B, N
<1>7. \A k \in 0 .. L : /\ g[k] \in ExtState(F, N) /\ g[k].mgmt \in Manager(F)
                        /\ g[k].mgmt.rows \in [F -> Seq(Seq(Nat))]
  BY <1>5 DEF ExtState, Manager
<1>8. ASSUME NEW k \in 1 .. L
      PROVE  /\ IDsResult(g[k - 1].mgmt, g[k].mgmt, IsSum, target, IsChecking, F, column)
             /\ g[k].ms = [n \in 1 .. N |->
                             [w \in DOMAIN g[k - 1].ms[n] \cup {ext[k]} |->
                                IF w = ext[k] THEN g[k].mgmt.ids[n] ELSE g[k - 1].ms[n][w]]]
             /\ k - 1 \in 0 .. L /\ k \in 0 .. L
  <2>1. k - 1 \in 0 .. L /\ k \in 0 .. L
    OBVIOUS
  <2>2. PICK a \in ExtState(F, N) : a = g[k - 1]
    BY <1>7, <2>1
  <2>3. PICK v \in EV : v = ext[k]
    BY <1>4
  <2>4. v \in Nat
    BY <1>1
  <2>5. g[k] = AddTerms(a, IsSum, checked, i, column, ms, v)
    BY <1>6, <2>2, <2>3
  <2>6. IDsResult(a.mgmt, g[k].mgmt, IsSum, target, IsChecking, F, column)
    BY <1>1, <1>2, <2>4, <2>5, AddTermsTyped DEF EV
  <2>7. g[k].ms = [n \in 1 .. N |->
                             [w \in DOMAIN a.ms[n] \cup {v} |->
                                IF w = v THEN g[k].mgmt.ids[n] ELSE a.ms[n][w]]]
    BY <1>2, <2>5 DEF AddTerms
  <2> QED
    BY <2>1, <2>2, <2>3, <2>6, <2>7
<1> DEFINE h == [k \in 0 .. L |-> g[k].mgmt.rows]
<1>9. /\ h \in [0 .. L -> [F -> Seq(Seq(Nat))]]
      /\ \A k \in 0 .. L : h[k] = g[k].mgmt.rows
  BY <1>7
<1>10. \A k \in 1 .. L : Grown(h[k - 1], h[k], F)
  <2> HIDE DEF h
  <2> TAKE k \in 1 .. L
  <2>1. Grown(g[k - 1].mgmt.rows, g[k].mgmt.rows, F)
    BY <1>8 DEF IDsResult
  <2> QED
    BY <1>8, <1>9, <2>1
<1>11. \A k \in 0 .. L : Grown(h[0], h[k], F) /\ (Room(h[L], IsSum) => Room(h[k], IsSum))
  <2> HIDE DEF h
  <2> QED
    BY <1>9, <1>10, ChainFacts
<1>12. /\ g[0].mgmt.rows = s.rows /\ g[0].mgmt.cyclic = s.cyclic /\ g[0].ms = ms
       /\ 0 \in 0 .. L /\ L \in 0 .. L
  BY <1>6 DEF BaseOf
<1>13. Grown(s.rows, e.mgmt.rows, F) /\ e \in ExtState(F, N)
  <2> HIDE DEF h
  <2> QED
    BY <1>6, <1>7, <1>9, <1>11, <1>12
<1>14. ASSUME Room(e.mgmt.rows, IsSum), Sound(s, IsSum, target, IsChecking, F),
              ms \in Seq(BodyMatch(i, Values(s.rows, IsSum)))
       PROVE  /\ Follows(s, e.mgmt, IsSum, target, IsChecking, F)
              /\ \A n \in 1 .. N : e.ms[n] \in [B \cup EV -> V(e)]
  <2> DEFINE upto(k) == { ext[j] : j \in 1 .. k }
             good == { k \in 0 .. L :
                         /\ Follows(s, g[k].mgmt, IsSum, target, IsChecking, F)
                         /\ \A n \in 1 .. N : g[k].ms[n] \in [B \cup upto(k) -> V(g[k])] }
  <2>1. \A k \in 0 .. L : Room(g[k].mgmt.rows, IsSum)
    <3> HIDE DEF h
    <3>1. Room(h[L], IsSum)
      BY <1>6, <1>9, <1>12, <1>14
    <3> QED
      BY <1>9, <1>11, <3>1
  <2>2. \A n \in DOMAIN column : ToSet(column[n]) \subseteq Values(s.rows, IsSum)
    BY <1>1, <1>14, ColumnFacts DEF column
  <2>3. 0 \in good
    <3>1. Follows(s, g[0].mgmt, IsSum, target, IsChecking, F)
      BY <1>12, <1>14 DEF Follows, Sound
    <3>2. \A n \in 1 .. N : ms[n] \in [B -> Values(s.rows, IsSum)]
      BY <1>2, <1>14 DEF BodyMatch, B
    <3>3. upto(0) = {}
      OBVIOUS
    <3> QED
      BY <1>12, <3>1, <3>2, <3>3
  <2>4. \A k \in 1 .. L : k - 1 \in good => k \in good
    <3> TAKE k \in 1 .. L
    <3> HAVE k - 1 \in good
    <3> DEFINE a == g[k - 1]
               b == g[k]
    <3>1. /\ Sound(a.mgmt, IsSum, target, IsChecking, F)
          /\ Terms(s.rows, IsSum) \subseteq Terms(a.mgmt.rows, IsSum)
      BY DEF Follows
    <3>2. \A n \in 1 .. N : a.ms[n] \in [B \cup upto(k - 1) -> V(a)]
      OBVIOUS
    <3>3. \A n \in DOMAIN column : ToSet(column[n]) \subseteq V(a)
      BY <2>2, <3>1 DEF Values
    <3>4. IDsResult(a.mgmt, b.mgmt, IsSum, target, IsChecking, F, column) /\ Room(b.mgmt.rows, IsSum)
      BY <1>8, <2>1
    <3> HIDE DEF a, b
    <3>5. /\ Follows(a.mgmt, b.mgmt, IsSum, target, IsChecking, F)
          /\ \A n \in DOMAIN b.mgmt.ids : b.mgmt.ids[n] \in Terms(b.mgmt.rows, IsSum)
          /\ Len(b.mgmt.ids) = N /\ b.mgmt \in Manager(F)
      BY <1>2, <3>1, <3>3, <3>4 DEF IDsResult
    <3>6. /\ Follows(s, b.mgmt, IsSum, target, IsChecking, F)
          /\ V(a) \subseteq V(b)
      BY <3>1, <3>5 DEF Follows, Values
    <3>7. \A n \in 1 .. N : b.mgmt.ids[n] \in V(b)
      <4>1. b.mgmt.ids \in Seq(Nat)
        BY <3>5 DEF Manager
      <4>2. DOMAIN b.mgmt.ids = 1 .. N
        BY <3>5, <4>1
      <4> QED
        BY <3>5, <4>2 DEF Values
    <3>8. \A n \in 1 .. N : b.ms[n] = [w \in DOMAIN a.ms[n] \cup {ext[k]} |->
                                         IF w = ext[k] THEN b.mgmt.ids[n] ELSE a.ms[n][w]]
      BY <1>8 DEF a, b
    <3>9. upto(k) = upto(k - 1) \cup {ext[k]}
      <4>1. 1 .. k = (1 .. (k - 1)) \cup {k}
        OBVIOUS
      <4> QED
        BY <4>1
    <3> HIDE DEF upto, V
    <3>10. \A n \in 1 .. N : b.ms[n] \in [B \cup upto(k) -> V(b)]
      <4> TAKE n \in 1 .. N
      <4>1. a.ms[n] \in [B \cup upto(k - 1) -> V(b)]
        BY <3>2, <3>6
      <4>2. DOMAIN a.ms[n] = B \cup upto(k - 1)
        BY <4>1
      <4>3. b.ms[n] \in [(B \cup upto(k - 1)) \cup {ext[k]} -> V(b)]
        <5> DEFINE D == B \cup upto(k - 1)
                   W == V(b)
        <5>1. PICK m \in [D -> W] : m = a.ms[n]
          BY <4>1
        <5>2. PICK t \in W : t = b.mgmt.ids[n]
          BY <3>7
        <5> HIDE DEF D, W
        <5>3. DOMAIN m = D
          OBVIOUS
        <5>4. b.ms[n] = [w \in D \cup {ext[k]} |-> IF w = ext[k] THEN t ELSE m[w]]
          BY <3>8, <5>1, <5>2, <5>3
        <5>5. b.ms[n] \in [D \cup {ext[k]} -> W]
          BY <5>4
        <5> QED
          BY <5>5 DEF D, W
      <4>4. (B \cup upto(k - 1)) \cup {ext[k]} = B \cup upto(k)
        BY <3>9
      <4> QED
        BY <4>3, <4>4
    <3> QED
      BY <1>8, <3>6, <3>10 DEF b
  <2>5. 0 .. L \subseteq good
    <3> HIDE DEF good
    <3> QED
      BY <2>3, <2>4, UpTo
  <2>6. upto(L) = EV
    BY <1>4 DEF EV, ext, ToSet
  <2>7. L \in good
    <3> HIDE DEF good
    <3> QED
      BY <1>12, <2>5
  <2> HIDE DEF upto, V
  <2> QED
    BY <1>6, <2>6, <2>7
<1>15. ExtendedResult(F, i, s, ms, e)
  BY <1>2, <1>13, <1>14 DEF ExtendedResult, B, EV, N
<1> QED
  BY <1>15 DEF e

-----------------------------------------------------------------------------
(* What filters matches                                                    *)

\* The rows on which the readers of the columns stand.
Cells(columns, at) == [j \in DOMAIN columns |-> columns[j][at[j]]]

Stops(columns, at, recursive) == { j \in DOMAIN columns : Cells(columns, at)[j] \in recursive }

RetainStep(columns, recursive, s) ==
  [at |-> [j \in DOMAIN columns |-> IF \A k \in Stops(columns, s.at, recursive) : j <= k
                                    THEN s.at[j] + 1 ELSE s.at[j]],
   out |-> IF Stops(columns, s.at, recursive) = {} THEN Append(s.out, Cells(columns, s.at)) ELSE s.out]

RetainState(columns) ==
  [at : [DOMAIN columns -> Nat],
   out : Seq([DOMAIN columns -> UNION { { columns[j][m] : m \in Nat } : j \in DOMAIN columns }])]

LEMMA RetainTyped ==
  ASSUME NEW columns, NEW recursive, NEW s \in RetainState(columns)
  PROVE  RetainStep(columns, recursive, s) \in RetainState(columns)
<1> DEFINE J == DOMAIN columns
           C == UNION { { columns[j][m] : m \in Nat } : j \in J }
           cells == Cells(columns, s.at)
           reads(j) == \A k \in Stops(columns, s.at, recursive) : j <= k
           at == [j \in J |-> IF reads(j) THEN s.at[j] + 1 ELSE s.at[j]]
           next == IF Stops(columns, s.at, recursive) = {} THEN Append(s.out, cells) ELSE s.out
<1>1. s.at \in [J -> Nat] /\ s.out \in Seq([J -> C])
  BY DEF RetainState
<1>2. cells \in [J -> C]
  <2>1. \A j \in J : s.at[j] \in Nat
    BY <1>1
  <2>2. \A j \in J : columns[j][s.at[j]] \in C
    BY <2>1
  <2> HIDE DEF C
  <2> QED
    BY <2>2 DEF Cells
<1> HIDE DEF cells, reads, C
<1>3. at \in [J -> Nat]
  BY <1>1
<1>4. next \in Seq([J -> C])
  BY <1>1, <1>2
<1> HIDE DEF at, next
<1>5. [at |-> at, out |-> next] \in [at : [J -> Nat], out : Seq([J -> C])]
  BY <1>3, <1>4
<1> QED
  BY <1>5 DEF RetainStep, RetainState, at, next, cells, reads, C

\* RetainNonRecursive, row by row.
RetainRun(g, columns, N, recursive) ==
  /\ g[0] = [at |-> [j \in DOMAIN columns |-> 1], out |-> << >>] /\ g[N].out = RetainNonRecursive(columns, N, recursive)
  /\ \A k \in 1 .. N : g[k] = RetainStep(columns, recursive, g[k - 1])

LEMMA RetainSteps ==
  ASSUME NEW columns, NEW recursive, NEW N \in Nat
  PROVE  \E g \in [0 .. N -> RetainState(columns)] : RetainRun(g, columns, N, recursive)
<1> DEFINE T == RetainState(columns)
           B == Nat
           op(a, x) == RetainStep(columns, recursive, a)
           step == [z \in T \X B |-> op(z[1], z[2])]
<1>1. PICK n \in Nat : n = N
  OBVIOUS
<1>2. DOMAIN [i \in 1 .. N |-> i] = 1 .. n /\ [i \in 1 .. N |-> i] \in [1 .. n -> B] /\ [at |-> [j \in DOMAIN columns |-> 1], out |-> << >>] \in T
  <2>1. [at |-> [j \in DOMAIN columns |-> 1], out |-> << >>] \in T
    BY DEF RetainState
  <2> QED
    BY <1>1, <2>1
<1>3. ASSUME NEW a \in T, NEW x \in B
      PROVE  op(a, x) \in T
  BY RetainTyped
<1> HIDE DEF op, T, B
<1>4. step \in [T \X B -> T]
  BY <1>3
<1>5. \A a \in T, x \in B : step[<<a, x>>] = op(a, x)
  <2> TAKE a \in T, x \in B
  <2>1. PICK z \in T \X B : z = <<a, x>>
    OBVIOUS
  <2> QED
    BY <2>1
<1> HIDE DEF step
<1>6. PICK G \in [SUBSET (1 .. n) -> T] : Recursion(G, n, [at |-> [j \in DOMAIN columns |-> 1], out |-> << >>], [i \in 1 .. N |-> i], step)
  BY <1>2, <1>4, RecursionExists
<1> DEFINE Body(iter) == [d \in SUBSET (1 .. n) |->
                            IF d = {} THEN [at |-> [j \in DOMAIN columns |-> 1], out |-> << >>] ELSE op(iter[d \ {Max(d)}], [i \in 1 .. N |-> i][Max(d)])]
<1>7. \A d \in SUBSET (1 .. n) : G[d] = Body(G)[d]
  <2> TAKE d \in SUBSET (1 .. n)
  <2>1. CASE d = {}
    BY <1>6, <2>1 DEF Recursion
  <2>2. CASE d # {}
    <3>1. Max(d) \in 1 .. n /\ d \ {Max(d)} \in SUBSET (1 .. n)
      BY <2>2, MaxOfSet
    <3>2. [i \in 1 .. N |-> i][Max(d)] \in B /\ G[d \ {Max(d)}] \in T
      BY <3>1, <1>2
    <3>3. step[<<G[d \ {Max(d)}], [i \in 1 .. N |-> i][Max(d)]>>] = op(G[d \ {Max(d)}], [i \in 1 .. N |-> i][Max(d)])
      BY <1>5, <3>2
    <3> QED
      BY <1>6, <2>2, <3>3 DEF Recursion
  <2> QED
    BY <2>1, <2>2
<1>8. G = Body(G)
  <2>1. DOMAIN G = DOMAIN Body(G)
    OBVIOUS
  <2> QED
    BY <1>7
<1>9. RetainNonRecursive(columns, N, recursive) = (CHOOSE iter : iter = Body(iter))[1 .. n].out
  <2>1. DOMAIN [i \in 1 .. N |-> i] = 1 .. n
    BY <1>2
  <2> QED
    BY <2>1 DEF RetainNonRecursive, RetainStep, Cells, Stops, FoldLeft, MapThenFoldSet, op
<1>10. PICK iter : iter = Body(iter) /\ RetainNonRecursive(columns, N, recursive) = iter[1 .. n].out
  <2> HIDE DEF Body
  <2> QED
    BY <1>8, <1>9
<1>11. iter[{}] = [at |-> [j \in DOMAIN columns |-> 1], out |-> << >>]
  <2>1. {} \in SUBSET (1 .. n)
    OBVIOUS
  <2> QED
    BY <1>10, <2>1
<1>12. ASSUME NEW k \in 1 .. n
       PROVE  iter[1 .. k] = op(iter[1 .. (k - 1)], [i \in 1 .. N |-> i][k])
  <2>1. k \in Nat \ {0} /\ 1 .. k \in SUBSET (1 .. n)
    BY <1>1
  <2>2. Max(1 .. k) = k /\ (1 .. k) \ {k} = 1 .. (k - 1) /\ 1 .. k # {}
    BY <2>1, MaxOfUpTo
  <2> QED
    BY <1>10, <2>1, <2>2
<1>13. PICK g \in [0 .. n -> T] : Folds(g, n, [at |-> [j \in DOMAIN columns |-> 1], out |-> << >>], [i \in 1 .. N |-> i], step, iter[1 .. n])
  <2>1. \A k \in 1 .. n : iter[1 .. (k - 1)] \in T =>
          iter[1 .. k] = step[<<iter[1 .. (k - 1)], [i \in 1 .. N |-> i][k]>>]
    BY <1>2, <1>5, <1>12
  <2> HIDE DEF Body
  <2> QED
    BY <1>2, <1>4, <1>11, <2>1, FoldSteps
<1>14. \A k \in 1 .. n : g[k] = op(g[k - 1], [i \in 1 .. N |-> i][k])
  <2> TAKE k \in 1 .. n
  <2>1. g[k - 1] \in T /\ [i \in 1 .. N |-> i][k] \in B
    BY <1>2
  <2> QED
    BY <1>5, <1>13, <2>1 DEF Folds
<1>15. g[0] = [at |-> [j \in DOMAIN columns |-> 1], out |-> << >>] /\ g[n].out = RetainNonRecursive(columns, N, recursive)
  BY <1>10, <1>13 DEF Folds
<1>16. RetainRun(g, columns, N, recursive)
  BY <1>1, <1>14, <1>15 DEF op, RetainRun
<1>17. g \in [0 .. N -> RetainState(columns)]
  BY <1>1 DEF T
<1> QED
  BY <1>16, <1>17

\* Whatever it skips, retainNonRecursive gives rows with cells of their columns.
LEMMA RetainFacts ==
  ASSUME NEW L \in Nat, NEW N \in Nat, NEW V, NEW columns \in [1 .. L -> [1 .. N -> V]],
         NEW recursive
  PROVE  RetainNonRecursive(columns, N, recursive) \in Seq([1 .. L -> V])
<1>1. PICK g \in [0 .. N -> RetainState(columns)] : RetainRun(g, columns, N, recursive)
  BY RetainSteps
<1>2. /\ g[0] = [at |-> [j \in 1 .. L |-> 1], out |-> << >>]
      /\ g[N].out = RetainNonRecursive(columns, N, recursive)
      /\ \A k \in 1 .. N : g[k] = RetainStep(columns, recursive, g[k - 1])
  BY <1>1 DEF RetainRun
<1> DEFINE good == { k \in 0 .. N : /\ g[k].at \in [1 .. L -> 1 .. k + 1]
                                    /\ g[k].out \in Seq([1 .. L -> V]) }
<1>3. 0 \in good
  <2>1. g[0].at = [j \in 1 .. L |-> 1] /\ g[0].out = << >>
    BY <1>2
  <2>2. 1 \in 1 .. 0 + 1 /\ 0 \in 0 .. N
    OBVIOUS
  <2>3. g[0].at \in [1 .. L -> 1 .. 0 + 1]
    BY <2>1, <2>2
  <2>4. g[0].out \in Seq([1 .. L -> V])
    BY <2>1
  <2> QED
    BY <2>2, <2>3, <2>4
<1>4. \A k \in 1 .. N : k - 1 \in good => k \in good
  <2> TAKE k \in 1 .. N
  <2> HAVE k - 1 \in good
  <2>1. PICK at \in [1 .. L -> 1 .. k] : at = g[k - 1].at
    <3>1. g[k - 1].at \in [1 .. L -> 1 .. (k - 1) + 1] /\ (k - 1) + 1 = k
      OBVIOUS
    <3> QED
      BY <3>1
  <2>2. PICK o \in Seq([1 .. L -> V]) : o = g[k - 1].out
    OBVIOUS
  <2>3. g[k] = RetainStep(columns, recursive, g[k - 1])
    BY <1>2
  <2> DEFINE reads(j) == \A l \in Stops(columns, at, recursive) : j <= l
  <2>4. g[k].at = [j \in 1 .. L |-> IF reads(j) THEN at[j] + 1 ELSE at[j]]
    BY <2>1, <2>3 DEF RetainStep
  <2>5. g[k].out = IF Stops(columns, at, recursive) = {} THEN Append(o, Cells(columns, at)) ELSE o
    BY <2>1, <2>2, <2>3 DEF RetainStep
  <2>6. Cells(columns, at) \in [1 .. L -> V]
    <3>1. \A j \in 1 .. L : at[j] \in 1 .. N /\ columns[j] \in [1 .. N -> V]
      OBVIOUS
    <3>2. \A j \in 1 .. L : columns[j][at[j]] \in V
      BY <3>1
    <3> QED
      BY <3>2 DEF Cells
  <2> HIDE DEF reads
  <2>7. g[k].at \in [1 .. L -> 1 .. k + 1]
    <3>1. \A j \in 1 .. L : at[j] \in 1 .. k + 1 /\ at[j] + 1 \in 1 .. k + 1
      <4> TAKE j \in 1 .. L
      <4>1. at[j] \in 1 .. k
        OBVIOUS
      <4> QED
        BY <4>1
    <3> QED
      BY <2>4, <3>1
  <2>8. g[k].out \in Seq([1 .. L -> V])
    BY <2>5, <2>6
  <2> QED
    BY <2>7, <2>8
<1>5. N \in good
  <2>1. 0 .. N \subseteq good
    <3> HIDE DEF good
    <3> QED
      BY <1>3, <1>4, UpTo
  <2> HIDE DEF good
  <2> QED
    BY <2>1
<1> QED
  BY <1>2, <1>5

LEMMA KeepFacts ==
  ASSUME NEW T, NEW ms \in Seq(T), NEW indices
  PROVE  Keep(ms, indices) \in Seq(T)
<1> DEFINE all == [i \in DOMAIN ms |-> i]
           kept == Selected(all, indices)
<1>1. all \in Seq(DOMAIN ms)
  OBVIOUS
<1>2. kept \in Seq(DOMAIN ms)
  <2> HIDE DEF all
  <2> QED
    BY <1>1, SelectedFacts
<1>3. Keep(ms, indices) = [n \in DOMAIN kept |-> ms[kept[n]]]
  BY DEF Keep
<1> HIDE DEF kept
<1>4. PICK s \in Seq(DOMAIN ms) : s = kept
  BY <1>2
<1>5. [n \in DOMAIN s |-> ms[s[n]]] \in Seq(T)
  OBVIOUS
<1> QED
  BY <1>3, <1>4, <1>5

\* A row read as a match of the variables vs.
LEMMA RowMatchFacts ==
  ASSUME NEW V, NEW atom, NEW row \in [DOMAIN atom.t -> V]
  PROVE  RowMatch(atom, row) \in [ToSet(atom.t) -> V]
<1>1. ASSUME NEW v \in ToSet(atom.t)
      PROVE  row[CHOOSE k \in DOMAIN atom.t : atom.t[k] = v] \in V
  <2>1. \E k \in DOMAIN atom.t : atom.t[k] = v
    BY DEF ToSet
  <2>2. PICK j \in DOMAIN atom.t : j = CHOOSE k \in DOMAIN atom.t : atom.t[k] = v
    BY <2>1
  <2> QED
    BY <2>2
<1> QED
  BY <1>1 DEF RowMatch

LEMMA FilterFacts ==
  ASSUME NEW i, rules[i] \in AnyRule, NEW V, NEW ms \in Seq(BodyMatch(i, V)), NEW rs
  PROVE  /\ FilterMatches(rules[i], ms, rs) \in Seq(BodyMatch(i, V))
         /\ FilterRecursive(rules[i], ms, rs) \in Seq(BodyMatch(i, V))
<1>1. FilterMatches(rules[i], ms, rs) \in Seq(BodyMatch(i, V))
  <2>1. \A indices : Keep(ms, indices) \in Seq(BodyMatch(i, V))
    BY KeepFacts
  <2> QED
    BY <2>1 DEF FilterMatches
<1>2. ASSUME target # 0
      PROVE  FilterRecursive(rules[i], ms, rs) \in Seq(BodyMatch(i, V))
  <2> DEFINE vs == BodyVars(rules[i])
             columns == [j \in DOMAIN vs |-> [n \in DOMAIN ms |-> ms[n][vs[j]]]]
             recursive == { t \in UNION { ToSet(columns[j]) : j \in DOMAIN vs } : IsRecursive(rs, IsSum, t) }
             result == RetainNonRecursive(columns, Len(ms), recursive)
             atom == [t |-> vs]
  <2>1. PICK L \in Nat : L = Len(vs) /\ DOMAIN vs = 1 .. L /\ \A j \in 1 .. L : vs[j] \in ToSet(vs)
    <3>1. vs \in Seq(Vars)
      BY RuleVars
    <3> HIDE DEF vs
    <3> QED
      BY <3>1 DEF ToSet
  <2>2. PICK N \in Nat : N = Len(ms) /\ DOMAIN ms = 1 .. N /\ \A n \in 1 .. N : ms[n] \in [ToSet(vs) -> V]
    BY DEF BodyMatch
  <2>3. FilterRecursive(rules[i], ms, rs) = [n \in DOMAIN result |-> RowMatch(atom, result[n])]
    BY <1>2 DEF FilterRecursive
  <2> HIDE DEF vs
  <2>4. columns \in [1 .. L -> [1 .. N -> V]]
    BY <2>1, <2>2
  <2> HIDE DEF columns, recursive
  <2>5. result \in Seq([1 .. L -> V])
    BY <2>2, <2>4, RetainFacts
  <2> HIDE DEF result
  <2>6. \A row \in [1 .. L -> V] : RowMatch(atom, row) \in [ToSet(vs) -> V]
    <3>1. atom.t = vs
      OBVIOUS
    <3> HIDE DEF atom
    <3>2. DOMAIN atom.t = 1 .. L
      BY <2>1, <3>1
    <3>3. \A row \in [DOMAIN atom.t -> V] : RowMatch(atom, row) \in [ToSet(atom.t) -> V]
      BY RowMatchFacts
    <3> QED
      BY <3>1, <3>2, <3>3
  <2> HIDE DEF atom
  <2>7. [n \in DOMAIN result |-> RowMatch(atom, result[n])] \in Seq([ToSet(vs) -> V])
    <3>1. PICK s \in Seq([1 .. L -> V]) : s = result
      BY <2>5
    <3>2. PICK k \in Nat : k = Len(s) /\ DOMAIN s = 1 .. k /\ \A n \in 1 .. k : s[n] \in [1 .. L -> V]
      OBVIOUS
    <3> DEFINE row(n) == RowMatch(atom, s[n])
    <3>3. \A n \in 1 .. k : row(n) \in [ToSet(vs) -> V]
      BY <2>6, <3>2
    <3>4. [n \in DOMAIN result |-> RowMatch(atom, result[n])] = [n \in 1 .. k |-> row(n)]
      BY <3>1, <3>2
    <3> HIDE DEF row
    <3>5. [n \in 1 .. k |-> row(n)] \in Seq([ToSet(vs) -> V])
      BY <3>3
    <3> QED
      BY <3>4, <3>5
  <2> QED
    BY <2>3, <2>7 DEF BodyMatch, vs
<1>3. ASSUME target = 0
      PROVE  FilterRecursive(rules[i], ms, rs) \in Seq(BodyMatch(i, V))
  BY <1>3 DEF FilterRecursive
<1> QED
  BY <1>1, <1>2, <1>3

-----------------------------------------------------------------------------
(* The facts a rule derives                                                *)

\* All facts over the values V.
Facts(V) == UNION { { <<q, row>> : row \in [1 .. Width(q) -> V] } : q \in AllPredicates }

LEMMA FactFacts ==
  ASSUME NEW V
  PROVE  /\ \A q \in AllPredicates : \A row \in [1 .. Width(q) -> V] : <<q, row>> \in Facts(V)
         /\ \A f \in Facts(V) : /\ f[1] \in AllPredicates /\ f[2] \in [1 .. Width(f[1]) -> V]
                                /\ f = <<f[1], f[2]>>
         /\ \A W : V \subseteq W => Facts(V) \subseteq Facts(W)
<1>1. ASSUME NEW W, NEW q \in AllPredicates, NEW row \in [1 .. Width(q) -> W]
      PROVE  <<q, row>> \in Facts(W)
  <2> DEFINE of(p) == { <<p, r>> : r \in [1 .. Width(p) -> W] }
  <2>1. <<q, row>> \in of(q)
    OBVIOUS
  <2>2. Facts(W) = UNION { of(p) : p \in AllPredicates }
    BY DEF Facts
  <2> HIDE DEF of
  <2> QED
    BY <2>1, <2>2
<1>2. ASSUME NEW f \in Facts(V)
      PROVE  /\ f[1] \in AllPredicates /\ f[2] \in [1 .. Width(f[1]) -> V]
             /\ f = <<f[1], f[2]>>
  <2>1. PICK q \in AllPredicates : f \in { <<q, row>> : row \in [1 .. Width(q) -> V] }
    BY Zenon DEF Facts
  <2>2. PICK row \in [1 .. Width(q) -> V] : f = <<q, row>>
    BY <2>1
  <2>3. f[1] = q /\ f[2] = row
    BY <2>2
  <2> QED
    BY <2>2, <2>3
<1>3. ASSUME NEW W, V \subseteq W
      PROVE  Facts(V) \subseteq Facts(W)
  <2> SUFFICES ASSUME NEW f \in Facts(V)
               PROVE  f \in Facts(W)
    OBVIOUS
  <2>1. PICK q \in AllPredicates : q = f[1]
    BY <1>2
  <2>2. PICK row \in [1 .. Width(q) -> V] : row = f[2]
    BY <1>2, <2>1
  <2>3. row \in [1 .. Width(q) -> W]
    BY <1>3
  <2> QED
    BY <1>1, <1>2, <2>1, <2>2, <2>3
<1> QED
  BY <1>1, <1>2, <1>3

LEMMA InstanceFacts ==
  ASSUME NEW atoms \in Seq(AnyAtom), NEW D, NEW V, NEW b \in [D -> V],
         ToSet(VarsOf(atoms)) \subseteq D
  PROVE  Instance(b, atoms) \subseteq Facts(V)
<1> SUFFICES ASSUME NEW j \in DOMAIN atoms
             PROVE  <<atoms[j].p, Apply(b, atoms[j])>> \in Facts(V)
  BY DEF Instance
<1>1. PICK a \in AnyAtom : a = atoms[j]
  OBVIOUS
<1>2. ToSet(a.t) \subseteq D
  <2>1. ToSet(VarsOf(atoms)) = UNION { ToSet(atoms[k].t) : k \in DOMAIN atoms }
    BY VarsOfFacts
  <2> QED
    BY <1>1, <2>1
<1>3. a.p \in AllPredicates /\ DOMAIN a.t = 1 .. Width(a.p) /\ \A k \in DOMAIN a.t : a.t[k] \in ToSet(a.t)
  BY AtomFacts
<1>4. Apply(b, a) \in [1 .. Width(a.p) -> V]
  <2>1. \A k \in 1 .. Width(a.p) : b[a.t[k]] \in V
    BY <1>2, <1>3
  <2>2. Apply(b, a) = [k \in 1 .. Width(a.p) |-> b[a.t[k]]]
    BY <1>3 DEF Apply
  <2> QED
    BY <2>1, <2>2
<1> QED
  BY <1>1, <1>3, <1>4, FactFacts

\* What the head of rule i looks like under any match.
Junk(i) == UNION { Instance(m, rules[i].heads) : m \in Partial }

ExecState(F, i) == [rows : [F -> Seq(Seq(Nat))], cyclic : BOOLEAN, facts : SUBSET Junk(i)]

\* From s, with matches over the values there are, comes e.
ProcessResult(F, i, s, ms, e) ==
  /\ e \in ExecState(F, i) /\ Grown(s.rows, e.rows, F)
  /\ /\ Room(e.rows, IsSum) /\ Sound(s, IsSum, target, IsChecking, F)
     /\ ms \in Seq(BodyMatch(i, Values(s.rows, IsSum))) /\ s.facts \subseteq Facts(Values(s.rows, IsSum))
     => /\ Follows(s, e, IsSum, target, IsChecking, F)
        /\ e.facts \subseteq Facts(Values(e.rows, IsSum))

LEMMA AddColumnsFacts ==
  ASSUME NEW M, NEW F, Setting(M, F), NEW i \in Rules, NEW s \in ExecState(F, i),
         NEW ms \in Seq(BodyMatch(i, Nat))
  PROVE  ProcessResult(F, i, s, ms, AddColumns(s, i, ms))
<1> DEFINE x == Extended(s, i, ms)
           heads == rules[i].heads
           new == UNION { Instance(x.ms[n], heads) : n \in DOMAIN ms }
           D == ToSet(BodyVars(rules[i])) \cup ToSet(ExistentialVars(rules[i]))
           e == AddColumns(s, i, ms)
<1>1. s.rows \in [F -> Seq(Seq(Nat))] /\ s.cyclic \in BOOLEAN /\ s.facts \subseteq Junk(i)
  BY DEF ExecState
<1>2. ExtendedResult(F, i, s, ms, x)
  BY <1>1, ExtendedFacts
<1>3. PICK N \in Nat : N = Len(ms) /\ DOMAIN ms = 1 .. N
  OBVIOUS
<1>4. e = [rows |-> x.mgmt.rows, cyclic |-> x.mgmt.cyclic, facts |-> s.facts \cup new]
  BY DEF AddColumns
<1> HIDE DEF x, e
<1>5. x \in ExtState(F, N) /\ Grown(s.rows, x.mgmt.rows, F)
  BY <1>2, <1>3 DEF ExtendedResult
<1>6. /\ x.mgmt.rows \in [F -> Seq(Seq(Nat))] /\ x.mgmt.cyclic \in BOOLEAN
      /\ x.ms \in [1 .. N -> Partial]
  BY <1>5 DEF ExtState, Manager
<1>7. new \subseteq Junk(i)
  <2> SUFFICES ASSUME NEW n \in 1 .. N
               PROVE  Instance(x.ms[n], heads) \subseteq Junk(i)
    BY <1>3, Zenon
  <2>1. PICK m \in Partial : m = x.ms[n]
    BY <1>6
  <2>2. Instance(m, heads) \subseteq Junk(i)
    BY Zenon DEF Junk
  <2> QED
    BY <2>1, <2>2
<1>8. ASSUME Room(e.rows, IsSum), Sound(s, IsSum, target, IsChecking, F),
             ms \in Seq(BodyMatch(i, Values(s.rows, IsSum))), s.facts \subseteq Facts(Values(s.rows, IsSum))
      PROVE  /\ Follows(s, e, IsSum, target, IsChecking, F)
             /\ e.facts \subseteq Facts(Values(e.rows, IsSum))
  <2> DEFINE V == Values(e.rows, IsSum)
  <2>1. e.rows = x.mgmt.rows /\ e.cyclic = x.mgmt.cyclic /\ e.facts = s.facts \cup new
    BY <1>4
  <2>2. /\ Follows(s, x.mgmt, IsSum, target, IsChecking, F)
        /\ \A n \in 1 .. N : x.ms[n] \in [D -> V]
    BY <1>2, <1>3, <1>8, <2>1 DEF ExtendedResult
  <2>3. Follows(s, e, IsSum, target, IsChecking, F)
    BY <2>1, <2>2 DEF Follows, Sound
  <2>4. Values(s.rows, IsSum) \subseteq V
    BY <2>3 DEF Follows, Values
  <2>5. heads \in Seq(AnyAtom) /\ ToSet(VarsOf(heads)) \subseteq D
    <3>1. rules[i] \in AnyRule
      BY SettingFacts
    <3> QED
      BY <3>1, RuleVars
  <2> HIDE DEF V, D
  <2>6. s.facts \subseteq Facts(V)
    BY <1>8, <2>4, FactFacts
  <2>7. \A n \in 1 .. N : Instance(x.ms[n], heads) \subseteq Facts(V)
    <3> TAKE n \in 1 .. N
    <3>1. PICK b \in [D -> V] : b = x.ms[n]
      BY <2>2
    <3> HIDE DEF heads
    <3> QED
      BY <2>5, <3>1, InstanceFacts
  <2>8. new \subseteq Facts(V)
    BY <1>3, <2>7, Zenon
  <2> QED
    BY <2>1, <2>3, <2>6, <2>8 DEF V
<1> HIDE DEF new
<1>9. e \in ExecState(F, i)
  BY <1>1, <1>4, <1>6, <1>7 DEF ExecState
<1>10. Grown(s.rows, e.rows, F)
  BY <1>4, <1>5
<1>11. ProcessResult(F, i, s, ms, e)
  BY <1>8, <1>9, <1>10 DEF ProcessResult
<1> QED
  BY <1>11 DEF e

LEMMA ProcessBatchFacts ==
  ASSUME NEW M, NEW F, Setting(M, F), NEW i \in Rules, NEW s \in ExecState(F, i),
         NEW ms \in Seq(BodyMatch(i, Nat))
  PROVE  ProcessResult(F, i, s, ms, ProcessBatch(s, i, ms))
<1>1. CASE ~IsExistential(rules[i])
  <2>1. ProcessBatch(s, i, ms) = AddColumns(s, i, ms)
    BY <1>1 DEF ProcessBatch
  <2> QED
    BY <2>1, AddColumnsFacts
<1>2. CASE IsExistential(rules[i])
  <2> DEFINE filtered == FilterMatches(rules[i], ms, s.rows)
             kept == FilterRecursive(rules[i], filtered, s.rows)
             e == ProcessBatch(s, i, ms)
  <2>1. e = AddColumns(s, i, kept)
    BY <1>2 DEF ProcessBatch
  <2>2. rules[i] \in AnyRule
    BY SettingFacts
  <2>3. ASSUME NEW V, ms \in Seq(BodyMatch(i, V))
        PROVE  kept \in Seq(BodyMatch(i, V))
    <3>1. filtered \in Seq(BodyMatch(i, V))
      BY <2>2, <2>3, FilterFacts
    <3> HIDE DEF filtered
    <3> QED
      BY <2>2, <3>1, FilterFacts
  <2>4. kept \in Seq(BodyMatch(i, Nat))
    BY <2>3
  <2> HIDE DEF kept, e
  <2>5. ProcessResult(F, i, s, kept, e)
    BY <2>1, <2>4, AddColumnsFacts
  <2>6. ms \in Seq(BodyMatch(i, Values(s.rows, IsSum))) => kept \in Seq(BodyMatch(i, Values(s.rows, IsSum)))
    BY <2>3
  <2>7. ProcessResult(F, i, s, ms, e)
    BY <2>5, <2>6 DEF ProcessResult
  <2> QED
    BY <2>7 DEF e
<1> QED
  BY <1>1, <1>2

\* An execution, batch by batch.
ExecutionRun(g, i) ==
  /\ g[0] = [rows |-> rows, cyclic |-> cyclic, facts |-> {}] /\ g[Len(Batches(i))] = Execution(i)
  /\ \A k \in 1 .. Len(Batches(i)) : g[k] = ProcessBatch(g[k - 1], i, Batches(i)[k])

LEMMA ExecutionSteps ==
  ASSUME NEW M, NEW F, Setting(M, F), NEW i \in Rules,
         rows \in [F -> Seq(Seq(Nat))], cyclic \in BOOLEAN,
         Batches(i) \in Seq(Seq(BodyMatch(i, Nat)))
  PROVE  \E g \in [0 .. Len(Batches(i)) -> ExecState(F, i)] : ExecutionRun(g, i)
<1> DEFINE T == ExecState(F, i)
           B == Seq(BodyMatch(i, Nat))
           op(a, x) == ProcessBatch(a, i, x)
           step == [z \in T \X B |-> op(z[1], z[2])]
<1>1. PICK n \in Nat : n = Len(Batches(i))
  OBVIOUS
<1>2. DOMAIN Batches(i) = 1 .. n /\ Batches(i) \in [1 .. n -> B] /\ [rows |-> rows, cyclic |-> cyclic, facts |-> {}] \in T
  <2>1. PICK bs \in Seq(B) : bs = Batches(i)
    OBVIOUS
  <2>2. DOMAIN bs = 1 .. n /\ bs \in [1 .. n -> B]
    BY <1>1, <2>1
  <2> QED
    BY <2>1, <2>2 DEF ExecState
<1>3. ASSUME NEW a \in T, NEW x \in B
      PROVE  op(a, x) \in T
  <2>1. ProcessResult(F, i, a, x, op(a, x))
    BY ProcessBatchFacts
  <2> HIDE DEF op
  <2> QED
    BY <2>1 DEF ProcessResult
<1> HIDE DEF op, T, B
<1>4. step \in [T \X B -> T]
  BY <1>3
<1>5. \A a \in T, x \in B : step[<<a, x>>] = op(a, x)
  <2> TAKE a \in T, x \in B
  <2>1. PICK z \in T \X B : z = <<a, x>>
    OBVIOUS
  <2> QED
    BY <2>1
<1> HIDE DEF step
<1>6. PICK G \in [SUBSET (1 .. n) -> T] : Recursion(G, n, [rows |-> rows, cyclic |-> cyclic, facts |-> {}], Batches(i), step)
  BY <1>2, <1>4, RecursionExists
<1> DEFINE Body(iter) == [d \in SUBSET (1 .. n) |->
                            IF d = {} THEN [rows |-> rows, cyclic |-> cyclic, facts |-> {}] ELSE op(iter[d \ {Max(d)}], Batches(i)[Max(d)])]
<1>7. \A d \in SUBSET (1 .. n) : G[d] = Body(G)[d]
  <2> TAKE d \in SUBSET (1 .. n)
  <2>1. CASE d = {}
    BY <1>6, <2>1 DEF Recursion
  <2>2. CASE d # {}
    <3>1. Max(d) \in 1 .. n /\ d \ {Max(d)} \in SUBSET (1 .. n)
      BY <2>2, MaxOfSet
    <3>2. Batches(i)[Max(d)] \in B /\ G[d \ {Max(d)}] \in T
      BY <3>1, <1>2
    <3>3. step[<<G[d \ {Max(d)}], Batches(i)[Max(d)]>>] = op(G[d \ {Max(d)}], Batches(i)[Max(d)])
      BY <1>5, <3>2
    <3> QED
      BY <1>6, <2>2, <3>3 DEF Recursion
  <2> QED
    BY <2>1, <2>2
<1>8. G = Body(G)
  <2>1. DOMAIN G = DOMAIN Body(G)
    OBVIOUS
  <2> QED
    BY <1>7
<1>9. Execution(i) = (CHOOSE iter : iter = Body(iter))[1 .. n]
  <2>1. DOMAIN Batches(i) = 1 .. n
    BY <1>2
  <2> QED
    BY <2>1 DEF Execution, FoldLeft, MapThenFoldSet, op
<1>10. PICK iter : iter = Body(iter) /\ Execution(i) = iter[1 .. n]
  <2> HIDE DEF Body
  <2> QED
    BY <1>8, <1>9
<1>11. iter[{}] = [rows |-> rows, cyclic |-> cyclic, facts |-> {}]
  <2>1. {} \in SUBSET (1 .. n)
    OBVIOUS
  <2> QED
    BY <1>10, <2>1
<1>12. ASSUME NEW k \in 1 .. n
       PROVE  iter[1 .. k] = op(iter[1 .. (k - 1)], Batches(i)[k])
  <2>1. k \in Nat \ {0} /\ 1 .. k \in SUBSET (1 .. n)
    BY <1>1
  <2>2. Max(1 .. k) = k /\ (1 .. k) \ {k} = 1 .. (k - 1) /\ 1 .. k # {}
    BY <2>1, MaxOfUpTo
  <2> QED
    BY <1>10, <2>1, <2>2
<1>13. PICK g \in [0 .. n -> T] : Folds(g, n, [rows |-> rows, cyclic |-> cyclic, facts |-> {}], Batches(i), step, iter[1 .. n])
  <2>1. \A k \in 1 .. n : iter[1 .. (k - 1)] \in T =>
          iter[1 .. k] = step[<<iter[1 .. (k - 1)], Batches(i)[k]>>]
    BY <1>2, <1>5, <1>12
  <2> HIDE DEF Body
  <2> QED
    BY <1>2, <1>4, <1>11, <2>1, FoldSteps
<1>14. \A k \in 1 .. n : g[k] = op(g[k - 1], Batches(i)[k])
  <2> TAKE k \in 1 .. n
  <2>1. g[k - 1] \in T /\ Batches(i)[k] \in B
    BY <1>2
  <2> QED
    BY <1>5, <1>13, <2>1 DEF Folds
<1>15. g[0] = [rows |-> rows, cyclic |-> cyclic, facts |-> {}] /\ g[n] = Execution(i)
  BY <1>10, <1>13 DEF Folds
<1>16. ExecutionRun(g, i)
  BY <1>1, <1>14, <1>15 DEF op, ExecutionRun
<1>17. g \in [0 .. Len(Batches(i)) -> ExecState(F, i)]
  BY <1>1 DEF T
<1> QED
  BY <1>16, <1>17

\* All batches of an execution keep the chase manager sound.
LEMMA ExecutionFacts ==
  ASSUME NEW M, NEW F, Setting(M, F), NEW i \in Rules,
         rows \in [F -> Seq(Seq(Nat))], cyclic \in BOOLEAN,
         Values(rows, IsSum) \subseteq Nat,
         Batches(i) \in Seq(Seq(BodyMatch(i, Values(rows, IsSum)))), NEW e, e = Execution(i)
  PROVE  /\ e \in ExecState(F, i) /\ Grown(rows, e.rows, F)
         /\ /\ Room(e.rows, IsSum) /\ RowsOK(rows, IsSum, F)
            /\ IsChecking => Flag(rows, IsSum, target, F, cyclic)
            => /\ RowsOK(e.rows, IsSum, F)
               /\ IsChecking => Flag(e.rows, IsSum, target, F, e.cyclic)
               /\ Values(rows, IsSum) \subseteq Values(e.rows, IsSum)
               /\ e.facts \subseteq Facts(Values(e.rows, IsSum))
<1> DEFINE s == [rows |-> rows, cyclic |-> cyclic, facts |-> {}]
           V == Values(rows, IsSum)
<1>1. PICK n \in Nat : /\ n = Len(Batches(i)) /\ DOMAIN Batches(i) = 1 .. n
                       /\ \A k \in 1 .. n : Batches(i)[k] \in Seq(BodyMatch(i, V))
  <2>1. PICK bs \in Seq(Seq(BodyMatch(i, V))) : bs = Batches(i)
    OBVIOUS
  <2> HIDE DEF V
  <2> QED
    BY <2>1
<1>2. \A W, ms : V \subseteq W /\ ms \in Seq(BodyMatch(i, V)) => ms \in Seq(BodyMatch(i, W))
  <2> TAKE W, ms
  <2> HAVE V \subseteq W /\ ms \in Seq(BodyMatch(i, V))
  <2> HIDE DEF V
  <2>1. \A k \in DOMAIN ms : ms[k] \in BodyMatch(i, V)
    OBVIOUS
  <2>2. BodyMatch(i, V) \subseteq BodyMatch(i, W)
    BY DEF BodyMatch
  <2> QED
    BY <2>1, <2>2, SeqIn
<1>3. \A k \in 1 .. n : Batches(i)[k] \in Seq(BodyMatch(i, Nat))
  BY <1>1, <1>2
<1>4. PICK g \in [0 .. n -> ExecState(F, i)] : ExecutionRun(g, i)
  <2>1. PICK bs \in Seq(Seq(BodyMatch(i, V))) : bs = Batches(i)
    OBVIOUS
  <2> HIDE DEF V
  <2>2. \A k \in DOMAIN bs : bs[k] \in Seq(BodyMatch(i, Nat))
    BY <1>1, <1>3, <2>1
  <2>3. Batches(i) \in Seq(Seq(BodyMatch(i, Nat)))
    BY <2>1, <2>2, SeqIn
  <2>4. PICK g \in [0 .. Len(Batches(i)) -> ExecState(F, i)] : ExecutionRun(g, i)
    BY <2>3, ExecutionSteps
  <2> QED
    BY <1>1, <2>4
<1>5. /\ g[0] = s /\ g[n] = e
      /\ \A k \in 1 .. n : g[k] = ProcessBatch(g[k - 1], i, Batches(i)[k])
  BY <1>1, <1>4 DEF ExecutionRun
<1>6. g[0].rows = rows /\ g[0].cyclic = cyclic /\ g[0].facts = {}
  BY <1>5
<1> HIDE DEF s
<1>7. \A k \in 0 .. n : g[k] \in ExecState(F, i) /\ g[k].rows \in [F -> Seq(Seq(Nat))]
  BY <1>4 DEF ExecState
<1>8. ASSUME NEW k \in 1 .. n
      PROVE  /\ ProcessResult(F, i, g[k - 1], Batches(i)[k], g[k])
             /\ k - 1 \in 0 .. n /\ k \in 0 .. n
  <2>1. k - 1 \in 0 .. n /\ k \in 0 .. n
    OBVIOUS
  <2>2. PICK a \in ExecState(F, i) : a = g[k - 1]
    BY <1>7, <2>1
  <2>3. PICK ms \in Seq(BodyMatch(i, Nat)) : ms = Batches(i)[k]
    BY <1>3
  <2>4. g[k] = ProcessBatch(a, i, ms)
    BY <1>5, <2>2, <2>3
  <2> QED
    BY <2>1, <2>2, <2>3, <2>4, ProcessBatchFacts
<1> DEFINE h == [k \in 0 .. n |-> g[k].rows]
<1>9. /\ h \in [0 .. n -> [F -> Seq(Seq(Nat))]]
      /\ \A k \in 0 .. n : h[k] = g[k].rows
  BY <1>7
<1> HIDE DEF h
<1>10. \A k \in 1 .. n : Grown(h[k - 1], h[k], F)
  <2> TAKE k \in 1 .. n
  <2>1. Grown(g[k - 1].rows, g[k].rows, F)
    BY <1>8 DEF ProcessResult
  <2> QED
    BY <1>8, <1>9, <2>1
<1>11. \A k \in 0 .. n : Grown(h[0], h[k], F) /\ (Room(h[n], IsSum) => Room(h[k], IsSum))
  BY <1>9, <1>10, ChainFacts
<1>12. 0 \in 0 .. n /\ n \in 0 .. n
  OBVIOUS
<1>13. e \in ExecState(F, i) /\ Grown(rows, e.rows, F)
  BY <1>5, <1>6, <1>7, <1>9, <1>11, <1>12
<1>14. ASSUME Room(e.rows, IsSum), RowsOK(rows, IsSum, F),
              IsChecking => Flag(rows, IsSum, target, F, cyclic)
       PROVE  /\ Sound(e, IsSum, target, IsChecking, F)
              /\ V \subseteq Values(e.rows, IsSum)
              /\ e.facts \subseteq Facts(Values(e.rows, IsSum))
  <2> DEFINE good == { k \in 0 .. n :
                         /\ Sound(g[k], IsSum, target, IsChecking, F)
                         /\ V \subseteq Values(g[k].rows, IsSum)
                         /\ g[k].facts \subseteq Facts(Values(g[k].rows, IsSum)) }
  <2>1. 0 \in good
    BY <1>6, <1>12, <1>14 DEF Sound
  <2>2. \A k \in 1 .. n : k - 1 \in good => k \in good
    <3> TAKE k \in 1 .. n
    <3> HAVE k - 1 \in good
    <3>1. PICK a \in ExecState(F, i) : a = g[k - 1]
      BY <1>7, <1>8
    <3>2. PICK b \in ExecState(F, i) : b = g[k]
      BY <1>7, <1>8
    <3>3. PICK ms \in Seq(BodyMatch(i, V)) : ms = Batches(i)[k]
      BY <1>1
    <3>4. /\ Sound(a, IsSum, target, IsChecking, F) /\ V \subseteq Values(a.rows, IsSum)
          /\ a.facts \subseteq Facts(Values(a.rows, IsSum))
      BY <3>1
    <3>5. ProcessResult(F, i, a, ms, b)
      BY <1>8, <3>1, <3>2, <3>3
    <3>6. Room(b.rows, IsSum)
      BY <1>5, <1>8, <1>9, <1>11, <1>12, <1>14, <3>2
    <3>7. ms \in Seq(BodyMatch(i, Values(a.rows, IsSum)))
      BY <1>2, <3>4
    <3>8. Follows(a, b, IsSum, target, IsChecking, F) /\ b.facts \subseteq Facts(Values(b.rows, IsSum))
      BY <3>4, <3>5, <3>6, <3>7 DEF ProcessResult
    <3>9. Sound(b, IsSum, target, IsChecking, F) /\ Values(a.rows, IsSum) \subseteq Values(b.rows, IsSum)
      BY <3>8 DEF Follows, Values
    <3> HIDE DEF V
    <3> QED
      BY <1>8, <3>2, <3>4, <3>8, <3>9
  <2>3. n \in good
    <3> HIDE DEF good
    <3> QED
      BY <1>12, <2>1, <2>2, UpTo
  <2> QED
    BY <1>5, <2>3
<1> QED
  BY <1>13, <1>14 DEF Sound

-----------------------------------------------------------------------------
(* Sorted blocks                                                           *)

LEMMA RowsFinite ==
  ASSUME NEW w \in Nat, NEW V, IsFiniteSet(V)
  PROVE  IsFiniteSet([1 .. w -> V])
<1> DEFINE done == { k \in 0 .. w : IsFiniteSet([1 .. k -> V]) }
<1>1. 0 \in done
  <2> DEFINE f == [x \in 1 .. 0 |-> 0]
  <2>1. \A g \in [1 .. 0 -> V] : g = f
    OBVIOUS
  <2> HIDE DEF f
  <2>2. [1 .. 0 -> V] \in SUBSET {f}
    BY <2>1
  <2>3. IsFiniteSet({f})
    BY FS_Singleton
  <2>4. IsFiniteSet([1 .. 0 -> V])
    BY <2>2, <2>3, FS_Subset
  <2> QED
    BY <2>4
<1>2. ASSUME NEW k \in 1 .. w, k - 1 \in done
      PROVE  k \in done
  <2> DEFINE S == [1 .. (k - 1) -> V]
             T == [1 .. k -> V]
             join(s, v) == [j \in 1 .. k |-> IF j = k THEN v ELSE s[j]]
             f == [z \in S \X V |-> join(z[1], z[2])]
  <2>1. IsFiniteSet(S \X V)
    <3>1. IsFiniteSet(S)
      BY <1>2
    <3> HIDE DEF S
    <3> QED
      BY <3>1, FS_Product
  <2>2. \A s \in S, v \in V : join(s, v) \in T
    <3> TAKE s \in S, v \in V
    <3>1. \A j \in 1 .. k : j # k => j \in 1 .. (k - 1)
      OBVIOUS
    <3>2. \A j \in 1 .. k : (IF j = k THEN v ELSE s[j]) \in V
      BY <3>1
    <3> QED
      BY <3>2
  <2>3. f \in [S \X V -> T]
    <3> HIDE DEF join, S, T
    <3> QED
      BY <2>2
  <2>4. ASSUME NEW t \in T
        PROVE  \E z \in S \X V : f[z] = t
    <3> DEFINE s == [j \in 1 .. (k - 1) |-> t[j]]
    <3>1. s \in S /\ t[k] \in V /\ k \in Nat
      <4>1. \A j \in 1 .. (k - 1) : j \in 1 .. k
        OBVIOUS
      <4> QED
        BY <4>1
    <3>2. join(s, t[k]) = t
      <4>1. \A j \in 1 .. k : j # k => j \in 1 .. (k - 1)
        OBVIOUS
      <4> QED
        BY <4>1
    <3>3. f[<<s, t[k]>>] = join(s, t[k])
      <4> DEFINE z == <<s, t[k]>>
      <4>1. z \in S \X V /\ z[1] = s /\ z[2] = t[k]
        BY <3>1
      <4> HIDE DEF z, join, s
      <4>2. f[z] = join(s, t[k])
        BY <4>1
      <4> QED
        BY <4>2 DEF z
    <3> HIDE DEF s, join, f
    <3> QED
      BY <3>1, <3>2, <3>3
  <2>5. f \in Surjection(S \X V, T)
    <3> HIDE DEF f, S, T
    <3> QED
      BY <2>3, <2>4 DEF Surjection
  <2>6. IsFiniteSet(T)
    <3> HIDE DEF f, S, T
    <3> QED
      BY <2>1, <2>5, FS_Surjection
  <2> QED
    BY <2>6
<1>3. w \in done
  <2> HIDE DEF done
  <2>1. w \in 0 .. w
    OBVIOUS
  <2> QED
    BY <1>1, <1>2, <2>1, UpTo
<1> QED
  BY <1>3

LEMMA LessRowFacts ==
  ASSUME NEW w \in Nat, NEW a \in [1 .. w -> Nat], NEW b \in [1 .. w -> Nat]
  PROVE  /\ ~LessRow(a, a)
         /\ a # b => LessRow(a, b) \/ LessRow(b, a)
         /\ \A c \in [1 .. w -> Nat] : LessRow(a, b) /\ LessRow(b, c) => LessRow(a, c)
<1>1. ~LessRow(a, a)
  BY DEF LessRow
<1>2. ASSUME a # b
      PROVE  LessRow(a, b) \/ LessRow(b, a)
  <2> DEFINE differ == { k \in 1 .. w : a[k] # b[k] }
  <2>1. differ \subseteq Nat /\ differ # {}
    <3>1. DOMAIN a = 1 .. w /\ DOMAIN b = 1 .. w
      OBVIOUS
    <3>2. PICK k \in 1 .. w : a[k] # b[k]
      BY <1>2, <3>1
    <3>3. k \in differ /\ 1 .. w \subseteq Nat
      BY <3>2
    <3> QED
      BY <3>3
  <2>2. PICK m \in differ : \A k \in differ : m <= k
    <3> HIDE DEF differ
    <3> QED
      BY <2>1, LeastNumber
  <2>3. m \in 1 .. w /\ a[m] # b[m] /\ a[m] \in Nat /\ b[m] \in Nat
    BY <2>2
  <2>4. \A l \in 1 .. m - 1 : a[l] = b[l]
    <3> TAKE l \in 1 .. m - 1
    <3>1. l \in 1 .. w /\ ~(m <= l)
      BY <2>3
    <3> QED
      BY <2>2, <3>1
  <2>5. a[m] < b[m] \/ b[m] < a[m]
    BY <2>3
  <2> QED
    BY <2>3, <2>4, <2>5 DEF LessRow
<1>3. ASSUME NEW c \in [1 .. w -> Nat], LessRow(a, b), LessRow(b, c)
      PROVE  LessRow(a, c)
  <2>1. PICK k \in 1 .. w : a[k] < b[k] /\ \A l \in 1 .. k - 1 : a[l] = b[l]
    BY <1>3 DEF LessRow
  <2>2. PICK j \in 1 .. w : b[j] < c[j] /\ \A l \in 1 .. j - 1 : b[l] = c[l]
    BY <1>3 DEF LessRow
  <2>3. PICK m \in 1 .. w : m = IF k <= j THEN k ELSE j
    OBVIOUS
  <2>4. a[m] < c[m]
    <3>1. CASE k < j
      <4>1. m = k /\ k \in 1 .. j - 1
        BY <2>3, <3>1
      <4> QED
        BY <2>1, <2>2, <4>1
    <3>2. CASE j < k
      <4>1. m = j /\ j \in 1 .. k - 1
        BY <2>3, <3>2
      <4> QED
        BY <2>1, <2>2, <4>1
    <3>3. CASE k = j
      <4>1. a[k] \in Nat /\ b[k] \in Nat /\ c[k] \in Nat /\ m = k
        BY <2>3, <3>3
      <4> QED
        BY <2>1, <2>2, <3>3, <4>1
    <3> QED
      BY <3>1, <3>2, <3>3
  <2>5. \A l \in 1 .. m - 1 : a[l] = c[l]
    <3> TAKE l \in 1 .. m - 1
    <3>1. l \in 1 .. k - 1 /\ l \in 1 .. j - 1
      BY <2>3
    <3> QED
      BY <2>1, <2>2, <3>1
  <2> QED
    BY <2>4, <2>5 DEF LessRow
<1> QED
  BY <1>1, <1>2, <1>3

\* The rows below row in set.
Under(set, row) == { x \in set : LessRow(x, row) }

LEMMA RankFacts ==
  ASSUME NEW w \in Nat, NEW set \in SUBSET [1 .. w -> Nat], IsFiniteSet(set)
  PROVE  /\ Cardinality(set) \in Nat
         /\ \A n \in 1 .. Cardinality(set) : \E row \in set : Cardinality(Under(set, row)) + 1 = n
<1> DEFINE N == Cardinality(set)
           rank(row) == Cardinality(Under(set, row)) + 1
           r == [row \in set |-> rank(row)]
<1>1. N \in Nat
  BY FS_CardinalityType
<1>2. ASSUME NEW row \in set
      PROVE  IsFiniteSet(Under(set, row)) /\ Cardinality(Under(set, row)) \in Nat /\ rank(row) \in 1 .. N
  <2>1. Under(set, row) \in SUBSET set
    BY DEF Under
  <2>2. row \notin Under(set, row)
    <3>1. ~LessRow(row, row)
      BY LessRowFacts
    <3> QED
      BY <3>1 DEF Under
  <2>3. IsFiniteSet(Under(set, row)) /\ Cardinality(Under(set, row)) <= N /\ Cardinality(Under(set, row)) # N
    BY <2>1, <2>2, FS_Subset
  <2>4. Cardinality(Under(set, row)) \in Nat
    BY <2>3, FS_CardinalityType
  <2> QED
    BY <1>1, <2>3, <2>4
<1>3. ASSUME NEW a \in set, NEW b \in set, LessRow(a, b)
      PROVE  rank(a) < rank(b)
  <2>1. Under(set, a) \in SUBSET Under(set, b)
    <3> SUFFICES ASSUME NEW x \in set, LessRow(x, a)
                 PROVE  LessRow(x, b)
      BY DEF Under
    <3> QED
      BY <1>3, LessRowFacts
  <2>2. a \in Under(set, b) /\ a \notin Under(set, a)
    <3>1. ~LessRow(a, a)
      BY LessRowFacts
    <3> QED
      BY <1>3, <3>1 DEF Under
  <2>3. Cardinality(Under(set, a)) <= Cardinality(Under(set, b)) /\ Cardinality(Under(set, a)) # Cardinality(Under(set, b))
    BY <1>2, <2>1, <2>2, FS_Subset
  <2> QED
    BY <1>2, <2>3
<1>4. ASSUME NEW a \in set, NEW b \in set, a # b
      PROVE  rank(a) # rank(b)
  <2>1. LessRow(a, b) \/ LessRow(b, a)
    BY <1>4, LessRowFacts
  <2>2. rank(a) \in Nat /\ rank(b) \in Nat
    BY <1>2
  <2> HIDE DEF rank
  <2> QED
    BY <1>3, <2>1, <2>2
<1> HIDE DEF rank
<1>5. r \in Injection(set, 1 .. N)
  <2>1. r \in [set -> 1 .. N]
    BY <1>2
  <2> QED
    BY <1>4, <2>1 DEF Injection, IsInjective
<1>6. IsFiniteSet(1 .. N) /\ Cardinality(1 .. N) = N
  BY <1>1, FS_Interval
<1> HIDE DEF r
<1>7. r \in Surjection(set, 1 .. N)
  BY <1>5, <1>6, FS_Injection
<1>8. \A n \in 1 .. N : \E row \in set : r[row] = n
  BY <1>7 DEF Surjection
<1> QED
  BY <1>1, <1>8 DEF r, rank

LEMMA SortedFacts ==
  ASSUME NEW w \in Nat, NEW set \in SUBSET [1 .. w -> Nat], IsFiniteSet(set)
  PROVE  SortedBlock(set) \in Seq(set)
<1> DEFINE N == Cardinality(set)
           at(n) == CHOOSE row \in set : Cardinality(Under(set, row)) + 1 = n
<1>1. N \in Nat /\ \A n \in 1 .. N : at(n) \in set
  BY RankFacts
<1>2. SortedBlock(set) = [n \in 1 .. N |-> at(n)]
  BY DEF SortedBlock, Under
<1> HIDE DEF at
<1> QED
  BY <1>1, <1>2

-----------------------------------------------------------------------------
(* Matches                                                                 *)

\* The facts that extend match b, and what they extend it to.
Fitting(b, atom, facts) ==
  { f \in facts : /\ f[1] = atom.p
                  /\ \A k, l \in DOMAIN atom.t : atom.t[k] = atom.t[l] => f[2][k] = f[2][l]
                  /\ \A k \in DOMAIN atom.t : atom.t[k] \in DOMAIN b => f[2][k] = b[atom.t[k]] }

MatchedBy(b, atom, f) ==
  [v \in DOMAIN b \cup ToSet(atom.t) |->
     IF v \in DOMAIN b THEN b[v] ELSE f[2][CHOOSE k \in DOMAIN atom.t : atom.t[k] = v]]

MatchStep(bs, atom, facts) == UNION { { MatchedBy(b, atom, f) : f \in Fitting(b, atom, facts) } : b \in bs }

Bindings(V) == UNION { [D -> V] : D \in SUBSET Vars }

LEMMA MatchedByFacts ==
  ASSUME NEW V, NEW facts \in SUBSET Facts(V), NEW atom \in AnyAtom, NEW D, NEW b \in [D -> V],
         NEW f \in Fitting(b, atom, facts)
  PROVE  MatchedBy(b, atom, f) \in [D \cup ToSet(atom.t) -> V]
<1>1. f \in Facts(V) /\ f[1] = atom.p
  BY DEF Fitting
<1>2. f[2] \in [1 .. Width(atom.p) -> V]
  BY <1>1, FactFacts
<1>3. DOMAIN atom.t = 1 .. Width(atom.p)
  BY AtomFacts
<1>4. \A v \in ToSet(atom.t) : f[2][CHOOSE k \in DOMAIN atom.t : atom.t[k] = v] \in V
  <2> TAKE v \in ToSet(atom.t)
  <2>1. \E k \in DOMAIN atom.t : atom.t[k] = v
    BY DEF ToSet
  <2>2. PICK j \in DOMAIN atom.t : j = CHOOSE k \in DOMAIN atom.t : atom.t[k] = v
    BY <2>1
  <2> QED
    BY <1>2, <1>3, <2>2
<1> QED
  BY <1>4 DEF MatchedBy

LEMMA MatchStepFacts ==
  ASSUME NEW V, NEW facts \in SUBSET Facts(V), NEW atom \in AnyAtom, NEW bs, NEW D,
         bs \in SUBSET [D -> V]
  PROVE  MatchStep(bs, atom, facts) \in SUBSET [D \cup ToSet(atom.t) -> V]
<1>1. ASSUME NEW b \in bs, NEW f \in Fitting(b, atom, facts)
      PROVE  MatchedBy(b, atom, f) \in [D \cup ToSet(atom.t) -> V]
  <2>1. b \in [D -> V]
    OBVIOUS
  <2> QED
    BY <2>1, MatchedByFacts
<1>2. ASSUME NEW x \in MatchStep(bs, atom, facts)
      PROVE  x \in [D \cup ToSet(atom.t) -> V]
  <2>1. PICK b \in bs : x \in { MatchedBy(b, atom, f) : f \in Fitting(b, atom, facts) }
    BY Zenon DEF MatchStep
  <2>2. PICK f \in Fitting(b, atom, facts) : x = MatchedBy(b, atom, f)
    BY <2>1
  <2> QED
    BY <1>1, <2>2
<1> QED
  BY <1>2

LEMMA MatchStepTyped ==
  ASSUME NEW V, NEW facts \in SUBSET Facts(V), NEW atom \in AnyAtom, NEW bs \in SUBSET Bindings(V)
  PROVE  MatchStep(bs, atom, facts) \in SUBSET Bindings(V)
<1> SUFFICES ASSUME NEW x \in MatchStep(bs, atom, facts)
             PROVE  x \in Bindings(V)
  OBVIOUS
<1>a. PICK b \in bs : x \in { MatchedBy(b, atom, f) : f \in Fitting(b, atom, facts) }
  BY Zenon DEF MatchStep
<1>b. PICK f \in Fitting(b, atom, facts) : x = MatchedBy(b, atom, f)
  BY <1>a
<1>1. b \in Bindings(V)
  OBVIOUS
<1>2. PICK D \in SUBSET Vars : b \in [D -> V]
  BY <1>1, Zenon DEF Bindings
<1>3. D \cup ToSet(atom.t) \in SUBSET Vars
  BY AtomFacts
<1>4. x \in [D \cup ToSet(atom.t) -> V]
  BY <1>b, <1>2, MatchedByFacts
<1> QED
  BY <1>3, <1>4, Zenon DEF Bindings

LEMMA NoBinding ==
  ASSUME NEW V
  PROVE  {<< >>} \in SUBSET [{} -> V] /\ {<< >>} \in SUBSET Bindings(V)
<1>1. << >> \in [{} -> V]
  OBVIOUS
<1>2. {} \in SUBSET Vars
  OBVIOUS
<1> QED
  BY <1>1, <1>2 DEF Bindings

\* Matches, atom by atom.
MatchesRun(g, atoms, facts) ==
  /\ g[0] = {<< >>} /\ g[Len(atoms)] = Matches(atoms, facts)
  /\ \A k \in 1 .. Len(atoms) : g[k] = MatchStep(g[k - 1], atoms[k], facts)

LEMMA MatchesSteps ==
  ASSUME NEW V, NEW facts \in SUBSET Facts(V), NEW atoms \in Seq(AnyAtom)
  PROVE  \E g \in [0 .. Len(atoms) -> SUBSET Bindings(V)] : MatchesRun(g, atoms, facts)
<1> DEFINE T == SUBSET Bindings(V)
           B == AnyAtom
           op(a, x) == MatchStep(a, x, facts)
           step == [z \in T \X B |-> op(z[1], z[2])]
<1>1. PICK n \in Nat : n = Len(atoms)
  OBVIOUS
<1>2. DOMAIN atoms = 1 .. n /\ atoms \in [1 .. n -> B] /\ {<< >>} \in T
  BY <1>1, NoBinding
<1>3. ASSUME NEW a \in T, NEW x \in B
      PROVE  op(a, x) \in T
  BY MatchStepTyped
<1> HIDE DEF op, T, B
<1>4. step \in [T \X B -> T]
  BY <1>3
<1>5. \A a \in T, x \in B : step[<<a, x>>] = op(a, x)
  <2> TAKE a \in T, x \in B
  <2>1. PICK z \in T \X B : z = <<a, x>>
    OBVIOUS
  <2> QED
    BY <2>1
<1> HIDE DEF step
<1>6. PICK G \in [SUBSET (1 .. n) -> T] : Recursion(G, n, {<< >>}, atoms, step)
  BY <1>2, <1>4, RecursionExists
<1> DEFINE Body(iter) == [d \in SUBSET (1 .. n) |->
                            IF d = {} THEN {<< >>} ELSE op(iter[d \ {Max(d)}], atoms[Max(d)])]
<1>7. \A d \in SUBSET (1 .. n) : G[d] = Body(G)[d]
  <2> TAKE d \in SUBSET (1 .. n)
  <2>1. CASE d = {}
    BY <1>6, <2>1 DEF Recursion
  <2>2. CASE d # {}
    <3>1. Max(d) \in 1 .. n /\ d \ {Max(d)} \in SUBSET (1 .. n)
      BY <2>2, MaxOfSet
    <3>2. atoms[Max(d)] \in B /\ G[d \ {Max(d)}] \in T
      BY <3>1, <1>2
    <3>3. step[<<G[d \ {Max(d)}], atoms[Max(d)]>>] = op(G[d \ {Max(d)}], atoms[Max(d)])
      BY <1>5, <3>2
    <3> QED
      BY <1>6, <2>2, <3>3 DEF Recursion
  <2> QED
    BY <2>1, <2>2
<1>8. G = Body(G)
  <2>1. DOMAIN G = DOMAIN Body(G)
    OBVIOUS
  <2> QED
    BY <1>7
<1>9. Matches(atoms, facts) = (CHOOSE iter : iter = Body(iter))[1 .. n]
  <2>1. DOMAIN atoms = 1 .. n
    BY <1>2
  <2> QED
    BY <2>1 DEF Matches, MatchStep, MatchedBy, Fitting, FoldLeft, MapThenFoldSet, op
<1>10. PICK iter : iter = Body(iter) /\ Matches(atoms, facts) = iter[1 .. n]
  <2> HIDE DEF Body
  <2> QED
    BY <1>8, <1>9
<1>11. iter[{}] = {<< >>}
  <2>1. {} \in SUBSET (1 .. n)
    OBVIOUS
  <2> QED
    BY <1>10, <2>1
<1>12. ASSUME NEW k \in 1 .. n
       PROVE  iter[1 .. k] = op(iter[1 .. (k - 1)], atoms[k])
  <2>1. k \in Nat \ {0} /\ 1 .. k \in SUBSET (1 .. n)
    BY <1>1
  <2>2. Max(1 .. k) = k /\ (1 .. k) \ {k} = 1 .. (k - 1) /\ 1 .. k # {}
    BY <2>1, MaxOfUpTo
  <2> QED
    BY <1>10, <2>1, <2>2
<1>13. PICK g \in [0 .. n -> T] : Folds(g, n, {<< >>}, atoms, step, iter[1 .. n])
  <2>1. \A k \in 1 .. n : iter[1 .. (k - 1)] \in T =>
          iter[1 .. k] = step[<<iter[1 .. (k - 1)], atoms[k]>>]
    BY <1>2, <1>5, <1>12
  <2> HIDE DEF Body
  <2> QED
    BY <1>2, <1>4, <1>11, <2>1, FoldSteps
<1>14. \A k \in 1 .. n : g[k] = op(g[k - 1], atoms[k])
  <2> TAKE k \in 1 .. n
  <2>1. g[k - 1] \in T /\ atoms[k] \in B
    BY <1>2
  <2> QED
    BY <1>5, <1>13, <2>1 DEF Folds
<1>15. g[0] = {<< >>} /\ g[n] = Matches(atoms, facts)
  BY <1>10, <1>13 DEF Folds
<1>16. MatchesRun(g, atoms, facts)
  BY <1>1, <1>14, <1>15 DEF op, MatchesRun
<1>17. g \in [0 .. Len(atoms) -> SUBSET Bindings(V)]
  BY <1>1 DEF T
<1> QED
  BY <1>16, <1>17

\* Matches over the facts of V map the variables of the atoms to V.
LEMMA MatchesFacts ==
  ASSUME NEW V, NEW facts \in SUBSET Facts(V), NEW atoms \in Seq(AnyAtom)
  PROVE  Matches(atoms, facts) \in SUBSET [ToSet(VarsOf(atoms)) -> V]
<1>1. PICK n \in Nat : n = Len(atoms) /\ DOMAIN atoms = 1 .. n /\ \A k \in 1 .. n : atoms[k] \in AnyAtom
  OBVIOUS
<1>2. PICK g \in [0 .. n -> SUBSET Bindings(V)] : MatchesRun(g, atoms, facts)
  BY <1>1, MatchesSteps
<1>3. /\ g[0] = {<< >>} /\ g[n] = Matches(atoms, facts)
      /\ \A k \in 1 .. n : g[k] = MatchStep(g[k - 1], atoms[k], facts)
  BY <1>1, <1>2 DEF MatchesRun
<1> DEFINE upto(k) == UNION { ToSet(atoms[j].t) : j \in 1 .. k }
           good == { k \in 0 .. n : g[k] \in SUBSET [upto(k) -> V] }
<1>4. 0 \in good
  <2>1. upto(0) = {} /\ 0 \in 0 .. n
    OBVIOUS
  <2>2. g[0] \in SUBSET [{} -> V]
    BY <1>3, NoBinding
  <2> QED
    BY <2>1, <2>2
<1>5. \A k \in 1 .. n : k - 1 \in good => k \in good
  <2> TAKE k \in 1 .. n
  <2> HAVE k - 1 \in good
  <2>1. g[k - 1] \in SUBSET [upto(k - 1) -> V]
    OBVIOUS
  <2>2. upto(k) = upto(k - 1) \cup ToSet(atoms[k].t)
    <3>1. 1 .. k = (1 .. (k - 1)) \cup {k}
      OBVIOUS
    <3> QED
      BY <3>1
  <2>3. atoms[k] \in AnyAtom /\ g[k] = MatchStep(g[k - 1], atoms[k], facts)
    BY <1>1, <1>3
  <2> HIDE DEF upto
  <2>4. g[k] \in SUBSET [upto(k) -> V]
    <3>1. PICK bs, D : bs = g[k - 1] /\ D = upto(k - 1)
      OBVIOUS
    <3>2. PICK atom \in AnyAtom : atom = atoms[k]
      BY <2>3
    <3>3. bs \in SUBSET [D -> V]
      BY <2>1, <3>1
    <3>4. MatchStep(bs, atom, facts) \in SUBSET [D \cup ToSet(atom.t) -> V]
      BY <3>3, MatchStepFacts
    <3> QED
      BY <2>2, <2>3, <3>1, <3>2, <3>4
  <2>5. k \in 0 .. n
    OBVIOUS
  <2> QED
    BY <2>4, <2>5
<1>6. n \in good
  <2> HIDE DEF good
  <2>1. n \in 0 .. n
    OBVIOUS
  <2> QED
    BY <1>4, <1>5, <2>1, UpTo
<1>7. upto(n) = ToSet(VarsOf(atoms))
  BY <1>1, VarsOfFacts
<1> HIDE DEF upto
<1> QED
  BY <1>3, <1>6, <1>7

-----------------------------------------------------------------------------
(* Tables                                                                  *)

\* The blocks of t have rows of values V.
TablesOK(t, V) ==
  /\ DOMAIN t = AllPredicates
  /\ \A q \in AllPredicates : t[q] \in Seq(Seq([1 .. Width(q) -> V]))

LEMMA FactsInFacts ==
  ASSUME NEW V, NEW t, TablesOK(t, V)
  PROVE  FactsIn(t) \in SUBSET Facts(V)
<1> SUFFICES ASSUME NEW f \in FactsIn(t)
             PROVE  f \in Facts(V)
  OBVIOUS
<1>1. DOMAIN t = AllPredicates /\ \A q \in AllPredicates : t[q] \in Seq(Seq([1 .. Width(q) -> V]))
  BY DEF TablesOK
<1>2. PICK q \in AllPredicates : f \in UNION { { <<q, row>> : row \in ToSet(t[q][n]) } : n \in DOMAIN t[q] }
  BY <1>1, Zenon DEF FactsIn
<1>3. PICK n \in DOMAIN t[q] : f \in { <<q, row>> : row \in ToSet(t[q][n]) }
  BY <1>2, Zenon
<1>4. PICK row \in ToSet(t[q][n]) : f = <<q, row>>
  BY <1>3
<1>5. PICK block \in Seq([1 .. Width(q) -> V]) : block = t[q][n]
  BY <1>1
<1>6. row \in [1 .. Width(q) -> V]
  <2>1. \A k \in DOMAIN block : block[k] \in [1 .. Width(q) -> V]
    OBVIOUS
  <2> QED
    BY <1>4, <1>5, <2>1 DEF ToSet
<1> QED
  BY <1>4, <1>6, FactFacts

LEMMA BlockMatchesFacts ==
  ASSUME NEW V, NEW atom \in AnyAtom, NEW block \in Seq([1 .. Width(atom.p) -> V])
  PROVE  BlockMatches(atom, block) \in Seq([ToSet(atom.t) -> V])
<1> DEFINE fits(row) == \A k, l \in DOMAIN atom.t : atom.t[k] = atom.t[l] => row[k] = row[l]
           chosen == Selected(block, { row \in ToSet(block) : fits(row) })
<1>1. chosen \in Seq([1 .. Width(atom.p) -> V])
  BY SelectedFacts
<1>2. BlockMatches(atom, block) = [i \in DOMAIN chosen |-> RowMatch(atom, chosen[i])]
  BY DEF BlockMatches
<1> HIDE DEF chosen
<1>3. PICK s \in Seq([1 .. Width(atom.p) -> V]) : s = chosen
  BY <1>1
<1>4. DOMAIN atom.t = 1 .. Width(atom.p)
  BY AtomFacts
<1> DEFINE match(i) == RowMatch(atom, s[i])
<1>5. \A i \in DOMAIN s : match(i) \in [ToSet(atom.t) -> V]
  <2>1. \A i \in DOMAIN s : s[i] \in [DOMAIN atom.t -> V]
    BY <1>4
  <2> QED
    BY <2>1, RowMatchFacts
<1>6. PICK k \in Nat : DOMAIN s = 1 .. k
  OBVIOUS
<1>7. BlockMatches(atom, block) = [i \in 1 .. k |-> match(i)]
  BY <1>2, <1>3, <1>6
<1> HIDE DEF match
<1>8. [i \in 1 .. k |-> match(i)] \in Seq([ToSet(atom.t) -> V])
  <2>1. PICK T : T = [ToSet(atom.t) -> V]
    OBVIOUS
  <2>2. \A i \in 1 .. k : match(i) \in T
    BY <1>5, <1>6, <2>1
  <2>3. [i \in 1 .. k |-> match(i)] \in [1 .. k -> T]
    BY <2>2
  <2>4. [i \in 1 .. k |-> match(i)] \in Seq(T)
    BY <2>3, TupleIn
  <2> QED
    BY <2>1, <2>4
<1> QED
  BY <1>7, <1>8

LEMMA JoinMatchesFacts ==
  ASSUME NEW V, V \subseteq Nat, IsFiniteSet(V), TablesOK(tables, V), NEW i, rules[i] \in AnyRule
  PROVE  JoinMatches(rules[i]) \in Seq(BodyMatch(i, V))
<1> DEFINE r == rules[i]
           vs == BodyVars(r)
           found == { [k \in DOMAIN vs |-> b[vs[k]]] : b \in Matches(r.body, FactsIn(tables)) }
           sorted == SortedBlock(found)
           atom == [t |-> vs]
<1>1. JoinMatches(rules[i]) = [n \in DOMAIN sorted |-> RowMatch(atom, sorted[n])]
  BY DEF JoinMatches
<1>2. r.body \in Seq(AnyAtom) /\ vs \in Seq(Vars)
  BY RuleVars
<1>3. Matches(r.body, FactsIn(tables)) \in SUBSET [ToSet(vs) -> V]
  <2>1. FactsIn(tables) \in SUBSET Facts(V)
    BY FactsInFacts
  <2>2. PICK facts \in SUBSET Facts(V) : facts = FactsIn(tables)
    BY <2>1
  <2> HIDE DEF r
  <2> QED
    BY <1>2, <2>2, MatchesFacts DEF BodyVars
<1>4. PICK L \in Nat : DOMAIN vs = 1 .. L /\ \A k \in 1 .. L : vs[k] \in ToSet(vs)
  <2> HIDE DEF vs
  <2> QED
    BY <1>2 DEF ToSet
<1> HIDE DEF vs
<1>5. found \in SUBSET [1 .. L -> V]
  <2> SUFFICES ASSUME NEW b \in [ToSet(vs) -> V]
               PROVE  [k \in 1 .. L |-> b[vs[k]]] \in [1 .. L -> V]
    BY <1>3, <1>4
  <2> QED
    BY <1>4
<1> HIDE DEF found
<1>6. sorted \in Seq([1 .. L -> V])
  <2>1. IsFiniteSet([1 .. L -> V])
    BY RowsFinite
  <2>2. IsFiniteSet(found)
    BY <1>5, <2>1, FS_Subset
  <2>3. found \in SUBSET [1 .. L -> Nat]
    BY <1>5
  <2>4. sorted \in Seq(found)
    BY <2>2, <2>3, SortedFacts
  <2> HIDE DEF sorted
  <2>5. \A n \in DOMAIN sorted : sorted[n] \in [1 .. L -> V]
    BY <1>5, <2>4
  <2> QED
    BY <2>4, <2>5, SeqIn
<1> HIDE DEF sorted
<1>7. PICK s \in Seq([1 .. L -> V]) : s = sorted
  BY <1>6
<1>8. atom.t = vs
  OBVIOUS
<1> HIDE DEF atom
<1> DEFINE match(n) == RowMatch(atom, s[n])
<1>9. \A n \in DOMAIN s : match(n) \in [ToSet(vs) -> V]
  <2>1. \A n \in DOMAIN s : s[n] \in [DOMAIN atom.t -> V]
    BY <1>4, <1>8
  <2>2. \A n \in DOMAIN s : match(n) \in [ToSet(atom.t) -> V]
    BY <2>1, RowMatchFacts
  <2> QED
    BY <1>8, <2>2
<1>a. PICK m \in Nat : DOMAIN s = 1 .. m
  OBVIOUS
<1>10. JoinMatches(rules[i]) = [n \in 1 .. m |-> match(n)]
  BY <1>1, <1>7, <1>a
<1> HIDE DEF match, r
<1>11. [n \in 1 .. m |-> match(n)] \in Seq([ToSet(vs) -> V])
  <2>1. PICK T : T = [ToSet(vs) -> V]
    OBVIOUS
  <2>2. \A n \in 1 .. m : match(n) \in T
    BY <1>9, <1>a, <2>1
  <2>3. [n \in 1 .. m |-> match(n)] \in [1 .. m -> T]
    BY <2>2
  <2>4. [n \in 1 .. m |-> match(n)] \in Seq(T)
    BY <2>3, TupleIn
  <2> QED
    BY <2>1, <2>4
<1> QED
  BY <1>10, <1>11 DEF BodyMatch, vs, r

LEMMA BatchesFacts ==
  ASSUME NEW V, V \subseteq Nat, IsFiniteSet(V), TablesOK(tables, V),
         NEW i, rules[i] \in AnyRule, \A q \in AllPredicates : seen[i][q] \in 0 .. Len(tables[q])
  PROVE  Batches(i) \in Seq(Seq(BodyMatch(i, V)))
<1>1. CASE Len(rules[i].body) = 1
  <2>1. rules[i].body \in Seq(AnyAtom)
    BY RuleVars
  <2>2. PICK atom \in AnyAtom : atom = rules[i].body[1]
    BY <1>1, <2>1
  <2>3. BodyMatch(i, V) = [ToSet(atom.t) -> V]
    <3>1. PICK atoms \in Seq(AnyAtom) : atoms = rules[i].body
      BY <2>1
    <3>2. ToSet(VarsOf(atoms)) = UNION { ToSet(atoms[k].t) : k \in DOMAIN atoms } /\ DOMAIN atoms = {1}
      BY <1>1, <3>1, VarsOfFacts
    <3>3. UNION { ToSet(atoms[k].t) : k \in DOMAIN atoms } = ToSet(atoms[1].t)
      BY <3>2
    <3> QED
      BY <2>2, <3>1, <3>2, <3>3 DEF BodyMatch, BodyVars
  <2>4. PICK q \in AllPredicates : q = atom.p
    BY AtomFacts
  <2>5. tables[q] \in Seq(Seq([1 .. Width(q) -> V])) /\ seen[i][q] \in 0 .. Len(tables[q])
    BY DEF TablesOK
  <2>6. PICK t \in Seq(Seq([1 .. Width(q) -> V])) : t = tables[q]
    BY <2>5
  <2>7. PICK m \in 0 .. Len(t) : m = seen[i][q]
    BY <2>5, <2>6
  <2> DEFINE of(n) == BlockMatches(atom, t[m + n])
  <2>8. Batches(i) = [n \in 1 .. Len(t) - m |-> of(n)]
    BY <1>1, <2>2, <2>4, <2>6, <2>7 DEF Batches
  <2>9. \A n \in 1 .. Len(t) - m : of(n) \in Seq(BodyMatch(i, V))
    <3> TAKE n \in 1 .. Len(t) - m
    <3>1. m + n \in DOMAIN t
      OBVIOUS
    <3>2. t[m + n] \in Seq([1 .. Width(atom.p) -> V])
      BY <2>4, <3>1
    <3> QED
      BY <2>3, <3>2, BlockMatchesFacts
  <2> HIDE DEF of
  <2>10. Len(t) - m \in Nat
    OBVIOUS
  <2> QED
    BY <2>8, <2>9, <2>10
<1>2. CASE Len(rules[i].body) # 1
  <2>1. Batches(i) = << JoinMatches(rules[i]) >>
    BY <1>2 DEF Batches
  <2>2. JoinMatches(rules[i]) \in Seq(BodyMatch(i, V))
    BY JoinMatchesFacts
  <2> QED
    BY <2>1, <2>2
<1> QED
  BY <1>1, <1>2

\* What is consolidated: blocks are only added.
LEMMA ConsolidatedFacts ==
  ASSUME NEW V, NEW W, V \subseteq W, W \subseteq Nat, IsFiniteSet(W),
         TablesOK(tables, V), NEW facts \in SUBSET Facts(W)
  PROVE  /\ TablesOK(Consolidated(facts), W)
         /\ \A q \in AllPredicates : /\ Len(tables[q]) \in Nat /\ Len(Consolidated(facts)[q]) \in Nat
                                     /\ Len(tables[q]) <= Len(Consolidated(facts)[q])
<1>1. ASSUME NEW q \in AllPredicates
      PROVE  /\ Consolidated(facts)[q] \in Seq(Seq([1 .. Width(q) -> W]))
             /\ Len(tables[q]) \in Nat /\ Len(Consolidated(facts)[q]) \in Nat
             /\ Len(tables[q]) <= Len(Consolidated(facts)[q])
  <2> DEFINE R == [1 .. Width(q) -> W]
             new == NewRows(q, facts)
             block == SortedBlock(new)
  <2>1. Consolidated(facts)[q] = IF new = {} THEN tables[q] ELSE Append(tables[q], block)
    BY DEF Consolidated
  <2>2. Width(q) \in Nat
    BY WidthFacts
  <2>3. tables[q] \in Seq(Seq(R))
    <3>1. PICK t \in Seq(Seq([1 .. Width(q) -> V])) : t = tables[q]
      BY DEF TablesOK
    <3>2. ASSUME NEW n \in DOMAIN t
          PROVE  t[n] \in Seq(R)
      <4>1. PICK b \in Seq([1 .. Width(q) -> V]) : b = t[n]
        OBVIOUS
      <4>2. \A k \in DOMAIN b : b[k] \in R
        <5> TAKE k \in DOMAIN b
        <5>1. b[k] \in [1 .. Width(q) -> V]
          OBVIOUS
        <5> QED
          BY <5>1
      <4> HIDE DEF R
      <4> QED
        BY <4>1, <4>2, SeqIn
    <3> HIDE DEF R
    <3> QED
      BY <3>1, <3>2, SeqIn
  <2>4. new \in SUBSET R
    <3> SUFFICES ASSUME NEW f \in facts, f[1] = q
                 PROVE  f[2] \in R
      BY DEF NewRows
    <3> QED
      BY FactFacts
  <2>5. block \in Seq(R)
    <3>1. IsFiniteSet(R)
      BY <2>2, RowsFinite
    <3>2. new \in SUBSET [1 .. Width(q) -> Nat]
      BY <2>4
    <3> HIDE DEF R, new
    <3>3. IsFiniteSet(new)
      BY <2>4, <3>1, FS_Subset
    <3>4. block \in Seq(new)
      BY <2>2, <3>2, <3>3, SortedFacts
    <3> HIDE DEF block
    <3>5. \A n \in DOMAIN block : block[n] \in R
      BY <2>4, <3>4
    <3> QED
      BY <3>4, <3>5, SeqIn
  <2> HIDE DEF R, new, block
  <2>6. Consolidated(facts)[q] \in Seq(Seq(R)) /\ Len(tables[q]) \in Nat /\ Len(Consolidated(facts)[q]) \in Nat
        /\ Len(tables[q]) <= Len(Consolidated(facts)[q])
    BY <2>1, <2>3, <2>5
  <2> QED
    BY <2>6 DEF R
<1>2. DOMAIN Consolidated(facts) = AllPredicates
  BY DEF Consolidated
<1> QED
  BY <1>1, <1>2 DEF TablesOK

-----------------------------------------------------------------------------
(* Programs and the instances they start on                                *)

LEMMA AtomIsAny == Atom \subseteq AnyAtom
<1> SUFFICES ASSUME NEW a \in Atom
             PROVE  a \in AnyAtom
  OBVIOUS
<1>1. a \in [p : Predicates, t : Seq(Vars)] /\ Len(a.t) = Arity[a.p]
  BY DEF Atom, Vars
<1>2. a \in [p : AllPredicates, t : Seq(Vars)] /\ a.p \in Predicates
  BY <1>1 DEF AllPredicates
<1> QED
  BY <1>1, <1>2 DEF AnyAtom, Width

LEMMA ProgramFacts ==
  ASSUME NEW p \in Programs
  PROVE  p \in Seq(AnyRule)
<1> DEFINE R == [body : Seq(Atom), heads : Seq(Atom)]
<1>1. PICK s \in Seq(R) : s = p
  BY ProgramAssumption
<1>2. \A atoms \in Seq(Atom) : atoms \in Seq(AnyAtom)
  <2> TAKE atoms \in Seq(Atom)
  <2>1. \A k \in DOMAIN atoms : atoms[k] \in AnyAtom
    BY AtomIsAny
  <2> QED
    BY <2>1, SeqIn
<1>3. \A i \in DOMAIN s : s[i] \in AnyRule
  <2> TAKE i \in DOMAIN s
  <2>1. s[i] \in R
    <3> HIDE DEF R
    <3> QED
      OBVIOUS
  <2>2. s[i].body \in Seq(AnyAtom) /\ s[i].heads \in Seq(AnyAtom)
    BY <1>2, <2>1
  <2> QED
    BY <2>1, <2>2 DEF AnyRule
<1> QED
  BY <1>1, <1>3, SeqIn

LEMMA MadeFacts ==
  ASSUME NEW x \in Vars, NEW y \in Vars
  PROVE  Made(x, y) \in AnyAtom /\ MadeOver(x, y) \in AnyAtom
<1>1. /\ "__S__" \in AllPredicates /\ "__S_TRANS__" \in AllPredicates
      /\ Width("__S__") = 2 /\ Width("__S_TRANS__") = 2
  BY ProgramAssumption DEF AllPredicates, Width
<1>2. <<x, y>> \in Seq(Vars) /\ Len(<<x, y>>) = 2
  OBVIOUS
<1> QED
  BY <1>1, <1>2 DEF AnyAtom, Made, MadeOver

LEMMA NoteFacts ==
  ASSUME NEW r \in AnyRule
  PROVE  NoteDependencies(r) \in AnyRule
<1> DEFINE vs == ExistentialVars(r)
           xs == Frontier(r)
           made(k) == [l \in DOMAIN xs |-> Made(xs[l], vs[k])]
           notes == [k \in DOMAIN vs |-> made(k)]
<1>1. /\ r.body \in Seq(AnyAtom) /\ r.heads \in Seq(AnyAtom) /\ vs \in Seq(Vars)
      /\ xs \in Seq(ToSet(BodyVars(r))) /\ ToSet(BodyVars(r)) \subseteq Vars
  BY RuleVars
<1>2. NoteDependencies(r) = [r EXCEPT !.heads = FlattenSeq(notes) \o r.heads]
  BY DEF NoteDependencies
<1> HIDE DEF vs, xs
<1>3. \A k \in DOMAIN vs : made(k) \in Seq(AnyAtom)
  <2> TAKE k \in DOMAIN vs
  <2>1. vs[k] \in Vars
    BY <1>1
  <2>2. \A l \in DOMAIN xs : xs[l] \in Vars
    BY <1>1
  <2>3. \A l \in DOMAIN xs : Made(xs[l], vs[k]) \in AnyAtom
    BY <2>1, <2>2, MadeFacts
  <2> QED
    BY <1>1, <2>3
<1> HIDE DEF made
<1>4. notes \in Seq(Seq(AnyAtom))
  <2>1. PICK m \in Nat : DOMAIN vs = 1 .. m
    BY <1>1
  <2>2. [k \in 1 .. m |-> made(k)] \in Seq(Seq(AnyAtom))
    BY <1>3, <2>1
  <2> QED
    BY <2>1, <2>2
<1> HIDE DEF notes
<1>5. FlattenSeq(notes) \in Seq(AnyAtom)
  BY <1>4, FlattenFacts
<1>6. FlattenSeq(notes) \o r.heads \in Seq(AnyAtom)
  BY <1>1, <1>5
<1>7. r \in [body : Seq(AnyAtom), heads : Seq(AnyAtom)]
  BY DEF AnyRule
<1>8. [r EXCEPT !.heads = FlattenSeq(notes) \o r.heads] \in [body : Seq(AnyAtom), heads : Seq(AnyAtom)]
  BY <1>6, <1>7
<1> QED
  BY <1>2, <1>8 DEF AnyRule

LEMMA DependenciesFacts ==
  ASSUME NEW p \in Seq(AnyRule)
  PROVE  WithDependencies(p) \in Seq(AnyRule)
<1> DEFINE noted == [i \in DOMAIN p |-> NoteDependencies(p[i])]
           first == [body |-> << Made(1, 2) >>, heads |-> << MadeOver(1, 2) >>]
           second == [body |-> << MadeOver(1, 2), Made(2, 3) >>, heads |-> << MadeOver(1, 3) >>]
<1>1. noted \in Seq(AnyRule)
  <2>1. \A i \in DOMAIN p : NoteDependencies(p[i]) \in AnyRule
    BY NoteFacts
  <2> QED
    BY <2>1
<1>2. 1 \in Vars /\ 2 \in Vars /\ 3 \in Vars
  BY WidthAssumption DEF Vars
<1>3. /\ Made(1, 2) \in AnyAtom /\ Made(2, 3) \in AnyAtom
      /\ MadeOver(1, 2) \in AnyAtom /\ MadeOver(1, 3) \in AnyAtom
  BY <1>2, MadeFacts
<1>4. first \in AnyRule /\ second \in AnyRule
  BY <1>3 DEF AnyRule
<1>5. WithDependencies(p) = noted \o << first, second >>
  BY DEF WithDependencies
<1> HIDE DEF noted, first, second
<1>6. << first, second >> \in Seq(AnyRule)
  BY <1>4
<1> QED
  BY <1>1, <1>5, <1>6

\* What a chase starts on.
InstanceOK(inst) ==
  DOMAIN inst = Predicates /\ \A q \in Predicates : inst[q] \in Seq([1 .. Width(q) -> 0 .. CounterWidth - 1])

LEMMA InstancesFacts ==
  ASSUME NEW p, NEW ph, NEW inst \in Instances(p, ph)
  PROVE  InstanceOK(inst)
<1>1. CASE ph \in {"msa", "mfa", "rmsa", "rmfa"}
  <2>1. inst = CriticalInstance
    BY <1>1 DEF Instances
  <2>2. \A q \in Predicates : StarRow(q) \in [1 .. Width(q) -> 0 .. CounterWidth - 1]
    BY WidthAssumption DEF StarRow, Star, Width
  <2> QED
    BY <2>1, <2>2 DEF CriticalInstance, InstanceOK
<1>2. CASE ph = "chase"
  <2>1. inst \in Databases
    BY <1>2 DEF Instances
  <2> QED
    BY <2>1, ProgramAssumption DEF InstanceOK, Width
<1>3. CASE ph \notin {"msa", "mfa", "rmsa", "rmfa", "chase"}
  <2>1. inst = [q \in Predicates |-> << >>]
    BY <1>3 DEF Instances
  <2> QED
    BY <2>1 DEF InstanceOK
<1> QED
  BY <1>1, <1>2, <1>3

LEMMA FrozenFacts ==
  ASSUME NEW r \in AnyRule
  PROVE  InstanceOK(FrozenBody(r))
<1> DEFINE V == 0 .. CounterWidth - 1
<1>1. ASSUME NEW q \in Predicates
      PROVE  FrozenBody(r)[q] \in Seq([1 .. Width(q) -> V])
  <2> DEFINE set == { a.t : a \in { a \in ToSet(r.body) : a.p = q } }
             R == [1 .. Width(q) -> V]
  <2>0. q \in AllPredicates
    BY DEF AllPredicates
  <2>1. FrozenBody(r)[q] = SortedBlock(set)
    BY DEF FrozenBody
  <2>2. Width(q) \in Nat /\ Vars \subseteq V /\ V \subseteq Nat /\ IsFiniteSet(V)
    <3>1. CounterWidth - 1 \in Int
      BY WidthAssumption
    <3>2. IsFiniteSet(V)
      BY <3>1, FS_Interval
    <3> QED
      BY <2>0, <3>2, WidthFacts, WidthAssumption DEF Vars
  <2> HIDE DEF V
  <2>3. set \in SUBSET R
    <3> SUFFICES ASSUME NEW a \in ToSet(r.body), a.p = q
                 PROVE  a.t \in R
      OBVIOUS
    <3>1. r.body \in Seq(AnyAtom)
      BY RuleVars
    <3>2. a \in AnyAtom
      BY <3>1 DEF ToSet
    <3>3. a.t \in Seq(Vars) /\ Len(a.t) = Width(q) /\ DOMAIN a.t = 1 .. Width(q)
      BY <3>2, AtomFacts
    <3>4. PICK s \in Seq(Vars) : s = a.t
      BY <3>3
    <3>5. PICK w \in Nat : w = Width(q)
      BY <2>2
    <3>a. Len(s) = w
      BY <3>3, <3>4, <3>5
    <3>b. \A k \in 1 .. w : s[k] \in Vars
      BY <3>a
    <3>c. DOMAIN s = 1 .. w
      BY <3>a
    <3>6. DOMAIN s = 1 .. w /\ \A k \in 1 .. w : s[k] \in V
      BY <2>2, <3>b, <3>c
    <3>7. s \in [1 .. w -> V]
      BY <3>6
    <3> QED
      BY <3>4, <3>5, <3>7
  <2>4. IsFiniteSet(R)
    BY <2>2, RowsFinite
  <2>5. set \in SUBSET [1 .. Width(q) -> Nat]
    BY <2>2, <2>3
  <2> HIDE DEF set, R
  <2>6. IsFiniteSet(set)
    BY <2>3, <2>4, FS_Subset
  <2>7. SortedBlock(set) \in Seq(set)
    BY <2>2, <2>5, <2>6, SortedFacts
  <2>8. PICK s \in Seq(set) : s = SortedBlock(set)
    BY <2>7
  <2>9. \A n \in DOMAIN s : s[n] \in R
    BY <2>3
  <2>10. s \in Seq(R)
    BY <2>9, SeqIn
  <2> QED
    BY <2>1, <2>8, <2>10 DEF R
<1>2. DOMAIN FrozenBody(r) = Predicates
  BY DEF FrozenBody
<1> QED
  BY <1>1, <1>2 DEF InstanceOK

\* The values of a chase are finitely many numbers.
LEMMA ValuesFacts ==
  ASSUME NEW M \in Nat, NEW F \in SUBSET (1 .. M), NEW rs, NEW sum \in BOOLEAN,
         RowsOK(rs, sum, F), Room(rs, sum)
  PROVE  Values(rs, sum) \subseteq Nat /\ IsFiniteSet(Values(rs, sum))
<1>1. Typed(rs, sum, F)
  BY DEF RowsOK, Typed
<1>2. Terms(rs, sum) \in SUBSET (0 .. Bound(M))
  BY <1>1, TermsFacts
<1>3. CounterWidth \in Nat /\ Bound(M) \in Nat
  <2>1. CounterWidth \in Nat
    BY WidthAssumption
  <2> QED
    BY <2>1 DEF Bound
<1>4. /\ IsFiniteSet(0 .. CounterWidth - 1) /\ IsFiniteSet(0 .. Bound(M))
      /\ 0 .. CounterWidth - 1 \subseteq Nat /\ 0 .. Bound(M) \subseteq Nat
  <2>1. CounterWidth - 1 \in Int /\ Bound(M) \in Int
    BY <1>3
  <2>2. IsFiniteSet(0 .. CounterWidth - 1) /\ IsFiniteSet(0 .. Bound(M))
    BY <2>1, FS_Interval
  <2> QED
    BY <1>3, <2>2
<1>5. IsFiniteSet(Terms(rs, sum))
  BY <1>2, <1>4, FS_Subset
<1>6. IsFiniteSet(Values(rs, sum))
  BY <1>4, <1>5, FS_Union DEF Values
<1> QED
  BY <1>2, <1>4, <1>6 DEF Values

-----------------------------------------------------------------------------
(* The invariant                                                           *)

SeenOK(sn, t, n) ==
  /\ sn \in [1 .. n -> [AllPredicates -> Nat]]
  /\ \A i \in 1 .. n : \A q \in AllPredicates : sn[i][q] <= Len(t[q])

\* The data of a chase with the function symbols F on n rules.
DataOK(rs, sum, F, t, sn, n, cyc) ==
  /\ RowsOK(rs, sum, F) /\ Room(rs, sum)
  /\ TablesOK(t, Values(rs, sum))
  /\ SeenOK(sn, t, n)
  /\ cyc \in BOOLEAN

FlagOK(chk, rs, sum, tgt, F, cyc) == chk => Flag(rs, sum, tgt, F, cyc)

\* No function symbol has rows before the first chase.
FunctionsInUse == IF phase \in {"ja", "rja"} THEN {} ELSE SymbolsOf(rules)

Phases == {"ja", "rja", "msa", "mfa", "rmsa", "rmfa", "mfc", "chase", "done"}

VerdictOK(vd) ==
  /\ DOMAIN vd \subseteq {"ja", "rja", "msa", "mfa", "rmsa", "rmfa", "mfc", "chased"}
  /\ \A c \in DOMAIN vd : vd[c] \in BOOLEAN

ControlOK ==
  /\ prog \in Programs /\ phase \in Phases /\ VerdictOK(verdict)
  /\ rules \in {prog, WithDependencies(prog)}
  /\ target \in 0 .. Len(prog) /\ (IsSum => target = 0)

ScheduleOK ==
  /\ part \in {"all", "datalog", "ext"}
  /\ current \in 1 .. Len(rules) + 1 /\ idle \in 0 .. Len(Ruleset)

IInv ==
  /\ ControlOK /\ ScheduleOK
  /\ DataOK(rows, IsSum, FunctionsInUse, tables, seen, Len(rules), cyclic)
  /\ FlagOK(IsChecking, rows, IsSum, target, FunctionsInUse, cyclic)

\* Without a row no term is inside another.
LEMMA NoRows ==
  ASSUME NEW rs, NEW F, DOMAIN rs = F, \A f \in F : rs[f] = << >>, NEW sum
  PROVE  /\ Terms(rs, sum) = {} /\ InsideOf(rs, sum) = {}
         /\ RowsOK(rs, sum, F) <=> rs \in [F -> Seq(Seq(Nat))]
         /\ rs \in [F -> Seq(Seq(Nat))] => Room(rs, sum)
<1>1. \A f \in F : DOMAIN rs[f] = {} /\ ToSet(rs[f]) = {}
  BY DEF ToSet
<1>2. Terms(rs, sum) = {}
  BY <1>1 DEF Terms
<1>3. InsideOf(rs, sum) = {}
  BY <1>1 DEF InsideOf
<1>4. RowsOK(rs, sum, F) <=> rs \in [F -> Seq(Seq(Nat))]
  BY <1>1 DEF RowsOK, Distinct
<1>5. Room(rs, sum)
  <2>1. CounterWidth \in Nat /\ CounterWidth > 0
    BY WidthAssumption
  <2>2. \A f \in F : Len(rs[f]) < CounterWidth
    BY <2>1
  <2> QED
    BY <2>2 DEF Room
<1> QED
  BY <1>2, <1>3, <1>4, <1>5

LEMMA NoEdges ==
  ASSUME NEW g
  PROVE  ~NestsIn({}, g) /\ Acyclic({})
<1>1. \A X \in SUBSET Nat : Reached({}, X) \subseteq X
  <2> TAKE X \in SUBSET Nat
  <2>1. Closed({}, X)
    BY DEF Closed
  <2> QED
    BY <2>1, ReachedLeast
<1>2. Roots({}, g) = {} /\ \A t : Children({}, t) = {}
  BY DEF Roots, Children
<1>3. Reached({}, {}) = {}
  BY <1>1
<1> QED
  BY <1>2, <1>3 DEF NestsIn, Acyclic, Below

\* StartOn sets the data of a chase up.
LEMMA StartFacts ==
  ASSUME NEW p \in Seq(AnyRule), NEW inst, InstanceOK(inst), NEW tgt, NEW which,
         StartOn(p, inst, tgt, which), NEW sum \in BOOLEAN, NEW chk
  PROVE  /\ DataOK(rows', sum, SymbolsOf(p), tables', seen', Len(p), cyclic')
         /\ FlagOK(chk, rows', sum, tgt, SymbolsOf(p), cyclic')
<1> DEFINE F == SymbolsOf(p)
           V == Values(rows', sum)
<1>1. rows' = [f \in F |-> << >>] /\ cyclic' = FALSE
  BY DEF StartOn, SymbolsOf
<1>2. seen' = [i \in DOMAIN p |-> [q \in AllPredicates |-> 0]]
  BY DEF StartOn
<1>3. tables' = [q \in AllPredicates |->
                  IF q \notin DOMAIN inst \/ inst[q] = << >> THEN << >> ELSE << inst[q] >>]
  BY DEF StartOn
<1> HIDE DEF F
<1>4. PICK rs \in [F -> Seq(Seq(Nat))] : rs = rows'
  <2>1. << >> \in Seq(Seq(Nat))
    OBVIOUS
  <2> DEFINE R == Seq(Seq(Nat))
  <2>2. << >> \in R
    BY <2>1
  <2> HIDE DEF R
  <2>3. [f \in F |-> << >>] \in [F -> R]
    BY <2>2
  <2> QED
    BY <1>1, <2>3 DEF R
<1>5. DOMAIN rs = F /\ \A f \in F : rs[f] = << >>
  BY <1>1, <1>4
<1>6. RowsOK(rs, sum, F) /\ Room(rs, sum) /\ InsideOf(rs, sum) = {}
  BY <1>5, NoRows
<1>7. TablesOK(tables', V)
  <2>1. 0 .. CounterWidth - 1 \subseteq V
    BY DEF Values
  <2> HIDE DEF V
  <2>2. ASSUME NEW q \in AllPredicates
        PROVE  tables'[q] \in Seq(Seq([1 .. Width(q) -> V]))
    <3> DEFINE R == [1 .. Width(q) -> V]
    <3>1. CASE q \notin DOMAIN inst \/ inst[q] = << >>
      BY <1>3, <3>1
    <3>2. CASE ~(q \notin DOMAIN inst \/ inst[q] = << >>)
      <4>1. q \in Predicates /\ tables'[q] = << inst[q] >>
        BY <1>3, <3>2 DEF InstanceOK
      <4>2. inst[q] \in Seq([1 .. Width(q) -> 0 .. CounterWidth - 1])
        BY <4>1 DEF InstanceOK
      <4>3. [1 .. Width(q) -> 0 .. CounterWidth - 1] \subseteq R
        BY <2>1
      <4> DEFINE S == [1 .. Width(q) -> 0 .. CounterWidth - 1]
      <4>4. inst[q] \in Seq(S) /\ S \subseteq R
        BY <4>2, <4>3
      <4> HIDE DEF R, S
      <4>5. inst[q] \in Seq(R)
        BY <4>4
      <4>6. tables'[q] \in Seq(Seq(R))
        BY <4>1, <4>5
      <4> QED
        BY <4>6 DEF R
    <3> QED
      BY <3>1, <3>2
  <2> QED
    BY <1>3, <2>2 DEF TablesOK
<1>8. SeenOK(seen', tables', Len(p))
  <2>1. DOMAIN p = 1 .. Len(p)
    OBVIOUS
  <2>2. \A q \in AllPredicates : Len(tables'[q]) \in Nat
    <3> HIDE DEF V
    <3> TAKE q \in AllPredicates
    <3> DEFINE T == Seq([1 .. Width(q) -> V])
    <3>1. tables'[q] \in Seq(T)
      BY <1>7 DEF TablesOK
    <3> HIDE DEF T
    <3> QED
      BY <3>1
  <2>3. seen' = [i \in 1 .. Len(p) |-> [q \in AllPredicates |-> 0]]
    BY <1>2, <2>1
  <2> QED
    BY <2>2, <2>3 DEF SeenOK
<1>9. Flag(rs, sum, tgt, F, FALSE)
  BY <1>6, NoEdges DEF Flag
<1>10. DataOK(rows', sum, F, tables', seen', Len(p), cyclic')
  BY <1>1, <1>4, <1>6, <1>7, <1>8 DEF DataOK, V
<1>11. FlagOK(chk, rows', sum, tgt, F, cyclic')
  BY <1>1, <1>4, <1>9 DEF FlagOK
<1> QED
  BY <1>10, <1>11 DEF F

-----------------------------------------------------------------------------
(* Executing a rule keeps the invariant                                    *)

\* The program at hand has rules of the form the lemmas ask for.
LEMMA RulesFacts ==
  ASSUME ControlOK
  PROVE  /\ prog \in Seq(AnyRule) /\ WithDependencies(prog) \in Seq(AnyRule)
         /\ rules \in Seq(AnyRule) /\ DOMAIN rules = 1 .. Len(rules) /\ Len(rules) \in Nat
         /\ Len(prog) \in Nat /\ DOMAIN prog = 1 .. Len(prog)
<1>1. prog \in Seq(AnyRule)
  BY ProgramFacts DEF ControlOK
<1>2. WithDependencies(prog) \in Seq(AnyRule)
  BY <1>1, DependenciesFacts
<1>3. rules \in Seq(AnyRule)
  BY <1>1, <1>2 DEF ControlOK
<1> QED
  BY <1>1, <1>2, <1>3

LEMMA RulesetFacts ==
  ASSUME ControlOK
  PROVE  /\ Ruleset \in Seq(Rules) /\ Len(Ruleset) \in Nat /\ Len(Ruleset) <= Len(rules)
         /\ DOMAIN Ruleset = 1 .. Len(Ruleset)
<1> DEFINE all == [i \in Rules |-> i]
           S == { i \in Rules : part = "all" \/ (IsExistential(rules[i]) <=> part = "ext") }
<1>1. Rules = 1 .. Len(rules) /\ Len(rules) \in Nat
  BY RulesFacts DEF Rules
<1>2. all \in Seq(Rules) /\ Len(all) = Len(rules)
  <2>1. all \in [1 .. Len(rules) -> Rules]
    BY <1>1
  <2>2. all \in Seq(Rules)
    BY <1>1, <2>1, TupleIn
  <2> QED
    BY <1>1, <2>2
<1>3. Ruleset = Selected(all, S)
  BY DEF Ruleset
<1> HIDE DEF all, S
<1>4. Ruleset \in Seq(Rules) /\ Len(Ruleset) <= Len(all)
  BY <1>2, <1>3, SelectedFacts
<1> QED
  BY <1>2, <1>4

LEMMA SettingExists ==
  ASSUME ControlOK
  PROVE  \E M : Setting(M, SymbolsOf(rules))
<1>1. rules \in Seq(AnyRule)
  BY RulesFacts
<1>2. PICK M \in Nat : SymbolsOf(rules) \in SUBSET (1 .. M)
  BY <1>1, SymbolsFacts
<1> QED
  BY <1>1, <1>2 DEF Setting, ControlOK

\* Advance keeps the place in the schedule.
LEMMA AdvanceFacts ==
  ASSUME ControlOK, ScheduleOK, rules' = rules, NEW derived, Advance(derived),
         current <= Len(Ruleset), part # "ext" => ~Saturated
  PROVE  ScheduleOK'
<1>1. Len(Ruleset) \in Nat /\ Len(Ruleset) <= Len(rules) /\ Len(rules) \in Nat
  BY RulesetFacts, RulesFacts
<1>2. current \in Nat /\ current >= 1 /\ idle \in Nat /\ idle <= Len(Ruleset)
  BY <1>1 DEF ScheduleOK
<1>3. CASE part = "ext" /\ derived
  <2>1. part' = "datalog" /\ current' = 1 /\ idle' = 0
    BY <1>3 DEF Advance
  <2>2. Len(Ruleset') \in Nat
    <3>1. Rules' = Rules /\ Rules = 1 .. Len(rules)
      BY RulesFacts DEF Rules
    <3> DEFINE all == [i \in Rules |-> i]
               S == { i \in Rules : part' = "all" \/ (IsExistential(rules[i]) <=> part' = "ext") }
    <3>2. Ruleset' = Selected(all, S)
      BY <3>1 DEF Ruleset
    <3>3. all \in Seq(Rules)
      <4>1. all \in [1 .. Len(rules) -> Rules]
        BY <3>1
      <4> QED
        BY <1>1, <4>1, TupleIn
    <3> HIDE DEF all, S
    <3>4. Selected(all, S) \in Seq(Rules)
      BY <3>3, SelectedFacts
    <3> QED
      BY <3>2, <3>4
  <2> QED
    BY <1>1, <2>1, <2>2 DEF ScheduleOK
<1>4. ASSUME part' = part
      PROVE  Ruleset' = Ruleset
  BY <1>4 DEF Ruleset, Rules
<1>5. CASE part = "ext" /\ ~derived
  <2>1. part' = part /\ idle' = idle /\ current' = current + 1
    BY <1>5 DEF Advance
  <2> QED
    BY <1>1, <1>2, <1>4, <2>1 DEF ScheduleOK
<1>6. CASE part # "ext"
  <2>1. part' = part /\ current' = (current % Len(Ruleset)) + 1 /\ idle' \in {0, idle + 1}
    BY <1>6 DEF Advance
  <2>2. idle + 1 <= Len(Ruleset)
    BY <1>1, <1>2, <1>6 DEF Saturated
  <2>3. current % Len(Ruleset) \in 0 .. Len(Ruleset) - 1
    <3>1. PICK n \in Nat : n = Len(Ruleset)
      BY <1>1
    <3>2. n > 0
      BY <1>2, <3>1
    <3>3. current % n \in 0 .. n - 1
      BY <1>2, <3>2
    <3> QED
      BY <3>1, <3>3
  <2> QED
    BY <1>1, <1>2, <1>4, <2>1, <2>2, <2>3 DEF ScheduleOK
<1> QED
  BY <1>3, <1>5, <1>6

\* A rule reads what is in its body tables.
Longer(t, t2) ==
  \A q \in AllPredicates : Len(t[q]) \in Nat /\ Len(t2[q]) \in Nat /\ Len(t[q]) <= Len(t2[q])

NowSeen(sn, t, i, S) ==
  [sn EXCEPT ![i] = [q \in AllPredicates |-> IF q \in S THEN Len(t[q]) ELSE @[q]]]

LEMMA SeenFacts ==
  ASSUME NEW t, NEW t2, NEW n \in Nat, SeenOK(seen, t, n), NEW i \in 1 .. n, NEW S,
         Longer(t, t2), NEW sn, sn = NowSeen(seen, t, i, S)
  PROVE  SeenOK(sn, t2, n)
<1>1. /\ seen \in [1 .. n -> [AllPredicates -> Nat]]
      /\ \A q \in AllPredicates : Len(t[q]) \in Nat /\ Len(t2[q]) \in Nat /\ Len(t[q]) <= Len(t2[q])
      /\ sn = [seen EXCEPT ![i] = [q \in AllPredicates |-> IF q \in S THEN Len(t[q]) ELSE @[q]]]
  BY DEF SeenOK, Longer, NowSeen
<1>2. sn \in [1 .. n -> [AllPredicates -> Nat]]
  <2>1. [q \in AllPredicates |-> IF q \in S THEN Len(t[q]) ELSE seen[i][q]] \in [AllPredicates -> Nat]
    BY <1>1
  <2> QED
    BY <1>1, <2>1
<1>3. ASSUME NEW j \in 1 .. n, NEW q \in AllPredicates
      PROVE  sn[j][q] <= Len(t2[q])
  <2>1. seen[j][q] \in Nat /\ seen[j][q] <= Len(t[q])
    BY <1>1 DEF SeenOK
  <2>2. sn[j][q] = seen[j][q] \/ sn[j][q] = Len(t[q])
    BY <1>1
  <2>3. Len(t[q]) \in Nat /\ Len(t2[q]) \in Nat /\ Len(t[q]) <= Len(t2[q])
    BY <1>1
  <2> QED
    BY <2>1, <2>2, <2>3
<1> QED
  BY <1>2, <1>3 DEF SeenOK

\* What the execution of rule i leaves.
RuleDone(i) ==
  /\ Room(Execution(i).rows, IsSum)
  /\ rows' = Execution(i).rows /\ cyclic' = Execution(i).cyclic
  /\ tables' = Consolidated(Execution(i).facts)
  /\ seen' = [seen EXCEPT ![i] = [q \in AllPredicates |->
                IF q \in BodyPreds(rules[i]) THEN Len(tables[q]) ELSE @[q]]]

DataBefore(sum, F) ==
  DataOK(rows, sum, F, tables, seen, Len(rules), cyclic) /\ FlagOK(IsChecking, rows, sum, target, F, cyclic)

DataAfter(sum, F) ==
  /\ DataOK(rows', sum, F, tables', seen', Len(rules), cyclic')
  /\ FlagOK(IsChecking, rows', sum, target, F, cyclic')

LEMMA DoneFacts ==
  ASSUME ControlOK, NEW i \in Rules, DataBefore(IsSum, SymbolsOf(rules)), RuleDone(i)
  PROVE  DataAfter(IsSum, SymbolsOf(rules))
<1> DEFINE F == SymbolsOf(rules)
           V == Values(rows, IsSum)
           e == Execution(i)
           W == Values(e.rows, IsSum)
<1>0. IsSum \in BOOLEAN
  BY DEF IsSum
<1>1. /\ rows \in [F -> Seq(Seq(Nat))] /\ RowsOK(rows, IsSum, F) /\ Room(rows, IsSum)
      /\ TablesOK(tables, V) /\ SeenOK(seen, tables, Len(rules)) /\ cyclic \in BOOLEAN
      /\ IsChecking => Flag(rows, IsSum, target, F, cyclic)
  BY DEF DataBefore, DataOK, FlagOK, RowsOK
<1>2. PICK M : Setting(M, F)
  BY SettingExists
<1>3. M \in Nat /\ F \in SUBSET (1 .. M)
  BY <1>2 DEF Setting
<1>4. V \subseteq Nat /\ IsFiniteSet(V)
  BY <1>0, <1>1, <1>3, ValuesFacts
<1>5. rules[i] \in AnyRule /\ i \in 1 .. Len(rules) /\ Len(rules) \in Nat
  BY RulesFacts DEF Rules
<1>a. \A q \in AllPredicates : Len(tables[q]) \in Nat
  <2> TAKE q \in AllPredicates
  <2> DEFINE T == Seq([1 .. Width(q) -> V])
  <2>1. tables[q] \in Seq(T)
    BY <1>1 DEF TablesOK
  <2> HIDE DEF T
  <2> QED
    BY <2>1
<1> HIDE DEF V, e, F
<1>6. \A q \in AllPredicates : seen[i][q] \in 0 .. Len(tables[q])
  <2> TAKE q \in AllPredicates
  <2>1. seen[i][q] \in Nat /\ seen[i][q] <= Len(tables[q])
    BY <1>1, <1>5 DEF SeenOK
  <2> QED
    BY <1>a, <2>1
<1>7. Batches(i) \in Seq(Seq(BodyMatch(i, V)))
  BY <1>1, <1>4, <1>5, <1>6, BatchesFacts
<1>8. /\ e \in ExecState(F, i)
      /\ RowsOK(e.rows, IsSum, F)
      /\ IsChecking => Flag(e.rows, IsSum, target, F, e.cyclic)
      /\ V \subseteq W
      /\ e.facts \subseteq Facts(W)
  <2>1. Values(rows, IsSum) \subseteq Nat
    BY <1>4 DEF V
  <2>2. Batches(i) \in Seq(Seq(BodyMatch(i, Values(rows, IsSum))))
    BY <1>7 DEF V
  <2>3. Room(e.rows, IsSum)
    BY DEF RuleDone, e
  <2>4. e = Execution(i)
    BY DEF e
  <2> QED
    BY <1>1, <1>2, <2>1, <2>2, <2>3, <2>4, ExecutionFacts DEF V
<1>9. Room(e.rows, IsSum) /\ e.cyclic \in BOOLEAN
  BY <1>8 DEF RuleDone, e, ExecState
<1>10. W \subseteq Nat /\ IsFiniteSet(W)
  <2> PICK rs : rs = e.rows
    OBVIOUS
  <2>1. Values(rs, IsSum) \subseteq Nat /\ IsFiniteSet(Values(rs, IsSum))
    BY <1>0, <1>3, <1>8, <1>9, ValuesFacts
  <2> QED
    BY <2>1
<1> HIDE DEF W
<1>11. /\ TablesOK(tables', W)
       /\ \A q \in AllPredicates : /\ Len(tables[q]) \in Nat /\ Len(tables'[q]) \in Nat
                                   /\ Len(tables[q]) <= Len(tables'[q])
  <2> PICK facts : facts = e.facts
    OBVIOUS
  <2>1. facts \in SUBSET Facts(W) /\ tables' = Consolidated(facts)
    BY <1>8 DEF RuleDone, e
  <2> QED
    BY <1>1, <1>4, <1>8, <1>10, <2>1, ConsolidatedFacts
<1>12. SeenOK(seen', tables', Len(rules))
  <2>1. PICK S : S = BodyPreds(rules[i])
    OBVIOUS
  <2>2. PICK t : t = tables
    OBVIOUS
  <2>3. PICK t2 : t2 = tables'
    OBVIOUS
  <2>4. PICK n \in Nat : n = Len(rules)
    BY <1>5
  <2>5. PICK sn : sn = NowSeen(seen, t, i, S)
    OBVIOUS
  <2>6. seen' = sn
    BY <2>1, <2>2, <2>5 DEF RuleDone, NowSeen
  <2>7. SeenOK(seen, t, n) /\ i \in 1 .. n
    BY <1>1, <1>5, <2>2, <2>4
  <2>8. Longer(t, t2)
    BY <1>11, <2>2, <2>3 DEF Longer
  <2>9. SeenOK(sn, t2, n)
    BY <2>5, <2>7, <2>8, SeenFacts
  <2> QED
    BY <2>3, <2>4, <2>6, <2>9
<1>13. rows' = e.rows /\ cyclic' = e.cyclic
  BY DEF RuleDone, e
<1>14. DataOK(rows', IsSum, F, tables', seen', Len(rules), cyclic')
  BY <1>8, <1>9, <1>11, <1>12, <1>13 DEF DataOK, W
<1>15. FlagOK(IsChecking, rows', IsSum, target, F, cyclic')
  BY <1>8, <1>13 DEF FlagOK
<1> QED
  BY <1>14, <1>15 DEF DataAfter, F

\* The parts of the invariant when the phase stays.
LEMMA SamePhase ==
  ASSUME IInv, UNCHANGED <<prog, phase, verdict, rules, target>>,
         phase \notin {"ja", "rja"}, ScheduleOK', DataAfter(IsSum, SymbolsOf(rules))
  PROVE  IInv'
<1>1. IsSum' = IsSum /\ IsChecking' = IsChecking
  BY DEF IsSum, IsChecking
<1>2. FunctionsInUse' = SymbolsOf(rules)
  BY DEF FunctionsInUse
<1>3. ControlOK'
  BY <1>1 DEF IInv, ControlOK
<1>4. DataOK(rows', IsSum', FunctionsInUse', tables', seen', Len(rules'), cyclic')
  BY <1>1, <1>2 DEF DataAfter
<1>5. FlagOK(IsChecking', rows', IsSum', target', FunctionsInUse', cyclic')
  BY <1>1, <1>2 DEF DataAfter
<1> QED
  BY <1>3, <1>4, <1>5 DEF IInv

LEMMA ExecuteKeeps ==
  ASSUME IInv, ExecuteRule
  PROVE  IInv'
<1> DEFINE i == Ruleset[current]
<1>1. /\ ControlOK /\ ScheduleOK /\ phase \notin {"ja", "rja"} /\ FunctionsInUse = SymbolsOf(rules)
      /\ UNCHANGED <<prog, phase, verdict, rules, target>>
      /\ current <= Len(Ruleset) /\ (part # "ext" => ~Saturated)
  BY DEF IInv, ExecuteRule, FunctionsInUse
<1>2. DataBefore(IsSum, SymbolsOf(rules))
  BY <1>1 DEF IInv, DataBefore
<1>3. i \in Rules
  <2>1. Ruleset \in Seq(Rules) /\ Len(Ruleset) \in Nat
    BY <1>1, RulesetFacts
  <2>2. current \in 1 .. Len(Ruleset)
    BY <1>1, <2>1, RulesFacts DEF ScheduleOK
  <2> QED
    BY <2>1, <2>2
<1>4. CASE BodyChanged(i)
  <2>1. RuleDone(i) /\ Advance(Consolidated(Execution(i).facts) # tables)
    BY <1>4 DEF ExecuteRule, RuleDone
  <2>2. DataAfter(IsSum, SymbolsOf(rules))
    BY <1>1, <1>2, <1>3, <2>1, DoneFacts
  <2>3. ScheduleOK'
    <3> PICK derived : derived = (Consolidated(Execution(i).facts) # tables)
      OBVIOUS
    <3>1. Advance(derived)
      BY <2>1
    <3> QED
      BY <1>1, <3>1, AdvanceFacts
  <2> QED
    BY <1>1, <2>2, <2>3, SamePhase
<1>5. CASE ~BodyChanged(i)
  <2>1. UNCHANGED <<rows, cyclic, tables, seen>> /\ Advance(FALSE)
    BY <1>5 DEF ExecuteRule
  <2>2. DataAfter(IsSum, SymbolsOf(rules))
    BY <1>2, <2>1 DEF DataBefore, DataAfter
  <2>3. ScheduleOK'
    BY <1>1, <2>1, AdvanceFacts
  <2> QED
    BY <1>1, <2>2, <2>3, SamePhase
<1> QED
  BY <1>4, <1>5

LEMMA RulesetLen == ControlOK => Len(Ruleset) \in Nat
BY RulesetFacts

LEMMA EnterKeeps ==
  ASSUME IInv, EnterExt
  PROVE  IInv'
<1>1. /\ ControlOK /\ ScheduleOK /\ phase \notin {"ja", "rja"} /\ FunctionsInUse = SymbolsOf(rules)
      /\ UNCHANGED <<prog, phase, verdict, rules, target, rows, cyclic, tables, seen>>
      /\ part' = "ext" /\ current' = 1 /\ idle' = 0
  BY DEF IInv, EnterExt, FunctionsInUse
<1>2. DataAfter(IsSum, SymbolsOf(rules))
  BY <1>1 DEF IInv, DataAfter
<1>3. ScheduleOK'
  <2>1. ControlOK'
    BY <1>1 DEF ControlOK, IsSum
  <2>2. Len(Ruleset') \in Nat
    <3>1. (ControlOK => Len(Ruleset) \in Nat)'
      BY RulesetLen, PTL
    <3> QED
      BY <2>1, <3>1
  <2>3. Len(rules) \in Nat
    BY <1>1, RulesFacts
  <2> QED
    BY <1>1, <2>2, <2>3 DEF ScheduleOK
<1> QED
  BY <1>1, <1>2, <1>3, SamePhase

-----------------------------------------------------------------------------
(* From check to check                                                     *)

LEMMA VerdictFacts ==
  ASSUME VerdictOK(verdict),
         NEW check \in {"ja", "rja", "msa", "mfa", "rmsa", "rmfa", "mfc", "chased"},
         NEW answer \in BOOLEAN, Conclude(check, answer)
  PROVE  VerdictOK(verdict')
<1>1. verdict' = [c \in DOMAIN verdict \cup {check} |-> IF c = check THEN answer ELSE verdict[c]]
  BY DEF Conclude
<1>2. DOMAIN verdict' = DOMAIN verdict \cup {check}
  BY <1>1
<1>3. ASSUME NEW c \in DOMAIN verdict'
      PROVE  verdict'[c] \in BOOLEAN
  <2>1. CASE c = check
    BY <1>1, <1>2, <2>1
  <2>2. CASE c # check
    BY <1>1, <1>2, <2>2 DEF VerdictOK
  <2> QED
    BY <2>1, <2>2
<1> QED
  BY <1>2, <1>3 DEF VerdictOK

\* The invariant once a chase is set up.
LEMMA StartKeeps ==
  ASSUME ControlOK, prog' = prog, VerdictOK(verdict'),
         phase' \in Phases \ {"ja", "rja"},
         NEW p \in {prog, WithDependencies(prog)}, NEW inst, InstanceOK(inst),
         NEW tgt \in 0 .. Len(prog), IsSum' => tgt = 0,
         NEW which \in {"all", "datalog"}, StartOn(p, inst, tgt, which)
  PROVE  IInv'
<1>1. p \in Seq(AnyRule)
  BY RulesFacts
<1>2. /\ rules' = p /\ part' = which /\ current' = 1 /\ idle' = 0 /\ target' = tgt
  BY DEF StartOn
<1>3. ControlOK'
  BY <1>2 DEF ControlOK
<1>4. FunctionsInUse' = SymbolsOf(p)
  BY <1>2 DEF FunctionsInUse
<1>5. ScheduleOK'
  <2>1. (ControlOK => Len(Ruleset) \in Nat)'
    BY RulesetLen, PTL
  <2>2. Len(rules') \in Nat
    BY <1>1, <1>2
  <2> QED
    BY <1>2, <1>3, <2>1, <2>2 DEF ScheduleOK
<1>6. PICK sum \in BOOLEAN : sum = IsSum'
  <2>1. IsSum' \in BOOLEAN
    BY DEF IsSum
  <2> QED
    BY <2>1
<1>7. PICK chk : chk = IsChecking'
  OBVIOUS
<1>8. /\ DataOK(rows', sum, SymbolsOf(p), tables', seen', Len(p), cyclic')
      /\ FlagOK(chk, rows', sum, tgt, SymbolsOf(p), cyclic')
  BY <1>1, StartFacts
<1>9. DataOK(rows', IsSum', FunctionsInUse', tables', seen', Len(rules'), cyclic')
  BY <1>2, <1>4, <1>6, <1>8
<1>10. FlagOK(IsChecking', rows', IsSum', target', FunctionsInUse', cyclic')
  BY <1>2, <1>4, <1>6, <1>7, <1>8
<1> QED
  BY <1>3, <1>5, <1>9, <1>10 DEF IInv

\* The invariant when the next phase leaves the data of the chase.
LEMMA StayKeeps ==
  ASSUME IInv, prog' = prog, VerdictOK(verdict'), UNCHANGED chase,
         \/ phase = "ja" /\ phase' = "rja"
         \/ phase \notin {"ja", "rja", "msa", "rmsa"} /\ phase' = "done"
  PROVE  IInv'
<1>1. /\ rules' = rules /\ tables' = tables /\ seen' = seen /\ part' = part /\ current' = current
      /\ idle' = idle /\ rows' = rows /\ cyclic' = cyclic /\ target' = target
  BY DEF chase
<1>2. ~IsSum /\ ~IsSum' /\ ~IsChecking'
  BY DEF IsSum, IsChecking
<1>3. FunctionsInUse' = FunctionsInUse
  BY <1>1 DEF FunctionsInUse
<1>4. IsSum = FALSE /\ IsSum' = FALSE
  BY <1>2 DEF IsSum
<1>5. ControlOK'
  BY <1>1, <1>2 DEF IInv, ControlOK, Phases
<1>6. ScheduleOK'
  <2>1. Ruleset' = Ruleset
    BY <1>1 DEF Ruleset, Rules
  <2> QED
    BY <1>1, <2>1 DEF IInv, ScheduleOK
<1>7. DataOK(rows', IsSum', FunctionsInUse', tables', seen', Len(rules'), cyclic')
  BY <1>1, <1>3, <1>4 DEF IInv
<1>8. FlagOK(IsChecking', rows', IsSum', target', FunctionsInUse', cyclic')
  BY <1>2 DEF FlagOK
<1> QED
  BY <1>5, <1>6, <1>7, <1>8 DEF IInv

LEMMA PhaseKeeps ==
  ASSUME IInv, prog' = prog, VerdictOK(verdict'), NEW ph, StartPhase(ph),
         \/ ph \in {"msa", "mfa", "rmsa", "rmfa", "chase"}
         \/ phase = "ja" /\ ph = "rja"
         \/ phase \notin {"ja", "rja", "msa", "rmsa"} /\ ph = "done"
  PROVE  IInv'
<1>1. phase' = ph
  BY DEF StartPhase
<1>2. CASE ph \in {"msa", "mfa", "rmsa", "rmfa", "chase"}
  <2>1. PICK p \in {prog, WithDependencies(prog)}, which \in {"all", "datalog"} :
          \E inst \in Instances(prog, ph) : StartOn(p, inst, 0, which)
    BY <1>2 DEF StartPhase
  <2>2. PICK inst \in Instances(prog, ph) : StartOn(p, inst, 0, which)
    BY <2>1
  <2>3. InstanceOK(inst)
    BY InstancesFacts
  <2>4. ControlOK /\ 0 \in 0 .. Len(prog)
    BY RulesFacts DEF IInv
  <2>5. phase' \in Phases \ {"ja", "rja"}
    BY <1>1, <1>2 DEF Phases
  <2> QED
    BY <2>2, <2>3, <2>4, <2>5, StartKeeps
<1>3. CASE ph \notin {"msa", "mfa", "rmsa", "rmfa", "chase"}
  <2>1. UNCHANGED chase
    BY <1>3 DEF StartPhase
  <2> QED
    BY <1>1, <1>3, <2>1, StayKeeps
<1> QED
  BY <1>2, <1>3

LEMMA MFCKeeps ==
  ASSUME IInv, prog' = prog, VerdictOK(verdict'), NEW k, StartMFC(k)
  PROVE  IInv'
<1>1. PICK j \in NextTarget(k) : phase' = "mfc" /\ StartOn(prog, FrozenBody(prog[j]), j, "all")
  BY DEF StartMFC
<1>2. ControlOK /\ prog \in Seq(AnyRule) /\ Len(prog) \in Nat /\ DOMAIN prog = 1 .. Len(prog)
  BY RulesFacts DEF IInv
<1>3. j \in 1 .. Len(prog) /\ j \in 0 .. Len(prog)
  BY <1>2 DEF NextTarget, ExistentialRules
<1>4. InstanceOK(FrozenBody(prog[j]))
  <2>1. PICK r \in AnyRule : r = prog[j]
    BY <1>2, <1>3
  <2>2. InstanceOK(FrozenBody(r))
    BY FrozenFacts
  <2> QED
    BY <2>1, <2>2
<1>5. PICK inst : inst = FrozenBody(prog[j])
  OBVIOUS
<1>6. StartOn(prog, inst, j, "all") /\ InstanceOK(inst)
  BY <1>1, <1>4, <1>5
<1>7. ~IsSum' /\ phase' \in Phases \ {"ja", "rja"}
  BY <1>1 DEF IsSum, Phases
<1> QED
  BY <1>2, <1>3, <1>6, <1>7, StartKeeps

-----------------------------------------------------------------------------
(* The theorems                                                            *)

LEMMA InitOK == Init => IInv
<1> SUFFICES ASSUME Init
             PROVE  IInv
  OBVIOUS
<1>1. /\ prog \in Programs /\ phase = "ja" /\ verdict = << >> /\ rules = prog
      /\ tables = [q \in AllPredicates |-> << >>]
      /\ seen = [i \in Rules |-> [q \in AllPredicates |-> 0]]
      /\ part = "all" /\ current = 1 /\ idle = 0
      /\ rows = << >> /\ cyclic = FALSE /\ target = 0
  BY DEF Init
<1>2. ~IsSum /\ ~IsChecking /\ FunctionsInUse = {} /\ IsSum \in BOOLEAN
  BY <1>1 DEF IsSum, IsChecking, FunctionsInUse
<1>3. VerdictOK(verdict)
  BY <1>1 DEF VerdictOK
<1>4. Len(prog) \in Nat /\ Len(rules) \in Nat /\ DOMAIN rules = 1 .. Len(rules)
  BY <1>1, ProgramFacts
<1>5. ControlOK
  BY <1>1, <1>2, <1>3, <1>4 DEF ControlOK, Phases
<1>6. ScheduleOK
  <2>1. Len(Ruleset) \in Nat
    BY <1>5, RulesetFacts
  <2> QED
    BY <1>1, <1>4, <2>1 DEF ScheduleOK
<1>7. DataOK(rows, IsSum, {}, tables, seen, Len(rules), cyclic)
  <2>1. rows \in [{} -> Seq(Seq(Nat))] /\ DOMAIN rows = {}
    BY <1>1
  <2>2. RowsOK(rows, IsSum, {}) /\ Room(rows, IsSum)
    <3>1. \A f \in {} : rows[f] = << >>
      OBVIOUS
    <3> QED
      BY <2>1, <3>1, NoRows
  <2>3. TablesOK(tables, Values(rows, IsSum))
    <3>1. \A q \in AllPredicates : tables[q] = << >>
      BY <1>1
    <3>2. DOMAIN tables = AllPredicates
      BY <1>1
    <3>3. \A R : << >> \in Seq(Seq(R))
      OBVIOUS
    <3>4. ASSUME NEW q \in AllPredicates
          PROVE  tables[q] \in Seq(Seq([1 .. Width(q) -> Values(rows, IsSum)]))
      BY <3>1, <3>3
    <3> QED
      BY <3>2, <3>4 DEF TablesOK
  <2>4. SeenOK(seen, tables, Len(rules))
    <3>1. seen = [i \in 1 .. Len(rules) |-> [q \in AllPredicates |-> 0]]
      BY <1>1, <1>4 DEF Rules
    <3>2. \A q \in AllPredicates : Len(tables[q]) = 0
      BY <1>1
    <3> QED
      BY <3>1, <3>2 DEF SeenOK
  <2> QED
    BY <1>1, <2>2, <2>3, <2>4 DEF DataOK
<1>8. FlagOK(IsChecking, rows, IsSum, target, FunctionsInUse, cyclic)
  BY <1>2 DEF FlagOK
<1> QED
  BY <1>2, <1>5, <1>6, <1>7, <1>8 DEF IInv

LEMMA NextKeeps == IInv /\ [Next]_vars => IInv'
<1> SUFFICES ASSUME IInv, [Next]_vars
             PROVE  IInv'
  OBVIOUS
<1>0. VerdictOK(verdict) /\ cyclic \in BOOLEAN
  BY DEF IInv, ControlOK, DataOK
<1>1. CASE ExecuteRule
  BY <1>1, ExecuteKeeps
<1>2. CASE EnterExt
  BY <1>2, EnterKeeps
<1>3. CASE CheckJA
  <2>1. JA(prog) \in BOOLEAN
    BY DEF JA
  <2>2. phase = "ja" /\ Conclude("ja", JA(prog)) /\ StartPhase("rja") /\ prog' = prog
    BY <1>3 DEF CheckJA
  <2>3. VerdictOK(verdict')
    BY <1>0, <2>1, <2>2, VerdictFacts
  <2> QED
    BY <2>2, <2>3, PhaseKeeps
<1>4. CASE CheckRJA
  <2>1. RJA(prog) \in BOOLEAN
    BY DEF RJA
  <2>2. Conclude("rja", RJA(prog)) /\ StartPhase("msa") /\ prog' = prog
    BY <1>4 DEF CheckRJA
  <2>3. VerdictOK(verdict')
    BY <1>0, <2>1, <2>2, VerdictFacts
  <2> QED
    BY <2>2, <2>3, PhaseKeeps
<1>5. CASE EndMSA
  <2>1. Conclude("msa", ~cyclic) /\ StartPhase("mfa") /\ prog' = prog
    BY <1>5 DEF EndMSA
  <2>2. VerdictOK(verdict')
    BY <1>0, <2>1, VerdictFacts
  <2> QED
    BY <2>1, <2>2, PhaseKeeps
<1>6. CASE EndMFA
  <2>1. phase = "mfa" /\ Conclude("mfa", ~cyclic) /\ prog' = prog
    BY <1>6 DEF EndMFA
  <2>2. VerdictOK(verdict')
    BY <1>0, <2>1, VerdictFacts
  <2>3. StartPhase("rmsa") \/ StartPhase("done")
    BY <1>6 DEF EndMFA
  <2> QED
    BY <2>1, <2>2, <2>3, PhaseKeeps
<1>7. CASE EndRMSA
  <2> DEFINE answer == ~cyclic /\ \A f \in FactsIn(tables) : f[1] = "__S_TRANS__" => f[2][1] # f[2][2]
  <2>1. answer \in BOOLEAN
    OBVIOUS
  <2>2. Conclude("rmsa", answer) /\ StartPhase("rmfa") /\ prog' = prog
    BY <1>7 DEF EndRMSA
  <2> HIDE DEF answer
  <2>3. VerdictOK(verdict')
    BY <1>0, <2>1, <2>2, VerdictFacts
  <2> QED
    BY <2>2, <2>3, PhaseKeeps
<1>8. CASE EndRMFA
  <2>1. phase = "rmfa" /\ Conclude("rmfa", ~cyclic) /\ prog' = prog
    BY <1>8 DEF EndRMFA
  <2>2. VerdictOK(verdict')
    BY <1>0, <2>1, VerdictFacts
  <2>3. StartPhase("done") \/ StartMFC(0)
    BY <1>8 DEF EndRMFA
  <2>4. CASE StartPhase("done")
    BY <2>1, <2>2, <2>4, PhaseKeeps
  <2>5. CASE StartMFC(0)
    BY <2>1, <2>2, <2>5, MFCKeeps
  <2> QED
    BY <2>3, <2>4, <2>5
<1>9. CASE EndMFC
  <2>1. phase = "mfc" /\ prog' = prog
    BY <1>9 DEF EndMFC
  <2>2. CASE ~cyclic /\ NextTarget(target) # {}
    <3>1. StartMFC(target) /\ verdict' = verdict
      BY <1>9, <2>2 DEF EndMFC
    <3>2. VerdictOK(verdict')
      BY <1>0, <3>1
    <3> QED
      BY <2>1, <3>1, <3>2, MFCKeeps
  <2>3. CASE ~(~cyclic /\ NextTarget(target) # {})
    <3>1. Conclude("mfc", cyclic) /\ (StartPhase("chase") \/ StartPhase("done"))
      BY <1>9, <2>3 DEF EndMFC
    <3>2. VerdictOK(verdict')
      BY <1>0, <3>1, VerdictFacts
    <3> QED
      BY <2>1, <3>1, <3>2, PhaseKeeps
  <2> QED
    BY <2>2, <2>3
<1>10. CASE EndChase
  <2>1. phase = "chase" /\ Conclude("chased", TRUE) /\ StartPhase("done") /\ prog' = prog
    BY <1>10 DEF EndChase
  <2>2. VerdictOK(verdict')
    BY <1>0, <2>1, VerdictFacts
  <2> QED
    BY <2>1, <2>2, PhaseKeeps
<1>11. CASE UNCHANGED vars
  <2>1. /\ prog' = prog /\ phase' = phase /\ verdict' = verdict /\ rules' = rules /\ tables' = tables
        /\ seen' = seen /\ part' = part /\ current' = current /\ idle' = idle /\ rows' = rows
        /\ cyclic' = cyclic /\ target' = target
    BY <1>11 DEF vars, chase
  <2>2. IsSum' = IsSum /\ IsChecking' = IsChecking /\ FunctionsInUse' = FunctionsInUse /\ Ruleset' = Ruleset
    BY <2>1 DEF IsSum, IsChecking, FunctionsInUse, Ruleset, Rules
  <2>3. ControlOK' /\ ScheduleOK'
    BY <2>1, <2>2 DEF IInv, ControlOK, ScheduleOK
  <2>4. DataOK(rows', IsSum', FunctionsInUse', tables', seen', Len(rules'), cyclic')
    BY <2>1, <2>2 DEF IInv
  <2>5. FlagOK(IsChecking', rows', IsSum', target', FunctionsInUse', cyclic')
    BY <2>1, <2>2 DEF IInv
  <2> QED
    BY <2>3, <2>4, <2>5 DEF IInv
<1> QED
  BY <1>1, <1>2, <1>3, <1>4, <1>5, <1>6, <1>7, <1>8, <1>9, <1>10, <1>11 DEF Next

LEMMA Inductive == Spec => []IInv
BY InitOK, NextKeeps, PTL DEF Spec

LEMMA TypesFollow == IInv => TypeOK
<1> SUFFICES ASSUME IInv
             PROVE  TypeOK
  OBVIOUS
<1> DEFINE F == FunctionsInUse
           V == Values(rows, IsSum)
<1>0. ControlOK /\ ScheduleOK /\ DataOK(rows, IsSum, F, tables, seen, Len(rules), cyclic)
  BY DEF IInv
<1>1. Len(Ruleset) \in Nat /\ Len(Ruleset) <= Len(rules) /\ Len(rules) \in Nat /\ Rules = 1 .. Len(rules)
  BY <1>0, RulesetFacts, RulesFacts DEF Rules
<1>2. /\ RowsOK(rows, IsSum, F) /\ Room(rows, IsSum) /\ TablesOK(tables, V)
      /\ SeenOK(seen, tables, Len(rules)) /\ cyclic \in BOOLEAN /\ IsSum \in BOOLEAN
  BY <1>0 DEF DataOK, IsSum
<1>3. V \subseteq Nat
  <2>1. PICK M : Setting(M, SymbolsOf(rules))
    BY <1>0, SettingExists
  <2>2. M \in Nat /\ F \in SUBSET (1 .. M)
    BY <2>1 DEF Setting, FunctionsInUse
  <2> HIDE DEF F
  <2> QED
    BY <1>2, <2>2, ValuesFacts
<1> HIDE DEF V, F
<1>4. ASSUME NEW q \in AllPredicates
      PROVE  /\ Len(tables[q]) \in Nat
             /\ \A n \in DOMAIN tables[q] : \A i \in DOMAIN tables[q][n] :
                  tables[q][n][i] \in [1 .. Width(q) -> Nat]
  <2> DEFINE R == [1 .. Width(q) -> V]
  <2>1. tables[q] \in Seq(Seq(R)) /\ R \subseteq [1 .. Width(q) -> Nat]
    BY <1>2, <1>3 DEF TablesOK
  <2> HIDE DEF R
  <2>2. \A n \in DOMAIN tables[q] : tables[q][n] \in Seq(R)
    BY <2>1
  <2>3. ASSUME NEW n \in DOMAIN tables[q], NEW i \in DOMAIN tables[q][n]
        PROVE  tables[q][n][i] \in [1 .. Width(q) -> Nat]
    BY <2>1, <2>2
  <2> QED
    BY <2>1, <2>3
<1>5. \A q \in Predicates : \A n \in DOMAIN tables[q] : \A i \in DOMAIN tables[q][n] :
        tables[q][n][i] \in [1 .. Arity[q] -> Nat]
  BY <1>4 DEF AllPredicates, Width
<1>6. \A i \in Rules : \A q \in AllPredicates : seen[i][q] \in 0 .. Len(tables[q])
  <2> TAKE i \in Rules
  <2> TAKE q \in AllPredicates
  <2>1. seen[i][q] \in Nat /\ seen[i][q] <= Len(tables[q])
    BY <1>1, <1>2 DEF SeenOK
  <2> QED
    BY <1>4, <2>1
<1>7. /\ phase \in Phases /\ VerdictOK(verdict) /\ rules \in {prog, WithDependencies(prog)}
      /\ target \in 0 .. Len(prog)
  BY <1>0 DEF ControlOK
<1>8. part \in {"all", "datalog", "ext"} /\ current \in 1 .. Len(rules) + 1 /\ idle \in 0 .. Len(rules)
  BY <1>0, <1>1 DEF ScheduleOK
<1> QED
  BY <1>2, <1>5, <1>6, <1>7, <1>8 DEF TypeOK, Phases, VerdictOK

LEMMA FlagFollows == IInv => FlagExact
<1> SUFFICES ASSUME IInv, IsChecking
             PROVE  cyclic <=> \E f \in DOMAIN rows : target \in {0, RuleOf(f)} /\ Nests(f)
  BY DEF FlagExact
<1> DEFINE F == SymbolsOf(rules)
<1>1. ControlOK /\ FunctionsInUse = F /\ IsSum \in BOOLEAN
  BY DEF IInv, IsChecking, FunctionsInUse, IsSum
<1>2. RowsOK(rows, IsSum, F) /\ Room(rows, IsSum) /\ DOMAIN rows = F /\ Flag(rows, IsSum, target, F, cyclic)
  BY <1>1 DEF IInv, DataOK, FlagOK, RowsOK
<1>3. PICK M : Setting(M, F)
  BY <1>1, SettingExists
<1> HIDE DEF F
<1>4. M \in Nat /\ F \in SUBSET (1 .. M)
  BY <1>3 DEF Setting
<1>5. Graphs(InsideOf(rows, IsSum), Bound(M), rows, IsSum) /\ Bound(M) \in Nat
  BY <1>1, <1>2, <1>4, GraphFacts
<1>6. Inside = InsideOf(rows, IsSum)
  BY DEF Inside, InsideOf
<1>7. Edges(Inside) /\ Within(Inside, Bound(M))
  BY <1>5, <1>6 DEF Graphs
<1>8. \A f : Nests(f) <=> NestsIn(InsideOf(rows, IsSum), f)
  BY <1>5, <1>6, <1>7, NestsFacts
<1> QED
  BY <1>2, <1>8 DEF Flag

\* checkRecursive drops from its worklist only what it has just looked at, so that it runs
\* empty only where no term is inside itself: none is, while it can still be called.
SearchesEnd == IsChecking /\ ~(IsSum /\ cyclic) => ~IsCyclicGraph(Inside)

LEMMA EndsFollow == IInv => SearchesEnd
<1> SUFFICES ASSUME IInv, IsChecking, ~(IsSum /\ cyclic)
             PROVE  ~IsCyclicGraph(Inside)
  BY DEF SearchesEnd
<1> DEFINE F == SymbolsOf(rules)
<1>1. ControlOK /\ FunctionsInUse = F /\ IsSum \in BOOLEAN
  BY DEF IInv, IsChecking, FunctionsInUse, IsSum
<1>2. RowsOK(rows, IsSum, F) /\ Room(rows, IsSum) /\ Flag(rows, IsSum, target, F, cyclic)
  BY <1>1 DEF IInv, DataOK, FlagOK
<1>3. PICK M : Setting(M, F)
  BY <1>1, SettingExists
<1> HIDE DEF F
<1>4. M \in Nat /\ F \in SUBSET (1 .. M)
  BY <1>3 DEF Setting
<1>5. Graphs(InsideOf(rows, IsSum), Bound(M), rows, IsSum) /\ Bound(M) \in Nat
  BY <1>1, <1>2, <1>4, GraphFacts
<1>6. Inside = InsideOf(rows, IsSum)
  BY DEF Inside, InsideOf
<1>7. Edges(Inside) /\ Within(Inside, Bound(M))
  BY <1>5, <1>6 DEF Graphs
<1>8. Acyclic(Inside)
  BY <1>2, <1>6 DEF Flag
<1> QED
  BY <1>5, <1>7, <1>8, TrimFacts

\* What the id of a term of function symbol f for row i is read as: the rule and the
\* variable that made it, and in a chase without summarisation the row.
Readable(f, i) ==
  LET t == TermFor(rows, IsSum, f, rows[f][i])
  IN /\ IsFunction(t) /\ SymbolOf(t) = f /\ <<RuleOf(f), VarOf(f)>> \in ExtVars(rules)
     /\ ~IsSum => Arguments(rows, t) = rows[f][i]

IdsReadable == \A f \in DOMAIN rows : \A i \in DOMAIN rows[f] : Readable(f, i)

LEMMA IdsFollow == IInv => IdsReadable
<1> SUFFICES ASSUME IInv, NEW f \in DOMAIN rows, NEW i \in DOMAIN rows[f]
             PROVE  Readable(f, i)
  BY DEF IdsReadable
<1> DEFINE F == FunctionsInUse
           t == TermFor(rows, IsSum, f, rows[f][i])
<1>1. ControlOK /\ RowsOK(rows, IsSum, F) /\ Room(rows, IsSum) /\ IsSum \in BOOLEAN
  BY DEF IInv, DataOK, IsSum
<1>2. DOMAIN rows = F /\ F \subseteq SymbolsOf(rules) /\ Typed(rows, IsSum, F)
  BY <1>1 DEF RowsOK, Typed, FunctionsInUse
<1>3. PICK M : Setting(M, SymbolsOf(rules))
  BY <1>1, SettingExists
<1>4. M \in Nat /\ F \in SUBSET (1 .. M) /\ rules \in Seq(AnyRule)
  BY <1>2, <1>3 DEF Setting
<1> HIDE DEF F
<1>5. RowTerm(rows, IsSum, M, f, i)
  BY <1>1, <1>2, <1>4, RowTermFacts
<1>6. /\ t = TermOf(f, Place(IsSum, i)) /\ Place(IsSum, i) \in 0 .. CounterWidth - 1
      /\ f \in Nat \ {0}
  BY <1>5 DEF RowTerm
<1>7. IsFunction(t) /\ SymbolOf(t) = f /\ Counter(t) = Place(IsSum, i)
  BY <1>6, TermFacts
<1>8. <<RuleOf(f), VarOf(f)>> \in ExtVars(rules)
  BY <1>2, <1>4, SymbolsFacts
<1>9. ASSUME ~IsSum
      PROVE  Arguments(rows, t) = rows[f][i]
  <2>1. i \in Nat
    BY <1>1, <1>2 DEF RowsOK
  <2>2. Counter(t) + 1 = i
    BY <1>7, <1>9, <2>1 DEF Place
  <2> QED
    BY <1>7, <2>2 DEF Arguments
<1> QED
  BY <1>7, <1>8, <1>9 DEF Readable

\* The state is well formed: in particular no value leaves the numbers that terms are,
\* no rule has read more blocks than there are, and no counter of terms is used up
\* without the throw of addRow (chasemgmt.cpp).
THEOREM TypeCorrect == Spec => []TypeOK
BY Inductive, TypesFollow, PTL

\* Whatever the rules and databases, the flag the chase manager computes row by row
\* (getNewOrExistingIDs, checkRecursive) tells exactly whether a term made so far
\* contains its own symbol.
THEOREM FlagIsExact == Spec => []FlagExact
BY Inductive, FlagFollows, PTL

\* checkRecursive remembers only the terms it looked at last: were a term inside itself,
\* it might go round for ever.  Whenever it can be called, no term is.
THEOREM EverySearchEnds == Spec => []SearchesEnd
BY Inductive, EndsFollow, PTL

\* The id of a term tells the rule, the variable and the row it was made from (GET_RULE,
\* GET_VAR, COUNTER and getRow), so that different rows never share one, except in a
\* summarising chase.
THEOREM IdsAreReadable == Spec => []IdsReadable
BY Inductive, IdsFollow, PTL

=============================================================================
