-------------------------- MODULE FCTable_proofs --------------------------
(***************************************************************************)
(* Proofs about the table of a predicate, for all rows, queries, rules and *)
(* thresholds: stamps never slip back, and with one head per rule a        *)
(* filtered read answers like a plain set of facts.                        *)
(***************************************************************************)
EXTENDS FCTable, FiniteSetTheorems, SequenceTheorems, WellFoundedInduction, TLAPS

-----------------------------------------------------------------------------
(* Numbers, sequences and folds                                            *)

\* A set of numbers has a least one.
LEMMA LeastNumber ==
  ASSUME NEW S, S \subseteq Nat, S # {}
  PROVE  \E m \in S : \A k \in S : m <= k
<1>1. PICK m \in S : \A k \in S : ~(<<k, m>> \in OpToRel(<, Nat))
  BY NatLessThanWellFounded, WFMin
<1>2. ASSUME NEW k \in S, k < m
      PROVE  FALSE
  <2> DEFINE ss == <<k, m>>
  <2>1. ss \in Nat \X Nat /\ ss[1] < ss[2]
    BY <1>2
  <2>2. ss \in OpToRel(<, Nat)
    BY <2>1 DEF OpToRel
  <2> QED
    BY <1>1, <2>2
<1> QED
  BY <1>2

\* Induction over 0 .. n.
LEMMA UpTo ==
  ASSUME NEW n \in Nat, NEW S, 0 \in S, \A k \in 1 .. n : k - 1 \in S => k \in S
  PROVE  0 .. n \subseteq S
<1>1. SUFFICES ASSUME (0 .. n) \ S # {}
               PROVE  FALSE
  OBVIOUS
<1> DEFINE rest == (0 .. n) \ S
<1>a. rest \subseteq Nat /\ rest # {}
  BY <1>1
<1>2. PICK m \in rest : \A k \in rest : m <= k
  <2> HIDE DEF rest
  <2> QED
    BY <1>a, LeastNumber
<1>3. m \in 1 .. n /\ m - 1 \in 0 .. n
  BY <1>2
<1>4. m - 1 \in S
  BY <1>2, <1>3
<1> QED
  BY <1>2, <1>3, <1>4

LEMMA MaxOfUpTo ==
  ASSUME NEW k \in Nat \ {0}
  PROVE  Max(1 .. k) = k /\ (1 .. k) \ {k} = 1 .. (k - 1) /\ 1 .. k # {}
<1>1. k \in 1 .. k /\ \A y \in 1 .. k : k >= y
  OBVIOUS
<1>2. \A x \in 1 .. k : (\A y \in 1 .. k : x >= y) => x = k
  BY <1>1
<1>3. Max(1 .. k) = k
  BY <1>1, <1>2 DEF Max
<1> QED
  BY <1>1, <1>3

LEMMA MaxOfSet ==
  ASSUME NEW n \in Nat, NEW S \in SUBSET (1 .. n), S # {}
  PROVE  Max(S) \in S /\ \A x \in S : x <= Max(S)
<1> DEFINE upper == { m \in Nat : \A x \in S : x <= m }
<1>1. n \in upper /\ upper \subseteq Nat
  OBVIOUS
<1>2. PICK m \in upper : \A k \in upper : m <= k
  BY <1>1, LeastNumber
<1>3. m \in S
  <2>1. ASSUME m \notin S
        PROVE  FALSE
    <3>0. PICK x \in S : TRUE
      OBVIOUS
    <3>1. x \in 1 .. n /\ x <= m /\ m \in Nat
      BY <1>2, <3>0
    <3>2. m - 1 \in Nat
      BY <3>1
    <3>3. \A y \in S : y <= m - 1
      <4> TAKE y \in S
      <4>1. y <= m /\ y # m /\ y \in Nat
        BY <1>2, <2>1
      <4> QED
        BY <4>1, <3>1
    <3> QED
      BY <1>2, <3>1, <3>2, <3>3
  <2> QED
    BY <2>1
<1>4. \A y \in S : m >= y
  BY <1>2
<1> QED
  BY <1>3, <1>4 DEF Max

\* G recurses over the subsets of 1 .. n by their greatest element, as FoldLeft does.
Recursion(G, n, base, seq, step) ==
  \A s \in SUBSET (1 .. n) :
    G[s] = IF s = {} THEN base ELSE step[<<G[s \ {Max(s)}], seq[Max(s)]>>]

LEMMA RecursionExists ==
  ASSUME NEW n \in Nat, NEW T, NEW B, NEW base \in T, NEW seq \in [1 .. n -> B],
         NEW step \in [T \X B -> T]
  PROVE  \E G \in [SUBSET (1 .. n) -> T] : Recursion(G, n, base, seq, step)
<1> DEFINE solved == { k \in 0 .. n : \E G \in [SUBSET (1 .. k) -> T] : Recursion(G, k, base, seq, step) }
<1>1. 0 \in solved
  <2> DEFINE G == [s \in SUBSET (1 .. 0) |-> base]
  <2>1. G \in [SUBSET (1 .. 0) -> T] /\ \A s \in SUBSET (1 .. 0) : s = {} /\ G[s] = base
    OBVIOUS
  <2>2. Recursion(G, 0, base, seq, step)
    <3> HIDE DEF G
    <3> QED
      BY <2>1 DEF Recursion
  <2>3. \E F \in [SUBSET (1 .. 0) -> T] : Recursion(F, 0, base, seq, step)
    BY <2>1, <2>2
  <2> QED
    <3> HIDE DEF G
    <3>1. 0 \in 0 .. n
      OBVIOUS
    <3> QED
      BY <2>3, <3>1, Zenon
<1>2. ASSUME NEW k \in 1 .. n, k - 1 \in solved
      PROVE  k \in solved
  <2>1. PICK G \in [SUBSET (1 .. (k - 1)) -> T] : Recursion(G, k - 1, base, seq, step)
    BY <1>2
  <2> DEFINE H == [s \in SUBSET (1 .. k) |->
                     IF k \in s THEN step[<<G[s \ {k}], seq[k]>>] ELSE G[s]]
  <2>2. k \in Nat /\ k <= n /\ \A s \in SUBSET (1 .. k) :
          /\ s \ {k} \in SUBSET (1 .. (k - 1))
          /\ k \notin s => s \in SUBSET (1 .. (k - 1))
    OBVIOUS
  <2>3. H \in [SUBSET (1 .. k) -> T]
    <3>1. \A s \in SUBSET (1 .. k) : <<G[s \ {k}], seq[k]>> \in T \X B
      BY <2>2
    <3> QED
      BY <2>2, <3>1
  <2>4. ASSUME NEW s \in SUBSET (1 .. k), s # {}
        PROVE  H[s] = step[<<H[s \ {Max(s)}], seq[Max(s)]>>]
    <3>1. Max(s) \in s /\ \A x \in s : x <= Max(s)
      BY <2>2, <2>4, MaxOfSet
    <3>2. CASE k \in s
      <4>1. Max(s) = k
        <5>1. PICK m \in s : m = Max(s)
          BY <3>1
        <5>2. m \in 1 .. k /\ k <= m
          BY <3>1, <3>2, <5>1
        <5> QED
          BY <5>1, <5>2, <2>2
      <4>2. s \ {k} \in SUBSET (1 .. k) /\ k \notin s \ {k}
        OBVIOUS
      <4>3. H[s \ {k}] = G[s \ {k}]
        BY <4>2
      <4>4. H[s] = step[<<G[s \ {k}], seq[k]>>]
        BY <3>2
      <4> QED
        BY <4>1, <4>3, <4>4
    <3>3. CASE k \notin s
      <4>1. s \in SUBSET (1 .. (k - 1)) /\ s \ {Max(s)} \in SUBSET (1 .. k)
        BY <2>2, <3>3
      <4>2. H[s] = G[s] /\ H[s \ {Max(s)}] = G[s \ {Max(s)}]
        BY <3>3, <4>1
      <4>3. G[s] = step[<<G[s \ {Max(s)}], seq[Max(s)]>>]
        BY <2>1, <2>4, <4>1 DEF Recursion
      <4> QED
        BY <4>2, <4>3
    <3> QED
      BY <3>2, <3>3
  <2>5. H[{}] = base
    <3>1. {} \in SUBSET (1 .. k) /\ {} \in SUBSET (1 .. (k - 1)) /\ k \notin {}
      OBVIOUS
    <3>2. H[{}] = G[{}]
      BY <3>1
    <3>3. G[{}] = base
      BY <2>1, <3>1 DEF Recursion
    <3> QED
      BY <3>2, <3>3
  <2>6. Recursion(H, k, base, seq, step)
    <3> HIDE DEF H
    <3> QED
      BY <2>4, <2>5 DEF Recursion
  <2>7. \E F \in [SUBSET (1 .. k) -> T] : Recursion(F, k, base, seq, step)
    <3> HIDE DEF H
    <3> QED
      BY <2>3, <2>6
  <2> QED
    <3> HIDE DEF H
    <3> QED
      BY <2>7
<1>3. 0 .. n \subseteq solved
  <2> HIDE DEF solved
  <2> QED
    BY <1>1, <1>2, UpTo
<1>4. n \in solved
  <2> HIDE DEF solved
  <2>1. n \in 0 .. n
    OBVIOUS
  <2> QED
    BY <1>3, <2>1
<1> QED
  BY <1>4

-----------------------------------------------------------------------------
(* Blocks                                                                  *)

LEMMA FrontFacts ==
  ASSUME NEW T, NEW s \in Seq(T), s # << >>
  PROVE  /\ Front(s) \in Seq(T) /\ Len(s) \in Nat \ {0} /\ Len(Front(s)) = Len(s) - 1
         /\ \A i \in 1 .. Len(s) - 1 : Front(s)[i] = s[i]
         /\ Last(s) = s[Len(s)] /\ Last(s) \in T
<1>1. Len(s) \in Nat \ {0}
  OBVIOUS
<1>2. Front(s) = SubSeq(s, 1, Len(s) - 1)
  BY DEF Front
<1>3. /\ SubSeq(s, 1, Len(s) - 1) \in Seq(T)
      /\ Len(SubSeq(s, 1, Len(s) - 1)) = Len(s) - 1
      /\ \A i \in 1 .. Len(s) - 1 : SubSeq(s, 1, Len(s) - 1)[i] = s[i]
  <2>1. PICK n \in Nat : n = Len(s) - 1
    BY <1>1
  <2>2. \A i \in 1 .. n : s[i] \in T
    BY <1>1, <2>1
  <2>3. /\ SubSeq(s, 1, n) \in Seq(T)
        /\ Len(SubSeq(s, 1, n)) = IF 1 <= n THEN n - 1 + 1 ELSE 0
        /\ \A i \in 1 .. n - 1 + 1 : SubSeq(s, 1, n)[i] = s[1 + i - 1]
    BY <2>2, SubSeqProperties
  <2>4. n - 1 + 1 = n /\ (~(1 <= n) => n = 0) /\ \A i \in 1 .. n : 1 + i - 1 = i
    OBVIOUS
  <2> QED
    BY <2>1, <2>3, <2>4
<1>4. Last(s) = s[Len(s)] /\ Last(s) \in T
  BY <1>1 DEF Last
<1> QED
  BY <1>1, <1>2, <1>3, <1>4

\* Adding a block changes the last block or appends one.
LEMMA AddBlockFacts ==
  ASSUME NEW bs \in Seq(Block), NEW b \in Block
  PROVE  /\ AddBlock(bs, b) \in Seq(Block)
         /\ MergesInto(bs, b) =>
              /\ Len(bs) \in Nat \ {0} /\ Len(AddBlock(bs, b)) = Len(bs)
              /\ bs[Len(bs)].iteration = b.iteration /\ bs[Len(bs)].pos = b.pos
              /\ AddBlock(bs, b)[Len(bs)] = [bs[Len(bs)] EXCEPT !.rows = @ \cup b.rows]
              /\ \A i \in 1 .. Len(bs) - 1 : AddBlock(bs, b)[i] = bs[i]
         /\ ~MergesInto(bs, b) =>
              /\ Len(AddBlock(bs, b)) = Len(bs) + 1
              /\ AddBlock(bs, b)[Len(bs) + 1] = b
              /\ \A i \in 1 .. Len(bs) : AddBlock(bs, b)[i] = bs[i]
<1>1. CASE MergesInto(bs, b)
  <2>1. bs # << >> /\ Last(bs).iteration = b.iteration /\ Last(bs).pos = b.pos
    BY <1>1 DEF MergesInto
  <2>2. /\ Front(bs) \in Seq(Block) /\ Len(bs) \in Nat \ {0} /\ Len(Front(bs)) = Len(bs) - 1
        /\ \A i \in 1 .. Len(bs) - 1 : Front(bs)[i] = bs[i]
        /\ Last(bs) = bs[Len(bs)] /\ Last(bs) \in Block
    BY <2>1, FrontFacts
  <2> DEFINE l == [Last(bs) EXCEPT !.rows = @ \cup b.rows]
  <2>3. l \in Block
    BY <2>2 DEF Block
  <2>4. AddBlock(bs, b) = Front(bs) \o << l >>
    BY <1>1 DEF AddBlock
  <2>5. PICK f \in Seq(Block) : f = Front(bs)
    BY <2>2
  <2> HIDE DEF l
  <2>6. /\ f \o << l >> \in Seq(Block) /\ Len(f \o << l >>) = Len(f) + 1
        /\ (f \o << l >>)[Len(f) + 1] = l
        /\ \A i \in 1 .. Len(f) : (f \o << l >>)[i] = f[i]
    BY <2>3
  <2>7. /\ AddBlock(bs, b) \in Seq(Block) /\ Len(AddBlock(bs, b)) = Len(bs)
        /\ AddBlock(bs, b)[Len(bs)] = l
        /\ \A i \in 1 .. Len(bs) - 1 : AddBlock(bs, b)[i] = bs[i]
    BY <2>2, <2>4, <2>5, <2>6
  <2> QED
    BY <1>1, <2>1, <2>2, <2>7 DEF l
<1>2. CASE ~MergesInto(bs, b)
  <2>1. AddBlock(bs, b) = Append(bs, b)
    BY <1>2 DEF AddBlock
  <2>2. /\ Append(bs, b) \in Seq(Block) /\ Len(Append(bs, b)) = Len(bs) + 1
        /\ Append(bs, b)[Len(bs) + 1] = b
        /\ \A i \in 1 .. Len(bs) : Append(bs, b)[i] = bs[i]
    OBVIOUS
  <2> QED
    BY <1>2, <2>1, <2>2
<1> QED
  BY <1>1, <1>2

LEMMA RowsOfBlocks ==
  ASSUME NEW bs, NEW row
  PROVE  row \in RowsOf(bs) <=> \E i \in DOMAIN bs : row \in bs[i].rows
BY DEF RowsOf

\* Where the rows are after a block was added to bs: those of the block have its
\* stamp, the others keep theirs.
Adds(s, bs, rows, it, row) ==
  /\ \A i \in DOMAIN s : row \in s[i].rows =>
       \/ row \in rows /\ s[i].iteration = it
       \/ \E j \in DOMAIN bs : row \in bs[j].rows /\ s[i].iteration = bs[j].iteration
  /\ \A j \in DOMAIN bs : row \in bs[j].rows =>
       \E i \in DOMAIN s : row \in s[i].rows /\ s[i].iteration = bs[j].iteration
  /\ row \in rows => \E i \in DOMAIN s : row \in s[i].rows /\ s[i].iteration = it

LEMMA AddBlockRows ==
  ASSUME NEW bs \in Seq(Block), NEW b \in Block, NEW row
  PROVE  /\ Adds(AddBlock(bs, b), bs, b.rows, b.iteration, row)
         /\ row \in RowsOf(AddBlock(bs, b)) <=> row \in RowsOf(bs) \cup b.rows
<1> DEFINE s == AddBlock(bs, b)
<1>2. /\ s \in Seq(Block)
      /\ MergesInto(bs, b) =>
           /\ Len(bs) \in Nat \ {0} /\ Len(s) = Len(bs)
           /\ bs[Len(bs)].iteration = b.iteration
           /\ s[Len(bs)] = [bs[Len(bs)] EXCEPT !.rows = @ \cup b.rows]
           /\ \A i \in 1 .. Len(bs) - 1 : s[i] = bs[i]
      /\ ~MergesInto(bs, b) =>
           /\ Len(s) = Len(bs) + 1 /\ s[Len(bs) + 1] = b
           /\ \A i \in 1 .. Len(bs) : s[i] = bs[i]
  BY AddBlockFacts, Zenon
<1> HIDE DEF s
<1>3. DOMAIN s = 1 .. Len(s) /\ DOMAIN bs = 1 .. Len(bs) /\ Len(bs) \in Nat
      /\ \A i \in 1 .. Len(bs) : bs[i] \in Block
  BY <1>2
<1>4. /\ \A i \in DOMAIN s : row \in s[i].rows =>
           \/ row \in b.rows /\ s[i].iteration = b.iteration
           \/ \E j \in DOMAIN bs : row \in bs[j].rows /\ s[i].iteration = bs[j].iteration
      /\ \A j \in DOMAIN bs : row \in bs[j].rows =>
           \E i \in DOMAIN s : row \in s[i].rows /\ s[i].iteration = bs[j].iteration
      /\ row \in b.rows => \E i \in DOMAIN s : row \in s[i].rows /\ s[i].iteration = b.iteration
  <2>1. CASE MergesInto(bs, b)
    <3>1. PICK n \in Nat \ {0} : n = Len(bs)
      BY <1>2, <2>1
    <3>2. /\ DOMAIN s = 1 .. n /\ DOMAIN bs = 1 .. n /\ n \in 1 .. n
          /\ bs[n].iteration = b.iteration /\ bs[n] \in Block
          /\ s[n] = [bs[n] EXCEPT !.rows = @ \cup b.rows]
          /\ \A i \in 1 .. n : i # n => s[i] = bs[i]
      BY <1>2, <1>3, <2>1, <3>1
    <3>3. s[n].rows = bs[n].rows \cup b.rows /\ s[n].iteration = b.iteration
      BY <3>2 DEF Block
    <3>4. \A i \in 1 .. n : s[i].iteration = bs[i].iteration /\ bs[i].rows \subseteq s[i].rows
      BY <3>2, <3>3
    <3> QED
      BY <3>2, <3>3, <3>4
  <2>2. CASE ~MergesInto(bs, b)
    <3>1. PICK n \in Nat : n = Len(bs)
      BY <1>3
    <3>a. /\ n + 1 \in 1 .. n + 1 /\ \A i \in 1 .. n : i \in 1 .. n + 1
          /\ \A i \in 1 .. n + 1 : i = n + 1 \/ i \in 1 .. n
      OBVIOUS
    <3>2. /\ DOMAIN s = 1 .. n + 1 /\ DOMAIN bs = 1 .. n /\ s[n + 1] = b /\ n + 1 \in 1 .. n + 1
          /\ \A i \in 1 .. n : s[i] = bs[i] /\ i \in 1 .. n + 1
          /\ \A i \in 1 .. n + 1 : i = n + 1 \/ i \in 1 .. n
      BY <1>2, <1>3, <2>2, <3>1, <3>a
    <3> QED
      BY <3>2
  <2> QED
    BY <2>1, <2>2
<1>5. row \in RowsOf(s) <=> row \in RowsOf(bs) \cup b.rows
  BY <1>4, RowsOfBlocks
<1> QED
  BY <1>4, <1>5 DEF s, Adds

LEMMA ExtendedType ==
  ASSUME NEW bs \in Seq(Block), NEW b \in Block, NEW q
  PROVE  Extended(bs, b, q) \in Seq(Block)
<1> DEFINE rows == b.rows \cap Instances(q)
<1>1. CASE rows # {}
  <2>1. [b EXCEPT !.rows = rows] \in Block
    BY <1>1 DEF Block
  <2> QED
    BY <1>1, <2>1, AddBlockFacts DEF Extended
<1>2. CASE rows = {}
  BY <1>2 DEF Extended
<1> QED
  BY <1>1, <1>2

-----------------------------------------------------------------------------
(* The folds                                                               *)

\* What filter does to the cached table, block by block.
LEMMA RefreshedSteps ==
  ASSUME NEW q \in Queries, NEW useFilterer \in BOOLEAN,
         blocks \in Seq(Block), cache[q].blocks \in Seq(Block)
  PROVE  \E g \in [0 .. Len(blocks) -> Seq(Block)] :
           /\ g[0] = cache[q].blocks
           /\ \A k \in 1 .. Len(blocks) :
                g[k] = IF Relevant(blocks[k], q, useFilterer)
                       THEN Extended(g[k - 1], blocks[k], q) ELSE g[k - 1]
           /\ g[Len(blocks)] = Refreshed(q, useFilterer)
<1> DEFINE extend(bs, b) == IF Relevant(b, q, useFilterer) THEN Extended(bs, b, q) ELSE bs
           T == Seq(Block)
           step == [x \in T \X Block |-> extend(x[1], x[2])]
<1>1. PICK n \in Nat : n = Len(blocks)
  OBVIOUS
<1>2. blocks \in [1 .. n -> Block] /\ DOMAIN blocks = 1 .. n
  BY <1>1
<1>3. step \in [T \X Block -> T]
  <2>1. ASSUME NEW x \in T \X Block
        PROVE  extend(x[1], x[2]) \in T
    BY ExtendedType
  <2> QED
    BY <2>1
<1>4. \A bs \in T, b \in Block : step[<<bs, b>>] = extend(bs, b)
  <2> TAKE bs \in T, b \in Block
  <2>1. PICK x \in T \X Block : x = <<bs, b>>
    OBVIOUS
  <2>2. x[1] = bs /\ x[2] = b
    BY <2>1
  <2>3. step[x] = extend(x[1], x[2])
    OBVIOUS
  <2> QED
    BY <2>1, <2>2, <2>3
<1> HIDE DEF step
<1>5. PICK G \in [SUBSET (1 .. n) -> T] : Recursion(G, n, cache[q].blocks, blocks, step)
  <2>1. cache[q].blocks \in T
    OBVIOUS
  <2> HIDE DEF T
  <2> QED
    BY <1>2, <1>3, <2>1, RecursionExists
<1>7. \A s \in SUBSET (1 .. n) :
        G[s] = IF s = {} THEN cache[q].blocks ELSE extend(G[s \ {Max(s)}], blocks[Max(s)])
  <2> TAKE s \in SUBSET (1 .. n)
  <2>1. CASE s = {}
    BY <1>5, <2>1 DEF Recursion
  <2>2. CASE s # {}
    <3>1. Max(s) \in 1 .. n /\ s \ {Max(s)} \in SUBSET (1 .. n)
      BY <2>2, MaxOfSet
    <3>2. blocks[Max(s)] \in Block /\ G[s \ {Max(s)}] \in T
      BY <3>1, <1>2
    <3>3. step[<<G[s \ {Max(s)}], blocks[Max(s)]>>] = extend(G[s \ {Max(s)}], blocks[Max(s)])
      BY <1>4, <3>2
    <3> QED
      BY <1>5, <2>2, <3>3 DEF Recursion
  <2> QED
    BY <2>1, <2>2
<1> DEFINE Body(iter) == [s \in SUBSET (1 .. n) |->
                            IF s = {} THEN cache[q].blocks
                            ELSE extend(iter[s \ {Max(s)}], blocks[Max(s)])]
<1>8. G = Body(G)
  <2> HIDE DEF extend
  <2> QED
    BY <1>7
<1>9. Refreshed(q, useFilterer) = (CHOOSE iter : iter = Body(iter))[1 .. n]
  BY <1>2 DEF Refreshed, FoldLeft, MapThenFoldSet
<1>10. PICK iter : iter = Body(iter) /\ Refreshed(q, useFilterer) = iter[1 .. n]
  <2> HIDE DEF Body
  <2> QED
    BY <1>8, <1>9
<1>11. iter[1 .. 0] = cache[q].blocks
  <2>1. 1 .. 0 \in SUBSET (1 .. n) /\ 1 .. 0 = {}
    OBVIOUS
  <2> QED
    BY <1>10, <2>1
<1>12. ASSUME NEW k \in 1 .. n
       PROVE  iter[1 .. k] = extend(iter[1 .. (k - 1)], blocks[k])
  <2>1. k \in Nat \ {0} /\ 1 .. k \in SUBSET (1 .. n)
    OBVIOUS
  <2>2. Max(1 .. k) = k /\ (1 .. k) \ {k} = 1 .. (k - 1) /\ 1 .. k # {}
    BY <2>1, MaxOfUpTo
  <2>3. iter[1 .. k] = extend(iter[(1 .. k) \ {Max(1 .. k)}], blocks[Max(1 .. k)])
    <3> HIDE DEF extend
    <3> QED
      BY <1>10, <2>1, <2>2
  <2> QED
    BY <2>2, <2>3
<1> DEFINE g == [k \in 0 .. n |-> iter[1 .. k]]
<1>13. g[0] = cache[q].blocks /\ g[n] = Refreshed(q, useFilterer)
  <2>1. 0 \in 0 .. n /\ n \in 0 .. n
    OBVIOUS
  <2>2. g[0] = iter[1 .. 0] /\ g[n] = iter[1 .. n]
    BY <2>1
  <2> QED
    BY <1>10, <1>11, <2>2
<1>14. ASSUME NEW k \in 1 .. n
       PROVE  g[k] = extend(g[k - 1], blocks[k])
  <2>1. k \in 0 .. n /\ k - 1 \in 0 .. n
    OBVIOUS
  <2>2. g[k] = iter[1 .. k] /\ g[k - 1] = iter[1 .. (k - 1)]
    BY <2>1
  <2> QED
    BY <1>12, <2>2
<1>15. g \in [0 .. n -> T]
  <2> DEFINE typed == { k \in 0 .. n : g[k] \in T }
  <2>1. 0 \in typed
    BY <1>13
  <2>2. \A k \in 1 .. n : k - 1 \in typed => k \in typed
    <3> TAKE k \in 1 .. n
    <3> HAVE k - 1 \in typed
    <3>1. g[k - 1] \in T /\ blocks[k] \in Block /\ k \in 0 .. n
      BY <1>2
    <3>2. g[k] = extend(g[k - 1], blocks[k])
      BY <1>14
    <3> HIDE DEF g
    <3> QED
      BY <3>1, <3>2, ExtendedType
  <2>3. 0 .. n \subseteq typed
    <3> HIDE DEF typed
    <3> QED
      BY <2>1, <2>2, UpTo
  <2> QED
    BY <2>3
<1> QED
  <2> HIDE DEF g
  <2> QED
    BY <1>1, <1>13, <1>14, <1>15

Tables == [blocks |-> blocks, cache |-> cache]

\* What every head's consolidation keeps is kept by all of them.
LEMMA ConsolidatedInvariant ==
  ASSUME NEW n \in Nat, NEW results, DOMAIN results = 1 .. n, NEW T, Tables \in T,
         \A state \in T, pos \in 1 .. n : ConsolidateHead(state, pos, results[pos]) \in T
  PROVE  /\ Consolidated(results) \in T
         /\ n = 0 => Consolidated(results) = Tables
         /\ n = 1 => Consolidated(results) = ConsolidateHead(Tables, 1, results[1])
<1> DEFINE head(state, pos) == ConsolidateHead(state, pos, results[pos])
           seq == [i \in 1 .. n |-> i]
           step == [x \in T \X (1 .. n) |-> head(x[1], x[2])]
<1>1. seq \in [1 .. n -> 1 .. n] /\ \A i \in 1 .. n : seq[i] = i
  OBVIOUS
<1>2. step \in [T \X (1 .. n) -> T]
  <2>1. ASSUME NEW x \in T \X (1 .. n)
        PROVE  head(x[1], x[2]) \in T
    OBVIOUS
  <2> QED
    BY <2>1
<1>3. \A state \in T, pos \in 1 .. n : step[<<state, pos>>] = head(state, pos)
  <2> TAKE state \in T, pos \in 1 .. n
  <2>1. PICK x \in T \X (1 .. n) : x = <<state, pos>>
    OBVIOUS
  <2>2. x[1] = state /\ x[2] = pos
    BY <2>1
  <2>3. step[x] = head(x[1], x[2])
    OBVIOUS
  <2> QED
    BY <2>1, <2>2, <2>3
<1> HIDE DEF step, seq
<1>4. PICK G \in [SUBSET (1 .. n) -> T] : Recursion(G, n, Tables, seq, step)
  BY <1>1, <1>2, RecursionExists
<1>5. \A s \in SUBSET (1 .. n) :
        G[s] = IF s = {} THEN Tables ELSE head(G[s \ {Max(s)}], seq[Max(s)])
  <2> TAKE s \in SUBSET (1 .. n)
  <2>1. CASE s = {}
    BY <1>4, <2>1 DEF Recursion
  <2>2. CASE s # {}
    <3>1. Max(s) \in 1 .. n /\ s \ {Max(s)} \in SUBSET (1 .. n)
      BY <2>2, MaxOfSet
    <3>2. seq[Max(s)] \in 1 .. n /\ G[s \ {Max(s)}] \in T
      BY <3>1, <1>1
    <3>3. step[<<G[s \ {Max(s)}], seq[Max(s)]>>] = head(G[s \ {Max(s)}], seq[Max(s)])
      BY <1>3, <3>2
    <3> QED
      BY <1>4, <2>2, <3>3 DEF Recursion
  <2> QED
    BY <2>1, <2>2
<1> DEFINE Body(iter) == [s \in SUBSET (1 .. n) |->
                            IF s = {} THEN Tables
                            ELSE head(iter[s \ {Max(s)}], seq[Max(s)])]
<1>6. G = Body(G)
  <2> HIDE DEF head
  <2> QED
    BY <1>5
<1>7. Consolidated(results) = (CHOOSE iter : iter = Body(iter))[1 .. n]
  <2>1. DOMAIN seq = 1 .. n /\ seq = [i \in DOMAIN results |-> i]
    BY DEF seq
  <2> QED
    BY <2>1 DEF Consolidated, FoldLeftDomain, FoldLeft, MapThenFoldSet, Tables
<1>8. PICK iter : iter = Body(iter) /\ Consolidated(results) = iter[1 .. n]
  <2> HIDE DEF Body
  <2> QED
    BY <1>6, <1>7
<1>9. iter[1 .. 0] = Tables
  <2>1. 1 .. 0 \in SUBSET (1 .. n) /\ 1 .. 0 = {}
    OBVIOUS
  <2> QED
    BY <1>8, <2>1
<1>10. ASSUME NEW k \in 1 .. n
       PROVE  iter[1 .. k] = head(iter[1 .. (k - 1)], k)
  <2>1. k \in Nat \ {0} /\ 1 .. k \in SUBSET (1 .. n)
    OBVIOUS
  <2>2. Max(1 .. k) = k /\ (1 .. k) \ {k} = 1 .. (k - 1) /\ 1 .. k # {}
    BY <2>1, MaxOfUpTo
  <2>3. iter[1 .. k] = head(iter[(1 .. k) \ {Max(1 .. k)}], seq[Max(1 .. k)])
    <3> HIDE DEF head
    <3> QED
      BY <1>8, <2>1, <2>2
  <2> QED
    BY <1>1, <2>2, <2>3
<1>11. iter[1 .. n] \in T
  <2> DEFINE typed == { k \in 0 .. n : iter[1 .. k] \in T }
  <2>1. 0 \in typed
    BY <1>9
  <2>2. \A k \in 1 .. n : k - 1 \in typed => k \in typed
    BY <1>10
  <2>3. 0 .. n \subseteq typed
    <3> HIDE DEF typed
    <3> QED
      BY <2>1, <2>2, UpTo
  <2> QED
    BY <2>3
<1>12. n = 1 => iter[1 .. n] = head(Tables, 1)
  <2>1. n = 1 => iter[1 .. 1] = head(iter[1 .. 0], 1)
    BY <1>10
  <2> QED
    BY <1>9, <2>1
<1> QED
  BY <1>8, <1>9, <1>11, <1>12

-----------------------------------------------------------------------------
(* Collapsing                                                              *)

Ascends(s, S) ==
  /\ s \in [1 .. Cardinality(S) -> S]
  /\ \A i, j \in DOMAIN s : i < j => s[i] < s[j]

LEMMA AscendingExists ==
  ASSUME NEW n \in Nat, NEW S \in SUBSET (1 .. n)
  PROVE  \E s : Ascends(s, S)
<1> DEFINE solved == { k \in 0 .. n : \A R \in SUBSET (1 .. k) : \E s : Ascends(s, R) }
<1>1. 0 \in solved
  <2>1. ASSUME NEW R \in SUBSET (1 .. 0)
        PROVE  \E s : Ascends(s, R)
    <3>0. R = {}
      OBVIOUS
    <3>1. R = {} /\ Cardinality(R) = 0
      BY <3>0, FS_EmptySet
    <3>2. Ascends([i \in 1 .. 0 |-> i], R)
      BY <3>1 DEF Ascends
    <3> QED
      BY <3>2
  <2> QED
    BY <2>1
<1>2. ASSUME NEW k \in 1 .. n, k - 1 \in solved
      PROVE  k \in solved
  <2>1. ASSUME NEW R \in SUBSET (1 .. k)
        PROVE  \E s : Ascends(s, R)
    <3>1. CASE k \notin R
      <4>1. R \in SUBSET (1 .. (k - 1))
        BY <3>1
      <4> QED
        BY <1>2, <4>1
    <3>2. CASE k \in R
      <4> DEFINE Q == R \ {k}
      <4>1. Q \in SUBSET (1 .. (k - 1))
        OBVIOUS
      <4>2. PICK f : Ascends(f, Q)
        BY <1>2, <4>1
      <4>a. IsFiniteSet(1 .. k)
        BY FS_Interval
      <4>3. IsFiniteSet(1 .. k) /\ IsFiniteSet(R)
        BY <4>a, FS_Subset
      <4>4. IsFiniteSet(Q) /\ Cardinality(Q) = Cardinality(R) - 1 /\ Cardinality(R) \in Nat
        BY <3>2, <4>3, FS_RemoveElement, FS_CardinalityType
      <4>5. PICK m \in Nat : m = Cardinality(Q) /\ Cardinality(R) = m + 1
        BY <4>3, <4>4, FS_CardinalityType
      <4> DEFINE s == [i \in 1 .. m + 1 |-> IF i = m + 1 THEN k ELSE f[i]]
      <4>6. f \in [1 .. m -> Q] /\ \A i, j \in 1 .. m : i < j => f[i] < f[j]
        BY <4>2, <4>5 DEF Ascends
      <4>7. \A i \in 1 .. m + 1 : i = m + 1 \/ (i \in 1 .. m /\ i # m + 1 /\ f[i] \in Q)
        BY <4>6
      <4>8. \A i \in 1 .. m : f[i] < k
        <5>1. \A i \in 1 .. m : f[i] \in 1 .. (k - 1)
          BY <4>1, <4>6
        <5> QED
          BY <5>1
      <4>9. s \in [1 .. m + 1 -> R]
        BY <3>2, <4>7
      <4>10. ASSUME NEW i \in 1 .. m + 1, NEW j \in 1 .. m + 1, i < j
             PROVE  s[i] < s[j]
        <5>1. i \in 1 .. m /\ i # m + 1 /\ s[i] = f[i]
          BY <4>10
        <5>2. CASE j = m + 1
          BY <4>8, <5>1, <5>2
        <5>3. CASE j \in 1 .. m /\ j # m + 1
          BY <4>6, <4>10, <5>1, <5>3
        <5> QED
          BY <4>7, <5>2, <5>3
      <4>11. Ascends(s, R)
        <5> HIDE DEF s
        <5> QED
          BY <4>5, <4>9, <4>10 DEF Ascends
      <4> QED
        BY <4>11
    <3> QED
      BY <3>1, <3>2
  <2> QED
    BY <2>1
<1>3. 0 .. n \subseteq solved
  <2> HIDE DEF solved
  <2> QED
    BY <1>1, <1>2, UpTo
<1>4. n \in solved
  <2> HIDE DEF solved
  <2>1. n \in 0 .. n
    OBVIOUS
  <2> QED
    BY <1>3, <2>1
<1> QED
  BY <1>4

LEMMA AscendingFacts ==
  ASSUME NEW n \in Nat, NEW S \in SUBSET (1 .. n)
  PROVE  /\ Cardinality(S) \in Nat /\ Ascending(S) \in [1 .. Cardinality(S) -> S]
         /\ \A i, j \in 1 .. Cardinality(S) : i < j => Ascending(S)[i] < Ascending(S)[j]
         /\ \A x \in S : \E i \in 1 .. Cardinality(S) : Ascending(S)[i] = x
<1>0. IsFiniteSet(1 .. n)
  BY FS_Interval
<1>1. IsFiniteSet(1 .. n) /\ IsFiniteSet(S)
  BY <1>0, FS_Subset
<1>2. PICK m \in Nat : m = Cardinality(S)
  BY <1>1, FS_CardinalityType
<1>3. \E s \in [1 .. Cardinality(S) -> S] : \A i, j \in DOMAIN s : i < j => s[i] < s[j]
  BY AscendingExists DEF Ascends
<1>4. PICK s \in [1 .. m -> S] : s = Ascending(S) /\ \A i, j \in DOMAIN s : i < j => s[i] < s[j]
  BY <1>2, <1>3 DEF Ascending
<1>5. s \in Injection(1 .. m, S)
  <2>1. ASSUME NEW i \in 1 .. m, NEW j \in 1 .. m, s[i] = s[j]
        PROVE  i = j
    <3>1. s[i] \in 1 .. n /\ s[j] \in 1 .. n
      BY <1>4
    <3>2. ~(i < j) /\ ~(j < i)
      BY <1>4, <2>1, <3>1
    <3> QED
      BY <3>2
  <2> QED
    BY <2>1 DEF Injection, IsInjective
<1>6. Cardinality(1 .. m) = m
  BY FS_Interval
<1>7. s \in Surjection(1 .. m, S)
  BY <1>1, <1>2, <1>5, <1>6, FS_Injection
<1>8. \A x \in S : \E i \in 1 .. m : s[i] = x
  BY <1>7 DEF Surjection
<1> QED
  BY <1>2, <1>4, <1>8

\* Blocks are in the order of their stamps, and no row is in two of them.
Ordered(bs) == \A i, j \in DOMAIN bs : i < j => bs[i].iteration <= bs[j].iteration

Disjoint(bs) == \A i, j \in DOMAIN bs : i # j => bs[i].rows \cap bs[j].rows = {}

LEMMA BlockFacts ==
  ASSUME NEW bs \in Seq(Block)
  PROVE  /\ Len(bs) \in Nat /\ DOMAIN bs = 1 .. Len(bs)
         /\ \A i \in DOMAIN bs : /\ bs[i] \in Block /\ bs[i].iteration \in Nat
                                 /\ bs[i].iteration \in 1 .. MaxIteration
                                 /\ bs[i].rule \in Rules /\ bs[i].pos \in Nat \ {0}
                                 /\ bs[i].rows \subseteq Rows /\ bs[i].rows # {}
<1>1. \A i \in DOMAIN bs : bs[i] \in Block
  OBVIOUS
<1>2. \A b \in Block : /\ b.iteration \in Nat /\ b.iteration \in 1 .. MaxIteration
                       /\ b.rule \in Rules /\ b.pos \in Nat \ {0}
                       /\ b.rows \subseteq Rows /\ b.rows # {}
  BY BoundAssumption DEF Block
<1> QED
  BY <1>1, <1>2

LEMMA CollapsiblePrefix ==
  ASSUME NEW bs \in Seq(Block), Ordered(bs), NEW maxIter \in Nat
  PROVE  \E c \in 0 .. Len(bs) :
           /\ Collapsible(bs, maxIter) = 1 .. c /\ Cardinality(Collapsible(bs, maxIter)) = c
           /\ \A i \in 1 .. Len(bs) : bs[i].iteration < maxIter <=> i <= c
<1> DEFINE new == { i \in DOMAIN bs : ~(bs[i].iteration < maxIter) }
<1>1. PICK n \in Nat : n = Len(bs) /\ DOMAIN bs = 1 .. n
  BY BlockFacts
<1>2. \A i \in 1 .. n : bs[i].iteration \in Nat
  BY <1>1, BlockFacts
<1>3. PICK c \in 0 .. n : \A i \in 1 .. n : bs[i].iteration < maxIter <=> i <= c
  <2>1. CASE new = {}
    <3>1. \A i \in 1 .. n : bs[i].iteration < maxIter <=> i <= n
      BY <1>1, <2>1
    <3> QED
      BY <3>1
  <2>2. CASE new # {}
    <3>0. new \subseteq Nat
      BY <1>1
    <3>1. PICK m \in new : \A k \in new : m <= k
      <4> HIDE DEF new
      <4> QED
        BY <2>2, <3>0, LeastNumber
    <3>2. m \in 1 .. n /\ ~(bs[m].iteration < maxIter)
      BY <1>1, <3>1
    <3>3. PICK c \in 0 .. n : c = m - 1
      BY <3>2
    <3>4. ASSUME NEW i \in 1 .. n
          PROVE  bs[i].iteration < maxIter <=> i <= c
      <4>1. CASE i <= c
        <5>1. i \notin new
          BY <3>1, <3>2, <3>3, <4>1
        <5> QED
          BY <1>1, <4>1, <5>1
      <4>2. CASE ~(i <= c)
        <5>1. i = m \/ m < i
          BY <3>2, <3>3, <4>2
        <5>2. bs[m].iteration <= bs[i].iteration
          BY <1>1, <1>2, <3>2, <5>1 DEF Ordered
        <5> QED
          BY <1>2, <3>2, <4>2, <5>2
      <4> QED
        BY <4>1, <4>2
    <3> QED
      BY <3>4
  <2> QED
    BY <2>1, <2>2
<1>4. Collapsible(bs, maxIter) = 1 .. c
  BY <1>1, <1>3 DEF Collapsible
<1>5. Cardinality(1 .. c) = c
  BY FS_Interval
<1> QED
  BY <1>1, <1>3, <1>4, <1>5

\* The groups of the blocks to be collapsed.
LEMMA GroupFacts ==
  ASSUME NEW bs \in Seq(Block), NEW c \in 0 .. Len(bs), NEW i \in 1 .. c
  PROVE  /\ MergedAt(bs, 1 .. c, i) \in Block
         /\ MergedAt(bs, 1 .. c, i).iteration = bs[i].iteration
         /\ MergedAt(bs, 1 .. c, i).rule = bs[i].rule
         /\ MergedAt(bs, 1 .. c, i).pos = bs[i].pos
         /\ \A row : row \in MergedAt(bs, 1 .. c, i).rows <=>
                       \E j \in Group(bs, 1 .. c, i) : row \in bs[j].rows
         /\ i \in Group(bs, 1 .. c, i) /\ Group(bs, 1 .. c, i) \subseteq 1 .. c
         /\ \A j \in Group(bs, 1 .. c, i) :
              /\ SameSource(bs[i], bs[j])
              /\ Group(bs, 1 .. c, j) = Group(bs, 1 .. c, i)
         /\ \E r \in Receivers(bs, 1 .. c) : i \in Group(bs, 1 .. c, r)
<1>1. i \in Group(bs, 1 .. c, i) /\ Group(bs, 1 .. c, i) \subseteq 1 .. c
  BY DEF Group, SameSource
<1>2. \A j \in Group(bs, 1 .. c, i) :
        SameSource(bs[i], bs[j]) /\ Group(bs, 1 .. c, j) = Group(bs, 1 .. c, i)
  BY DEF Group, SameSource
<1>3. c \in Nat /\ 1 .. c \subseteq DOMAIN bs
  BY BlockFacts
<1> DEFINE merged == UNION { bs[j].rows : j \in Group(bs, 1 .. c, i) }
<1>4. merged \in (SUBSET Rows) \ {{}}
  <2>1. \A j \in Group(bs, 1 .. c, i) : bs[j].rows \subseteq Rows
    BY <1>1, <1>3, BlockFacts
  <2>2. bs[i].rows # {} /\ bs[i].rows \subseteq merged
    BY <1>1, <1>3, BlockFacts
  <2> QED
    BY <2>1, <2>2
<1>5. bs[i] \in Block /\ MergedAt(bs, 1 .. c, i) = [bs[i] EXCEPT !.rows = merged]
  BY <1>3, BlockFacts DEF MergedAt
<1>6. \A row : row \in merged <=> \E j \in Group(bs, 1 .. c, i) : row \in bs[j].rows
  OBVIOUS
<1> HIDE DEF merged
<1>7. /\ MergedAt(bs, 1 .. c, i) \in Block
      /\ MergedAt(bs, 1 .. c, i).iteration = bs[i].iteration
      /\ MergedAt(bs, 1 .. c, i).rule = bs[i].rule
      /\ MergedAt(bs, 1 .. c, i).pos = bs[i].pos
      /\ MergedAt(bs, 1 .. c, i).rows = merged
  BY <1>4, <1>5 DEF Block
<1>8. \E r \in Receivers(bs, 1 .. c) : i \in Group(bs, 1 .. c, r)
  <2>1. PICK r \in Group(bs, 1 .. c, i) : \A j \in Group(bs, 1 .. c, i) : j <= r
    BY <1>1, <1>3, MaxOfSet
  <2>2. r \in Receivers(bs, 1 .. c)
    BY <1>1, <1>2, <2>1 DEF Receivers
  <2> QED
    BY <1>1, <1>2, <2>1, <2>2
<1> QED
  BY <1>1, <1>2, <1>6, <1>7, <1>8

\* The sequence after a collapse: what the receivers got, then the blocks that are
\* too new.
CollapseShape(bs, maxIter, s, c, m, kept) ==
  /\ c \in 0 .. Len(bs) /\ m \in Nat /\ kept \in [1 .. m -> Receivers(bs, 1 .. c)]
  /\ \A i \in 1 .. Len(bs) : bs[i].iteration < maxIter <=> i <= c
  /\ \A i, j \in 1 .. m : i < j => kept[i] < kept[j]
  /\ \A r \in Receivers(bs, 1 .. c) : \E k \in 1 .. m : kept[k] = r
  /\ s \in Seq(Block) /\ Len(s) = m + (Len(bs) - c)
  /\ \A k \in 1 .. m : s[k] = MergedAt(bs, 1 .. c, kept[k])
  /\ \A k \in 1 .. Len(bs) - c : s[m + k] = bs[c + k]

LEMMA CollapsedShape ==
  ASSUME NEW bs \in Seq(Block), Ordered(bs), NEW maxIter \in Nat, Collapsed(bs, maxIter) # bs
  PROVE  \E c, m, kept : CollapseShape(bs, maxIter, Collapsed(bs, maxIter), c, m, kept)
<1>1. PICK c \in 0 .. Len(bs) :
        /\ Collapsible(bs, maxIter) = 1 .. c /\ Cardinality(Collapsible(bs, maxIter)) = c
        /\ \A i \in 1 .. Len(bs) : bs[i].iteration < maxIter <=> i <= c
  BY CollapsiblePrefix
<1>2. PICK n \in Nat : n = Len(bs) /\ c \in 0 .. n /\ DOMAIN bs = 1 .. n
  BY BlockFacts
<1> DEFINE R == Receivers(bs, 1 .. c)
           kept == Ascending(R)
           front == [k \in DOMAIN kept |-> MergedAt(bs, 1 .. c, kept[k])]
           back == SubSeq(bs, c + 1, n)
<1>3. Collapsed(bs, maxIter) = front \o back
  BY <1>1, <1>2 DEF Collapsed
<1>4. c \in Nat /\ R \in SUBSET (1 .. c)
  BY <1>2 DEF Receivers
<1>5. PICK m \in Nat : m = Cardinality(R)
  BY <1>4, AscendingFacts
<1>6. /\ kept \in [1 .. m -> R]
      /\ \A i, j \in 1 .. m : i < j => kept[i] < kept[j]
      /\ \A x \in R : \E i \in 1 .. m : kept[i] = x
  <2> HIDE DEF R
  <2> QED
    BY <1>4, <1>5, AscendingFacts
<1> HIDE DEF kept
<1>7. front \in Seq(Block) /\ Len(front) = m /\ \A k \in 1 .. m : front[k] = MergedAt(bs, 1 .. c, kept[k])
  <2>1. \A k \in 1 .. m : MergedAt(bs, 1 .. c, kept[k]) \in Block
    <3> TAKE k \in 1 .. m
    <3>1. kept[k] \in 1 .. c
      BY <1>4, <1>6
    <3> QED
      BY <3>1, GroupFacts
  <2>2. DOMAIN kept = 1 .. m
    BY <1>6
  <2>3. front \in [1 .. m -> Block]
    BY <2>1, <2>2
  <2>4. \A k \in 1 .. m : front[k] = MergedAt(bs, 1 .. c, kept[k])
    BY <2>2
  <2> HIDE DEF front
  <2>5. front \in Seq(Block) /\ Len(front) = m
    BY <2>3
  <2> QED
    BY <2>4, <2>5
<1>8. back \in Seq(Block) /\ Len(back) = n - c /\ \A k \in 1 .. n - c : back[k] = bs[c + k]
  <2>1. \A i \in c + 1 .. n : bs[i] \in Block
    <3>1. \A i \in c + 1 .. n : i \in 1 .. n
      BY <1>4
    <3> QED
      BY <1>2, <3>1
  <2>2. PICK a \in Nat : a = c + 1
    BY <1>4
  <2>3. /\ SubSeq(bs, a, n) \in Seq(Block)
        /\ Len(SubSeq(bs, a, n)) = IF a <= n THEN n - a + 1 ELSE 0
        /\ \A i \in 1 .. n - a + 1 : SubSeq(bs, a, n)[i] = bs[a + i - 1]
    BY <2>1, <2>2, SubSeqProperties
  <2>4. /\ n - a + 1 = n - c /\ (~(a <= n) => n - c = 0)
        /\ \A i \in 1 .. n - c : a + i - 1 = c + i
    BY <1>2, <1>4, <2>2
  <2> QED
    BY <2>2, <2>3, <2>4
<1> HIDE DEF front, back
<1>9. PICK f \in Seq(Block), g \in Seq(Block) : f = front /\ g = back
  BY <1>7, <1>8
<1>10. /\ f \o g \in Seq(Block) /\ Len(f \o g) = Len(f) + Len(g)
       /\ \A k \in 1 .. Len(f) : (f \o g)[k] = f[k]
       /\ \A k \in 1 .. Len(g) : (f \o g)[Len(f) + k] = g[k]
  <2>1. f \o g \in Seq(Block) /\ Len(f \o g) = Len(f) + Len(g)
    OBVIOUS
  <2>2. \A k \in 1 .. Len(f) : (f \o g)[k] = f[k]
    OBVIOUS
  <2>3. \A k \in 1 .. Len(g) : (f \o g)[Len(f) + k] = g[k]
    OBVIOUS
  <2> QED
    BY <2>1, <2>2, <2>3
<1>11. Len(f) = m /\ Len(g) = n - c
  BY <1>7, <1>8, <1>9
<1>12. PICK s : s = f \o g /\ s = Collapsed(bs, maxIter)
  BY <1>3, <1>9
<1>13. /\ s \in Seq(Block) /\ Len(s) = m + (n - c)
       /\ \A k \in 1 .. m : s[k] = MergedAt(bs, 1 .. c, kept[k])
       /\ \A k \in 1 .. n - c : s[m + k] = bs[c + k]
  <2>1. \A k \in 1 .. m : s[k] = f[k]
    BY <1>10, <1>11, <1>12
  <2>2. \A k \in 1 .. n - c : s[m + k] = g[k]
    BY <1>10, <1>11, <1>12
  <2>3. s \in Seq(Block) /\ Len(s) = m + (n - c)
    BY <1>10, <1>11, <1>12
  <2> QED
    BY <1>7, <1>8, <1>9, <2>1, <2>2, <2>3
<1> QED
  <2>1. kept \in [1 .. m -> Receivers(bs, 1 .. c)]
    BY <1>6
  <2>2. \A r \in Receivers(bs, 1 .. c) : \E k \in 1 .. m : kept[k] = r
    BY <1>6
  <2>3. CollapseShape(bs, maxIter, s, c, m, kept)
    BY <1>1, <1>2, <1>6, <1>13, <2>1, <2>2 DEF CollapseShape
  <2> QED
    BY <1>12, <2>3

\* What a collapse does to the rows: they stay in blocks of their rule and position, in
\* order, no older than before, and blocks not older than maxIter stay as they are.
KeepsRows(bs, s, maxIter) ==
  /\ s \in Seq(Block) /\ Ordered(s) /\ Disjoint(s)
  /\ \A j \in DOMAIN s : \E i \in DOMAIN bs :
       s[j].iteration = bs[i].iteration /\ s[j].rule = bs[i].rule /\ s[j].pos = bs[i].pos
  /\ \A j \in DOMAIN s : \A row \in s[j].rows : \E i \in DOMAIN bs :
       /\ row \in bs[i].rows /\ bs[i].iteration <= s[j].iteration
       /\ bs[i].iteration = s[j].iteration \/ s[j].iteration < maxIter
       /\ bs[i].rule = s[j].rule /\ bs[i].pos = s[j].pos
  /\ \A i \in DOMAIN bs : \A row \in bs[i].rows : \E j \in DOMAIN s :
       row \in s[j].rows /\ bs[i].iteration <= s[j].iteration

LEMMA CollapsedFacts ==
  ASSUME NEW bs \in Seq(Block), Ordered(bs), Disjoint(bs), NEW maxIter \in Nat,
         NEW s, s = Collapsed(bs, maxIter)
  PROVE  KeepsRows(bs, s, maxIter)
<1>1. CASE s = bs
  <2>1. \A i \in DOMAIN bs : bs[i].iteration <= bs[i].iteration
    BY BlockFacts
  <2> QED
    BY <1>1, <2>1 DEF KeepsRows
<1>2. CASE s # bs
  <2>1. PICK c, m, kept : CollapseShape(bs, maxIter, s, c, m, kept)
    BY <1>2, CollapsedShape
  <2>2. PICK n \in Nat : n = Len(bs) /\ DOMAIN bs = 1 .. n
    BY BlockFacts
  <2>3. /\ c \in 0 .. n /\ m \in Nat /\ s \in Seq(Block) /\ Len(s) = m + (n - c)
        /\ \A i \in 1 .. n : bs[i].iteration < maxIter <=> i <= c
    BY <2>1, <2>2 DEF CollapseShape
  <2>4. c \in Nat /\ n - c \in Nat /\ 1 .. c \subseteq 1 .. n /\ DOMAIN s = 1 .. m + (n - c)
    BY <2>3, BlockFacts
  <2>5. ASSUME NEW k \in 1 .. m
        PROVE  /\ kept[k] \in 1 .. c /\ kept[k] \in 1 .. n /\ kept[k] \in Receivers(bs, 1 .. c)
               /\ s[k].iteration = bs[kept[k]].iteration /\ s[k].rule = bs[kept[k]].rule
               /\ s[k].pos = bs[kept[k]].pos
               /\ \A row : row \in s[k].rows <=>
                    \E j \in Group(bs, 1 .. c, kept[k]) : row \in bs[j].rows
               /\ k \in DOMAIN s
    <3>1. kept[k] \in Receivers(bs, 1 .. c) /\ s[k] = MergedAt(bs, 1 .. c, kept[k])
      BY <2>1, <2>5 DEF CollapseShape
    <3>2. kept[k] \in 1 .. c
      BY <3>1 DEF Receivers
    <3>3. k \in DOMAIN s
      BY <2>3, <2>4
    <3>4. PICK i \in 1 .. c : i = kept[k]
      BY <3>2
    <3>5. /\ MergedAt(bs, 1 .. c, i).iteration = bs[i].iteration
          /\ MergedAt(bs, 1 .. c, i).rule = bs[i].rule
          /\ MergedAt(bs, 1 .. c, i).pos = bs[i].pos
          /\ \A row : row \in MergedAt(bs, 1 .. c, i).rows <=>
                        \E j \in Group(bs, 1 .. c, i) : row \in bs[j].rows
      BY <2>2, <2>3, GroupFacts
    <3> QED
      BY <2>4, <3>1, <3>3, <3>4, <3>5
  <2>6. ASSUME NEW k \in 1 .. n - c
        PROVE  /\ s[m + k] = bs[c + k] /\ c + k \in 1 .. n /\ ~(c + k <= c)
               /\ m + k \in DOMAIN s
    <3>1. s[m + k] = bs[c + k]
      BY <2>1, <2>2, <2>6 DEF CollapseShape
    <3>2. c + k \in 1 .. n /\ ~(c + k <= c) /\ m + k \in 1 .. m + (n - c)
      BY <2>3, <2>4
    <3> QED
      BY <2>4, <3>1, <3>2
  <2>7. \A j \in DOMAIN s : j \in 1 .. m \/ \E k \in 1 .. n - c : j = m + k
    <3> TAKE j \in DOMAIN s
    <3>1. j \in 1 .. m \/ j - m \in 1 .. n - c
      BY <2>3, <2>4
    <3>2. j = m + (j - m)
      BY <2>3, <2>4
    <3> QED
      BY <3>1, <3>2
  <2>8. \A j \in DOMAIN s : \E i \in DOMAIN bs :
          s[j].iteration = bs[i].iteration /\ s[j].rule = bs[i].rule /\ s[j].pos = bs[i].pos
    <3> TAKE j \in DOMAIN s
    <3>1. CASE j \in 1 .. m
      BY <2>2, <2>5, <3>1
    <3>2. CASE \E k \in 1 .. n - c : j = m + k
      BY <2>2, <2>6, <3>2
    <3> QED
      BY <2>7, <3>1, <3>2
  <2>9. \A k \in 1 .. m : \A j \in Group(bs, 1 .. c, kept[k]) :
          /\ j \in 1 .. c /\ j \in 1 .. n /\ j <= kept[k]
          /\ bs[j].iteration \in Nat /\ bs[kept[k]].iteration \in Nat
          /\ bs[j].iteration <= bs[kept[k]].iteration
          /\ bs[j].rule = bs[kept[k]].rule /\ bs[j].pos = bs[kept[k]].pos
    <3> TAKE k \in 1 .. m
    <3> TAKE j \in Group(bs, 1 .. c, kept[k])
    <3>1. kept[k] \in 1 .. c /\ kept[k] \in Receivers(bs, 1 .. c) /\ kept[k] \in 1 .. n
      BY <2>5
    <3>2. j \in 1 .. c /\ SameSource(bs[kept[k]], bs[j])
      BY <2>2, <2>3, <3>1, GroupFacts
    <3>3. j <= kept[k] /\ j \in 1 .. n
      BY <2>4, <3>1, <3>2 DEF Receivers
    <3>4. bs[j].iteration \in Nat /\ bs[kept[k]].iteration \in Nat
      BY <2>2, <3>1, <3>3, BlockFacts
    <3>5. bs[j].iteration <= bs[kept[k]].iteration
      <4>1. j = kept[k] \/ j < kept[k]
        BY <3>1, <3>2, <3>3
      <4> QED
        BY <2>2, <3>1, <3>3, <3>4, <4>1 DEF Ordered
    <3> QED
      BY <3>2, <3>3, <3>4, <3>5 DEF SameSource
  <2>10. \A j \in DOMAIN s : \A row \in s[j].rows : \E i \in DOMAIN bs :
           /\ row \in bs[i].rows /\ bs[i].iteration <= s[j].iteration
           /\ bs[i].iteration = s[j].iteration \/ s[j].iteration < maxIter
           /\ bs[i].rule = s[j].rule /\ bs[i].pos = s[j].pos
    <3> TAKE j \in DOMAIN s
    <3> TAKE row \in s[j].rows
    <3>1. CASE j \in 1 .. m
      <4>1. PICK i \in Group(bs, 1 .. c, kept[j]) : row \in bs[i].rows
        BY <2>5, <3>1
      <4>2. s[j].iteration < maxIter
        BY <2>3, <2>5, <3>1
      <4> QED
        BY <2>2, <2>5, <2>9, <3>1, <4>1, <4>2
    <3>2. CASE \E k \in 1 .. n - c : j = m + k
      <4>1. PICK k \in 1 .. n - c : j = m + k
        BY <3>2
      <4>2. s[j] = bs[c + k] /\ c + k \in 1 .. n
        BY <2>6, <4>1
      <4>3. bs[c + k].iteration \in Nat
        BY <2>2, <4>2, BlockFacts
      <4> QED
        BY <2>2, <4>2, <4>3
    <3> QED
      BY <2>7, <3>1, <3>2
  <2>11. \A i \in DOMAIN bs : \A row \in bs[i].rows : \E j \in DOMAIN s :
           row \in s[j].rows /\ bs[i].iteration <= s[j].iteration
    <3> TAKE i \in DOMAIN bs
    <3> TAKE row \in bs[i].rows
    <3>1. CASE i <= c
      <4>1. i \in 1 .. c
        BY <2>2, <2>4, <3>1
      <4>2. PICK r \in Receivers(bs, 1 .. c) : i \in Group(bs, 1 .. c, r)
        BY <2>2, <2>3, <4>1, GroupFacts
      <4>3. PICK k \in 1 .. m : kept[k] = r
        BY <2>1, <4>2 DEF CollapseShape
      <4>4. row \in s[k].rows /\ s[k].iteration = bs[kept[k]].iteration /\ k \in DOMAIN s
        BY <2>5, <4>2, <4>3
      <4> QED
        BY <2>9, <4>2, <4>3, <4>4
    <3>2. CASE ~(i <= c)
      <4>1. PICK k \in 1 .. n - c : i = c + k
        <5>1. i - c \in 1 .. n - c /\ i = c + (i - c)
          BY <2>2, <2>3, <2>4, <3>2
        <5> QED
          BY <5>1
      <4>2. s[m + k] = bs[i] /\ m + k \in DOMAIN s
        BY <2>6, <4>1
      <4>3. bs[i].iteration \in Nat
        BY BlockFacts
      <4> QED
        BY <4>2, <4>3
    <3> QED
      BY <3>1, <3>2
  <2>12. Ordered(s)
    <3>1. ASSUME NEW i \in DOMAIN s, NEW j \in DOMAIN s, i < j
          PROVE  s[i].iteration <= s[j].iteration
      <4>1. CASE i \in 1 .. m /\ j \in 1 .. m
        <5>1. kept[i] < kept[j] /\ kept[i] \in 1 .. n /\ kept[j] \in 1 .. n
          BY <2>1, <2>5, <3>1, <4>1 DEF CollapseShape
        <5>2. bs[kept[i]].iteration <= bs[kept[j]].iteration
          BY <2>2, <5>1 DEF Ordered
        <5> QED
          BY <2>5, <4>1, <5>2
      <4>2. CASE i \in 1 .. m /\ \E k \in 1 .. n - c : j = m + k
        <5>1. PICK k \in 1 .. n - c : j = m + k
          BY <4>2
        <5>2. kept[i] < c + k /\ kept[i] \in 1 .. n /\ c + k \in 1 .. n /\ s[j] = bs[c + k]
          BY <2>4, <2>5, <2>6, <4>2, <5>1
        <5>3. bs[kept[i]].iteration <= bs[c + k].iteration
          BY <2>2, <5>2 DEF Ordered
        <5> QED
          BY <2>5, <4>2, <5>2, <5>3
      <4>3. CASE (\E k \in 1 .. n - c : i = m + k) /\ (\E k \in 1 .. n - c : j = m + k)
        <5>1. PICK k \in 1 .. n - c : i = m + k
          BY <4>3
        <5>2. PICK l \in 1 .. n - c : j = m + l
          BY <4>3
        <5>3. c + k \in 1 .. n /\ c + l \in 1 .. n /\ s[i] = bs[c + k] /\ s[j] = bs[c + l]
          BY <2>6, <5>1, <5>2
        <5>4. c + k < c + l
          BY <2>3, <2>4, <3>1, <5>1, <5>2
        <5> QED
          BY <2>2, <5>3, <5>4 DEF Ordered
      <4>4. ~(j \in 1 .. m /\ \E k \in 1 .. n - c : i = m + k)
        BY <2>3, <2>4, <3>1
      <4> QED
        BY <2>7, <4>1, <4>2, <4>3, <4>4
    <3> QED
      BY <3>1 DEF Ordered
  <2>13. Disjoint(s)
    <3>1. \A j \in DOMAIN s : \A row \in s[j].rows : \E i \in 1 .. n :
            /\ row \in bs[i].rows
            /\ \/ j \in 1 .. m /\ i \in Group(bs, 1 .. c, kept[j])
               \/ \E k \in 1 .. n - c : j = m + k /\ i = c + k
      <4> TAKE j \in DOMAIN s
      <4> TAKE row \in s[j].rows
      <4>1. CASE j \in 1 .. m
        BY <2>5, <2>9, <4>1
      <4>2. CASE \E k \in 1 .. n - c : j = m + k
        BY <2>6, <4>2
      <4> QED
        BY <2>7, <4>1, <4>2
    <3>2. ASSUME NEW j \in DOMAIN s, NEW l \in DOMAIN s, NEW row \in s[j].rows, row \in s[l].rows
          PROVE  j = l
      <4>1. PICK i \in 1 .. n :
              /\ row \in bs[i].rows
              /\ \/ j \in 1 .. m /\ i \in Group(bs, 1 .. c, kept[j])
                 \/ \E k \in 1 .. n - c : j = m + k /\ i = c + k
        BY <3>1
      <4>2. PICK h \in 1 .. n :
              /\ row \in bs[h].rows
              /\ \/ l \in 1 .. m /\ h \in Group(bs, 1 .. c, kept[l])
                 \/ \E k \in 1 .. n - c : l = m + k /\ h = c + k
        BY <3>1, <3>2
      <4>3. i = h
        BY <2>2, <4>1, <4>2 DEF Disjoint
      <4>4. CASE i \in 1 .. c
        <5>1. ~\E k \in 1 .. n - c : i = c + k
          BY <2>4, <4>4
        <5>2. /\ j \in 1 .. m /\ i \in Group(bs, 1 .. c, kept[j])
              /\ l \in 1 .. m /\ i \in Group(bs, 1 .. c, kept[l])
          BY <4>1, <4>2, <4>3, <5>1
        <5>3. kept[j] \in 1 .. c /\ kept[l] \in 1 .. c
          BY <2>5, <5>2
        <5>4. Group(bs, 1 .. c, kept[j]) = Group(bs, 1 .. c, kept[l])
          BY <2>2, <2>3, <5>2, <5>3, GroupFacts
        <5>5. kept[j] \in Group(bs, 1 .. c, kept[l]) /\ kept[l] \in Group(bs, 1 .. c, kept[j])
          BY <2>2, <2>3, <5>3, <5>4, GroupFacts
        <5>6. kept[j] = kept[l]
          BY <2>9, <5>2, <5>3, <5>5
        <5>7. ~(j < l) /\ ~(l < j)
          BY <2>1, <5>2, <5>3, <5>6 DEF CollapseShape
        <5>8. j \in Int /\ l \in Int
          BY <5>2
        <5> QED
          BY <5>7, <5>8
      <4>5. CASE i \notin 1 .. c
        <5>1. ~(j \in 1 .. m /\ i \in Group(bs, 1 .. c, kept[j]))
          BY <2>9, <4>5
        <5>2. ~(l \in 1 .. m /\ i \in Group(bs, 1 .. c, kept[l]))
          BY <2>9, <4>5
        <5>3. PICK k \in 1 .. n - c : j = m + k /\ i = c + k
          BY <4>1, <5>1
        <5>4. PICK k2 \in 1 .. n - c : l = m + k2 /\ i = c + k2
          BY <4>2, <4>3, <5>2
        <5>5. k \in Int /\ k2 \in Int /\ c \in Int
          BY <2>4
        <5>6. k = k2
          BY <5>3, <5>4, <5>5
        <5> QED
          BY <5>3, <5>4, <5>6
      <4> QED
        BY <4>4, <4>5
    <3> QED
      BY <3>2 DEF Disjoint
  <2> QED
    BY <2>3, <2>8, <2>10, <2>11, <2>12, <2>13 DEF KeepsRows
<1> QED
  BY <1>1, <1>2

-----------------------------------------------------------------------------
(* The invariant, whatever the heads of the rules are                      *)

TableInv ==
  /\ Ordered(blocks) /\ Disjoint(blocks)
  /\ \A i \in DOMAIN blocks : blocks[i].iteration <= iteration
  /\ \A r \in Rules : lastExecution[r] <= iteration

BirthInv ==
  /\ \A row \in Rows : born[row] <= iteration
  /\ \A row \in RowsOf(blocks) : born[row] # 0

CacheSound ==
  \A q \in Queries : RowsOf(cache[q].blocks) \subseteq RowsOf(blocks) \cap Instances(q)

IInv == TypeOK /\ TableInv /\ BirthInv /\ CacheSound /\ StampsNotBeforeBirth

LEMMA InitIInv == Init => IInv
<1> SUFFICES ASSUME Init
             PROVE  IInv
  OBVIOUS
<1>1. blocks = << >> /\ RowsOf(blocks) = {}
  BY DEF Init, RowsOf
<1>2. MaxIteration \in Nat \ {0} /\ \A r \in Rules : Plans[r] \in Nat \ {0}
  BY BoundAssumption, LiteralAssumption
<1>3. \A q \in Queries : cache[q] = NoEntry /\ RowsOf(cache[q].blocks) = {}
                           /\ cache[q].blocks = << >> /\ cache[q].end = -1
  BY DEF Init, NoEntry, RowsOf
<1>4. TypeOK
  <2>1. cache \in [Queries -> [end : -1 .. MaxIteration, blocks : Seq(Block)]]
    <3>1. NoEntry \in [end : -1 .. MaxIteration, blocks : Seq(Block)]
      BY <1>2 DEF NoEntry
    <3> QED
      BY <3>1 DEF Init
  <2>2. plan \in 0 .. PlansNow
    BY <1>2 DEF Init, PlansNow
  <2> QED
    BY <1>1, <1>2, <2>1, <2>2 DEF Init, TypeOK
<1>5. TableInv /\ BirthInv
  BY <1>1 DEF Init, TableInv, BirthInv, Ordered, Disjoint
<1>6. CacheSound /\ StampsNotBeforeBirth
  BY <1>1, <1>3 DEF CacheSound, StampsNotBeforeBirth
<1> QED
  BY <1>4, <1>5, <1>6 DEF IInv

-----------------------------------------------------------------------------
(* Consolidation                                                           *)

LEMMA AddBlockOrdered ==
  ASSUME NEW bs \in Seq(Block), NEW b \in Block, Ordered(bs), Disjoint(bs),
         \A i \in DOMAIN bs : bs[i].iteration <= b.iteration,
         b.rows \cap RowsOf(bs) = {}
  PROVE  /\ Ordered(AddBlock(bs, b)) /\ Disjoint(AddBlock(bs, b))
         /\ \A i \in DOMAIN AddBlock(bs, b) : AddBlock(bs, b)[i].iteration <= b.iteration
<1> DEFINE s == AddBlock(bs, b)
<1>1. PICK n \in Nat : n = Len(bs) /\ DOMAIN bs = 1 .. n
  BY BlockFacts
<1>2. s \in Seq(Block)
  BY AddBlockFacts
<1>3. \A i \in 1 .. n : bs[i].iteration \in Nat /\ bs[i] \in Block
  BY <1>1, BlockFacts
<1>4. b.iteration \in Nat
  BY BoundAssumption DEF Block
<1>5. \A i \in 1 .. n : \A row \in bs[i].rows : row \notin b.rows
  BY <1>1, RowsOfBlocks
<1>6. CASE MergesInto(bs, b)
  <2>1. /\ n \in 1 .. n /\ Len(s) = n /\ bs[n].iteration = b.iteration
        /\ s[n] = [bs[n] EXCEPT !.rows = @ \cup b.rows]
        /\ \A i \in 1 .. n - 1 : s[i] = bs[i]
    BY <1>1, <1>6, AddBlockFacts
  <2>2. s[n].rows = bs[n].rows \cup b.rows /\ s[n].iteration = bs[n].iteration
    BY <1>3, <2>1 DEF Block
  <2>3. DOMAIN s = 1 .. n /\ \A i \in 1 .. n : i = n \/ (s[i] = bs[i] /\ i # n)
    BY <1>2, <2>1
  <2> HIDE DEF s
  <2>4. \A i \in 1 .. n : s[i].iteration = bs[i].iteration
    BY <2>2, <2>3
  <2>5. Ordered(s) /\ \A i \in DOMAIN s : s[i].iteration <= b.iteration
    BY <1>1, <2>3, <2>4 DEF Ordered
  <2>6. Disjoint(s)
    <3>1. ASSUME NEW i \in 1 .. n, NEW j \in 1 .. n, i # j
          PROVE  s[i].rows \cap s[j].rows = {}
      <4>1. bs[i].rows \cap bs[j].rows = {}
        BY <1>1, <3>1 DEF Disjoint
      <4>2. CASE i # n /\ j # n
        BY <2>3, <4>1, <4>2
      <4>3. CASE i = n
        BY <1>5, <2>2, <2>3, <3>1, <4>1, <4>3
      <4>4. CASE j = n
        BY <1>5, <2>2, <2>3, <3>1, <4>1, <4>4
      <4> QED
        BY <4>2, <4>3, <4>4
    <3> QED
      BY <2>3, <3>1 DEF Disjoint
  <2> QED
    BY <2>5, <2>6 DEF s
<1>7. CASE ~MergesInto(bs, b)
  <2>1. /\ Len(s) = n + 1 /\ s[n + 1] = b
        /\ \A i \in 1 .. n : s[i] = bs[i]
    BY <1>1, <1>7, AddBlockFacts
  <2>2. DOMAIN s = 1 .. n + 1 /\ \A i \in 1 .. n + 1 : i = n + 1 \/ i \in 1 .. n
    BY <1>2, <2>1
  <2> HIDE DEF s
  <2>3. Ordered(s) /\ \A i \in DOMAIN s : s[i].iteration <= b.iteration
    <3>1. \A i \in 1 .. n + 1 : s[i].iteration <= b.iteration
      BY <1>1, <1>4, <2>1, <2>2
    <3>2. ASSUME NEW i \in 1 .. n + 1, NEW j \in 1 .. n + 1, i < j
          PROVE  s[i].iteration <= s[j].iteration
      <4>1. i \in 1 .. n
        BY <3>2
      <4>2. CASE j = n + 1
        BY <2>1, <3>1, <4>2
      <4>3. CASE j \in 1 .. n
        BY <1>1, <2>1, <3>2, <4>1, <4>3 DEF Ordered
      <4> QED
        BY <2>2, <4>2, <4>3
    <3> QED
      BY <2>2, <3>1, <3>2 DEF Ordered
  <2>4. Disjoint(s)
    <3>1. ASSUME NEW i \in 1 .. n + 1, NEW j \in 1 .. n + 1, i # j
          PROVE  s[i].rows \cap s[j].rows = {}
      <4>1. CASE i \in 1 .. n /\ j \in 1 .. n
        BY <1>1, <2>1, <3>1, <4>1 DEF Disjoint
      <4>2. CASE i = n + 1
        <5>1. j \in 1 .. n
          BY <2>2, <3>1, <4>2
        <5> QED
          BY <1>5, <2>1, <4>2, <5>1
      <4>3. CASE j = n + 1
        <5>1. i \in 1 .. n
          BY <2>2, <3>1, <4>3
        <5> QED
          BY <1>5, <2>1, <4>3, <5>1
      <4> QED
        BY <2>2, <4>1, <4>2, <4>3
    <3> QED
      BY <2>2, <3>1 DEF Disjoint
  <2> QED
    BY <2>3, <2>4 DEF s
<1> QED
  BY <1>6, <1>7

Entry == [end : -1 .. MaxIteration, blocks : Seq(Block)]

\* A merge takes at most the last block off a cached table, one of its iteration.
LEMMA InvalidatedFacts ==
  ASSUME NEW c \in [Queries -> Entry], NEW it \in 1 .. MaxIteration
  PROVE  /\ Invalidated(c, it) \in [Queries -> Entry]
         /\ \A q \in Queries :
              /\ \A j \in DOMAIN Invalidated(c, it)[q].blocks :
                   j \in DOMAIN c[q].blocks /\ Invalidated(c, it)[q].blocks[j] = c[q].blocks[j]
              /\ c[q].end # it => Invalidated(c, it)[q] = c[q]
              /\ c[q].end = it =>
                   /\ Invalidated(c, it)[q].end = it - 1
                   /\ \A j \in DOMAIN c[q].blocks : c[q].blocks[j].iteration # it =>
                        /\ j \in DOMAIN Invalidated(c, it)[q].blocks
                        /\ Invalidated(c, it)[q].blocks[j] = c[q].blocks[j]
<1> DEFINE d == Invalidated(c, it)
<1>1. MaxIteration \in Nat /\ it - 1 \in -1 .. MaxIteration /\ it \in Nat
  BY BoundAssumption
<1>2. \A q \in Queries : c[q] \in Entry /\ c[q].blocks \in Seq(Block)
  BY DEF Entry
<1>3. \A q \in Queries :
        d[q] = IF c[q].end = it
               THEN [end |-> it - 1, blocks |-> RemoveBlock(c[q].blocks, it)] ELSE c[q]
  BY DEF Invalidated
<1>4. DOMAIN d = Queries /\ d = [q \in Queries |-> d[q]]
  BY DEF Invalidated
<1> HIDE DEF d
<1>5. ASSUME NEW q \in Queries
      PROVE  LET s == c[q].blocks
                 r == RemoveBlock(c[q].blocks, it)
             IN /\ r \in Seq(Block)
                /\ \A j \in DOMAIN r : j \in DOMAIN s /\ r[j] = s[j]
                /\ \A j \in DOMAIN s : s[j].iteration # it => j \in DOMAIN r /\ r[j] = s[j]
  <2> DEFINE s == c[q].blocks
             r == RemoveBlock(c[q].blocks, it)
  <2>1. s \in Seq(Block)
    BY <1>2
  <2>2. CASE s # << >> /\ Last(s).iteration = it
    <3>1. r = Front(s)
      BY <2>2 DEF RemoveBlock
    <3> HIDE DEF s
    <3>2. /\ r \in Seq(Block) /\ Len(s) \in Nat \ {0} /\ Len(r) = Len(s) - 1
          /\ \A i \in 1 .. Len(s) - 1 : r[i] = s[i]
          /\ s[Len(s)].iteration = it
      BY <2>1, <2>2, <3>1, FrontFacts
    <3>3. DOMAIN r = 1 .. Len(s) - 1 /\ DOMAIN s = 1 .. Len(s)
      BY <2>1, <3>2
    <3>4. \A j \in 1 .. Len(s) : j = Len(s) \/ j \in 1 .. Len(s) - 1
      BY <3>2
    <3>5. \A j \in 1 .. Len(s) - 1 : j \in 1 .. Len(s)
      BY <3>2
    <3> HIDE DEF r
    <3>6. /\ \A j \in DOMAIN r : j \in DOMAIN s /\ r[j] = s[j]
          /\ \A j \in DOMAIN s : s[j].iteration # it => j \in DOMAIN r /\ r[j] = s[j]
      BY <3>2, <3>3, <3>4, <3>5
    <3> QED
      BY <3>2, <3>6 DEF r, s
  <2>3. CASE ~(s # << >> /\ Last(s).iteration = it)
    <3>1. r = s
      BY <2>3 DEF RemoveBlock
    <3> QED
      BY <2>1, <3>1
  <2> QED
    BY <2>2, <2>3
<1>6. ASSUME NEW q \in Queries
      PROVE  d[q] \in Entry
  <2>0. RemoveBlock(c[q].blocks, it) \in Seq(Block)
    BY <1>5
  <2>1. CASE c[q].end = it
    <3>1. d[q] = [end |-> it - 1, blocks |-> RemoveBlock(c[q].blocks, it)]
      BY <1>3, <2>1
    <3> QED
      BY <1>1, <2>0, <3>1 DEF Entry
  <2>2. CASE c[q].end # it
    <3>1. d[q] = c[q]
      BY <1>3, <2>2
    <3> QED
      BY <1>2, <3>1
  <2> QED
    BY <2>1, <2>2
<1>7. d \in [Queries -> Entry]
  BY <1>4, <1>6
<1>8. \A q \in Queries :
        /\ c[q].end # it => d[q] = c[q]
        /\ c[q].end = it => d[q].end = it - 1 /\ d[q].blocks = RemoveBlock(c[q].blocks, it)
  <2> TAKE q \in Queries
  <2>1. CASE c[q].end = it
    <3>1. d[q] = [end |-> it - 1, blocks |-> RemoveBlock(c[q].blocks, it)]
      BY <1>3, <2>1
    <3> QED
      BY <2>1, <3>1
  <2>2. CASE c[q].end # it
    BY <1>3, <2>2
  <2> QED
    BY <2>1, <2>2
<1> QED
  BY <1>5, <1>7, <1>8 DEF d

\* What the blocks and the caches have become in the middle of a consolidation.
Evolved(bs) ==
  /\ RowsOf(blocks) \subseteq RowsOf(bs)
  /\ \A j \in DOMAIN bs : \A row \in bs[j].rows :
       /\ row \notin RowsOf(blocks) => bs[j].iteration = iteration
       /\ \A i \in DOMAIN blocks : row \in blocks[i].rows =>
            /\ blocks[i].iteration <= bs[j].iteration
            /\ blocks[i].iteration < lastExecution[rule] => bs[j].iteration < lastExecution[rule]

CacheKept(c) ==
  \A q \in Queries : \A j \in DOMAIN c[q].blocks :
    j \in DOMAIN cache[q].blocks /\ c[q].blocks[j] = cache[q].blocks[j]

Consolidating ==
  { state \in [blocks : Seq(Block), cache : [Queries -> Entry]] :
      /\ Ordered(state.blocks) /\ Disjoint(state.blocks)
      /\ \A i \in DOMAIN state.blocks : state.blocks[i].iteration <= iteration
      /\ Evolved(state.blocks) /\ CacheKept(state.cache) }

\* The blocks after the collapse, if they are many.
Compacted(bs) ==
  IF Len(bs) > CollapseAbove THEN Collapsed(bs, lastExecution[rule]) ELSE bs

\* The block that is added for a head.
NewBlock(bs, pos, rows) ==
  [iteration |-> iteration, rule |-> rule, pos |-> pos, plan |-> plan, rows |-> rows \ RowsOf(bs)]

LEMMA CompactedFacts ==
  ASSUME NEW bs \in Seq(Block), Ordered(bs), Disjoint(bs), lastExecution[rule] \in Nat
  PROVE  KeepsRows(bs, Compacted(bs), lastExecution[rule])
<1>1. \A i \in DOMAIN bs : bs[i].iteration <= bs[i].iteration
  BY BlockFacts
<1>2. KeepsRows(bs, bs, lastExecution[rule])
  BY <1>1 DEF KeepsRows
<1>3. KeepsRows(bs, Collapsed(bs, lastExecution[rule]), lastExecution[rule])
  BY CollapsedFacts
<1> QED
  BY <1>2, <1>3 DEF Compacted

LEMMA ConsolidateHeadDef ==
  ASSUME NEW state, NEW pos, NEW rows, NEW bs, bs = Compacted(state.blocks),
         NEW b, b = NewBlock(bs, pos, rows)
  PROVE  ConsolidateHead(state, pos, rows) =
           IF b.rows = {} THEN [state EXCEPT !.blocks = bs]
           ELSE [blocks |-> AddBlock(bs, b),
                 cache |-> IF MergesInto(bs, b) THEN Invalidated(state.cache, iteration)
                                                ELSE state.cache]
BY DEF ConsolidateHead, Compacted, NewBlock

LEMMA EvolvedCompacted ==
  ASSUME TypeOK, TableInv, NEW bs \in Seq(Block), NEW s, KeepsRows(bs, s, lastExecution[rule]),
         Evolved(bs), \A i \in DOMAIN bs : bs[i].iteration <= iteration
  PROVE  Evolved(s) /\ \A j \in DOMAIN s : s[j].iteration <= iteration
<1>1. PICK last \in Nat : last = lastExecution[rule] /\ last <= iteration
  BY BoundAssumption DEF TypeOK, TableInv
<1>2. iteration \in Nat
  BY BoundAssumption DEF TypeOK
<1>3. RowsOf(blocks) \subseteq RowsOf(s)
  <2>1. ASSUME NEW row \in RowsOf(blocks)
        PROVE  row \in RowsOf(s)
    <3>1. PICK i \in DOMAIN bs : row \in bs[i].rows
      BY <2>1, RowsOfBlocks DEF Evolved
    <3> QED
      BY <3>1, RowsOfBlocks DEF KeepsRows
  <2> QED
    BY <2>1
<1>4. ASSUME NEW j \in DOMAIN s, NEW row \in s[j].rows
      PROVE  /\ row \notin RowsOf(blocks) => s[j].iteration = iteration
             /\ \A i \in DOMAIN blocks : row \in blocks[i].rows =>
                  /\ blocks[i].iteration <= s[j].iteration
                  /\ blocks[i].iteration < last => s[j].iteration < last
  <2>1. PICK k \in DOMAIN bs :
          /\ row \in bs[k].rows /\ bs[k].iteration <= s[j].iteration
          /\ bs[k].iteration = s[j].iteration \/ s[j].iteration < last
    BY <1>1 DEF KeepsRows
  <2>2. bs[k].iteration \in Nat /\ s[j].iteration \in Nat
    BY BlockFacts DEF KeepsRows
  <2>3. /\ row \notin RowsOf(blocks) => bs[k].iteration = iteration
        /\ \A i \in DOMAIN blocks : row \in blocks[i].rows =>
             /\ blocks[i].iteration <= bs[k].iteration
             /\ blocks[i].iteration < last => bs[k].iteration < last
    BY <1>1, <2>1 DEF Evolved
  <2>4. row \notin RowsOf(blocks) => s[j].iteration = iteration
    BY <1>1, <1>2, <2>1, <2>2, <2>3
  <2>5. ASSUME NEW i \in DOMAIN blocks, row \in blocks[i].rows
        PROVE  /\ blocks[i].iteration <= s[j].iteration
               /\ blocks[i].iteration < last => s[j].iteration < last
    <3>1. blocks[i].iteration \in Nat
      BY BlockFacts DEF TypeOK
    <3> QED
      BY <1>1, <2>1, <2>2, <2>3, <2>5, <3>1
  <2> QED
    BY <2>4, <2>5
<1>5. \A j \in DOMAIN s : s[j].iteration <= iteration
  BY DEF KeepsRows
<1> QED
  BY <1>1, <1>3, <1>4, <1>5 DEF Evolved

\* One head's consolidation keeps the blocks in order and disjoint, and no row slips back.
LEMMA ConsolidateHeadKeeps ==
  ASSUME TypeOK, TableInv, NEW state \in Consolidating, NEW pos \in Nat \ {0},
         NEW rows \in SUBSET Rows
  PROVE  ConsolidateHead(state, pos, rows) \in Consolidating
<1> DEFINE bs == Compacted(state.blocks)
           b == NewBlock(bs, pos, rows)
<1>1. /\ state \in [blocks : Seq(Block), cache : [Queries -> Entry]]
      /\ Ordered(state.blocks) /\ Disjoint(state.blocks)
      /\ \A i \in DOMAIN state.blocks : state.blocks[i].iteration <= iteration
      /\ Evolved(state.blocks) /\ CacheKept(state.cache)
  BY DEF Consolidating
<1>2. state.blocks \in Seq(Block) /\ state.cache \in [Queries -> Entry]
  BY <1>1
<1>3. iteration \in 1 .. MaxIteration /\ rule \in Rules /\ plan \in Nat
      /\ lastExecution[rule] \in Nat
  <2>1. PlansNow \in Nat
    BY LiteralAssumption DEF TypeOK, PlansNow
  <2> QED
    BY <2>1, BoundAssumption DEF TypeOK
<1>4. KeepsRows(state.blocks, bs, lastExecution[rule])
  BY <1>1, <1>2, <1>3, CompactedFacts
<1>5. bs \in Seq(Block) /\ Ordered(bs) /\ Disjoint(bs)
  BY <1>4 DEF KeepsRows
<1>6. Evolved(bs) /\ \A j \in DOMAIN bs : bs[j].iteration <= iteration
  BY <1>1, <1>2, <1>4, EvolvedCompacted
<1>7. /\ b.iteration = iteration /\ b.rows = rows \ RowsOf(bs)
      /\ b.rows # {} => b \in Block
  BY <1>3 DEF NewBlock, Block
<1>8. ConsolidateHead(state, pos, rows) =
        IF b.rows = {} THEN [state EXCEPT !.blocks = bs]
        ELSE [blocks |-> AddBlock(bs, b),
              cache |-> IF MergesInto(bs, b) THEN Invalidated(state.cache, iteration)
                                             ELSE state.cache]
  BY ConsolidateHeadDef
<1> HIDE DEF bs, b
<1>9. CASE b.rows = {}
  <2>1. PICK x : x = [state EXCEPT !.blocks = bs]
    OBVIOUS
  <2>2. x \in [blocks : Seq(Block), cache : [Queries -> Entry]] /\ x.blocks = bs
        /\ x.cache = state.cache
    BY <1>1, <1>5, <2>1
  <2>3. x \in Consolidating
    BY <1>1, <1>5, <1>6, <2>2 DEF Consolidating
  <2> QED
    BY <1>8, <1>9, <2>1, <2>3
<1>10. CASE b.rows # {}
  <2> DEFINE s == AddBlock(bs, b)
             d == IF MergesInto(bs, b) THEN Invalidated(state.cache, iteration) ELSE state.cache
  <2>1. s \in Seq(Block)
    BY <1>5, <1>7, <1>10, AddBlockFacts
  <2>2. Ordered(s) /\ Disjoint(s) /\ \A i \in DOMAIN s : s[i].iteration <= iteration
    BY <1>5, <1>6, <1>7, <1>10, AddBlockOrdered
  <2>3. Evolved(s)
    <3>1. RowsOf(blocks) \subseteq RowsOf(s)
      <4>1. \A row \in RowsOf(bs) : row \in RowsOf(s)
        BY <1>5, <1>7, <1>10, AddBlockRows
      <4> QED
        BY <1>6, <4>1 DEF Evolved
    <3>2. ASSUME NEW j \in DOMAIN s, NEW row \in s[j].rows
          PROVE  /\ row \notin RowsOf(blocks) => s[j].iteration = iteration
                 /\ \A i \in DOMAIN blocks : row \in blocks[i].rows =>
                      /\ blocks[i].iteration <= s[j].iteration
                      /\ blocks[i].iteration < lastExecution[rule]
                           => s[j].iteration < lastExecution[rule]
      <4>1. \/ row \in b.rows /\ s[j].iteration = b.iteration
            \/ \E k \in DOMAIN bs : row \in bs[k].rows /\ s[j].iteration = bs[k].iteration
        BY <1>5, <1>7, <1>10, AddBlockRows DEF Adds
      <4>2. CASE row \in b.rows /\ s[j].iteration = b.iteration
        <5>1. row \notin RowsOf(blocks)
          BY <1>6, <1>7, <4>2 DEF Evolved
        <5> QED
          BY <1>7, <4>2, <5>1, RowsOfBlocks
      <4>3. CASE \E k \in DOMAIN bs : row \in bs[k].rows /\ s[j].iteration = bs[k].iteration
        BY <1>6, <4>3 DEF Evolved
      <4> QED
        BY <4>1, <4>2, <4>3
    <3> QED
      BY <3>1, <3>2 DEF Evolved
  <2>4. d \in [Queries -> Entry] /\ CacheKept(d)
    <3>1. CASE MergesInto(bs, b)
      <4>1. d = Invalidated(state.cache, iteration)
        BY <3>1
      <4>2. /\ Invalidated(state.cache, iteration) \in [Queries -> Entry]
            /\ \A q \in Queries : \A j \in DOMAIN Invalidated(state.cache, iteration)[q].blocks :
                 /\ j \in DOMAIN state.cache[q].blocks
                 /\ Invalidated(state.cache, iteration)[q].blocks[j] = state.cache[q].blocks[j]
        BY <1>2, <1>3, InvalidatedFacts
      <4> QED
        BY <1>1, <4>1, <4>2 DEF CacheKept
    <3>2. CASE ~MergesInto(bs, b)
      BY <1>1, <1>2, <3>2
    <3> QED
      BY <3>1, <3>2
  <2>5. ConsolidateHead(state, pos, rows) = [blocks |-> s, cache |-> d]
    BY <1>8, <1>10
  <2> HIDE DEF s, d
  <2>6. [blocks |-> s, cache |-> d] \in Consolidating
    BY <2>1, <2>2, <2>3, <2>4 DEF Consolidating
  <2> QED
    BY <2>5, <2>6
<1> QED
  BY <1>9, <1>10

LEMMA TablesConsolidating ==
  ASSUME TypeOK, TableInv
  PROVE  Tables \in Consolidating
<1>1. Tables \in [blocks : Seq(Block), cache : [Queries -> Entry]]
      /\ Tables.blocks = blocks /\ Tables.cache = cache
  BY DEF Tables, TypeOK, Entry
<1>2. Evolved(blocks)
  <2>1. ASSUME NEW j \in DOMAIN blocks, NEW row \in blocks[j].rows
        PROVE  /\ row \in RowsOf(blocks)
               /\ \A i \in DOMAIN blocks : row \in blocks[i].rows => i = j
    BY RowsOfBlocks DEF TableInv, Disjoint
  <2>2. \A i \in DOMAIN blocks : blocks[i].iteration <= blocks[i].iteration
    BY BlockFacts DEF TypeOK
  <2> QED
    BY <2>1, <2>2 DEF Evolved
<1>3. CacheKept(cache)
  BY DEF CacheKept
<1> QED
  BY <1>1, <1>2, <1>3 DEF Consolidating, TableInv

LEMMA HeadCount ==
  ASSUME TypeOK, NEW results \in [DOMAIN Heads[rule] -> SUBSET Rows]
  PROVE  \E n \in Nat : n = Len(Heads[rule]) /\ DOMAIN results = 1 .. n
                          /\ DOMAIN Heads[rule] = 1 .. n
<1>1. Heads[rule] \in Seq(Literals)
  BY LiteralAssumption DEF TypeOK
<1> QED
  BY <1>1

LEMMA ConsolidatedKeeps ==
  ASSUME TypeOK, TableInv, NEW results \in [DOMAIN Heads[rule] -> SUBSET Rows]
  PROVE  Consolidated(results) \in Consolidating
<1>1. PICK n \in Nat : DOMAIN results = 1 .. n
  BY HeadCount
<1>2. \A state \in Consolidating, pos \in 1 .. n :
        ConsolidateHead(state, pos, results[pos]) \in Consolidating
  <2> TAKE state \in Consolidating, pos \in 1 .. n
  <2>1. pos \in Nat \ {0} /\ results[pos] \in SUBSET Rows
    BY <1>1
  <2> QED
    BY <2>1, ConsolidateHeadKeeps
<1> QED
  BY <1>1, <1>2, TablesConsolidating, ConsolidatedInvariant

\* What Consolidate leaves behind.
LEMMA ConsolidateFacts ==
  ASSUME TypeOK, TableInv, Consolidate
  PROVE  /\ blocks' \in Seq(Block) /\ cache' \in [Queries -> Entry]
         /\ Ordered(blocks') /\ Disjoint(blocks')
         /\ \A i \in DOMAIN blocks' : blocks'[i].iteration <= iteration
         /\ Evolved(blocks') /\ CacheKept(cache')
<1>1. PICK results \in [DOMAIN Heads[rule] -> SUBSET Rows] :
        blocks' = Consolidated(results).blocks /\ cache' = Consolidated(results).cache
  BY DEF Consolidate
<1>2. PICK state \in Consolidating : state = Consolidated(results)
  BY ConsolidatedKeeps
<1>3. /\ state.blocks \in Seq(Block) /\ state.cache \in [Queries -> Entry]
      /\ Ordered(state.blocks) /\ Disjoint(state.blocks)
      /\ \A i \in DOMAIN state.blocks : state.blocks[i].iteration <= iteration
      /\ Evolved(state.blocks) /\ CacheKept(state.cache)
  BY DEF Consolidating
<1> QED
  BY <1>1, <1>2, <1>3

\* Cached rows are rows of the table, with stamps at which the table had them.
LEMMA ConsolidateIInv == IInv /\ Consolidate => IInv'
<1> SUFFICES ASSUME IInv, Consolidate
             PROVE  IInv'
  OBVIOUS
<1>0. TypeOK /\ TableInv /\ BirthInv /\ CacheSound /\ StampsNotBeforeBirth
  BY DEF IInv
<1>1. PICK bs \in Seq(Block), c \in [Queries -> Entry] :
        /\ bs = blocks' /\ c = cache'
        /\ Ordered(bs) /\ Disjoint(bs)
        /\ \A i \in DOMAIN bs : bs[i].iteration <= iteration
        /\ Evolved(bs) /\ CacheKept(c)
  BY <1>0, ConsolidateFacts
<1>2. /\ plan < PlansNow /\ plan' = plan + 1
      /\ iteration' = iteration /\ rule' = rule /\ lastExecution' = lastExecution
      /\ answer' = answer
  BY DEF Consolidate
<1>3. /\ iteration \in Nat /\ iteration \in 1 .. MaxIteration
      /\ born \in [Rows -> 0 .. MaxIteration] /\ \A row \in Rows : born[row] \in Nat
  BY <1>0, BoundAssumption DEF TypeOK
<1>4. PICK b \in [Rows -> 0 .. MaxIteration] :
        /\ b = born'
        /\ \A row \in Rows :
             b[row] = IF born[row] = 0 /\ row \in RowsOf(bs) THEN iteration ELSE born[row]
  <2>1. born' = [row \in Rows |-> IF born[row] = 0 /\ row \in RowsOf(bs) THEN iteration
                                                                        ELSE born[row]]
    BY <1>1 DEF Consolidate
  <2> QED
    BY <1>3, <2>1
<1>5. RowsOf(bs)' = RowsOf(bs) /\ RowsOf(blocks') = RowsOf(bs)
  BY <1>1
<1>6. \A i \in DOMAIN bs : bs[i].rows \subseteq Rows /\ bs[i].iteration \in Nat
  BY BlockFacts
<1>7. RowsOf(blocks) \subseteq RowsOf(bs) /\ RowsOf(bs) \subseteq Rows
  BY <1>1, <1>6, RowsOfBlocks DEF Evolved
<1>8. TypeOK'
  <2>1. (plan \in 0 .. PlansNow)'
    <3>1. PlansNow' = PlansNow /\ PlansNow \in Nat /\ plan \in Nat
      <4>1. PlansNow' = PlansNow
        BY <1>2 DEF PlansNow
      <4>2. PlansNow \in Nat
        BY <1>0, LiteralAssumption DEF TypeOK, PlansNow
      <4> QED
        BY <1>0, <4>1, <4>2 DEF TypeOK
    <3> QED
      BY <1>2, <3>1
  <2> QED
    BY <1>0, <1>1, <1>2, <1>4, <2>1 DEF TypeOK, Entry
<1>9. TableInv'
  BY <1>0, <1>1, <1>2 DEF TableInv, Ordered, Disjoint
<1>10. BirthInv'
  <2>1. \A row \in Rows : b[row] <= iteration
    BY <1>0, <1>3, <1>4 DEF BirthInv
  <2>2. \A row \in RowsOf(bs) : b[row] # 0
    BY <1>3, <1>4, <1>7
  <2> QED
    BY <1>2, <1>4, <1>5, <2>1, <2>2 DEF BirthInv
<1>11. \A q \in Queries : RowsOf(c[q].blocks) \subseteq RowsOf(cache[q].blocks)
  BY <1>1, RowsOfBlocks DEF CacheKept
<1>12. CacheSound'
  <2>1. \A q \in Queries : RowsOf(c[q].blocks) \subseteq RowsOf(bs) \cap Instances(q)
    BY <1>0, <1>7, <1>11 DEF CacheSound
  <2>2. \A q \in Queries : RowsOf(cache'[q].blocks) \subseteq RowsOf(blocks') \cap Instances(q)
    BY <1>1, <2>1
  <2> QED
    BY <2>2 DEF CacheSound
<1>13. \A i \in DOMAIN bs : \A row \in bs[i].rows : bs[i].iteration >= b[row]
  <2> TAKE i \in DOMAIN bs
  <2> TAKE row \in bs[i].rows
  <2>1. row \in Rows /\ row \in RowsOf(bs) /\ bs[i].iteration \in Nat
    BY <1>6, RowsOfBlocks
  <2>2. CASE row \notin RowsOf(blocks)
    <3>1. bs[i].iteration = iteration
      BY <1>1, <2>2 DEF Evolved
    <3> QED
      BY <1>0, <1>3, <1>4, <2>1, <3>1 DEF BirthInv
  <2>3. CASE row \in RowsOf(blocks)
    <3>1. PICK k \in DOMAIN blocks : row \in blocks[k].rows
      BY <2>3, RowsOfBlocks
    <3>2. blocks[k].iteration <= bs[i].iteration /\ blocks[k].iteration >= born[row]
      BY <1>0, <1>1, <3>1 DEF Evolved, StampsNotBeforeBirth
    <3>3. b[row] = born[row] /\ blocks[k].iteration \in Nat
      BY <1>0, <1>4, <2>1, <2>3, BlockFacts DEF BirthInv, TypeOK
    <3> QED
      BY <1>3, <2>1, <3>2, <3>3
  <2> QED
    BY <2>2, <2>3
<1>14. \A q \in Queries : \A i \in DOMAIN c[q].blocks :
         \A row \in c[q].blocks[i].rows : c[q].blocks[i].iteration >= b[row]
  <2> TAKE q \in Queries
  <2> TAKE i \in DOMAIN c[q].blocks
  <2> TAKE row \in c[q].blocks[i].rows
  <2>1. i \in DOMAIN cache[q].blocks /\ c[q].blocks[i] = cache[q].blocks[i]
    BY <1>1 DEF CacheKept
  <2>2. row \in RowsOf(blocks)
    BY <1>0, <2>1, RowsOfBlocks DEF CacheSound
  <2>3. b[row] = born[row]
    BY <1>0, <1>4, <1>7, <2>2 DEF BirthInv
  <2> QED
    BY <1>0, <2>1, <2>3 DEF StampsNotBeforeBirth
<1>15. StampsNotBeforeBirth'
  BY <1>1, <1>4, <1>13, <1>14 DEF StampsNotBeforeBirth
<1> QED
  BY <1>8, <1>9, <1>10, <1>12, <1>15 DEF IInv

LEMMA StartRuleIInv == ASSUME NEW r \in Rules PROVE IInv /\ StartRule(r) => IInv'
<1> SUFFICES ASSUME IInv, StartRule(r)
             PROVE  IInv'
  OBVIOUS
<1>0. TypeOK /\ TableInv /\ BirthInv /\ CacheSound /\ StampsNotBeforeBirth
  BY DEF IInv
<1>1. /\ iteration < MaxIteration /\ rule' = r /\ plan' = 0
      /\ blocks' = blocks /\ cache' = cache /\ answer' = answer /\ born' = born
      /\ iteration' \in {iteration, iteration + 1}
      /\ lastExecution' \in {lastExecution, [lastExecution EXCEPT ![rule] = iteration]}
  BY DEF StartRule
<1>2. iteration \in 1 .. MaxIteration /\ MaxIteration \in Nat /\ rule \in Rules
      /\ lastExecution \in [Rules -> 0 .. MaxIteration]
  BY <1>0, BoundAssumption DEF TypeOK
<1>3. iteration' \in 1 .. MaxIteration /\ iteration <= iteration' /\ iteration' \in Nat
  BY <1>1, <1>2
<1>4. PICK last \in [Rules -> 0 .. MaxIteration] :
        last = lastExecution' /\ \A x \in Rules : last[x] \in Nat /\ last[x] <= iteration
  BY <1>0, <1>1, <1>2 DEF TableInv
<1>5. PlansNow' \in Nat
  BY <1>1, LiteralAssumption DEF PlansNow
<1>6. TypeOK'
  BY <1>0, <1>1, <1>3, <1>4, <1>5 DEF TypeOK
<1>7. \A i \in DOMAIN blocks : blocks[i].iteration \in Nat
  BY <1>0, BlockFacts DEF TypeOK
<1>8. PICK it \in Nat : it = iteration' /\ iteration <= it /\ iteration \in Nat
  BY <1>2, <1>3
<1>9. TableInv'
  <2>1. \A i \in DOMAIN blocks : blocks[i].iteration <= it
    BY <1>0, <1>7, <1>8 DEF TableInv
  <2>2. \A x \in Rules : last[x] <= it
    BY <1>4, <1>8
  <2>3. Ordered(blocks') /\ Disjoint(blocks')
    BY <1>0, <1>1 DEF TableInv
  <2> QED
    BY <1>1, <1>4, <1>8, <2>1, <2>2, <2>3 DEF TableInv, Ordered, Disjoint
<1>10. BirthInv'
  <2>1. \A row \in Rows : born[row] <= it
    <3>1. \A row \in Rows : born[row] \in Nat
      BY <1>0, BoundAssumption DEF TypeOK
    <3> QED
      BY <1>0, <1>8, <3>1 DEF BirthInv
  <2>2. RowsOf(blocks') = RowsOf(blocks)
    BY <1>1
  <2> QED
    BY <1>0, <1>1, <1>8, <2>1, <2>2 DEF BirthInv
<1>11. CacheSound' /\ StampsNotBeforeBirth'
  <2>1. \A q \in Queries : RowsOf(cache'[q].blocks) \subseteq RowsOf(blocks') \cap Instances(q)
    BY <1>0, <1>1 DEF CacheSound
  <2> QED
    BY <1>0, <1>1, <2>1 DEF CacheSound, StampsNotBeforeBirth
<1> QED
  BY <1>6, <1>9, <1>10, <1>11 DEF IInv

-----------------------------------------------------------------------------
(* Filtered reads                                                          *)

LEMMA ExtendedRows ==
  ASSUME NEW bs \in Seq(Block), NEW b \in Block, NEW q, NEW row
  PROVE  Adds(Extended(bs, b, q), bs, b.rows \cap Instances(q), b.iteration, row)
<1> DEFINE rows == b.rows \cap Instances(q)
<1>1. CASE rows # {}
  <2>1. PICK e \in Block : e.iteration = b.iteration /\ e.rows = rows
                             /\ e = [b EXCEPT !.rows = rows]
    BY <1>1 DEF Block
  <2>2. Extended(bs, b, q) = AddBlock(bs, e)
    BY <1>1, <2>1 DEF Extended
  <2>3. Adds(AddBlock(bs, e), bs, e.rows, e.iteration, row)
    BY AddBlockRows
  <2> QED
    BY <2>1, <2>2, <2>3
<1>2. CASE rows = {}
  <2>1. Extended(bs, b, q) = bs /\ row \notin rows
    BY <1>2 DEF Extended
  <2> HIDE DEF rows
  <2>2. Adds(bs, bs, rows, b.iteration, row)
    BY <2>1 DEF Adds
  <2> QED
    BY <2>1, <2>2 DEF rows
<1> QED
  BY <1>1, <1>2

\* A cached table brought up to date has matching rows only, with stamps the table had.
LEMMA RefreshedSound ==
  ASSUME IInv, NEW q \in Queries, NEW useFilterer \in BOOLEAN
  PROVE  /\ Refreshed(q, useFilterer) \in Seq(Block)
         /\ \A j \in DOMAIN Refreshed(q, useFilterer) :
              \A row \in Refreshed(q, useFilterer)[j].rows :
                /\ row \in RowsOf(blocks) \cap Instances(q)
                /\ Refreshed(q, useFilterer)[j].iteration >= born[row]
<1>1. /\ blocks \in Seq(Block) /\ cache[q].blocks \in Seq(Block)
      /\ \A i \in DOMAIN blocks : \A row \in blocks[i].rows : blocks[i].iteration >= born[row]
      /\ \A j \in DOMAIN cache[q].blocks : \A row \in cache[q].blocks[j].rows :
           /\ row \in RowsOf(blocks) \cap Instances(q)
           /\ cache[q].blocks[j].iteration >= born[row]
  BY RowsOfBlocks DEF IInv, TypeOK, CacheSound, StampsNotBeforeBirth
<1>2. PICK n \in Nat : n = Len(blocks) /\ DOMAIN blocks = 1 .. n
  BY <1>1
<1>3. PICK g \in [0 .. n -> Seq(Block)] :
        /\ g[0] = cache[q].blocks
        /\ \A k \in 1 .. n : g[k] = IF Relevant(blocks[k], q, useFilterer)
                                    THEN Extended(g[k - 1], blocks[k], q) ELSE g[k - 1]
        /\ g[n] = Refreshed(q, useFilterer)
  BY <1>1, <1>2, RefreshedSteps
<1> DEFINE Sound(s) == \A j \in DOMAIN s : \A row \in s[j].rows :
                         row \in RowsOf(blocks) \cap Instances(q) /\ s[j].iteration >= born[row]
           sound == { k \in 0 .. n : Sound(g[k]) }
<1>4. 0 \in sound
  BY <1>1, <1>3
<1>5. ASSUME NEW k \in 1 .. n, k - 1 \in sound
      PROVE  k \in sound
  <2>1. k - 1 \in 0 .. n /\ Sound(g[k - 1]) /\ blocks[k] \in Block /\ k \in 0 .. n
    BY <1>1, <1>2, <1>5
  <2>2. PICK s \in Seq(Block) : s = g[k - 1] /\ Sound(s)
    BY <1>3, <2>1
  <2>3. ASSUME NEW j \in DOMAIN Extended(s, blocks[k], q),
               NEW row \in Extended(s, blocks[k], q)[j].rows
        PROVE  /\ row \in RowsOf(blocks) \cap Instances(q)
               /\ Extended(s, blocks[k], q)[j].iteration >= born[row]
    <3>0. PICK b \in Block : b = blocks[k]
      BY <2>1
    <3>a. Adds(Extended(s, b, q), s, b.rows \cap Instances(q), b.iteration, row)
      BY ExtendedRows
    <3>1. \/ /\ row \in blocks[k].rows \cap Instances(q)
             /\ Extended(s, blocks[k], q)[j].iteration = blocks[k].iteration
          \/ \E l \in DOMAIN s :
               row \in s[l].rows /\ Extended(s, blocks[k], q)[j].iteration = s[l].iteration
      BY <2>3, <3>0, <3>a DEF Adds
    <3>2. row \in blocks[k].rows => row \in RowsOf(blocks)
      BY <1>2, RowsOfBlocks
    <3> QED
      BY <1>1, <1>2, <2>2, <3>1, <3>2
  <2>4. Sound(g[k])
    BY <1>3, <2>2, <2>3
  <2> QED
    BY <2>1, <2>4
<1>6. n \in sound
  <2> HIDE DEF sound
  <2>1. n \in 0 .. n
    OBVIOUS
  <2> QED
    BY <1>4, <1>5, <2>1, UpTo
<1>7. g[n] \in Seq(Block)
  BY <1>3
<1> QED
  BY <1>3, <1>6, <1>7

LEMMA FilterIInv ==
  ASSUME NEW q \in Queries, NEW useFilterer \in BOOLEAN
  PROVE  IInv /\ Filter(q, useFilterer) => IInv'
<1> SUFFICES ASSUME IInv, Filter(q, useFilterer)
             PROVE  IInv'
  OBVIOUS
<1>0. TypeOK /\ TableInv /\ BirthInv /\ CacheSound /\ StampsNotBeforeBirth
  BY DEF IInv
<1>1. /\ blocks' = blocks /\ iteration' = iteration /\ rule' = rule /\ plan' = plan
      /\ lastExecution' = lastExecution /\ born' = born
  BY DEF Filter
<1>2. PICK output \in Seq(Block) :
        /\ output = Refreshed(q, useFilterer)
        /\ \A j \in DOMAIN output : \A row \in output[j].rows :
             row \in RowsOf(blocks) \cap Instances(q) /\ output[j].iteration >= born[row]
  BY RefreshedSound
<1>3. cache \in [Queries -> Entry]
  BY <1>0 DEF TypeOK, Entry
<1>4. PICK c \in [Queries -> Entry] :
        /\ c = cache'
        /\ \A p \in Queries : c[p].blocks = cache[p].blocks \/ (p = q /\ c[p].blocks = output)
  <2>1. CASE blocks = << >>
    BY <1>3, <2>1 DEF Filter
  <2>2. CASE blocks # << >>
    <3> DEFINE e == [end |-> Last(blocks).iteration, blocks |-> output]
    <3>1. cache' = [cache EXCEPT ![q] = e]
      BY <1>2, <2>2 DEF Filter
    <3>2. Last(blocks) \in Block
      BY <1>0, <2>2, FrontFacts DEF TypeOK
    <3>3. Last(blocks).iteration \in -1 .. MaxIteration
      BY <3>2, BoundAssumption DEF Block
    <3>4. e \in Entry /\ e.blocks = output
      BY <3>3 DEF Entry
    <3> HIDE DEF e
    <3> QED
      BY <1>3, <3>1, <3>4
  <2> QED
    BY <2>1, <2>2
<1>5. TypeOK'
  <2>1. (plan \in 0 .. PlansNow)'
    BY <1>0, <1>1 DEF TypeOK, PlansNow
  <2> QED
    BY <1>0, <1>1, <1>4, <2>1 DEF TypeOK, Entry
<1>6. TableInv' /\ BirthInv'
  <2>1. RowsOf(blocks') = RowsOf(blocks) /\ Ordered(blocks') /\ Disjoint(blocks')
    BY <1>0, <1>1 DEF TableInv
  <2> QED
    BY <1>0, <1>1, <2>1 DEF TableInv, BirthInv, Ordered, Disjoint
<1>7. \A p \in Queries : RowsOf(c[p].blocks) \subseteq RowsOf(blocks) \cap Instances(p)
  <2> TAKE p \in Queries
  <2>1. RowsOf(output) \subseteq RowsOf(blocks) \cap Instances(q)
    BY <1>2, RowsOfBlocks
  <2> QED
    BY <1>0, <1>4, <2>1 DEF CacheSound
<1>8. CacheSound'
  <2>1. \A p \in Queries : RowsOf(cache'[p].blocks) \subseteq RowsOf(blocks') \cap Instances(p)
    BY <1>1, <1>4, <1>7
  <2> QED
    BY <2>1 DEF CacheSound
<1>9. StampsNotBeforeBirth'
  <2>1. \A p \in Queries : \A j \in DOMAIN c[p].blocks : \A row \in c[p].blocks[j].rows :
          c[p].blocks[j].iteration >= born[row]
    BY <1>0, <1>2, <1>4 DEF StampsNotBeforeBirth
  <2> QED
    BY <1>0, <1>1, <1>4, <2>1 DEF StampsNotBeforeBirth
<1> QED
  BY <1>5, <1>6, <1>8, <1>9 DEF IInv

LEMMA StutterIInv == IInv /\ UNCHANGED vars => IInv'
<1> SUFFICES ASSUME IInv, UNCHANGED vars
             PROVE  IInv'
  OBVIOUS
<1>1. /\ blocks' = blocks /\ cache' = cache /\ iteration' = iteration /\ rule' = rule
      /\ plan' = plan /\ lastExecution' = lastExecution /\ born' = born
  BY DEF vars
<1>2. TypeOK' /\ StampsNotBeforeBirth'
  BY <1>1 DEF IInv, TypeOK, StampsNotBeforeBirth, PlansNow
<1>3. RowsOf(blocks') = RowsOf(blocks) /\ Ordered(blocks') /\ Disjoint(blocks')
  BY <1>1 DEF IInv, TableInv
<1>4. TableInv' /\ BirthInv'
  BY <1>1, <1>3 DEF IInv, TableInv, BirthInv, Ordered, Disjoint
<1>5. \A q \in Queries : RowsOf(cache'[q].blocks) \subseteq RowsOf(blocks') \cap Instances(q)
  BY <1>1 DEF IInv, CacheSound
<1>6. CacheSound'
  BY <1>5 DEF CacheSound
<1> QED
  BY <1>2, <1>4, <1>6 DEF IInv

LEMMA NextIInv == IInv /\ [Next]_vars => IInv'
<1> SUFFICES ASSUME IInv, [Next]_vars
             PROVE  IInv'
  OBVIOUS
<1>1. CASE \E r \in Rules : StartRule(r)
  BY <1>1, StartRuleIInv
<1>2. CASE Consolidate
  BY <1>2, ConsolidateIInv
<1>3. CASE \E q \in Queries, useFilterer \in BOOLEAN : Filter(q, useFilterer)
  BY <1>3, FilterIInv
<1>4. CASE UNCHANGED vars
  BY <1>4, StutterIInv
<1> QED
  BY <1>1, <1>2, <1>3, <1>4 DEF Next

LEMMA SpecIInv == Spec => []IInv
<1>1. Init => IInv
  BY InitIInv
<1>2. IInv /\ [Next]_vars => IInv'
  BY NextIInv
<1> QED
  BY <1>1, <1>2, PTL DEF Spec

\* The types of the blocks, the cached tables and the counters, for every program.
THEOREM TypeCorrect == Spec => []TypeOK
<1>1. IInv => TypeOK
  BY DEF IInv
<1> QED
  BY <1>1, SpecIInv, PTL

\* No row is seen with a stamp older than its derivation, collapsed or cached
\* (collapseBlocks, add, filter), for every program, with any heads.
THEOREM StampsNeverEarly == Spec => []StampsNotBeforeBirth
<1>1. IInv => StampsNotBeforeBirth
  BY DEF IInv
<1> QED
  BY <1>1, SpecIInv, PTL

LEMMA SeenStep ==
  ASSUME IInv, [Next]_vars, NEW i \in DOMAIN blocks, blocks[i].iteration < lastExecution[rule],
         NEW j \in DOMAIN blocks', blocks'[j].rows \cap blocks[i].rows # {}
  PROVE  blocks'[j].iteration < lastExecution[rule]
<1>1. CASE Consolidate
  <2>1. PICK bs : bs = blocks' /\ Evolved(bs)
    BY <1>1, ConsolidateFacts DEF IInv
  <2> QED
    BY <2>1 DEF Evolved
<1>2. CASE blocks' = blocks
  BY <1>2 DEF IInv, TableInv, Disjoint
<1> QED
  BY <1>1, <1>2 DEF Next, vars, StartRule, Filter

\* Collapsing on behalf of the executing rule never mixes what it has seen with what
\* it has not (collapseBlocks up to lastExecution), for every program, with any heads.
THEOREM SeenStays == Spec => SeenStaysSeen
<1>1. IInv /\ [Next]_vars =>
        [\A i \in DOMAIN blocks : blocks[i].iteration < lastExecution[rule] =>
           \A j \in DOMAIN blocks' :
             blocks'[j].rows \cap blocks[i].rows # {}
               => blocks'[j].iteration < lastExecution[rule]]_vars
  BY SeenStep
<1> QED
  BY <1>1, SpecIInv, PTL DEF Spec, SeenStaysSeen

-----------------------------------------------------------------------------
(* One head per rule: filtered reads are exact                             *)

\* No rule has two heads of the predicate, and every execution has an iteration.
OneHead == (\A r \in Rules : Len(Heads[r]) <= 1) /\ ExtEDBRules = {}

\* Blocks hold instances of their head, and the newest ones are of the rule at hand.
Headed(bs) ==
  \A i \in DOMAIN bs :
    /\ bs[i].pos = 1 /\ Len(Heads[bs[i].rule]) = 1
    /\ bs[i].rows \subseteq Instances(HeadOf(bs[i]))
    /\ bs[i].iteration = iteration => bs[i].rule = rule

\* A cached table claims no more than the table has.
Reaches(bs, c) ==
  \A q \in Queries : c[q].end = -1 \/ \E i \in DOMAIN bs : c[q].end <= bs[i].iteration

\* The matching rows it claims to cover are there, with no newer stamp.
Covers(bs, c) ==
  \A q \in Queries : \A i \in DOMAIN bs : bs[i].iteration <= c[q].end =>
    \A row \in bs[i].rows \cap Instances(q) : \E j \in DOMAIN c[q].blocks :
      /\ row \in c[q].blocks[j].rows
      /\ c[q].blocks[j].iteration <= bs[i].iteration

Exact(bs, c) == Headed(bs) /\ Reaches(bs, c) /\ Covers(bs, c)

ExactInv == Exact(blocks, cache)

\* A block whose head does not intersect the query has no matching row.
LEMMA NoSubstitution ==
  ASSUME NEW h \in Literals, NEW q \in Literals, ~SubstitutionExists(h, q), NEW row \in Rows,
         row \in Instances(h), row \in Instances(q)
  PROVE  FALSE
<1>1. /\ \A i \in 1 .. 2 : h[i] \in Consts => row[i] = h[i]
      /\ h[1] = h[2] => row[1] = row[2]
      /\ \A i \in 1 .. 2 : q[i] \in Consts => row[i] = q[i]
      /\ q[1] = q[2] => row[1] = row[2]
  BY DEF Instances
<1>2. \A i \in 1 .. 2 : h[i] \in Consts /\ q[i] \in Consts => h[i] = q[i]
  BY <1>1
<1>3. 1 \in 1 .. 2 /\ 2 \in 1 .. 2
  OBVIOUS
<1>4. h[1] = h[2] /\ q[1] \in Consts /\ q[2] \in Consts => q[1] = q[2]
  BY <1>1, <1>3
<1> QED
  BY <1>2, <1>4 DEF SubstitutionExists

LEMMA HeadLiteral ==
  ASSUME Headed(blocks), TypeOK, NEW i \in DOMAIN blocks
  PROVE  HeadOf(blocks[i]) \in Literals
<1>1. blocks[i].rule \in Rules /\ blocks[i].pos = 1 /\ Len(Heads[blocks[i].rule]) = 1
  BY BlockFacts DEF Headed, TypeOK
<1>2. PICK s \in Seq(Literals) : s = Heads[blocks[i].rule] /\ Len(s) = 1
  BY <1>1, LiteralAssumption
<1>3. s[1] \in Literals
  BY <1>2
<1> QED
  BY <1>1, <1>2, <1>3 DEF HeadOf

\* A cached table brought up to date covers the whole table.
LEMMA RefreshedComplete ==
  ASSUME IInv, ExactInv, NEW q \in Queries, NEW useFilterer \in BOOLEAN,
         NEW i \in DOMAIN blocks, NEW row \in blocks[i].rows \cap Instances(q)
  PROVE  \E j \in DOMAIN Refreshed(q, useFilterer) :
           /\ row \in Refreshed(q, useFilterer)[j].rows
           /\ Refreshed(q, useFilterer)[j].iteration <= blocks[i].iteration
<1>1. blocks \in Seq(Block) /\ cache[q].blocks \in Seq(Block) /\ cache[q].end \in Int
  BY BoundAssumption DEF IInv, TypeOK
<1>2. PICK n \in Nat : n = Len(blocks) /\ DOMAIN blocks = 1 .. n
  BY <1>1
<1>3. PICK g \in [0 .. n -> Seq(Block)] :
        /\ g[0] = cache[q].blocks
        /\ \A k \in 1 .. n : g[k] = IF Relevant(blocks[k], q, useFilterer)
                                    THEN Extended(g[k - 1], blocks[k], q) ELSE g[k - 1]
        /\ g[n] = Refreshed(q, useFilterer)
  BY <1>1, <1>2, RefreshedSteps
<1>4. i \in 1 .. n /\ blocks[i] \in Block /\ blocks[i].iteration \in Nat /\ row \in Rows
  BY <1>1, <1>2, BlockFacts
<1> DEFINE Covered(s) == \E j \in DOMAIN s :
                           row \in s[j].rows /\ s[j].iteration <= blocks[i].iteration
           covered == { k \in 0 .. n : (k >= i \/ blocks[i].iteration <= cache[q].end)
                                         => Covered(g[k]) }
<1>5. 0 \in covered
  <2>1. 0 \in 0 .. n /\ ~(0 >= i)
    BY <1>4
  <2>2. blocks[i].iteration <= cache[q].end => Covered(g[0])
    BY <1>3 DEF ExactInv, Exact, Covers
  <2> QED
    BY <2>1, <2>2
<1>6. ASSUME NEW k \in 1 .. n, k - 1 \in covered
      PROVE  k \in covered
  <2>1. k \in 0 .. n /\ k - 1 \in 0 .. n /\ blocks[k] \in Block
    BY <1>1, <1>2
  <2>2. PICK s \in Seq(Block), b \in Block : s = g[k - 1] /\ b = blocks[k]
    BY <2>1
  <2>3. Adds(Extended(s, b, q), s, b.rows \cap Instances(q), b.iteration, row)
    BY ExtendedRows
  <2>4. Covered(s) => Covered(g[k])
    <3>1. Covered(s) => Covered(Extended(s, b, q))
      BY <2>3 DEF Adds
    <3> QED
      BY <1>3, <2>2, <3>1
  <2>5. CASE k = i
    <3>1. CASE blocks[i].iteration <= cache[q].end
      BY <1>6, <2>1, <2>2, <2>4, <3>1
    <3>2. CASE ~(blocks[i].iteration <= cache[q].end)
      <4>1. SubstitutionExists(HeadOf(blocks[i]), q)
        <5>1. row \in Instances(HeadOf(blocks[i])) /\ HeadOf(blocks[i]) \in Literals
          BY HeadLiteral DEF ExactInv, Exact, Headed, IInv
        <5>2. q \in Literals /\ row \in Instances(q)
          BY LiteralAssumption
        <5> QED
          BY <1>4, <5>1, <5>2, NoSubstitution
      <4>2. Relevant(blocks[i], q, useFilterer)
        BY <1>1, <1>4, <3>2, <4>1 DEF Relevant
      <4>3. g[k] = Extended(s, b, q)
        BY <1>3, <2>2, <2>5, <4>2
      <4>4. \E j \in DOMAIN Extended(s, b, q) :
              /\ row \in Extended(s, b, q)[j].rows
              /\ Extended(s, b, q)[j].iteration = b.iteration
        BY <2>2, <2>3, <2>5 DEF Adds
      <4>5. Covered(g[k])
        BY <1>4, <2>2, <2>5, <4>3, <4>4
      <4> QED
        BY <2>1, <4>5
    <3> QED
      BY <3>1, <3>2
  <2>6. CASE k # i
    <3>1. k >= i => k - 1 >= i
      BY <1>4, <2>6
    <3> QED
      BY <1>6, <2>1, <2>2, <2>4, <3>1
  <2> QED
    BY <2>5, <2>6
<1>7. n \in covered
  <2> HIDE DEF covered
  <2>1. n \in 0 .. n
    OBVIOUS
  <2> QED
    BY <1>5, <1>6, <2>1, UpTo
<1> QED
  BY <1>3, <1>4, <1>7

\* Collapsing keeps the cached tables exact.
LEMMA CompactedExact ==
  ASSUME IInv, ExactInv, NEW s, s = Compacted(blocks)
  PROVE  s \in Seq(Block) /\ Ordered(s) /\ Exact(s, cache)
<1>1. KeepsRows(blocks, s, lastExecution[rule])
  <2>1. lastExecution[rule] \in Nat
    BY BoundAssumption DEF IInv, TypeOK
  <2> QED
    BY <2>1, CompactedFacts DEF IInv, TypeOK, TableInv
<1>2. s \in Seq(Block) /\ Ordered(s)
  BY <1>1 DEF KeepsRows
<1>3. Headed(blocks) /\ Reaches(blocks, cache) /\ Covers(blocks, cache)
  BY DEF ExactInv, Exact
<1>4. /\ \A i \in DOMAIN blocks : blocks[i].iteration \in Nat /\ blocks[i].rows # {}
      /\ \A i \in DOMAIN s : s[i].iteration \in Nat
  BY <1>2, BlockFacts DEF IInv, TypeOK
<1>5. \A q \in Queries : cache[q].end \in Int /\ cache[q].blocks \in Seq(Block)
  BY BoundAssumption DEF IInv, TypeOK
<1>6. Headed(s)
  <2>1. ASSUME NEW j \in DOMAIN s
        PROVE  /\ s[j].pos = 1 /\ Len(Heads[s[j].rule]) = 1
               /\ s[j].iteration = iteration => s[j].rule = rule
    BY <1>1, <1>3 DEF KeepsRows, Headed
  <2>2. ASSUME NEW j \in DOMAIN s, NEW row \in s[j].rows
        PROVE  row \in Instances(HeadOf(s[j]))
    <3>1. PICK i \in DOMAIN blocks :
            row \in blocks[i].rows /\ blocks[i].rule = s[j].rule /\ blocks[i].pos = s[j].pos
      BY <1>1 DEF KeepsRows
    <3>2. HeadOf(blocks[i]) = HeadOf(s[j])
      BY <3>1 DEF HeadOf
    <3> QED
      BY <1>3, <3>1, <3>2 DEF Headed
  <2> QED
    BY <2>1, <2>2 DEF Headed
<1>7. Reaches(s, cache)
  <2>1. ASSUME NEW i \in DOMAIN blocks
        PROVE  \E j \in DOMAIN s : blocks[i].iteration <= s[j].iteration
    <3>1. PICK row \in blocks[i].rows : TRUE
      BY <1>4
    <3> QED
      BY <1>1, <3>1 DEF KeepsRows
  <2>2. ASSUME NEW q \in Queries, cache[q].end # -1
        PROVE  \E j \in DOMAIN s : cache[q].end <= s[j].iteration
    <3>1. PICK i \in DOMAIN blocks : cache[q].end <= blocks[i].iteration
      BY <1>3, <2>2 DEF Reaches
    <3>2. PICK j \in DOMAIN s : blocks[i].iteration <= s[j].iteration
      BY <2>1
    <3> QED
      BY <1>4, <1>5, <3>1, <3>2
  <2> QED
    BY <2>2 DEF Reaches
<1>8. Covers(s, cache)
  <2>1. ASSUME NEW q \in Queries, NEW j \in DOMAIN s, s[j].iteration <= cache[q].end,
               NEW row \in s[j].rows \cap Instances(q)
        PROVE  \E k \in DOMAIN cache[q].blocks :
                 /\ row \in cache[q].blocks[k].rows
                 /\ cache[q].blocks[k].iteration <= s[j].iteration
    <3>1. PICK i \in DOMAIN blocks :
            row \in blocks[i].rows /\ blocks[i].iteration <= s[j].iteration
      BY <1>1 DEF KeepsRows
    <3>2. blocks[i].iteration <= cache[q].end
      BY <1>4, <1>5, <2>1, <3>1
    <3>3. PICK k \in DOMAIN cache[q].blocks :
            /\ row \in cache[q].blocks[k].rows
            /\ cache[q].blocks[k].iteration <= blocks[i].iteration
      BY <1>3, <3>1, <3>2 DEF Covers
    <3>4. cache[q].blocks[k].iteration \in Nat
      BY <1>5, BlockFacts
    <3> QED
      BY <1>4, <3>1, <3>3, <3>4
  <2> QED
    BY <2>1 DEF Covers
<1> QED
  BY <1>2, <1>6, <1>7, <1>8 DEF Exact

\* So does adding a block: a merge invalidates the cached tables it makes stale, and
\* an appended block is newer than all of them.
LEMMA AddExact ==
  ASSUME iteration \in 1 .. MaxIteration, Len(Heads[rule]) = 1,
         NEW bs \in Seq(Block), Ordered(bs), \A i \in DOMAIN bs : bs[i].iteration <= iteration,
         NEW c \in [Queries -> Entry], Exact(bs, c),
         NEW b \in Block, b.iteration = iteration, b.rule = rule, b.pos = 1,
         b.rows \subseteq Instances(HeadOf(b)),
         NEW s, s = AddBlock(bs, b),
         NEW d, d = IF MergesInto(bs, b) THEN Invalidated(c, iteration) ELSE c
  PROVE  Exact(s, d)
<1>1. PICK n \in Nat : n = Len(bs) /\ DOMAIN bs = 1 .. n
  BY BlockFacts
<1>2. /\ iteration \in Nat
      /\ \A i \in 1 .. n : bs[i].iteration \in Nat /\ bs[i] \in Block /\ bs[i].rows # {}
  BY <1>1, BoundAssumption, BlockFacts
<1>3. /\ \A q \in Queries : c[q].end \in Int /\ c[q].blocks \in Seq(Block)
      /\ \A q \in Queries : \A j \in DOMAIN c[q].blocks : c[q].blocks[j].iteration \in Nat
  BY BoundAssumption, BlockFacts DEF Entry
<1>4. s \in Seq(Block) /\ \A row : Adds(s, bs, b.rows, iteration, row)
  BY AddBlockFacts, AddBlockRows
<1>5. Headed(bs) /\ Reaches(bs, c) /\ Covers(bs, c)
  BY DEF Exact
<1>6. Headed(s)
  <2>1. CASE MergesInto(bs, b)
    <3>1. /\ n \in 1 .. n /\ Len(s) = n /\ bs[n].iteration = iteration
          /\ s[n] = [bs[n] EXCEPT !.rows = @ \cup b.rows]
          /\ \A i \in 1 .. n - 1 : s[i] = bs[i]
      BY <1>1, <2>1, AddBlockFacts
    <3>2. /\ s[n].iteration = bs[n].iteration /\ s[n].rule = bs[n].rule /\ s[n].pos = bs[n].pos
          /\ s[n].rows = bs[n].rows \cup b.rows
      BY <1>2, <3>1 DEF Block
    <3>3. bs[n].rule = rule /\ bs[n].pos = 1
      BY <1>1, <1>5, <3>1 DEF Headed
    <3>4. HeadOf(s[n]) = HeadOf(b) /\ HeadOf(bs[n]) = HeadOf(b)
      BY <3>2, <3>3 DEF HeadOf
    <3>a. \A i \in 1 .. n : i = n \/ i \in 1 .. n - 1
      OBVIOUS
    <3>b. DOMAIN s = 1 .. n
      BY <1>4, <3>1
    <3>5. DOMAIN s = 1 .. n /\ \A i \in 1 .. n : i = n \/ s[i] = bs[i]
      BY <3>1, <3>a, <3>b
    <3>6. s[n].rows \subseteq Instances(HeadOf(s[n]))
      BY <1>1, <1>5, <3>1, <3>2, <3>4 DEF Headed
    <3> QED
      BY <1>1, <1>5, <3>2, <3>3, <3>5, <3>6 DEF Headed
  <2>2. CASE ~MergesInto(bs, b)
    <3>a. ~MergesInto(bs, b) =>
            /\ Len(AddBlock(bs, b)) = Len(bs) + 1 /\ AddBlock(bs, b)[Len(bs) + 1] = b
            /\ \A i \in 1 .. Len(bs) : AddBlock(bs, b)[i] = bs[i]
      BY AddBlockFacts, Zenon
    <3>0. /\ Len(s) = Len(bs) + 1 /\ s[Len(bs) + 1] = b
          /\ \A i \in 1 .. Len(bs) : s[i] = bs[i]
      BY <2>2, <3>a
    <3>1. /\ Len(s) = n + 1 /\ s[n + 1] = b
          /\ \A i \in 1 .. n : s[i] = bs[i]
      BY <1>1, <3>0
    <3>2. DOMAIN s = 1 .. n + 1 /\ \A i \in 1 .. n + 1 : i = n + 1 \/ i \in 1 .. n
      BY <1>4, <3>1
    <3> QED
      BY <1>1, <1>5, <3>1, <3>2 DEF Headed
  <2> QED
    BY <2>1, <2>2
\* What the cached tables claim in the end is older than the new rows.
<1>7. ASSUME NEW q \in Queries
      PROVE  /\ d[q].end \in Int /\ d[q].end < iteration /\ d[q].end <= c[q].end
             /\ \A j \in DOMAIN c[q].blocks : c[q].blocks[j].iteration <= d[q].end =>
                  j \in DOMAIN d[q].blocks /\ d[q].blocks[j] = c[q].blocks[j]
  <2>1. c[q].end <= iteration
    <3>1. CASE c[q].end = -1
      BY <1>2, <3>1
    <3>2. CASE c[q].end # -1
      <4>1. PICK i \in DOMAIN bs : c[q].end <= bs[i].iteration
        BY <1>5, <3>2 DEF Reaches
      <4> QED
        BY <1>1, <1>2, <1>3, <4>1
    <3> QED
      BY <3>1, <3>2
  <2>2. CASE MergesInto(bs, b) /\ c[q].end = iteration
    <3>1. /\ d[q].end = iteration - 1
          /\ \A j \in DOMAIN c[q].blocks : c[q].blocks[j].iteration # iteration =>
               j \in DOMAIN d[q].blocks /\ d[q].blocks[j] = c[q].blocks[j]
      BY <2>2, InvalidatedFacts
    <3>2. \A j \in DOMAIN c[q].blocks :
            c[q].blocks[j].iteration <= iteration - 1 => c[q].blocks[j].iteration # iteration
      BY <1>2, <1>3
    <3>3. d[q].end \in Int /\ d[q].end < iteration /\ d[q].end <= c[q].end
      BY <1>2, <2>2, <3>1
    <3> QED
      BY <3>1, <3>2, <3>3
  <2>3. CASE MergesInto(bs, b) /\ c[q].end # iteration
    <3>1. d[q] = c[q]
      BY <2>3, InvalidatedFacts
    <3> QED
      BY <1>2, <1>3, <2>1, <2>3, <3>1
  <2>4. CASE ~MergesInto(bs, b)
    <3>1. d[q] = c[q]
      BY <2>4
    <3>2. \A i \in 1 .. n : bs[i].iteration < iteration
      <4>1. CASE n = 0
        BY <4>1
      <4>2. CASE n # 0
        <5>1. n \in 1 .. n /\ bs # << >> /\ Last(bs) = bs[n]
          BY <1>1, <4>2 DEF Last
        <5>2. bs[n].pos = 1
          BY <1>1, <1>5, <5>1 DEF Headed
        <5>3. bs[n].iteration # iteration
          BY <2>4, <5>1, <5>2 DEF MergesInto
        <5>4. bs[n].iteration < iteration
          BY <1>1, <1>2, <5>1, <5>3
        <5>5. ASSUME NEW i \in 1 .. n
              PROVE  bs[i].iteration <= bs[n].iteration
          <6>1. i = n \/ i < n
            OBVIOUS
          <6> QED
            BY <1>1, <1>2, <5>1, <6>1 DEF Ordered
        <5> QED
          BY <1>2, <5>1, <5>4, <5>5
      <4> QED
        BY <4>1, <4>2
    <3>3. c[q].end < iteration
      <4>1. CASE c[q].end = -1
        BY <1>2, <4>1
      <4>2. CASE c[q].end # -1
        <5>1. PICK i \in DOMAIN bs : c[q].end <= bs[i].iteration
          BY <1>5, <4>2 DEF Reaches
        <5> QED
          BY <1>1, <1>2, <1>3, <3>2, <5>1
      <4> QED
        BY <4>1, <4>2
    <3> QED
      BY <1>3, <3>1, <3>3
  <2> QED
    BY <2>2, <2>3, <2>4
<1>8. \A i \in DOMAIN s : s[i].iteration \in Nat
  BY <1>4, BlockFacts
<1>9. Reaches(s, d)
  <2>1. ASSUME NEW i \in 1 .. n
        PROVE  \E j \in DOMAIN s : s[j].iteration = bs[i].iteration
    <3>1. PICK row \in bs[i].rows : TRUE
      BY <1>2
    <3> QED
      BY <1>1, <1>4, <3>1 DEF Adds
  <2>2. \E j \in DOMAIN s : s[j].iteration = iteration
    <3>1. PICK row \in b.rows : TRUE
      BY DEF Block
    <3> QED
      BY <1>4, <3>1 DEF Adds
  <2>3. \A q \in Queries : \E j \in DOMAIN s : d[q].end <= s[j].iteration
    BY <1>2, <1>7, <2>2
  <2> QED
    BY <2>3 DEF Reaches
<1>10. Covers(s, d)
  <2>1. ASSUME NEW q \in Queries, NEW i \in DOMAIN s, s[i].iteration <= d[q].end,
               NEW row \in s[i].rows \cap Instances(q)
        PROVE  \E j \in DOMAIN d[q].blocks :
                 row \in d[q].blocks[j].rows /\ d[q].blocks[j].iteration <= s[i].iteration
    <3>1. s[i].iteration # iteration
      BY <1>2, <1>7, <1>8, <2>1
    <3>2. PICK k \in DOMAIN bs : row \in bs[k].rows /\ s[i].iteration = bs[k].iteration
      BY <1>4, <3>1 DEF Adds
    <3>3. bs[k].iteration <= c[q].end
      BY <1>3, <1>7, <1>8, <2>1, <3>2
    <3>4. PICK j \in DOMAIN c[q].blocks :
            row \in c[q].blocks[j].rows /\ c[q].blocks[j].iteration <= bs[k].iteration
      BY <1>5, <3>2, <3>3 DEF Covers
    <3>5. c[q].blocks[j].iteration <= d[q].end
      BY <1>3, <1>7, <1>8, <2>1, <3>2, <3>4
    <3> QED
      BY <1>7, <3>2, <3>4, <3>5
  <2> QED
    BY <2>1 DEF Covers
<1> QED
  BY <1>6, <1>9, <1>10 DEF Exact

LEMMA InitExact == Init => ExactInv
<1> SUFFICES ASSUME Init
             PROVE  ExactInv
  OBVIOUS
<1>1. blocks = << >> /\ \A q \in Queries : cache[q].end = -1
  BY DEF Init, NoEntry
<1> QED
  BY <1>1 DEF ExactInv, Exact, Headed, Reaches, Covers

LEMMA ConsolidateExact ==
  ASSUME OneHead, IInv, ExactInv, Consolidate
  PROVE  ExactInv'
<1>0. TypeOK /\ TableInv
  BY DEF IInv
<1>1. PICK results \in [DOMAIN Heads[rule] -> SUBSET Rows] :
        /\ \A pos \in DOMAIN results : results[pos] \subseteq Instances(Heads[rule][pos])
        /\ blocks' = Consolidated(results).blocks /\ cache' = Consolidated(results).cache
  BY DEF Consolidate
<1>2. PICK n \in Nat : n = Len(Heads[rule]) /\ DOMAIN results = 1 .. n
  BY <1>0, <1>1, HeadCount
<1>3. n \in {0, 1}
  <2>1. rule \in Rules
    BY <1>0 DEF TypeOK
  <2>2. n <= 1
    BY <1>2, <2>1 DEF OneHead
  <2> QED
    BY <2>2
<1>4. /\ n = 0 => Consolidated(results) = Tables
      /\ n = 1 => Consolidated(results) = ConsolidateHead(Tables, 1, results[1])
  <2>1. \A state \in Consolidating, pos \in 1 .. n :
          ConsolidateHead(state, pos, results[pos]) \in Consolidating
    <3> TAKE state \in Consolidating, pos \in 1 .. n
    <3>1. pos \in Nat \ {0} /\ results[pos] \in SUBSET Rows
      BY <1>2
    <3> QED
      BY <1>0, <3>1, ConsolidateHeadKeeps
  <2> QED
    BY <1>0, <1>2, <2>1, TablesConsolidating, ConsolidatedInvariant
<1>5. PICK s, d : s = blocks' /\ d = cache'
  OBVIOUS
<1>6. Exact(s, d)
  <2>1. CASE n = 0
    BY <1>1, <1>4, <1>5, <2>1 DEF Tables, ExactInv
  <2>2. CASE n = 1
    <3>1. PICK bs : bs = Compacted(Tables.blocks)
      OBVIOUS
    <3>2. Tables.blocks = blocks /\ Tables.cache = cache
      BY DEF Tables
    <3>3. bs \in Seq(Block) /\ Ordered(bs) /\ Exact(bs, cache)
      BY <3>1, <3>2, CompactedExact
    <3>4. PICK b : b = NewBlock(bs, 1, results[1])
      OBVIOUS
    <3>5. Consolidated(results) =
            IF b.rows = {} THEN [Tables EXCEPT !.blocks = bs]
            ELSE [blocks |-> AddBlock(bs, b),
                  cache |-> IF MergesInto(bs, b) THEN Invalidated(Tables.cache, iteration)
                                                 ELSE Tables.cache]
      BY <1>4, <2>2, <3>1, <3>4, ConsolidateHeadDef
    <3>6. CASE b.rows = {}
      <4>1. Consolidated(results).blocks = bs /\ Consolidated(results).cache = cache
        BY <3>2, <3>5, <3>6 DEF Tables
      <4> QED
        BY <1>1, <1>5, <3>3, <4>1
    <3>7. CASE b.rows # {}
      <4>1. /\ s = AddBlock(bs, b)
            /\ d = IF MergesInto(bs, b) THEN Invalidated(cache, iteration) ELSE cache
        BY <1>1, <1>5, <3>2, <3>5, <3>7
      <4>2. /\ b.iteration = iteration /\ b.rule = rule /\ b.pos = 1
            /\ b.rows \subseteq results[1]
            /\ b = [iteration |-> iteration, rule |-> rule, pos |-> 1, plan |-> plan,
                    rows |-> b.rows]
        BY <3>4 DEF NewBlock
      <4>3. 1 \in DOMAIN results /\ results[1] \in SUBSET Rows
        BY <1>2, <2>2
      <4>4. b \in Block
        <5>1. iteration \in 1 .. MaxIteration /\ rule \in Rules /\ plan \in Nat
          <6>1. PlansNow \in Nat
            BY <1>0, LiteralAssumption DEF TypeOK, PlansNow
          <6> QED
            BY <1>0, <6>1 DEF TypeOK
        <5>2. b.rows \in (SUBSET Rows) \ {{}}
          BY <3>7, <4>2, <4>3
        <5> QED
          BY <4>2, <5>1, <5>2 DEF Block
      <4>5. HeadOf(b) = Heads[rule][1] /\ b.rows \subseteq Instances(HeadOf(b))
        BY <1>1, <4>2, <4>3 DEF HeadOf
      <4>6. \A i \in DOMAIN bs : bs[i].iteration <= iteration
        <5>1. KeepsRows(blocks, bs, lastExecution[rule])
          <6>1. lastExecution[rule] \in Nat
            BY <1>0, BoundAssumption DEF TypeOK
          <6> QED
            BY <1>0, <3>1, <3>2, <6>1, CompactedFacts DEF TypeOK, TableInv
        <5> QED
          BY <1>0, <5>1 DEF KeepsRows, TableInv
      <4>7. cache \in [Queries -> Entry] /\ iteration \in 1 .. MaxIteration
            /\ Len(Heads[rule]) = 1
        BY <1>0, <1>2, <2>2 DEF TypeOK, Entry
      <4> QED
        BY <3>3, <4>1, <4>2, <4>4, <4>5, <4>6, <4>7, AddExact
    <3> QED
      BY <3>6, <3>7
  <2> QED
    BY <1>3, <2>1, <2>2
<1>7. iteration' = iteration /\ rule' = rule
  BY DEF Consolidate
<1> QED
  BY <1>5, <1>6, <1>7 DEF ExactInv, Exact, Headed, Reaches, Covers

LEMMA StartRuleExact ==
  ASSUME OneHead, IInv, ExactInv, NEW r \in Rules, StartRule(r)
  PROVE  ExactInv'
<1>1. blocks' = blocks /\ cache' = cache /\ iteration' = iteration + 1
  BY DEF StartRule, OneHead
<1>2. iteration \in Nat /\ \A i \in DOMAIN blocks : blocks[i].iteration \in Nat
                             /\ blocks[i].iteration <= iteration
  BY BlockFacts, BoundAssumption DEF IInv, TypeOK, TableInv
<1>3. \A i \in DOMAIN blocks : blocks[i].iteration # iteration'
  BY <1>1, <1>2
<1> QED
  BY <1>1, <1>3 DEF ExactInv, Exact, Headed, Reaches, Covers

LEMMA FilterExact ==
  ASSUME IInv, ExactInv, NEW q \in Queries, NEW useFilterer \in BOOLEAN,
         Filter(q, useFilterer)
  PROVE  ExactInv'
<1>1. blocks' = blocks /\ iteration' = iteration /\ rule' = rule
  BY DEF Filter
<1>2. CASE blocks = << >>
  BY <1>1, <1>2 DEF Filter, ExactInv, Exact, Headed, Reaches, Covers
<1>3. CASE blocks # << >>
  <2>1. PICK output : output = Refreshed(q, useFilterer)
    OBVIOUS
  <2>2. cache' = [cache EXCEPT ![q] = [end |-> Last(blocks).iteration, blocks |-> output]]
    BY <1>3, <2>1 DEF Filter
  <2>3. DOMAIN cache = Queries /\ blocks \in Seq(Block)
    BY DEF IInv, TypeOK
  <2>4. Last(blocks) = blocks[Len(blocks)] /\ Len(blocks) \in DOMAIN blocks
    <3>1. Len(blocks) \in Nat \ {0} /\ Last(blocks) = blocks[Len(blocks)]
      BY <1>3, <2>3, FrontFacts, Zenon
    <3>2. DOMAIN blocks = 1 .. Len(blocks)
      BY <2>3
    <3> QED
      BY <3>1, <3>2
  <2>5. /\ cache'[q].end = blocks[Len(blocks)].iteration /\ cache'[q].blocks = output
        /\ \A p \in Queries : p # q => cache'[p] = cache[p]
    BY <2>2, <2>3, <2>4
  <2>6. blocks[Len(blocks)].iteration \in Nat
    BY <2>3, <2>4, BlockFacts
  <2>7. Reaches(blocks, cache')
    BY <2>4, <2>5, <2>6 DEF ExactInv, Exact, Reaches
  <2>8. Covers(blocks, cache')
    <3>1. ASSUME NEW p \in Queries, NEW i \in DOMAIN blocks,
                 blocks[i].iteration <= cache'[p].end,
                 NEW row \in blocks[i].rows \cap Instances(p)
          PROVE  \E j \in DOMAIN cache'[p].blocks :
                   /\ row \in cache'[p].blocks[j].rows
                   /\ cache'[p].blocks[j].iteration <= blocks[i].iteration
      <4>1. CASE p = q
        <5>1. \E j \in DOMAIN output :
                row \in output[j].rows /\ output[j].iteration <= blocks[i].iteration
          BY <2>1, <3>1, <4>1, RefreshedComplete
        <5> QED
          BY <2>5, <4>1, <5>1
      <4>2. CASE p # q
        <5>1. cache'[p] = cache[p]
          BY <2>5, <4>2
        <5> QED
          BY <3>1, <5>1 DEF ExactInv, Exact, Covers
      <4> QED
        BY <4>1, <4>2
    <3> QED
      BY <3>1 DEF Covers
  <2> QED
    BY <1>1, <2>7, <2>8 DEF ExactInv, Exact, Headed, Reaches, Covers
<1> QED
  BY <1>2, <1>3

LEMMA NextExact ==
  ASSUME OneHead
  PROVE  IInv /\ ExactInv /\ [Next]_vars => ExactInv'
<1> SUFFICES ASSUME IInv, ExactInv, [Next]_vars
             PROVE  ExactInv'
  OBVIOUS
<1>1. CASE \E r \in Rules : StartRule(r)
  BY <1>1, StartRuleExact
<1>2. CASE Consolidate
  BY <1>2, ConsolidateExact
<1>3. CASE \E q \in Queries, useFilterer \in BOOLEAN : Filter(q, useFilterer)
  BY <1>3, FilterExact
<1>4. CASE UNCHANGED vars
  BY <1>4 DEF vars, ExactInv, Exact, Headed, Reaches, Covers
<1> QED
  BY <1>1, <1>2, <1>3, <1>4 DEF Next

LEMMA SpecExact ==
  ASSUME OneHead
  PROVE  Spec => [](IInv /\ ExactInv)
<1>1. Init => IInv /\ ExactInv
  BY InitIInv, InitExact
<1>2. IInv /\ ExactInv /\ [Next]_vars => (IInv /\ ExactInv)'
  BY NextIInv, NextExact
<1> QED
  BY <1>1, <1>2, PTL DEF Spec

\* With one head per rule a cached table holds every matching row of the blocks it claims
\* to cover, after any merge, append and collapse (filter, add, collapseBlocks).
THEOREM CachesComplete ==
  ASSUME OneHead
  PROVE  Spec => []CacheComplete
<1>1. ExactInv => CacheComplete
  <2> SUFFICES ASSUME ExactInv, NEW q \in Queries, NEW i \in DOMAIN blocks,
                      blocks[i].iteration <= cache[q].end,
                      NEW row \in blocks[i].rows \cap Instances(q)
               PROVE  row \in RowsOf(cache[q].blocks)
    BY DEF CacheComplete
  <2>1. \E j \in DOMAIN cache[q].blocks : row \in cache[q].blocks[j].rows
    BY DEF ExactInv, Exact, Covers
  <2> QED
    BY <2>1, RowsOfBlocks
<1> QED
  BY <1>1, SpecExact, PTL

-----------------------------------------------------------------------------
(* The table implements the set of facts                                   *)

LEMMA InitStore == Init => Store!Init
BY DEF Init, Store!Init, RowsOf

LEMMA ConsolidateInserts ==
  ASSUME IInv, Consolidate
  PROVE  Store!Next
<1>1. PICK bs \in Seq(Block) : bs = blocks' /\ RowsOf(blocks) \subseteq RowsOf(bs)
  BY ConsolidateFacts DEF IInv, Evolved
<1>2. RowsOf(bs) \in SUBSET Rows
  BY BlockFacts, RowsOfBlocks
<1>3. RowsOf(bs) = RowsOf(blocks)'
  BY <1>1
<1>4. answer' = answer
  BY DEF Consolidate
<1>5. Store!Insert(RowsOf(bs))
  BY <1>1, <1>3, <1>4 DEF Store!Insert
<1> QED
  BY <1>2, <1>5 DEF Store!Next

\* The answer to a query is what matches it in the table, whatever the cache held.
LEMMA FilterAsks ==
  ASSUME IInv, ExactInv, NEW q \in Queries, NEW useFilterer \in BOOLEAN,
         Filter(q, useFilterer)
  PROVE  Store!Next
<1>1. RowsOf(blocks)' = RowsOf(blocks)
  BY DEF Filter, RowsOf
<1>2. answer' = [query |-> q, rows |-> RowsOf(blocks) \cap Instances(q)]
  <2>1. CASE blocks = << >>
    <3>1. RowsOf(blocks) = {}
      BY <2>1 DEF RowsOf
    <3> QED
      BY <2>1, <3>1 DEF Filter
  <2>2. CASE blocks # << >>
    <3>1. PICK output : output = Refreshed(q, useFilterer)
      OBVIOUS
    <3>2. RowsOf(output) \subseteq RowsOf(blocks) \cap Instances(q)
      BY <3>1, RefreshedSound, RowsOfBlocks
    <3>3. ASSUME NEW row \in RowsOf(blocks) \cap Instances(q)
          PROVE  row \in RowsOf(output)
      <4>1. PICK i \in DOMAIN blocks : row \in blocks[i].rows
        BY RowsOfBlocks
      <4>2. \E j \in DOMAIN output : row \in output[j].rows
        BY <3>1, <4>1, RefreshedComplete
      <4> QED
        BY <4>2, RowsOfBlocks
    <3>4. RowsOf(output) = RowsOf(blocks) \cap Instances(q)
      BY <3>2, <3>3
    <3> QED
      BY <2>2, <3>1, <3>4 DEF Filter
  <2> QED
    BY <2>1, <2>2
<1>3. Store!Ask(q)
  BY <1>1, <1>2 DEF Store!Ask
<1> QED
  BY <1>3 DEF Store!Next

LEMMA NextStore ==
  ASSUME IInv, ExactInv, [Next]_vars
  PROVE  [Store!Next]_(Store!vars)
<1>1. CASE \E r \in Rules : StartRule(r)
  <2>1. blocks' = blocks /\ answer' = answer
    BY <1>1 DEF StartRule
  <2>2. RowsOf(blocks)' = RowsOf(blocks)
    BY <2>1 DEF RowsOf
  <2> QED
    BY <2>1, <2>2 DEF Store!vars
<1>2. CASE Consolidate
  BY <1>2, ConsolidateInserts
<1>3. CASE \E q \in Queries, useFilterer \in BOOLEAN : Filter(q, useFilterer)
  BY <1>3, FilterAsks
<1>4. CASE UNCHANGED vars
  <2>1. blocks' = blocks /\ answer' = answer
    BY <1>4 DEF vars
  <2>2. RowsOf(blocks)' = RowsOf(blocks)
    BY <2>1 DEF RowsOf
  <2> QED
    BY <2>1, <2>2 DEF Store!vars
<1> QED
  BY <1>1, <1>2, <1>3, <1>4 DEF Next

\* With one head per rule a table that is read filtered behaves like a plain set of
\* facts: no merge, collapse, stale entry or skipped block changes an answer.
THEOREM Refinement ==
  ASSUME OneHead
  PROVE  Spec => ImplementsFactStore
<1>1. Init => Store!Init
  BY InitStore
<1>2. IInv /\ ExactInv /\ [Next]_vars => [Store!Next]_(Store!vars)
  BY NextStore
<1> QED
  BY <1>1, <1>2, SpecExact, PTL DEF Spec, ImplementsFactStore, Store!Spec

=============================================================================
