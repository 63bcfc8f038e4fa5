---------------------------- MODULE NpTreeProofs ----------------------------
(***************************************************************************)
(* Proofs about NpTree for trees of any number of arrays, of any dtypes    *)
(* and shapes, and for any number of calls.                                *)
(***************************************************************************)
EXTENDS NpTree, FiniteSetTheorems, SequenceTheorems, WellFoundedInduction, TLAPS

-----------------------------------------------------------------------------
(* Induction and recursion, over sets and functions *)

\* A set of natural numbers has a least one: the intervals up to its members
\* are finite, and strict inclusion is well-founded on finite sets.
LEMMA LeastNumber ==
    ASSUME NEW T \in SUBSET Nat, T # {}
    PROVE  \E x \in T : \A y \in T : x <= y
<1> DEFINE Below == {1..n : n \in T}
           R == StrictSubsetOrdering(Nat)
<1>1. Below \subseteq FiniteSubsetsOf(Nat) /\ Below # {}
  <2>1. \A n \in T : IsFiniteSet(1..n) /\ 1..n \in SUBSET Nat
    BY FS_Interval
  <2> QED
    BY <2>1 DEF FiniteSubsetsOf
<1>2. PICK x \in Below : \A y \in Below : ~(<<y, x>> \in R)
  <2> HIDE DEF Below, R
  <2> QED
    BY <1>1, FS_StrictSubsetOrderingWellFounded, WFMin DEF R
<1>3. PICK n \in T : x = 1..n
  OBVIOUS
<1>4. ASSUME NEW m \in T, m < n PROVE FALSE
  <2>1. 1..m \subseteq 1..n /\ n \in 1..n /\ n \notin 1..m
    BY <1>4
  <2>2. <<1..m, 1..n>> \in R
    BY <2>1 DEF StrictSubsetOrdering
  <2> QED
    BY <1>2, <1>3, <2>2
<1> QED
  BY <1>4

\* What holds at `lo' and is handed on from each number to the next holds from
\* `lo' to n.
LEMMA CountUp ==
    ASSUME NEW lo \in Nat, NEW n \in Nat, NEW S, lo \in S,
           \A i \in lo+1..n : i - 1 \in S => i \in S
    PROVE  \A i \in lo..n : i \in S
<1> DEFINE T == {i \in lo..n : i \notin S}
<1> SUFFICES ASSUME T # {} PROVE FALSE
  OBVIOUS
<1>1. T \in SUBSET Nat
  OBVIOUS
<1>2. PICK x \in T : \A y \in T : x <= y
  <2> HIDE DEF T
  <2> QED
    BY <1>1, LeastNumber
<1>3. x \in lo+1..n /\ x - 1 \in lo..n
  OBVIOUS
<1>4. x - 1 \in S
  BY <1>2, <1>3
<1> QED
  BY <1>3, <1>4

\* The steps of a recursion on the numbers from `lo' to n, with values in V.
Steps(lo, n, V) == [lo..n -> [V -> V]]

\* There is a function that takes value a at `lo' and goes on from each value
\* to the next by F.
HasSolution(lo, n, V, a, F) ==
    \E f \in [lo..n -> V] : f[lo] = a /\ \A i \in lo+1..n : f[i] = F[i][f[i - 1]]

\* There always is one.
LEMMA Recursion ==
    ASSUME NEW lo \in Nat, NEW n \in Nat, lo <= n, NEW V, NEW a \in V,
           NEW F \in Steps(lo, n, V)
    PROVE  HasSolution(lo, n, V, a, F)
<1> DEFINE Good(m, f) == f[lo] = a /\ \A i \in lo+1..m : f[i] = F[i][f[i - 1]]
           S == {m \in lo..n : \E f \in [lo..m -> V] : Good(m, f)}
<1>1. lo \in S
  <2> DEFINE f == [i \in lo..lo |-> a]
  <2>1. f \in [lo..lo -> V] /\ Good(lo, f) /\ lo \in lo..n
    OBVIOUS
  <2> HIDE DEF f
  <2> QED
    BY <2>1
<1>2. ASSUME NEW m \in lo+1..n, m - 1 \in S PROVE m \in S
  <2>1. PICK g \in [lo..m-1 -> V] : Good(m - 1, g)
    BY <1>2
  <2>2. m \in lo..n /\ m - 1 \in lo..m-1 /\ lo \in lo..m-1 /\ m # lo
    BY <1>2
  <2>3. F[m][g[m - 1]] \in V
    BY <2>2 DEF Steps
  <2> DEFINE f == [i \in lo..m |-> IF i = m THEN F[m][g[m - 1]] ELSE g[i]]
  <2>4. \A i \in lo..m : i # m => i \in lo..m-1
    OBVIOUS
  <2>5. f \in [lo..m -> V]
    BY <2>3, <2>4
  <2>6. f[lo] = a
    BY <2>1, <2>2
  <2>7. ASSUME NEW i \in lo+1..m PROVE f[i] = F[i][f[i - 1]]
    <3>1. CASE i = m
      BY <2>2, <3>1
    <3>2. CASE i # m
      <4>1. i \in lo..m /\ i \in lo+1..m-1 /\ i - 1 \in lo..m /\ i - 1 # m
        BY <3>2
      <4>2. f[i] = g[i] /\ f[i - 1] = g[i - 1]
        BY <3>2, <4>1
      <4> QED
        BY <2>1, <4>1, <4>2
    <3> QED
      BY <3>1, <3>2
  <2> HIDE DEF f
  <2> QED
    BY <2>2, <2>5, <2>6, <2>7
<1> HIDE DEF S
<1>3. \A m \in lo..n : m \in S
  BY <1>1, <1>2, CountUp
<1>4. n \in S
  BY <1>3
<1> QED
  BY <1>4 DEF S, HasSolution

-----------------------------------------------------------------------------
(* Sizes and offsets *)

\* The number of elements of an array.
LEMMA ProductsNat ==
    ASSUME NEW shape \in Seq(Nat)
    PROVE  Products(shape) \in [0..Len(shape) -> Nat]
<1> DEFINE n == Len(shape)
           F == [i \in 0..n |-> [v \in Nat |-> IF i = 0 THEN 1 ELSE shape[i] * v]]
           p == Products(shape)
<1>1. n \in Nat /\ \A i \in 0..n : i # 0 => shape[i] \in Nat /\ i - 1 \in 0..n
  OBVIOUS
<1>2. F \in [0..n -> [Nat -> Nat]]
  <2>1. \A i \in 0..n, v \in Nat : (IF i = 0 THEN 1 ELSE shape[i] * v) \in Nat
    BY <1>1
  <2> QED
    BY <2>1
<1> HIDE DEF n
<1>3. PICK f \in [0..n -> Nat] : f[0] = 1 /\ \A i \in 0+1..n : f[i] = F[i][f[i - 1]]
  <2>1. 0 \in Nat /\ 1 \in Nat /\ 0 <= n
    BY <1>1
  <2>2. F \in Steps(0, n, Nat)
    BY <1>2 DEF Steps
  <2> HIDE DEF F
  <2>3. HasSolution(0, n, Nat, 1, F)
    BY <1>1, <2>1, <2>2, Recursion, Zenon
  <2> QED
    BY <2>3 DEF HasSolution
<1>4. \A i \in 0..n : f[i] = IF i = 0 THEN 1 ELSE shape[i] * f[i - 1]
  <2> SUFFICES ASSUME NEW i \in 0..n, i # 0 PROVE f[i] = shape[i] * f[i - 1]
    BY <1>3
  <2>1. i \in 0+1..n /\ i - 1 \in 0..n
    BY <1>1
  <2> QED
    BY <1>3, <2>1
<1>5. f = [i \in 0..n |-> IF i = 0 THEN 1 ELSE shape[i] * f[i - 1]]
  BY <1>3, <1>4
<1>6. p = [i \in 0..n |-> IF i = 0 THEN 1 ELSE shape[i] * p[i - 1]]
  <2>1. p = CHOOSE g : g = [i \in 0..n |-> IF i = 0 THEN 1 ELSE shape[i] * g[i - 1]]
    BY DEF Products, n
  <2> QED
    BY <1>5, <2>1
<1> HIDE DEF p, F
<1> DEFINE S == {i \in 0..n : p[i] \in Nat}
<1>7. 0 \in S
  BY <1>1, <1>6
<1>8. ASSUME NEW i \in 0+1..n, i - 1 \in S PROVE i \in S
  <2>1. i \in 0..n /\ i # 0 /\ p[i - 1] \in Nat /\ shape[i] \in Nat
    BY <1>1, <1>8
  <2>2. p[i] = shape[i] * p[i - 1]
    BY <1>6, <2>1
  <2>3. \A x, y \in Nat : x * y \in Nat
    OBVIOUS
  <2> QED
    BY <2>1, <2>2, <2>3
<1>9. \A i \in 0..n : i \in S
  <2> HIDE DEF S
  <2> QED
    BY <1>1, <1>7, <1>8, CountUp
<1> QED
  BY <1>6, <1>9 DEF p, n

\* So is the number of its bytes; the dtype that its dtype.str stands for has
\* the same size.
LEMMA NBytesNat ==
    ASSUME NEW d \in Dtypes, NEW shape \in Seq(Nat)
    PROVE  NBytes(d, shape) \in Nat /\ NBytes(Restored[d], shape) = NBytes(d, shape)
<1>1. Products(shape)[Len(shape)] \in Nat
  BY ProductsNat
<1>2. ItemSize[d] \in Nat /\ ItemSize[Restored[d]] = ItemSize[d]
  BY NpTreeAssumption
<1> QED
  BY <1>1, <1>2 DEF NBytes

\* What follows the k-th of equal parts lies before the m-th.
LEMMA PartsInOrder ==
    ASSUME NEW k \in Nat, NEW m \in Nat, NEW d \in Nat, k < m
    PROVE  k * d + d <= m * d
<1>1. PICK c \in Nat : m = k + 1 + c
  <2>1. m - k - 1 \in Nat /\ m = k + 1 + (m - k - 1)
    OBVIOUS
  <2> QED
    BY <2>1
<1>2. m * d = k * d + d + c * d
  BY <1>1
<1>3. c * d >= 0 /\ k * d \in Nat
  BY SMT
<1> QED
  BY <1>2, <1>3

\* Align() gives the next multiple.
LEMMA AlignNext ==
    ASSUME NEW x \in Nat, NEW a \in Nat \ {0}
    PROVE  /\ Align(x, a) \in Nat /\ Align(x, a) % a = 0
           /\ x <= Align(x, a) /\ Align(x, a) - x < a
           /\ x % a = 0 => Align(x, a) = x
<1> DEFINE q == (x + a - 1) \div a
           r == (x + a - 1) % a
<1>1. q \in Nat /\ r \in 0..a-1 /\ x + a - 1 = q * a + r
  OBVIOUS
<1>2. Align(x, a) = q * a
  BY DEF Align
<1> HIDE DEF q, r
<1>3. q * a \in Nat /\ (q * a) % a = 0
  BY <1>1
<1>4. x <= q * a /\ q * a - x < a
  BY <1>1, <1>3
<1>5. ASSUME x % a = 0 PROVE q * a = x
  <2>1. PICK k \in Nat : x = k * a
    <3>1. x = (x \div a) * a + (x % a) /\ x \div a \in Nat
      OBVIOUS
    <3> QED
      BY <1>5, <3>1
  <2>2. k < q => k * a + a <= q * a
    BY <1>1, PartsInOrder
  <2>3. q < k => q * a + a <= k * a
    BY <1>1, PartsInOrder
  <2>4. k * a \in Nat
    OBVIOUS
  <2> QED
    BY <1>1, <1>3, <1>4, <2>1, <2>2, <2>3, <2>4
<1> QED
  BY <1>2, <1>3, <1>4, <1>5

\* `offset' starts at 0 and goes on from the end of each array to the next
\* multiple of the alignment.
LEMMA OffsetsChain ==
    ASSUME NEW n \in Nat, n >= 1, NEW arrays \in [1..n -> Arrays], NEW a \in Nat \ {0}
    PROVE  /\ Offsets(arrays, a) \in [1..n -> Nat]
           /\ Offsets(arrays, a)[1] = 0
           /\ \A i \in 1+1..n : Offsets(arrays, a)[i]
                  = NextOffset(Offsets(arrays, a)[i - 1], arrays[i - 1], a)
<1> DEFINE F == [i \in 1..n |-> [v \in Nat |-> IF i = 1 THEN 0
                                               ELSE NextOffset(v, arrays[i - 1], a)]]
           p == Offsets(arrays, a)
<1>1. Len(arrays) = n /\ \A i \in 1..n : i # 1 => i - 1 \in 1..n
  OBVIOUS
<1>2. \A i \in 1..n, v \in Nat : i # 1 => NextOffset(v, arrays[i - 1], a) \in Nat
  <2> SUFFICES ASSUME NEW i \in 1..n, NEW v \in Nat, i # 1
               PROVE  NextOffset(v, arrays[i - 1], a) \in Nat
    OBVIOUS
  <2> DEFINE arr == arrays[i - 1]
  <2>1. arr \in Arrays
    BY <1>1
  <2> HIDE DEF arr
  <2>2. arr.dtype \in Dtypes /\ arr.shape \in Seq(Nat)
    BY <2>1, NpTreeAssumption
  <2>3. v + NBytes(arr.dtype, arr.shape) \in Nat
    BY <2>2, NBytesNat
  <2>4. Align(v + NBytes(arr.dtype, arr.shape), a) \in Nat
    BY <2>3, AlignNext
  <2> QED
    BY <2>4 DEF NextOffset, arr
<1>3. F \in Steps(1, n, Nat)
  <2>1. \A i \in 1..n, v \in Nat :
            (IF i = 1 THEN 0 ELSE NextOffset(v, arrays[i - 1], a)) \in Nat
    BY <1>2
  <2> QED
    BY <2>1 DEF Steps
<1>4. PICK f \in [1..n -> Nat] : f[1] = 0 /\ \A i \in 1+1..n : f[i] = F[i][f[i - 1]]
  <2>1. 0 \in Nat /\ 1 \in Nat /\ 1 <= n
    OBVIOUS
  <2> HIDE DEF F
  <2>2. HasSolution(1, n, Nat, 0, F)
    BY <1>3, <2>1, Recursion, Zenon
  <2> QED
    BY <2>2 DEF HasSolution
<1>5. \A i \in 1+1..n : f[i] = NextOffset(f[i - 1], arrays[i - 1], a)
  <2> SUFFICES ASSUME NEW i \in 1+1..n PROVE f[i] = NextOffset(f[i - 1], arrays[i - 1], a)
    OBVIOUS
  <2>1. i \in 1..n /\ i - 1 \in 1..n /\ i # 1
    BY <1>1
  <2>2. f[i - 1] \in Nat
    BY <2>1
  <2> QED
    BY <1>4, <2>1, <2>2
<1>6. \A i \in 1..n : f[i] = IF i = 1 THEN 0 ELSE NextOffset(f[i - 1], arrays[i - 1], a)
  <2>1. \A i \in 1..n : i = 1 \/ i \in 1+1..n
    OBVIOUS
  <2> QED
    BY <1>4, <1>5, <2>1
<1>7. f = [i \in 1..n |-> IF i = 1 THEN 0 ELSE NextOffset(f[i - 1], arrays[i - 1], a)]
  BY <1>4, <1>6
<1>8. p = [i \in 1..n |-> IF i = 1 THEN 0 ELSE NextOffset(p[i - 1], arrays[i - 1], a)]
  <2>1. p = CHOOSE g : g = [i \in 1..n |-> IF i = 1 THEN 0
                                          ELSE NextOffset(g[i - 1], arrays[i - 1], a)]
    BY <1>1 DEF Offsets
  <2> QED
    BY <1>7, <2>1
<1> HIDE DEF p, F
<1>9. p[1] = 0 /\ \A i \in 1+1..n : p[i] = NextOffset(p[i - 1], arrays[i - 1], a)
  <2>1. 1 \in 1..n /\ \A i \in 1+1..n : i \in 1..n /\ i # 1
    OBVIOUS
  <2> QED
    BY <1>8, <2>1
<1> DEFINE S == {i \in 1..n : p[i] \in Nat}
<1>10. 1 \in S /\ 1 \in Nat
  BY <1>9
<1>11. ASSUME NEW i \in 1+1..n, i - 1 \in S PROVE i \in S
  <2>1. i \in 1..n /\ i # 1 /\ p[i - 1] \in Nat
    BY <1>11
  <2> QED
    BY <1>2, <1>9, <2>1
<1>12. \A i \in 1..n : i \in S
  <2> HIDE DEF S
  <2> QED
    BY <1>10, <1>11, CountUp
<1>13. p \in [1..n -> Nat]
  <2>1. \A i \in 1..n : p[i] \in Nat
    BY <1>12
  <2> QED
    BY <1>8, <2>1
<1> QED
  BY <1>9, <1>13 DEF p

-----------------------------------------------------------------------------
(* The layout *)

Descs == [dtype : Dtypes, shape : Seq(Nat), offset : Nat]

\* Where the array of a layout leaf ends.
End(desc) == desc.offset + Size(desc)

\* Layout leaves one after the other, each at the next multiple of a.
Laid(descs, n, a) ==
    /\ n \in Nat \ {0} /\ a \in Nat \ {0} /\ descs \in [1..n -> Descs]
    /\ descs[1].offset = 0
    /\ \A i \in 1+1..n : descs[i].offset = Align(End(descs[i - 1]), a)

\* A layout leaf has a size.
LEMMA DescSize ==
    ASSUME NEW desc \in Descs
    PROVE  /\ desc.dtype \in Dtypes /\ desc.shape \in Seq(Nat) /\ desc.offset \in Nat
           /\ Size(desc) \in Nat /\ End(desc) \in Nat
<1>1. desc.dtype \in Dtypes /\ desc.shape \in Seq(Nat) /\ desc.offset \in Nat
  BY DEF Descs
<1>2. Size(desc) \in Nat
  BY <1>1, NBytesNat DEF Size
<1> QED
  BY <1>1, <1>2 DEF End

\* A tree has leaves.
LEMMA TreeLeaves ==
    ASSUME NEW t \in Trees
    PROVE  /\ Len(t.leaves) \in Nat \ {0}
           /\ t.leaves \in [1..Len(t.leaves) -> Arrays \cup {NotArray}]
<1>1. \E m \in Nat \ {0} : t.leaves \in [1..m -> Arrays \cup {NotArray}]
  <2>1. 1..MaxLeaves \subseteq Nat \ {0}
    BY NpTreeAssumption
  <2>2. \E m \in 1..MaxLeaves : t.leaves \in [1..m -> Arrays \cup {NotArray}]
    BY DEF Trees
  <2> QED
    BY <2>1, <2>2
<1>2. PICK m \in Nat \ {0} : t.leaves \in [1..m -> Arrays \cup {NotArray}]
  BY <1>1
<1>3. Len(t.leaves) = m
  BY <1>2
<1> QED
  BY <1>2, <1>3

\* build_nptree_layout() returns layout l for tree t.
Built(l, t, a) == l = build_nptree_layout(t, a) /\ l.exc = "none"

\* build_nptree_layout() lays the arrays out so.
LEMMA BuildLays ==
    ASSUME NEW t \in Trees, NEW a \in Int, NEW l, Built(l, t, a)
    PROVE  Laid(l.leaves, Len(t.leaves), a) /\ Len(l.leaves) = Len(t.leaves)
<1> DEFINE n == Len(t.leaves)
           off == Offsets(t.leaves, a)
           descs == [i \in DOMAIN t.leaves |->
                            [dtype |-> Restored[t.leaves[i].dtype],
                             shape |-> t.leaves[i].shape,
                             offset |-> off[i]]]
<1>1. t.leaves \in [1..n -> Arrays \cup {NotArray}]
  BY TreeLeaves
<1>2. n \in Nat \ {0}
  BY TreeLeaves
<1> HIDE DEF n, off
<1>3. /\ PowerOfTwo(a) /\ NotArray \notin {t.leaves[i] : i \in DOMAIN t.leaves}
      /\ l = [exc |-> "none", struct |-> t.struct, leaves |-> descs]
  BY DEF Built, build_nptree_layout, off
<1>4. a \in Nat \ {0}
  <2>1. PowerOfTwo(a)
    BY <1>3
  <2>2. a > 0
    BY <2>1 DEF PowerOfTwo
  <2> QED
    BY <2>2
<1>5. t.leaves \in [1..n -> Arrays] /\ DOMAIN t.leaves = 1..n
  BY <1>1, <1>2, <1>3
<1>6. /\ off \in [1..n -> Nat] /\ off[1] = 0
      /\ \A i \in 1+1..n : off[i] = NextOffset(off[i - 1], t.leaves[i - 1], a)
  <2>1. n >= 1
    BY <1>2
  <2> QED
    BY <1>2, <1>4, <1>5, <2>1, OffsetsChain, Zenon DEF off
<1>7. ASSUME NEW i \in 1..n
      PROVE  /\ descs[i] \in Descs /\ descs[i].offset = off[i]
             /\ End(descs[i]) = off[i] + NBytes(t.leaves[i].dtype, t.leaves[i].shape)
  <2>1. t.leaves[i].dtype \in Dtypes /\ t.leaves[i].shape \in Seq(Nat)
    BY <1>5, NpTreeAssumption
  <2>2. Restored[t.leaves[i].dtype] \in Dtypes /\ off[i] \in Nat
    BY <1>6, <2>1, NpTreeAssumption
  <2>3. descs[i] = [dtype |-> Restored[t.leaves[i].dtype],
                    shape |-> t.leaves[i].shape, offset |-> off[i]]
    BY <1>5
  <2> HIDE DEF descs
  <2>4. Size(descs[i]) = NBytes(t.leaves[i].dtype, t.leaves[i].shape)
    BY <2>1, <2>3, NBytesNat DEF Size
  <2> QED
    BY <2>1, <2>2, <2>3, <2>4 DEF Descs, End
<1>8. descs \in [1..n -> Descs]
  <2>1. \A i \in 1..n : descs[i] \in Descs
    BY <1>7
  <2>2. descs = [i \in 1..n |-> descs[i]]
    BY <1>5
  <2> HIDE DEF descs
  <2> QED
    BY <2>1, <2>2
<1> HIDE DEF descs
<1>9. \A i \in 1+1..n : descs[i].offset = Align(End(descs[i - 1]), a)
  <2> SUFFICES ASSUME NEW i \in 1+1..n PROVE descs[i].offset = Align(End(descs[i - 1]), a)
    OBVIOUS
  <2>1. i \in 1..n /\ i - 1 \in 1..n
    BY <1>2
  <2> QED
    BY <1>6, <1>7, <2>1 DEF NextOffset
<1>10. descs[1].offset = 0
  BY <1>2, <1>6, <1>7
<1>11. Laid(descs, n, a)
  BY <1>2, <1>4, <1>8, <1>9, <1>10 DEF Laid
<1>12. Len(descs) = n
  BY <1>2, <1>8
<1> QED
  BY <1>3, <1>11, <1>12 DEF n

\* The facts about one leaf, and about a leaf and the one before it.
LEMMA LaidLeaf ==
    ASSUME NEW descs, NEW n, NEW a, Laid(descs, n, a), NEW i \in 1..n
    PROVE  /\ descs[i] \in Descs
           /\ descs[i].offset \in Nat /\ Size(descs[i]) \in Nat
           /\ End(descs[i]) = descs[i].offset + Size(descs[i]) /\ End(descs[i]) \in Nat
           /\ descs[i].offset % a = 0
           /\ i # 1 => /\ i - 1 \in 1..n
                       /\ descs[i].offset = Align(End(descs[i - 1]), a)
                       /\ End(descs[i - 1]) \in Nat
                       /\ End(descs[i - 1]) <= descs[i].offset
                       /\ descs[i].offset - End(descs[i - 1]) < a
                       /\ End(descs[i - 1]) % a = 0 => descs[i].offset = End(descs[i - 1])
<1>1. n \in Nat \ {0} /\ a \in Nat \ {0} /\ descs \in [1..n -> Descs]
  BY DEF Laid
<1>2. descs[i] \in Descs
  BY <1>1
<1>3. /\ descs[i].offset \in Nat /\ Size(descs[i]) \in Nat
      /\ End(descs[i]) = descs[i].offset + Size(descs[i]) /\ End(descs[i]) \in Nat
  BY <1>2, DescSize DEF End
<1>4. CASE i = 1
  <2>1. descs[i].offset = 0
    BY <1>4 DEF Laid
  <2>2. 0 % a = 0
    BY <1>1
  <2> QED
    BY <1>2, <1>3, <1>4, <2>1, <2>2
<1>5. CASE i # 1
  <2>1. i \in 1+1..n /\ i - 1 \in 1..n
    BY <1>1, <1>5
  <2>2. descs[i].offset = Align(End(descs[i - 1]), a)
    BY <2>1 DEF Laid
  <2> DEFINE e == End(descs[i - 1])
  <2>3. e \in Nat
    BY <1>1, <2>1, DescSize
  <2> HIDE DEF e
  <2>4. /\ Align(e, a) \in Nat /\ Align(e, a) % a = 0
        /\ e <= Align(e, a) /\ Align(e, a) - e < a
        /\ e % a = 0 => Align(e, a) = e
    BY <1>1, <2>3, AlignNext
  <2> QED
    BY <1>2, <1>3, <2>1, <2>2, <2>3, <2>4 DEF e
<1> QED
  BY <1>4, <1>5

\* A leaf ends before the next ones start.
LEMMA LaidInOrder ==
    ASSUME NEW descs, NEW n, NEW a, Laid(descs, n, a),
           NEW i \in 1..n, NEW j \in 1..n, i < j
    PROVE  End(descs[i]) <= descs[j].offset
<1> DEFINE S == {k \in i..n : k = i \/ End(descs[i]) <= descs[k].offset}
<1>1. n \in Nat /\ i \in Nat
  BY DEF Laid
<1>2. i \in S
  BY <1>1
<1>3. ASSUME NEW k \in i+1..n, k - 1 \in S PROVE k \in S
  <2>1. k \in 1..n /\ k - 1 \in 1..n /\ k # 1 /\ k \in i..n
    BY <1>1
  <2>2. /\ descs[k].offset \in Nat /\ End(descs[k - 1]) \in Nat
        /\ End(descs[k - 1]) <= descs[k].offset
        /\ descs[k - 1].offset \in Nat /\ Size(descs[k - 1]) \in Nat
        /\ End(descs[k - 1]) = descs[k - 1].offset + Size(descs[k - 1])
        /\ End(descs[i]) = descs[i].offset + Size(descs[i])
        /\ descs[i].offset \in Nat /\ Size(descs[i]) \in Nat
    BY <2>1, LaidLeaf
  <2>3. CASE k - 1 = i
    BY <2>1, <2>2, <2>3
  <2>4. CASE End(descs[i]) <= descs[k - 1].offset
    BY <2>1, <2>2, <2>4
  <2> QED
    BY <1>3, <2>3, <2>4
<1>4. \A k \in i..n : k \in S
  <2> HIDE DEF S
  <2> QED
    BY <1>1, <1>2, <1>3, CountUp
<1>5. j \in i..n /\ j # i
  BY <1>1
<1> QED
  BY <1>4, <1>5

\* The last leaf ends last.
LEMMA LaidLast ==
    ASSUME NEW descs, NEW n, NEW a, Laid(descs, n, a), NEW i \in 1..n
    PROVE  End(descs[i]) <= End(descs[n])
<1>1. n \in Nat \ {0} /\ n \in 1..n
  BY DEF Laid
<1>2. /\ descs[n].offset \in Nat /\ Size(descs[n]) \in Nat
      /\ End(descs[n]) = descs[n].offset + Size(descs[n])
      /\ End(descs[i]) = descs[i].offset + Size(descs[i])
      /\ descs[i].offset \in Nat /\ Size(descs[i]) \in Nat
  BY <1>1, LaidLeaf
<1>3. CASE i = n
  BY <1>2, <1>3
<1>4. CASE i < n
  <2>1. End(descs[i]) <= descs[n].offset
    BY <1>1, <1>4, LaidInOrder
  <2> QED
    BY <1>2, <2>1
<1> QED
  BY <1>1, <1>3, <1>4

\* A greatest element is the Max().
LEMMA MaxIs ==
    ASSUME NEW S \in SUBSET Int, NEW x \in S, \A y \in S : y <= x
    PROVE  Max(S) = x
<1>1. \E z \in S : \A y \in S : z >= y
  OBVIOUS
<1>2. Max(S) \in S /\ \A y \in S : Max(S) >= y
  BY <1>1 DEF Max
<1>3. PICK m \in Int : m = Max(S)
  BY <1>2
<1>4. m \in S /\ x \in Int /\ m >= x /\ m <= x
  BY <1>2, <1>3
<1>5. m = x
  BY <1>4
<1> QED
  BY <1>3, <1>5

\* calc_buffer_size() is where the last leaf ends.
LEMMA LaidSize ==
    ASSUME NEW l, NEW n, NEW a, Laid(l.leaves, n, a)
    PROVE  calc_buffer_size(l) = End(l.leaves[n])
<1> DEFINE descs == l.leaves
           S == {0} \cup {End(descs[i]) : i \in 1..n}
<1>1. n \in Nat \ {0} /\ n \in 1..n /\ DOMAIN descs = 1..n
  BY DEF Laid
<1>2. \A i \in 1..n : End(descs[i]) \in Nat /\ End(descs[i]) <= End(descs[n])
  <2> HIDE DEF descs
  <2> SUFFICES ASSUME NEW i \in 1..n
               PROVE  End(descs[i]) \in Nat /\ End(descs[i]) <= End(descs[n])
    OBVIOUS
  <2>0. Laid(descs, n, a)
    BY DEF descs
  <2>1. /\ descs[i].offset \in Nat /\ Size(descs[i]) \in Nat
        /\ End(descs[i]) = descs[i].offset + Size(descs[i])
    BY <2>0, LaidLeaf
  <2> QED
    BY <2>0, <2>1, LaidLast
<1>3. calc_buffer_size(l) = Max(S)
  BY <1>1 DEF calc_buffer_size, End
<1> HIDE DEF descs
<1>4. S \in SUBSET Int /\ End(descs[n]) \in S /\ \A y \in S : y <= End(descs[n])
  BY <1>1, <1>2
<1>5. Max(S) = End(descs[n])
  <2> HIDE DEF S
  <2> QED
    BY <1>4, MaxIs
<1> QED
  BY <1>3, <1>5 DEF descs

\* The bytes of the first m leaves, and 0.
Taken(descs, m) == {0} \cup UNION {(descs[i].offset + 1)..End(descs[i]) : i \in 1..m}

\* The last byte of the first m leaves is the end of the m-th, or lies less
\* than one alignment before that end, which is then a multiple.
LEMMA LaidTight ==
    ASSUME NEW descs, NEW n, NEW a, Laid(descs, n, a)
    PROVE  /\ Taken(descs, n) \in SUBSET Nat
           /\ \E x \in Taken(descs, n) :
                /\ \A y \in Taken(descs, n) : y <= x
                /\ x <= End(descs[n]) /\ End(descs[n]) - x < a
<1> DEFINE Tight(m, x) ==
               /\ \A y \in Taken(descs, m) : y <= x
               /\ x <= End(descs[m]) /\ End(descs[m]) - x < a
               /\ x = End(descs[m]) \/ End(descs[m]) % a = 0
           S == {m \in 1..n : \E x \in Taken(descs, m) : Tight(m, x)}
<1>1. n \in Nat \ {0} /\ a \in Nat \ {0} /\ n \in 1..n /\ 1 \in 1..n
  BY DEF Laid
<1>2. \A m \in 1..n : descs[m].offset \in Nat /\ Size(descs[m]) \in Nat
                        /\ End(descs[m]) = descs[m].offset + Size(descs[m])
  BY LaidLeaf
<1>3. \A m \in 1..n : Taken(descs, m) \in SUBSET Nat
  <2> SUFFICES ASSUME NEW m \in 1..n, NEW y \in Taken(descs, m) PROVE y \in Nat
    OBVIOUS
  <2>1. CASE y = 0
    BY <2>1
  <2>2. ASSUME NEW i \in 1..m, y \in (descs[i].offset + 1)..End(descs[i]) PROVE y \in Nat
    <3>1. i \in 1..n
      BY <1>1
    <3>2. descs[i].offset \in Nat /\ Size(descs[i]) \in Nat
                        /\ End(descs[i]) = descs[i].offset + Size(descs[i])
      BY <1>2, <3>1
    <3> QED
      BY <2>2, <3>2
  <2> QED
    BY <2>1, <2>2 DEF Taken
<1>4. ASSUME NEW m \in 1..n, NEW y \in Taken(descs, m) PROVE y <= End(descs[m])
  <2>1. CASE y = 0
    BY <1>2, <2>1
  <2>2. ASSUME NEW i \in 1..m, y \in (descs[i].offset + 1)..End(descs[i])
        PROVE  y <= End(descs[m])
    <3>1. i \in 1..n
      BY <1>1
    <3>2. /\ descs[i].offset \in Nat /\ Size(descs[i]) \in Nat
          /\ End(descs[i]) = descs[i].offset + Size(descs[i])
          /\ descs[m].offset \in Nat /\ Size(descs[m]) \in Nat
          /\ End(descs[m]) = descs[m].offset + Size(descs[m])
      BY <1>2, <3>1
    <3>3. i < m => End(descs[i]) <= descs[m].offset
      BY <3>1, LaidInOrder
    <3>4. i = m \/ i < m
      OBVIOUS
    <3> QED
      BY <2>2, <3>2, <3>3, <3>4
  <2> QED
    BY <2>1, <2>2 DEF Taken
\* A leaf with bytes ends with its last one.
<1>5. ASSUME NEW m \in 1..n, Size(descs[m]) # 0 PROVE m \in S
  <2> DEFINE x == End(descs[m])
  <2>1. x \in Nat /\ x \in (descs[m].offset + 1)..End(descs[m])
    BY <1>2, <1>5
  <2>2. m \in 1..m
    OBVIOUS
  <2>3. x \in Taken(descs, m)
    BY <2>1, <2>2 DEF Taken
  <2>4. Tight(m, x)
    BY <1>1, <1>4, <2>1
  <2> QED
    BY <2>3, <2>4
<1>6. 1 \in S
  <2>1. CASE Size(descs[1]) = 0
    <3>1. End(descs[1]) = 0
      BY <1>1, <1>2, <2>1 DEF Laid
    <3>2. 0 \in Taken(descs, 1)
      BY DEF Taken
    <3>3. Tight(1, 0)
      BY <1>1, <1>4, <3>1
    <3> QED
      BY <1>1, <3>2, <3>3
  <2> QED
    BY <1>1, <1>5, <2>1
<1>7. ASSUME NEW m \in 1+1..n, m - 1 \in S PROVE m \in S
  <2>1. m \in 1..n /\ m - 1 \in 1..n /\ m # 1
    BY <1>1
  <2>2. CASE Size(descs[m]) = 0
    <3>1. PICK x \in Taken(descs, m - 1) : Tight(m - 1, x)
      BY <1>7
    <3>2. /\ End(descs[m]) = descs[m].offset /\ End(descs[m]) \in Nat
          /\ End(descs[m]) % a = 0 /\ End(descs[m - 1]) \in Nat
          /\ End(descs[m - 1]) <= descs[m].offset
          /\ descs[m].offset - End(descs[m - 1]) < a
          /\ End(descs[m - 1]) % a = 0 => descs[m].offset = End(descs[m - 1])
      BY <2>1, <2>2, LaidLeaf
    <3>3. x \in Nat
      BY <1>3, <2>1, <3>1
    <3>4. Taken(descs, m) = Taken(descs, m - 1)
      <4>1. (descs[m].offset + 1)..End(descs[m]) = {}
        BY <1>2, <2>1, <3>2
      <4>2. 1..m = (1..m-1) \cup {m}
        BY <2>1
      <4> QED
        BY <4>1, <4>2 DEF Taken
    <3>5. x <= End(descs[m]) /\ End(descs[m]) - x < a
      BY <1>1, <3>1, <3>2, <3>3
    <3>6. Tight(m, x)
      BY <3>1, <3>2, <3>4, <3>5
    <3> QED
      BY <2>1, <3>4, <3>6
  <2> QED
    BY <1>5, <2>1, <2>2
<1>8. \A m \in 1..n : m \in S
  <2> HIDE DEF S
  <2>1. 1 \in Nat /\ n \in Nat
    BY <1>1
  <2> QED
    BY <1>6, <1>7, <2>1, CountUp
<1>9. n \in S
  BY <1>1, <1>8
<1> QED
  BY <1>1, <1>3, <1>9

-----------------------------------------------------------------------------
(* LayoutSound *)

\* The layout in use is the one that build_nptree_layout() gave for the tree.
LayoutInv ==
    /\ tree \in Trees /\ alignment \in Int
    /\ layout # NoLayout => Built(layout, tree, alignment)

\* There is no layout at first.
LEMMA LayoutStart == Init => LayoutInv
<1> SUFFICES ASSUME Init PROVE LayoutInv
  OBVIOUS
<1> QED
  BY NpTreeAssumption DEF Init, LayoutInv

\* Only build_nptree_layout() makes one; every other call leaves it alone.
LEMMA LayoutKept == LayoutInv /\ [Next]_vars => LayoutInv'
<1> SUFFICES ASSUME LayoutInv, [Next]_vars PROVE LayoutInv'
  OBVIOUS
<1>1. ASSUME tree' = tree, alignment' = alignment, layout' = layout PROVE LayoutInv'
  BY <1>1 DEF LayoutInv, Built
<1>2. CASE Build
  <2>1. tree' = tree /\ alignment' = alignment
    BY <1>2 DEF Build
  <2> DEFINE r == build_nptree_layout(tree, alignment)
  <2>2. layout' = IF r.exc = "none" THEN r ELSE NoLayout
    BY <1>2 DEF Build
  <2> QED
    BY <2>1, <2>2, Zenon DEF LayoutInv, Built
<1>3. CASE Deserialize
  BY <1>1, <1>3 DEF Deserialize, Call
<1>4. CASE Drop
  BY <1>1, <1>4 DEF Drop
<1>5. ASSUME NEW k \in {0, 2}, Allocate(k) PROVE LayoutInv'
  BY <1>1, <1>5 DEF Allocate
<1>6. ASSUME NEW t \in Variants(tree), Serialize(t) PROVE LayoutInv'
  BY <1>1, <1>6 DEF Serialize, Call
<1>7. ASSUME NEW t \in Variants(tree), SerializeNew(t) PROVE LayoutInv'
  BY <1>1, <1>7 DEF SerializeNew, Call
<1>8. CASE UNCHANGED vars
  BY <1>1, <1>8 DEF vars
<1> QED
  BY <1>2, <1>3, <1>4, <1>5, <1>6, <1>7, <1>8 DEF Next

\* So the layout is always the one that was built.
LEMMA LayoutAlways == Spec => []LayoutInv
<1> QED
  BY LayoutStart, LayoutKept, PTL DEF Spec

\* Leaves one after the other make a sound layout.
LEMMA LayoutGivesSound == LayoutInv => LayoutSound
<1> SUFFICES ASSUME LayoutInv, layout # NoLayout PROVE LayoutSound
  BY DEF LayoutSound
<1> DEFINE n == Len(tree.leaves)
           descs == layout.leaves
           used == UNION {LeafBytes(layout, i) : i \in DOMAIN descs}
<1>1. Laid(descs, n, alignment)
  BY BuildLays DEF LayoutInv
<1>2. n \in Nat \ {0} /\ alignment \in Nat \ {0} /\ n \in 1..n /\ DOMAIN descs = 1..n
  BY <1>1 DEF Laid
<1> HIDE DEF n, descs
<1>3. \A i \in 1..n : LeafBytes(layout, i) = (descs[i].offset + 1)..End(descs[i])
  BY DEF LeafBytes, End, descs
<1>4. ASSUME NEW i \in 1..n, NEW j \in 1..n, i < j
      PROVE  LeafBytes(layout, i) \cap LeafBytes(layout, j) = {}
  <2>1. End(descs[i]) <= descs[j].offset
    BY <1>1, <1>4, LaidInOrder
  <2>2. /\ End(descs[i]) = descs[i].offset + Size(descs[i])
        /\ descs[i].offset \in Nat /\ Size(descs[i]) \in Nat
        /\ End(descs[j]) = descs[j].offset + Size(descs[j])
        /\ descs[j].offset \in Nat /\ Size(descs[j]) \in Nat
    BY <1>1, LaidLeaf
  <2> QED
    BY <1>3, <2>1, <2>2
<1>5. \A i, j \in 1..n : i # j => LeafBytes(layout, i) \cap LeafBytes(layout, j) = {}
  <2>1. \A i, j \in 1..n : i # j => i < j \/ j < i
    OBVIOUS
  <2> QED
    BY <1>4, <2>1
<1>6. \A i \in 1..n : descs[i].offset % alignment = 0
  BY <1>1, LaidLeaf
<1>7. calc_buffer_size(layout) - Max({0} \cup used) \in 0..alignment-1
  <2>1. {0} \cup used = Taken(descs, n)
    BY <1>2, <1>3 DEF Taken
  <2>2. PICK x \in Taken(descs, n) :
             /\ \A y \in Taken(descs, n) : y <= x
             /\ x <= End(descs[n]) /\ End(descs[n]) - x < alignment
    BY <1>1, LaidTight
  <2>3. Taken(descs, n) \in SUBSET Int /\ x \in Nat
    BY <1>1, LaidTight
  <2>4. Max(Taken(descs, n)) = x
    BY <2>2, <2>3, MaxIs
  <2>5. calc_buffer_size(layout) = End(descs[n])
    BY <1>1, LaidSize DEF descs
  <2>6. /\ End(descs[n]) = descs[n].offset + Size(descs[n])
        /\ descs[n].offset \in Nat /\ Size(descs[n]) \in Nat
    BY <1>1, <1>2, LaidLeaf
  <2>7. End(descs[n]) - x \in 0..alignment-1
    BY <1>2, <2>2, <2>3, <2>6
  <2> HIDE DEF used
  <2> QED
    BY <2>1, <2>4, <2>5, <2>7
<1> QED
  BY <1>2, <1>5, <1>6, <1>7 DEF LayoutSound, descs

\* build_nptree_layout() and calc_buffer_size(), for trees of any arrays and
\* for any alignment: no byte belongs to two arrays, every array is aligned,
\* and the size holds them all with less than one alignment to spare.
THEOREM LayoutAlwaysSound == Spec => []LayoutSound
<1> QED
  BY LayoutAlways, LayoutGivesSound, PTL

-----------------------------------------------------------------------------
(* serialize_nptree() *)

\* s is the part of b from m to k.
IsPart(s, b, m, k) ==
    /\ s \in Seq(Nat) /\ Len(s) = k - m + 1
    /\ \A i \in 1..k-m+1 : s[i] = b[m + i - 1]

\* SubSeq() gives that part.
LEMMA Part ==
    ASSUME NEW b \in Seq(Nat), NEW m \in Nat, NEW k \in Nat,
           1 <= m, m <= k + 1, k <= Len(b)
    PROVE  IsPart(SubSeq(b, m, k), b, m, k)
<1>1. \A i \in m..k : b[i] \in Nat
  OBVIOUS
<1>2. /\ SubSeq(b, m, k) \in Seq(Nat)
      /\ Len(SubSeq(b, m, k)) = IF m <= k THEN k-m+1 ELSE 0
      /\ \A i \in 1..k-m+1 : SubSeq(b, m, k)[i] = b[m+i-1]
  BY <1>1, SubSeqProperties
<1>3. k - m + 1 = IF m <= k THEN k-m+1 ELSE 0
  OBVIOUS
<1> QED
  BY <1>2, <1>3 DEF IsPart

\* The beginning of a sequence, another one and the end of the first.
Splice(b, lo, hi, data) == SubSeq(b, 1, lo) \o data \o SubSeq(b, hi + 1, Len(b))

IsSplice(new, b, lo, hi, data) ==
    /\ new \in Seq(Nat) /\ Len(new) = lo + Len(data) + (Len(b) - hi)
    /\ \A k \in 1..Len(new) :
          new[k] = IF k <= lo THEN b[k]
                   ELSE IF k <= lo + Len(data) THEN data[k - lo]
                   ELSE b[k - lo - Len(data) + hi]

\* The elements of the three parts together.
LEMMA Spliced ==
    ASSUME NEW b \in Seq(Nat), NEW data \in Seq(Nat),
           NEW lo \in 0..Len(b), NEW hi \in lo..Len(b),
           NEW new, new = Splice(b, lo, hi, data)
    PROVE  IsSplice(new, b, lo, hi, data)
<1> DEFINE n == Len(b)
           p == SubSeq(b, 1, lo)
           q == SubSeq(b, hi + 1, n)
           d == Len(data)
<1>1. n \in Nat /\ lo \in Nat /\ hi \in Nat /\ lo <= hi /\ hi <= n /\ d \in Nat
  OBVIOUS
<1>2. \A i \in 1..n : b[i] \in Nat
  OBVIOUS
<1> HIDE DEF n, d
<1>3. p \in Seq(Nat) /\ Len(p) = lo /\ \A i \in 1..lo : p[i] = b[i]
  <2>1. 1 \in Nat /\ 1 <= 1 /\ 1 <= lo + 1 /\ lo <= Len(b)
    BY <1>1 DEF n
  <2>2. IsPart(p, b, 1, lo)
    BY <1>1, <2>1, Part
  <2> HIDE DEF p
  <2> QED
    BY <1>1, <2>2 DEF IsPart
<1>4. q \in Seq(Nat) /\ Len(q) = n - hi /\ \A i \in 1..(n - hi) : q[i] = b[hi + i]
  <2>1. hi + 1 \in Nat /\ 1 <= hi + 1 /\ hi + 1 <= n + 1 /\ n <= Len(b)
    BY <1>1 DEF n
  <2>2. IsPart(q, b, hi + 1, n)
    BY <1>1, <2>1, Part
  <2> HIDE DEF q
  <2>3. \A i \in 1..(n - hi) : i \in 1..n-(hi+1)+1 /\ (hi+1)+i-1 = hi + i
    BY <1>1
  <2> QED
    BY <1>1, <2>2, <2>3 DEF IsPart
<1>5. new = (p \o data) \o q
  BY DEF n, Splice
<1> HIDE DEF p, q
<1> DEFINE h == p \o data
<1>6. h \in Seq(Nat) /\ Len(h) = lo + d
      /\ \A k \in 1..lo + d : h[k] = IF k <= lo THEN p[k] ELSE data[k - lo]
  <2>1. /\ h \in Seq(Nat) /\ Len(h) = Len(p) + Len(data)
        /\ \A k \in 1..Len(p) + Len(data) :
               h[k] = IF k <= Len(p) THEN p[k] ELSE data[k - Len(p)]
    BY <1>3, ConcatProperties, Zenon
  <2> HIDE DEF h
  <2> QED
    BY <1>3, <2>1 DEF d
<1> HIDE DEF h
<1>7. /\ new \in Seq(Nat) /\ Len(new) = lo + d + (n - hi)
      /\ \A k \in 1..lo + d + (n - hi) :
             new[k] = IF k <= lo + d THEN h[k] ELSE q[k - (lo + d)]
  <2>1. new = h \o q
    BY <1>5 DEF h
  <2>2. /\ h \o q \in Seq(Nat) /\ Len(h \o q) = Len(h) + Len(q)
        /\ \A k \in 1..Len(h) + Len(q) :
               (h \o q)[k] = IF k <= Len(h) THEN h[k] ELSE q[k - Len(h)]
    BY <1>4, <1>6, ConcatProperties, Zenon
  <2>3. /\ new \in Seq(Nat) /\ Len(new) = Len(h) + Len(q)
        /\ \A k \in 1..Len(h) + Len(q) :
               new[k] = IF k <= Len(h) THEN h[k] ELSE q[k - Len(h)]
    BY <2>1, <2>2, Zenon
  <2> QED
    BY <1>4, <1>6, <2>3
<1>8. ASSUME NEW k \in 1..lo + d + (n - hi)
      PROVE  new[k] = IF k <= lo THEN b[k]
                      ELSE IF k <= lo + d THEN data[k - lo] ELSE b[k - lo - d + hi]
  <2>0. new[k] = IF k <= lo + d THEN h[k] ELSE q[k - (lo + d)]
    BY <1>7
  <2>1. CASE k <= lo
    <3>1. k \in 1..lo /\ k \in 1..lo + d /\ k <= lo + d
      BY <1>1, <2>1
    <3>2. h[k] = p[k] /\ p[k] = b[k]
      BY <1>3, <1>6, <2>1, <3>1
    <3> QED
      BY <2>0, <2>1, <3>1, <3>2
  <2>2. CASE lo < k /\ k <= lo + d
    <3>1. k \in 1..lo + d /\ ~(k <= lo)
      BY <1>1, <2>2
    <3>2. h[k] = data[k - lo]
      BY <1>6, <3>1
    <3> QED
      BY <2>0, <2>2, <3>1, <3>2
  <2>3. CASE lo + d < k
    <3>1. k - (lo + d) \in 1..(n - hi) /\ hi + (k - (lo + d)) = k - lo - d + hi
          /\ ~(k <= lo + d) /\ ~(k <= lo)
      BY <1>1, <2>3
    <3>2. new[k] = q[k - (lo + d)]
      BY <2>0, <3>1
    <3>3. q[k - (lo + d)] = b[hi + (k - (lo + d))]
      BY <1>4, <3>1
    <3> QED
      BY <3>1, <3>2, <3>3
  <2> QED
    BY <1>1, <2>1, <2>2, <2>3
<1> QED
  BY <1>7, <1>8 DEF n, d, IsSplice

\* `data' overwrites the elements of b from `from'.
Overwrites(new, b, from, to, data) ==
    /\ Len(new) = Len(b)
    /\ \A k \in 1..Len(b) : new[k] = IF k \in from+1..to THEN data[k - from] ELSE b[k]

\* A slice of a bytearray, assigned to: in general, and when the data has the
\* length of the slice.
LEMMA SliceAssigned ==
    ASSUME NEW b \in Seq(Nat), NEW data \in Seq(Nat), NEW from \in Nat, NEW to \in Nat,
           from <= to
    PROVE  /\ SliceAssign(b, from, to, data) \in Seq(Nat)
           /\ to <= Len(b) /\ Len(data) = to - from =>
                 Overwrites(SliceAssign(b, from, to, data), b, from, to, data)
<1> DEFINE lo == IF from < Len(b) THEN from ELSE Len(b)
           hi == IF to < Len(b) THEN (IF to > lo THEN to ELSE lo) ELSE Len(b)
           new == SliceAssign(b, from, to, data)
<1>1. Len(b) \in Nat /\ Len(data) \in Nat
  OBVIOUS
<1>2. lo \in 0..Len(b) /\ hi \in lo..Len(b)
  BY <1>1
<1>3. to <= Len(b) => lo = from /\ hi = to
  BY <1>1
<1>4. new = Splice(b, lo, hi, data)
  BY DEF SliceAssign, Splice
<1> HIDE DEF lo, hi, new
<1>5. /\ new \in Seq(Nat) /\ Len(new) = lo + Len(data) + (Len(b) - hi)
      /\ \A k \in 1..Len(new) :
            new[k] = IF k <= lo THEN b[k]
                     ELSE IF k <= lo + Len(data) THEN data[k - lo]
                     ELSE b[k - lo - Len(data) + hi]
  <2>1. IsSplice(new, b, lo, hi, data)
    BY <1>2, <1>4, Spliced
  <2> QED
    BY <2>1 DEF IsSplice
<1>6. ASSUME to <= Len(b), Len(data) = to - from
      PROVE  Overwrites(new, b, from, to, data)
  <2>1. lo = from /\ hi = to /\ Len(new) = Len(b)
    BY <1>1, <1>3, <1>5, <1>6
  <2>2. ASSUME NEW k \in 1..Len(b)
        PROVE  new[k] = IF k \in from+1..to THEN data[k - from] ELSE b[k]
    <3>1. k \in 1..Len(new)
      BY <2>1
    <3>2. lo + Len(data) = to /\ k - lo - Len(data) + hi = k
      BY <1>1, <1>6, <2>1
    <3>3. new[k] = IF k <= from THEN b[k] ELSE IF k <= to THEN data[k - from] ELSE b[k]
      BY <1>5, <2>1, <3>1, <3>2
    <3> QED
      BY <3>3
  <2> QED
    BY <2>1, <2>2 DEF Overwrites
<1> QED
  BY <1>5, <1>6 DEF new

Results == [buf : Seq(Nat),
            exc : {"none", "AttributeError", "BufferError", "TypeError", "ValueError"}]

\* The bytes of leaf i, of N bytes, as call c stores them.
LeafBytesOf(c, i, N) == [k \in 1..N |-> Byte(c, i, k)]

\* They are a sequence of N bytes.
LEMMA BytesTyped ==
    ASSUME NEW c \in Nat, NEW i \in Nat, NEW N \in Nat
    PROVE  LeafBytesOf(c, i, N) \in Seq(Nat) /\ Len(LeafBytesOf(c, i, N)) = N
<1>1. \A k \in 1..N : Byte(c, i, k) \in Nat
  BY DEF Byte
<1> QED
  BY <1>1 DEF LeafBytesOf

\* Whatever array it is given, _serialize_leaf() leaves a bytearray.
LEMMA LeafTyped ==
    ASSUME NEW b \in Seq(Nat), NEW arr \in Arrays \cup {NotArray}, NEW desc \in Descs,
           NEW i \in Nat, NEW c \in Nat, NEW views
    PROVE  SerializeLeaf(b, arr, desc, i, c, views) \in Results
<1> DEFINE N == NBytes(arr.dtype, arr.shape)
           data == LeafBytesOf(c, i, N)
           new == SliceAssign(b, desc.offset, desc.offset + Size(desc), data)
           r == SerializeLeaf(b, arr, desc, i, c, views)
<1>1. \/ r = [buf |-> new, exc |-> "none"] /\ arr # NotArray
      \/ r \in {[buf |-> b, exc |-> e] :
                  e \in {"none", "AttributeError", "BufferError", "TypeError", "ValueError"}}
  BY DEF SerializeLeaf, LeafBytesOf
<1>2. ASSUME arr # NotArray PROVE new \in Seq(Nat)
  <2>1. arr.dtype \in Dtypes /\ arr.shape \in Seq(Nat)
    BY <1>2, NpTreeAssumption
  <2>2. N \in Nat
    BY <2>1, NBytesNat
  <2> HIDE DEF N
  <2>3. data \in Seq(Nat)
    BY <2>2, BytesTyped
  <2>4. /\ desc.offset \in Nat /\ desc.offset + Size(desc) \in Nat
        /\ desc.offset <= desc.offset + Size(desc)
    BY DescSize
  <2> HIDE DEF data
  <2> QED
    BY <2>3, <2>4, SliceAssigned
<1> HIDE DEF new, r
<1> QED
  BY <1>1, <1>2 DEF Results, r

\* There is nothing to copy, or memoryview.cast("B") accepts the array.
Copied(desc) == Size(desc) = 0 \/ desc.dtype \in Castable

\* What _serialize_leaf() has done to a buffer b that holds the leaf.
Stores(r, b, desc, i, c) ==
    /\ Len(r.buf) = Len(b)
    /\ \A k \in 1..Len(b) : k \notin (desc.offset + 1)..End(desc) => r.buf[k] = b[k]
    /\ r.exc = "none" =>
          Copied(desc) /\ \A k \in 1..Size(desc) : r.buf[desc.offset + k] = Byte(c, i, k)

\* Given an array that validate_layout() accepts, _serialize_leaf() changes the
\* bytes of the leaf only, to those of the array when it raises nothing.
LEMMA LeafStored ==
    ASSUME NEW b \in Seq(Nat), NEW arr, NEW desc \in Descs,
           arr.dtype = desc.dtype, arr.shape = desc.shape, End(desc) <= Len(b),
           NEW i \in Nat, NEW c \in Nat, NEW views
    PROVE  Stores(SerializeLeaf(b, arr, desc, i, c, views), b, desc, i, c)
<1> DEFINE N == Size(desc)
           data == LeafBytesOf(c, i, N)
           new == SliceAssign(b, desc.offset, desc.offset + N, data)
           r == SerializeLeaf(b, arr, desc, i, c, views)
<1>1. /\ desc.offset \in Nat /\ N \in Nat /\ desc.offset + N \in Nat
      /\ desc.offset <= desc.offset + N /\ End(desc) = desc.offset + N
  BY DescSize DEF End
<1>2. \/ r = [buf |-> new, exc |-> "none"] /\ Copied(desc)
      \/ r = [buf |-> b, exc |-> "none"] /\ N = 0
      \/ r.buf = b /\ r.exc # "none"
  <2>1. NBytes(arr.dtype, arr.shape) = N
    BY DEF Size
  <2> QED
    BY <2>1 DEF SerializeLeaf, LeafBytesOf, Copied
<1> HIDE DEF N, r
<1>3. data \in Seq(Nat) /\ Len(data) = N
  BY <1>1, BytesTyped
<1>4. \A k \in 1..N : data[k] = Byte(c, i, k)
  BY DEF LeafBytesOf
<1> HIDE DEF data
<1>5. /\ Len(new) = Len(b)
      /\ \A k \in 1..Len(b) : new[k] = IF k \in desc.offset+1..desc.offset+N
                                       THEN data[k - desc.offset] ELSE b[k]
  <2> DEFINE from == desc.offset
             to == desc.offset + N
  <2>1. from \in Nat /\ to \in Nat /\ from <= to /\ to <= Len(b) /\ Len(data) = to - from
    BY <1>1, <1>3
  <2> HIDE DEF from, to
  <2>2. Overwrites(SliceAssign(b, from, to, data), b, from, to, data)
    BY <1>3, <2>1, SliceAssigned
  <2>3. Overwrites(new, b, desc.offset, desc.offset + N, data)
    BY <2>2 DEF from, to
  <2> HIDE DEF new
  <2> QED
    BY <2>3 DEF Overwrites
<1> HIDE DEF new
<1>6. CASE r = [buf |-> new, exc |-> "none"] /\ Copied(desc)
  <2>1. \A k \in 1..N : new[desc.offset + k] = Byte(c, i, k)
    <3> SUFFICES ASSUME NEW k \in 1..N PROVE new[desc.offset + k] = Byte(c, i, k)
      OBVIOUS
    <3>1. /\ desc.offset + k \in 1..Len(b) /\ desc.offset + k \in desc.offset+1..desc.offset+N
          /\ (desc.offset + k) - desc.offset = k
      BY <1>1
    <3>2. new[desc.offset + k] = data[(desc.offset + k) - desc.offset]
      BY <1>5, <3>1
    <3> QED
      BY <1>4, <3>1, <3>2
  <2> QED
    BY <1>1, <1>5, <1>6, <2>1 DEF Stores, r, N
<1>7. CASE r = [buf |-> b, exc |-> "none"] /\ N = 0
  BY <1>1, <1>7 DEF Stores, Copied, r, N
<1>8. CASE r.buf = b /\ r.exc # "none"
  BY <1>8 DEF Stores, r
<1> QED
  BY <1>2, <1>6, <1>7, <1>8

\* tree_map() of _serialize_leaf(), for arrays `arrays' and layout leaves
\* `descs', n of each.
Mapped(leaf, arrays, descs, n, b, c, views) ==
    /\ leaf \in [0..n -> Results] /\ leaf[0] = [buf |-> b, exc |-> "none"]
    /\ \A i \in 0+1..n : leaf[i] =
           IF leaf[i - 1].exc # "none" THEN leaf[i - 1]
           ELSE SerializeLeaf(leaf[i - 1].buf, arrays[i], descs[i], i, c, views)

\* The recursive function of the model is that map.
LEMMA LeavesMapped ==
    ASSUME NEW n \in Nat, NEW arrays \in [1..n -> Arrays \cup {NotArray}],
           NEW descs \in [1..n -> Descs], NEW b \in Seq(Nat), NEW c \in Nat, NEW views
    PROVE  Mapped(SerializeLeaves(arrays, descs, b, c, views), arrays, descs, n, b, c, views)
<1> DEFINE Step(i, v) == IF v.exc # "none" THEN v
                         ELSE SerializeLeaf(v.buf, arrays[i], descs[i], i, c, views)
           start == [buf |-> b, exc |-> "none"]
           F == [i \in 0..n |-> [v \in Results |-> IF i = 0 THEN start ELSE Step(i, v)]]
           p == SerializeLeaves(arrays, descs, b, c, views)
<1>1. Len(arrays) = n
  OBVIOUS
<1>2. start \in Results
  BY DEF Results
<1>3. ASSUME NEW i \in 0..n, i # 0, NEW v \in Results PROVE Step(i, v) \in Results
  <2>1. i \in 1..n /\ i \in Nat
    BY <1>3
  <2>2. v.buf \in Seq(Nat) /\ arrays[i] \in Arrays \cup {NotArray} /\ descs[i] \in Descs
    BY <2>1 DEF Results
  <2>3. SerializeLeaf(v.buf, arrays[i], descs[i], i, c, views) \in Results
    BY <2>1, <2>2, LeafTyped
  <2> QED
    BY <2>3
<1> HIDE DEF Step, start
<1>4. F \in Steps(0, n, Results)
  <2>1. \A i \in 0..n, v \in Results : (IF i = 0 THEN start ELSE Step(i, v)) \in Results
    BY <1>2, <1>3
  <2> QED
    BY <2>1 DEF Steps
<1>5. PICK f \in [0..n -> Results] :
          f[0] = start /\ \A i \in 0+1..n : f[i] = F[i][f[i - 1]]
  <2>1. 0 \in Nat /\ 0 <= n
    OBVIOUS
  <2> HIDE DEF F
  <2>2. HasSolution(0, n, Results, start, F)
    BY <1>2, <1>4, <2>1, Recursion, Zenon
  <2> QED
    BY <2>2 DEF HasSolution
<1>6. \A i \in 0+1..n : f[i] = Step(i, f[i - 1])
  <2> SUFFICES ASSUME NEW i \in 0+1..n PROVE f[i] = Step(i, f[i - 1])
    OBVIOUS
  <2>1. i \in 0..n /\ i - 1 \in 0..n /\ i # 0
    OBVIOUS
  <2>2. f[i - 1] \in Results
    BY <2>1
  <2> QED
    BY <1>5, <2>1, <2>2
<1>7. \A i \in 0..n : f[i] = IF i = 0 THEN start ELSE Step(i, f[i - 1])
  <2>1. \A i \in 0..n : i = 0 \/ i \in 0+1..n
    OBVIOUS
  <2> QED
    BY <1>5, <1>6, <2>1
<1>8. f = [i \in 0..n |-> IF i = 0 THEN start ELSE Step(i, f[i - 1])]
  BY <1>5, <1>7
<1>9. p = [i \in 0..n |-> IF i = 0 THEN start ELSE Step(i, p[i - 1])]
  <2>1. p = CHOOSE g : g = [i \in 0..n |-> IF i = 0 THEN start ELSE Step(i, g[i - 1])]
    BY <1>1 DEF SerializeLeaves, Step, start
  <2> QED
    BY <1>8, <2>1
<1> HIDE DEF p, F
<1>10. p[0] = start /\ \A i \in 0+1..n : p[i] = Step(i, p[i - 1])
  <2>1. 0 \in 0..n /\ \A i \in 0+1..n : i \in 0..n /\ i # 0
    OBVIOUS
  <2> QED
    BY <1>9, <2>1
<1> DEFINE S == {i \in 0..n : p[i] \in Results}
<1>11. 0 \in S /\ 0 \in Nat
  BY <1>2, <1>10
<1>12. ASSUME NEW i \in 0+1..n, i - 1 \in S PROVE i \in S
  <2>1. i \in 0..n /\ i # 0 /\ p[i - 1] \in Results
    BY <1>12
  <2> QED
    BY <1>3, <1>10, <2>1
<1>13. \A i \in 0..n : i \in S
  <2> HIDE DEF S
  <2> QED
    BY <1>11, <1>12, CountUp
<1>14. p \in [0..n -> Results]
  <2>1. \A i \in 0..n : p[i] \in Results
    BY <1>13
  <2> QED
    BY <1>9, <2>1
<1> QED
  BY <1>10, <1>14 DEF Mapped, Step, start, p

\* The first i leaves hold the bytes that call c stores.
Held(b, descs, i, c) ==
    \A j \in 1..i :
        /\ Copied(descs[j])
        /\ \A k \in 1..Size(descs[j]) : b[descs[j].offset + k] = Byte(c, j, k)

\* What has become of the buffer b after the first i of n leaves.
Kept(r, b, descs, n, i, c) ==
    /\ Len(r.buf) = Len(b)
    /\ \A k \in 1..Len(b) :
          (\A j \in 1..n : k \notin (descs[j].offset + 1)..End(descs[j])) => r.buf[k] = b[k]
    /\ r.exc = "none" => Held(r.buf, descs, i, c)

\* The arrays have the dtypes and the shapes of the layout.
Fit(arrays, descs, n) ==
    \A i \in 1..n : arrays[i].dtype = descs[i].dtype /\ arrays[i].shape = descs[i].shape

\* One more leaf: the bytes of the ones before it stay, since it starts after
\* they end.
LEMMA OneMoreLeaf ==
    ASSUME NEW descs, NEW n, NEW a, Laid(descs, n, a), NEW i \in 1..n, NEW c \in Nat,
           NEW b \in Seq(Nat), End(descs[n]) <= Len(b),
           NEW v \in Results, v.exc = "none", Kept(v, b, descs, n, i - 1, c),
           NEW r \in Results, Stores(r, v.buf, descs[i], i, c)
    PROVE  Kept(r, b, descs, n, i, c)
<1>1. n \in Nat /\ Len(b) \in Nat /\ Len(v.buf) = Len(b)
  BY DEF Laid, Kept
<1>2. Len(r.buf) = Len(b)
  BY <1>1 DEF Stores
<1>3. ASSUME NEW k \in 1..Len(b),
             \A j \in 1..n : k \notin (descs[j].offset + 1)..End(descs[j])
      PROVE  r.buf[k] = b[k]
  <2>1. r.buf[k] = v.buf[k]
    BY <1>1, <1>3 DEF Stores
  <2>2. v.buf[k] = b[k]
    BY <1>3 DEF Kept
  <2> QED
    BY <2>1, <2>2
<1>4. ASSUME r.exc = "none", NEW j \in 1..i, NEW k \in 1..Size(descs[j])
      PROVE  r.buf[descs[j].offset + k] = Byte(c, j, k)
  <2>1. CASE j = i
    BY <1>4, <2>1 DEF Stores
  <2>2. CASE j # i
    <3>1. j \in 1..i-1 /\ j \in 1..n /\ j < i
      BY <1>1, <2>2
    <3>2. /\ descs[j].offset \in Nat /\ Size(descs[j]) \in Nat
          /\ End(descs[j]) = descs[j].offset + Size(descs[j])
          /\ descs[i].offset \in Nat /\ Size(descs[i]) \in Nat
          /\ End(descs[i]) = descs[i].offset + Size(descs[i])
      BY <3>1, LaidLeaf
    <3>3. End(descs[j]) <= descs[i].offset /\ End(descs[i]) <= End(descs[n])
      BY <3>1, LaidInOrder, LaidLast
    <3> DEFINE m == descs[j].offset + k
    <3>4. n \in 1..n
      BY <1>1
    <3>5. End(descs[n]) \in Nat
      BY <3>4, LaidLeaf
    <3>6. m \in 1..Len(b) /\ m \notin (descs[i].offset + 1)..End(descs[i])
      <4>1. k \in Nat /\ 1 <= k /\ k <= Size(descs[j])
        BY <3>2
      <4>2. m \in Nat /\ 1 <= m /\ m <= End(descs[j])
        BY <3>2, <4>1
      <4> HIDE DEF m
      <4>3. End(descs[j]) <= Len(b)
        BY <1>1, <3>2, <3>3, <3>5
      <4>4. \A x, y, z \in Nat : x <= y /\ y <= z => x <= z
        OBVIOUS
      <4>5. End(descs[j]) \in Nat
        BY <3>1, LaidLeaf
      <4>6. m <= Len(b) /\ m <= descs[i].offset
        BY <1>1, <3>2, <3>3, <4>2, <4>3, <4>4, <4>5, Zenon
      <4> QED
        BY <1>1, <3>2, <4>2, <4>6
    <3>7. v.buf[m] = Byte(c, j, k)
      BY <3>1 DEF Kept, Held
    <3> HIDE DEF m
    <3>8. r.buf[m] = v.buf[m]
      BY <1>1, <3>6 DEF Stores
    <3> QED
      BY <3>7, <3>8 DEF m
  <2> QED
    BY <2>1, <2>2
<1>5. ASSUME r.exc = "none", NEW j \in 1..i PROVE Copied(descs[j])
  <2>1. CASE j = i
    BY <1>5, <2>1 DEF Stores
  <2>2. CASE j # i
    <3>1. j \in 1..i-1
      BY <1>1, <2>2
    <3> QED
      BY <3>1 DEF Kept, Held
  <2> QED
    BY <2>1, <2>2
<1> QED
  BY <1>2, <1>3, <1>4, <1>5 DEF Kept, Held

\* After each leaf, when the arrays fit the layout and the buffer.
LEMMA LeavesStored ==
    ASSUME NEW descs, NEW n, NEW a, Laid(descs, n, a),
           NEW arrays, Fit(arrays, descs, n), NEW c \in Nat, NEW views,
           NEW b \in Seq(Nat), End(descs[n]) <= Len(b),
           NEW leaf, Mapped(leaf, arrays, descs, n, b, c, views)
    PROVE  \A i \in 0..n : Kept(leaf[i], b, descs, n, i, c)
<1> DEFINE S == {i \in 0..n : Kept(leaf[i], b, descs, n, i, c)}
<1>1. n \in Nat /\ 0 \in Nat /\ Len(b) \in Nat
  BY DEF Laid
<1>2. 0 \in S
  <2>1. leaf[0] = [buf |-> b, exc |-> "none"]
    BY DEF Mapped
  <2>2. Held(b, descs, 0, c)
    BY DEF Held
  <2>3. Kept(leaf[0], b, descs, n, 0, c)
    BY <2>1, <2>2 DEF Kept
  <2> QED
    BY <1>1, <2>3
<1>3. ASSUME NEW i \in 0+1..n, i - 1 \in S PROVE i \in S
  <2> DEFINE v == leaf[i - 1]
             r == leaf[i]
  <2>1. i \in 1..n /\ i \in 0..n /\ i - 1 \in 0..n /\ n \in 1..n
    BY <1>1
  <2>2. v \in Results /\ r \in Results /\ Kept(v, b, descs, n, i - 1, c)
    BY <1>3, <2>1 DEF Mapped
  <2>3. r = IF v.exc # "none" THEN v
            ELSE SerializeLeaf(v.buf, arrays[i], descs[i], i, c, views)
    BY DEF Mapped
  <2> HIDE DEF v, r
  <2>4. CASE v.exc # "none"
    BY <2>1, <2>2, <2>3, <2>4 DEF Kept, r
  <2>5. CASE v.exc = "none"
    <3>1. v.buf \in Seq(Nat) /\ Len(v.buf) = Len(b)
      BY <2>2 DEF Results, Kept
    <3>2. descs[i] \in Descs /\ End(descs[i]) <= End(descs[n])
          /\ End(descs[i]) \in Nat /\ End(descs[n]) \in Nat
      BY <2>1, LaidLeaf, LaidLast
    <3>3. arrays[i].dtype = descs[i].dtype /\ arrays[i].shape = descs[i].shape
      BY <2>1 DEF Fit
    <3>4. End(descs[i]) <= Len(v.buf)
      BY <1>1, <3>1, <3>2
    <3>5. i \in Nat
      BY <2>1
    <3>6. Stores(SerializeLeaf(v.buf, arrays[i], descs[i], i, c, views),
                 v.buf, descs[i], i, c)
      BY <3>1, <3>2, <3>3, <3>4, <3>5, LeafStored
    <3>7. Stores(r, v.buf, descs[i], i, c)
      BY <2>3, <2>5, <3>6
    <3>8. Kept(r, b, descs, n, i, c)
      BY <2>1, <2>2, <2>5, <3>7, OneMoreLeaf
    <3> QED
      BY <2>1, <3>8 DEF r
  <2> QED
    BY <2>4, <2>5
<1>4. \A i \in 0..n : i \in S
  <2> HIDE DEF S
  <2> QED
    BY <1>1, <1>2, <1>3, CountUp
<1> QED
  BY <1>4

\* What serialize_nptree() has done to a buffer b.
Serialized(r, t, l, n, b, c) ==
    /\ r \in Results
    /\ Validates(t, l) =>
          /\ Kept(r, b, l.leaves, n, n, c)
          /\ r.exc = "none" => calc_buffer_size(l) <= Len(b)

\* serialize_nptree() of a tree with as many leaves as the layout.
LEMMA SerializeStores ==
    ASSUME NEW l, NEW n, NEW a, Laid(l.leaves, n, a), Len(l.leaves) = n,
           NEW t, t.leaves \in [1..n -> Arrays \cup {NotArray}],
           NEW b \in Seq(Nat), NEW c \in Nat, NEW views
    PROVE  Serialized(serialize_nptree(t, l, b, c, views), t, l, n, b, c)
<1> DEFINE r == serialize_nptree(t, l, b, c, views)
           descs == l.leaves
           leaf == SerializeLeaves(t.leaves, l.leaves, b, c, views)
<1>1. n \in Nat \ {0} /\ Len(t.leaves) = n /\ n \in 0..n /\ n \in 1..n
      /\ descs \in [1..n -> Descs]
  BY DEF Laid
<1>2. \/ r = [buf |-> b, exc |-> "ValueError"]
      \/ r = leaf[n] /\ ~(Len(b) < calc_buffer_size(l))
  BY <1>1 DEF serialize_nptree
<1> HIDE DEF r, leaf
<1>3. CASE r = [buf |-> b, exc |-> "ValueError"]
  BY <1>3 DEF Serialized, Results, Kept, r
<1>4. CASE r = leaf[n] /\ ~(Len(b) < calc_buffer_size(l))
  <2>1. Mapped(leaf, t.leaves, descs, n, b, c, views)
    BY <1>1, LeavesMapped DEF leaf
  <2>2. r \in Results
    BY <1>1, <1>4, <2>1 DEF Mapped
  <2>3. calc_buffer_size(l) = End(descs[n])
    BY LaidSize
  <2>4. End(descs[n]) \in Nat
    BY <1>1, DescSize
  <2>5. End(descs[n]) <= Len(b)
    BY <1>4, <2>3, <2>4
  <2>6. ASSUME Validates(t, l) PROVE Kept(r, b, descs, n, n, c)
    <3>1. Fit(t.leaves, descs, n)
      BY <1>1, <2>6 DEF Validates, Fit
    <3>2. \A i \in 0..n : Kept(leaf[i], b, descs, n, i, c)
      BY <2>1, <2>5, <3>1, LeavesStored
    <3> QED
      BY <1>1, <1>4, <3>2
  <2> QED
    BY <2>2, <2>3, <2>5, <2>6 DEF Serialized, r
<1> QED
  BY <1>2, <1>3, <1>4

-----------------------------------------------------------------------------
(* RoundTrip and OnlyLeavesWritten *)

\* The buffer is a bytearray.
BufferInv == calls \in Nat /\ (buf = NoBuffer \/ buf \in Seq(Nat))

\* The last call is a serialize_nptree() that has returned.
Done == last.op \in {"serialize", "serialize_new"} /\ last.exc = "none"

\* Its buffer is in use, and holds the bytes of the arrays when the tree is one
\* that validate_layout() accepts.
DoneInv ==
    Done =>
        /\ layout # NoLayout /\ buf \in Seq(Nat)
        /\ last.tree.leaves \in [1..Len(tree.leaves) -> Arrays \cup {NotArray}]
        /\ Validates(last.tree, layout) =>
              /\ calc_buffer_size(layout) <= Len(buf)
              /\ Held(buf, layout.leaves, Len(tree.leaves), calls)

NpTreeInv == LayoutInv /\ BufferInv /\ DoneInv

\* Nothing is serialized at first.
LEMMA NpTreeStart == Init => NpTreeInv
<1> SUFFICES ASSUME Init PROVE NpTreeInv
  OBVIOUS
<1>1. LayoutInv
  BY LayoutStart
<1>2. BufferInv
  BY DEF Init, BufferInv
<1>3. last.op = "none"
  BY DEF Init, Idle
<1>4. DoneInv
  BY <1>3 DEF DoneInv, Done
<1> QED
  BY <1>1, <1>2, <1>4 DEF NpTreeInv

\* The trees that the caller serializes have as many leaves as the layout.
LEMMA VariantLeaves ==
    ASSUME NEW s \in Trees, NEW t \in Variants(s)
    PROVE  t.leaves \in [1..Len(s.leaves) -> Arrays \cup {NotArray}]
<1> DEFINE n == Len(s.leaves)
<1>1. n \in Nat \ {0} /\ s.leaves \in [1..n -> Arrays \cup {NotArray}]
  BY TreeLeaves
<1>2. s = [struct |-> s.struct, leaves |-> s.leaves]
  BY DEF Trees
<1> HIDE DEF n
<1>3. CASE t = s
  BY <1>1, <1>3 DEF n
<1>4. ASSUME NEW i \in DOMAIN s.leaves, NEW x \in Arrays \cup {NotArray},
             t = [s EXCEPT !.leaves[i] = x]
      PROVE  t.leaves \in [1..n -> Arrays \cup {NotArray}]
  <2>1. t.leaves = [s.leaves EXCEPT ![i] = x]
    BY <1>2, <1>4
  <2> QED
    BY <1>1, <1>4, <2>1
<1>5. ASSUME NEW x, t = [s EXCEPT !.struct = x]
      PROVE  t.leaves \in [1..n -> Arrays \cup {NotArray}]
  <2>1. t.leaves = s.leaves
    BY <1>2, <1>5
  <2> QED
    BY <1>1, <2>1
<1>6. \/ t = s
      \/ \E i \in DOMAIN s.leaves, x \in Arrays \cup {NotArray} :
            t = [s EXCEPT !.leaves[i] = x]
      \/ \E x \in Structures : t = [s EXCEPT !.struct = x]
  BY DEF Variants
<1>7. t.leaves \in [1..n -> Arrays \cup {NotArray}]
  BY <1>1, <1>3, <1>4, <1>5, <1>6, Zenon
<1> QED
  BY <1>7 DEF n

\* What serialize_nptree() does with the layout in use.
LEMMA SerializeStep ==
    ASSUME LayoutInv, layout # NoLayout, NEW t \in Variants(tree),
           NEW b \in Seq(Nat), NEW c \in Nat, NEW views
    PROVE  /\ Serialized(serialize_nptree(t, layout, b, c, views),
                         t, layout, Len(tree.leaves), b, c)
           /\ t.leaves \in [1..Len(tree.leaves) -> Arrays \cup {NotArray}]
<1> DEFINE n == Len(tree.leaves)
<1>1. Laid(layout.leaves, n, alignment) /\ Len(layout.leaves) = n
  BY BuildLays DEF LayoutInv
<1>2. t.leaves \in [1..n -> Arrays \cup {NotArray}]
  BY VariantLeaves DEF LayoutInv
<1> HIDE DEF n
<1>3. Serialized(serialize_nptree(t, layout, b, c, views), t, layout, n, b, c)
  BY <1>1, <1>2, SerializeStores
<1> QED
  BY <1>2, <1>3 DEF n

\* A call that leaves result r in the buffer, whatever it was before.
LEMMA StoredDone ==
    ASSUME NEW t, NEW r, NEW b \in Seq(Nat), NEW l, NEW n, NEW c,
           Serialized(r, t, l, n, b, c), r.exc = "none", Validates(t, l)
    PROVE  /\ r.buf \in Seq(Nat) /\ Len(r.buf) = Len(b)
           /\ calc_buffer_size(l) <= Len(b) /\ Held(r.buf, l.leaves, n, c)
<1> QED
  BY DEF Serialized, Kept, Results

\* calc_buffer_size() of the layout in use.
LEMMA LayoutSize ==
    ASSUME LayoutInv, layout # NoLayout
    PROVE  calc_buffer_size(layout) \in Nat
<1> DEFINE n == Len(tree.leaves)
<1>1. Laid(layout.leaves, n, alignment)
  BY BuildLays DEF LayoutInv
<1> HIDE DEF n
<1>2. n \in 1..n
  BY <1>1 DEF Laid
<1>3. calc_buffer_size(layout) = End(layout.leaves[n])
  BY <1>1, LaidSize
<1>4. End(layout.leaves[n]) \in Nat
  BY <1>1, <1>2, LaidLeaf
<1> QED
  BY <1>3, <1>4

\* The invariant after a call of serialize_nptree() that leaves x in the buffer.
LEMMA AfterSerialize ==
    ASSUME NEW t, NEW x \in Seq(Nat), NEW op, NEW exc,
           layout # NoLayout, UNCHANGED <<tree, layout>>,
           calls' = calls + 1, calls + 1 \in Nat, buf' = x,
           last' = [op |-> op, tree |-> t, exc |-> exc],
           t.leaves \in [1..Len(tree.leaves) -> Arrays \cup {NotArray}],
           exc = "none" /\ Validates(t, layout) =>
              /\ calc_buffer_size(layout) <= Len(x)
              /\ Held(x, layout.leaves, Len(tree.leaves), calls + 1)
    PROVE  BufferInv' /\ DoneInv'
<1>1. BufferInv'
  BY DEF BufferInv
<1>2. ASSUME Done' PROVE exc = "none" /\ last'.tree = t
  BY <1>2 DEF Done
<1>3. Validates(last.tree, layout)' <=> Validates(last'.tree, layout)
  BY DEF Validates
<1>4. calc_buffer_size(layout)' = calc_buffer_size(layout)
  BY DEF calc_buffer_size
<1>5. Held(buf, layout.leaves, Len(tree.leaves), calls)'
        <=> Held(x, layout.leaves, Len(tree.leaves), calls + 1)
  BY DEF Held
<1>6. DoneInv'
  BY <1>2, <1>3, <1>4, <1>5 DEF DoneInv
<1> QED
  BY <1>1, <1>6

\* Every call keeps the invariant, a failed one included.
LEMMA NpTreeKept == NpTreeInv /\ [Next]_vars => NpTreeInv'
<1> SUFFICES ASSUME NpTreeInv, [Next]_vars PROVE NpTreeInv'
  OBVIOUS
<1>1. LayoutInv /\ BufferInv /\ DoneInv
  BY DEF NpTreeInv
<1>2. LayoutInv'
  BY <1>1, LayoutKept
<1> DEFINE n == Len(tree.leaves)
<1> SUFFICES BufferInv' /\ DoneInv'
  BY <1>2 DEF NpTreeInv
<1>3. CASE Build
  <2>1. UNCHANGED <<buf, calls>> /\ last'.op = "build"
    BY <1>3 DEF Build
  <2> QED
    BY <1>1, <2>1 DEF BufferInv, DoneInv, Done
<1>4. CASE Deserialize
  <2>1. buf' = buf /\ calls' = calls + 1 /\ last'.op = "deserialize"
    BY <1>4 DEF Deserialize, Call
  <2> QED
    BY <1>1, <2>1 DEF BufferInv, DoneInv, Done
<1>5. CASE UNCHANGED <<tree, layout, buf, calls, last>>
  BY <1>1, <1>5 DEF BufferInv, DoneInv, Done, Validates, Held, calc_buffer_size
<1>6. CASE Drop
  BY <1>5, <1>6 DEF Drop
<1>7. ASSUME NEW m \in {0, 2}, Allocate(m) PROVE BufferInv' /\ DoneInv'
  <2>1. layout # NoLayout /\ buf = NoBuffer /\ calls' = calls /\ last' = last
        /\ buf' = [k \in 1..(calc_buffer_size(layout) + m) |-> 0]
    BY <1>7 DEF Allocate
  <2>2. buf \notin Seq(Nat)
    BY <2>1 DEF NoBuffer
  <2>3. ~Done
    BY <1>1, <2>2 DEF DoneInv
  <2>4. calc_buffer_size(layout) \in Nat
    BY <1>1, <2>1, LayoutSize
  <2>5. buf' \in Seq(Nat)
    BY <2>1, <2>4
  <2> QED
    BY <1>1, <2>1, <2>3, <2>5 DEF BufferInv, DoneInv, Done
<1>8. ASSUME NEW t \in Variants(tree), Serialize(t) PROVE BufferInv' /\ DoneInv'
  <2> DEFINE r == serialize_nptree(t, layout, buf, calls + 1, held)
  <2>1. /\ layout # NoLayout /\ buf # NoBuffer /\ calls' = calls + 1
        /\ UNCHANGED <<tree, layout>> /\ buf' = r.buf
        /\ last' = [op |-> "serialize", tree |-> t, exc |-> r.exc]
    BY <1>8 DEF Serialize, Call
  <2>2. buf \in Seq(Nat) /\ calls + 1 \in Nat
    BY <1>1, <2>1 DEF BufferInv
  <2>3. /\ Serialized(r, t, layout, n, buf, calls + 1)
        /\ t.leaves \in [1..n -> Arrays \cup {NotArray}]
    BY <1>1, <2>1, <2>2, SerializeStep
  <2> HIDE DEF r
  <2>4. r.buf \in Seq(Nat)
    BY <2>3 DEF Serialized, Results
  <2>5. r.exc = "none" /\ Validates(t, layout) =>
            /\ Len(r.buf) = Len(buf) /\ calc_buffer_size(layout) <= Len(buf)
            /\ Held(r.buf, layout.leaves, n, calls + 1)
    BY <2>2, <2>3, StoredDone
  <2> QED
    BY <2>1, <2>2, <2>3, <2>4, <2>5, AfterSerialize
<1>9. ASSUME NEW t \in Variants(tree), SerializeNew(t) PROVE BufferInv' /\ DoneInv'
  <2> DEFINE zero == [k \in 1..calc_buffer_size(layout) |-> 0]
             r == serialize_nptree(t, layout, zero, calls + 1, FALSE)
  <2>1. /\ layout # NoLayout /\ calls' = calls + 1
        /\ UNCHANGED <<tree, layout>> /\ buf' = (IF r.exc = "none" THEN r.buf ELSE buf)
        /\ last' = [op |-> "serialize_new", tree |-> t, exc |-> r.exc]
    BY <1>9 DEF SerializeNew, Call
  <2>2. calc_buffer_size(layout) \in Nat
    BY <1>1, <2>1, LayoutSize
  <2>3. zero \in Seq(Nat) /\ calls + 1 \in Nat
    BY <1>1, <2>2 DEF BufferInv
  <2> HIDE DEF zero
  <2>4. /\ Serialized(r, t, layout, n, zero, calls + 1)
        /\ t.leaves \in [1..n -> Arrays \cup {NotArray}]
    BY <1>1, <2>1, <2>3, SerializeStep
  <2> HIDE DEF r
  <2>5. r.buf \in Seq(Nat)
    BY <2>4 DEF Serialized, Results
  <2>6. r.exc = "none" /\ Validates(t, layout) =>
            /\ Len(r.buf) = Len(zero) /\ calc_buffer_size(layout) <= Len(zero)
            /\ Held(r.buf, layout.leaves, n, calls + 1)
    BY <2>3, <2>4, StoredDone
  <2>7. CASE r.exc = "none"
    <3>1. buf' = r.buf
      BY <2>1, <2>7
    <3> QED
      BY <2>1, <2>3, <2>4, <2>5, <2>6, <3>1, AfterSerialize
  <2>8. CASE r.exc # "none"
    BY <1>1, <2>1, <2>3, <2>8 DEF BufferInv, DoneInv, Done
  <2> QED
    BY <2>7, <2>8
<1>10. CASE UNCHANGED vars
  BY <1>5, <1>10 DEF vars
<1> QED
  BY <1>3, <1>4, <1>6, <1>7, <1>8, <1>9, <1>10 DEF Next

\* The invariant holds in every reachable state.
LEMMA NpTreeAlways == Spec => []NpTreeInv
<1> QED
  BY NpTreeStart, NpTreeKept, PTL DEF Spec

\* The leaf holds the bytes that call c stores for leaf i.
LeafHeld(b, desc, i, c) == \A k \in 1..Size(desc) : b[desc.offset + k] = Byte(c, i, k)

\* What a leaf holds is what deserialize_nptree() gives for it.
LEMMA LeafRead ==
    ASSUME NEW b \in Seq(Nat), NEW desc \in Descs, End(desc) <= Len(b),
           NEW c \in Nat, NEW i \in Nat, LeafHeld(b, desc, i, c)
    PROVE  LeafData(b, desc) = LeafBytesOf(c, i, Size(desc))
<1> DEFINE N == Size(desc)
           o == desc.offset
           s == SubSeq(b, o + 1, o + N)
<1>1. o \in Nat /\ N \in Nat /\ o + N <= Len(b)
  BY DescSize DEF End
<1>2. \A k \in 1..N : b[o + k] = Byte(c, i, k)
  BY DEF LeafHeld
<1>3. o + 1 \in Nat /\ o + N \in Nat /\ 1 <= o + 1 /\ o + 1 <= (o + N) + 1
  BY <1>1
<1>4. IsPart(s, b, o + 1, o + N)
  <2> DEFINE m == o + 1
             e == o + N
  <2>1. m \in Nat /\ e \in Nat /\ 1 <= m /\ m <= e + 1 /\ e <= Len(b)
    BY <1>1, <1>3
  <2> HIDE DEF m, e
  <2>2. IsPart(SubSeq(b, m, e), b, m, e)
    BY <2>1, Part
  <2> QED
    BY <2>2 DEF m, e
<1>5. LeafData(b, desc) = s
  BY DEF LeafData
<1> HIDE DEF s, N, o
<1>6. s \in Seq(Nat) /\ Len(s) = N
  BY <1>1, <1>4 DEF IsPart
<1>7. ASSUME NEW k \in 1..N PROVE s[k] = Byte(c, i, k)
  <2>1. k \in 1..(o + N)-(o + 1)+1 /\ (o + 1) + k - 1 = o + k
    BY <1>1
  <2>2. s[k] = b[o + k]
    BY <1>4, <2>1 DEF IsPart
  <2> QED
    BY <1>2, <2>2
<1>8. s = [k \in 1..N |-> s[k]]
  BY <1>6
<1>9. s = [k \in 1..N |-> Byte(c, i, k)]
  BY <1>7, <1>8
<1> QED
  BY <1>5, <1>9 DEF N, LeafBytesOf

\* deserialize_nptree() reads from each leaf what was stored there, unless an
\* array that has no bytes is of a dtype it cannot read.
LEMMA HeldIsRead == NpTreeInv => RoundTrip
<1> DEFINE result == deserialize_nptree(layout, buf)
           given == [i \in DOMAIN last.tree.leaves |->
                       LET a == last.tree.leaves[i] IN
                       [dtype |-> a.dtype, shape |-> a.shape,
                        data |-> [k \in 1..NBytes(a.dtype, a.shape) |-> Byte(calls, i, k)]]]
<1> SUFFICES ASSUME NpTreeInv, Done, Validates(last.tree, layout)
             PROVE  \/ result.exc = "none" /\ result.leaves = given
                    \/ /\ result.exc = "ValueError"
                       /\ \E i \in DOMAIN last.tree.leaves :
                             LET a == last.tree.leaves[i] IN
                             NBytes(a.dtype, a.shape) = 0 /\ ~Readable(a.dtype)
  BY DEF RoundTrip, Done
<1> DEFINE n == Len(tree.leaves)
           descs == layout.leaves
           arrays == last.tree.leaves
<1>1. LayoutInv /\ layout # NoLayout /\ buf \in Seq(Nat) /\ calls \in Nat
  BY DEF NpTreeInv, DoneInv, BufferInv
<1>2. arrays \in [1..n -> Arrays \cup {NotArray}]
      /\ calc_buffer_size(layout) <= Len(buf) /\ Held(buf, descs, n, calls)
  BY DEF NpTreeInv, DoneInv
<1>3. Laid(descs, n, alignment)
  BY <1>1, BuildLays DEF LayoutInv
<1>4. DOMAIN descs = 1..n /\ n \in 1..n
  BY <1>3 DEF Laid
<1>5. \A i \in 1..n : arrays[i].dtype = descs[i].dtype /\ arrays[i].shape = descs[i].shape
  BY <1>2 DEF Validates
<1> HIDE DEF n, descs, arrays
<1>6. calc_buffer_size(layout) = End(descs[n]) /\ End(descs[n]) \in Nat
  <2>1. calc_buffer_size(layout) = End(descs[n])
    BY <1>3, LaidSize DEF descs
  <2> QED
    BY <1>3, <1>4, <2>1, LaidLeaf
<1>7. ASSUME NEW i \in 1..n
      PROVE  LeafData(buf, descs[i]) = [k \in 1..Size(descs[i]) |-> Byte(calls, i, k)]
  <2>1. descs[i] \in Descs /\ End(descs[i]) \in Nat /\ End(descs[i]) <= End(descs[n])
    BY <1>3, LaidLeaf, LaidLast
  <2>2. End(descs[i]) <= Len(buf)
    BY <1>1, <1>2, <1>6, <2>1
  <2>3. LeafHeld(buf, descs[i], i, calls)
    BY <1>2 DEF Held, LeafHeld
  <2>4. i \in Nat
    OBVIOUS
  <2>5. LeafData(buf, descs[i]) = LeafBytesOf(calls, i, Size(descs[i]))
    BY <1>1, <2>1, <2>2, <2>3, <2>4, LeafRead
  <2> QED
    BY <2>5 DEF LeafBytesOf
<1> DEFINE refused == \E i \in 1..n : ~Readable(descs[i].dtype)
           read == [i \in 1..n |-> [dtype |-> descs[i].dtype, shape |-> descs[i].shape,
                                    data |-> LeafData(buf, descs[i])]]
<1>8. result = IF refused THEN [exc |-> "ValueError", leaves |-> <<>>]
               ELSE [exc |-> "none", leaves |-> read]
  <2>1. ~(Len(buf) < calc_buffer_size(layout))
    BY <1>1, <1>2, <1>6
  <2> QED
    BY <1>4, <2>1 DEF deserialize_nptree, descs
<1>9. \A i \in 1..n : [k \in 1..Size(descs[i]) |-> Byte(calls, i, k)]
          = [k \in 1..NBytes(arrays[i].dtype, arrays[i].shape) |-> Byte(calls, i, k)]
  BY <1>5 DEF Size
<1>10. \A i \in 1..n :
          [dtype |-> descs[i].dtype, shape |-> descs[i].shape,
           data |-> LeafData(buf, descs[i])]
          = [dtype |-> arrays[i].dtype, shape |-> arrays[i].shape,
             data |-> [k \in 1..NBytes(arrays[i].dtype, arrays[i].shape) |->
                          Byte(calls, i, k)]]
  BY <1>5, <1>7, <1>9
<1>11. DOMAIN arrays = 1..n
  BY <1>2
<1>12. read = given
  BY <1>10, <1>11 DEF arrays
<1>13. ASSUME NEW i \in 1..n, ~Readable(descs[i].dtype)
       PROVE  NBytes(arrays[i].dtype, arrays[i].shape) = 0 /\ ~Readable(arrays[i].dtype)
  <2>1. /\ descs[i].dtype \in Dtypes /\ descs[i].shape \in Seq(Nat)
        /\ Copied(descs[i])
    <3>1. descs[i] \in Descs
      BY <1>3, LaidLeaf
    <3> QED
      BY <1>2, <3>1 DEF Descs, Held
  <2>2. CASE ItemSize[descs[i].dtype] = 0
    <3>1. Products(descs[i].shape)[Len(descs[i].shape)] \in Nat
      BY <2>1, ProductsNat
    <3> QED
      BY <1>5, <1>13, <2>2, <3>1 DEF NBytes
  <2>3. CASE descs[i].dtype \in Objects
    <3>1. Size(descs[i]) = 0
      BY <2>1, <2>3, NpTreeAssumption DEF Copied
    <3> QED
      BY <1>5, <1>13, <3>1 DEF Size
  <2> QED
    BY <1>13, <2>2, <2>3 DEF Readable
<1> HIDE DEF result, given, read
<1>14. CASE refused
  BY <1>8, <1>11, <1>13, <1>14 DEF arrays
<1>15. CASE ~refused
  BY <1>8, <1>12, <1>15
<1> QED
  BY <1>14, <1>15

\* serialize_nptree() and deserialize_nptree(), for every tree that
\* validate_layout() accepts: the arrays come back as they were, whatever the
\* buffer has been through, unless one of them has no bytes and a dtype of
\* objects or of items without bytes, for which np.frombuffer() raises.
THEOREM AlwaysRoundTrip == Spec => []RoundTrip
<1> QED
  BY NpTreeAlways, HeldIsRead, PTL

\* serialize_nptree() into the caller's buffer, for such trees: the buffer
\* keeps its length and the bytes between the leaves and after them, also when
\* the call raises half way.
THEOREM WritesOnlyLeaves == Spec => OnlyLeavesWritten
<1> DEFINE A == calls' # calls /\ last'.op = "serialize" /\ Validates(last'.tree, layout) =>
                  /\ Len(buf') = Len(buf)
                  /\ \A k \in DOMAIN buf :
                        (\A i \in DOMAIN layout.leaves : k \notin LeafBytes(layout, i))
                            => buf'[k] = buf[k]
<1>1. NpTreeInv /\ [Next]_vars => [A]_vars
  <2> SUFFICES ASSUME NpTreeInv, Next, calls' # calls, last'.op = "serialize",
                      Validates(last'.tree, layout)
               PROVE  A
    BY DEF vars
  <2>1. PICK t \in Variants(tree) : Serialize(t)
    <3>1. ~Build /\ ~Drop /\ ~\E m \in {0, 2} : Allocate(m)
      BY DEF Build, Drop, Allocate
    <3>2. ~Deserialize
      BY DEF Deserialize
    <3>3. \A t \in Variants(tree) : ~SerializeNew(t)
      <4>1. \A t \in Variants(tree) : SerializeNew(t) => last'.op = "serialize_new"
        BY DEF SerializeNew
      <4> QED
        BY <4>1
    <3> QED
      BY <3>1, <3>2, <3>3 DEF Next
  <2> DEFINE n == Len(tree.leaves)
             r == serialize_nptree(t, layout, buf, calls + 1, held)
  <2>2. /\ layout # NoLayout /\ buf # NoBuffer /\ buf' = r.buf /\ last'.tree = t
    BY <2>1 DEF Serialize, Call
  <2>3. LayoutInv /\ buf \in Seq(Nat) /\ calls + 1 \in Nat
    BY <2>2 DEF NpTreeInv, BufferInv
  <2>4. Serialized(r, t, layout, n, buf, calls + 1)
    BY <2>2, <2>3, SerializeStep
  <2>5. Laid(layout.leaves, n, alignment)
    BY <2>2, <2>3, BuildLays DEF LayoutInv
  <2> HIDE DEF r, n
  <2>6. Kept(r, buf, layout.leaves, n, n, calls + 1)
    BY <2>2, <2>4 DEF Serialized
  <2>7. DOMAIN layout.leaves = 1..n /\ DOMAIN buf = 1..Len(buf)
    BY <2>3, <2>5 DEF Laid
  <2>8. \A i : LeafBytes(layout, i) = (layout.leaves[i].offset + 1)..End(layout.leaves[i])
    BY DEF LeafBytes, End
  <2> QED
    BY <2>2, <2>6, <2>7, <2>8 DEF Kept
<1> QED
  BY <1>1, NpTreeAlways, PTL DEF Spec, OnlyLeavesWritten
=============================================================================
