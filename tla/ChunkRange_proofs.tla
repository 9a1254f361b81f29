-------------------------- MODULE ChunkRange_proofs --------------------------
(* The chunks of a dispatch partition its items, whatever their number, the *)
(* number of threads and the alignment.                                     *)
EXTENDS ChunkRange, TLAPS

(* Division with a positive divisor: what the lemmas below use of it.       *)
LEMMA DivMod ==
    ASSUME NEW a \in Nat, NEW b \in Nat \ {0}
    PROVE  /\ a \div b \in Nat
           /\ a % b \in 0 .. b - 1
           /\ a = b * (a \div b) + (a % b)
  OBVIOUS

(* A factor of a product may be replaced by a larger one.                   *)
LEMMA MulMono ==
    ASSUME NEW a \in Nat, NEW b \in Nat, NEW c \in Nat, a <= b
    PROVE  a * c <= b * c
  OBVIOUS

(* Block boundaries are natural numbers.                                    *)
LEMMA BoundaryNat ==
    ASSUME NEW q \in Nat, NEW r \in Nat, NEW t \in Nat
    PROVE  BlockBegin(t, q, r) \in Nat /\ BlockBegin(t + 1, q, r) \in Nat
<1>1. t * q \in Nat /\ (t + 1) * q \in Nat
  OBVIOUS
<1> QED BY <1>1 DEF BlockBegin, Least

(* A thread's last boundary is not beyond the first of any later thread.    *)
LEMMA BoundaryOrder ==
    ASSUME NEW q \in Nat, NEW r \in Nat, NEW t \in Nat, NEW u \in Nat, t < u
    PROVE  BlockBegin(t + 1, q, r) <= BlockBegin(u, q, r)
<1>1. (t + 1) * q <= u * q
  BY MulMono
<1>2. u * q \in Nat /\ (t + 1) * q \in Nat
  OBVIOUS
<1> QED BY <1>1, <1>2 DEF BlockBegin, Least

(* Every block below T * q + r lies between the boundaries of some thread.  *)
LEMMA BlockOwner ==
    ASSUME NEW q \in Nat, NEW T \in Nat \ {0}, NEW r \in 0 .. T - 1,
           NEW b \in Nat, b < T * q + r
    PROVE  \E t \in 0 .. T - 1 : /\ BlockBegin(t, q, r) <= b
                                 /\ b < BlockBegin(t + 1, q, r)
<1>1. CASE b < r * (q + 1)
  <2> DEFINE t == b \div (q + 1)
  <2>1. t \in Nat /\ b % (q + 1) \in 0 .. q /\ b = (q + 1) * t + (b % (q + 1))
    <3>1. q + 1 \in Nat \ {0} /\ (q + 1) - 1 = q
      OBVIOUS
    <3> DEFINE p == q + 1
    <3>2. b \div p \in Nat /\ b % p \in 0 .. p - 1 /\ b = p * (b \div p) + (b % p)
      <4> HIDE DEF p
      <4>1. p \in Nat \ {0}
        BY <3>1 DEF p
      <4> QED BY <4>1, DivMod
    <3> QED BY <3>1, <3>2
  <2> HIDE DEF t
  <2>2. (q + 1) * t <= b /\ b < (q + 1) * t + q + 1
    BY <2>1
  <2>3. t < r
    <3>1. SUFFICES ASSUME r <= t PROVE FALSE
      BY <2>1
    <3>2. r * (q + 1) <= t * (q + 1)
      BY <2>1, <3>1, MulMono
    <3> QED BY <1>1, <2>1, <2>2, <3>2
  <2>4. BlockBegin(t, q, r) = t * q + t /\ BlockBegin(t + 1, q, r) = (t + 1) * q + (t + 1)
    BY <2>1, <2>3 DEF BlockBegin, Least
  <2>5. (q + 1) * t = t * q + t /\ (t + 1) * q = t * q + q /\ t * q \in Nat
    BY <2>1
  <2> QED BY <2>1, <2>2, <2>3, <2>4, <2>5
<1>2. CASE b >= r * (q + 1)
  <2> DEFINE d == b - r * (q + 1)
             k == d \div q
             t == r + k
  <2>1. r * (q + 1) = r * q + r /\ r * q \in Nat /\ T * q \in Nat
    OBVIOUS
  <2>2. q # 0
    <3>1. SUFFICES ASSUME q = 0 PROVE FALSE
      OBVIOUS
    <3>2. T * q = 0 /\ r * q = 0
      BY <3>1
    <3> QED BY <1>2, <2>1, <3>2
  <2>3. d \in Nat
    BY <1>2, <2>1
  <2>4. k \in Nat /\ d % q \in 0 .. q - 1 /\ d = q * k + (d % q)
    BY <2>2, <2>3, DivMod
  <2> HIDE DEF k
  <2>5. q * k <= d /\ d < q * k + q
    BY <2>2, <2>3, <2>4
  <2>6. k < T - r
    <3>1. SUFFICES ASSUME T - r <= k PROVE FALSE
      BY <2>4
    <3>2. (T - r) * q <= k * q
      BY <2>4, <3>1, MulMono
    <3>3. (T - r) * q = T * q - r * q /\ k * q = q * k
      BY <2>4
    <3>4. d < T * q - r * q
      BY <2>1
    <3> HIDE DEF d
    <3> QED BY <2>1, <2>3, <2>4, <2>5, <3>2, <3>3, <3>4
  <2>7. t \in 0 .. T - 1
    BY <2>4, <2>6
  <2>8. BlockBegin(t, q, r) = t * q + r /\ BlockBegin(t + 1, q, r) = (t + 1) * q + r
    BY <2>4 DEF BlockBegin, Least
  <2>9. t * q = r * q + q * k /\ (t + 1) * q = r * q + q * k + q /\ q * k \in Nat
    BY <2>4
  <2>10. b = d + r * q + r
    BY <2>1
  <2> HIDE DEF d, t
  <2> QED BY <2>1, <2>3, <2>5, <2>7, <2>8, <2>9, <2>10
<1> QED BY <1>1, <1>2

(* The numbers of a dispatch: blocks per thread, leftover blocks, and that  *)
(* the blocks cover the items.                                              *)
LEMMA BlockCount ==
    ASSUME NEW num \in Nat, NEW align \in Nat \ {0}, NEW T \in Nat \ {0}
    PROVE  /\ NumBlocks(num, align) \in Nat
           /\ NumBlocks(num, align) \div T \in Nat
           /\ NumBlocks(num, align) % T \in 0 .. T - 1
           /\ NumBlocks(num, align) = T * (NumBlocks(num, align) \div T) + (NumBlocks(num, align) % T)
           /\ num <= NumBlocks(num, align) * align
<1>1. num + align - 1 \in Nat
  OBVIOUS
<1>2. /\ NumBlocks(num, align) \in Nat
      /\ (num + align - 1) % align \in 0 .. align - 1
      /\ num + align - 1 = align * NumBlocks(num, align) + ((num + align - 1) % align)
  BY <1>1, DivMod DEF NumBlocks
<1>3. num <= align * NumBlocks(num, align)
  BY <1>2
<1>4. align * NumBlocks(num, align) = NumBlocks(num, align) * align
  BY <1>2
<1> QED BY <1>2, <1>3, <1>4, DivMod

(* No item belongs to the chunks of two threads of a dispatch               *)
(* (chunk_range as mt_ele_mul_dispatch and mt_normalize_dispatch call it).  *)
THEOREM ChunksDisjoint ==
    ASSUME NEW num \in Nat, NEW align \in Nat \ {0}, NEW T \in Nat \ {0},
           NEW t \in 0 .. T - 1, NEW u \in 0 .. T - 1, t # u
    PROVE  Items(Chunk(t, T, num, align)) \cap Items(Chunk(u, T, num, align)) = {}
<1> DEFINE q == NumBlocks(num, align) \div T
           r == NumBlocks(num, align) % T
<1>1. q \in Nat /\ r \in 0 .. T - 1
  BY BlockCount
<1> HIDE DEF q, r
<1>2. ASSUME NEW a \in 0 .. T - 1, NEW b \in 0 .. T - 1, a < b
      PROVE Items(chunk_range(a, q, r, align, num)) \cap Items(chunk_range(b, q, r, align, num)) = {}
  <2> DEFINE hi == BlockBegin(a + 1, q, r) * align
             lo == BlockBegin(b, q, r) * align
             f == BlockBegin(a, q, r) * align
             l == BlockBegin(b + 1, q, r) * align
  <2>1. hi <= lo /\ f \in Nat /\ l \in Nat /\ hi \in Nat /\ lo \in Nat
    <3>1. /\ BlockBegin(a + 1, q, r) <= BlockBegin(b, q, r)
          /\ BlockBegin(a + 1, q, r) \in Nat /\ BlockBegin(b, q, r) \in Nat
          /\ BlockBegin(a, q, r) \in Nat /\ BlockBegin(b + 1, q, r) \in Nat
      <4>1. a \in Nat /\ b \in Nat /\ r \in Nat
        BY <1>1
      <4> QED BY <1>1, <1>2, <4>1, BoundaryNat, BoundaryOrder
    <3> QED BY <3>1, MulMono
  <2>2. /\ chunk_range(a, q, r, align, num) = [start |-> Least(f, num), size |-> Least(hi, num) - Least(f, num)]
        /\ chunk_range(b, q, r, align, num) = [start |-> Least(lo, num), size |-> Least(l, num) - Least(lo, num)]
    BY DEF chunk_range
  <2> HIDE DEF hi, lo, f, l
  <2> QED BY <2>1, <2>2 DEF Items, Least
<1>3. t < u \/ u < t
  OBVIOUS
<1> QED BY <1>2, <1>3 DEF Chunk, q, r

(* Every item of a dispatch belongs to the chunk of some thread, and no     *)
(* chunk has an item outside: no element is left unmultiplied or            *)
(* unscaled, also when there are more threads than blocks.                  *)
THEOREM ChunksCover ==
    ASSUME NEW num \in Nat, NEW align \in Nat \ {0}, NEW T \in Nat \ {0}
    PROVE  UNION {Items(Chunk(t, T, num, align)) : t \in 0 .. T - 1} = 0 .. num - 1
<1> DEFINE q == NumBlocks(num, align) \div T
           r == NumBlocks(num, align) % T
<1>1. q \in Nat /\ r \in 0 .. T - 1 /\ NumBlocks(num, align) \in Nat
      /\ NumBlocks(num, align) = T * q + r /\ num <= NumBlocks(num, align) * align
  BY BlockCount
<1> HIDE DEF q, r
<1>2. ASSUME NEW e \in 0 .. num - 1
      PROVE \E t \in 0 .. T - 1 : e \in Items(chunk_range(t, q, r, align, num))
  <2> DEFINE b == e \div align
  <2>1. b \in Nat /\ e % align \in 0 .. align - 1 /\ e = align * b + (e % align)
    <3>1. e \in Nat
      OBVIOUS
    <3> QED BY <3>1, DivMod
  <2> HIDE DEF b
  <2>2. b < T * q + r
    <3>1. SUFFICES ASSUME T * q + r <= b PROVE FALSE
      BY <1>1, <2>1
    <3>2. NumBlocks(num, align) * align <= b * align
      BY <1>1, <2>1, <3>1, MulMono
    <3>3. b * align = align * b /\ align * b \in Nat /\ NumBlocks(num, align) * align \in Nat
      BY <1>1, <2>1
    <3> QED BY <1>1, <2>1, <3>2, <3>3
  <2>3. PICK t \in 0 .. T - 1 : BlockBegin(t, q, r) <= b /\ b < BlockBegin(t + 1, q, r)
    BY <1>1, <2>1, <2>2, BlockOwner
  <2> DEFINE f == BlockBegin(t, q, r) * align
             l == BlockBegin(t + 1, q, r) * align
  <2>4. BlockBegin(t, q, r) \in Nat /\ BlockBegin(t + 1, q, r) \in Nat
    <3>1. t \in Nat /\ r \in Nat
      BY <1>1
    <3> QED BY <1>1, <3>1, BoundaryNat
  <2>5. f <= e /\ e < l /\ f \in Nat /\ l \in Nat
    <3>1. f <= b * align /\ (b + 1) * align <= l
      BY <2>1, <2>3, <2>4, MulMono
    <3>2. (b + 1) * align = b * align + align /\ b * align = align * b /\ align * b \in Nat
      BY <2>1
    <3>3. f \in Nat /\ l \in Nat
      BY <2>4
    <3> HIDE DEF f, l
    <3> QED BY <2>1, <3>1, <3>2, <3>3
  <2>6. chunk_range(t, q, r, align, num) = [start |-> Least(f, num), size |-> Least(l, num) - Least(f, num)]
    BY DEF chunk_range
  <2> HIDE DEF f, l
  <2>7. e \in Items(chunk_range(t, q, r, align, num))
    BY <2>5, <2>6 DEF Items, Least
  <2> QED BY <2>7
<1>3. ASSUME NEW t \in 0 .. T - 1, NEW e \in Items(chunk_range(t, q, r, align, num))
      PROVE e \in 0 .. num - 1
  <2> DEFINE f == BlockBegin(t, q, r) * align
             l == BlockBegin(t + 1, q, r) * align
  <2>1. f \in Nat /\ l \in Nat
    <3>1. BlockBegin(t, q, r) \in Nat /\ BlockBegin(t + 1, q, r) \in Nat
      BY <1>1, BoundaryNat
    <3> QED BY <3>1
  <2>2. chunk_range(t, q, r, align, num) = [start |-> Least(f, num), size |-> Least(l, num) - Least(f, num)]
    BY DEF chunk_range
  <2> HIDE DEF f, l
  <2> QED BY <2>1, <2>2 DEF Items, Least
<1> QED BY <1>2, <1>3 DEF Chunk, q, r

(* A chunk that is not empty starts at a multiple of the alignment, which   *)
(* the kernels' aligned loads and stores rely on.                           *)
THEOREM ChunksAligned ==
    ASSUME NEW num \in Nat, NEW align \in Nat \ {0}, NEW T \in Nat \ {0},
           NEW t \in 0 .. T - 1, Chunk(t, T, num, align).size > 0
    PROVE  \E k \in Nat : Chunk(t, T, num, align).start = k * align
<1> DEFINE q == NumBlocks(num, align) \div T
           r == NumBlocks(num, align) % T
           f == BlockBegin(t, q, r) * align
           l == BlockBegin(t + 1, q, r) * align
<1>1. q \in Nat /\ r \in 0 .. T - 1
  BY BlockCount
<1> HIDE DEF q, r
<1>2. BlockBegin(t, q, r) \in Nat /\ BlockBegin(t + 1, q, r) \in Nat
  <2>1. t \in Nat /\ r \in Nat
    BY <1>1
  <2> QED BY <1>1, <2>1, BoundaryNat
<1>3. f \in Nat /\ l \in Nat
  BY <1>2
<1>4. Chunk(t, T, num, align) = [start |-> Least(f, num), size |-> Least(l, num) - Least(f, num)]
  BY DEF Chunk, chunk_range, q, r
<1>5. Chunk(t, T, num, align).start = f
  <2> HIDE DEF f, l
  <2> QED BY <1>3, <1>4 DEF Least
<1> QED BY <1>2, <1>5
=============================================================================
