--------------------------- MODULE FuseVecs_proofs ---------------------------
(***************************************************************************)
(* Proofs about fuse_vecs, and the induction they and others need.         *)
(* Induction over data is out of reach of a theorem with an operator       *)
(* parameter; the least-element principle of WellFoundedInduction gives it *)
(* without one: a set of naturals that holds 0 and each successor is all of*)
(* them (Induction).                                                       *)
(***************************************************************************)
EXTENDS FuseVecs, SequenceTheorems, WellFoundedInduction, TLAPS

(* Induction over the natural numbers, for the members of a set.            *)
Below == OpToRel(<, Nat)

LEMMA LeastOf ==
    ASSUME NEW T, T \subseteq Nat, T # {}
    PROVE  \E x \in T : \A y \in T : x <= y
<1>1. IsWellFoundedOn(Below, Nat)
  BY NatLessThanWellFounded DEF Below
<1>2. PICK x \in T : \A y \in T : ~ (<<y, x>> \in Below)
  BY <1>1, WFMin
<1>3. ASSUME NEW y \in T
      PROVE  x <= y
  <2>1. x \in Nat /\ y \in Nat /\ ~ (<<y, x>> \in Below)
    BY <1>2
  <2>2. y < x => <<y, x>> \in Below
    BY <2>1 DEF Below, OpToRel
  <2> QED BY <2>1, <2>2
<1> QED BY <1>3

LEMMA Induction ==
    ASSUME NEW T, 0 \in T, \A n \in Nat : n \in T => n + 1 \in T
    PROVE  \A n \in Nat : n \in T
<1> SUFFICES ASSUME Nat \ T # {}
             PROVE  FALSE
  OBVIOUS
<1>1. PICK x \in Nat \ T : \A y \in Nat \ T : x <= y
  BY LeastOf
<1>2. x # 0 /\ x - 1 \in Nat /\ x - 1 \in T
  BY <1>1
<1> QED BY <1>1, <1>2

LEMMA MaxIs ==
    ASSUME NEW m \in Nat, NEW s \in SUBSET (1 .. m + 1), m + 1 \in s
    PROVE  Max(s) = m + 1
<1>1. \A x \in s : x \in Int /\ m + 1 >= x
  OBVIOUS
<1>2. \A x \in s : (\A y \in s : x >= y) => x = m + 1
  BY <1>1
<1> QED BY <1>1, <1>2 DEF Max

LEMMA MaxTo == ASSUME NEW i \in Nat \ {0} PROVE Max(1..i) = i
<1>1. /\ i - 1 \in Nat /\ 1..i \in SUBSET (1 .. (i - 1) + 1) /\ (i - 1) + 1 \in 1..i
      /\ (i - 1) + 1 = i
  OBVIOUS
<1>2. Max(1..i) = (i - 1) + 1
  BY <1>1, MaxIs
<1> QED BY <1>1, <1>2

(* One step of fuse_vecs.                                                   *)
Fuse(vs, mayFuseFirst, out, i) ==
    IF Continues(vs[i - 1], vs[i]) /\ (i # 2 \/ mayFuseFirst)
    THEN [out EXCEPT ![Len(out)].n = @ * vs[i].n]
    ELSE Append(out, vs[i])

FuseGrown(vs, may, b, seq, g, m) ==
    g = [s \in SUBSET (1..m) |->
            IF s = {} THEN b ELSE Fuse(vs, may, g[s \ {Max(s)}], seq[Max(s)])]

LEMMA FuseGrownExists ==
    ASSUME NEW vs, NEW may, NEW c, NEW seq, NEW n \in Nat
    PROVE  \E g : FuseGrown(vs, may, c, seq, g, n)
<1> DEFINE T == {m \in Nat : \E g : FuseGrown(vs, may, c, seq, g, m)}
<1>1. 0 \in T
  <2> DEFINE g == [s \in SUBSET (1..0) |-> c]
  <2>1. SUBSET (1..0) = {{}}
    OBVIOUS
  <2>2. FuseGrown(vs, may, c, seq, g, 0)
    BY <2>1 DEF FuseGrown
  <2> QED BY <2>2
<1>2. ASSUME NEW m \in Nat, m \in T
      PROVE  m + 1 \in T
  <2>1. PICK g : FuseGrown(vs, may, c, seq, g, m)
    BY <1>2
  <2> DEFINE h == [s \in SUBSET (1 .. m + 1) |->
                     IF m + 1 \in s THEN Fuse(vs, may, g[s \ {m + 1}], seq[m + 1]) ELSE g[s]]
             e(s) == IF s = {} THEN c ELSE Fuse(vs, may, h[s \ {Max(s)}], seq[Max(s)])
  <2>2. ASSUME NEW s \in SUBSET (1 .. m + 1)
        PROVE  h[s] = e(s)
    <3>1. CASE m + 1 \in s
      <4>1. Max(s) = m + 1 /\ s # {} /\ m + 1 \notin s \ {m + 1} /\ s \ {m + 1} \in SUBSET (1 .. m + 1)
        BY <3>1, MaxIs
      <4>2. h[s \ {m + 1}] = g[s \ {m + 1}]
        BY <4>1
      <4> QED BY <3>1, <4>1, <4>2
    <3>2. CASE m + 1 \notin s
      <4>1. s \in SUBSET (1 .. m)
        BY <3>2
      <4>2. h[s] = g[s] /\ g[s] = IF s = {} THEN c ELSE Fuse(vs, may, g[s \ {Max(s)}], seq[Max(s)])
        BY <2>1, <3>2, <4>1 DEF FuseGrown
      <4>3. h[s \ {Max(s)}] = g[s \ {Max(s)}]
        BY <3>2
      <4> QED BY <4>2, <4>3
    <3> QED BY <3>1, <3>2
  <2>3. h = [s \in SUBSET (1 .. m + 1) |-> e(s)]
    BY <2>2
  <2>4. FuseGrown(vs, may, c, seq, h, m + 1)
    BY <2>3 DEF FuseGrown
  <2> QED BY <2>4
<1> HIDE DEF T
<1>3. n \in T
  BY <1>1, <1>2, Induction
<1> QED BY <1>3 DEF T

(* The fold over the loops, step by step.                                   *)
LEMMA FuseSteps ==
    ASSUME NEW vs, Len(vs) \in Nat \ {0}, NEW may
    PROVE  \E f : /\ f[0] = <<vs[1]>>
                  /\ \A i \in 1 .. Len(vs) - 1 : f[i] = Fuse(vs, may, f[i - 1], i + 1)
                  /\ fuse_vecs(vs, may) = f[Len(vs) - 1]
<1> DEFINE seq == [k \in 1 .. Len(vs) - 1 |-> k + 1]
           n == Len(vs) - 1
           g == CHOOSE h : FuseGrown(vs, may, <<vs[1]>>, seq, h, n)
<1>1. n \in Nat /\ DOMAIN seq = 1..n /\ \A k \in 1..n : seq[k] = k + 1
  OBVIOUS
<1>2. FuseGrown(vs, may, <<vs[1]>>, seq, g, n)
  <2> HIDE DEF n, seq
  <2> QED BY <1>1, FuseGrownExists
<1>3. fuse_vecs(vs, may) = g[1..n]
  <2>1. fuse_vecs(vs, may) = LET iter[s \in SUBSET (DOMAIN seq)] ==
                                  IF s = {} THEN <<vs[1]>>
                                  ELSE Fuse(vs, may, iter[s \ {Max(s)}], seq[Max(s)])
                             IN  iter[DOMAIN seq]
    BY Zenon DEF fuse_vecs, FoldLeft, MapThenFoldSet, Fuse
  <2>2. DOMAIN seq = 1..n
    BY <1>1
  <2> HIDE DEF n, seq
  <2> QED BY <2>1, <2>2 DEF FuseGrown
<1> DEFINE f == [i \in 0..n |-> g[1..i]]
<1> HIDE DEF g, seq
<1>4. f[0] = <<vs[1]>>
  <2>1. {} \in SUBSET (1..n) /\ 1..0 = {} /\ 0 \in 0..n
    BY <1>1
  <2>2. g[{}] = <<vs[1]>>
    BY <1>2, <2>1 DEF FuseGrown
  <2> QED BY <2>1, <2>2
<1>5. ASSUME NEW i \in 1 .. Len(vs) - 1
      PROVE  f[i] = Fuse(vs, may, f[i - 1], i + 1)
  <2> HIDE DEF f
  <2>0. i \in Nat /\ i - 1 \in Nat /\ 1 <= i /\ i <= n
    BY <1>1
  <2> HIDE DEF n
  <2>1. i \in 0..n /\ i - 1 \in 0..n
    BY <1>1, <2>0
  <2>2. 1..i \in SUBSET (1..n) /\ i \in 1..i /\ (1..i) \ {i} = 1 .. i - 1
    BY <1>1, <2>0
  <2>3. Max(1..i) = i
    BY <2>0, MaxTo
  <2>4. g[1..i] = Fuse(vs, may, g[1 .. i - 1], seq[i])
    BY <1>2, <2>2, <2>3 DEF FuseGrown
  <2>5. seq[i] = i + 1
    BY <1>1, <2>0
  <2> QED BY <2>1, <2>4, <2>5 DEF f
<1>6. f[n] = g[1..n]
  BY <1>1
<1> HIDE DEF f
<1> QED BY <1>3, <1>4, <1>5, <1>6 DEF n
=============================================================================
