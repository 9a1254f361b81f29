------------------------- MODULE DirectSplit_proofs -------------------------
(* No parallel loop of a direct solver is given zero threads, each          *)
(* butterfly is computed once, and with the twiddle factors of its own      *)
(* point, whatever the size of the node and however many threads there are. *)
EXTENDS DirectSplit, ChunkRange_proofs

(* Quotients by a variable: the provers only know what is said here.        *)
LEMMA Quotient ==
    ASSUME NEW a \in Nat, NEW b \in Nat \ {0}
    PROVE  /\ a \div b \in Nat
           /\ b * (a \div b) <= a
           /\ a < b * (a \div b) + b
  OBVIOUS

(* A quotient is at least 1 if the dividend reaches the divisor, and below  *)
(* n if the dividend is below n times the divisor.                          *)
LEMMA QuotientBounds ==
    ASSUME NEW a \in Nat, NEW b \in Nat \ {0}, NEW n \in Nat, b <= a, a < n * b
    PROVE  a \div b \in Nat /\ 1 <= a \div b /\ a \div b < n
<1> DEFINE q == a \div b
<1>1. q \in Nat /\ b * q <= a /\ a < b * q + b
  BY Quotient
<1> HIDE DEF q
<1>2. q # 0
  <2>1. SUFFICES ASSUME q = 0 PROVE FALSE
    OBVIOUS
  <2>2. b * q = 0
    BY <2>1
  <2> QED BY <1>1, <2>2
<1>3. q < n
  <2>1. SUFFICES ASSUME n <= q PROVE FALSE
    BY <1>1
  <2>2. PICK d \in Nat : q = n + d
    BY <1>1, <2>1
  <2>3. b * q = n * b + b * d /\ b * d \in Nat /\ n * b \in Nat
    BY <2>2
  <2> QED BY <1>1, <2>3
<1>4. q \in Nat /\ 1 <= q /\ q < n
  BY <1>1, <1>2, <1>3
<1> QED BY <1>4 DEF q

(* The complex kernels of a stage get at least one thread and leave one: of *)
(* n threads they get the part that their work c has in c + rest.           *)
LEMMA ShareBounds ==
    ASSUME NEW c \in Nat \ {0}, NEW rest \in Nat \ {0}, rest <= c,
           NEW n \in Nat, 2 <= n
    PROVE  /\ (n * c) \div (c + rest) \in Nat
           /\ 1 <= (n * c) \div (c + rest)
           /\ (n * c) \div (c + rest) < n
<1>1. PICK m \in Nat : n = m + 2
  <2>1. n - 2 \in Nat /\ n = (n - 2) + 2
    OBVIOUS
  <2> QED BY <2>1
<1>2. n * c = m * c + 2 * c /\ m * c \in Nat
  BY <1>1
<1>3. n * (c + rest) = n * c + n * rest /\ n * rest \in Nat /\ n * c \in Nat
  OBVIOUS
<1>4. 1 <= n * rest
  OBVIOUS
<1> QED BY <1>2, <1>3, <1>4, QuotientBounds

-----------------------------------------------------------------------------
(* The weight of the real kernels of a stage beside its complex ones.       *)
RealWeight(p) == ((R2HCCount(p) + 1) \div 2) + R2HCFCount(p)

(* Of a stage with complex points, at least half of the work is complex.    *)
LEMMA StageWeights ==
    ASSUME NEW p \in ProblemType, p.kind = "stage"
    PROVE  /\ C2CPerGroup(p) \in Nat /\ C2CCount(p) \in Nat
           /\ R2HCCount(p) \in Nat /\ R2HCFCount(p) \in Nat
           /\ R2HCCount(p) + R2HCFCount(p) = p.groups
           /\ RealWeight(p) \in Nat \ {0}
           /\ C2CCount(p) # 0 => C2CPerGroup(p) # 0 /\ RealWeight(p) <= C2CCount(p)
<1> DEFINE f == p.freq
           g == p.groups
           P == C2CPerGroup(p)
<1>1. f \in Nat \ {0} /\ g \in Nat \ {0}
  BY DEF ProblemType
<1>2. f \div 2 \in Nat /\ f = 2 * (f \div 2) + (f % 2) /\ f % 2 \in {0, 1}
  BY <1>1
<1>3. P = (f \div 2) - (IF f % 2 = 0 THEN 1 ELSE 0)
  BY DEF C2CPerGroup, IsEven
<1>4. P \in Nat
  BY <1>1, <1>2, <1>3
<1>5. C2CCount(p) = P * g
  BY DEF C2CCount
<1>6. P * g \in Nat /\ (P # 0 => g <= P * g) /\ (P = 0 => P * g = 0)
  BY <1>1, <1>4
<1>7. /\ R2HCCount(p) = IF f % 2 = 0 THEN 0 ELSE g
      /\ R2HCFCount(p) = IF f % 2 = 0 THEN g ELSE 0
  BY DEF R2HCCount, R2HCFCount, IsEven
<1>8. RealWeight(p) \in Nat \ {0} /\ RealWeight(p) <= g
  <2>1. \A a \in Nat \ {0} : (a + 1) \div 2 \in Nat \ {0} /\ (a + 1) \div 2 <= a
    OBVIOUS
  <2>2. (0 + 1) \div 2 = 0
    OBVIOUS
  <2> HIDE DEF g
  <2>3. RealWeight(p) \in {g, (g + 1) \div 2}
    BY <1>1, <1>7, <2>1, <2>2 DEF RealWeight
  <2> QED BY <1>1, <2>1, <2>3
<1>9. R2HCCount(p) \in Nat /\ R2HCFCount(p) \in Nat /\ R2HCCount(p) + R2HCFCount(p) = g
  BY <1>1, <1>7
<1>10. C2CCount(p) # 0 => P # 0 /\ RealWeight(p) <= C2CCount(p)
  <2> HIDE DEF P, f, g
  <2> QED BY <1>1, <1>5, <1>6, <1>8
<1> QED BY <1>4, <1>5, <1>6, <1>8, <1>9, <1>10

(* A stage with complex points has at least two threads, and both kinds of  *)
(* kernel get a share.                                                      *)
LEMMA StageShares ==
    ASSUME NEW p \in ProblemType, p.kind = "stage", C2CCount(p) # 0
    PROVE  /\ NumThreads(p) \in Nat /\ ThreadsC2C(p) \in Nat
           /\ 1 <= ThreadsC2C(p) /\ ThreadsC2C(p) < NumThreads(p)
<1>1. p.avl \in Nat /\ 2 <= p.avl
  BY DEF ProblemType
<1>2. /\ C2CCount(p) \in Nat \ {0} /\ RealWeight(p) \in Nat \ {0}
      /\ RealWeight(p) <= C2CCount(p)
      /\ R2HCCount(p) \in Nat /\ R2HCFCount(p) \in Nat
  BY StageWeights
<1>3. NumThreads(p) = Least(p.avl, C2CCount(p) + R2HCFCount(p) + ((R2HCCount(p) + 1) \div 2))
  BY <1>2 DEF NumThreads
<1>4. BatchWeight(p) = C2CCount(p) + RealWeight(p)
  BY <1>2 DEF BatchWeight, RealWeight
<1>5. NumThreads(p) \in Nat /\ 2 <= NumThreads(p)
  BY <1>1, <1>2, <1>3 DEF Least, RealWeight
<1> QED BY <1>2, <1>4, <1>5, ShareBounds DEF ThreadsC2C

(* Without complex points all threads do real work.                         *)
LEMMA StageWithoutPoints ==
    ASSUME NEW p \in ProblemType, p.kind = "stage", C2CCount(p) = 0
    PROVE  ThreadsC2C(p) = 0 /\ ThreadsReal(p) \in Nat \ {0}
<1>1. p.avl \in Nat \ {0} /\ p.groups \in Nat \ {0}
  BY DEF ProblemType
<1>2. /\ R2HCCount(p) \in Nat /\ R2HCFCount(p) \in Nat
      /\ R2HCCount(p) + R2HCFCount(p) = p.groups
      /\ RealWeight(p) \in Nat \ {0}
  BY StageWeights
<1>3. NumThreads(p) = Least(p.avl, p.groups)
  BY <1>1, <1>2 DEF NumThreads
<1>4. NumThreads(p) \in Nat \ {0}
  BY <1>1, <1>3 DEF Least
<1>5. BatchWeight(p) \in Nat \ {0}
  BY <1>2 DEF BatchWeight, RealWeight
<1>6. NumThreads(p) * C2CCount(p) = 0
  BY <1>4
<1>7. ThreadsC2C(p) = 0
  <2>1. \A b \in Nat \ {0} : 0 \div b = 0
    OBVIOUS
  <2> QED BY <1>5, <1>6, <2>1 DEF ThreadsC2C
<1> QED BY <1>4, <1>7 DEF ThreadsReal

(* The thread counts of every node.                                         *)
LEMMA RegionsPositive ==
    ASSUME NEW p \in ProblemType
    PROVE  0 \notin Regions(p)
<1>1. CASE p.kind # "stage"
  <2>1. /\ p.kind \in {"plain", "rowmajor", "colmajor", "direct"}
        /\ p.n \in Nat \ {0} /\ p.batches \in Nat \ {0} /\ p.avl \in Nat \ {0}
    BY <1>1 DEF ProblemType
  <2>2. NumThreads(p) \in {Least(p.avl, p.n), Least(p.avl, Most(p.n, p.batches))}
    BY <1>1 DEF NumThreads
  <2>3. NumThreads(p) # 0
    BY <2>1, <2>2 DEF Least, Most
  <2> QED BY <1>1, <2>3 DEF Regions
<1>2. CASE p.kind = "stage" /\ C2CCount(p) = 0
  BY <1>2, StageWithoutPoints DEF Regions
<1>3. CASE p.kind = "stage" /\ C2CCount(p) # 0
  <2> DEFINE o == ThreadsOuter(p)
  <2>1. /\ NumThreads(p) \in Nat /\ ThreadsC2C(p) \in Nat
        /\ 1 <= ThreadsC2C(p) /\ ThreadsC2C(p) < NumThreads(p)
    BY <1>3, StageShares
  <2>2. ThreadsReal(p) # 0
    BY <2>1 DEF ThreadsReal
  <2>3. C2CPerGroup(p) \in Nat \ {0} /\ p.groups \in Nat \ {0}
    BY <1>3, StageWeights DEF ProblemType
  <2>4. o \in Nat \ {0} /\ o <= ThreadsC2C(p)
    BY <2>1, <2>3 DEF ThreadsOuter, Least
  <2>5. ThreadsInner(p) # 0
    <3>1. \A c \in Nat, d \in Nat \ {0} : 1 <= c /\ d <= c => c \div d # 0
      <4>1. SUFFICES ASSUME NEW c \in Nat, NEW d \in Nat \ {0}, d <= c, c \div d = 0
                     PROVE FALSE
        OBVIOUS
      <4>2. d * (c \div d) <= c /\ c < d * (c \div d) + d
        BY Quotient
      <4>3. d * (c \div d) = 0
        BY <4>1
      <4> QED BY <4>1, <4>2, <4>3
    <3> QED BY <2>1, <2>4, <3>1 DEF ThreadsInner
  <2>6. ThreadsOuter(p) # 0
    BY <2>4
  <2> HIDE DEF o
  <2>7. Regions(p) \subseteq {ThreadsReal(p), ThreadsOuter(p), ThreadsInner(p)}
    BY <1>3, Zenon DEF Regions
  <2> QED BY <2>2, <2>5, <2>6, <2>7
<1> QED BY <1>1, <1>2, <1>3

(* Every loop of every node runs with at least one thread                   *)
(* (execute_real_mt_direct_solver and the other direct solvers).            *)
THEOREM RegionsAlwaysHaveThreads == Spec => []RegionsHaveThreads
<1>1. Init => problem \in ProblemType
  BY ProblemsAssumption DEF Init
<1>2. problem \in ProblemType /\ [Next]_vars => (problem \in ProblemType)'
  BY DEF Next, RunJob, vars
<1>3. problem \in ProblemType => RegionsHaveThreads
  BY RegionsPositive DEF RegionsHaveThreads
<1> QED BY <1>1, <1>2, <1>3, PTL DEF Spec
-----------------------------------------------------------------------------
(* Registers, tails and pieces cover what they are cut from                 *)

(* Multiples of w, each followed by w numbers, up to the last below n.      *)
LEMMA Multiples ==
    ASSUME NEW n \in Nat, NEW w \in Nat \ {0}
    PROVE  /\ n \div w \in Nat /\ (n \div w) * w \in Nat
           /\ n % w \in 0 .. w - 1 /\ n = (n \div w) * w + (n % w)
           /\ \A i \in 0 .. (n \div w) - 1 : i * w \in Nat /\ i * w + w <= (n \div w) * w
           /\ \A x \in 0 .. (n \div w) * w - 1 :
                  \E i \in 0 .. (n \div w) - 1 : i * w <= x /\ x < i * w + w
           /\ \A i \in Nat, j \in Nat : i < j => i * w + w <= j * w
<1> DEFINE q == n \div w
<1>1. q \in Nat /\ n % w \in 0 .. w - 1 /\ n = w * q + (n % w)
  BY DivMod
<1> HIDE DEF q
<1>2. q * w \in Nat /\ w * q = q * w
  BY <1>1
<1>3. ASSUME NEW i \in Nat, NEW j \in Nat, i < j
      PROVE  i * w + w <= j * w
  <2>1. (i + 1) * w <= j * w
    BY <1>3, MulMono
  <2>2. (i + 1) * w = i * w + w
    OBVIOUS
  <2> QED BY <2>1, <2>2
<1>4. ASSUME NEW i \in 0 .. q - 1
      PROVE  i * w \in Nat /\ i * w + w <= q * w
  <2>1. i \in Nat /\ i < q
    BY <1>1
  <2> QED BY <1>1, <1>3, <2>1
<1>5. ASSUME NEW x \in 0 .. q * w - 1
      PROVE  \E i \in 0 .. q - 1 : i * w <= x /\ x < i * w + w
  <2> DEFINE i == x \div w
  <2>1. x \in Nat
    BY <1>2
  <2>2. i \in Nat /\ x % w \in 0 .. w - 1 /\ x = w * i + (x % w)
    BY <2>1, DivMod
  <2> HIDE DEF i
  <2>3. w * i = i * w /\ i * w \in Nat
    BY <2>2
  <2>4. i < q
    <3>1. SUFFICES ASSUME q <= i PROVE FALSE
      BY <1>1, <2>2
    <3>2. q * w <= i * w
      BY <1>1, <2>2, <3>1, MulMono
    <3> QED BY <1>2, <2>2, <2>3, <3>2
  <2>5. i * w <= x /\ x < i * w + w
    BY <2>1, <2>2, <2>3
  <2>6. i \in 0 .. q - 1
    BY <1>1, <2>2, <2>4
  <2> QED BY <2>5, <2>6
<1> QED BY <1>1, <1>2, <1>3, <1>4, <1>5 DEF q

(* The columns of a set of tiles.                                           *)
Spans(T) == UNION {Span(t) : t \in T}

LEMMA TileSpans ==
    ASSUME NEW a \in Nat, NEW b \in Nat, a <= b
    PROVE  Spans(Tile(a, b)) = a .. b - 1
<1>1. CASE a = b
  BY <1>1 DEF Spans, Tile
<1>2. CASE a # b
  <2>1. Spans(Tile(a, b)) = a .. a + (b - a) - 1
    BY <1>2 DEF Spans, Tile, Span
  <2> QED BY <2>1
<1> QED BY <1>1, <1>2

LEMMA FullSpans ==
    ASSUME NEW n \in Nat, NEW w \in Nat \ {0}
    PROVE  Spans(FullTiles(n, w)) = 0 .. (n \div w) * w - 1
<1>1. \A x : x \in Spans(FullTiles(n, w)) <=>
                \E i \in 0 .. (n \div w) - 1 : x \in i * w .. i * w + w - 1
  <2>1. \A x : x \in Spans(FullTiles(n, w)) <=>
                  \E t \in FullTiles(n, w) : x \in Span(t)
    BY DEF Spans
  <2>2. \A i : Span([start |-> i * w, width |-> w]) = i * w .. i * w + w - 1
    BY DEF Span
  <2> QED BY <2>1, <2>2 DEF FullTiles
<1>2. ASSUME NEW i \in 0 .. (n \div w) - 1, NEW x \in i * w .. i * w + w - 1
      PROVE  x \in 0 .. (n \div w) * w - 1
  <2>1. i * w \in Nat /\ i * w + w <= (n \div w) * w /\ (n \div w) * w \in Nat
    BY Multiples
  <2> QED BY <2>1
<1>3. ASSUME NEW x \in 0 .. (n \div w) * w - 1
      PROVE  \E i \in 0 .. (n \div w) - 1 : x \in i * w .. i * w + w - 1
  <2>1. PICK i \in 0 .. (n \div w) - 1 : i * w <= x /\ x < i * w + w
    BY Multiples
  <2>2. i * w \in Nat /\ x \in Nat
    BY Multiples
  <2> QED BY <2>1, <2>2
<1> QED BY <1>1, <1>2, <1>3

LEMMA SetsTable ==
    /\ NumSets(0, "float") = 1 /\ NumSets(1, "float") = 2
    /\ NumSets(2, "float") = 4 /\ NumSets(3, "float") = 8
    /\ NumSets(0, "double") = 1 /\ NumSets(1, "double") = 1
    /\ NumSets(2, "double") = 2 /\ NumSets(3, "double") = 4
    /\ \A isa \in 0 .. 3, prec \in {"float", "double"} :
           NumSets(isa, prec) \in Nat \ {0} /\ NumSetsReal(isa, prec) \in Nat \ {0}
<1>1. /\ NumSets(0, "float") = 1 /\ NumSets(1, "float") = 2
      /\ NumSets(2, "float") = 4 /\ NumSets(3, "float") = 8
  BY DEF NumSets
<1>2. /\ NumSets(0, "double") = 1 /\ NumSets(1, "double") = 1
      /\ NumSets(2, "double") = 2 /\ NumSets(3, "double") = 4
  BY DEF NumSets
<1>3. ASSUME NEW isa \in 0 .. 3, NEW prec \in {"float", "double"}
      PROVE  NumSets(isa, prec) \in Nat \ {0} /\ NumSetsReal(isa, prec) \in Nat \ {0}
  <2>1. isa = 0 \/ isa = 1 \/ isa = 2 \/ isa = 3
    OBVIOUS
  <2>2. CASE prec = "float"
    BY <2>1, <2>2 DEF NumSets, NumSetsReal
  <2>3. CASE prec = "double"
    BY <2>1, <2>3 DEF NumSets, NumSetsReal
  <2> QED BY <2>2, <2>3
<1> QED BY <1>1, <1>2, <1>3

(* A kernel leaves out none of the butterflies it is called for, whichever  *)
(* tails are compiled in.                                                   *)
LEMMA KernelCovers ==
    ASSUME NEW n \in Nat, NEW isa \in 0 .. 3, NEW prec \in {"float", "double"}
    PROVE  Spans(KernelTiles(n, isa, prec)) = 0 .. n - 1
<1> DEFINE s == NumSets(isa, prec)
           w256 == NumSets(2, prec)
           c0 == (n \div s) * s
           c1 == IF isa = 3 /\ n - c0 >= w256 THEN c0 + w256 ELSE c0
           c2 == IF prec = "float" /\ isa >= 2 /\ n - c1 >= 2 THEN c1 + 2 ELSE c1
           c3 == IF isa >= (IF prec = "float" THEN 1 ELSE 2) /\ (n - c2) % 2 = 1
                 THEN c2 + 1 ELSE c2
<1>1. s \in Nat \ {0}
  BY SetsTable
<1>2. c0 \in Nat /\ c0 <= n /\ n - c0 < s
  <2> HIDE DEF s
  <2>1. c0 \in Nat /\ n % s \in 0 .. s - 1 /\ n = c0 + (n % s)
    BY <1>1, Multiples
  <2> HIDE DEF c0
  <2> QED BY <1>1, <2>1
<1>3. /\ c0 <= c1 /\ c1 <= c2 /\ c2 <= c3 /\ c3 = n
      /\ c1 \in Nat /\ c2 \in Nat /\ c3 \in Nat
  <2> HIDE DEF c0
  <2>1. prec = "float" \/ prec = "double"
    OBVIOUS
  <2>2. isa = 0 \/ isa = 1 \/ isa = 2 \/ isa = 3
    OBVIOUS
  <2>3. CASE prec = "float"
    BY <1>2, <2>2, <2>3, SetsTable
  <2>4. CASE prec = "double"
    BY <1>2, <2>2, <2>4, SetsTable
  <2> QED BY <2>1, <2>3, <2>4
<1>4. Spans(KernelTiles(n, isa, prec))
        = Spans(FullTiles(n, s)) \cup Spans(Tile(c0, c1)) \cup Spans(Tile(c1, c2))
          \cup Spans(Tile(c2, c3))
  <2>1. KernelTiles(n, isa, prec)
            = FullTiles(n, s) \cup Tile(c0, c1) \cup Tile(c1, c2) \cup Tile(c2, c3)
    BY DEF KernelTiles
  <2> HIDE DEF c0, c1, c2, c3, s
  <2> QED BY <2>1 DEF Spans
<1>5. Spans(FullTiles(n, s)) = 0 .. c0 - 1
  BY <1>1, FullSpans
<1>6. /\ Spans(Tile(c0, c1)) = c0 .. c1 - 1 /\ Spans(Tile(c1, c2)) = c1 .. c2 - 1
      /\ Spans(Tile(c2, c3)) = c2 .. c3 - 1
  <2> HIDE DEF c0, c1, c2, c3
  <2> QED BY <1>2, <1>3, TileSpans
<1> HIDE DEF c0, c1, c2, c3, s
<1> QED BY <1>2, <1>3, <1>4, <1>5, <1>6

(* The numbers of a piece.                                                  *)
Part(s) == s.first .. s.first + s.count - 1

(* Pieces of 0 .. m - 1: disjoint, and nothing is left out.                 *)
Partitions(S, m) ==
    /\ \A s \in S : s.first \in Nat /\ s.count \in Nat
    /\ \A s, u \in S : s # u => Part(s) \cap Part(u) = {}
    /\ \A x \in Nat : (\E s \in S : x \in Part(s)) <=> x < m

LEMMA PiecesPartition ==
    ASSUME NEW n \in Nat, NEW w \in Nat \ {0}
    PROVE  Partitions(Pieces(n, w), n)
<1> DEFINE q == n \div w
           e == q * w
           r == n % w
           m(i) == i * w
           Whole(i) == [first |-> m(i), count |-> w, tail |-> FALSE]
           Rest == [first |-> e, count |-> r, tail |-> TRUE]
<1>1. /\ q \in Nat /\ e \in Nat /\ r \in 0 .. w - 1 /\ n = e + r
      /\ \A i \in 0 .. q - 1 : m(i) \in Nat /\ m(i) + w <= e
      /\ \A x \in 0 .. e - 1 : \E i \in 0 .. q - 1 : m(i) <= x /\ x < m(i) + w
      /\ \A i \in Nat, j \in Nat : i < j => m(i) + w <= m(j)
  BY Multiples
<1>2. \A s \in Pieces(n, w) : (\E i \in 0 .. q - 1 : s = Whole(i)) \/ (r # 0 /\ s = Rest)
  BY DEF Pieces
<1>3. /\ \A i \in 0 .. q - 1 : Whole(i) \in Pieces(n, w)
      /\ r # 0 => Rest \in Pieces(n, w)
  BY DEF Pieces
<1>4. /\ \A i : Part(Whole(i)) = m(i) .. m(i) + w - 1
      /\ Part(Rest) = e .. e + r - 1
  BY DEF Part
<1> HIDE DEF q, e, r, m
<1>5. \A s \in Pieces(n, w) : s.first \in Nat /\ s.count \in Nat
  BY <1>1, <1>2
<1>6. ASSUME NEW i \in 0 .. q - 1, NEW j \in 0 .. q - 1, i # j
      PROVE  Part(Whole(i)) \cap Part(Whole(j)) = {}
  <2>1. m(i) \in Nat /\ m(j) \in Nat
    BY <1>1
  <2>2. i \in Nat /\ j \in Nat /\ (i < j \/ j < i)
    BY <1>1, <1>6
  <2>3. m(i) + w <= m(j) \/ m(j) + w <= m(i)
    BY <1>1, <2>2
  <2> HIDE DEF Whole
  <2> QED BY <1>4, <2>1, <2>3
<1>7. ASSUME NEW i \in 0 .. q - 1
      PROVE  Part(Whole(i)) \cap Part(Rest) = {}
  <2>1. m(i) \in Nat /\ m(i) + w <= e
    BY <1>1
  <2> HIDE DEF Whole, Rest
  <2> QED BY <1>1, <1>4, <2>1
<1>8. \A s, u \in Pieces(n, w) : s # u => Part(s) \cap Part(u) = {}
  <2> SUFFICES ASSUME NEW s \in Pieces(n, w), NEW u \in Pieces(n, w), s # u
               PROVE  Part(s) \cap Part(u) = {}
    OBVIOUS
  <2> HIDE DEF Whole, Rest
  <2> QED BY <1>2, <1>6, <1>7
<1>9. ASSUME NEW x \in Nat
      PROVE  (\E s \in Pieces(n, w) : x \in Part(s)) <=> x < n
  <2>1. ASSUME NEW s \in Pieces(n, w), x \in Part(s)
        PROVE  x < n
    <3>1. CASE \E i \in 0 .. q - 1 : s = Whole(i)
      <4>1. PICK i \in 0 .. q - 1 : s = Whole(i)
        BY <3>1
      <4>2. m(i) \in Nat /\ m(i) + w <= e /\ x \in m(i) .. m(i) + w - 1
        BY <1>1, <1>4, <2>1, <4>1
      <4> QED BY <1>1, <4>2
    <3>2. CASE s = Rest
      BY <1>1, <1>4, <2>1, <3>2
    <3> QED BY <1>2, <3>1, <3>2
  <2>2. ASSUME x < n
        PROVE  \E s \in Pieces(n, w) : x \in Part(s)
    <3>1. CASE x < e
      <4>1. PICK i \in 0 .. q - 1 : m(i) <= x /\ x < m(i) + w
        BY <1>1, <3>1
      <4>2. m(i) \in Nat
        BY <1>1
      <4>3. x \in Part(Whole(i))
        BY <1>4, <4>1, <4>2
      <4> QED BY <1>3, <4>3
    <3>2. CASE x >= e
      <4>1. x \in e .. e + r - 1 /\ r # 0
        BY <1>1, <2>2, <3>2
      <4> QED BY <1>3, <1>4, <4>1
    <3> QED BY <1>1, <3>1, <3>2
  <2> QED BY <2>1, <2>2
<1> QED BY <1>5, <1>8, <1>9 DEF Partitions

-----------------------------------------------------------------------------
(* The work of jobs                                                         *)

(* The butterflies a call is for, and those of a job.                       *)
Named(c) == {Butterfly(c, j) : j \in 0 .. c.count - 1}
Work(job) == UNION {Named(c) : c \in job.calls}

LEMMA NamedPoints ==
    ASSUME NEW point \in Nat, NEW batch \in Nat, NEW count \in Nat, NEW base, NEW wide
    PROVE  \A b : b \in Named(CallC2C(point, batch, "points", count, base, wide))
                      <=> \E x \in point .. point + count - 1 : b = <<"c2c", x, batch>>
<1> DEFINE c == CallC2C(point, batch, "points", count, base, wide)
<1>1. c.count = count /\ \A j : Butterfly(c, j) = <<"c2c", point + j, batch>>
  BY DEF CallC2C, Butterfly
<1> HIDE DEF c
<1>2. ASSUME NEW b, b \in Named(c)
      PROVE  \E x \in point .. point + count - 1 : b = <<"c2c", x, batch>>
  <2>1. PICK j \in 0 .. count - 1 : b = <<"c2c", point + j, batch>>
    BY <1>1, <1>2 DEF Named
  <2>2. point + j \in point .. point + count - 1
    OBVIOUS
  <2> QED BY <2>1, <2>2
<1>3. ASSUME NEW x \in point .. point + count - 1
      PROVE  <<"c2c", x, batch>> \in Named(c)
  <2>1. x - point \in 0 .. count - 1 /\ point + (x - point) = x
    OBVIOUS
  <2> QED BY <1>1, <2>1 DEF Named
<1> QED BY <1>2, <1>3 DEF c

LEMMA NamedBatches ==
    ASSUME NEW point \in Nat, NEW batch \in Nat, NEW count \in Nat, NEW base, NEW wide
    PROVE  \A b : b \in Named(CallC2C(point, batch, "batches", count, base, wide))
                      <=> \E x \in batch .. batch + count - 1 : b = <<"c2c", point, x>>
<1> DEFINE c == CallC2C(point, batch, "batches", count, base, wide)
<1>1. c.count = count /\ \A j : Butterfly(c, j) = <<"c2c", point, batch + j>>
  BY DEF CallC2C, Butterfly
<1> HIDE DEF c
<1>2. ASSUME NEW b, b \in Named(c)
      PROVE  \E x \in batch .. batch + count - 1 : b = <<"c2c", point, x>>
  <2>1. PICK j \in 0 .. count - 1 : b = <<"c2c", point, batch + j>>
    BY <1>1, <1>2 DEF Named
  <2>2. batch + j \in batch .. batch + count - 1
    OBVIOUS
  <2> QED BY <2>1, <2>2
<1>3. ASSUME NEW x \in batch .. batch + count - 1
      PROVE  <<"c2c", point, x>> \in Named(c)
  <2>1. x - batch \in 0 .. count - 1 /\ batch + (x - batch) = x
    OBVIOUS
  <2> QED BY <1>1, <2>1 DEF Named
<1> QED BY <1>2, <1>3 DEF c

LEMMA NamedReal ==
    ASSUME NEW kernel, NEW batch \in Nat, NEW count \in Nat
    PROVE  \A b : b \in Named(CallReal(kernel, batch, count))
                      <=> \E x \in batch .. batch + count - 1 : b = <<kernel, 0, x>>
<1> DEFINE c == CallReal(kernel, batch, count)
<1>1. c.count = count /\ \A j : Butterfly(c, j) = <<kernel, 0, batch + j>>
  BY DEF CallReal, Butterfly
<1> HIDE DEF c
<1>2. ASSUME NEW b, b \in Named(c)
      PROVE  \E x \in batch .. batch + count - 1 : b = <<kernel, 0, x>>
  <2>1. PICK j \in 0 .. count - 1 : b = <<kernel, 0, batch + j>>
    BY <1>1, <1>2 DEF Named
  <2>2. batch + j \in batch .. batch + count - 1
    OBVIOUS
  <2> QED BY <2>1, <2>2
<1>3. ASSUME NEW x \in batch .. batch + count - 1
      PROVE  <<kernel, 0, x>> \in Named(c)
  <2>1. x - batch \in 0 .. count - 1 /\ batch + (x - batch) = x
    OBVIOUS
  <2> QED BY <1>1, <2>1 DEF Named
<1> QED BY <1>2, <1>3 DEF c

LEMMA SetsPositive ==
    ASSUME NEW p \in ProblemType
    PROVE  Sets(p) \in Nat \ {0} /\ NumSetsReal(p.isa, p.prec) \in Nat \ {0}
<1>1. p.isa \in 0 .. 3 /\ p.prec \in {"float", "double"}
  BY DEF ProblemType
<1> QED BY <1>1, SetsTable DEF Sets

(* What a set of jobs must be: each butterfly of a set is in the work of    *)
(* one job, and calls are for a number of butterflies.                      *)
SplitsInto(J, B) ==
    /\ \A job \in J : \A c \in job.calls : c.count \in Nat
    /\ \A a, b \in J : a # b => Work(a) \cap Work(b) = {}
    /\ \A x : (\E job \in J : x \in Work(job)) <=> x \in B

(* The jobs and the butterflies of each kind of node.                       *)
LEMMA JobsOf ==
    ASSUME NEW p
    PROVE  /\ p.kind = "plain" => Jobs(p) = PlainJobs(p)
           /\ p.kind = "rowmajor" => Jobs(p) = RowMajorJobs(p)
           /\ p.kind = "colmajor" => Jobs(p) = ColMajorJobs(p)
           /\ p.kind = "direct" => Jobs(p) = RealJobs(p)
           /\ p.kind = "stage" =>
                  Jobs(p) = RealJobs(p) \cup (IF ThreadsC2C(p) > 0 THEN ComplexJobs(p) ELSE {})
  BY DEF Jobs

LEMMA ExpectedOf ==
    ASSUME NEW p
    PROVE  /\ p.kind = "plain" => Expected(p) = {"c2c"} \X (0 .. p.n - 1) \X {0}
           /\ p.kind \in {"rowmajor", "colmajor"} =>
                  Expected(p) = {"c2c"} \X (0 .. p.n - 1) \X (0 .. p.batches - 1)
           /\ p.kind = "direct" => Expected(p) = {"r2hc"} \X {0} \X (0 .. p.n - 1)
           /\ p.kind = "stage" =>
                  Expected(p) =
                      ({"c2c"} \X (0 .. (p.freq - 1) \div 2 - 1) \X (0 .. p.groups - 1))
                      \cup ({IF p.freq % 2 = 1 THEN "r2hc" ELSE "r2hcf"} \X {0}
                            \X (0 .. p.groups - 1))
  BY DEF Expected

(* A job of one call.                                                       *)
LEMMA WorkOfOne ==
    ASSUME NEW lane, NEW tail, NEW c
    PROVE  Work(Job(lane, tail, {c})) = Named(c)
  BY DEF Work, Job

(* A job of one call for a piece.                                           *)
LEMMA WorkOfPoints ==
    ASSUME NEW first \in Nat, NEW count \in Nat, NEW batch \in Nat,
           NEW base, NEW wide, NEW lane, NEW tail
    PROVE  \A b : b \in Work(Job(lane, tail, {CallC2C(first, batch, "points", count, base, wide)}))
                      <=> \E x \in first .. first + count - 1 : b = <<"c2c", x, batch>>
<1> DEFINE c == CallC2C(first, batch, "points", count, base, wide)
<1>1. \A b : b \in Named(c) <=> \E x \in first .. first + count - 1 : b = <<"c2c", x, batch>>
  BY NamedPoints
<1>2. Work(Job(lane, tail, {c})) = Named(c)
  BY WorkOfOne
<1> HIDE DEF c
<1>3. \A b : b \in Work(Job(lane, tail, {c})) <=> b \in Named(c)
  BY <1>2
<1> QED BY <1>1, <1>3 DEF c

LEMMA WorkOfBatches ==
    ASSUME NEW first \in Nat, NEW count \in Nat, NEW point \in Nat,
           NEW base, NEW wide, NEW lane, NEW tail
    PROVE  \A b : b \in Work(Job(lane, tail, {CallC2C(point, first, "batches", count, base, wide)}))
                      <=> \E x \in first .. first + count - 1 : b = <<"c2c", point, x>>
<1> DEFINE c == CallC2C(point, first, "batches", count, base, wide)
<1>1. \A b : b \in Named(c) <=> \E x \in first .. first + count - 1 : b = <<"c2c", point, x>>
  BY NamedBatches
<1>2. Work(Job(lane, tail, {c})) = Named(c)
  BY WorkOfOne
<1> HIDE DEF c
<1>3. \A b : b \in Work(Job(lane, tail, {c})) <=> b \in Named(c)
  BY <1>2
<1> QED BY <1>1, <1>3 DEF c

LEMMA WorkOfReal ==
    ASSUME NEW first \in Nat, NEW count \in Nat, NEW kernel, NEW lane, NEW tail
    PROVE  \A b : b \in Work(Job(lane, tail, {CallReal(kernel, first, count)}))
                      <=> \E x \in first .. first + count - 1 : b = <<kernel, 0, x>>
<1> DEFINE c == CallReal(kernel, first, count)
<1>1. \A b : b \in Named(c) <=> \E x \in first .. first + count - 1 : b = <<kernel, 0, x>>
  BY NamedReal
<1>2. Work(Job(lane, tail, {c})) = Named(c)
  BY WorkOfOne
<1> HIDE DEF c
<1>3. \A b : b \in Work(Job(lane, tail, {c})) <=> b \in Named(c)
  BY <1>2
<1> QED BY <1>1, <1>3 DEF c

(* The pieces of a complex node.                                            *)
LEMMA PlainSplits ==
    ASSUME NEW p \in ProblemType, p.kind = "plain"
    PROVE  SplitsInto(Jobs(p), Expected(p))
<1> DEFINE yes == TRUE
           tail(s) == s.tail
           Call(s) == CallC2C(s.first, 0, "points", s.count, (p.radix - 1) * s.first, yes)
           J(s) == Job(<<"c2c">>, tail(s), {Call(s)})
           P == Pieces(p.n, Sets(p))
<1>1. /\ \A s \in P : s.first \in Nat /\ s.count \in Nat
      /\ \A s, u \in P : s # u => Part(s) \cap Part(u) = {}
      /\ \A x \in Nat : (\E s \in P : x \in Part(s)) <=> x < p.n
  BY SetsPositive, PiecesPartition DEF ProblemType, Partitions
<1>2. \A job : job \in Jobs(p) <=> \E s \in P : job = J(s)
  <2>1. Jobs(p) = PlainJobs(p)
    BY JobsOf
  <2>2. PlainJobs(p) = {J(s) : s \in P}
    BY Zenon DEF PlainJobs
  <2> HIDE DEF P, J
  <2> QED BY <2>1, <2>2
<1>3. \A s : J(s).calls = {Call(s)} /\ Call(s).count = s.count
  BY DEF Job, CallC2C
<1> HIDE DEF yes, tail
<1>4. \A s \in P : \A x : x \in Work(J(s)) <=> \E i \in Part(s) : x = <<"c2c", i, 0>>
  <2> SUFFICES ASSUME NEW s \in P
               PROVE  \A x : x \in Work(J(s)) <=> \E i \in Part(s) : x = <<"c2c", i, 0>>
    OBVIOUS
  <2> DEFINE base == (p.radix - 1) * s.first
             first == s.first
             count == s.count
             end == tail(s)
  <2>1. first \in Nat /\ count \in Nat /\ Part(s) = first .. first + count - 1
    BY <1>1 DEF Part
  <2>2. J(s) = Job(<<"c2c">>, end, {CallC2C(first, 0, "points", count, base, yes)})
    OBVIOUS
  <2> HIDE DEF J, base, first, count, end
  <2>3. \A x : x \in Work(J(s)) <=> \E i \in first .. first + count - 1 : x = <<"c2c", i, 0>>
    BY <2>1, <2>2, WorkOfPoints
  <2> QED BY <2>1, <2>3
<1>5. \A x : x \in Expected(p) <=> \E i \in 0 .. p.n - 1 : x = <<"c2c", i, 0>>
  BY ExpectedOf
<1>6. \A s \in P : Part(s) \subseteq Nat
  BY <1>1 DEF Part
<1>7. p.n \in Nat
  BY DEF ProblemType
<1> HIDE DEF P, J, Call
<1> QED BY <1>1, <1>2, <1>3, <1>4, <1>5, <1>6, <1>7 DEF SplitsInto

LEMMA PartsInRange ==
    ASSUME NEW S, NEW m \in Nat, Partitions(S, m)
    PROVE  \A x : (\E s \in S : x \in Part(s)) <=> x \in 0 .. m - 1
<1>1. \A s \in S : Part(s) \subseteq Nat
  BY DEF Partitions, Part
<1> QED BY <1>1 DEF Partitions

(* A call and a job for one piece of the batches of a point.                *)
LEMMA NamedBatchCall ==
    ASSUME NEW p, NEW i \in Nat, NEW s, s.first \in Nat, s.count \in Nat
    PROVE  /\ \A x : x \in Named(BatchCall(p, i, s)) <=> \E b \in Part(s) : x = <<"c2c", i, b>>
           /\ BatchCall(p, i, s).count \in Nat
<1> DEFINE no == FALSE
           first == s.first
           count == s.count
           base == (p.radix - 1) * i
           c == CallC2C(i, first, "batches", count, base, no)
<1>1. BatchCall(p, i, s) = c
  BY Zenon DEF BatchCall
<1>2. c.count = count
  BY DEF CallC2C
<1>3. first \in Nat /\ count \in Nat /\ Part(s) = first .. first + count - 1
  BY DEF Part
<1> HIDE DEF no, first, count, base
<1>4. \A x : x \in Named(c) <=> \E b \in first .. first + count - 1 : x = <<"c2c", i, b>>
  BY <1>3, NamedBatches
<1> HIDE DEF c
<1> QED BY <1>1, <1>2, <1>3, <1>4

LEMMA WorkOfBatchJob ==
    ASSUME NEW p, NEW lane, NEW i \in Nat, NEW s, s.first \in Nat, s.count \in Nat
    PROVE  /\ \A x : x \in Work(BatchJob(p, lane, i, s)) <=> \E b \in Part(s) : x = <<"c2c", i, b>>
           /\ \A c \in BatchJob(p, lane, i, s).calls : c.count \in Nat
<1>1. BatchJob(p, lane, i, s).calls = {BatchCall(p, i, s)}
  BY Zenon DEF BatchJob, Job
<1>2. Work(BatchJob(p, lane, i, s)) = Named(BatchCall(p, i, s))
  BY <1>1 DEF Work
<1> QED BY <1>1, <1>2, NamedBatchCall

(* All points with all pieces of the batches.                               *)
Grid(n, m) == {"c2c"} \X (0 .. n - 1) \X (0 .. m - 1)
IsGrid(JS, p, lane, n, S) == JS = {BatchJob(p, lane[i], i, s) : i \in 0 .. n - 1, s \in S}

LEMMA GridSplits ==
    ASSUME NEW JS, NEW p, NEW lane, NEW n \in Nat, NEW m \in Nat, NEW S,
           IsGrid(JS, p, lane, n, S), Partitions(S, m)
    PROVE  SplitsInto(JS, Grid(n, m))
<1> DEFINE J(i, s) == BatchJob(p, lane[i], i, s)
           B == Grid(n, m)
<1>0. JS = {J(i, s) : i \in 0 .. n - 1, s \in S}
  BY DEF IsGrid
<1>1. \A i \in 0 .. n - 1, s \in S :
          /\ \A x : x \in Work(J(i, s)) <=> \E b \in Part(s) : x = <<"c2c", i, b>>
          /\ \A c \in J(i, s).calls : c.count \in Nat
  <2> DEFINE ln(i) == lane[i]
  <2> SUFFICES ASSUME NEW i \in 0 .. n - 1, NEW s \in S
               PROVE  /\ \A x : x \in Work(BatchJob(p, ln(i), i, s)) <=>
                                   \E b \in Part(s) : x = <<"c2c", i, b>>
                      /\ \A c \in BatchJob(p, ln(i), i, s).calls : c.count \in Nat
    BY Zenon
  <2>1. i \in Nat /\ s.first \in Nat /\ s.count \in Nat
    BY DEF Partitions
  <2> HIDE DEF ln
  <2> QED BY <2>1, WorkOfBatchJob
<1>2. \A x : x \in B <=> \E i \in 0 .. n - 1, b \in 0 .. m - 1 : x = <<"c2c", i, b>>
  BY DEF Grid
<1>3. \A x : (\E s \in S : x \in Part(s)) <=> x \in 0 .. m - 1
  BY PartsInRange
<1> HIDE DEF J, B
<1>4. ASSUME NEW a \in JS, NEW b \in JS, a # b
      PROVE  Work(a) \cap Work(b) = {}
  <2>1. PICK i \in 0 .. n - 1, s \in S : a = J(i, s)
    BY <1>0
  <2>2. PICK k \in 0 .. n - 1, u \in S : b = J(k, u)
    BY <1>0
  <2>3. i # k \/ Part(s) \cap Part(u) = {}
    BY <1>4, <2>1, <2>2 DEF Partitions
  <2> QED BY <1>1, <2>1, <2>2, <2>3
<1>5. \A x : (\E job \in JS : x \in Work(job)) <=> x \in B
  <2>1. ASSUME NEW job \in JS, NEW x \in Work(job)
        PROVE  x \in B
    <3>1. PICK i \in 0 .. n - 1, s \in S : job = J(i, s)
      BY <1>0
    <3>2. PICK b \in Part(s) : x = <<"c2c", i, b>>
      BY <1>1, <3>1
    <3> QED BY <1>2, <1>3, <3>2
  <2>2. ASSUME NEW x \in B
        PROVE  \E job \in JS : x \in Work(job)
    <3>1. PICK i \in 0 .. n - 1, b \in 0 .. m - 1 : x = <<"c2c", i, b>>
      BY <1>2
    <3>2. PICK s \in S : b \in Part(s)
      BY <1>3
    <3>3. J(i, s) \in JS /\ x \in Work(J(i, s))
      BY <1>0, <1>1, <3>1, <3>2
    <3> QED BY <3>3
  <2> QED BY <2>1, <2>2
<1> QED BY <1>0, <1>1, <1>4, <1>5 DEF SplitsInto, B

(* The blocks of the column-major solver, with what is left over, leave     *)
(* nothing out and are disjoint, the empty ones as well.                    *)
LEMMA BlocksPartition ==
    ASSUME NEW n \in Nat, NEW w \in Nat \ {0}, NEW T \in Nat \ {0}
    PROVE  Partitions(Blocks(n, w, T), n)
<1> DEFINE N == n \div w
           q == N \div T
           r == N % T
           at(t) == BlockBegin(t, q, r)
           iters(t) == q + (IF t < r THEN 1 ELSE 0)
           m(t) == at(t) * w
           B(t) == [first |-> m(t), count |-> iters(t) * w, tail |-> FALSE]
           R == [first |-> N * w, count |-> n % w, tail |-> TRUE]
           Rest == {s \in Pieces(n, w) : s.tail}
<1>1. N \in Nat /\ q \in Nat /\ r \in 0 .. T - 1 /\ N = T * q + r
  BY DivMod
<1>2. \A s : s \in Blocks(n, w, T) <=> (\E t \in 0 .. T - 1 : s = B(t)) \/ s \in Rest
  BY Zenon DEF Blocks
<1> HIDE DEF N, q, r
<1>3. \A t \in Nat : at(t) \in Nat /\ at(t + 1) \in Nat
  <2>1. r \in Nat
    BY <1>1
  <2> QED BY <1>1, <2>1, BoundaryNat
<1>4. \A t \in Nat : iters(t) \in Nat /\ at(t + 1) = at(t) + iters(t)
  <2> SUFFICES ASSUME NEW t \in Nat PROVE iters(t) \in Nat /\ at(t + 1) = at(t) + iters(t)
    OBVIOUS
  <2>1. (t + 1) * q = t * q + q /\ t * q \in Nat
    BY <1>1
  <2> QED BY <1>1, <2>1 DEF BlockBegin, Least
<1>5. \A t \in Nat : m(t) \in Nat /\ iters(t) * w \in Nat /\ m(t + 1) = m(t) + iters(t) * w
  <2> SUFFICES ASSUME NEW t \in Nat
               PROVE  m(t) \in Nat /\ iters(t) * w \in Nat /\ m(t + 1) = m(t) + iters(t) * w
    OBVIOUS
  <2>1. \A a \in Nat, b \in Nat : (a + b) * w = a * w + b * w /\ a * w \in Nat
    OBVIOUS
  <2>2. at(t) \in Nat /\ iters(t) \in Nat /\ at(t + 1) = at(t) + iters(t)
    BY <1>3, <1>4
  <2> HIDE DEF at, iters
  <2> QED BY <2>1, <2>2
<1>6. \A t, u \in Nat : t < u => m(t + 1) <= m(u)
  <2> SUFFICES ASSUME NEW t \in Nat, NEW u \in Nat, t < u PROVE m(t + 1) <= m(u)
    OBVIOUS
  <2>1. at(t + 1) <= at(u) /\ at(t + 1) \in Nat /\ at(u) \in Nat
    BY <1>1, <1>3, BoundaryOrder
  <2> HIDE DEF at
  <2> QED BY <2>1, MulMono
<1>7. at(0) = 0 /\ at(T) = N
  BY <1>1 DEF BlockBegin, Least
<1>8. m(0) = 0 /\ m(T) = N * w
  BY <1>7
<1>9. \A t : Part(B(t)) = m(t) .. m(t) + iters(t) * w - 1
  BY DEF Part
<1>10. /\ \A b \in Nat : b * w \in Nat /\ (b + 1) * w = b * w + w
       /\ N * w \in Nat /\ n % w \in 0 .. w - 1 /\ n = N * w + (n % w)
       /\ \A x \in 0 .. N * w - 1 : \E b \in 0 .. N - 1 : b * w <= x /\ x < b * w + w
  <2>1. \A b \in Nat : b * w \in Nat /\ (b + 1) * w = b * w + w
    OBVIOUS
  <2>2. /\ N * w \in Nat /\ n % w \in 0 .. w - 1 /\ n = N * w + (n % w)
        /\ \A x \in 0 .. N * w - 1 : \E b \in 0 .. N - 1 : b * w <= x /\ x < b * w + w
    BY Multiples DEF N
  <2> QED BY <2>1, <2>2
<1>11. \A s \in Rest : n % w # 0 /\ s = R
  <2> DEFINE W(i) == [first |-> i * w, count |-> w, tail |-> FALSE]
  <2>1. \A s : s \in Pieces(n, w) => (\E i \in 0 .. N - 1 : s = W(i)) \/ (n % w # 0 /\ s = R)
    BY Zenon DEF Pieces, N
  <2>2. \A i : ~ W(i).tail
    OBVIOUS
  <2> HIDE DEF W, R
  <2> QED BY <2>1, <2>2, Zenon
<1>12. n % w # 0 => R \in Rest
  <2>1. n % w # 0 => R \in Pieces(n, w)
    BY Zenon DEF Pieces, N
  <2>2. R.tail
    OBVIOUS
  <2> HIDE DEF R
  <2> QED BY <2>1, <2>2
<1>13. \A t \in 0 .. T - 1 : t \in Nat /\ m(t) \in Nat /\ iters(t) * w \in Nat
                               /\ m(t) + iters(t) * w <= N * w
  <2> SUFFICES ASSUME NEW t \in 0 .. T - 1
               PROVE  m(t) \in Nat /\ iters(t) * w \in Nat /\ m(t) + iters(t) * w <= N * w
    OBVIOUS
  <2>1. t \in Nat /\ T \in Nat /\ t < T
    OBVIOUS
  <2>2. m(t) \in Nat /\ iters(t) * w \in Nat /\ m(t + 1) = m(t) + iters(t) * w
    BY <1>5, <2>1
  <2>3. m(t + 1) <= m(T)
    BY <1>6, <2>1
  <2> HIDE DEF m, iters
  <2> QED BY <1>8, <2>2, <2>3
<1> DEFINE size(t) == iters(t) * w
           E == N * w
<1>14. /\ \A t \in 0 .. T - 1 : B(t).first = m(t) /\ B(t).count = size(t)
       /\ \A t : Part(B(t)) = m(t) .. m(t) + size(t) - 1
       /\ R.first = E /\ R.count = n % w /\ Part(R) = E .. E + (n % w) - 1
  <2>1. \A t : B(t).first = m(t) /\ B(t).count = size(t)
    OBVIOUS
  <2>2. R.first = E /\ R.count = n % w /\ Part(R) = E .. E + (n % w) - 1
    BY DEF Part
  <2> HIDE DEF B, R, m, iters, E
  <2> QED BY <1>9, <2>1, <2>2
<1>15. \A t \in 0 .. T - 1 : t \in Nat /\ m(t) \in Nat /\ size(t) \in Nat /\ m(t) + size(t) <= E
  BY <1>13
<1>16. E \in Nat /\ n % w \in 0 .. w - 1 /\ n = E + (n % w)
  BY <1>10
<1>17. \A t, u \in 0 .. T - 1 : t < u => m(t) + size(t) <= m(u)
  BY <1>5, <1>6, <1>15
<1> HIDE DEF m, iters, B, R, Rest, at, size, E
<1>18. \A s \in Blocks(n, w, T) : s.first \in Nat /\ s.count \in Nat
  <2> SUFFICES ASSUME NEW s \in Blocks(n, w, T) PROVE s.first \in Nat /\ s.count \in Nat
    OBVIOUS
  <2>1. CASE \E t \in 0 .. T - 1 : s = B(t)
    BY <1>14, <1>15, <2>1
  <2>2. CASE s = R
    <3>1. n % w \in Nat
      BY <1>16
    <3> QED BY <1>14, <1>16, <2>2, <3>1
  <2> QED BY <1>2, <1>11, <2>1, <2>2
<1>19. ASSUME NEW s \in Blocks(n, w, T), NEW u \in Blocks(n, w, T), s # u
       PROVE  Part(s) \cap Part(u) = {}
  <2>1. ASSUME NEW t \in 0 .. T - 1, NEW v \in 0 .. T - 1, t < v
        PROVE  Part(B(t)) \cap Part(B(v)) = {}
    <3>1. /\ m(t) \in Nat /\ size(t) \in Nat /\ m(v) \in Nat /\ size(v) \in Nat
          /\ m(t) + size(t) <= m(v)
      BY <1>15, <1>17, <2>1
    <3>2. Part(B(t)) = m(t) .. m(t) + size(t) - 1 /\ Part(B(v)) = m(v) .. m(v) + size(v) - 1
      BY <1>14
    <3> QED BY <3>1, <3>2
  <2>2. ASSUME NEW t \in 0 .. T - 1
        PROVE  Part(B(t)) \cap Part(R) = {}
    <3>1. m(t) \in Nat /\ size(t) \in Nat /\ m(t) + size(t) <= E
      BY <1>15
    <3> QED BY <1>14, <1>16, <3>1
  <2>3. CASE s \in Rest \/ u \in Rest
    BY <1>2, <1>11, <1>19, <2>2, <2>3
  <2>4. CASE ~(s \in Rest \/ u \in Rest)
    <3>1. PICK t \in 0 .. T - 1 : s = B(t)
      BY <1>2, <2>4
    <3>2. PICK v \in 0 .. T - 1 : u = B(v)
      BY <1>2, <2>4
    <3>3. t < v \/ v < t
      BY <1>15, <1>19, <3>1, <3>2
    <3> QED BY <2>1, <3>1, <3>2, <3>3
  <2> QED BY <2>3, <2>4
<1>20. ASSUME NEW x \in Nat
       PROVE  (\E s \in Blocks(n, w, T) : x \in Part(s)) <=> x < n
  <2>1. ASSUME NEW s \in Blocks(n, w, T), x \in Part(s)
        PROVE  x < n
    <3>1. CASE \E t \in 0 .. T - 1 : s = B(t)
      <4>1. PICK t \in 0 .. T - 1 : s = B(t)
        BY <3>1
      <4>2. m(t) \in Nat /\ size(t) \in Nat /\ m(t) + size(t) <= E /\ x \in m(t) .. m(t) + size(t) - 1
        BY <1>14, <1>15, <2>1, <4>1
      <4> QED BY <1>16, <4>2
    <3>2. CASE s = R
      <4>1. x \in E .. E + (n % w) - 1
        BY <1>14, <2>1, <3>2
      <4> QED BY <1>16, <4>1
    <3> QED BY <1>2, <1>11, <3>1, <3>2
  <2>2. ASSUME x < E
        PROVE  \E s \in Blocks(n, w, T) : x \in Part(s)
    <3>1. PICK b \in 0 .. N - 1 : b * w <= x /\ x < b * w + w
      BY <1>10, <1>16, <2>2 DEF E
    <3>2. b \in Nat /\ b < N
      BY <1>1
    <3>3. PICK t \in 0 .. T - 1 : at(t) <= b /\ b < at(t + 1)
      <4>1. q \in Nat /\ r \in 0 .. T - 1 /\ b < T * q + r
        BY <1>1, <3>2
      <4>2. \E t \in 0 .. T - 1 : BlockBegin(t, q, r) <= b /\ b < BlockBegin(t + 1, q, r)
        BY <3>2, <4>1, BlockOwner
      <4> QED BY <4>2 DEF at
    <3>4. t \in Nat /\ at(t) \in Nat /\ at(t + 1) \in Nat /\ b + 1 <= at(t + 1)
      BY <1>3, <3>2, <3>3
    <3>5. at(t) * w <= b * w /\ (b + 1) * w <= at(t + 1) * w
      BY <3>2, <3>3, <3>4, MulMono
    <3>6. (b + 1) * w = b * w + w /\ b * w \in Nat
      BY <1>10, <3>2
    <3>7. m(t) <= b * w /\ b * w + w <= m(t + 1)
      BY <3>5, <3>6 DEF m
    <3>8. m(t + 1) = m(t) + size(t) /\ m(t) \in Nat /\ size(t) \in Nat
      BY <1>5, <3>4 DEF size
    <3>9. x \in Part(B(t))
      BY <1>14, <3>1, <3>6, <3>7, <3>8
    <3> QED BY <1>2, <3>9
  <2>3. ASSUME E <= x, x < n
        PROVE  \E s \in Blocks(n, w, T) : x \in Part(s)
    <3>1. n % w # 0 /\ x \in E .. E + (n % w) - 1
      BY <1>16, <2>3
    <3> QED BY <1>2, <1>12, <1>14, <3>1
  <2> QED BY <1>16, <2>1, <2>2, <2>3
<1> QED BY <1>18, <1>19, <1>20 DEF Partitions

LEMMA ColMajorSplits ==
    ASSUME NEW p \in ProblemType, p.kind = "colmajor"
    PROVE  SplitsInto(Jobs(p), Expected(p))
<1> DEFINE S == Blocks(p.batches, Sets(p), NumThreads(p))
           lane == [i \in 0 .. p.n - 1 |-> <<"c2c">>]
<1>1. /\ p.n \in Nat \ {0} /\ p.batches \in Nat \ {0} /\ p.avl \in Nat \ {0}
      /\ Sets(p) \in Nat \ {0}
  BY SetsPositive DEF ProblemType
<1>2. NumThreads(p) \in Nat \ {0}
  BY <1>1 DEF NumThreads, Least, Most
<1>3. Partitions(S, p.batches)
  BY <1>1, <1>2, BlocksPartition
<1>4. \A i \in 0 .. p.n - 1 : lane[i] = <<"c2c">>
  OBVIOUS
<1> HIDE DEF S, lane
<1>5. Jobs(p) = {BatchJob(p, <<"c2c">>, i, s) : i \in 0 .. p.n - 1, s \in S}
  BY JobsOf DEF ColMajorJobs, S
<1>6. IsGrid(Jobs(p), p, lane, p.n, S)
  BY <1>4, <1>5 DEF IsGrid
<1>7. Expected(p) = Grid(p.n, p.batches)
  BY ExpectedOf DEF Grid
<1> QED BY <1>1, <1>3, <1>6, <1>7, GridSplits

(* The row-major solver: all points in one job.                             *)
LEMMA RowMajorSplits ==
    ASSUME NEW p \in ProblemType, p.kind = "rowmajor"
    PROVE  SplitsInto(Jobs(p), Expected(p))
<1> DEFINE S == Pieces(p.batches, Sets(p))
           J(s) == Job(<<"c2c">>, s.tail, {BatchCall(p, i, s) : i \in 0 .. p.n - 1})
<1>1. p.n \in Nat /\ p.batches \in Nat
  BY DEF ProblemType
<1>2. Partitions(S, p.batches)
  BY <1>1, SetsPositive, PiecesPartition
<1>3. Jobs(p) = {J(s) : s \in S}
  BY JobsOf, Zenon DEF RowMajorJobs
<1>4. Expected(p) = {"c2c"} \X (0 .. p.n - 1) \X (0 .. p.batches - 1)
  BY ExpectedOf
<1>5. \A s \in S, i \in 0 .. p.n - 1 :
          /\ \A x : x \in Named(BatchCall(p, i, s)) <=> \E b \in Part(s) : x = <<"c2c", i, b>>
          /\ BatchCall(p, i, s).count \in Nat
  <2> SUFFICES ASSUME NEW s \in S, NEW i \in 0 .. p.n - 1
               PROVE  /\ \A x : x \in Named(BatchCall(p, i, s)) <=>
                                     \E b \in Part(s) : x = <<"c2c", i, b>>
                      /\ BatchCall(p, i, s).count \in Nat
    OBVIOUS
  <2>1. s.first \in Nat /\ s.count \in Nat /\ i \in Nat
    BY <1>2 DEF Partitions
  <2> QED BY <2>1, NamedBatchCall
<1>6. \A s \in S : J(s).calls = {BatchCall(p, i, s) : i \in 0 .. p.n - 1}
  BY Zenon DEF Job
<1> HIDE DEF J, S
<1>7. \A s \in S : \A x : x \in Work(J(s)) <=>
                            \E i \in 0 .. p.n - 1, b \in Part(s) : x = <<"c2c", i, b>>
  <2> SUFFICES ASSUME NEW s \in S
               PROVE  \A x : x \in Work(J(s)) <=>
                              \E i \in 0 .. p.n - 1, b \in Part(s) : x = <<"c2c", i, b>>
    OBVIOUS
  <2>1. \A x : x \in Work(J(s)) <=> \E i \in 0 .. p.n - 1 : x \in Named(BatchCall(p, i, s))
    BY <1>6 DEF Work
  <2> QED BY <1>5, <2>1
<1>8. \A s \in S : \A c \in J(s).calls : c.count \in Nat
  BY <1>5, <1>6
<1>9. \A x : (\E s \in S : x \in Part(s)) <=> x \in 0 .. p.batches - 1
  BY <1>1, <1>2, PartsInRange
<1>10. ASSUME NEW a \in Jobs(p), NEW b \in Jobs(p), a # b
       PROVE  Work(a) \cap Work(b) = {}
  <2>1. PICK s \in S, u \in S : a = J(s) /\ b = J(u)
    BY <1>3
  <2>2. Part(s) \cap Part(u) = {}
    BY <1>2, <1>10, <2>1 DEF Partitions
  <2> QED BY <1>7, <2>1, <2>2
<1>11. \A x : x \in Expected(p) <=>
                   \E i \in 0 .. p.n - 1, b \in 0 .. p.batches - 1 : x = <<"c2c", i, b>>
  BY <1>4
<1>12. ASSUME NEW job \in Jobs(p), NEW x \in Work(job)
       PROVE  x \in Expected(p)
  <2>1. PICK s \in S : job = J(s)
    BY <1>3
  <2>2. PICK i \in 0 .. p.n - 1, b \in Part(s) : x = <<"c2c", i, b>>
    BY <1>7, <2>1
  <2> QED BY <1>9, <1>11, <2>2
<1>13. ASSUME NEW x \in Expected(p)
       PROVE  \E job \in Jobs(p) : x \in Work(job)
  <2>1. PICK i \in 0 .. p.n - 1, b \in 0 .. p.batches - 1 : x = <<"c2c", i, b>>
    BY <1>11
  <2>2. PICK s \in S : b \in Part(s)
    BY <1>9
  <2>3. J(s) \in Jobs(p) /\ x \in Work(J(s))
    BY <1>3, <1>7, <2>1, <2>2
  <2> QED BY <2>3
<1> QED BY <1>3, <1>8, <1>10, <1>12, <1>13 DEF SplitsInto

(* The real kernels: pieces of the groups.                                  *)
LEMMA RealSplits ==
    ASSUME NEW p \in ProblemType, NEW kernel, NEW count \in Nat,
           kernel = (IF R2HCCount(p) # 0 THEN "r2hc" ELSE "r2hcf"),
           count = (IF R2HCCount(p) # 0 THEN R2HCCount(p) ELSE R2HCFCount(p))
    PROVE  SplitsInto(RealJobs(p), {kernel} \X {0} \X (0 .. count - 1))
<1> DEFINE tail(s) == s.tail
           Call(s) == CallReal(kernel, s.first, s.count)
           J(s) == Job(<<"real">>, tail(s), {Call(s)})
           S == Pieces(count, NumSetsReal(p.isa, p.prec))
           B == {kernel} \X {0} \X (0 .. count - 1)
<1>1. Partitions(S, count)
  BY SetsPositive, PiecesPartition
<1>2. RealJobs(p) = {J(s) : s \in S}
  BY Zenon DEF RealJobs
<1>3. \A s : J(s).calls = {Call(s)} /\ Call(s).count = s.count
  BY DEF Job, CallReal
<1> HIDE DEF tail
<1>4. \A s \in S : \A x : x \in Work(J(s)) <=> \E i \in Part(s) : x = <<kernel, 0, i>>
  <2> SUFFICES ASSUME NEW s \in S
               PROVE  \A x : x \in Work(J(s)) <=> \E i \in Part(s) : x = <<kernel, 0, i>>
    OBVIOUS
  <2>1. s.first \in Nat /\ s.count \in Nat
    BY <1>1 DEF Partitions
  <2> QED BY <2>1, WorkOfReal DEF Part
<1>5. \A x : x \in B <=> \E i \in 0 .. count - 1 : x = <<kernel, 0, i>>
  OBVIOUS
<1>6. \A x : (\E s \in S : x \in Part(s)) <=> x \in 0 .. count - 1
  BY <1>1, PartsInRange
<1> HIDE DEF J, Call, S, B
<1>7. \A job \in RealJobs(p) : \A c \in job.calls : c.count \in Nat
  BY <1>1, <1>2, <1>3 DEF Partitions
<1>8. ASSUME NEW a \in RealJobs(p), NEW b \in RealJobs(p), a # b
      PROVE  Work(a) \cap Work(b) = {}
  <2>1. PICK s \in S, u \in S : a = J(s) /\ b = J(u)
    BY <1>2
  <2>2. Part(s) \cap Part(u) = {}
    BY <1>1, <1>8, <2>1 DEF Partitions
  <2> QED BY <1>4, <2>1, <2>2
<1>9. \A x : (\E job \in RealJobs(p) : x \in Work(job)) <=> x \in B
  BY <1>2, <1>4, <1>5, <1>6
<1> QED BY <1>7, <1>8, <1>9 DEF SplitsInto, B

LEMMA DirectSplits ==
    ASSUME NEW p \in ProblemType, p.kind = "direct"
    PROVE  SplitsInto(Jobs(p), Expected(p))
<1>1. R2HCCount(p) = p.n /\ p.n \in Nat \ {0}
  BY DEF R2HCCount, ProblemType
<1>2. SplitsInto(RealJobs(p), {"r2hc"} \X {0} \X (0 .. p.n - 1))
  BY <1>1, RealSplits
<1> QED BY <1>2, JobsOf, ExpectedOf

(* Two sets of jobs beside each other.                                      *)
LEMMA UnionSplits ==
    ASSUME NEW J, NEW B, NEW K, NEW C, SplitsInto(J, B), SplitsInto(K, C), B \cap C = {}
    PROVE  SplitsInto(J \cup K, B \cup C)
<1>1. \A job \in J : Work(job) \subseteq B
  BY DEF SplitsInto
<1>2. \A job \in K : Work(job) \subseteq C
  BY DEF SplitsInto
<1>3. \A a, b \in J \cup K : a # b => Work(a) \cap Work(b) = {}
  BY <1>1, <1>2 DEF SplitsInto
<1> QED BY <1>3 DEF SplitsInto

(* The complex kernels of a stage, in either nesting of the loops.          *)
LEMMA ComplexSplits ==
    ASSUME NEW p \in ProblemType, p.kind = "stage"
    PROVE  SplitsInto(ComplexJobs(p), Grid(C2CPerGroup(p), p.groups))
<1> DEFINE P == C2CPerGroup(p)
           B == Grid(P, p.groups)
<1>1. P \in Nat /\ p.groups \in Nat
  BY StageWeights DEF ProblemType
<1>2. CASE Asymmetric(p)
  <2> DEFINE no == FALSE
             yes == TRUE
             Call(g) == CallC2C(0, g, "points", P, 0, yes)
             J(g) == Job(<<"c2c">>, no, {Call(g)})
  <2>1. ComplexJobs(p) = {J(g) : g \in 0 .. p.groups - 1}
    <3>1. ComplexJobs(p) = GroupJobs(p)
      BY <1>2 DEF ComplexJobs
    <3>2. GroupJobs(p) = {J(g) : g \in 0 .. p.groups - 1}
      BY Zenon DEF GroupJobs
    <3> QED BY <3>1, <3>2
  <2>2. \A g : J(g).calls = {Call(g)} /\ Call(g).count = P
    BY DEF Job, CallC2C
  <2> HIDE DEF no, yes, P
  <2>3. \A g \in 0 .. p.groups - 1 :
            \A x : x \in Work(J(g)) <=> \E i \in 0 .. P - 1 : x = <<"c2c", i, g>>
    <3> SUFFICES ASSUME NEW g \in 0 .. p.groups - 1
                 PROVE  \A x : x \in Work(J(g)) <=> \E i \in 0 .. P - 1 : x = <<"c2c", i, g>>
      OBVIOUS
    <3>1. g \in Nat /\ 0 + P - 1 = P - 1
      BY <1>1
    <3>2. \A x : x \in Work(J(g)) <=> \E i \in 0 .. 0 + P - 1 : x = <<"c2c", i, g>>
      BY <1>1, <3>1, WorkOfPoints
    <3> QED BY <3>1, <3>2
  <2>4. \A x : x \in B <=> \E i \in 0 .. P - 1, g \in 0 .. p.groups - 1 : x = <<"c2c", i, g>>
    BY DEF Grid
  <2> HIDE DEF J, Call, B
  <2>5. \A job \in ComplexJobs(p) : \A c \in job.calls : c.count \in Nat
    BY <1>1, <2>1, <2>2
  <2>6. ASSUME NEW a \in ComplexJobs(p), NEW b \in ComplexJobs(p), a # b
        PROVE  Work(a) \cap Work(b) = {}
    <3>1. PICK g \in 0 .. p.groups - 1, h \in 0 .. p.groups - 1 : a = J(g) /\ b = J(h)
      BY <2>1
    <3> QED BY <2>3, <2>6, <3>1
  <2>7. \A x : (\E job \in ComplexJobs(p) : x \in Work(job)) <=> x \in B
    BY <2>1, <2>3, <2>4
  <2> QED BY <2>5, <2>6, <2>7 DEF SplitsInto, B, P
<1>3. CASE ~Asymmetric(p)
  <2> DEFINE S == Pieces(p.groups, Sets(p))
             lane == [i \in 0 .. P - 1 |-> <<"c2c", i>>]
  <2>1. Partitions(S, p.groups)
    BY <1>1, SetsPositive, PiecesPartition
  <2>2. \A i \in 0 .. P - 1 : lane[i] = <<"c2c", i>>
    OBVIOUS
  <2>3. ComplexJobs(p) = {BatchJob(p, <<"c2c", i>>, i, s) : i \in 0 .. P - 1, s \in S}
    BY <1>3 DEF ComplexJobs, PointJobs
  <2> HIDE DEF S, lane, P
  <2>4. IsGrid(ComplexJobs(p), p, lane, P, S)
    <3> DEFINE J(i, s) == BatchJob(p, <<"c2c", i>>, i, s)
               K(i, s) == BatchJob(p, lane[i], i, s)
    <3>1. \A i \in 0 .. P - 1, s \in S : J(i, s) = K(i, s)
      BY <2>2
    <3>2. ComplexJobs(p) = {J(i, s) : i \in 0 .. P - 1, s \in S}
      BY <2>3
    <3> HIDE DEF J, K
    <3>3. ComplexJobs(p) = {K(i, s) : i \in 0 .. P - 1, s \in S}
      BY <3>1, <3>2
    <3> QED BY <3>3 DEF IsGrid, K
  <2>5. SplitsInto(ComplexJobs(p), Grid(P, p.groups))
    BY <1>1, <2>1, <2>4, GridSplits
  <2> QED BY <2>5 DEF P
<1> QED BY <1>2, <1>3

LEMMA StageSplits ==
    ASSUME NEW p \in ProblemType, p.kind = "stage"
    PROVE  SplitsInto(Jobs(p), Expected(p))
<1> DEFINE P == C2CPerGroup(p)
           kernel == IF p.freq % 2 = 1 THEN "r2hc" ELSE "r2hcf"
           R == {kernel} \X {0} \X (0 .. p.groups - 1)
<1>1. p.groups \in Nat \ {0} /\ p.freq \in Nat \ {0}
  BY DEF ProblemType
<1>2. P = (p.freq - 1) \div 2 /\ P \in Nat
  <2>1. \A f \in Nat \ {0} : (f \div 2) - (IF f % 2 = 0 THEN 1 ELSE 0) = (f - 1) \div 2
    OBVIOUS
  <2> QED BY <1>1, <2>1, StageWeights DEF C2CPerGroup, IsEven
<1>3. Expected(p) = Grid(P, p.groups) \cup R
  BY <1>2, ExpectedOf DEF Grid
<1>4. SplitsInto(RealJobs(p), R)
  <2>1. /\ kernel = (IF R2HCCount(p) # 0 THEN "r2hc" ELSE "r2hcf")
        /\ p.groups = (IF R2HCCount(p) # 0 THEN R2HCCount(p) ELSE R2HCFCount(p))
    BY <1>1 DEF R2HCCount, R2HCFCount, IsEven
  <2> HIDE DEF kernel
  <2> QED BY <1>1, <2>1, RealSplits
<1>5. Grid(P, p.groups) \cap R = {}
  BY DEF Grid
<1>6. CASE C2CCount(p) # 0
  <2>1. Jobs(p) = RealJobs(p) \cup ComplexJobs(p)
    BY <1>6, JobsOf, StageShares
  <2>2. SplitsInto(ComplexJobs(p), Grid(P, p.groups))
    BY ComplexSplits
  <2>3. Grid(P, p.groups) \cup R = R \cup Grid(P, p.groups) /\ R \cap Grid(P, p.groups) = {}
    BY <1>5
  <2> HIDE DEF P, R
  <2> QED BY <1>3, <1>4, <2>1, <2>2, <2>3, UnionSplits
<1>7. CASE C2CCount(p) = 0
  <2>1. Jobs(p) = RealJobs(p)
    <3>1. ThreadsC2C(p) = 0
      BY <1>7, StageWithoutPoints
    <3> QED BY <3>1, JobsOf
  <2>2. P = 0
    <3>1. P * p.groups = 0
      BY <1>7 DEF C2CCount
    <3> HIDE DEF P
    <3> QED BY <1>1, <1>2, <3>1
  <2>3. Expected(p) = R
    BY <1>3, <2>2 DEF Grid
  <2> QED BY <1>4, <2>1, <2>3
<1> QED BY <1>6, <1>7

(* Each butterfly of a node is in the work of one job.                      *)
LEMMA JobsSplit ==
    ASSUME NEW p \in ProblemType
    PROVE  SplitsInto(Jobs(p), Expected(p))
<1>1. p.kind \in {"plain", "rowmajor", "colmajor", "direct", "stage"}
  BY DEF ProblemType
<1> QED BY <1>1, PlainSplits, RowMajorSplits, ColMajorSplits, DirectSplits, StageSplits

(* A call computes the butterflies it is for.                               *)
Names(results) == {r.of : r \in results}

LEMMA ComputedNames ==
    ASSUME NEW c, c.count \in Nat, problem \in ProblemType
    PROVE  Names(Computed(problem, c)) = Named(c)
<1> DEFINE factors(t, j) ==
               [k \in 1 .. problem.radix - 1 |->
                   FactorsAt(c.base + (IF c.wide THEN Place(t, j, k, problem.radix) ELSE k - 1))]
           Result(t, j) == [of |-> Butterfly(c, j), with |-> factors(t, j)]
           Plain(j) == [of |-> Butterfly(c, j), with |-> <<>>]
           K == KernelTiles(c.count, problem.isa, problem.prec)
           C == Computed(problem, c)
<1>1. /\ \A t, j : Result(t, j).of = Butterfly(c, j)
      /\ \A j : Plain(j).of = Butterfly(c, j)
  OBVIOUS
<1>2. CASE c.kernel = "c2c"
  <2>1. C = UNION {{Result(t, j) : j \in Span(t)} : t \in K}
    BY <1>2, Zenon DEF Computed
  <2>2. Spans(K) = 0 .. c.count - 1
    BY KernelCovers DEF ProblemType
  <2> HIDE DEF K, Result, C
  <2>3. ASSUME NEW x \in Names(C)
        PROVE  x \in Named(c)
    <3>1. PICK r \in C : x = r.of
      BY DEF Names
    <3>2. PICK t \in K : r \in {Result(t, j) : j \in Span(t)}
      BY <2>1
    <3>3. PICK j \in Span(t) : r = Result(t, j)
      BY <3>2
    <3>4. j \in 0 .. c.count - 1
      BY <2>2 DEF Spans
    <3> QED BY <1>1, <3>1, <3>3, <3>4 DEF Named
  <2>4. ASSUME NEW x \in Named(c)
        PROVE  x \in Names(C)
    <3>1. PICK j \in 0 .. c.count - 1 : x = Butterfly(c, j)
      BY DEF Named
    <3>2. PICK t \in K : j \in Span(t)
      BY <2>2 DEF Spans
    <3>3. Result(t, j) \in C
      <4>1. Result(t, j) \in {Result(t, i) : i \in Span(t)}
        BY <3>2
      <4> QED BY <2>1, <3>2, <4>1
    <3> QED BY <1>1, <3>1, <3>3 DEF Names
  <2>5. Names(C) = Named(c)
    BY <2>3, <2>4
  <2> QED BY <2>5 DEF C
<1>3. CASE c.kernel # "c2c"
  <2>1. C = {Plain(j) : j \in 0 .. c.count - 1}
    BY <1>3 DEF Computed
  <2> HIDE DEF Plain, C
  <2>2. Names(C) = Named(c)
    BY <1>1, <2>1 DEF Names, Named
  <2> QED BY <2>2 DEF C
<1> QED BY <1>2, <1>3

(* What has been computed is what no job that is still to do has to         *)
(* compute.                                                                 *)
Progress ==
    /\ problem \in ProblemType
    /\ todo \subseteq Jobs(problem)
    /\ again = {}
    /\ Names(done) = Expected(problem) \ UNION {Work(job) : job \in todo}

LEMMA InitProgress == Init => Progress
<1> SUFFICES ASSUME Init PROVE Progress
  OBVIOUS
<1>1. problem \in ProblemType /\ todo = Jobs(problem) /\ done = {} /\ again = {}
  BY ProblemsAssumption DEF Init
<1>2. SplitsInto(Jobs(problem), Expected(problem))
  BY <1>1, JobsSplit
<1>3. UNION {Work(job) : job \in todo} = Expected(problem)
  BY <1>1, <1>2 DEF SplitsInto
<1> QED BY <1>1, <1>3 DEF Progress, Names

LEMMA NextProgress == Progress /\ [Next]_vars => Progress'
<1> SUFFICES ASSUME Progress, [Next]_vars PROVE Progress'
  OBVIOUS
<1>1. CASE UNCHANGED vars
  BY <1>1 DEF Progress, vars, Names
<1>2. CASE Next
  <2> DEFINE results(job) == UNION {Computed(problem, c) : c \in job.calls}
  <2>1. PICK job \in todo :
            /\ todo' = todo \ {job} /\ done' = done \cup results(job)
            /\ again' = again \cup (Names(results(job)) \cap Names(done))
            /\ problem' = problem
    BY <1>2, Zenon DEF Next, RunJob, Names
  <2>2. /\ problem \in ProblemType /\ todo \subseteq Jobs(problem) /\ again = {}
        /\ Names(done) = Expected(problem) \ UNION {Work(j) : j \in todo}
    BY DEF Progress
  <2>3. SplitsInto(Jobs(problem), Expected(problem))
    BY <2>2, JobsSplit
  <2>4. Names(results(job)) = Work(job)
    <3>1. \A c \in job.calls : Names(Computed(problem, c)) = Named(c)
      BY <2>2, <2>3, ComputedNames DEF SplitsInto
    <3>2. \A x : x \in Names(results(job)) <=>
                    \E c \in job.calls : x \in Names(Computed(problem, c))
      BY DEF Names
    <3> QED BY <3>1, <3>2 DEF Work
  <2> HIDE DEF results
  <2>5. Names(done') = Names(done) \cup Work(job)
    BY <2>1, <2>4 DEF Names
  <2>6. Work(job) \cap Names(done) = {}
    BY <2>2
  <2>7. Work(job) \subseteq Expected(problem)
    BY <2>2, <2>3 DEF SplitsInto
  <2>8. \A j \in todo \ {job} : Work(j) \cap Work(job) = {}
    BY <2>2, <2>3 DEF SplitsInto
  <2>9. Names(done') = Expected(problem) \ UNION {Work(j) : j \in todo \ {job}}
    BY <2>2, <2>5, <2>7, <2>8
  <2> QED BY <2>1, <2>2, <2>4, <2>6, <2>9 DEF Progress, Names
<1> QED BY <1>1, <1>2 DEF vars

(* Each butterfly of every node is computed once, whatever order the        *)
(* threads run their jobs in (execute_mt_direct_solver and its batched and  *)
(* real variants).                                                          *)
THEOREM EachButterflyOnce == Spec => []EachOnce
<1>1. Progress => EachOnce
  BY DEF Progress, EachOnce, Names
<1> QED BY <1>1, InitProgress, NextProgress, PTL DEF Spec

(* The table is the one setup laid out as long as the node executes, and    *)
(* nothing is computed that does not belong to the node (RunJob writes no   *)
(* twiddle factor).                                                         *)
THEOREM TypeCorrect == Spec => []TypeOK
<1> DEFINE IInv == Progress /\ table = Table(problem)
<1>1. Init => IInv
  BY InitProgress DEF Init
<1>2. IInv /\ [Next]_vars => IInv'
  <2>1. [Next]_vars => UNCHANGED <<problem, table>>
    BY DEF Next, RunJob, vars
  <2>2. UNCHANGED problem => UNCHANGED Table(problem)
    OBVIOUS
  <2> QED BY <2>1, <2>2, NextProgress
<1>3. IInv => TypeOK
  BY DEF Progress, TypeOK, Names
<1> QED BY <1>1, <1>2, <1>3, PTL DEF Spec

-----------------------------------------------------------------------------
(* Twiddle factors                                                          *)

(* A number is a multiple of w and a remainder in one way.                  *)
LEMMA EuclidUnique ==
    ASSUME NEW w \in Nat, NEW a \in Nat, NEW b \in Nat,
           NEW x \in 0 .. w - 1, NEW y \in 0 .. w - 1, a * w + x = b * w + y
    PROVE  a = b /\ x = y
<1>1. w \in Nat \ {0}
  OBVIOUS
<1>2. \A i, j \in Nat : i < j => i * w + w <= j * w
  BY <1>1, Multiples
<1>3. a * w \in Nat /\ b * w \in Nat
  OBVIOUS
<1>4. ~(a < b) /\ ~(b < a)
  BY <1>2, <1>3
<1>5. a = b
  BY <1>4
<1> QED BY <1>3, <1>5

-----------------------------------------------------------------------------
(* The layout of setup and the walk of the kernel                           *)

(* The tails of n columns after the first c0, as a kernel has them.         *)
Tails(c0, n, isa, prec) ==
    LET w256 == NumSets(2, prec)
        c1 == IF isa = 3 /\ n - c0 >= w256 THEN c0 + w256 ELSE c0
        c2 == IF prec = "float" /\ isa >= 2 /\ n - c1 >= 2 THEN c1 + 2 ELSE c1
        c3 == IF isa >= (IF prec = "float" THEN 1 ELSE 2) /\ (n - c2) % 2 = 1 THEN c2 + 1 ELSE c2
    IN  Tile(c0, c1) \cup Tile(c1, c2) \cup Tile(c2, c3)

LEMMA KernelTails ==
    ASSUME NEW n, NEW isa, NEW prec
    PROVE  KernelTiles(n, isa, prec) =
              FullTiles(n, NumSets(isa, prec))
              \cup Tails((n \div NumSets(isa, prec)) * NumSets(isa, prec), n, isa, prec)
  BY DEF KernelTiles, Tails

(* The tails of setup, written from the width of a register and not from    *)
(* the SIMD level, are the same.                                            *)
LEMMA TwiddleTails ==
    ASSUME NEW n \in Nat, NEW isa \in 0 .. 3, NEW prec \in {"float", "double"}
    PROVE  TwiddleTiles(n, NumSets(isa, prec), prec) = KernelTiles(n, isa, prec)
<1> DEFINE s == NumSets(isa, prec)
           w256 == NumSets(2, prec)
           w128 == NumSets(1, prec)
           c0 == (n \div s) * s
           c1 == IF isa = 3 /\ n - c0 >= w256 THEN c0 + w256 ELSE c0
           c2 == IF prec = "float" /\ isa >= 2 /\ n - c1 >= 2 THEN c1 + 2 ELSE c1
           c3 == IF isa >= (IF prec = "float" THEN 1 ELSE 2) /\ (n - c2) % 2 = 1
                 THEN c2 + 1 ELSE c2
           d1 == IF s > w256 /\ n - c0 >= w256 THEN c0 + w256 ELSE c0
           d2 == IF s > w128 /\ (IF prec = "float" THEN n - d1 >= w128 ELSE (n - d1) % 2 = 1)
                 THEN d1 + w128 ELSE d1
<1>1. c0 \in Nat /\ c0 <= n /\ n - c0 < s
  <2> HIDE DEF s
  <2>1. s \in Nat \ {0}
    BY SetsTable DEF s
  <2>2. c0 \in Nat /\ n % s \in 0 .. s - 1 /\ n = c0 + (n % s)
    BY <2>1, Multiples
  <2> HIDE DEF c0
  <2> QED BY <2>1, <2>2
<1>2. KernelTiles(n, isa, prec)
         = FullTiles(n, s) \cup Tile(c0, c1) \cup Tile(c1, c2) \cup Tile(c2, c3)
  BY DEF KernelTiles
<1>3. TwiddleTiles(n, s, prec)
         = FullTiles(n, s) \cup Tile(c0, d1) \cup Tile(d1, d2)
           \cup (IF prec = "float" THEN Tile(d2, n) ELSE {})
  BY DEF TwiddleTiles
<1>4. isa = 0 \/ isa = 1 \/ isa = 2 \/ isa = 3
  OBVIOUS
<1>5. \A a : Tile(a, a) = {}
  BY DEF Tile
<1>6. CASE prec = "float"
  <2> HIDE DEF c0
  <2>1. d1 = c1 /\ c1 \in Nat /\ c1 <= n
    BY <1>1, <1>4, <1>6, SetsTable
  <2>2. d2 = c2 /\ c3 = n
    BY <1>1, <1>4, <1>6, SetsTable
  <2> HIDE DEF c1, c2, c3, d1, d2, s
  <2> QED BY <1>2, <1>3, <1>6, <2>1, <2>2 DEF s
<1>7. CASE prec = "double"
  <2> HIDE DEF c0
  <2>1. d1 = c1 /\ c2 = c1
    BY <1>1, <1>4, <1>7, SetsTable
  <2>2. d2 = c3
    BY <1>1, <1>4, <1>7, SetsTable
  <2>3. prec # "float"
    BY <1>7
  <2> HIDE DEF c1, c2, c3, d1, d2, s
  <2> QED BY <1>2, <1>3, <1>5, <2>1, <2>2, <2>3 DEF s
<1> QED BY <1>6, <1>7

(* A tile moved by some columns.                                            *)
Moved(t, by) == [start |-> by + t.start, width |-> t.width]

LEMMA TileMoved ==
    ASSUME NEW a \in Nat, NEW b \in Nat, NEW by \in Nat, NEW t \in Tile(a, b)
    PROVE  Moved(t, by) \in Tile(by + a, by + b)
<1>1. a # b /\ t = [start |-> a, width |-> b - a]
  BY DEF Tile
<1>2. Moved(t, by) = [start |-> by + a, width |-> b - a]
  BY <1>1 DEF Moved
<1>3. by + a # by + b /\ (by + b) - (by + a) = b - a
  BY <1>1
<1> QED BY <1>2, <1>3 DEF Tile

(* Where the tails of n columns end, counted from the first of them.        *)
End1(n, isa, prec) == IF isa = 3 /\ n >= NumSets(2, prec) THEN NumSets(2, prec) ELSE 0
End2(n, isa, prec) ==
    LET e == End1(n, isa, prec)
    IN  IF prec = "float" /\ isa >= 2 /\ n - e >= 2 THEN e + 2 ELSE e
End3(n, isa, prec) ==
    LET e == End2(n, isa, prec)
    IN  IF isa >= (IF prec = "float" THEN 1 ELSE 2) /\ (n - e) % 2 = 1 THEN e + 1 ELSE e

(* The tiles between c and three ends, counted from c.                      *)
Between(c, x, y, z) == Tile(c, c + x) \cup Tile(c + x, c + y) \cup Tile(c + y, c + z)

LEMMA TailsAt ==
    ASSUME NEW n \in Nat, NEW c \in Nat, NEW isa \in 0 .. 3, NEW prec \in {"float", "double"}
    PROVE  /\ End1(n, isa, prec) \in Nat /\ End2(n, isa, prec) \in Nat /\ End3(n, isa, prec) \in Nat
           /\ Tails(c, c + n, isa, prec) =
                  Between(c, End1(n, isa, prec), End2(n, isa, prec), End3(n, isa, prec))
<1> DEFINE w256 == NumSets(2, prec)
           w0 == IF prec = "float" THEN 1 ELSE 2
           e1 == End1(n, isa, prec)
           e2 == End2(n, isa, prec)
           e3 == End3(n, isa, prec)
           d1 == IF isa = 3 /\ (c + n) - c >= w256 THEN c + w256 ELSE c
           d2 == IF prec = "float" /\ isa >= 2 /\ (c + n) - d1 >= 2 THEN d1 + 2 ELSE d1
           d3 == IF isa >= w0 /\ ((c + n) - d2) % 2 = 1 THEN d2 + 1 ELSE d2
<1>1. w256 \in Nat
  BY SetsTable
<1>2. e1 \in Nat /\ d1 = c + e1
  <2>1. e1 = IF isa = 3 /\ n >= w256 THEN w256 ELSE 0
    BY DEF End1
  <2> HIDE DEF w256, e1
  <2> QED BY <1>1, <2>1
<1>3. e2 \in Nat /\ d2 = c + e2
  <2>1. e2 = IF prec = "float" /\ isa >= 2 /\ n - e1 >= 2 THEN e1 + 2 ELSE e1
    BY DEF End2
  <2> HIDE DEF e1, e2, d1
  <2>2. (c + n) - d1 = n - e1
    BY <1>2
  <2> QED BY <1>2, <2>1, <2>2
<1>4. e3 \in Nat /\ d3 = c + e3
  <2>1. e3 = IF isa >= w0 /\ (n - e2) % 2 = 1 THEN e2 + 1 ELSE e2
    BY DEF End3
  <2> HIDE DEF e2, e3, d2, w0
  <2>2. (c + n) - d2 = n - e2
    BY <1>3
  <2>3. ((c + n) - d2) % 2 = (n - e2) % 2
    BY <2>2
  <2>4. CASE isa >= w0 /\ (n - e2) % 2 = 1
    BY <1>3, <2>1, <2>3, <2>4
  <2>5. CASE ~(isa >= w0 /\ (n - e2) % 2 = 1)
    BY <1>3, <2>1, <2>3, <2>5
  <2> QED BY <2>4, <2>5
<1>5. Tails(c, c + n, isa, prec) = Tile(c, d1) \cup Tile(d1, d2) \cup Tile(d2, d3)
  BY Zenon DEF Tails
<1> HIDE DEF d1, d2, d3
<1> QED BY <1>2, <1>3, <1>4, <1>5 DEF e1, e2, e3, Between

LEMMA TailsMoved ==
    ASSUME NEW n \in Nat, NEW by \in Nat, NEW isa \in 0 .. 3, NEW prec \in {"float", "double"},
           NEW t \in Tails(0, n, isa, prec)
    PROVE  Moved(t, by) \in Tails(by, by + n, isa, prec)
<1> DEFINE e1 == End1(n, isa, prec)
           e2 == End2(n, isa, prec)
           e3 == End3(n, isa, prec)
<1>1. e1 \in Nat /\ e2 \in Nat /\ e3 \in Nat
  BY TailsAt
<1>2. Tails(0, n, isa, prec) = Tile(0, e1) \cup Tile(e1, e2) \cup Tile(e2, e3)
  <2>1. 0 + n = n /\ 0 + e1 = e1 /\ 0 + e2 = e2 /\ 0 + e3 = e3 /\ 0 \in Nat
    BY <1>1
  <2>2. \A c \in Nat : Tails(c, c + n, isa, prec) = Between(c, e1, e2, e3)
    BY TailsAt
  <2> HIDE DEF e1, e2, e3
  <2> QED BY <2>1, <2>2 DEF Between
<1>3. Tails(by, by + n, isa, prec) = Between(by, e1, e2, e3)
  BY TailsAt
<1>4. t \in Tile(0, e1) \/ t \in Tile(e1, e2) \/ t \in Tile(e2, e3)
  BY <1>2
<1>5. by + 0 = by
  OBVIOUS
<1> HIDE DEF e1, e2, e3
<1> QED BY <1>1, <1>3, <1>4, <1>5, TileMoved DEF Between

-----------------------------------------------------------------------------
(* The table                                                                *)

(* The tiles of n columns, in registers of width w, lie beside each other.  *)
Apart(T) ==
    \A t, u \in T : t # u => t.start + t.width <= u.start \/ u.start + u.width <= t.start
Tiles(T) == \A t \in T : t.start \in Nat /\ t.width \in Nat \ {0}

LEMMA TilesApart ==
    ASSUME NEW n \in Nat, NEW isa \in 0 .. 3, NEW prec \in {"float", "double"}
    PROVE  Tiles(KernelTiles(n, isa, prec)) /\ Apart(KernelTiles(n, isa, prec))
<1> DEFINE s == NumSets(isa, prec)
           w256 == NumSets(2, prec)
           w0 == IF prec = "float" THEN 1 ELSE 2
           c0 == (n \div s) * s
           c1 == IF isa = 3 /\ n - c0 >= w256 THEN c0 + w256 ELSE c0
           c2 == IF prec = "float" /\ isa >= 2 /\ n - c1 >= 2 THEN c1 + 2 ELSE c1
           c3 == IF isa >= w0 /\ (n - c2) % 2 = 1 THEN c2 + 1 ELSE c2
           K == KernelTiles(n, isa, prec)
           m(i) == i * s
           Reg(i) == [start |-> m(i), width |-> s]
           Cut(a, b) == [start |-> a, width |-> b - a]
<1>1. s \in Nat \ {0} /\ w256 \in Nat
  BY SetsTable
<1>2. /\ n \div s \in Nat /\ c0 \in Nat
      /\ \A i \in 0 .. (n \div s) - 1 : m(i) \in Nat /\ m(i) + s <= c0
      /\ \A i, j \in Nat : i < j => m(i) + s <= m(j)
  <2> HIDE DEF s
  <2> QED BY <1>1, Multiples
<1>3. c1 \in Nat /\ c0 <= c1
  <2> HIDE DEF c0, w256
  <2> QED BY <1>1, <1>2
<1>4. c2 \in Nat /\ c1 <= c2
  <2> HIDE DEF c1
  <2> QED BY <1>3
<1>5. c3 \in Nat /\ c2 <= c3
  <2> HIDE DEF c2, w0
  <2> QED BY <1>4
<1>6. K = FullTiles(n, s) \cup Tile(c0, c1) \cup Tile(c1, c2) \cup Tile(c2, c3)
  BY DEF KernelTiles
<1>7. \A t \in FullTiles(n, s) : \E i \in 0 .. (n \div s) - 1 : t = Reg(i)
  BY DEF FullTiles
<1>8. \A a, b : \A t \in Tile(a, b) : a # b /\ t = Cut(a, b)
  BY DEF Tile
<1> HIDE DEF c0, c1, c2, c3, m, s, K
<1>9. \A t \in K :
         \/ \E i \in 0 .. (n \div s) - 1 : t = Reg(i)
         \/ c0 # c1 /\ t = Cut(c0, c1)
         \/ c1 # c2 /\ t = Cut(c1, c2)
         \/ c2 # c3 /\ t = Cut(c2, c3)
  BY <1>6, <1>7, <1>8
<1>10. Tiles(K)
  <2> SUFFICES ASSUME NEW t \in K
               PROVE  t.start \in Nat /\ t.width \in Nat \ {0}
    BY DEF Tiles
  <2> QED BY <1>1, <1>2, <1>3, <1>4, <1>5, <1>9
<1>11. Apart(K)
  <2> SUFFICES ASSUME NEW t \in K, NEW u \in K, t # u
               PROVE  t.start + t.width <= u.start \/ u.start + u.width <= t.start
    BY DEF Apart
  <2>1. ASSUME NEW i \in 0 .. (n \div s) - 1, NEW j \in 0 .. (n \div s) - 1, m(i) # m(j)
        PROVE  m(i) + s <= m(j) \/ m(j) + s <= m(i)
    <3>1. i < j \/ j < i \/ i = j
      BY <1>2
    <3> QED BY <1>2, <2>1, <3>1
  <2>2. CASE (\E i \in 0 .. (n \div s) - 1 : t = Reg(i)) /\ (\E i \in 0 .. (n \div s) - 1 : u = Reg(i))
    <3>1. PICK i \in 0 .. (n \div s) - 1, j \in 0 .. (n \div s) - 1 : t = Reg(i) /\ u = Reg(j)
      BY <2>2
    <3> QED BY <2>1, <3>1
  <2>3. CASE (\E i \in 0 .. (n \div s) - 1 : t = Reg(i)) /\ ~(\E i \in 0 .. (n \div s) - 1 : u = Reg(i))
    <3>1. PICK i \in 0 .. (n \div s) - 1 : t = Reg(i)
      BY <2>3
    <3>2. m(i) \in Nat /\ m(i) + s <= c0 /\ c0 <= u.start
      BY <1>2, <1>3, <1>4, <1>5, <1>9, <2>3
    <3> QED BY <1>1, <1>2, <1>3, <1>4, <1>5, <1>9, <2>3, <3>1, <3>2
  <2>4. CASE ~(\E i \in 0 .. (n \div s) - 1 : t = Reg(i)) /\ (\E i \in 0 .. (n \div s) - 1 : u = Reg(i))
    <3>1. PICK i \in 0 .. (n \div s) - 1 : u = Reg(i)
      BY <2>4
    <3>2. m(i) \in Nat /\ m(i) + s <= c0 /\ c0 <= t.start
      BY <1>2, <1>3, <1>4, <1>5, <1>9, <2>4
    <3> QED BY <1>1, <1>2, <1>3, <1>4, <1>5, <1>9, <2>4, <3>1, <3>2
  <2>5. CASE ~(\E i \in 0 .. (n \div s) - 1 : t = Reg(i)) /\ ~(\E i \in 0 .. (n \div s) - 1 : u = Reg(i))
    <3>1. t \in {Cut(c0, c1), Cut(c1, c2), Cut(c2, c3)} /\ u \in {Cut(c0, c1), Cut(c1, c2), Cut(c2, c3)}
      BY <1>9, <2>5
    <3> QED BY <1>2, <1>3, <1>4, <1>5, <3>1
  <2> QED BY <2>2, <2>3, <2>4, <2>5
<1> QED BY <1>10, <1>11 DEF K

(* Two columns of a packed table never share a place.                       *)
LEMMA PlacesApart ==
    ASSUME NEW T, Tiles(T), Apart(T), NEW r \in Nat \ {0},
           NEW t \in T, NEW i \in Span(t), NEW k \in 1 .. r,
           NEW u \in T, NEW j \in Span(u), NEW l \in 1 .. r,
           Place(t, i, k, r + 1) = Place(u, j, l, r + 1)
    PROVE  i = j /\ k = l
<1> DEFINE first(v) == r * v.start
           row(v, h) == (h - 1) * v.width
<1>1. /\ t.start \in Nat /\ t.width \in Nat \ {0}
      /\ u.start \in Nat /\ u.width \in Nat \ {0}
  BY DEF Tiles
<1>2. /\ i \in t.start .. t.start + t.width - 1
      /\ j \in u.start .. u.start + u.width - 1
  BY DEF Span
<1>3. first(t) + row(t, k) + (i - t.start) = first(u) + row(u, l) + (j - u.start)
  BY DEF Place
<1>4. ASSUME NEW v \in T, NEW h \in 1 .. r, v.start \in Nat, v.width \in Nat \ {0}
      PROVE  /\ first(v) \in Nat /\ row(v, h) \in Nat
             /\ first(v) + row(v, h) + v.width <= r * (v.start + v.width)
  <2>1. h - 1 \in Nat /\ h - 1 < r
    OBVIOUS
  <2>2. \A a, b \in Nat : a < b => a * v.width + v.width <= b * v.width
    BY <1>4, Multiples
  <2>3. row(v, h) + v.width <= r * v.width
    BY <2>1, <2>2
  <2>4. r * (v.start + v.width) = r * v.start + r * v.width
    BY <1>4
  <2>5. \A a, b \in Nat : a * b \in Nat
    OBVIOUS
  <2>6. first(v) \in Nat /\ row(v, h) \in Nat /\ r * v.width \in Nat
    BY <1>4, <2>1, <2>5
  <2> HIDE DEF first, row
  <2> QED BY <1>4, <2>3, <2>4, <2>6 DEF first
<1>5. ASSUME NEW v \in T, NEW w \in T, v.start \in Nat, v.width \in Nat \ {0}, w.start \in Nat,
             v.start + v.width <= w.start
      PROVE  r * (v.start + v.width) <= first(w)
  <2>1. \A a, b \in Nat : a <= b => r * a <= r * b
    <3> SUFFICES ASSUME NEW a \in Nat, NEW b \in Nat, a <= b PROVE r * a <= r * b
      OBVIOUS
    <3>1. a * r <= b * r
      BY MulMono
    <3> QED BY <3>1
  <2>2. v.start + v.width \in Nat
    BY <1>5
  <2> QED BY <1>5, <2>1, <2>2
<1>6. t = u
  <2>1. SUFFICES ASSUME t # u PROVE FALSE
    OBVIOUS
  <2>2. t.start + t.width <= u.start \/ u.start + u.width <= t.start
    BY <2>1 DEF Apart
  <2>3. r * (t.start + t.width) <= first(u) \/ r * (u.start + u.width) <= first(t)
    BY <1>1, <1>5, <2>2
  <2>4. /\ first(t) \in Nat /\ row(t, k) \in Nat
        /\ first(t) + row(t, k) + t.width <= r * (t.start + t.width)
        /\ first(u) \in Nat /\ row(u, l) \in Nat
        /\ first(u) + row(u, l) + u.width <= r * (u.start + u.width)
    BY <1>1, <1>4
  <2>5. r * (t.start + t.width) \in Nat /\ r * (u.start + u.width) \in Nat
    <3>1. \A a, b \in Nat : a * b \in Nat
      OBVIOUS
    <3>2. t.start + t.width \in Nat /\ u.start + u.width \in Nat
      BY <1>1
    <3> QED BY <3>1, <3>2
  <2> DEFINE et == r * (t.start + t.width)
             eu == r * (u.start + u.width)
  <2> HIDE DEF first, row, et, eu
  <2>6. et <= first(u) \/ eu <= first(t)
    BY <2>3 DEF et, eu
  <2>7. et \in Nat /\ eu \in Nat /\ first(t) + row(t, k) + t.width <= et
        /\ first(u) + row(u, l) + u.width <= eu
    BY <2>4, <2>5 DEF et, eu
  <2> QED BY <1>1, <1>2, <1>3, <2>4, <2>6, <2>7
<1>7. row(t, k) + (i - t.start) = row(t, l) + (j - t.start)
  <2>1. first(t) \in Nat /\ row(t, k) \in Nat /\ row(t, l) \in Nat
    BY <1>1, <1>4
  <2> HIDE DEF first, row
  <2> QED BY <1>1, <1>2, <1>3, <1>6, <2>1
<1>8. k - 1 \in Nat /\ l - 1 \in Nat
  OBVIOUS
<1>9. i - t.start \in 0 .. t.width - 1 /\ j - t.start \in 0 .. t.width - 1
  BY <1>1, <1>2, <1>6
<1>10. k - 1 = l - 1 /\ i - t.start = j - t.start
  <2> DEFINE a == k - 1
             b == l - 1
             x == i - t.start
             y == j - t.start
  <2>1. t.width \in Nat /\ a \in Nat /\ b \in Nat /\ a * t.width + x = b * t.width + y
    BY <1>1, <1>7, <1>8
  <2>2. x \in 0 .. t.width - 1 /\ y \in 0 .. t.width - 1
    BY <1>9
  <2> HIDE DEF a, b, x, y
  <2>3. a = b /\ x = y
    BY <2>1, <2>2, EuclidUnique
  <2> QED BY <2>3 DEF a, b, x, y
<1> QED BY <1>1, <1>2, <1>6, <1>8, <1>10

-----------------------------------------------------------------------------
(* What a kernel finds at a place of the table                              *)

LEMMA NodeNumbers ==
    ASSUME NEW p \in ProblemType
    PROVE  /\ p.isa \in 0 .. 3 /\ p.prec \in {"float", "double"}
           /\ p.radix - 1 \in Nat \ {0} /\ (p.radix - 1) + 1 = p.radix
           /\ Columns(p) \in Nat
<1>1. /\ p.isa \in 0 .. 3 /\ p.prec \in {"float", "double"} /\ p.radix \in Nat \ {0, 1}
      /\ p.n \in Nat /\ p.kind \in {"plain", "rowmajor", "colmajor", "direct", "stage"}
  BY DEF ProblemType
<1>2. Columns(p) \in Nat
  BY <1>1, StageWeights DEF Columns
<1> QED BY <1>1, <1>2

(* The two layouts.                                                         *)
Entry(p, t, i, k) == <<Place(t, i, k, p.radix), <<i, k>>>>
TileEntries(p, T) ==
    UNION {{Entry(p, t, i, k) : i \in Span(t), k \in 1 .. p.radix - 1} : t \in T}
RowEntry(p, i, k) == <<i * (p.radix - 1) + (k - 1), <<i, k>>>>
RowEntries(p) == {RowEntry(p, i, k) : i \in 0 .. Columns(p) - 1, k \in 1 .. p.radix - 1}

LEMMA TableIs ==
    ASSUME NEW p
    PROVE  /\ Packed(p) =>
                  Table(p) = TileEntries(p, TwiddleTiles(Columns(p), NumSets(p.isa, p.prec), p.prec))
           /\ ~Packed(p) => Table(p) = RowEntries(p)
  BY DEF Table, TileEntries, Entry, RowEntries, RowEntry

(* In a packed table, at the place of a factor of a column: that factor.    *)
LEMMA PackedFactors ==
    ASSUME NEW p \in ProblemType, Packed(p), table = Table(p),
           NEW t \in KernelTiles(Columns(p), p.isa, p.prec),
           NEW i \in Span(t), NEW k \in 1 .. p.radix - 1
    PROVE  FactorsAt(Place(t, i, k, p.radix)) = {<<i, k>>}
<1> DEFINE r == p.radix - 1
           T == KernelTiles(Columns(p), p.isa, p.prec)
           here == Place(t, i, k, p.radix)
<1>1. r \in Nat \ {0} /\ r + 1 = p.radix /\ Tiles(T) /\ Apart(T)
  BY NodeNumbers, TilesApart
<1>2. TwiddleTiles(Columns(p), NumSets(p.isa, p.prec), p.prec) = T
  BY NodeNumbers, TwiddleTails
<1>3. table = TileEntries(p, T)
  BY <1>2, TableIs
<1>4. ASSUME NEW u \in T, NEW j \in Span(u), NEW l \in 1 .. r,
             Place(u, j, l, p.radix) = here
      PROVE  j = i /\ l = k
  <2>1. Place(u, j, l, r + 1) = Place(t, i, k, r + 1)
    BY <1>1, <1>4
  <2> HIDE DEF r, T
  <2>2. k \in 1 .. r /\ t \in T
    BY DEF r, T
  <2> QED BY <1>1, <2>1, <2>2, PlacesApart
<1>5. \A u, j, l : Entry(p, u, j, l)[1] = Place(u, j, l, p.radix) /\ Entry(p, u, j, l)[2] = <<j, l>>
  BY DEF Entry
<1>6. Entry(p, t, i, k) \in table
  <2>1. Entry(p, t, i, k) \in {Entry(p, t, j, l) : j \in Span(t), l \in 1 .. r}
    OBVIOUS
  <2> HIDE DEF T, r
  <2>2. t \in T
    BY DEF T
  <2> QED BY <1>3, <2>1, <2>2 DEF TileEntries, r
<1>7. ASSUME NEW e \in table, e[1] = here
      PROVE  e[2] = <<i, k>>
  <2> HIDE DEF T, here
  <2>1. PICK u \in T : e \in {Entry(p, u, j, l) : j \in Span(u), l \in 1 .. r}
    BY <1>3 DEF TileEntries
  <2>2. PICK j \in Span(u), l \in 1 .. r : e = Entry(p, u, j, l)
    BY <2>1
  <2>3. Place(u, j, l, p.radix) = here /\ e[2] = <<j, l>>
    BY <1>5, <1>7, <2>2
  <2>4. j = i /\ l = k
    BY <1>4, <2>3
  <2> QED BY <2>3, <2>4
<1>8. Entry(p, t, i, k)[1] = here /\ Entry(p, t, i, k)[2] = <<i, k>>
  BY <1>5
<1> HIDE DEF here
<1>9. FactorsAt(here) = {<<i, k>>}
  BY <1>6, <1>7, <1>8 DEF FactorsAt
<1> QED BY <1>9 DEF here

(* In a table that is not packed: factor k of a column lies k - 1 behind    *)
(* the start of the column.                                                 *)
LEMMA RowFactors ==
    ASSUME NEW p \in ProblemType, ~Packed(p), table = Table(p),
           NEW i \in 0 .. Columns(p) - 1, NEW k \in 1 .. p.radix - 1
    PROVE  FactorsAt((p.radix - 1) * i + (k - 1)) = {<<i, k>>}
<1> DEFINE r == p.radix - 1
           at(j, l) == j * r + (l - 1)
           here == (p.radix - 1) * i + (k - 1)
<1>1. r \in Nat \ {0} /\ Columns(p) \in Nat
  BY NodeNumbers
<1>2. table = RowEntries(p)
  BY TableIs
<1>3. here = at(i, k)
  <2>1. \A a, b \in Nat : a * b = b * a
    OBVIOUS
  <2>2. i \in Nat /\ r \in Nat
    BY <1>1
  <2>3. r * i = i * r
    BY <2>1, <2>2
  <2> QED BY <2>3
<1>4. ASSUME NEW j \in 0 .. Columns(p) - 1, NEW l \in 1 .. r, at(j, l) = here
      PROVE  j = i /\ l = k
  <2> DEFINE a == l - 1
             b == k - 1
  <2>1. a \in 0 .. r - 1 /\ b \in 0 .. r - 1 /\ j \in Nat /\ i \in Nat
    BY <1>1
  <2>2. j * r + a = i * r + b
    BY <1>3, <1>4
  <2>3. l = a + 1 /\ k = b + 1
    OBVIOUS
  <2> HIDE DEF a, b, r
  <2>4. j = i /\ a = b
    BY <1>1, <2>1, <2>2, EuclidUnique
  <2> QED BY <2>3, <2>4
<1>5. \A j, l : RowEntry(p, j, l)[1] = at(j, l) /\ RowEntry(p, j, l)[2] = <<j, l>>
  BY DEF RowEntry
<1>6. RowEntry(p, i, k) \in table
  BY <1>2 DEF RowEntries
<1>7. ASSUME NEW e \in table, e[1] = here
      PROVE  e[2] = <<i, k>>
  <2> HIDE DEF at, here
  <2>1. PICK j \in 0 .. Columns(p) - 1, l \in 1 .. r : e = RowEntry(p, j, l)
    BY <1>2 DEF RowEntries
  <2>2. at(j, l) = here /\ e[2] = <<j, l>>
    BY <1>5, <1>7, <2>1
  <2> QED BY <1>4, <2>2
<1>8. RowEntry(p, i, k)[1] = here /\ RowEntry(p, i, k)[2] = <<i, k>>
  BY <1>3, <1>5
<1> HIDE DEF here
<1>9. FactorsAt(here) = {<<i, k>>}
  BY <1>6, <1>7, <1>8 DEF FactorsAt
<1> QED BY <1>9 DEF here

-----------------------------------------------------------------------------
(* Calls and the table                                                      *)

(* The registers and tails of a kernel that is called for a piece of n      *)
(* columns are those of the whole.                                          *)
LEMMA PiecesMoved ==
    ASSUME NEW n \in Nat, NEW isa \in 0 .. 3, NEW prec \in {"float", "double"},
           NEW s \in Pieces(n, NumSets(isa, prec)),
           NEW t \in KernelTiles(s.count, isa, prec)
    PROVE  Moved(t, s.first) \in KernelTiles(n, isa, prec)
<1> DEFINE w == NumSets(isa, prec)
           q == n \div w
           e == q * w
           r == n % w
           Reg(i) == [start |-> i * w, width |-> w]
<1>1. w \in Nat \ {0}
  BY SetsTable
<1>2. q \in Nat /\ e \in Nat /\ r \in 0 .. w - 1 /\ n = e + r
  <2> HIDE DEF w
  <2> QED BY <1>1, Multiples
<1>3. \A m : KernelTiles(m, isa, prec) = FullTiles(m, w) \cup Tails((m \div w) * w, m, isa, prec)
  BY KernelTails
<1>4. \A m : \A u : u \in FullTiles(m, w) <=> \E i \in 0 .. (m \div w) - 1 : u = Reg(i)
  BY DEF FullTiles
<1>5. \/ \E i \in 0 .. q - 1 : s.first = i * w /\ s.count = w
      \/ s.first = e /\ s.count = r
  BY DEF Pieces
<1>6. CASE \E i \in 0 .. q - 1 : s.first = i * w /\ s.count = w
  <2>1. PICK i \in 0 .. q - 1 : s.first = i * w /\ s.count = w
    BY <1>6
  <2>2. w \div w = 1 /\ 1 * w = w
    <3> HIDE DEF w
    <3>1. w \div w \in Nat /\ w * (w \div w) <= w /\ w < w * (w \div w) + w
      BY <1>1, Quotient
    <3>2. 1 <= w \div w /\ w \div w < 2
      BY <1>1, QuotientBounds
    <3> QED BY <1>1, <3>1, <3>2
  <2>3. Tails(w, w, isa, prec) = {}
    <3> HIDE DEF w
    <3>1. Tails(w, w + 0, isa, prec)
              = Between(w, End1(0, isa, prec), End2(0, isa, prec), End3(0, isa, prec))
      <4>1. \A c, m \in Nat : Tails(c, c + m, isa, prec)
                = Between(c, End1(m, isa, prec), End2(m, isa, prec), End3(m, isa, prec))
        BY TailsAt
      <4>2. w \in Nat /\ 0 \in Nat
        BY <1>1
      <4> QED BY <4>1, <4>2, Zenon
    <3>2. End1(0, isa, prec) = 0
      BY SetsTable DEF End1
    <3>3. End2(0, isa, prec) = 0
      BY <3>2 DEF End2
    <3>4. End3(0, isa, prec) = 0
      BY <3>3 DEF End3
    <3>5. w + 0 = w
      BY <1>1
    <3> QED BY <3>1, <3>2, <3>3, <3>4, <3>5 DEF Between, Tile
  <2>4. \E j \in 0 .. 1 - 1 : t = Reg(j)
    <3> HIDE DEF w, Reg
    <3>1. t \in FullTiles(w, w) \cup Tails(w, w, isa, prec)
      BY <1>3, <2>1, <2>2
    <3> QED BY <1>4, <2>2, <2>3, <3>1
  <2>5. t.start = 0 /\ t.width = w
    <3> HIDE DEF w
    <3>1. 0 * w = 0
      BY <1>1
    <3> QED BY <2>4, <3>1
  <2>6. Moved(t, s.first) = Reg(i)
    <3> DEFINE m == i * w
    <3>1. m \in Nat
      <4>1. i \in Nat
        BY <1>2
      <4> HIDE DEF w
      <4> QED BY <1>1, <4>1
    <3> HIDE DEF m, w
    <3>2. s.first + 0 = m
      BY <2>1, <3>1 DEF m
    <3> QED BY <2>5, <3>2 DEF Moved, m
  <2> HIDE DEF w, Reg
  <2>7. Moved(t, s.first) \in FullTiles(n, w)
    BY <1>4, <2>6
  <2> QED BY <1>3, <2>7
<1>7. CASE s.first = e /\ s.count = r
  <2> HIDE DEF w, r, e
  <2>1. r \div w = 0 /\ 0 * w = 0
    <3>1. r \in Nat /\ r < w
      BY <1>1, <1>2
    <3>2. r \div w \in Nat /\ w * (r \div w) <= r
      BY <1>1, <3>1, Quotient
    <3>3. r \div w = 0
      <4> DEFINE d == r \div w
      <4> HIDE DEF d
      <4>1. SUFFICES ASSUME d # 0 PROVE FALSE
        BY DEF d
      <4>2. PICK x \in Nat : d = x + 1
        <5>1. d \in Nat /\ d - 1 \in Nat /\ d = (d - 1) + 1
          BY <3>2, <4>1 DEF d
        <5> QED BY <5>1
      <4>3. w * d = w * x + w /\ w * x \in Nat
        BY <1>1, <4>2
      <4> QED BY <1>1, <3>1, <3>2, <4>3 DEF d
    <3> QED BY <1>1, <3>3
  <2>2. t \in Tails(0, r, isa, prec)
    <3>1. t \in FullTiles(r, w) \cup Tails(0, r, isa, prec)
      BY <1>3, <1>7, <2>1
    <3> QED BY <1>4, <2>1, <3>1
  <2>3. Moved(t, e) \in Tails(e, e + r, isa, prec)
    <3>1. r \in Nat
      BY <1>1, <1>2
    <3> QED BY <1>2, <2>2, <3>1, TailsMoved
  <2>4. Tails(e, e + r, isa, prec) \subseteq KernelTiles(n, isa, prec)
    BY <1>2, <1>3 DEF e
  <2> QED BY <1>7, <2>3, <2>4
<1> QED BY <1>5, <1>6, <1>7

(* A call whose pointer into the table suits the layout: in a packed table, *)
(* the tiles of the kernel are tiles of the table, moved by the columns in  *)
(* front of the pointer; in the other, the pointer is at a column.          *)
Fits(p, c) ==
    /\ c.point \in Nat /\ c.base = (p.radix - 1) * c.point
    /\ \/ /\ c.wide /\ Packed(p) /\ c.over = "points"
          /\ \A t \in KernelTiles(c.count, p.isa, p.prec) :
                Moved(t, c.point) \in KernelTiles(Columns(p), p.isa, p.prec)
       \/ ~c.wide /\ ~Packed(p) /\ c.over = "batches" /\ c.point \in 0 .. Columns(p) - 1

LEMMA BatchCallFits ==
    ASSUME NEW p \in ProblemType, ~Packed(p), NEW i \in 0 .. Columns(p) - 1, NEW s
    PROVE  Fits(p, BatchCall(p, i, s))
<1> DEFINE c == BatchCall(p, i, s)
<1>1. c.point = i /\ c.base = (p.radix - 1) * i /\ c.over = "batches"
  BY DEF BatchCall, CallC2C
<1>2. ~c.wide
  BY Zenon DEF BatchCall, CallC2C
<1>3. i \in Nat
  BY NodeNumbers
<1> HIDE DEF c
<1>4. Fits(p, c)
  BY <1>1, <1>2, <1>3 DEF Fits
<1> QED BY <1>4 DEF c

LEMMA PointCallFits ==
    ASSUME NEW p \in ProblemType, Packed(p), NEW first \in Nat, NEW count, NEW g, NEW base,
           base = (p.radix - 1) * first,
           \A t \in KernelTiles(count, p.isa, p.prec) :
               Moved(t, first) \in KernelTiles(Columns(p), p.isa, p.prec)
    PROVE  Fits(p, CallC2C(first, g, "points", count, base, TRUE))
<1> DEFINE yes == TRUE
           c == CallC2C(first, g, "points", count, base, yes)
<1>1. c.wide = yes
  <2> HIDE DEF yes
  <2> QED BY DEF CallC2C
<1>2. c.point = first /\ c.base = base /\ c.over = "points" /\ c.count = count
  <2> HIDE DEF yes
  <2> QED BY DEF CallC2C
<1>3. c.wide
  BY <1>1
<1> HIDE DEF c
<1>4. Fits(p, c)
  BY <1>2, <1>3 DEF Fits
<1> QED BY <1>4 DEF c

(* Every complex call of every kind of node fits.                           *)
LEMMA CallsFit ==
    ASSUME NEW p \in ProblemType, NEW job \in Jobs(p), NEW c \in job.calls, c.kernel = "c2c"
    PROVE  Fits(p, c)
<1>1. p.kind \in {"plain", "rowmajor", "colmajor", "direct", "stage"}
  BY DEF ProblemType
<1>2. ASSUME NEW k \in RealJobs(p), NEW d \in k.calls
      PROVE  d.kernel # "c2c"
  <2> DEFINE kernel == IF R2HCCount(p) # 0 THEN "r2hc" ELSE "r2hcf"
             count == IF R2HCCount(p) # 0 THEN R2HCCount(p) ELSE R2HCFCount(p)
             J(s) == Job(<<"real">>, s.tail, {CallReal(kernel, s.first, s.count)})
             S == Pieces(count, NumSetsReal(p.isa, p.prec))
  <2>1. RealJobs(p) = {J(s) : s \in S}
    BY Zenon DEF RealJobs
  <2>2. kernel # "c2c"
    OBVIOUS
  <2> HIDE DEF kernel, count, S
  <2>3. \A s : J(s).calls = {CallReal(kernel, s.first, s.count)}
    BY Zenon DEF Job
  <2>4. \A a, b : CallReal(kernel, a, b).kernel = kernel
    BY Zenon DEF CallReal
  <2> HIDE DEF J
  <2>5. PICK s \in S : k = J(s)
    BY <2>1
  <2> QED BY <2>2, <2>3, <2>4, <2>5
<1>3. CASE p.kind = "plain"
  <2> DEFINE S == Pieces(p.n, Sets(p))
             base(s) == (p.radix - 1) * s.first
             Call(s) == CallC2C(s.first, 0, "points", s.count, base(s), TRUE)
             J(s) == Job(<<"c2c">>, s.tail, {Call(s)})
  <2>1. Jobs(p) = {J(s) : s \in S}
    <3>1. Jobs(p) = PlainJobs(p)
      BY <1>3, JobsOf
    <3>2. PlainJobs(p) = {J(s) : s \in S}
      BY Zenon DEF PlainJobs
    <3> QED BY <3>1, <3>2
  <2>2. \A s : J(s).calls = {Call(s)}
    BY Zenon DEF Job
  <2>3. Packed(p) /\ Columns(p) = p.n /\ p.n \in Nat
    BY <1>3 DEF Packed, Columns, ProblemType
  <2> HIDE DEF J
  <2>4. PICK s \in S : job = J(s)
    BY <2>1
  <2>5. s.first \in Nat
    BY <2>3, SetsPositive, PiecesPartition DEF Partitions
  <2>6. \A t \in KernelTiles(s.count, p.isa, p.prec) :
            Moved(t, s.first) \in KernelTiles(Columns(p), p.isa, p.prec)
    BY <2>3, NodeNumbers, PiecesMoved DEF Sets
  <2>7. Fits(p, Call(s))
    <3> DEFINE first == s.first
               count == s.count
               b == base(s)
    <3>1. /\ first \in Nat /\ b = (p.radix - 1) * first
          /\ \A t \in KernelTiles(count, p.isa, p.prec) :
                 Moved(t, first) \in KernelTiles(Columns(p), p.isa, p.prec)
      BY <2>5, <2>6
    <3> HIDE DEF first, count, b
    <3>2. Fits(p, CallC2C(first, 0, "points", count, b, TRUE))
      BY <2>3, <3>1, PointCallFits, Zenon
    <3> QED BY <3>2, Zenon DEF first, count, b
  <2>8. c = Call(s)
    <3> HIDE DEF Call
    <3> QED BY <2>2, <2>4
  <2> QED BY <2>7, <2>8, Zenon
<1>4. CASE p.kind \in {"rowmajor", "colmajor"}
  <2>1. ~Packed(p) /\ Columns(p) = p.n
    BY <1>4 DEF Packed, Columns
  <2>2. \E i \in 0 .. p.n - 1 : \E s : c = BatchCall(p, i, s)
    <3>1. CASE p.kind = "rowmajor"
      <4> DEFINE J(s) == Job(<<"c2c">>, s.tail, {BatchCall(p, i, s) : i \in 0 .. p.n - 1})
                 S == Pieces(p.batches, Sets(p))
      <4>1. Jobs(p) = {J(s) : s \in S}
        BY <3>1, JobsOf, Zenon DEF RowMajorJobs
      <4>2. \A s : J(s).calls = {BatchCall(p, i, s) : i \in 0 .. p.n - 1}
        BY Zenon DEF Job
      <4> HIDE DEF J, S
      <4>3. PICK s \in S : job = J(s)
        BY <4>1
      <4> QED BY <4>2, <4>3
    <3>2. CASE p.kind = "colmajor"
      <4> DEFINE S == Blocks(p.batches, Sets(p), NumThreads(p))
      <4>1. Jobs(p) = {BatchJob(p, <<"c2c">>, i, s) : i \in 0 .. p.n - 1, s \in S}
        BY <3>2, JobsOf DEF ColMajorJobs
      <4>2. \A i, s : BatchJob(p, <<"c2c">>, i, s).calls = {BatchCall(p, i, s)}
        BY Zenon DEF BatchJob, Job
      <4> HIDE DEF S
      <4>3. PICK i \in 0 .. p.n - 1, s \in S : job = BatchJob(p, <<"c2c">>, i, s)
        BY <4>1
      <4> QED BY <4>2, <4>3
    <3> QED BY <1>4, <3>1, <3>2
  <2> QED BY <2>1, <2>2, BatchCallFits
<1>5. CASE p.kind = "direct"
  BY <1>2, <1>5, JobsOf
<1>6. CASE p.kind = "stage"
  <2>1. job \in ComplexJobs(p)
    BY <1>2, <1>6, JobsOf
  <2>2. Columns(p) = C2CPerGroup(p) /\ (Packed(p) <=> Asymmetric(p)) /\ Columns(p) \in Nat
    BY <1>6, NodeNumbers DEF Packed, Columns
  <2>3. CASE Asymmetric(p)
    <3> DEFINE m == C2CPerGroup(p)
               Call(g) == CallC2C(0, g, "points", m, 0, TRUE)
               J(g) == Job(<<"c2c">>, FALSE, {Call(g)})
    <3>1. ComplexJobs(p) = {J(g) : g \in 0 .. p.groups - 1}
      BY <2>3, Zenon DEF ComplexJobs, GroupJobs
    <3>2. \A g : J(g).calls = {Call(g)}
      BY Zenon DEF Job
    <3> HIDE DEF J
    <3>3. PICK g \in 0 .. p.groups - 1 : job = J(g)
      BY <2>1, <3>1
    <3>4. \A t \in KernelTiles(m, p.isa, p.prec) :
              Moved(t, 0) \in KernelTiles(Columns(p), p.isa, p.prec)
      <4>1. SUFFICES ASSUME NEW t \in KernelTiles(m, p.isa, p.prec)
                     PROVE  Moved(t, 0) \in KernelTiles(m, p.isa, p.prec)
        BY <2>2
      <4>2. Moved(t, 0) = t
        <5>1. /\ Tiles(KernelTiles(m, p.isa, p.prec))
              /\ t \in UNION {KernelTiles(m, p.isa, p.prec)}
          BY <2>2, NodeNumbers, TilesApart
        <5>2. t = [start |-> t.start, width |-> t.width]
          <6>1. t \in FullTiles(m, NumSets(p.isa, p.prec))
                   \cup Tails((m \div NumSets(p.isa, p.prec)) * NumSets(p.isa, p.prec),
                              m, p.isa, p.prec)
            BY KernelTails
          <6> HIDE DEF m
          <6> QED BY <6>1 DEF FullTiles, Tails, Tile
        <5>3. 0 + t.start = t.start
          BY <5>1 DEF Tiles
        <5> QED BY <5>2, <5>3 DEF Moved
      <4> QED BY <4>2
    <3>5. Fits(p, Call(g))
      <4>1. (p.radix - 1) * 0 = 0 /\ 0 \in Nat
        BY NodeNumbers
      <4> QED BY <2>2, <2>3, <3>4, <4>1, PointCallFits
    <3>6. c = Call(g)
      <4> HIDE DEF Call
      <4> QED BY <3>2, <3>3
    <3> QED BY <3>5, <3>6, Zenon
  <2>4. CASE ~Asymmetric(p)
    <3> DEFINE S == Pieces(p.groups, Sets(p))
    <3>1. ComplexJobs(p)
              = {BatchJob(p, <<"c2c", i>>, i, s) : i \in 0 .. C2CPerGroup(p) - 1, s \in S}
      BY <2>4 DEF ComplexJobs, PointJobs
    <3>2. \A i, s : BatchJob(p, <<"c2c", i>>, i, s).calls = {BatchCall(p, i, s)}
      BY Zenon DEF BatchJob, Job
    <3> HIDE DEF S
    <3>3. PICK i \in 0 .. C2CPerGroup(p) - 1, s \in S : job = BatchJob(p, <<"c2c", i>>, i, s)
      BY <2>1, <3>1
    <3> QED BY <2>2, <2>4, <3>2, <3>3, BatchCallFits
  <2> QED BY <2>3, <2>4
<1> QED BY <1>1, <1>3, <1>4, <1>5, <1>6

-----------------------------------------------------------------------------
(* What a call computes                                                     *)

(* A butterfly with the factors of its own point.                           *)
Own(r) == r.of[1] = "c2c" => r.with = [k \in 1 .. problem.radix - 1 |-> {<<r.of[2], k>>}]

(* A place of a moved tile.                                                 *)
LEMMA PlaceMoved ==
    ASSUME NEW r \in Nat \ {0}, NEW by \in Nat, NEW t, t.start \in Nat, t.width \in Nat \ {0},
           NEW j \in Span(t), NEW k \in 1 .. r
    PROVE  /\ by + j \in Span(Moved(t, by))
           /\ r * by + Place(t, j, k, r + 1) = Place(Moved(t, by), by + j, k, r + 1)
<1> DEFINE u == t.start
           w == t.width
           row == (k - 1) * w
<1>1. u \in Nat /\ w \in Nat \ {0} /\ j \in u .. u + w - 1
  BY DEF Span
<1>2. Moved(t, by).start = by + u /\ Moved(t, by).width = w
  BY DEF Moved
<1>3. by + j \in Span(Moved(t, by))
  <2> HIDE DEF u, w
  <2> QED BY <1>1, <1>2 DEF Span
<1>4. r * (by + u) = r * by + r * u /\ r * by \in Nat /\ r * u \in Nat
  <2> HIDE DEF u
  <2> QED BY <1>1
<1>5. row \in Nat
  <2>1. \A a, b \in Nat : a * b \in Nat
    OBVIOUS
  <2>2. k - 1 \in Nat
    OBVIOUS
  <2> QED BY <1>1, <2>1, <2>2
<1>6. Place(t, j, k, r + 1) = r * u + row + (j - u)
  <2>1. (r + 1) - 1 = r
    OBVIOUS
  <2> QED BY <2>1 DEF Place
<1>7. Place(Moved(t, by), by + j, k, r + 1) = r * (by + u) + row + ((by + j) - (by + u))
  <2>1. (r + 1) - 1 = r
    OBVIOUS
  <2> QED BY <1>2, <2>1 DEF Place
<1> DEFINE rb == r * by
           ru == r * u
           rs == r * (by + u)
<1> HIDE DEF row, u, rb, ru, rs
<1>8. rb + (ru + row + (j - u)) = rs + row + ((by + j) - (by + u))
  <2>1. rb \in Nat /\ ru \in Nat /\ rs = rb + ru
    BY <1>4 DEF rb, ru, rs
  <2>2. j \in Int
    BY <1>1
  <2> QED BY <1>1, <1>5, <2>1, <2>2
<1> QED BY <1>3, <1>6, <1>7, <1>8 DEF rb, ru, rs

(* What a call that fits computes has the factors of its own point.         *)
LEMMA ComputedOwn ==
    ASSUME problem \in ProblemType, table = Table(problem),
           NEW c, c.count \in Nat, c.kernel = "c2c" => Fits(problem, c),
           NEW r \in Computed(problem, c)
    PROVE  Own(r)
<1> DEFINE R == problem.radix - 1
           place(t, j, k) == c.base + (IF c.wide THEN Place(t, j, k, problem.radix) ELSE k - 1)
           with(t, j) == [k \in 1 .. R |-> FactorsAt(place(t, j, k))]
           Result(t, j) == [of |-> Butterfly(c, j), with |-> with(t, j)]
           Plain(j) == [of |-> Butterfly(c, j), with |-> <<>>]
           K == KernelTiles(c.count, problem.isa, problem.prec)
           C == Computed(problem, c)
<1>1. \A j : Butterfly(c, j)[1] = c.kernel
  BY DEF Butterfly
<1>2. CASE c.kernel # "c2c"
  <2>1. C = {Plain(j) : j \in 0 .. c.count - 1}
    BY <1>2 DEF Computed
  <2>2. PICK j \in 0 .. c.count - 1 : r = Plain(j)
    <3> HIDE DEF Plain
    <3> QED BY <2>1 DEF C
  <2>3. r.of[1] # "c2c"
    BY <1>1, <1>2, <2>2
  <2> QED BY <2>3 DEF Own
<1>3. CASE c.kernel = "c2c"
  <2>1. C = UNION {{Result(t, j) : j \in Span(t)} : t \in K}
    BY <1>3, Zenon DEF Computed
  <2>2. PICK t \in K : r \in {Result(t, j) : j \in Span(t)}
    <3> HIDE DEF K, Result
    <3> QED BY <2>1 DEF C
  <2>3. PICK j \in Span(t) : r = Result(t, j)
    <3> HIDE DEF Result
    <3> QED BY <2>2
  <2>4. Fits(problem, c) /\ R \in Nat \ {0} /\ R + 1 = problem.radix
    BY <1>3, NodeNumbers
  <2>5. r.of = Butterfly(c, j) /\ r.with = with(t, j)
    BY <2>3
  <2> HIDE DEF with, R, C, Result
  <2>6. CASE c.wide
    <3>1. /\ Packed(problem) /\ c.over = "points" /\ c.point \in Nat /\ c.base = R * c.point
          /\ Moved(t, c.point) \in KernelTiles(Columns(problem), problem.isa, problem.prec)
      BY <2>4, <2>6 DEF Fits, R
    <3>2. r.of[2] = c.point + j
      BY <2>5, <3>1 DEF Butterfly
    <3>3. ASSUME NEW k \in 1 .. R
          PROVE  FactorsAt(place(t, j, k)) = {<<c.point + j, k>>}
      <4>1. Columns(problem) \in Nat
        BY NodeNumbers
      <4>2. Moved(t, c.point).width \in Nat \ {0} /\ Moved(t, c.point).width = t.width
        BY <3>1, <4>1, NodeNumbers, TilesApart DEF Tiles, Moved
      <4>3. t.start \in Nat /\ t.width \in Nat \ {0}
        BY NodeNumbers, TilesApart DEF Tiles
      <4>4. /\ c.point + j \in Span(Moved(t, c.point))
            /\ R * c.point + Place(t, j, k, R + 1) = Place(Moved(t, c.point), c.point + j, k, R + 1)
        BY <2>4, <3>1, <4>3, PlaceMoved
      <4>5. place(t, j, k) = Place(Moved(t, c.point), c.point + j, k, problem.radix)
        BY <2>4, <2>6, <3>1, <4>4
      <4>6. k \in 1 .. problem.radix - 1
        BY DEF R
      <4> HIDE DEF place
      <4> QED BY <3>1, <4>4, <4>5, <4>6, PackedFactors
    <3>4. with(t, j) = [k \in 1 .. R |-> {<<r.of[2], k>>}]
      <4> HIDE DEF place
      <4> QED BY <3>2, <3>3 DEF with
    <3> QED BY <2>5, <3>4 DEF Own, R
  <2>7. CASE ~c.wide
    <3>1. /\ ~Packed(problem) /\ c.over = "batches" /\ c.point \in 0 .. Columns(problem) - 1
          /\ c.base = R * c.point
      BY <2>4, <2>7 DEF Fits, R
    <3>2. r.of[2] = c.point
      BY <2>5, <3>1 DEF Butterfly
    <3>3. ASSUME NEW k \in 1 .. R
          PROVE  FactorsAt(place(t, j, k)) = {<<c.point, k>>}
      <4>1. place(t, j, k) = (problem.radix - 1) * c.point + (k - 1)
        BY <2>7, <3>1 DEF R
      <4>2. k \in 1 .. problem.radix - 1
        BY DEF R
      <4> HIDE DEF place
      <4> QED BY <3>1, <4>1, <4>2, RowFactors
    <3>4. with(t, j) = [k \in 1 .. R |-> {<<r.of[2], k>>}]
      <4> HIDE DEF place
      <4> QED BY <3>2, <3>3 DEF with
    <3> QED BY <2>5, <3>4 DEF Own, R
  <2> QED BY <2>6, <2>7
<1> QED BY <1>2, <1>3

(* Every complex butterfly of every node finds the factors of its own point:*)
(* the layout of setup (compute_twiddle_buffer) and the walk of the kernels *)
(* agree for every number of columns, division into calls and SIMD level.   *)
THEOREM FactorsAreOwn == Spec => []OwnTwiddles
<1> DEFINE IInv == Progress /\ table = Table(problem) /\ \A d \in done : Own(d)
<1>1. Init => IInv
  BY InitProgress DEF Init
<1>2. IInv /\ [Next]_vars => IInv'
  <2> SUFFICES ASSUME IInv, [Next]_vars PROVE IInv'
    OBVIOUS
  <2>1. Progress'
    BY NextProgress
  <2>2. problem' = problem /\ table' = table
    BY DEF Next, RunJob, vars
  <2>3. (table = Table(problem))'
    BY <2>2
  <2>4. \A d \in done' : Own(d)
    <3>1. CASE UNCHANGED vars
      BY <3>1 DEF vars
    <3>2. CASE Next
      <4>1. PICK job \in todo : done' = done \cup UNION {Computed(problem, c) : c \in job.calls}
        BY <3>2, Zenon DEF Next, RunJob
      <4>2. job \in Jobs(problem) /\ problem \in ProblemType
        BY DEF Progress
      <4>3. \A c \in job.calls : c.count \in Nat /\ (c.kernel = "c2c" => Fits(problem, c))
        BY <4>2, CallsFit, JobsSplit DEF SplitsInto
      <4>4. \A c \in job.calls : \A r \in Computed(problem, c) : Own(r)
        BY <4>2, <4>3, ComputedOwn
      <4> QED BY <4>1, <4>4
    <3> QED BY <3>1, <3>2
  <2>5. (\A d \in done : Own(d))'
    BY <2>2, <2>4 DEF Own
  <2> QED BY <2>1, <2>3, <2>5
<1>3. IInv => OwnTwiddles
  BY DEF OwnTwiddles, Own
<1> QED BY <1>1, <1>2, <1>3, PTL DEF Spec
=============================================================================
