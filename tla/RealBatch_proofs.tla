--------------------------- MODULE RealBatch_proofs ---------------------------
(***************************************************************************)
(* Proofs about the batched real transforms for any loops, batches, threads*)
(* and calls: types, whose failure a call reports, that a thread's clone   *)
(* keeps pointing at the batch it took, that the plan's own pointers are   *)
(* left as the last call set them, and that a call that succeeds transforms*)
(* each position the user's loops name exactly once.                       *)
(*                                                                         *)
(* What the loops name is a fold over a sequence.  Facts about it are      *)
(* proved by induction on the length (FuseVecs_proofs).                    *)
(***************************************************************************)
EXTENDS RealBatch, FuseVecs_proofs

(* The region's status says failure as soon as, and only if, a child failed.*)
Told == status \in {"success", "failure"} /\ broken \in BOOLEAN /\ (status = "failure" <=> broken = TRUE)

LEMMA NextTold == Told /\ [Next]_vars => Told'
<1> SUFFICES ASSUME Told, [Next]_vars
             PROVE  Told'
  OBVIOUS
<1>1. CASE UNCHANGED <<status, broken>>
  BY <1>1 DEF Told
<1>2. CASE Execute \/ ExecuteIO
  BY <1>2 DEF Execute, ExecuteIO, Enter, Told
<1>3. CASE BatchFails
  BY <1>3 DEF BatchFails, Told
<1>4. ASSUME NEW t \in DOMAIN child, RunChild(t)
      PROVE  Told'
  BY <1>4 DEF RunChild, Report, Told
<1>5. [Next]_vars => \/ UNCHANGED <<status, broken>> \/ Execute \/ ExecuteIO \/ BatchFails
                     \/ \E t \in DOMAIN child : RunChild(t)
  BY DEF Next, Solve, vars, result, Descend, RunBatch, Fork, Join, Climb, SizeOne, Return, TakeBatch
<1> QED BY <1>1, <1>2, <1>3, <1>4, <1>5

(* A call fails exactly when a run of its child failed.                     *)
THEOREM FailuresAreTold == Spec => []FailureTold
<1>1. Init => Told
  BY DEF Init, Told
<1>2. Told => FailureTold
  BY DEF Told, FailureTold
<1> QED BY <1>1, <1>2, NextTold, PTL DEF Spec

-----------------------------------------------------------------------------
LEMMA MoveType ==
    ASSUME NEW p \in Position, NEW v \in Loop, NEW k \in Int
    PROVE  Move(p, v, k) \in Position
<1>1. k * v.is \in Int /\ k * v.os \in Int
  BY DEF Loop
<1>2. ASSUME NEW a \in Int, NEW b \in Int
      PROVE  [p EXCEPT !.in = @ + a, !.out = @ + b] \in Position
  <2> DEFINE q == [p EXCEPT !.in = p.in + a]
  <2>1. p.in + a \in Int /\ p.out + b \in Int
    BY DEF Position
  <2>2. q \in Position
    BY <2>1 DEF Position
  <2>3. [q EXCEPT !.out = p.out + b] \in Position
    <3> HIDE DEF q
    <3> QED BY <2>1, <2>2 DEF Position
  <2>4. [p EXCEPT !.in = @ + a, !.out = @ + b] = [q EXCEPT !.out = p.out + b]
    BY DEF Position
  <2> QED BY <2>3, <2>4
<1>3. Move(p, v, k) = [p EXCEPT !.in = @ + k * v.is, !.out = @ + k * v.os]
  BY Zenon DEF Move
<1> QED BY <1>1, <1>2, <1>3

Grown(vs, p, g, m) ==
    g = [s \in SUBSET (1..m) |->
            IF s = {} THEN {p} ELSE Spread(g[s \ {Max(s)}], vs[Max(s)])]

LEMMA GrownExists ==
    ASSUME NEW vs, NEW p, NEW n \in Nat
    PROVE  \E g : Grown(vs, p, g, n)
<1> DEFINE T == {m \in Nat : \E g : Grown(vs, p, g, m)}
<1>1. 0 \in T
  <2> DEFINE g == [s \in SUBSET (1..0) |-> {p}]
  <2>1. SUBSET (1..0) = {{}}
    OBVIOUS
  <2>2. Grown(vs, p, g, 0)
    BY <2>1 DEF Grown
  <2> QED BY <2>2
<1>2. ASSUME NEW m \in Nat, m \in T
      PROVE  m + 1 \in T
  <2>1. PICK g : Grown(vs, p, g, m)
    BY <1>2
  <2> DEFINE h == [s \in SUBSET (1 .. m + 1) |->
                     IF m + 1 \in s THEN Spread(g[s \ {m + 1}], vs[m + 1]) ELSE g[s]]
             e(s) == IF s = {} THEN {p} ELSE Spread(h[s \ {Max(s)}], vs[Max(s)])
  <2>2. ASSUME NEW s \in SUBSET (1 .. m + 1)
        PROVE  h[s] = e(s)
    <3>1. CASE m + 1 \in s
      <4>1. Max(s) = m + 1 /\ s # {} /\ m + 1 \notin s \ {m + 1} /\ s \ {m + 1} \in SUBSET (1 .. m + 1)
        BY <3>1, MaxIs
      <4>2. h[s \ {m + 1}] = g[s \ {m + 1}]
        BY <4>1
      <4> QED BY <3>1, <4>1, <4>2
    <3>2. CASE m + 1 \notin s
      <4>1. s \in SUBSET (1 .. m)
        BY <3>2
      <4>2. h[s] = g[s] /\ g[s] = IF s = {} THEN {p} ELSE Spread(g[s \ {Max(s)}], vs[Max(s)])
        BY <2>1, <3>2, <4>1 DEF Grown
      <4>3. h[s \ {Max(s)}] = g[s \ {Max(s)}]
        BY <3>2
      <4> QED BY <4>2, <4>3
    <3> QED BY <3>1, <3>2
  <2>3. h = [s \in SUBSET (1 .. m + 1) |-> e(s)]
    BY <2>2
  <2>4. Grown(vs, p, h, m + 1)
    BY <2>3 DEF Grown
  <2> QED BY <2>4
<1> HIDE DEF T
<1>3. n \in T
  BY <1>1, <1>2, Induction
<1> QED BY <1>3 DEF T

(* What the fold is, step by step.                                          *)
Steps(vs, p, f) == /\ f[0] = {p}
                   /\ \A i \in 1..Len(vs) : f[i] = Spread(f[i - 1], vs[i])

LEMMA ReachSteps ==
    ASSUME NEW S, NEW vs \in Seq(S), NEW p
    PROVE  \E f : Steps(vs, p, f) /\ Reach(vs, p) = f[Len(vs)]
<1> DEFINE g == CHOOSE h : Grown(vs, p, h, Len(vs))
<1>1. Len(vs) \in Nat /\ DOMAIN vs = 1..Len(vs)
  OBVIOUS
<1>2. Grown(vs, p, g, Len(vs))
  BY <1>1, GrownExists
<1>3. Reach(vs, p) = g[1..Len(vs)]
  <2>1. Reach(vs, p) = LET iter[s \in SUBSET (1..Len(vs))] ==
                              IF s = {} THEN {p} ELSE Spread(iter[s \ {Max(s)}], vs[Max(s)])
                       IN  iter[1..Len(vs)]
    BY <1>1, Zenon DEF Reach, FoldLeft, MapThenFoldSet
  <2> QED BY <2>1 DEF Grown
<1> DEFINE f == [i \in 0..Len(vs) |-> g[1..i]]
<1> HIDE DEF g
<1>4. f[0] = {p}
  <2>1. {} \in SUBSET (1..Len(vs)) /\ 1..0 = {} /\ 0 \in 0..Len(vs)
    BY <1>1
  <2>2. g[{}] = {p}
    BY <1>2, <2>1 DEF Grown
  <2> QED BY <2>1, <2>2
<1>5. ASSUME NEW i \in 1..Len(vs)
      PROVE  f[i] = Spread(f[i - 1], vs[i])
  <2> HIDE DEF f
  <2>0. i \in Nat /\ i - 1 \in Nat /\ 1 <= i /\ i <= Len(vs)
    BY <1>1
  <2>1. /\ 1..i \in SUBSET (1..Len(vs)) /\ 1..i # {} /\ (1..i) \ {i} = 1 .. i - 1
        /\ i \in 0..Len(vs) /\ i - 1 \in 0..Len(vs)
    <3>1. i \in 0..Len(vs) /\ i - 1 \in 0..Len(vs)
      BY <1>1, <2>0
    <3>2. 1..i \subseteq 1..Len(vs) /\ i \in 1..i
      BY <1>1, <2>0
    <3>3. (1..i) \ {i} = 1 .. i - 1
      BY <2>0
    <3> QED BY <3>1, <3>2, <3>3
  <2>2. Max(1..i) = i
    BY <2>0, MaxTo
  <2>3. g[1..i] = Spread(g[1 .. i - 1], vs[i])
    BY <1>2, <2>1, <2>2 DEF Grown
  <2> QED BY <2>1, <2>3 DEF f
<1>6. f[Len(vs)] = g[1..Len(vs)]
  BY <1>1
<1> HIDE DEF f
<1> QED BY <1>3, <1>4, <1>5, <1>6 DEF Steps

(* The fold over a sequence depends on its elements only.                   *)
LEMMA StepsAgree ==
    ASSUME NEW S, NEW vs \in Seq(S), NEW ws \in Seq(S), NEW p, NEW f, NEW g,
           Steps(vs, p, f), Steps(ws, p, g),
           NEW n \in Nat, n <= Len(vs), n <= Len(ws), \A i \in 1..n : vs[i] = ws[i]
    PROVE  f[n] = g[n]
<1> DEFINE T == {m \in Nat : m <= n => f[m] = g[m]}
<1>1. 0 \in T
  BY DEF Steps
<1>2. ASSUME NEW m \in Nat, m \in T
      PROVE  m + 1 \in T
  <2>1. CASE m + 1 <= n
    <3>1. m + 1 \in 1..Len(vs) /\ m + 1 \in 1..Len(ws) /\ m + 1 \in 1..n /\ (m + 1) - 1 = m
      BY <2>1
    <3>2. f[m] = g[m]
      BY <1>2, <2>1
    <3>3. f[m + 1] = Spread(f[m], vs[m + 1]) /\ g[m + 1] = Spread(g[m], ws[m + 1])
      BY <3>1 DEF Steps
    <3> QED BY <3>1, <3>2, <3>3
  <2> QED BY <2>1
<1> HIDE DEF T
<1>3. n \in T
  BY <1>1, <1>2, Induction
<1> QED BY <1>3 DEF T

LEMMA ReachEmpty == ASSUME NEW p PROVE Reach(<<>>, p) = {p}
<1>1. <<>> \in Seq({}) /\ Len(<<>>) = 0
  OBVIOUS
<1>2. PICK f : Steps(<<>>, p, f) /\ Reach(<<>>, p) = f[Len(<<>>)]
  BY <1>1, ReachSteps
<1> QED BY <1>1, <1>2 DEF Steps

LEMMA ReachAppend ==
    ASSUME NEW S, NEW vs \in Seq(S), NEW v \in S, NEW p
    PROVE  Reach(Append(vs, v), p) = Spread(Reach(vs, p), v)
<1> DEFINE ws == Append(vs, v)
           n  == Len(vs)
<1>1. /\ ws \in Seq(S) /\ n \in Nat /\ Len(ws) = n + 1 /\ ws[n + 1] = v
      /\ \A i \in 1..n : ws[i] = vs[i]
  OBVIOUS
<1> HIDE DEF ws, n
<1>2. PICK f : Steps(vs, p, f) /\ Reach(vs, p) = f[n]
  BY ReachSteps DEF n
<1>3. PICK g : Steps(ws, p, g) /\ Reach(ws, p) = g[n + 1]
  BY <1>1, ReachSteps
<1>4. f[n] = g[n]
  <2>1. n <= Len(vs) /\ n <= Len(ws)
    BY <1>1 DEF n
  <2> QED BY <1>1, <1>2, <1>3, <2>1, StepsAgree
<1>5. g[n + 1] = Spread(g[n], v)
  <2>1. n + 1 \in 1..Len(ws) /\ (n + 1) - 1 = n
    BY <1>1
  <2> QED BY <1>1, <1>3, <2>1 DEF Steps
<1> QED BY <1>2, <1>3, <1>4, <1>5 DEF ws

LEMMA ReachType ==
    ASSUME NEW vs \in Seq(Loop), NEW p \in Position
    PROVE  Reach(vs, p) \subseteq Position
<1>1. PICK f : Steps(vs, p, f) /\ Reach(vs, p) = f[Len(vs)]
  BY ReachSteps
<1> DEFINE T == {m \in Nat : m <= Len(vs) => f[m] \subseteq Position}
<1>2. 0 \in T
  BY <1>1 DEF Steps
<1>3. ASSUME NEW m \in Nat, m \in T
      PROVE  m + 1 \in T
  <2>1. CASE m + 1 <= Len(vs)
    <3>1. m + 1 \in 1..Len(vs) /\ (m + 1) - 1 = m /\ vs[m + 1] \in Loop /\ f[m] \subseteq Position
      BY <1>3, <2>1
    <3>2. f[m + 1] = Spread(f[m], vs[m + 1])
      BY <1>1, <3>1 DEF Steps
    <3>3. ASSUME NEW q \in f[m], NEW k \in 0 .. vs[m + 1].n - 1
          PROVE  Move(q, vs[m + 1], k) \in Position
      BY <3>1, MoveType
    <3> QED BY <3>2, <3>3 DEF Spread
  <2> QED BY <2>1
<1> HIDE DEF T
<1>4. Len(vs) \in T
  BY <1>2, <1>3, Induction
<1> QED BY <1>1, <1>4 DEF T

LEMMA PrefixOfAppend ==
    ASSUME NEW S, NEW vs \in Seq(S), NEW v \in S, NEW i \in 0..Len(vs)
    PROVE  SubSeq(Append(vs, v), 1, i) = SubSeq(vs, 1, i)
OBVIOUS

LEMMA PrefixGrows ==
    ASSUME NEW S, NEW vs \in Seq(S), NEW i \in 1..Len(vs)
    PROVE  /\ SubSeq(vs, 1, i - 1) \in Seq(S) /\ vs[i] \in S
           /\ SubSeq(vs, 1, i) = Append(SubSeq(vs, 1, i - 1), vs[i])
           /\ SubSeq(vs, 1, Len(vs)) = vs
OBVIOUS

LEMMA ApartAppend ==
    ASSUME NEW S, NEW vs \in Seq(S), NEW v \in S, NEW p
    PROVE  LoopsApart(Append(vs, v), p) <=> LoopsApart(vs, p) /\ Disjoint(Reach(vs, p), v)
<1> DEFINE ws == Append(vs, v)
           n  == Len(vs)
<1>1. /\ n \in Nat /\ Len(ws) = n + 1 /\ ws[n + 1] = v /\ \A i \in 1..n : ws[i] = vs[i]
  OBVIOUS
<1>2. \A i \in 0..n : SubSeq(ws, 1, i) = SubSeq(vs, 1, i)
  BY PrefixOfAppend
<1>3. SubSeq(vs, 1, n) = vs
  OBVIOUS
<1> HIDE DEF ws, n
<1>4. 1..Len(ws) = 1..n \cup {n + 1} /\ n \in 0..n /\ (n + 1) - 1 = n
      /\ \A i \in 1..n : i - 1 \in 0..n
  BY <1>1
<1> DEFINE A(us, i) == Disjoint(Reach(SubSeq(us, 1, i - 1), p), us[i])
<1>5. \A i \in 1..n : A(ws, i) <=> A(vs, i)
  BY <1>1, <1>2, <1>4
<1>6. A(ws, n + 1) <=> Disjoint(Reach(vs, p), v)
  BY <1>1, <1>2, <1>3, <1>4
<1>7. LoopsApart(ws, p) <=> \A i \in 1..Len(ws) : A(ws, i)
  BY DEF LoopsApart
<1>8. LoopsApart(vs, p) <=> \A i \in 1..n : A(vs, i)
  BY DEF LoopsApart, n
<1> HIDE DEF A
<1> QED BY <1>4, <1>5, <1>6, <1>7, <1>8 DEF ws

(* A number below a product is one offset in one of its rows.               *)
Row(n, k) == \E a \in 0 .. n - 1, b \in Nat : k = b * n + a

LEMMA RowExists ==
    ASSUME NEW n \in Nat \ {0}, NEW k \in Nat
    PROVE  Row(n, k)
<1> DEFINE T == {m \in Nat : Row(n, m)}
<1>1. Row(n, 0)
  <2>1. 0 \in 0 .. n - 1 /\ 0 = 0 * n + 0
    OBVIOUS
  <2> QED BY <2>1 DEF Row
<1>2. ASSUME NEW m \in Nat, Row(n, m)
      PROVE  Row(n, m + 1)
  <2>1. PICK a \in 0 .. n - 1, b \in Nat : m = b * n + a
    BY <1>2 DEF Row
  <2>2. CASE a + 1 < n
    <3>1. a + 1 \in 0 .. n - 1 /\ m + 1 = b * n + (a + 1)
      BY <2>1, <2>2
    <3> QED BY <3>1 DEF Row
  <2>3. CASE ~ (a + 1 < n)
    <3>1. a + 1 = n /\ (b + 1) * n = b * n + n
      BY <2>3
    <3>2. 0 \in 0 .. n - 1 /\ b + 1 \in Nat /\ m + 1 = (b + 1) * n + 0
      BY <2>1, <3>1
    <3> DEFINE c == b + 1
    <3>3. c \in Nat /\ m + 1 = c * n + 0
      BY <3>2
    <3> HIDE DEF c
    <3> QED BY <3>2, <3>3 DEF Row
  <2> QED BY <2>2, <2>3
<1>3. 0 \in T /\ \A m \in Nat : m \in T => m + 1 \in T
  BY <1>1, <1>2
<1> HIDE DEF T
<1>4. k \in T
  BY <1>3, Induction
<1> QED BY <1>4 DEF T

LEMMA RowBound ==
    ASSUME NEW n \in Nat \ {0}, NEW m \in Nat \ {0}, NEW a \in 0 .. n - 1, NEW b \in Nat
    PROVE  b * n + a < n * m <=> b < m
<1>1. ASSUME b < m
      PROVE  b * n + a < n * m
  <2>1. (m - b) - 1 \in Nat
    BY <1>1
  <2>2. ((m - b) - 1) * n \in Nat
    BY <2>1
  <2>3. n * m = ((m - b) - 1) * n + b * n + n
    OBVIOUS
  <2> QED BY <2>2, <2>3
<1>2. ASSUME m <= b
      PROVE  n * m <= b * n + a
  <2>1. b - m \in Nat
    BY <1>2
  <2>2. (b - m) * n \in Nat
    BY <2>1
  <2>3. b * n = (b - m) * n + n * m
    OBVIOUS
  <2> QED BY <2>2, <2>3
<1> QED BY <1>1, <1>2

(* A position moved is the same buffers and two sums.                       *)
LEMMA MoveIs ==
    ASSUME NEW p \in Position, NEW v \in Loop, NEW k \in Int
    PROVE  /\ k * v.is \in Int /\ k * v.os \in Int /\ p.in \in Int /\ p.out \in Int
           /\ p = [bufs |-> p.bufs, in |-> p.in, out |-> p.out]
           /\ Move(p, v, k) = [bufs |-> p.bufs, in |-> p.in + k * v.is, out |-> p.out + k * v.os]
<1>1. k * v.is \in Int /\ k * v.os \in Int /\ p.in \in Int /\ p.out \in Int
  BY DEF Loop, Position
<1>2. p = [bufs |-> p.bufs, in |-> p.in, out |-> p.out]
  BY DEF Position
<1>3. ASSUME NEW a \in Int, NEW b \in Int
      PROVE  [p EXCEPT !.in = @ + a, !.out = @ + b]
                = [bufs |-> p.bufs, in |-> p.in + a, out |-> p.out + b]
  <2> DEFINE q == [p EXCEPT !.in = p.in + a]
  <2>1. q = [bufs |-> p.bufs, in |-> p.in + a, out |-> p.out]
    BY DEF Position
  <2>2. [q EXCEPT !.out = p.out + b] = [bufs |-> p.bufs, in |-> p.in + a, out |-> p.out + b]
    <3> HIDE DEF q
    <3> QED BY <2>1
  <2>3. [p EXCEPT !.in = @ + a, !.out = @ + b] = [q EXCEPT !.out = p.out + b]
    BY DEF Position
  <2> QED BY <2>2, <2>3
<1>4. Move(p, v, k) = [p EXCEPT !.in = @ + k * v.is, !.out = @ + k * v.os]
  BY Zenon DEF Move
<1> QED BY <1>1, <1>2, <1>3, <1>4

LEMMA MoveTwice ==
    ASSUME NEW p \in Position, NEW v \in Loop, NEW w \in Loop, NEW a \in Int, NEW b \in Int
    PROVE  Move(Move(p, v, a), w, b)
             = [bufs |-> p.bufs, in |-> p.in + a * v.is + b * w.is,
                out |-> p.out + a * v.os + b * w.os]
<1> DEFINE q == Move(p, v, a)
<1>1. q \in Position
  BY MoveType
<1>2. q.bufs = p.bufs /\ q.in = p.in + a * v.is /\ q.out = p.out + a * v.os
  BY MoveIs
<1> HIDE DEF q
<1>3. Move(q, w, b) = [bufs |-> q.bufs, in |-> q.in + b * w.is, out |-> q.out + b * w.os]
  BY <1>1, MoveIs
<1> QED BY <1>2, <1>3 DEF q

(* Moves along loops add up and may be made in any order.                   *)
LEMMA MoveMove ==
    ASSUME NEW p \in Position, NEW v \in Loop, NEW w \in Loop, NEW a \in Int, NEW b \in Int
    PROVE  /\ Move(Move(p, v, a), v, b) = Move(p, v, a + b)
           /\ Move(Move(p, v, a), w, b) = Move(Move(p, w, b), v, a)
           /\ Move(p, v, 0) = p
<1>0. v.is \in Int /\ v.os \in Int /\ w.is \in Int /\ w.os \in Int /\ p.in \in Int /\ p.out \in Int
  BY DEF Loop, Position
<1>1. Move(Move(p, v, a), v, b) = Move(p, v, a + b)
  <2>1. p.in + a * v.is + b * v.is = p.in + (a + b) * v.is
    BY <1>0
  <2>2. p.out + a * v.os + b * v.os = p.out + (a + b) * v.os
    BY <1>0
  <2>3. Move(p, v, a + b) = [bufs |-> p.bufs, in |-> p.in + (a + b) * v.is,
                             out |-> p.out + (a + b) * v.os]
    <3> DEFINE c == a + b
    <3>1. c \in Int
      OBVIOUS
    <3> HIDE DEF c
    <3>2. Move(p, v, c) = [bufs |-> p.bufs, in |-> p.in + c * v.is, out |-> p.out + c * v.os]
      BY <3>1, MoveIs
    <3> QED BY <3>2 DEF c
  <2> QED BY <2>1, <2>2, <2>3, MoveTwice
<1>2. Move(Move(p, v, a), w, b) = Move(Move(p, w, b), v, a)
  <2>1. /\ p.in + a * v.is + b * w.is = p.in + b * w.is + a * v.is
        /\ p.out + a * v.os + b * w.os = p.out + b * w.os + a * v.os
    BY <1>0
  <2> QED BY <2>1, MoveTwice
<1>3. Move(p, v, 0) = p
  <2>1. 0 * v.is = 0 /\ 0 * v.os = 0
    BY <1>0
  <2>2. Move(p, v, 0) = [bufs |-> p.bufs, in |-> p.in + 0 * v.is, out |-> p.out + 0 * v.os]
    BY MoveIs
  <2>3. p.in + 0 * v.is = p.in /\ p.out + 0 * v.os = p.out
    BY <1>0, <2>1
  <2>4. p = [bufs |-> p.bufs, in |-> p.in, out |-> p.out]
    BY DEF Position
  <2> QED BY <2>2, <2>3, <2>4
<1> QED BY <1>1, <1>2, <1>3

Joined(v, n) == [v EXCEPT !.n = @ * n]

Follows(v, w) == w.is = v.n * v.is /\ w.os = v.n * v.os

LEMMA JoinedIs ==
    ASSUME NEW v \in Loop, NEW w \in Loop, Follows(v, w)
    PROVE  /\ Joined(v, w.n) \in Loop /\ Joined(v, w.n).n = v.n * w.n
           /\ \A p \in Position, a \in Int, b \in Int :
                  Move(p, Joined(v, w.n), b * v.n + a) = Move(Move(p, v, a), w, b)
<1> DEFINE x == Joined(v, w.n)
<1>1. v.n \in Nat \ {0} /\ w.n \in Nat \ {0} /\ v.is \in Int /\ v.os \in Int
  BY DEF Loop
<1>2. v.n * w.n \in Nat \ {0}
  BY <1>1
<1>3. x = [n |-> v.n * w.n, is |-> v.is, os |-> v.os]
  BY DEF Loop, Joined
<1>4. x \in Loop /\ x.n = v.n * w.n
  BY <1>1, <1>2, <1>3 DEF Loop
<1>5. ASSUME NEW p \in Position, NEW a \in Int, NEW b \in Int
      PROVE  Move(p, x, b * v.n + a) = Move(Move(p, v, a), w, b)
  <2>1. b * v.n + a \in Int /\ x.is = v.is /\ x.os = v.os
    BY <1>1, <1>3
  <2>2. Move(p, x, b * v.n + a) = [bufs |-> p.bufs, in |-> p.in + (b * v.n + a) * v.is,
                                   out |-> p.out + (b * v.n + a) * v.os]
    <3> HIDE DEF x
    <3> QED BY <1>4, <2>1, MoveIs
  <2>3. w.is = v.n * v.is /\ w.os = v.n * v.os
    BY DEF Follows
  <2>4. p.in + (b * v.n + a) * v.is = p.in + a * v.is + b * (v.n * v.is)
    BY <1>1 DEF Position
  <2>5. p.out + (b * v.n + a) * v.os = p.out + a * v.os + b * (v.n * v.os)
    BY <1>1 DEF Position
  <2> QED BY <2>2, <2>3, <2>4, <2>5, MoveTwice
<1> QED BY <1>4, <1>5

LEMMA JoinedSpreads ==
    ASSUME NEW v \in Loop, NEW w \in Loop, Follows(v, w), NEW P \in SUBSET Position
    PROVE  /\ Spread(P, Joined(v, w.n)) = Spread(Spread(P, v), w)
           /\ Disjoint(P, v) /\ Disjoint(Spread(P, v), w) => Disjoint(P, Joined(v, w.n))
<1> DEFINE x == Joined(v, w.n)
           n == v.n
           m == w.n
<1>1. x \in Loop /\ x.n = n * m /\ n \in Nat \ {0} /\ m \in Nat \ {0} /\ n * m \in Nat
  BY JoinedIs DEF Loop
<1>2. \A p \in Position, a \in Int, b \in Int : Move(p, x, b * n + a) = Move(Move(p, v, a), w, b)
  BY JoinedIs
<1> HIDE DEF x, n, m
<1>3. \A k \in 0 .. n * m - 1 : \E a \in 0 .. n - 1, b \in 0 .. m - 1 : k = b * n + a
  <2> TAKE k \in 0 .. n * m - 1
  <2>0. k \in Nat /\ k < n * m
    BY <1>1
  <2>1. PICK a \in 0 .. n - 1, b \in Nat : k = b * n + a
    BY <1>1, <2>0, RowExists DEF Row
  <2>2. b < m
    BY <1>1, <2>0, <2>1, RowBound
  <2> QED BY <1>1, <2>1, <2>2
<1>4. \A a \in 0 .. n - 1, b \in 0 .. m - 1 : b * n + a \in 0 .. n * m - 1
  <2> TAKE a \in 0 .. n - 1, b \in 0 .. m - 1
  <2>1. b \in Nat /\ b < m /\ b * n \in Nat
    BY <1>1
  <2>2. b * n + a < n * m
    BY <1>1, <2>1, RowBound
  <2> QED BY <1>1, <2>1, <2>2
<1>5. Spread(P, x) = Spread(Spread(P, v), w)
  <2>1. ASSUME NEW q \in Spread(P, x)
        PROVE  q \in Spread(Spread(P, v), w)
    <3>1. PICK p \in P, k \in 0 .. n * m - 1 : q = Move(p, x, k)
      BY <1>1, <2>1 DEF Spread
    <3>2. PICK a \in 0 .. n - 1, b \in 0 .. m - 1 : k = b * n + a
      BY <1>3
    <3>3. q = Move(Move(p, v, a), w, b)
      BY <1>2, <3>1, <3>2
    <3> QED BY <3>2, <3>3 DEF Spread, n, m
  <2>2. ASSUME NEW q \in Spread(Spread(P, v), w)
        PROVE  q \in Spread(P, x)
    <3>1. PICK p \in P, a \in 0 .. n - 1, b \in 0 .. m - 1 : q = Move(Move(p, v, a), w, b)
      BY <2>2 DEF Spread, n, m
    <3>2. q = Move(p, x, b * n + a) /\ b * n + a \in 0 .. n * m - 1
      BY <1>2, <1>4, <3>1
    <3> QED BY <1>1, <3>2 DEF Spread
  <2> QED BY <2>1, <2>2
<1>6. ASSUME Disjoint(P, v), Disjoint(Spread(P, v), w)
      PROVE  Disjoint(P, x)
  <2> SUFFICES ASSUME NEW q1 \in P, NEW q2 \in P, NEW k1 \in 0 .. x.n - 1, NEW k2 \in 0 .. x.n - 1,
                      Move(q1, x, k1) = Move(q2, x, k2)
               PROVE  q1 = q2 /\ k1 = k2
    BY DEF Disjoint
  <2>1. PICK a1 \in 0 .. n - 1, b1 \in 0 .. m - 1 : k1 = b1 * n + a1
    BY <1>1, <1>3
  <2>2. PICK a2 \in 0 .. n - 1, b2 \in 0 .. m - 1 : k2 = b2 * n + a2
    BY <1>1, <1>3
  <2>3. Move(Move(q1, v, a1), w, b1) = Move(Move(q2, v, a2), w, b2)
    BY <1>2, <2>1, <2>2
  <2>4. Move(q1, v, a1) \in Spread(P, v) /\ Move(q2, v, a2) \in Spread(P, v)
    BY DEF Spread, n
  <2>5. Move(q1, v, a1) = Move(q2, v, a2) /\ b1 = b2
    BY <1>6, <2>3, <2>4 DEF Disjoint, m
  <2>6. q1 = q2 /\ a1 = a2
    BY <1>6, <2>5 DEF Disjoint, n
  <2> QED BY <2>1, <2>2, <2>5, <2>6
<1> QED BY <1>5, <1>6 DEF x

LEMMA ScaledIs ==
    ASSUME NEW v \in Loop, NEW dir
    PROVE  /\ Scaled(v, dir) \in Loop /\ Scaled(v, dir).n = v.n
           /\ Scaled(v, dir).is = IF dir = FORWARD_FFT_DIR THEN v.is ELSE v.is * 2
           /\ Scaled(v, dir).os = IF dir = FORWARD_FFT_DIR THEN v.os * 2 ELSE v.os
<1>1. v.is * 2 \in Int /\ v.os * 2 \in Int
  BY DEF Loop
<1> QED BY <1>1 DEF Scaled, Loop, DATA_STRIDE

LEMMA AppendIs ==
    ASSUME NEW S, NEW s \in Seq(S), NEW x \in S
    PROVE  /\ Append(s, x) \in Seq(S) /\ Len(Append(s, x)) = Len(s) + 1
           /\ \A i \in 1 .. Len(s) + 1 : Append(s, x)[i] = IF i \in 1..Len(s) THEN s[i] ELSE x
OBVIOUS

LEMMA AllScaledIs ==
    ASSUME NEW vs \in Seq(Loop), NEW dir
    PROVE  /\ AllScaled(vs, dir) \in Seq(Loop) /\ Len(AllScaled(vs, dir)) = Len(vs)
           /\ \A i \in 1..Len(vs) : AllScaled(vs, dir)[i] = Scaled(vs[i], dir)
           /\ \A v \in Loop : AllScaled(Append(vs, v), dir)
                                = Append(AllScaled(vs, dir), Scaled(v, dir))
<1>1. \A i \in 1..Len(vs) : vs[i] \in Loop /\ Scaled(vs[i], dir) \in Loop
  BY ScaledIs
<1>2. /\ AllScaled(vs, dir) \in Seq(Loop) /\ Len(AllScaled(vs, dir)) = Len(vs)
      /\ \A i \in 1..Len(vs) : AllScaled(vs, dir)[i] = Scaled(vs[i], dir)
  BY <1>1 DEF AllScaled
<1>3. ASSUME NEW v \in Loop
      PROVE  AllScaled(Append(vs, v), dir) = Append(AllScaled(vs, dir), Scaled(v, dir))
  <2>1. /\ Len(Append(vs, v)) = Len(vs) + 1 /\ Append(vs, v)[Len(vs) + 1] = v
        /\ \A i \in 1..Len(vs) : Append(vs, v)[i] = vs[i]
    OBVIOUS
  <2> DEFINE us == Append(vs, v)
             a == AllScaled(us, dir)
             c == AllScaled(vs, dir)
             x == Scaled(v, dir)
  <2>2. us \in Seq(Loop) /\ \A i \in 1..Len(us) : us[i] \in Loop /\ Scaled(us[i], dir) \in Loop
    BY ScaledIs
  <2>3. x \in Loop /\ c \in Seq(Loop) /\ Len(c) = Len(vs) /\ \A i \in 1..Len(vs) : c[i] = Scaled(vs[i], dir)
    BY <1>2, ScaledIs
  <2> HIDE DEF us, c
  <2>4. a \in Seq(Loop) /\ Len(a) = Len(us) /\ \A i \in 1..Len(us) : a[i] = Scaled(us[i], dir)
    BY <2>2 DEF AllScaled
  <2> HIDE DEF a
  <2>5. \A i \in 1..Len(us) : Append(c, x)[i] = Scaled(us[i], dir)
    <3> TAKE i \in 1..Len(us)
    <3>1. Len(us) = Len(vs) + 1 /\ us[Len(vs) + 1] = v /\ \A j \in 1..Len(vs) : us[j] = vs[j]
      BY <2>1 DEF us
    <3>2. Append(c, x)[i] = IF i \in 1..Len(vs) THEN c[i] ELSE x
      <4> HIDE DEF x
      <4> QED BY <2>3, <3>1, AppendIs
    <3> QED BY <2>3, <3>1, <3>2
  <2>6. Append(c, x) \in Seq(Loop) /\ Len(Append(c, x)) = Len(us)
    <3>1. Len(us) = Len(vs) + 1
      BY <2>1 DEF us
    <3> HIDE DEF x
    <3> QED BY <2>3, <3>1, AppendIs
  <2>7. a = Append(c, x)
    <3> HIDE DEF x
    <3> QED BY <2>4, <2>5, <2>6, SeqEqual
  <2> QED BY <2>7 DEF a, c, us
<1> QED BY <1>2, <1>3

LEMMA JoinedScaled ==
    ASSUME NEW v \in Loop, NEW w \in Loop, NEW dir, Follows(v, w)
    PROVE  /\ Follows(Scaled(v, dir), Scaled(w, dir))
           /\ Scaled(Joined(v, w.n), dir) = Joined(Scaled(v, dir), w.n)
           /\ Joined(v, w.n).is = v.is /\ Joined(v, w.n).os = v.os
<1>1. /\ v.n \in Nat /\ v.is \in Int /\ v.os \in Int /\ v = [n |-> v.n, is |-> v.is, os |-> v.os]
  BY DEF Loop
<1>2. Follows(Scaled(v, dir), Scaled(w, dir))
  <2>1. (v.n * v.is) * 2 = v.n * (v.is * 2) /\ (v.n * v.os) * 2 = v.n * (v.os * 2)
    BY <1>1
  <2> QED BY <2>1, ScaledIs DEF Follows
<1>3. Joined(v, w.n) = [n |-> v.n * w.n, is |-> v.is, os |-> v.os]
  BY <1>1 DEF Joined
<1>4. Scaled(Joined(v, w.n), dir) = Joined(Scaled(v, dir), w.n)
  BY <1>1, <1>3 DEF Joined, Scaled, Loop
<1> QED BY <1>2, <1>3, <1>4

(* What fusing has made of the loops 1 .. m: the same positions.            *)
Fused(vs, dir, p, out, m) ==
    \E front \in Seq(Loop), last \in Loop :
        /\ out = Append(front, last)
        /\ last.n * last.is = vs[m].n * vs[m].is
        /\ last.n * last.os = vs[m].n * vs[m].os
        /\ Reach(AllScaled(out, dir), p) = Reach(SubSeq(AllScaled(vs, dir), 1, m), p)
        /\ LoopsApart(SubSeq(AllScaled(vs, dir), 1, m), p)
             => LoopsApart(AllScaled(out, dir), p)

LEMMA FusedFirst ==
    ASSUME NEW vs \in Seq(Loop), vs # <<>>, NEW dir, NEW p \in Position
    PROVE  Fused(vs, dir, p, <<vs[1]>>, 1)
<1>1. vs[1] \in Loop /\ <<vs[1]>> = Append(<<>>, vs[1]) /\ <<>> \in Seq(Loop) /\ 1 \in 1..Len(vs)
  OBVIOUS
<1>2. AllScaled(<<vs[1]>>, dir) = <<Scaled(vs[1], dir)>>
  BY DEF AllScaled
<1>3. SubSeq(AllScaled(vs, dir), 1, 1) = <<Scaled(vs[1], dir)>>
  <2> DEFINE us == AllScaled(vs, dir)
  <2>1. us \in Seq(Loop) /\ Len(us) > 0 /\ us[1] = Scaled(vs[1], dir)
    BY <1>1, AllScaledIs
  <2> HIDE DEF us
  <2>2. 1 \in 1..Len(us) /\ SubSeq(us, 1, 1 - 1) = <<>> /\ Append(<<>>, us[1]) = <<us[1]>>
    BY <2>1
  <2> QED BY <2>1, <2>2, PrefixGrows DEF us
<1> QED BY <1>1, <1>2, <1>3 DEF Fused

LEMMA FusedStep ==
    ASSUME NEW vs \in Seq(Loop), NEW dir, NEW p \in Position, NEW may,
           NEW m \in 1 .. Len(vs) - 1, NEW out, Fused(vs, dir, p, out, m)
    PROVE  Fused(vs, dir, p, Fuse(vs, may, out, m + 1), m + 1)
<1> DEFINE us == AllScaled(vs, dir)
           w  == vs[m + 1]
           new == Fuse(vs, may, out, m + 1)
<1>1. PICK front \in Seq(Loop), last \in Loop :
        /\ out = Append(front, last)
        /\ last.n * last.is = vs[m].n * vs[m].is
        /\ last.n * last.os = vs[m].n * vs[m].os
        /\ Reach(AllScaled(out, dir), p) = Reach(SubSeq(us, 1, m), p)
        /\ LoopsApart(SubSeq(us, 1, m), p) => LoopsApart(AllScaled(out, dir), p)
  BY DEF Fused
<1>2. w \in Loop /\ m + 1 \in 1..Len(vs) /\ (m + 1) - 1 = m
  OBVIOUS
<1> DEFINE sw == Scaled(w, dir)
           pre == SubSeq(us, 1, m)
<1>3. /\ us \in Seq(Loop) /\ pre \in Seq(Loop) /\ sw \in Loop
      /\ SubSeq(us, 1, m + 1) = Append(pre, sw)
  <2>1. us \in Seq(Loop) /\ Len(us) = Len(vs) /\ us[m + 1] = sw
    BY <1>2, AllScaledIs
  <2> HIDE DEF us, sw
  <2> QED BY <1>2, <2>1, PrefixGrows
<1>4. /\ Reach(Append(pre, sw), p) = Spread(Reach(pre, p), sw)
      /\ LoopsApart(Append(pre, sw), p) <=> LoopsApart(pre, p) /\ Disjoint(Reach(pre, p), sw)
  <2> HIDE DEF pre, sw
  <2> QED BY <1>3, ReachAppend, ApartAppend
<1>5. out \in Seq(Loop) /\ AllScaled(out, dir) \in Seq(Loop)
  <2>1. out \in Seq(Loop)
    BY <1>1
  <2> QED BY <2>1, AllScaledIs
<1>6. CASE new = Append(out, w)
  <2>1. AllScaled(new, dir) = Append(AllScaled(out, dir), sw)
    <3>1. AllScaled(Append(out, w), dir) = Append(AllScaled(out, dir), sw)
      <4> HIDE DEF w
      <4> QED BY <1>2, <1>5, AllScaledIs
    <3> QED BY <1>6, <3>1
  <2>2. /\ Reach(AllScaled(new, dir), p) = Spread(Reach(AllScaled(out, dir), p), sw)
        /\ LoopsApart(AllScaled(new, dir), p) <=>
             LoopsApart(AllScaled(out, dir), p) /\ Disjoint(Reach(AllScaled(out, dir), p), sw)
    <3> HIDE DEF sw
    <3> QED BY <1>3, <1>5, <2>1, ReachAppend, ApartAppend
  <2> HIDE DEF us, new, w
  <2> QED BY <1>1, <1>2, <1>3, <1>4, <1>5, <1>6, <2>2 DEF Fused, us, new, w
<1>7. CASE new = [out EXCEPT ![Len(out)].n = @ * w.n] /\ Continues(vs[m], w)
  <2> DEFINE long == Joined(last, w.n)
             sl == Scaled(last, dir)
             af == AllScaled(front, dir)
  <2>1. Follows(last, w)
    BY <1>1, <1>7 DEF Follows, Continues
  <2>2. long \in Loop /\ long.n = last.n * w.n /\ long.is = last.is /\ long.os = last.os
    BY <1>2, <2>1, JoinedIs, JoinedScaled
  <2>3. new = Append(front, long)
    <3>1. Len(out) = Len(front) + 1 /\ out[Len(out)] = last /\ out \in Seq(Loop)
          /\ Len(out) \in 1..Len(out)
          /\ \A i \in 1..Len(front) : out[i] = front[i]
      BY <1>1
    <3>2. new = [out EXCEPT ![Len(out)] = long]
      <4> HIDE DEF new, w
      <4> QED BY <1>7, <3>1 DEF Joined
    <3> HIDE DEF new, long
    <3>3. /\ new \in Seq(Loop) /\ Len(new) = Len(out)
          /\ \A i \in 1..Len(out) : new[i] = IF i = Len(out) THEN long ELSE out[i]
      BY <2>2, <3>1, <3>2, ExceptSeq
    <3>4. /\ Append(front, long) \in Seq(Loop) /\ Len(Append(front, long)) = Len(front) + 1
          /\ \A i \in 1 .. Len(front) + 1 :
               Append(front, long)[i] = IF i \in 1..Len(front) THEN front[i] ELSE long
      BY <2>2, AppendIs
    <3>5. \A i \in 1..Len(out) : i = Len(out) \/ i \in 1..Len(front)
      BY <3>1
    <3>6. Len(front) + 1 \notin 1..Len(front)
      OBVIOUS
    <3>7. \A i \in 1..Len(new) : new[i] = Append(front, long)[i]
      BY <3>1, <3>3, <3>4, <3>5, <3>6
    <3> QED BY <3>1, <3>3, <3>4, <3>7, SeqEqual
  <2>4. /\ Scaled(long, dir) = Joined(sl, sw.n) /\ Follows(sl, sw) /\ sl \in Loop
    BY <1>2, <2>1, JoinedScaled, ScaledIs
  <2>5. /\ AllScaled(new, dir) = Append(af, Joined(sl, sw.n))
        /\ AllScaled(out, dir) = Append(af, sl) /\ af \in Seq(Loop)
    BY <1>1, <2>2, <2>3, <2>4, AllScaledIs
  <2>6. Joined(sl, sw.n) \in Loop
    BY <1>3, <2>4, JoinedIs
  <2> HIDE DEF af, sl, long, sw, new
  <2>7. Reach(af, p) \in SUBSET Position
    BY <2>5, ReachType
  <2>8. /\ Reach(AllScaled(out, dir), p) = Spread(Reach(af, p), sl)
        /\ LoopsApart(AllScaled(out, dir), p) <=> LoopsApart(af, p) /\ Disjoint(Reach(af, p), sl)
    BY <2>4, <2>5, ReachAppend, ApartAppend
  <2>9. /\ Reach(AllScaled(new, dir), p) = Spread(Reach(af, p), Joined(sl, sw.n))
        /\ LoopsApart(AllScaled(new, dir), p) <=>
             LoopsApart(af, p) /\ Disjoint(Reach(af, p), Joined(sl, sw.n))
    BY <2>5, <2>6, ReachAppend, ApartAppend
  <2>10. /\ Spread(Reach(af, p), Joined(sl, sw.n)) = Spread(Spread(Reach(af, p), sl), sw)
         /\ Disjoint(Reach(af, p), sl) /\ Disjoint(Spread(Reach(af, p), sl), sw)
              => Disjoint(Reach(af, p), Joined(sl, sw.n))
    BY <1>3, <2>4, <2>7, JoinedSpreads
  <2>11. long.n * long.is = w.n * w.is /\ long.n * long.os = w.n * w.os
    <3>1. w.is = last.n * last.is /\ w.os = last.n * last.os
      BY <2>1 DEF Follows
    <3>2. last.n \in Int /\ last.is \in Int /\ last.os \in Int /\ w.n \in Int
      <4>1. \A v \in Loop : v.n \in Int /\ v.is \in Int /\ v.os \in Int
        BY DEF Loop
      <4>2. last \in Loop /\ w \in Loop
        BY <1>1, <1>2
      <4> HIDE DEF w
      <4> QED BY <4>1, <4>2
    <3>3. /\ (last.n * w.n) * last.is = w.n * (last.n * last.is)
          /\ (last.n * w.n) * last.os = w.n * (last.n * last.os)
      BY <3>2
    <3> QED BY <2>2, <3>1, <3>3
  <2>12. Reach(AllScaled(new, dir), p) = Reach(Append(pre, sw), p)
    BY <1>1, <1>4, <2>8, <2>9, <2>10
  <2>13. LoopsApart(Append(pre, sw), p) => LoopsApart(AllScaled(new, dir), p)
    BY <1>1, <1>4, <2>8, <2>9, <2>10
  <2>14. /\ Reach(AllScaled(new, dir), p) = Reach(SubSeq(us, 1, m + 1), p)
         /\ LoopsApart(SubSeq(us, 1, m + 1), p) => LoopsApart(AllScaled(new, dir), p)
    <3> HIDE DEF us, pre
    <3> QED BY <1>3, <2>12, <2>13
  <2>15. Fused(vs, dir, p, new, m + 1)
    BY <2>2, <2>3, <2>11, <2>14 DEF Fused
  <2> QED BY <2>15 DEF new
<1>8. \/ new = Append(out, w)
      \/ new = [out EXCEPT ![Len(out)].n = @ * w.n] /\ Continues(vs[m], w)
  BY <1>2 DEF Fuse
<1> QED BY <1>6, <1>7, <1>8

(* Fusing changes neither the positions the loops name nor that they name   *)
(* each of them once.                                                       *)
THEOREM FusingKeepsPositions ==
    ASSUME NEW vs \in Seq(Loop), vs # <<>>, NEW may, NEW dir, NEW p \in Position
    PROVE  LET out == fuse_vecs(vs, may)
           IN  /\ out \in Seq(Loop) /\ out # <<>>
               /\ Reach(AllScaled(out, dir), p) = Reach(AllScaled(vs, dir), p)
               /\ LoopsApart(AllScaled(vs, dir), p) => LoopsApart(AllScaled(out, dir), p)
<1>1. Len(vs) \in Nat \ {0}
  OBVIOUS
<1>2. PICK f : /\ f[0] = <<vs[1]>>
               /\ \A i \in 1 .. Len(vs) - 1 : f[i] = Fuse(vs, may, f[i - 1], i + 1)
               /\ fuse_vecs(vs, may) = f[Len(vs) - 1]
  BY <1>1, FuseSteps
<1> DEFINE T == {m \in Nat : m < Len(vs) => Fused(vs, dir, p, f[m], m + 1)}
<1>3. 0 \in T
  <2>1. f[0] = <<vs[1]>> /\ 0 + 1 = 1
    BY <1>2
  <2> QED BY <2>1, FusedFirst
<1>4. ASSUME NEW m \in Nat, m \in T
      PROVE  m + 1 \in T
  <2>1. CASE m + 1 < Len(vs)
    <3>1. m + 1 \in 1 .. Len(vs) - 1 /\ (m + 1) - 1 = m /\ m < Len(vs)
      BY <1>1, <2>1
    <3>2. Fused(vs, dir, p, f[m], m + 1) /\ f[m + 1] = Fuse(vs, may, f[m], (m + 1) + 1)
      BY <1>2, <1>4, <3>1
    <3>3. Fused(vs, dir, p, f[m + 1], (m + 1) + 1)
      BY <3>1, <3>2, FusedStep
    <3> QED BY <3>3
  <2> QED BY <2>1
<1> HIDE DEF T
<1>5. Len(vs) - 1 \in T
  BY <1>1, <1>3, <1>4, Induction
<1>6. Fused(vs, dir, p, fuse_vecs(vs, may), Len(vs))
  <2>1. Len(vs) - 1 \in Nat /\ Len(vs) - 1 < Len(vs) /\ (Len(vs) - 1) + 1 = Len(vs)
    BY <1>1
  <2> QED BY <1>2, <1>5, <2>1 DEF T
<1>7. SubSeq(AllScaled(vs, dir), 1, Len(vs)) = AllScaled(vs, dir)
  <2> DEFINE us == AllScaled(vs, dir)
  <2>1. us \in Seq(Loop) /\ Len(us) = Len(vs) /\ Len(us) \in 1..Len(us)
    BY <1>1, AllScaledIs
  <2> HIDE DEF us
  <2> QED BY <2>1, PrefixGrows DEF us
<1> DEFINE o == fuse_vecs(vs, may)
<1> HIDE DEF o
<1>8. /\ Reach(AllScaled(o, dir), p) = Reach(AllScaled(vs, dir), p)
      /\ LoopsApart(AllScaled(vs, dir), p) => LoopsApart(AllScaled(o, dir), p)
      /\ \E front \in Seq(Loop), last \in Loop : o = Append(front, last)
  BY <1>6, <1>7 DEF Fused, o
<1>9. o \in Seq(Loop) /\ o # <<>>
  BY <1>8
<1> QED BY <1>8, <1>9 DEF o

-----------------------------------------------------------------------------
(* The loops of the plan are loops: the fused ones, strides scaled.         *)
LoopsTyped == vecs \in Seq(Loop) /\ vecs # <<>> /\ ask \in Problems /\ ProblemType(ask)

LEMMA InitLoops == Init => LoopsTyped
<1> SUFFICES ASSUME Init
             PROVE  LoopsTyped
  OBVIOUS
<1> DEFINE vs == fuse_vecs(ask.vecs, ask.fuseFirst)
<1>1. ask \in Problems /\ ProblemType(ask) /\ vecs = SetupVecs(ask, vs)
  BY ProblemsTyped DEF Init
<1>2. vs \in Seq(Loop) /\ vs # <<>>
  <2>1. Start(call) \in Position
    BY DEF Init, Start, Position
  <2> QED BY <1>1, <2>1, FusingKeepsPositions DEF ProblemType
<1> HIDE DEF vs
<1>3. ASSUME NEW v \in Loop
      PROVE  Scaled(v, ask.dir) \in Loop
  BY DEF Scaled, Loop, DATA_STRIDE
<1>4. CASE ask.size1
  BY <1>1, <1>2, <1>4 DEF SetupVecs, LoopsTyped
<1>5. CASE ~ask.size1
  <2>1. vecs = [i \in 1..Len(vs) |-> Scaled(vs[i], ask.dir)]
    BY <1>1, <1>5 DEF SetupVecs, AllScaled
  <2>2. Len(vs) \in Nat \ {0} /\ \A i \in 1..Len(vs) : vs[i] \in Loop
    BY <1>2
  <2>3. vecs \in Seq(Loop) /\ Len(vecs) = Len(vs)
    BY <1>3, <2>1, <2>2
  <2> QED BY <1>1, <2>2, <2>3 DEF LoopsTyped
<1> QED BY <1>1, <1>4, <1>5 DEF ProblemType

LEMMA Typed ==
    ASSUME LoopsTyped
    PROVE  /\ VecRank \in Nat \ {0}
           /\ \A r \in 1..VecRank : vecs[r] \in Loop /\ vecs[r].n \in Nat \ {0}
           /\ vecs[1].n \in Nat \ {0} /\ vecs[1] \in Loop
           /\ Threads \in Nat \ {0}
<1>1. VecRank \in Nat \ {0} /\ \A r \in 1..VecRank : vecs[r] \in Loop
  BY DEF LoopsTyped, VecRank
<1>2. \A r \in 1..VecRank : vecs[r].n \in Nat \ {0}
  BY <1>1 DEF Loop
<1>3. vecs[1].n \in Nat \ {0} /\ vecs[1] \in Loop
  BY <1>1, <1>2
<1>4. Threads \in Nat \ {0}
  BY <1>3 DEF Threads, LoopsTyped, ProblemType
<1> QED BY <1>1, <1>2, <1>3, <1>4

(* Types, where the recursion over the loops is at each step, and what the  *)
(* threads of a region hold.                                                *)
Where ==
    /\ pc = "descend" => rank \in 1..VecRank
    /\ pc = "climb" => rank \in 2..VecRank
    /\ pc = "team" => rank = 1 /\ rank \in 1..VecRank

Holding ==
    /\ pc # "team" => team = {}
    /\ \A t \in 0 .. Threads - 1 : t \notin team => task[t] = NoBatch
    /\ \A t \in team : task[t] # NoBatch => task[t] \notin pending
    /\ OwnBatch

IInv == LoopsTyped /\ TypeOK /\ Where /\ Holding

LEMMA InitInv == Init => IInv
<1> SUFFICES ASSUME Init
             PROVE  IInv
  OBVIOUS
<1>1. LoopsTyped
  BY InitLoops
<1>2. /\ VecRank \in Nat \ {0} /\ vecs[1].n \in Nat \ {0} /\ Threads \in Nat \ {0}
      /\ \A r \in 1..VecRank : vecs[r].n \in Nat \ {0}
  BY <1>1, Typed
<1>3. Start(call) \in Position
  BY DEF Init, Start, Position
<1>4. TypeOK
  <2>1. child = [t \in 0 .. Threads - 1 |-> root] /\ task = [t \in 0 .. Threads - 1 |-> NoBatch]
        /\ root = Start(call) /\ base = root /\ team = {} /\ pending = {}
    BY DEF Init
  <2>2. idx = [r \in 1..VecRank |-> 0] /\ saved = [r \in 1..VecRank |-> root]
    BY DEF Init
  <2>3. ask \in Problems /\ rank = 0 /\ call \in Bufs /\ calls = 0 /\ status = "success"
        /\ broken \in BOOLEAN /\ pc = "idle"
    BY DEF Init
  <2>4. child \in [0 .. Threads - 1 -> Position] /\ task \in [DOMAIN child -> {NoBatch} \cup 0 .. vecs[1].n - 1]
    BY <1>3, <2>1
  <2>5. idx \in [1..VecRank -> Nat] /\ (\A r \in 1..VecRank : idx[r] < vecs[r].n)
        /\ saved \in [1..VecRank -> Position]
    BY <1>2, <1>3, <2>1, <2>2
  <2>6. rank \in 0 .. VecRank + 1 /\ calls \in 0 .. MaxCalls
    BY <1>2, <2>3, CallsBound
  <2> QED BY <1>3, <2>1, <2>3, <2>4, <2>5, <2>6 DEF TypeOK
<1>5. team = {} /\ pc = "idle" /\ \A t \in 0 .. Threads - 1 : task[t] = NoBatch
  BY DEF Init
<1> QED BY <1>1, <1>4, <1>5 DEF IInv, Where, Holding, OwnBatch

LEMMA DataKept ==
    ASSUME UNCHANGED data
    PROVE  /\ VecRank' = VecRank /\ Threads' = Threads /\ ask' = ask /\ vecs' = vecs
           /\ LoopsTyped => LoopsTyped'
<1>1. ask' = ask /\ vecs' = vecs
  BY DEF data
<1> QED BY <1>1 DEF VecRank, Threads, LoopsTyped, ProblemType

LEMMA NoTeam ==
    ASSUME Holding, team = {}, team' = {}, task' = task, Threads' = Threads
    PROVE  Holding'
BY DEF Holding, OwnBatch

(* Every step of a call keeps the invariant.                                *)
LEMMA EnterKeeps ==
    ASSUME IInv, pc = "idle", Enter, root' \in Position, call' \in Bufs, calls < MaxCalls
    PROVE  IInv'
<1>1. LoopsTyped /\ TypeOK /\ UNCHANGED data
  BY DEF IInv, Enter
<1>2. LoopsTyped' /\ VecRank' = VecRank /\ Threads' = Threads /\ ask' = ask /\ vecs' = vecs
  BY <1>1, DataKept
<1>3. VecRank \in Nat \ {0} /\ \A r \in 1..VecRank : vecs[r].n \in Nat \ {0}
  BY <1>1, Typed
<1>4. /\ rank' = VecRank /\ idx' = [r \in 1..VecRank |-> 0] /\ calls' = calls + 1
      /\ pc' \in {"sizeone", "descend"} /\ child' = [t \in 0 .. Threads - 1 |-> root']
      /\ status' = "success" /\ broken' = FALSE
      /\ saved' = saved /\ base' = base /\ team' = team /\ pending' = pending /\ task' = task
  BY <1>1 DEF Enter, region, TypeOK
<1>5. TypeOK'
  <2>1. idx' \in [1..VecRank' -> Nat] /\ \A r \in 1..VecRank' : idx'[r] < vecs'[r].n
    BY <1>2, <1>3, <1>4
  <2>2. rank' \in 0 .. VecRank' + 1 /\ calls' \in 0 .. MaxCalls
    BY <1>1, <1>2, <1>3, <1>4, CallsBound DEF TypeOK
  <2>3. child' \in [0 .. Threads' - 1 -> Position] /\ DOMAIN child' = DOMAIN child
    BY <1>1, <1>2, <1>4 DEF TypeOK
  <2>4. /\ team' \subseteq DOMAIN child' /\ task' \in [DOMAIN child' -> {NoBatch} \cup 0 .. vecs'[1].n - 1]
        /\ saved' \in [1..VecRank' -> Position] /\ base' \in Position
        /\ pending' \subseteq 0 .. vecs'[1].n - 1
    BY <1>1, <1>2, <1>4, <2>3 DEF TypeOK
  <2>5. broken' \in BOOLEAN /\ status' \in {"success", "failure"} /\ ask' \in Problems
        /\ pc' \in {"idle", "descend", "team", "climb", "sizeone", "done"}
    BY <1>1, <1>2, <1>4 DEF TypeOK
  <2> QED BY <2>1, <2>2, <2>3, <2>4, <2>5 DEF TypeOK
<1>6. Where'
  BY <1>2, <1>3, <1>4 DEF Where
<1>7. Holding'
  <2>1. Holding /\ team = {}
    BY DEF IInv, Holding
  <2> QED BY <1>2, <1>4, <2>1, NoTeam
<1> QED BY <1>2, <1>5, <1>6, <1>7 DEF IInv

LEMMA IteratedKeeps ==
    ASSUME LoopsTyped, TypeOK, rank \in 1..VecRank, Iterated, UNCHANGED data
    PROVE  /\ idx' \in [1..VecRank' -> Nat] /\ \A r \in 1..VecRank' : idx'[r] < vecs'[r].n
           /\ rank' \in 0 .. VecRank' + 1
           /\ pc' \in {"descend", "climb", "done"}
           /\ Where'
<1>1. VecRank' = VecRank /\ vecs' = vecs
  BY DataKept
<1>2. VecRank \in Nat \ {0} /\ \A r \in 1..VecRank : vecs[r].n \in Nat \ {0}
  BY Typed
<1>3. idx \in [1..VecRank -> Nat] /\ \A r \in 1..VecRank : idx[r] < vecs[r].n
  BY DEF TypeOK
<1>4. CASE idx[rank] + 1 < vecs[rank].n
  <2>1. idx' = [idx EXCEPT ![rank] = idx[rank] + 1] /\ rank' = rank /\ pc' = "descend"
    BY <1>4 DEF Iterated
  <2> QED BY <1>1, <1>2, <1>3, <1>4, <2>1 DEF Where
<1>5. CASE ~(idx[rank] + 1 < vecs[rank].n)
  <2>1. idx' = [idx EXCEPT ![rank] = 0] /\ rank' = rank + 1
        /\ pc' = IF rank = VecRank THEN "done" ELSE "climb"
    BY <1>5 DEF Iterated
  <2> QED BY <1>1, <1>2, <1>3, <2>1 DEF Where
<1> QED BY <1>4, <1>5

LEMMA RunBatchKeeps ==
    ASSUME IInv, RunBatch
    PROVE  IInv'
<1>1. LoopsTyped /\ TypeOK /\ UNCHANGED data /\ rank \in 1..VecRank /\ Iterated
      /\ pc = "descend" /\ team = {}
  BY DEF IInv, Holding, RunBatch, Where
<1>2. LoopsTyped' /\ VecRank' = VecRank /\ Threads' = Threads /\ ask' = ask /\ vecs' = vecs
  BY <1>1, DataKept
<1>3. vecs[1] \in Loop
  BY <1>1, Typed
<1>4. /\ child' = [child EXCEPT ![0] = Move(child[0], vecs[1], 1)]
      /\ root' = root /\ saved' = saved /\ base' = base /\ team' = team /\ pending' = pending
      /\ task' = task /\ call' = call /\ calls' = calls /\ status' = status /\ broken' = broken
  BY DEF RunBatch, region
<1>5. child' \in [0 .. Threads - 1 -> Position]
  <2>1. 0 \in 0 .. Threads - 1 /\ child \in [0 .. Threads - 1 -> Position]
    BY <1>1, Typed DEF TypeOK
  <2>2. Move(child[0], vecs[1], 1) \in Position
    BY <1>3, <2>1, MoveType
  <2> QED BY <1>4, <2>1, <2>2
<1>6. TypeOK'
  <2>1. DOMAIN child' = DOMAIN child
    BY <1>4
  <2> QED BY <1>1, <1>2, <1>4, <1>5, <2>1, IteratedKeeps DEF TypeOK
<1>7. Where'
  BY <1>1, IteratedKeeps
<1>8. Holding'
  <2>1. Holding
    BY DEF IInv
  <2> QED BY <1>1, <1>2, <1>4, <2>1, NoTeam
<1> QED BY <1>2, <1>6, <1>7, <1>8 DEF IInv

LEMMA ClimbKeeps ==
    ASSUME IInv, Climb
    PROVE  IInv'
<1>1. LoopsTyped /\ TypeOK /\ UNCHANGED data /\ rank \in 1..VecRank /\ Iterated
      /\ pc = "climb" /\ team = {}
  BY Typed DEF IInv, Holding, Climb, Where
<1>2. LoopsTyped' /\ VecRank' = VecRank /\ Threads' = Threads /\ ask' = ask /\ vecs' = vecs
  BY <1>1, DataKept
<1>3. vecs[rank] \in Loop /\ saved[rank] \in Position
  BY <1>1, Typed DEF TypeOK
<1>4. /\ child' = [t \in DOMAIN child |-> Move(saved[rank], vecs[rank], 1)]
      /\ root' = root /\ saved' = saved /\ base' = base /\ team' = team /\ pending' = pending
      /\ task' = task /\ call' = call /\ calls' = calls /\ status' = status /\ broken' = broken
  BY DEF Climb, region, result
<1>5. child' \in [0 .. Threads - 1 -> Position] /\ DOMAIN child' = DOMAIN child
  <2>1. Move(saved[rank], vecs[rank], 1) \in Position
    BY <1>3, MoveType
  <2> QED BY <1>1, <1>4, <2>1 DEF TypeOK
<1>6. TypeOK'
  BY <1>1, <1>2, <1>4, <1>5, IteratedKeeps DEF TypeOK
<1>7. Where'
  BY <1>1, IteratedKeeps
<1>8. Holding'
  <2>1. Holding
    BY DEF IInv
  <2> QED BY <1>1, <1>2, <1>4, <2>1, NoTeam
<1> QED BY <1>2, <1>6, <1>7, <1>8 DEF IInv

LEMMA DescendKeeps ==
    ASSUME IInv, Descend
    PROVE  IInv'
<1>1. LoopsTyped /\ TypeOK /\ UNCHANGED data /\ rank \in 2..VecRank
      /\ pc = "descend" /\ team = {}
  BY Typed DEF IInv, Holding, Descend, Where
<1>2. LoopsTyped' /\ VecRank' = VecRank /\ Threads' = Threads /\ ask' = ask /\ vecs' = vecs
  BY <1>1, DataKept
<1>3. VecRank \in Nat \ {0} /\ 0 \in 0 .. Threads - 1
  BY <1>1, Typed
<1>4. /\ saved' = [saved EXCEPT ![rank] = child[0]] /\ rank' = rank - 1
      /\ child' = child /\ idx' = idx /\ pc' = pc
      /\ root' = root /\ base' = base /\ team' = team /\ pending' = pending
      /\ task' = task /\ call' = call /\ calls' = calls /\ status' = status /\ broken' = broken
  BY DEF Descend, region, result
<1>5. saved' \in [1..VecRank -> Position]
  BY <1>1, <1>3, <1>4 DEF TypeOK
<1>6. rank' \in 1 .. VecRank - 1
  BY <1>1, <1>3, <1>4
<1>7. TypeOK'
  BY <1>1, <1>2, <1>3, <1>4, <1>5, <1>6 DEF TypeOK
<1>8. Where'
  BY <1>1, <1>2, <1>3, <1>4, <1>6 DEF Where
<1>9. Holding'
  <2>1. Holding
    BY DEF IInv
  <2> QED BY <1>1, <1>2, <1>4, <2>1, NoTeam
<1> QED BY <1>2, <1>7, <1>8, <1>9 DEF IInv

LEMMA ForkKeeps ==
    ASSUME IInv, Fork
    PROVE  IInv'
<1>1. LoopsTyped /\ TypeOK /\ UNCHANGED data /\ Holding /\ rank = 1 /\ team = {}
  BY DEF IInv, Holding, Fork
<1>2. LoopsTyped' /\ VecRank' = VecRank /\ Threads' = Threads /\ ask' = ask /\ vecs' = vecs
  BY <1>1, DataKept
<1>3. VecRank \in Nat \ {0} /\ Threads \in Nat \ {0} /\ vecs[1].n \in Nat \ {0}
  BY <1>1, Typed
<1>4. /\ base' = child[0] /\ pending' = 0 .. vecs[1].n - 1 /\ pc' = "team"
      /\ root' = root /\ child' = child /\ rank' = rank /\ idx' = idx /\ saved' = saved
      /\ task' = task /\ call' = call /\ calls' = calls /\ status' = status /\ broken' = broken
  BY DEF Fork, walk, result
<1>5. PICK k \in 1..Threads : team' = 0 .. k - 1
  BY DEF Fork
<1>6. team' \subseteq 0 .. Threads - 1 /\ base' \in Position
  BY <1>1, <1>3, <1>4, <1>5 DEF TypeOK
<1>7. TypeOK'
  BY <1>1, <1>2, <1>4, <1>6 DEF TypeOK
<1>8. Where'
  BY <1>1, <1>2, <1>3, <1>4 DEF Where
<1>9. Holding'
  <2>1. \A t \in 0 .. Threads - 1 : task'[t] = NoBatch
    BY <1>1, <1>4 DEF Holding
  <2> QED BY <1>2, <1>4, <1>6, <2>1 DEF Holding, OwnBatch
<1> QED BY <1>2, <1>7, <1>8, <1>9 DEF IInv

LEMMA TakeBatchKeeps ==
    ASSUME IInv, NEW t \in DOMAIN child, TakeBatch(t)
    PROVE  IInv'
<1>1. LoopsTyped /\ TypeOK /\ UNCHANGED data /\ Holding /\ Where /\ t \in team /\ pc = "team"
      /\ task[t] = NoBatch
  BY DEF IInv, TakeBatch
<1>2. LoopsTyped' /\ VecRank' = VecRank /\ Threads' = Threads /\ ask' = ask /\ vecs' = vecs
  BY <1>1, DataKept
<1>3. vecs[1] \in Loop /\ vecs[1].n \in Nat \ {0}
  BY <1>1, Typed
<1>4. PICK b \in pending : /\ task' = [task EXCEPT ![t] = b]
                           /\ pending' = pending \ {b}
                           /\ child' = [child EXCEPT ![t] = Move(base, vecs[1], b)]
  BY DEF TakeBatch
<1>5. /\ base' = base /\ team' = team /\ pc' = pc
      /\ root' = root /\ rank' = rank /\ idx' = idx /\ saved' = saved
      /\ call' = call /\ calls' = calls /\ status' = status /\ broken' = broken
  BY DEF TakeBatch, walk, result
<1>6. b \in 0 .. vecs[1].n - 1 /\ b # NoBatch
  BY <1>1, <1>3, <1>4 DEF TypeOK, NoBatch
<1>7. /\ child \in [0 .. Threads - 1 -> Position] /\ DOMAIN child = 0 .. Threads - 1
      /\ team \subseteq 0 .. Threads - 1
      /\ task \in [0 .. Threads - 1 -> {NoBatch} \cup 0 .. vecs[1].n - 1]
  BY <1>1 DEF TypeOK
<1>8. /\ child' \in [0 .. Threads - 1 -> Position]
      /\ task' \in [0 .. Threads - 1 -> {NoBatch} \cup 0 .. vecs[1].n - 1]
      /\ DOMAIN child' = 0 .. Threads - 1
  <2>1. Move(base, vecs[1], b) \in Position
    BY <1>1, <1>3, <1>6, MoveType DEF TypeOK
  <2> QED BY <1>4, <1>6, <1>7, <2>1
<1>9. TypeOK'
  BY <1>1, <1>2, <1>4, <1>5, <1>8 DEF TypeOK
<1>10. Where'
  BY <1>1, <1>2, <1>5 DEF Where
<1>11. Holding'
  <2>1. task'[t] = b /\ child'[t] = Move(base, vecs[1], b)
    BY <1>4, <1>7
  <2>2. \A u \in 0 .. Threads - 1 : u # t => task'[u] = task[u] /\ child'[u] = child[u]
    BY <1>4, <1>7
  <2>3. \A u \in team : task[u] # NoBatch => task[u] # b /\ task[u] \notin pending
    BY <1>1, <1>4 DEF Holding
  <2>4. ASSUME NEW u \in team, task'[u] # NoBatch
        PROVE  /\ task'[u] \notin pending'
               /\ child'[u] = Move(base', vecs'[1], task'[u])
               /\ \A w \in team : task'[w] = task'[u] => w = u
    <3>1. CASE u = t
      BY <1>2, <1>4, <1>5, <1>6, <1>7, <2>1, <2>2, <2>3, <3>1
    <3>2. CASE u # t
      <4>1. /\ task'[u] = task[u] /\ child'[u] = child[u] /\ task[u] # NoBatch
        BY <1>7, <2>2, <2>4, <3>2
      <4>2. /\ child[u] = Move(base, vecs[1], task[u])
            /\ \A w \in team : task[w] = task[u] => w = u
        BY <1>1, <4>1 DEF Holding, OwnBatch
      <4> QED BY <1>2, <1>4, <1>5, <1>7, <2>1, <2>2, <2>3, <4>1, <4>2
    <3> QED BY <3>1, <3>2
  <2>5. \A u \in 0 .. Threads - 1 : u \notin team => task'[u] = NoBatch
    BY <1>1, <2>2 DEF Holding
  <2> QED BY <1>1, <1>2, <1>5, <2>4, <2>5 DEF Holding, OwnBatch
<1> QED BY <1>2, <1>9, <1>10, <1>11 DEF IInv

LEMMA RunChildKeeps ==
    ASSUME IInv, NEW t \in DOMAIN child, RunChild(t)
    PROVE  IInv'
<1>1. LoopsTyped /\ TypeOK /\ UNCHANGED data /\ Holding /\ Where /\ t \in team /\ pc = "team"
  BY DEF IInv, RunChild
<1>2. LoopsTyped' /\ VecRank' = VecRank /\ Threads' = Threads /\ ask' = ask /\ vecs' = vecs
  BY <1>1, DataKept
<1>3. /\ task' = [task EXCEPT ![t] = NoBatch]
      /\ status' \in {"success", "failure"} /\ broken' \in BOOLEAN
  BY <1>1 DEF RunChild, Report, TypeOK
<1>4. /\ child' = child /\ base' = base /\ team' = team /\ pending' = pending /\ pc' = pc
      /\ root' = root /\ rank' = rank /\ idx' = idx /\ saved' = saved
      /\ call' = call /\ calls' = calls
  BY DEF RunChild, walk
<1>5. /\ DOMAIN child = 0 .. Threads - 1 /\ team \subseteq 0 .. Threads - 1
      /\ task \in [0 .. Threads - 1 -> {NoBatch} \cup 0 .. vecs[1].n - 1]
  BY <1>1 DEF TypeOK
<1>6. task' \in [0 .. Threads - 1 -> {NoBatch} \cup 0 .. vecs[1].n - 1]
  BY <1>3, <1>5
<1>7. TypeOK'
  BY <1>1, <1>2, <1>3, <1>4, <1>5, <1>6 DEF TypeOK
<1>8. Where'
  BY <1>1, <1>2, <1>4 DEF Where
<1>9. Holding'
  <2>1. task'[t] = NoBatch /\ \A u \in 0 .. Threads - 1 : u # t => task'[u] = task[u]
    BY <1>3, <1>5
  <2> QED BY <1>1, <1>2, <1>4, <1>5, <2>1 DEF Holding, OwnBatch
<1> QED BY <1>2, <1>7, <1>8, <1>9 DEF IInv

LEMMA JoinKeeps ==
    ASSUME IInv, Join
    PROVE  IInv'
<1>1. LoopsTyped /\ TypeOK /\ UNCHANGED data /\ Holding /\ rank = 1
      /\ \A t \in team : task[t] = NoBatch
  BY DEF IInv, Join, Where
<1>2. LoopsTyped' /\ VecRank' = VecRank /\ Threads' = Threads /\ ask' = ask /\ vecs' = vecs
  BY <1>1, DataKept
<1>3. VecRank \in Nat \ {0}
  BY <1>1, Typed
<1>4. /\ team' = {} /\ rank' = 2 /\ pc' \in {"done", "climb"}
      /\ pc' = "climb" => VecRank # 1
  BY <1>1 DEF Join
<1>5. /\ root' = root /\ child' = child /\ idx' = idx /\ saved' = saved /\ base' = base
      /\ pending' = pending /\ task' = task /\ call' = call /\ calls' = calls
      /\ status' = status /\ broken' = broken
  BY DEF Join, result
<1>6. TypeOK'
  BY <1>1, <1>2, <1>3, <1>4, <1>5 DEF TypeOK
<1>7. Where'
  BY <1>2, <1>3, <1>4 DEF Where
<1>8. Holding'
  BY <1>1, <1>2, <1>4, <1>5 DEF Holding, OwnBatch
<1> QED BY <1>2, <1>6, <1>7, <1>8 DEF IInv

LEMMA BatchFailsKeeps ==
    ASSUME IInv, BatchFails
    PROVE  IInv'
<1>1. LoopsTyped /\ TypeOK /\ UNCHANGED data /\ Holding /\ team = {}
  BY DEF IInv, Holding, BatchFails
<1>2. LoopsTyped' /\ VecRank' = VecRank /\ Threads' = Threads /\ ask' = ask /\ vecs' = vecs
  BY <1>1, DataKept
<1>3. /\ broken' = TRUE /\ status' = "failure" /\ pc' = "done"
      /\ root' = root /\ child' = child /\ rank' = rank /\ idx' = idx /\ saved' = saved
      /\ base' = base /\ team' = team /\ pending' = pending /\ task' = task
      /\ call' = call /\ calls' = calls
  BY DEF BatchFails, walk, region
<1>4. TypeOK'
  BY <1>1, <1>2, <1>3 DEF TypeOK
<1>5. Where' /\ Holding'
  BY <1>1, <1>2, <1>3, NoTeam DEF Where
<1> QED BY <1>2, <1>4, <1>5 DEF IInv

LEMMA SizeOneKeeps ==
    ASSUME IInv, SizeOne
    PROVE  IInv'
<1>1. LoopsTyped /\ TypeOK /\ UNCHANGED data /\ Holding /\ team = {}
  BY DEF IInv, Holding, SizeOne
<1>2. LoopsTyped' /\ VecRank' = VecRank /\ Threads' = Threads /\ ask' = ask /\ vecs' = vecs
  BY <1>1, DataKept
<1>3. /\ pc' = "done" /\ child' = child /\ rank' = rank /\ idx' = idx /\ saved' = saved
      /\ base' = base /\ team' = team /\ pending' = pending /\ task' = task
      /\ call' = call /\ calls' = calls /\ status' = status /\ broken' = broken
  BY DEF SizeOne, walk, region
<1>4. root' \in Position
  <2>1. VecRank \in Nat \ {0} /\ vecs[VecRank] \in Loop /\ vecs[VecRank].n \in Int
    BY <1>1, Typed
  <2>2. root \in Position /\ Move(root, vecs[VecRank], vecs[VecRank].n) \in Position
    BY <1>1, <2>1, MoveType DEF TypeOK
  <2>3. root' = root \/ root' = Move(root, vecs[VecRank], vecs[VecRank].n)
    BY DEF SizeOne
  <2> QED BY <2>2, <2>3
<1>5. TypeOK'
  BY <1>1, <1>2, <1>3, <1>4 DEF TypeOK
<1>6. Where' /\ Holding'
  BY <1>1, <1>2, <1>3, NoTeam DEF Where
<1> QED BY <1>2, <1>5, <1>6 DEF IInv

LEMMA ReturnKeeps ==
    ASSUME IInv, Return
    PROVE  IInv'
<1>1. LoopsTyped /\ TypeOK /\ UNCHANGED data /\ Holding /\ team = {}
  BY DEF IInv, Holding, Return
<1>2. LoopsTyped' /\ VecRank' = VecRank /\ Threads' = Threads /\ ask' = ask /\ vecs' = vecs
  BY <1>1, DataKept
<1>3. /\ pc' = "idle" /\ rank' = 0 /\ root' = root /\ child' = child /\ idx' = idx /\ saved' = saved
      /\ base' = base /\ team' = team /\ pending' = pending /\ task' = task
      /\ call' = call /\ calls' = calls /\ status' = status /\ broken' = broken
  BY DEF Return, region, result
<1>4. 0 \in 0 .. VecRank + 1
  BY <1>1, Typed
<1>5. TypeOK'
  BY <1>1, <1>2, <1>3, <1>4 DEF TypeOK
<1>6. Where' /\ Holding'
  BY <1>1, <1>2, <1>3, NoTeam DEF Where
<1> QED BY <1>2, <1>5, <1>6 DEF IInv

LEMMA NextInv == IInv /\ [Next]_vars => IInv'
<1> SUFFICES ASSUME IInv, [Next]_vars
             PROVE  IInv'
  OBVIOUS
<1>1. CASE UNCHANGED vars
  <2>1. UNCHANGED data /\ LoopsTyped /\ TypeOK /\ Where /\ Holding
    BY <1>1 DEF vars, data, IInv
  <2>2. LoopsTyped' /\ VecRank' = VecRank /\ Threads' = Threads
    BY <2>1, DataKept
  <2>3. TypeOK'
    BY <1>1, <2>1, <2>2 DEF vars, TypeOK
  <2>4. Where' /\ Holding'
    BY <1>1, <2>1, <2>2 DEF vars, Where, Holding, OwnBatch
  <2> QED BY <2>2, <2>3, <2>4 DEF IInv
<1>2. CASE Execute
  <2>1. root' \in Position /\ call' \in Bufs
    BY <1>2 DEF Execute, IInv, TypeOK
  <2> QED BY <1>2, <2>1, EnterKeeps DEF Execute
<1>3. CASE ExecuteIO
  <2>1. root' \in Position
    BY <1>3 DEF ExecuteIO, Start, Position
  <2> QED BY <1>3, <2>1, EnterKeeps DEF ExecuteIO
<1>4. CASE Solve
  BY <1>4, DescendKeeps, RunBatchKeeps, BatchFailsKeeps, ForkKeeps, JoinKeeps, ClimbKeeps,
     SizeOneKeeps, ReturnKeeps, TakeBatchKeeps, RunChildKeeps DEF Solve
<1> QED BY <1>1, <1>2, <1>3, <1>4 DEF Next

LEMMA Invariant == Spec => []IInv
<1> QED BY InitInv, NextInv, PTL DEF Spec

(* Every variable keeps its type and no loop counter reaches its bound.     *)
THEOREM TypeCorrect == Spec => []TypeOK
<1>1. IInv => TypeOK
  BY DEF IInv
<1> QED BY <1>1, Invariant, PTL

(* A thread finds in its clone's pointers the batch it took, and no two     *)
(* threads hold one batch, for any number of threads and batches.           *)
THEOREM BatchesAreOwn == Spec => []OwnBatch
<1>1. IInv => OwnBatch
  BY DEF IInv, Holding
<1> QED BY <1>1, Invariant, PTL

(* The plan's root points at the start of the last call's buffers.          *)
AtStart == root = Start(call) /\ (pc = "sizeone" => ask.size1)
           /\ ask \in Problems /\ (ask.size1 => vecs = fuse_vecs(ask.vecs, ask.fuseFirst))

LEMMA InitAtStart == Init => AtStart
BY DEF Init, AtStart, SetupVecs

LEMMA NextAtStart ==
    ASSUME SizeOneFuses, AtStart, [Next]_vars
    PROVE  AtStart'
<1>1. ask' = ask /\ vecs' = vecs
  BY DEF Next, Solve, vars, data, Execute, ExecuteIO, Enter, Descend, RunBatch, BatchFails,
         Fork, Join, Climb, SizeOne, Return, TakeBatch, RunChild
<1>2. CASE SizeOne
  <2>1. VecRank = 1
    BY <1>2 DEF SizeOne, SizeOneFuses, AtStart, VecRank
  <2>2. root' = root /\ call' = call /\ pc' = "done"
    BY <1>2, <2>1 DEF SizeOne
  <2> QED BY <1>1, <2>2 DEF AtStart, Start
<1>3. CASE Execute \/ ExecuteIO
  BY <1>1, <1>3 DEF Execute, ExecuteIO, Enter, AtStart, Start
<1>4. CASE UNCHANGED <<root, call>> /\ (pc' = pc \/ pc' # "sizeone")
  BY <1>1, <1>4 DEF AtStart, Start
<1>5. \/ SizeOne \/ Execute \/ ExecuteIO
      \/ UNCHANGED <<root, call>> /\ (pc' = pc \/ pc' # "sizeone")
  BY DEF Next, Solve, vars, Descend, RunBatch, BatchFails, Fork, Join, Climb, Return,
         TakeBatch, RunChild, Iterated
<1> QED BY <1>2, <1>3, <1>4, <1>5

(* Between calls the root points at the start of the buffers of the last    *)
(* call, where the loops of every size-one problem fuse into one: the       *)
(* size-one solver's own outer loops are what moves it elsewhere.           *)
THEOREM RootStays ==
    ASSUME SizeOneFuses
    PROVE  Spec => []RootKept
<1>1. AtStart /\ [Next]_vars => AtStart'
  BY NextAtStart
<1>2. AtStart => RootKept
  BY DEF AtStart, RootKept
<1> QED BY <1>1, <1>2, InitAtStart, PTL DEF Spec

-----------------------------------------------------------------------------
(* The indices of the loops, and the position each names: the end of a path *)
(* that takes the loops one by one.                                         *)
Indices(vs) == {k \in [1..Len(vs) -> Nat] : \A i \in 1..Len(vs) : k[i] < vs[i].n}

IsPath(vs, p, k, f) ==
    /\ f[0] = p
    /\ \A i \in 1..Len(vs) : f[i] = Move(f[i - 1], vs[i], k[i])

Path(vs, p, k) == CHOOSE f : IsPath(vs, p, k, f)

At(vs, p, k) == Path(vs, p, k)[Len(vs)]

LEMMA PathExists ==
    ASSUME NEW vs, Len(vs) \in Nat, NEW p, NEW k
    PROVE  IsPath(vs, p, k, Path(vs, p, k))
<1> DEFINE A(f, m) == f[0] = p /\ \A i \in 1..m : f[i] = Move(f[i - 1], vs[i], k[i])
           T == {m \in Nat : \E f : A(f, m)}
<1>1. 0 \in T
  <2> DEFINE f == [i \in 0..0 |-> p]
  <2>1. A(f, 0)
    OBVIOUS
  <2> QED BY <2>1
<1>2. ASSUME NEW m \in Nat, m \in T
      PROVE  m + 1 \in T
  <2>1. PICK f : A(f, m)
    BY <1>2
  <2> DEFINE g == [i \in 0 .. m + 1 |-> IF i = m + 1 THEN Move(f[m], vs[m + 1], k[m + 1]) ELSE f[i]]
  <2>2. g[0] = p /\ g[m + 1] = Move(f[m], vs[m + 1], k[m + 1]) /\ \A i \in 0..m : g[i] = f[i]
    BY <2>1
  <2> HIDE DEF g
  <2>3. \A i \in 1 .. m + 1 : i \in 1..m \/ (i = m + 1 /\ i - 1 = m)
    OBVIOUS
  <2>4. \A i \in 1..m : i \in 0..m /\ i - 1 \in 0..m
    OBVIOUS
  <2>5. m \in 0..m
    OBVIOUS
  <2>6. ASSUME NEW i \in 1 .. m + 1
        PROVE  g[i] = Move(g[i - 1], vs[i], k[i])
    BY <2>1, <2>2, <2>3, <2>4, <2>5
  <2>7. A(g, m + 1)
    BY <2>2, <2>6
  <2> QED BY <2>7
<1> HIDE DEF T
<1>3. Len(vs) \in T
  BY <1>1, <1>2, Induction
<1>4. \E f : IsPath(vs, p, k, f)
  BY <1>3 DEF T, IsPath
<1> QED BY <1>4 DEF Path

LEMMA PathType ==
    ASSUME NEW vs \in Seq(Loop), NEW p \in Position, NEW k \in [1..Len(vs) -> Int],
           NEW f, IsPath(vs, p, k, f)
    PROVE  \A i \in 0..Len(vs) : f[i] \in Position
<1> DEFINE T == {m \in Nat : m <= Len(vs) => f[m] \in Position}
<1>1. 0 \in T
  BY DEF IsPath
<1>2. ASSUME NEW m \in Nat, m \in T
      PROVE  m + 1 \in T
  <2>1. CASE m + 1 <= Len(vs)
    <3>1. m + 1 \in 1..Len(vs) /\ (m + 1) - 1 = m /\ vs[m + 1] \in Loop /\ k[m + 1] \in Int
          /\ f[m] \in Position
      BY <1>2, <2>1
    <3>2. f[m + 1] = Move(f[m], vs[m + 1], k[m + 1])
      BY <3>1 DEF IsPath
    <3>3. f[m + 1] \in Position
      BY <3>1, <3>2, MoveType
    <3> QED BY <3>3
  <2> QED BY <2>1
<1> HIDE DEF T
<1>3. \A n \in Nat : n \in T
  BY <1>1, <1>2, Induction
<1> QED BY <1>3 DEF T

LEMMA PathsAgree ==
    ASSUME NEW vs, Len(vs) \in Nat, NEW p, NEW k, NEW l, NEW f, NEW g,
           IsPath(vs, p, k, f), IsPath(vs, p, l, g),
           NEW n \in 0..Len(vs), \A i \in 1..n : k[i] = l[i]
    PROVE  f[n] = g[n]
<1> DEFINE T == {m \in Nat : m <= n => f[m] = g[m]}
<1>1. 0 \in T
  BY DEF IsPath
<1>2. ASSUME NEW m \in Nat, m \in T
      PROVE  m + 1 \in T
  <2>1. CASE m + 1 <= n
    <3>1. m + 1 \in 1..Len(vs) /\ (m + 1) - 1 = m /\ m + 1 \in 1..n /\ f[m] = g[m]
      BY <1>2, <2>1
    <3>2. f[m + 1] = Move(f[m], vs[m + 1], k[m + 1]) /\ g[m + 1] = Move(g[m], vs[m + 1], l[m + 1])
      BY <3>1 DEF IsPath
    <3>3. f[m + 1] = g[m + 1]
      BY <3>1, <3>2
    <3> QED BY <3>3
  <2> QED BY <2>1
<1> HIDE DEF T
<1>3. n \in T
  BY <1>1, <1>2, Induction
<1> QED BY <1>3 DEF T

(* Another iteration of one loop moves the position along that loop.        *)
LEMMA AtBump ==
    ASSUME NEW vs \in Seq(Loop), NEW p \in Position, NEW k \in [1..Len(vs) -> Int],
           NEW r \in 1..Len(vs), NEW d \in Int,
           NEW l \in [1..Len(vs) -> Int], l[r] = k[r] + d,
           \A i \in 1..Len(vs) : i # r => l[i] = k[i]
    PROVE  At(vs, p, l) = Move(At(vs, p, k), vs[r], d)
<1> DEFINE f == Path(vs, p, k)
           g == Path(vs, p, l)
           n == Len(vs)
<1>0. n \in Nat
  OBVIOUS
<1>1. IsPath(vs, p, k, f) /\ IsPath(vs, p, l, g)
  BY <1>0, PathExists
<1> HIDE DEF f, g
<1>2. \A i \in 0..n : f[i] \in Position
  BY <1>1, PathType
<1> HIDE DEF n
<1>3. r \in 1..n /\ \A i \in 1..n : vs[i] \in Loop /\ k[i] \in Int /\ l[i] \in Int
  BY DEF n
<1>4. l[r] = k[r] + d /\ \A i \in 1..n : i # r => l[i] = k[i]
  BY DEF n
<1>5. /\ \A i \in 1..n : f[i] = Move(f[i - 1], vs[i], k[i])
      /\ \A i \in 1..n : g[i] = Move(g[i - 1], vs[i], l[i])
  BY <1>1 DEF IsPath, n
<1>6. f[r - 1] = g[r - 1]
  <2>1. r - 1 \in 0..Len(vs) /\ \A i \in 1 .. r - 1 : i \in 1..n /\ i # r
    BY <1>0, <1>3 DEF n
  <2>2. \A i \in 1 .. r - 1 : k[i] = l[i]
    BY <1>4, <2>1
  <2> DEFINE m == r - 1
  <2>3. m \in 0..Len(vs) /\ Len(vs) \in Nat /\ \A i \in 1..m : k[i] = l[i]
    BY <2>1, <2>2
  <2> HIDE DEF m
  <2>4. f[m] = g[m]
    BY <1>1, <2>3, PathsAgree
  <2> QED BY <2>4 DEF m
<1>7. g[r] = Move(f[r], vs[r], d)
  <2>1. r - 1 \in 0..n
    BY <1>0, <1>3
  <2>2. g[r] = Move(f[r - 1], vs[r], k[r] + d)
    BY <1>3, <1>4, <1>5, <1>6
  <2>3. Move(Move(f[r - 1], vs[r], k[r]), vs[r], d) = Move(f[r - 1], vs[r], k[r] + d)
    BY <1>2, <1>3, <2>1, MoveMove
  <2> QED BY <1>3, <1>5, <2>2, <2>3
<1> DEFINE T == {m \in Nat : r + m <= n => g[r + m] = Move(f[r + m], vs[r], d)}
<1>8. 0 \in T
  <2>1. r + 0 = r
    BY <1>3
  <2> QED BY <1>7, <2>1
<1>9. ASSUME NEW m \in Nat, m \in T
      PROVE  m + 1 \in T
  <2> DEFINE i == r + (m + 1)
  <2>1. CASE i <= n
    <3>1. i \in 1..n /\ i - 1 = r + m /\ r + m <= n /\ i # r /\ r + m \in 0..n
      BY <1>0, <1>3, <2>1
    <3>2. g[r + m] = Move(f[r + m], vs[r], d)
      BY <1>9, <3>1
    <3> HIDE DEF i
    <3>3. g[i] = Move(Move(f[r + m], vs[r], d), vs[i], k[i])
      BY <1>4, <1>5, <3>1, <3>2
    <3>4. Move(Move(f[r + m], vs[r], d), vs[i], k[i]) = Move(Move(f[r + m], vs[i], k[i]), vs[r], d)
      BY <1>2, <1>3, <3>1, MoveMove
    <3>5. f[i] = Move(f[r + m], vs[i], k[i])
      BY <1>5, <3>1
    <3>6. g[i] = Move(f[i], vs[r], d)
      BY <3>3, <3>4, <3>5
    <3> QED BY <3>6 DEF i
  <2> QED BY <2>1
<1> HIDE DEF T
<1>10. n - r \in T
  <2>1. n - r \in Nat
    BY <1>0, <1>3
  <2> QED BY <1>8, <1>9, <2>1, Induction
<1>11. g[n] = Move(f[n], vs[r], d)
  <2>1. r + (n - r) = n
    BY <1>0, <1>3
  <2> QED BY <1>0, <1>10, <2>1 DEF T
<1> QED BY <1>11 DEF At, f, g, n

LEMMA AtZero ==
    ASSUME NEW vs \in Seq(Loop), NEW p \in Position
    PROVE  At(vs, p, [i \in 1..Len(vs) |-> 0]) = p
<1> DEFINE k == [i \in 1..Len(vs) |-> 0]
           f == Path(vs, p, k)
<1>0. Len(vs) \in Nat /\ \A i \in 1..Len(vs) : k[i] = 0 /\ vs[i] \in Loop
  OBVIOUS
<1>1. IsPath(vs, p, k, f)
  BY <1>0, PathExists
<1> HIDE DEF f
<1> DEFINE T == {m \in Nat : m <= Len(vs) => f[m] = p}
<1>2. 0 \in T
  BY <1>1 DEF IsPath
<1>3. ASSUME NEW m \in Nat, m \in T
      PROVE  m + 1 \in T
  <2>1. CASE m + 1 <= Len(vs)
    <3>1. m + 1 \in 1..Len(vs) /\ (m + 1) - 1 = m /\ f[m] = p
      BY <1>3, <2>1
    <3>2. f[m + 1] = Move(p, vs[m + 1], 0)
      BY <1>0, <1>1, <3>1 DEF IsPath
    <3>3. f[m + 1] = p
      BY <1>0, <3>1, <3>2, MoveMove
    <3> QED BY <3>3
  <2> QED BY <2>1
<1> HIDE DEF T
<1>4. Len(vs) \in T
  BY <1>0, <1>2, <1>3, Induction
<1> QED BY <1>0, <1>4 DEF T, At, f

LEMMA AtType ==
    ASSUME NEW vs \in Seq(Loop), NEW p \in Position, NEW k \in [1..Len(vs) -> Int]
    PROVE  At(vs, p, k) \in Position
<1>1. Len(vs) \in 0..Len(vs) /\ Len(vs) \in Nat
  OBVIOUS
<1>2. IsPath(vs, p, k, Path(vs, p, k))
  BY <1>1, PathExists
<1> QED BY <1>1, <1>2, PathType DEF At

(* The positions loops 1 .. n reach are the ends of the paths of length n.  *)
LEMMA PathsReach ==
    ASSUME NEW vs \in Seq(Loop), NEW p, NEW f, Steps(vs, p, f), NEW n \in 0..Len(vs)
    PROVE  f[n] = {Path(vs, p, k)[n] : k \in Indices(vs)}
<1> DEFINE E(m) == {Path(vs, p, k)[m] : k \in Indices(vs)}
           T == {m \in Nat : m <= Len(vs) => f[m] = E(m)}
<1>0. /\ Len(vs) \in Nat /\ \A i \in 1..Len(vs) : vs[i].n \in Nat \ {0}
      /\ \A k \in Indices(vs) : IsPath(vs, p, k, Path(vs, p, k))
  <2>1. Len(vs) \in Nat /\ \A i \in 1..Len(vs) : vs[i] \in Loop
    OBVIOUS
  <2>2. \A v \in Loop : v.n \in Nat \ {0}
    BY DEF Loop
  <2> QED BY <2>1, <2>2, PathExists
<1>1. 0 \in T
  <2>1. \A k \in Indices(vs) : Path(vs, p, k)[0] = p
    BY <1>0 DEF IsPath
  <2>2. [i \in 1..Len(vs) |-> 0] \in Indices(vs)
    BY <1>0 DEF Indices
  <2>3. f[0] = {p}
    BY DEF Steps
  <2> QED BY <2>1, <2>2, <2>3
<1>2. ASSUME NEW m \in Nat, m \in T
      PROVE  m + 1 \in T
  <2>1. CASE m + 1 <= Len(vs)
    <3>1. m + 1 \in 1..Len(vs) /\ (m + 1) - 1 = m /\ f[m] = E(m) /\ m \in 0..Len(vs)
      BY <1>2, <2>1
    <3>2. f[m + 1] = Spread(f[m], vs[m + 1])
      BY <3>1 DEF Steps
    <3>3. \A k \in Indices(vs) : Path(vs, p, k)[m + 1] = Move(Path(vs, p, k)[m], vs[m + 1], k[m + 1])
      BY <1>0, <3>1 DEF IsPath
    <3>4. ASSUME NEW k \in Indices(vs)
          PROVE  Path(vs, p, k)[m + 1] \in f[m + 1]
      <4>1. Path(vs, p, k)[m] \in f[m] /\ k[m + 1] \in 0 .. vs[m + 1].n - 1
        <5>1. k[m + 1] \in Nat /\ k[m + 1] < vs[m + 1].n
          BY <3>1 DEF Indices
        <5>2. vs[m + 1].n \in Nat
          BY <1>0, <3>1
        <5>3. k[m + 1] \in 0 .. vs[m + 1].n - 1
          BY <5>1, <5>2
        <5>4. Path(vs, p, k)[m] \in E(m)
          OBVIOUS
        <5> QED BY <3>1, <5>3, <5>4
      <4> QED BY <3>2, <3>3, <4>1 DEF Spread
    <3>5. ASSUME NEW q \in f[m + 1]
          PROVE  q \in E(m + 1)
      <4>1. PICK q0 \in f[m], j \in 0 .. vs[m + 1].n - 1 : q = Move(q0, vs[m + 1], j)
        BY <3>2 DEF Spread
      <4>2. PICK k \in Indices(vs) : q0 = Path(vs, p, k)[m]
        BY <3>1
      <4> DEFINE l == [k EXCEPT ![m + 1] = j]
      <4>3. l \in Indices(vs) /\ l[m + 1] = j /\ \A i \in 1..m : k[i] = l[i]
        BY <1>0, <3>1 DEF Indices
      <4> HIDE DEF l
      <4>4. Path(vs, p, k)[m] = Path(vs, p, l)[m]
        <5>1. IsPath(vs, p, k, Path(vs, p, k)) /\ IsPath(vs, p, l, Path(vs, p, l))
          BY <1>0, <4>3
        <5> QED BY <1>0, <3>1, <4>3, <5>1, PathsAgree
      <4>5. Path(vs, p, l)[m + 1] = q
        BY <3>3, <4>1, <4>2, <4>3, <4>4
      <4> QED BY <4>3, <4>5
    <3> QED BY <3>4, <3>5
  <2> QED BY <2>1
<1> HIDE DEF T
<1>3. n \in T
  BY <1>0, <1>1, <1>2, Induction
<1> QED BY <1>0, <1>3 DEF T

LEMMA AtReach ==
    ASSUME NEW vs \in Seq(Loop), NEW p
    PROVE  Reach(vs, p) = {At(vs, p, k) : k \in Indices(vs)}
<1>1. PICK f : Steps(vs, p, f) /\ Reach(vs, p) = f[Len(vs)]
  BY ReachSteps
<1>2. Len(vs) \in 0..Len(vs)
  OBVIOUS
<1> QED BY <1>1, <1>2, PathsReach DEF At

(* Loops that name no position twice name a different one for every index.  *)
LEMMA AtInjective ==
    ASSUME NEW vs \in Seq(Loop), NEW p \in Position, LoopsApart(vs, p),
           NEW k \in Indices(vs), NEW l \in Indices(vs), At(vs, p, k) = At(vs, p, l)
    PROVE  k = l
<1> DEFINE n == Len(vs)
           f == Path(vs, p, k)
           g == Path(vs, p, l)
<1>0. n \in Nat /\ IsPath(vs, p, k, f) /\ IsPath(vs, p, l, g) /\ f[n] = g[n]
  <2>1. n \in Nat
    OBVIOUS
  <2> QED BY <2>1, PathExists DEF At
<1> DEFINE T == {m \in Nat : m <= n => f[n - m] = g[n - m] /\ \A i \in n - m + 1 .. n : k[i] = l[i]}
<1>1. 0 \in T
  <2>1. n - 0 = n /\ n - 0 + 1 .. n = {}
    BY <1>0
  <2> QED BY <1>0, <2>1
<1>2. ASSUME NEW m \in Nat, m \in T
      PROVE  m + 1 \in T
  <2>1. CASE m + 1 <= n
    <3> DEFINE r == n - m
    <3>1. r \in 1..n /\ n - (m + 1) = r - 1 /\ r - 1 \in 0..n
      BY <1>0, <2>1
    <3>2. f[r] = g[r] /\ \A i \in r + 1 .. n : k[i] = l[i]
      BY <1>2, <2>1
    <3> HIDE DEF r, n, f, g
    <3>3. f[r] = Move(f[r - 1], vs[r], k[r]) /\ g[r] = Move(g[r - 1], vs[r], l[r])
      BY <1>0, <3>1 DEF IsPath, n
    <3>4. Disjoint(Reach(SubSeq(vs, 1, r - 1), p), vs[r])
      BY <3>1 DEF LoopsApart, n
    <3>5. f[r - 1] \in Reach(SubSeq(vs, 1, r - 1), p) /\ g[r - 1] \in Reach(SubSeq(vs, 1, r - 1), p)
      <4> DEFINE ws == SubSeq(vs, 1, r - 1)
      <4>1. /\ ws \in Seq(Loop) /\ Len(ws) = r - 1 /\ \A i \in 1 .. r - 1 : vs[i] = ws[i]
            /\ r - 1 \in Nat /\ r - 1 <= Len(vs) /\ r - 1 <= Len(ws)
        BY <1>0, <3>1 DEF n
      <4> HIDE DEF ws
      <4>2. PICK e : Steps(ws, p, e) /\ Reach(ws, p) = e[r - 1]
        BY <4>1, ReachSteps
      <4>3. PICK h : Steps(vs, p, h) /\ Reach(vs, p) = h[Len(vs)]
        BY ReachSteps
      <4>4. h[r - 1] = e[r - 1]
        <5> DEFINE m1 == r - 1
        <5>1. m1 \in Nat /\ m1 <= Len(vs) /\ m1 <= Len(ws) /\ \A i \in 1..m1 : vs[i] = ws[i]
          BY <4>1
        <5> HIDE DEF m1
        <5>2. h[m1] = e[m1]
          BY <4>1, <4>2, <4>3, <5>1, StepsAgree
        <5> QED BY <5>2 DEF m1
      <4>5. h[r - 1] = {Path(vs, p, j)[r - 1] : j \in Indices(vs)}
        <5> DEFINE m1 == r - 1
        <5>1. m1 \in 0..Len(vs)
          BY <3>1 DEF n
        <5> HIDE DEF m1
        <5>2. h[m1] = {Path(vs, p, j)[m1] : j \in Indices(vs)}
          BY <4>3, <5>1, PathsReach
        <5> QED BY <5>2 DEF m1
      <4> QED BY <4>2, <4>4, <4>5 DEF ws, f, g
    <3>6. k[r] \in 0 .. vs[r].n - 1 /\ l[r] \in 0 .. vs[r].n - 1
      <4>1. vs[r] \in Loop /\ k[r] \in Nat /\ k[r] < vs[r].n /\ l[r] \in Nat /\ l[r] < vs[r].n
        BY <3>1 DEF Indices, n
      <4>2. vs[r].n \in Nat
        BY <4>1 DEF Loop
      <4> QED BY <4>1, <4>2
    <3>7. f[r - 1] = g[r - 1] /\ k[r] = l[r]
      <4>1. Move(f[r - 1], vs[r], k[r]) = Move(g[r - 1], vs[r], l[r])
        BY <3>2, <3>3
      <4> DEFINE q1 == f[r - 1]
                 q2 == g[r - 1]
                 P  == Reach(SubSeq(vs, 1, r - 1), p)
      <4>2. q1 \in P /\ q2 \in P /\ Move(q1, vs[r], k[r]) = Move(q2, vs[r], l[r]) /\ Disjoint(P, vs[r])
        BY <3>4, <3>5, <4>1
      <4> HIDE DEF q1, q2, P
      <4>3. q1 = q2 /\ k[r] = l[r]
        BY <3>6, <4>2, Zenon DEF Disjoint
      <4> QED BY <4>3 DEF q1, q2
    <3>8. \A i \in r .. n : i = r \/ i \in r + 1 .. n
      BY <1>0, <3>1
    <3>9. \A i \in r .. n : k[i] = l[i]
      BY <3>2, <3>7, <3>8
    <3>10. n - (m + 1) + 1 = r
      BY <1>0, <3>1 DEF r
    <3> QED BY <3>1, <3>7, <3>9, <3>10
  <2> QED BY <2>1
<1> HIDE DEF T
<1>3. n \in T
  BY <1>0, <1>1, <1>2, Induction
<1>4. \A i \in 1..n : k[i] = l[i]
  <2>1. n - n + 1 = 1
    BY <1>0
  <2> QED BY <1>0, <1>3, <2>1 DEF T
<1> QED BY <1>4 DEF Indices

(* The indices the walk has finished when it starts iteration c of the      *)
(* loops from r outwards, and when it has finished that iteration too.      *)
Alike(c, k, r, n) == \A s \in r..n : k[s] = c[s]
Earlier(c, k, r, n) == \E q \in r..n : k[q] < c[q] /\ Alike(c, k, q + 1, n)
Before(vs, c, r) == {k \in Indices(vs) : Earlier(c, k, r, Len(vs))}
Upto(vs, c, r) ==
    {k \in Indices(vs) : Earlier(c, k, r, Len(vs)) \/ Alike(c, k, r, Len(vs))}

LEMMA IndexType ==
    ASSUME NEW vs \in Seq(Loop), NEW k \in Indices(vs)
    PROVE  /\ Len(vs) \in Nat /\ k \in [1..Len(vs) -> Nat] /\ k \in [1..Len(vs) -> Int]
           /\ \A i \in 1..Len(vs) : k[i] \in Nat /\ vs[i].n \in Nat \ {0} /\ k[i] < vs[i].n
<1>1. \A i \in 1..Len(vs) : vs[i] \in Loop
  OBVIOUS
<1>2. \A i \in 1..Len(vs) : vs[i].n \in Nat \ {0}
  BY <1>1 DEF Loop
<1>3. k \in [1..Len(vs) -> Nat] /\ \A i \in 1..Len(vs) : k[i] \in Nat /\ k[i] < vs[i].n
  BY DEF Indices
<1>4. k \in [1..Len(vs) -> Int]
  BY <1>3
<1> QED BY <1>2, <1>3, <1>4

(* An index is earlier from loop r outwards if it is from the next loop on, *)
(* or is in loop r and alike beyond.                                        *)
LEMMA EarlierIs ==
    ASSUME NEW c, NEW k, NEW n \in Nat, NEW r \in 1..n
    PROVE  /\ Earlier(c, k, r, n) <=> Earlier(c, k, r + 1, n)
                                      \/ (k[r] < c[r] /\ Alike(c, k, r + 1, n))
           /\ Alike(c, k, r, n) <=> k[r] = c[r] /\ Alike(c, k, r + 1, n)
<1>1. r..n = {r} \cup (r + 1 .. n)
  OBVIOUS
<1> QED BY <1>1 DEF Earlier, Alike

LEMMA EarlierSame ==
    ASSUME NEW c, NEW e, NEW k, NEW n \in Nat, NEW r \in Nat, \A s \in r..n : c[s] = e[s]
    PROVE  /\ Earlier(c, k, r, n) <=> Earlier(e, k, r, n)
           /\ Alike(c, k, r, n) <=> Alike(e, k, r, n)
<1>1. Alike(c, k, r, n) <=> Alike(e, k, r, n)
  BY DEF Alike
<1>2. \A q \in r..n : Alike(c, k, q + 1, n) <=> Alike(e, k, q + 1, n)
  BY DEF Alike
<1>3. Earlier(c, k, r, n) <=> Earlier(e, k, r, n)
  BY <1>2 DEF Earlier
<1> QED BY <1>1, <1>3

LEMMA NothingBeyond ==
    ASSUME NEW c, NEW k, NEW n \in Nat
    PROVE  ~ Earlier(c, k, n + 1, n) /\ Alike(c, k, n + 1, n)
<1>1. n + 1 .. n = {}
  OBVIOUS
<1> QED BY <1>1 DEF Earlier, Alike

LEMMA BeforeInner ==
    ASSUME NEW vs \in Seq(Loop), NEW c, NEW r \in 2..Len(vs), c[r - 1] = 0
    PROVE  Before(vs, c, r - 1) = Before(vs, c, r)
<1> DEFINE m == r - 1
<1>1. m \in 1..Len(vs) /\ m + 1 = r /\ Len(vs) \in Nat
  OBVIOUS
<1> HIDE DEF m
<1>2. ASSUME NEW k \in Indices(vs)
      PROVE  Earlier(c, k, m, Len(vs)) <=> Earlier(c, k, r, Len(vs))
  <2>1. k[m] \in Nat /\ ~ (k[m] < c[m])
    BY <1>1, IndexType DEF m
  <2> QED BY <1>1, <2>1, EarlierIs
<1> QED BY <1>2 DEF Before, m

LEMMA UptoBump ==
    ASSUME NEW vs \in Seq(Loop), NEW c \in Indices(vs), NEW r \in 1..Len(vs)
    PROVE  Upto(vs, c, r) = Before(vs, [c EXCEPT ![r] = c[r] + 1], r)
<1> DEFINE e == [c EXCEPT ![r] = c[r] + 1]
<1>1. Len(vs) \in Nat /\ c[r] \in Nat /\ e[r] = c[r] + 1 /\ \A s \in r + 1 .. Len(vs) : c[s] = e[s]
  BY IndexType
<1> HIDE DEF e
<1>2. ASSUME NEW k \in Indices(vs)
      PROVE  (Earlier(c, k, r, Len(vs)) \/ Alike(c, k, r, Len(vs))) <=> Earlier(e, k, r, Len(vs))
  <2>1. k[r] \in Nat
    BY IndexType
  <2>2. k[r] < e[r] <=> k[r] < c[r] \/ k[r] = c[r]
    BY <1>1, <2>1
  <2>3. /\ Earlier(c, k, r + 1, Len(vs)) <=> Earlier(e, k, r + 1, Len(vs))
        /\ Alike(c, k, r + 1, Len(vs)) <=> Alike(e, k, r + 1, Len(vs))
    <3>1. r + 1 \in Nat
      OBVIOUS
    <3> QED BY <1>1, <3>1, EarlierSame
  <2> QED BY <1>1, <2>2, <2>3, EarlierIs
<1> QED BY <1>2 DEF Upto, Before, e

LEMMA UptoWrap ==
    ASSUME NEW vs \in Seq(Loop), NEW c \in Indices(vs), NEW r \in 1..Len(vs),
           ~ (c[r] + 1 < vs[r].n), NEW e, \A s \in r + 1 .. Len(vs) : c[s] = e[s]
    PROVE  /\ Upto(vs, c, r) = Upto(vs, e, r + 1)
           /\ r = Len(vs) => Upto(vs, c, r) = Indices(vs)
<1>1. Len(vs) \in Nat /\ c[r] \in Nat /\ vs[r].n \in Nat
  BY IndexType
<1>2. ASSUME NEW k \in Indices(vs)
      PROVE  (Earlier(c, k, r, Len(vs)) \/ Alike(c, k, r, Len(vs)))
                <=> (Earlier(e, k, r + 1, Len(vs)) \/ Alike(e, k, r + 1, Len(vs)))
  <2>1. k[r] < c[r] \/ k[r] = c[r]
    BY <1>1, IndexType
  <2>2. /\ Earlier(c, k, r + 1, Len(vs)) <=> Earlier(e, k, r + 1, Len(vs))
        /\ Alike(c, k, r + 1, Len(vs)) <=> Alike(e, k, r + 1, Len(vs))
    <3>1. r + 1 \in Nat
      OBVIOUS
    <3> QED BY <1>1, <3>1, EarlierSame
  <2> QED BY <1>1, <2>1, <2>2, EarlierIs
<1>3. Upto(vs, c, r) = Upto(vs, e, r + 1)
  BY <1>2 DEF Upto
<1>4. CASE r = Len(vs)
  <2>1. \A k \in Indices(vs) : Alike(e, k, r + 1, Len(vs))
    BY <1>1, <1>4, NothingBeyond
  <2> QED BY <1>3, <2>1 DEF Upto
<1> QED BY <1>3, <1>4

LEMMA UptoIs ==
    ASSUME NEW vs \in Seq(Loop), NEW c \in Indices(vs), Len(vs) > 0
    PROVE  /\ Upto(vs, c, 1) = Before(vs, c, 1) \cup {c}
           /\ c \notin Before(vs, c, 1)
<1>1. Len(vs) \in Nat /\ c \in [1..Len(vs) -> Nat]
  BY IndexType
<1>2. \A k \in Indices(vs) : Alike(c, k, 1, Len(vs)) <=> k = c
  BY <1>1 DEF Alike, Indices
<1>3. ~ Earlier(c, c, 1, Len(vs))
  BY <1>1 DEF Earlier
<1> QED BY <1>2, <1>3 DEF Upto, Before

LEMMA BeforeStart ==
    ASSUME NEW vs \in Seq(Loop), NEW r \in Nat \ {0}
    PROVE  Before(vs, [i \in 1..Len(vs) |-> 0], r) = {}
<1> DEFINE c == [i \in 1..Len(vs) |-> 0]
<1>1. ASSUME NEW k \in Indices(vs)
      PROVE  ~ Earlier(c, k, r, Len(vs))
  <2>1. \A q \in r..Len(vs) : q \in 1..Len(vs) /\ c[q] = 0
    OBVIOUS
  <2>2. \A q \in r..Len(vs) : ~ (k[q] < c[q])
    BY <2>1, IndexType
  <2> QED BY <2>2 DEF Earlier
<1> QED BY <1>1 DEF Before

(* The positions of a set of indices, each once.                            *)
Once(vs, p, D) == SetToBag({At(vs, p, k) : k \in D})

LEMMA BagAdds ==
    ASSUME NEW S, NEW e, e \notin S
    PROVE  SetToBag(S) (+) SetToBag({e}) = SetToBag(S \cup {e})
<1> DEFINE A == SetToBag(S)
           B == SetToBag({e})
<1>1. A = [x \in S |-> 1] /\ B = [x \in {e} |-> 1] /\ SetToBag(S \cup {e}) = [x \in S \cup {e} |-> 1]
  BY DEF SetToBag
<1>2. A (+) B = [x \in DOMAIN A \cup DOMAIN B |->
                   (IF x \in DOMAIN A THEN A[x] ELSE 0) + (IF x \in DOMAIN B THEN B[x] ELSE 0)]
  BY DEF (+)
<1> HIDE DEF A, B
<1>3. DOMAIN A = S /\ DOMAIN B = {e}
  BY <1>1
<1>4. \A x \in S \cup {e} :
        (IF x \in DOMAIN A THEN A[x] ELSE 0) + (IF x \in DOMAIN B THEN B[x] ELSE 0) = 1
  BY <1>1, <1>3
<1>5. A (+) B = [x \in S \cup {e} |-> 1]
  BY <1>2, <1>3, <1>4
<1> QED BY <1>1, <1>5 DEF A, B

LEMMA OnceAdds ==
    ASSUME NEW vs \in Seq(Loop), NEW p \in Position, LoopsApart(vs, p),
           NEW D \in SUBSET Indices(vs), NEW c \in Indices(vs), c \notin D
    PROVE  Once(vs, p, D) (+) SetToBag({At(vs, p, c)}) = Once(vs, p, D \cup {c})
<1> DEFINE S == {At(vs, p, k) : k \in D}
<1>1. At(vs, p, c) \notin S
  BY AtInjective
<1>2. {At(vs, p, k) : k \in D \cup {c}} = S \cup {At(vs, p, c)}
  OBVIOUS
<1> HIDE DEF S
<1> QED BY <1>1, <1>2, BagAdds DEF Once, S

(* Where the walk is: the position its index names, and in the pointers the *)
(* loops from loop r on saved those of their iterations' start, the loops   *)
(* inside them at 0.                                                        *)
Cut(vs, c, q) == [i \in 1..Len(vs) |-> IF i < q THEN 0 ELSE c[i]]
Inner(c, r) == \A i \in 1 .. r - 1 : c[i] = 0
Saved(vs, p, c, sv, r) == \A q \in r..Len(vs) : sv[q] = At(vs, p, Cut(vs, c, q))

Walking == pc \in {"descend", "team", "climb"}

Place ==
    /\ Walking => ask.size1 = FALSE /\ Inner(idx, rank)
    /\ Walking /\ (Multi \/ pc = "team") => idx[1] = 0
    /\ pc = "descend" => /\ child[0] = At(vecs, Start(call), idx)
                         /\ Saved(vecs, Start(call), idx, saved, rank + 1)
    /\ pc = "team" => /\ base = At(vecs, Start(call), idx)
                      /\ Saved(vecs, Start(call), idx, saved, rank + 1)
    /\ pc = "climb" => Saved(vecs, Start(call), idx, saved, rank)

(* What a call that has not failed has transformed: the iterations before   *)
(* the walk's index, and of a region the batches that were taken and run.   *)
Ran == {k \in Indices(vecs) : /\ Alike(idx, k, 2, VecRank)
                              /\ k[1] \notin pending
                              /\ \A t \in team : task[t] # k[1]}
Done(D) == visits = Once(vecs, Start(call), D)

Visited ==
    status = "success" =>
        /\ pc = "descend" => Done(Before(vecs, idx, rank))
        /\ pc = "team" => Done(Before(vecs, idx, 1) \cup Ran)
        /\ pc = "climb" => Done(Upto(vecs, idx, rank))
        /\ pc = "done" => visits = SetToBag(Required(ask, call))

Asked == vecs = SetupVecs(ask, fuse_vecs(ask.vecs, ask.fuseFirst)) /\ ValidInPlace(ask)

VInv == IInv /\ Asked /\ Place /\ Visited

LEMMA WalkType ==
    ASSUME IInv
    PROVE  /\ vecs \in Seq(Loop) /\ Len(vecs) = VecRank /\ VecRank \in Nat \ {0}
           /\ idx \in Indices(vecs) /\ idx \in [1..VecRank -> Nat] /\ idx \in [1..Len(vecs) -> Int]
           /\ Start(call) \in Position /\ ask \in Problems /\ call \in Bufs
           /\ \A r \in 1..VecRank : vecs[r] \in Loop /\ vecs[r].n \in Nat \ {0}
<1>1. LoopsTyped /\ TypeOK
  BY DEF IInv
<1>2. vecs \in Seq(Loop) /\ Len(vecs) = VecRank /\ VecRank \in Nat \ {0}
      /\ \A r \in 1..VecRank : vecs[r] \in Loop /\ vecs[r].n \in Nat \ {0}
  <2>1. vecs \in Seq(Loop) /\ Len(vecs) = VecRank
    BY <1>1 DEF LoopsTyped, VecRank
  <2> QED BY <1>1, <2>1, Typed
<1>3. idx \in Indices(vecs)
  BY <1>1, <1>2 DEF TypeOK, Indices
<1>4. idx \in [1..Len(vecs) -> Int]
  BY <1>2, <1>3, IndexType
<1>5. Start(call) \in Position /\ call \in Bufs
  BY <1>1 DEF TypeOK, Start, Position
<1>6. idx \in [1..VecRank -> Nat] /\ ask \in Problems
  BY <1>1 DEF TypeOK
<1> QED BY <1>2, <1>3, <1>4, <1>5, <1>6

(* The plan's loops name each position the user's name, once.               *)
LEMMA PlanApart ==
    ASSUME ProblemsApart, IInv, Asked, ask.size1 = FALSE
    PROVE  /\ LoopsApart(vecs, Start(call))
           /\ Once(vecs, Start(call), Indices(vecs)) = SetToBag(Required(ask, call))
<1> DEFINE p == Start(call)
           us == AllScaled(ask.vecs, ask.dir)
<1>1. ask \in Problems /\ call \in Bufs /\ p \in Position /\ vecs \in Seq(Loop)
  BY WalkType
<1>2. ask.vecs \in Seq(Loop) /\ ask.vecs # <<>>
  BY <1>1, ProblemsTyped DEF ProblemType
<1>3. vecs = AllScaled(fuse_vecs(ask.vecs, ask.fuseFirst), ask.dir)
  BY DEF Asked, SetupVecs
<1>4. Reach(vecs, p) = Reach(us, p) /\ (LoopsApart(us, p) => LoopsApart(vecs, p))
  <2> HIDE DEF p
  <2> QED BY <1>1, <1>2, <1>3, FusingKeepsPositions
<1>5. LoopsApart(us, p)
  BY <1>1 DEF ProblemsApart
<1>6. Required(ask, call) = Reach(us, p)
  BY DEF Required
<1>7. {At(vecs, p, k) : k \in Indices(vecs)} = Reach(vecs, p)
  <2> HIDE DEF p
  <2> QED BY <1>1, AtReach
<1> QED BY <1>4, <1>5, <1>6, <1>7 DEF Once

(* With the inner loops at their start nothing is cut, and what an outer    *)
(* loop saved does not depend on the loops inside it.                       *)
LEMMA CutSame ==
    ASSUME NEW vs \in Seq(Loop), NEW c \in [1..Len(vs) -> Nat], NEW q \in 1..Len(vs), Inner(c, q)
    PROVE  Cut(vs, c, q) = c
<1>1. \A i \in 1..Len(vs) : i < q => i \in 1 .. q - 1
  OBVIOUS
<1>2. \A i \in 1..Len(vs) : (IF i < q THEN 0 ELSE c[i]) = c[i]
  BY <1>1 DEF Inner
<1> QED BY <1>2 DEF Cut

LEMMA SavedSame ==
    ASSUME NEW vs \in Seq(Loop), NEW p, NEW c, NEW e, NEW sv, NEW r \in Nat \ {0},
           Saved(vs, p, c, sv, r), \A i \in r..Len(vs) : c[i] = e[i]
    PROVE  Saved(vs, p, e, sv, r)
<1> SUFFICES ASSUME NEW q \in r..Len(vs)
             PROVE  Cut(vs, c, q) = Cut(vs, e, q)
  BY DEF Saved
<1>1. \A i \in 1..Len(vs) : ~ (i < q) => i \in r..Len(vs)
  OBVIOUS
<1> QED BY <1>1 DEF Cut

LEMMA IteratedPlace ==
    ASSUME IInv, rank \in 1..VecRank, Iterated, UNCHANGED <<data, call, saved>>,
           ask.size1 = FALSE, Inner(idx, rank), Multi => rank # 1 /\ idx[1] = 0,
           Saved(vecs, Start(call), idx, saved, rank + 1),
           child'[0] = Move(At(vecs, Start(call), idx), vecs[rank], 1)
    PROVE  Place'
<1>1. /\ VecRank' = VecRank /\ vecs' = vecs /\ ask' = ask /\ Start(call)' = Start(call)
      /\ saved' = saved /\ Multi' = Multi
  BY DEF data, VecRank, Start, Multi
<1>2. /\ vecs \in Seq(Loop) /\ Len(vecs) = VecRank /\ VecRank \in Nat \ {0}
      /\ idx \in [1..VecRank -> Nat] /\ idx \in [1..Len(vecs) -> Int] /\ Start(call) \in Position
  BY WalkType
<1>3. idx' \in [1..VecRank -> Nat] /\ \A i \in 1..VecRank : i # rank => idx'[i] = idx[i]
  BY <1>2 DEF Iterated
<1>4. Inner(idx', rank)
  <2>1. \A i \in 1 .. rank - 1 : i \in 1..VecRank /\ i # rank
    BY <1>2
  <2> QED BY <1>3, <2>1 DEF Inner
<1>5. Multi' => idx'[1] = 0
  <2>1. 1 \in 1..VecRank
    BY <1>2
  <2> QED BY <1>1, <1>3, <2>1
<1>6. Saved(vecs, Start(call), idx', saved, rank + 1)
  <2>1. \A i \in rank + 1 .. Len(vecs) : i \in 1..VecRank /\ i # rank
    BY <1>2
  <2>2. \A i \in rank + 1 .. Len(vecs) : idx[i] = idx'[i]
    BY <1>3, <2>1
  <2>3. rank + 1 \in Nat \ {0}
    BY <1>2
  <2> QED BY <1>2, <2>2, <2>3, SavedSame
<1>7. CASE idx[rank] + 1 < vecs[rank].n
  <2>1. rank' = rank /\ pc' = "descend" /\ idx'[rank] = idx[rank] + 1
    BY <1>2, <1>7 DEF Iterated
  <2>2. At(vecs, Start(call), idx') = Move(At(vecs, Start(call), idx), vecs[rank], 1)
    <3>1. idx' \in [1..Len(vecs) -> Int] /\ rank \in 1..Len(vecs) /\ 1 \in Int
          /\ \A i \in 1..Len(vecs) : i # rank => idx'[i] = idx[i]
      BY <1>2, <1>3
    <3>2. PICK e : e = idx'
      OBVIOUS
    <3>3. /\ e \in [1..Len(vecs) -> Int] /\ e[rank] = idx[rank] + 1
          /\ \A i \in 1..Len(vecs) : i # rank => e[i] = idx[i]
      BY <2>1, <3>1, <3>2
    <3>4. At(vecs, Start(call), e) = Move(At(vecs, Start(call), idx), vecs[rank], 1)
      BY <1>2, <3>1, <3>3, AtBump
    <3> QED BY <3>2, <3>4
  <2> QED BY <1>1, <1>4, <1>5, <1>6, <2>1, <2>2 DEF Place
<1>8. CASE ~ (idx[rank] + 1 < vecs[rank].n)
  <2>1. rank' = rank + 1 /\ pc' \in {"done", "climb"} /\ idx'[rank] = 0
    BY <1>2, <1>8 DEF Iterated
  <2>2. Inner(idx', rank')
    <3>1. \A i \in 1 .. rank' - 1 : i = rank \/ i \in 1 .. rank - 1
      BY <1>2, <2>1
    <3> QED BY <1>4, <2>1, <3>1 DEF Inner
  <2> QED BY <1>1, <1>5, <1>6, <2>1, <2>2 DEF Place
<1> QED BY <1>7, <1>8

LEMMA IteratedVisited ==
    ASSUME ProblemsApart, IInv, Asked, rank \in 1..VecRank, Iterated, UNCHANGED <<data, call>>,
           ask.size1 = FALSE, visits' = Once(vecs, Start(call), Upto(vecs, idx, rank))
    PROVE  Visited'
<1>1. vecs' = vecs /\ ask' = ask /\ call' = call /\ Start(call)' = Start(call)
  BY DEF data, Start
<1>2. /\ vecs \in Seq(Loop) /\ Len(vecs) = VecRank /\ VecRank \in Nat \ {0}
      /\ idx \in [1..VecRank -> Nat] /\ idx \in Indices(vecs) /\ rank \in 1..Len(vecs)
  BY WalkType
<1>3. CASE idx[rank] + 1 < vecs[rank].n
  <2>1. rank' = rank /\ pc' = "descend" /\ idx' = [idx EXCEPT ![rank] = idx[rank] + 1]
    BY <1>3 DEF Iterated
  <2>2. Upto(vecs, idx, rank) = Before(vecs, idx', rank')
    BY <1>2, <2>1, UptoBump
  <2> QED BY <1>1, <2>1, <2>2 DEF Visited, Done
<1>4. CASE ~ (idx[rank] + 1 < vecs[rank].n)
  <2>1. rank' = rank + 1 /\ pc' = (IF rank = VecRank THEN "done" ELSE "climb")
        /\ idx' = [idx EXCEPT ![rank] = 0]
    BY <1>4 DEF Iterated
  <2>2. \A i \in rank + 1 .. Len(vecs) : idx[i] = idx'[i]
    BY <1>2, <2>1
  <2>3. /\ Upto(vecs, idx, rank) = Upto(vecs, idx', rank + 1)
        /\ rank = Len(vecs) => Upto(vecs, idx, rank) = Indices(vecs)
    BY <1>2, <1>4, <2>2, UptoWrap
  <2>4. CASE rank = VecRank
    <3>1. visits' = SetToBag(Required(ask, call))
      BY <1>2, <2>3, <2>4, PlanApart
    <3>2. Required(ask, call)' = Required(ask, call)
      BY <1>1 DEF Required
    <3> QED BY <2>1, <2>4, <3>1, <3>2 DEF Visited
  <2>5. CASE rank # VecRank
    <3>1. pc' = "climb"
      BY <2>1, <2>5
    <3> QED BY <1>1, <2>1, <2>3, <3>1 DEF Visited, Done
  <2> QED BY <2>4, <2>5
<1> QED BY <1>3, <1>4

(* What was asked for stays.                                                *)
LEMMA AskedKept == ASSUME Asked, UNCHANGED data PROVE Asked'
BY DEF data, Asked, SetupVecs, ValidInPlace

LEMMA RunBatchVisits ==
    ASSUME ProblemsApart, VInv, RunBatch
    PROVE  Asked' /\ Place' /\ Visited'
<1>1. /\ IInv /\ Asked /\ pc = "descend" /\ rank = 1 /\ ~ Multi /\ Iterated
      /\ UNCHANGED <<data, call, saved>> /\ status' = status
  BY DEF VInv, RunBatch
<1>2. /\ ask.size1 = FALSE /\ Inner(idx, rank) /\ child[0] = At(vecs, Start(call), idx)
      /\ Saved(vecs, Start(call), idx, saved, rank + 1)
  BY <1>1 DEF VInv, Place, Walking
<1>3. /\ vecs \in Seq(Loop) /\ Len(vecs) = VecRank /\ VecRank \in Nat \ {0} /\ rank \in 1..VecRank
      /\ idx \in Indices(vecs) /\ Start(call) \in Position
  BY <1>1, WalkType
<1>4. Place'
  <2>1. 0 \in DOMAIN child
    BY <1>1, Typed DEF IInv, TypeOK
  <2>2. child'[0] = Move(child[0], vecs[1], 1)
    BY <2>1 DEF RunBatch
  <2> QED BY <1>1, <1>2, <1>3, <2>2, IteratedPlace
<1>5. Visited'
  <2>1. CASE status = "success"
    <3>1. visits = Once(vecs, Start(call), Before(vecs, idx, 1))
      BY <1>1, <2>1 DEF VInv, Visited, Done
    <3>2. visits' = visits (+) SetToBag({At(vecs, Start(call), idx)})
      BY <1>2 DEF RunBatch
    <3>3. Upto(vecs, idx, 1) = Before(vecs, idx, 1) \cup {idx} /\ idx \notin Before(vecs, idx, 1)
      BY <1>3, UptoIs
    <3>4. Before(vecs, idx, 1) \in SUBSET Indices(vecs)
      BY DEF Before
    <3>5. visits' = Once(vecs, Start(call), Upto(vecs, idx, rank))
      <4>1. LoopsApart(vecs, Start(call))
        BY <1>1, <1>2, PlanApart
      <4>2. Once(vecs, Start(call), Before(vecs, idx, 1)) (+) SetToBag({At(vecs, Start(call), idx)})
              = Once(vecs, Start(call), Before(vecs, idx, 1) \cup {idx})
        BY <1>3, <3>3, <3>4, <4>1, OnceAdds
      <4> QED BY <1>1, <3>1, <3>2, <3>3, <4>2
    <3> QED BY <1>1, <1>2, <1>3, <3>5, IteratedVisited
  <2>2. CASE status # "success"
    BY <1>1, <2>2 DEF Visited
  <2> QED BY <2>1, <2>2
<1> QED BY <1>1, <1>4, <1>5, AskedKept

LEMMA ClimbVisits ==
    ASSUME ProblemsApart, VInv, Climb
    PROVE  Asked' /\ Place' /\ Visited'
<1>1. /\ IInv /\ Asked /\ pc = "climb" /\ Iterated /\ UNCHANGED <<data, call, saved>>
      /\ visits' = visits /\ status' = status
  BY DEF VInv, Climb, result
<1>2. /\ ask.size1 = FALSE /\ Inner(idx, rank) /\ Saved(vecs, Start(call), idx, saved, rank)
      /\ Multi => idx[1] = 0
  BY <1>1 DEF VInv, Place, Walking
<1>3. /\ vecs \in Seq(Loop) /\ Len(vecs) = VecRank /\ VecRank \in Nat \ {0} /\ rank \in 2..VecRank
      /\ idx \in Indices(vecs) /\ idx \in [1..Len(vecs) -> Nat] /\ Start(call) \in Position
  BY <1>1, WalkType DEF IInv, Where
<1>4. rank \in 1..VecRank /\ rank # 1 /\ rank \in rank .. Len(vecs) /\ rank \in 1..Len(vecs)
  BY <1>3
<1>5. Saved(vecs, Start(call), idx, saved, rank + 1) /\ saved[rank] = At(vecs, Start(call), idx)
  <2>1. Cut(vecs, idx, rank) = idx
    BY <1>2, <1>3, <1>4, CutSame
  <2>2. \A q \in rank + 1 .. Len(vecs) : q \in rank .. Len(vecs)
    BY <1>3
  <2> QED BY <1>2, <1>4, <2>1, <2>2 DEF Saved
<1>6. Place'
  <2>1. 0 \in DOMAIN child
    BY <1>1, Typed DEF IInv, TypeOK
  <2>2. child'[0] = Move(saved[rank], vecs[rank], 1)
    BY <2>1 DEF Climb
  <2> QED BY <1>1, <1>2, <1>4, <1>5, <2>2, IteratedPlace
<1>7. Visited'
  <2>1. CASE status = "success"
    <3>1. visits' = Once(vecs, Start(call), Upto(vecs, idx, rank))
      BY <1>1, <2>1 DEF VInv, Visited, Done
    <3> QED BY <1>1, <1>2, <1>4, <3>1, IteratedVisited
  <2>2. CASE status # "success"
    BY <1>1, <2>2 DEF Visited
  <2> QED BY <2>1, <2>2
<1> QED BY <1>1, <1>6, <1>7, AskedKept

LEMMA DescendVisits ==
    ASSUME VInv, Descend
    PROVE  Asked' /\ Place' /\ Visited'
<1>1. /\ IInv /\ Asked /\ UNCHANGED data /\ vecs' = vecs /\ ask' = ask /\ Start(call)' = Start(call)
      /\ idx' = idx /\ child' = child /\ visits' = visits /\ status' = status
      /\ pc = "descend" /\ pc' = "descend" /\ Multi' = Multi
  BY DEF VInv, Descend, data, result, Start, Multi
<1>2. /\ ask.size1 = FALSE /\ Inner(idx, rank) /\ child[0] = At(vecs, Start(call), idx)
      /\ Saved(vecs, Start(call), idx, saved, rank + 1) /\ (Multi => idx[1] = 0)
  BY <1>1 DEF VInv, Place, Walking
<1>3. /\ vecs \in Seq(Loop) /\ Len(vecs) = VecRank /\ VecRank \in Nat \ {0}
      /\ idx \in [1..Len(vecs) -> Nat] /\ saved \in [1..VecRank -> Position]
  BY <1>1, WalkType DEF IInv, TypeOK
<1>4. rank \in 2..Len(vecs) /\ rank' = rank - 1 /\ saved' = [saved EXCEPT ![rank] = child[0]]
      /\ rank \in 1..Len(vecs)
  BY <1>1, <1>3 DEF Descend, IInv, Where
<1>5. Cut(vecs, idx, rank) = idx
  BY <1>2, <1>3, <1>4, CutSame
<1>6. Saved(vecs, Start(call), idx, saved', rank' + 1)
  <2> SUFFICES ASSUME NEW q \in rank' + 1 .. Len(vecs)
               PROVE  saved'[q] = At(vecs, Start(call), Cut(vecs, idx, q))
    BY DEF Saved
  <2>1. CASE q = rank
    BY <1>2, <1>3, <1>4, <1>5, <2>1
  <2>2. CASE q # rank
    <3>1. q \in rank + 1 .. Len(vecs) /\ saved'[q] = saved[q]
      BY <1>3, <1>4, <2>2
    <3> QED BY <1>2, <3>1 DEF Saved
  <2> QED BY <2>1, <2>2
<1>7. Inner(idx, rank')
  <2>1. \A i \in 1 .. rank' - 1 : i \in 1 .. rank - 1
    BY <1>3, <1>4
  <2> QED BY <1>2, <2>1 DEF Inner
<1>8. Place'
  BY <1>1, <1>2, <1>6, <1>7 DEF Place, Walking
<1>9. Before(vecs, idx, rank') = Before(vecs, idx, rank)
  <2>1. rank - 1 \in 1 .. rank - 1
    BY <1>3, <1>4
  <2> QED BY <1>2, <1>3, <1>4, <2>1, BeforeInner DEF Inner
<1>10. Visited'
  BY <1>1, <1>9 DEF VInv, Visited, Done
<1> QED BY <1>1, <1>8, <1>10, AskedKept

LEMMA ForkVisits ==
    ASSUME VInv, Fork
    PROVE  Asked' /\ Place' /\ Visited'
<1>1. /\ IInv /\ Asked /\ UNCHANGED data /\ vecs' = vecs /\ ask' = ask /\ Start(call)' = Start(call)
      /\ idx' = idx /\ saved' = saved /\ visits' = visits /\ status' = status /\ rank' = rank
      /\ pc = "descend" /\ pc' = "team" /\ Multi' = Multi /\ base' = child[0] /\ rank = 1 /\ Multi
      /\ pending' = 0 .. vecs[1].n - 1 /\ VecRank' = VecRank
  BY DEF VInv, Fork, data, walk, result, Start, Multi, VecRank
<1>2. /\ ask.size1 = FALSE /\ Inner(idx, rank) /\ child[0] = At(vecs, Start(call), idx)
      /\ Saved(vecs, Start(call), idx, saved, rank + 1) /\ idx[1] = 0
  BY <1>1 DEF VInv, Place, Walking
<1>3. Place'
  BY <1>1, <1>2 DEF Place, Walking
<1>4. Ran' = {}
  <2>1. ASSUME NEW k \in Indices(vecs)
        PROVE  k[1] \in pending'
    <3>1. k[1] \in Nat /\ k[1] < vecs[1].n /\ vecs[1].n \in Nat
      BY <1>1, WalkType, IndexType
    <3> QED BY <1>1, <3>1
  <2> QED BY <1>1, <2>1 DEF Ran
<1>5. Visited'
  BY <1>1, <1>4 DEF VInv, Visited, Done
<1> QED BY <1>1, <1>3, <1>5, AskedKept

LEMMA TakeBatchVisits ==
    ASSUME VInv, NEW t \in DOMAIN child, TakeBatch(t)
    PROVE  Asked' /\ Place' /\ Visited'
<1>1. /\ IInv /\ Asked /\ UNCHANGED data /\ vecs' = vecs /\ ask' = ask /\ Start(call)' = Start(call)
      /\ idx' = idx /\ saved' = saved /\ visits' = visits /\ status' = status /\ rank' = rank
      /\ pc = "team" /\ pc' = "team" /\ Multi' = Multi /\ base' = base /\ team' = team
      /\ VecRank' = VecRank /\ t \in team /\ task[t] = NoBatch
  BY DEF VInv, TakeBatch, data, walk, result, Start, Multi, VecRank
<1>2. Place'
  BY <1>1 DEF VInv, Place, Walking
<1>3. PICK b \in pending : task' = [task EXCEPT ![t] = b] /\ pending' = pending \ {b}
  BY DEF TakeBatch
<1>4. /\ team \subseteq DOMAIN task
  BY <1>1 DEF IInv, TypeOK
<1>5. Ran' = Ran
  <2>1. ASSUME NEW k \in Indices(vecs)
        PROVE  /\ k[1] # NoBatch
               /\ k[1] \notin pending' /\ (\A u \in team : task'[u] # k[1])
                    <=> k[1] \notin pending /\ (\A u \in team : task[u] # k[1])
    <3>1. k[1] \in Nat
      BY <1>1, WalkType, IndexType
    <3>2. k[1] # NoBatch
      BY <3>1 DEF NoBatch
    <3>3. \A u \in team : task'[u] = IF u = t THEN b ELSE task[u]
      BY <1>3, <1>4
    <3> QED BY <1>1, <1>3, <3>2, <3>3
  <2> QED BY <1>1, <2>1 DEF Ran
<1>6. Visited'
  BY <1>1, <1>5 DEF VInv, Visited, Done
<1> QED BY <1>1, <1>2, <1>6, AskedKept

(* The index of a batch of the region the walk opened at index c.           *)
LEMMA BatchIndex ==
    ASSUME NEW vs \in Seq(Loop), NEW c \in Indices(vs), Len(vs) > 0, c[1] = 0,
           NEW b \in 0 .. vs[1].n - 1, NEW e, e = [c EXCEPT ![1] = b]
    PROVE  /\ e \in Indices(vs) /\ e[1] = b /\ Alike(c, e, 2, Len(vs))
           /\ e \notin Before(vs, c, 1)
           /\ \A k \in Indices(vs) : Alike(c, k, 2, Len(vs)) /\ k[1] = b => k = e
           /\ \A p \in Position : At(vs, p, e) = Move(At(vs, p, c), vs[1], b)
<1>1. /\ Len(vs) \in Nat \ {0} /\ c \in [1..Len(vs) -> Nat] /\ c \in [1..Len(vs) -> Int]
      /\ \A i \in 1..Len(vs) : c[i] < vs[i].n
      /\ vs[1].n \in Nat /\ 1 \in 1..Len(vs)
  BY IndexType
<1>2. b \in Nat /\ b < vs[1].n
  BY <1>1
<1>3. e \in [1..Len(vs) -> Nat] /\ e[1] = b /\ \A i \in 1..Len(vs) : i # 1 => e[i] = c[i]
  BY <1>1, <1>2
<1>4. e \in Indices(vs)
  BY <1>1, <1>2, <1>3 DEF Indices
<1>5. \A i \in 2..Len(vs) : i \in 1..Len(vs) /\ i # 1
  BY <1>1
<1>6. Alike(c, e, 2, Len(vs))
  BY <1>3, <1>5 DEF Alike
<1>7. e \notin Before(vs, c, 1)
  <2>1. \A q \in 1..Len(vs) : c[q] \in Nat /\ e[q] \in Nat /\ (q = 1 \/ e[q] = c[q])
    BY <1>1, <1>3
  <2>2. \A q \in 1..Len(vs) : ~ (e[q] < c[q])
    BY <1>3, <2>1
  <2> QED BY <2>2 DEF Before, Earlier
<1>8. ASSUME NEW k \in Indices(vs), Alike(c, k, 2, Len(vs)), k[1] = b
      PROVE  k = e
  <2>1. k \in [1..Len(vs) -> Nat]
    BY IndexType
  <2>2. \A i \in 1..Len(vs) : i = 1 \/ i \in 2..Len(vs)
    BY <1>1
  <2>3. \A i \in 1..Len(vs) : k[i] = e[i]
    BY <1>3, <1>5, <1>8, <2>2 DEF Alike
  <2> QED BY <1>3, <2>1, <2>3
<1>9. ASSUME NEW p \in Position
      PROVE  At(vs, p, e) = Move(At(vs, p, c), vs[1], b)
  <2>1. PICK l : l = e
    OBVIOUS
  <2>2. /\ l \in [1..Len(vs) -> Int] /\ b \in Int /\ l[1] = c[1] + b
        /\ \A i \in 1..Len(vs) : i # 1 => l[i] = c[i]
    BY <1>2, <1>3, <2>1
  <2>3. At(vs, p, l) = Move(At(vs, p, c), vs[1], b)
    BY <1>1, <2>2, AtBump
  <2> QED BY <2>1, <2>3
<1> QED BY <1>3, <1>4, <1>6, <1>7, <1>8, <1>9

LEMMA RunChildVisits ==
    ASSUME ProblemsApart, VInv, NEW t \in DOMAIN child, RunChild(t)
    PROVE  Asked' /\ Place' /\ Visited'
<1>1. /\ IInv /\ Asked /\ UNCHANGED data /\ vecs' = vecs /\ ask' = ask /\ Start(call)' = Start(call)
      /\ idx' = idx /\ saved' = saved /\ rank' = rank /\ pending' = pending
      /\ pc = "team" /\ pc' = "team" /\ Multi' = Multi /\ base' = base /\ team' = team
      /\ VecRank' = VecRank /\ t \in team /\ task[t] # NoBatch /\ task' = [task EXCEPT ![t] = NoBatch]
  BY DEF VInv, RunChild, data, walk, Start, Multi, VecRank
<1>2. ask.size1 = FALSE /\ idx[1] = 0 /\ base = At(vecs, Start(call), idx)
  BY <1>1 DEF VInv, Place, Walking
<1>3. Place'
  BY <1>1 DEF VInv, Place, Walking
<1>4. ASSUME status' = "success"
      PROVE  Visited'
  <2>1. status = "success" /\ visits' = visits (+) SetToBag({child[t]})
    BY <1>4 DEF RunChild, Report
  <2>2. /\ vecs \in Seq(Loop) /\ Len(vecs) = VecRank /\ Len(vecs) > 0 /\ idx \in Indices(vecs)
        /\ Start(call) \in Position /\ vecs[1].n \in Nat
    BY <1>1, WalkType
  <2>3. /\ team \subseteq DOMAIN task /\ task[t] \in 0 .. vecs[1].n - 1
    BY <1>1 DEF IInv, TypeOK
  <2> DEFINE e == [idx EXCEPT ![1] = task[t]]
             D == Before(vecs, idx, 1) \cup Ran
  <2>4. /\ e \in Indices(vecs) /\ e[1] = task[t] /\ Alike(idx, e, 2, VecRank)
        /\ e \notin Before(vecs, idx, 1)
        /\ \A k \in Indices(vecs) : Alike(idx, k, 2, VecRank) /\ k[1] = task[t] => k = e
        /\ At(vecs, Start(call), e) = Move(base, vecs[1], task[t])
    BY <1>2, <2>2, <2>3, BatchIndex
  <2> HIDE DEF e
  <2>5. /\ child[t] = Move(base, vecs[1], task[t]) /\ task[t] \notin pending
        /\ \A u \in team : task[u] = task[t] => u = t
    BY <1>1 DEF IInv, Holding, OwnBatch
  <2>6. e \notin Ran
    BY <1>1, <2>4 DEF Ran
  <2>7. Ran' = Ran \cup {e}
    <3>1. ASSUME NEW k \in Indices(vecs), Alike(idx, k, 2, VecRank)
          PROVE  k[1] \notin pending /\ (\A u \in team : task'[u] # k[1])
                   <=> (k[1] \notin pending /\ \A u \in team : task[u] # k[1]) \/ k = e
      <4>1. k[1] \in Nat
        BY <2>2, IndexType
      <4>2. k[1] # NoBatch
        BY <4>1 DEF NoBatch
      <4>3. \A u \in team : task'[u] = IF u = t THEN NoBatch ELSE task[u]
        BY <1>1, <2>3
      <4>4. CASE k[1] = task[t]
        <5>1. k = e
          BY <2>4, <3>1, <4>4
        <5>2. \A u \in team : task'[u] # k[1]
          BY <2>5, <4>2, <4>3, <4>4
        <5> QED BY <2>5, <4>4, <5>1, <5>2
      <4>5. CASE k[1] # task[t]
        BY <1>1, <2>4, <4>2, <4>3, <4>5
      <4> QED BY <4>4, <4>5
    <3>2. Ran' = {k \in Indices(vecs) : /\ Alike(idx, k, 2, VecRank)
                                        /\ k[1] \notin pending
                                        /\ \A u \in team : task'[u] # k[1]}
      BY <1>1 DEF Ran
    <3>3. e \in Indices(vecs) /\ Alike(idx, e, 2, VecRank)
      BY <2>4
    <3> QED BY <3>1, <3>2, <3>3 DEF Ran
  <2>8. visits = Once(vecs, Start(call), D)
    BY <1>1, <2>1 DEF VInv, Visited, Done
  <2>9. visits' = Once(vecs, Start(call), D \cup {e})
    <3>1. LoopsApart(vecs, Start(call))
      BY <1>1, <1>2, PlanApart
    <3>2. D \in SUBSET Indices(vecs) /\ e \notin D
      BY <2>4, <2>6 DEF Before, Ran
    <3> HIDE DEF D
    <3>3. Once(vecs, Start(call), D) (+) SetToBag({At(vecs, Start(call), e)})
            = Once(vecs, Start(call), D \cup {e})
      BY <2>2, <2>4, <3>1, <3>2, OnceAdds
    <3> QED BY <2>1, <2>4, <2>5, <2>8, <3>3
  <2>10. D \cup {e} = Before(vecs, idx, 1) \cup Ran'
    BY <2>7
  <2> HIDE DEF D
  <2> QED BY <1>1, <2>9, <2>10 DEF Visited, Done
<1>5. ASSUME status' # "success"
      PROVE  Visited'
  BY <1>5 DEF Visited
<1> QED BY <1>1, <1>3, <1>4, <1>5, AskedKept

LEMMA JoinVisits ==
    ASSUME ProblemsApart, VInv, Join
    PROVE  Asked' /\ Place' /\ Visited'
<1>1. /\ IInv /\ Asked /\ UNCHANGED data /\ vecs' = vecs /\ ask' = ask /\ Start(call)' = Start(call)
      /\ idx' = idx /\ saved' = saved /\ visits' = visits /\ status' = status /\ rank' = rank + 1
      /\ pc = "team" /\ rank = 1 /\ Multi' = Multi /\ VecRank' = VecRank /\ call' = call
      /\ pc' = (IF VecRank = 1 \/ status = "failure" THEN "done" ELSE "climb")
      /\ pending = {} /\ \A t \in team : task[t] = NoBatch
  BY DEF VInv, IInv, Where, Join, data, walk, result, Start, Multi, VecRank
<1>2. /\ ask.size1 = FALSE /\ Saved(vecs, Start(call), idx, saved, rank + 1) /\ idx[1] = 0
  BY <1>1 DEF VInv, Place, Walking
<1>3. /\ vecs \in Seq(Loop) /\ Len(vecs) = VecRank /\ Len(vecs) \in Nat \ {0} /\ idx \in Indices(vecs)
  BY <1>1, WalkType
<1>4. Place'
  <2>1. Inner(idx, rank + 1)
    BY <1>1, <1>2 DEF Inner
  <2> QED BY <1>1, <1>2, <2>1 DEF Place, Walking
<1>5. Before(vecs, idx, 1) \cup Ran = Upto(vecs, idx, 2)
  <2>1. ASSUME NEW k \in Indices(vecs)
        PROVE  /\ Earlier(idx, k, 1, Len(vecs)) <=> Earlier(idx, k, 2, Len(vecs))
               /\ k \in Ran <=> Alike(idx, k, 2, Len(vecs))
    <3>1. k[1] \in Nat /\ 1 \in 1..Len(vecs) /\ 1 + 1 = 2
      BY <1>3, IndexType
    <3>2. k[1] # NoBatch
      BY <3>1 DEF NoBatch
    <3>3. Earlier(idx, k, 1, Len(vecs)) <=> Earlier(idx, k, 2, Len(vecs))
                                  \/ (k[1] < idx[1] /\ Alike(idx, k, 2, Len(vecs)))
      BY <1>3, <3>1, EarlierIs
    <3> QED BY <1>1, <1>2, <1>3, <3>1, <3>2, <3>3 DEF Ran
  <2> QED BY <2>1 DEF Before, Upto, Ran
<1>6. VecRank = 1 => Upto(vecs, idx, 2) = Indices(vecs)
  <2>1. VecRank = 1 => \A k \in Indices(vecs) : Alike(idx, k, 1 + 1, 1)
    BY NothingBeyond
  <2> QED BY <1>3, <2>1 DEF Upto
<1>7. ASSUME status = "success"
      PROVE  Visited'
  <2>1. visits = Once(vecs, Start(call), Upto(vecs, idx, 2))
    BY <1>1, <1>5, <1>7 DEF VInv, Visited, Done
  <2>2. CASE VecRank = 1
    <3>1. visits' = SetToBag(Required(ask, call))
      BY <1>1, <1>2, <1>6, <2>1, <2>2, PlanApart
    <3>2. Required(ask, call)' = Required(ask, call)
      BY <1>1 DEF Required
    <3> QED BY <1>1, <2>2, <3>1, <3>2 DEF Visited
  <2>3. CASE VecRank # 1
    BY <1>1, <1>7, <2>1, <2>3 DEF Visited, Done
  <2> QED BY <2>2, <2>3
<1>8. ASSUME status # "success"
      PROVE  Visited'
  BY <1>1, <1>8 DEF Visited
<1> QED BY <1>1, <1>4, <1>7, <1>8, AskedKept

(* A backward transform in place ends where it starts at every position.    *)
LEMMA InPlaceMeets ==
    ASSUME NEW p \in Problems, NEW b \in Bufs, ValidInPlace(p), p.inplace,
           p.dir = BACKWARD_FFT_DIR
    PROVE  \A q \in Reach(AllScaled(p.vecs, p.dir), Start(b)) : q.in = q.out
<1> DEFINE us == AllScaled(p.vecs, p.dir)
           o == Start(b)
<1>1. p.vecs \in Seq(Loop) /\ p.vecs # <<>>
  BY ProblemsTyped DEF ProblemType
<1>2. us \in Seq(Loop) /\ Len(us) = Len(p.vecs) /\ \A i \in 1..Len(us) : us[i] = Scaled(p.vecs[i], p.dir)
  BY <1>1, AllScaledIs
<1>3. \A i \in 1..Len(us) : us[i].is = us[i].os \/ us[i].n = 1
  <2> SUFFICES ASSUME NEW i \in 1..Len(us)
               PROVE  us[i].is = us[i].os \/ us[i].n = 1
    OBVIOUS
  <2>1. p.vecs[i] \in Loop /\ i \in 1..Len(p.vecs)
    BY <1>1, <1>2
  <2>2. p.vecs[i].is \in Int /\ p.vecs[i].os \in Int
    BY <2>1 DEF Loop
  <2>3. FORWARD_FFT_DIR # BACKWARD_FFT_DIR
    BY DEF FORWARD_FFT_DIR, BACKWARD_FFT_DIR
  <2>4. DATA_STRIDE * p.vecs[i].is = p.vecs[i].os \/ p.vecs[i].n = 1
    BY <2>1, <2>3 DEF ValidInPlace
  <2>5. /\ us[i].n = p.vecs[i].n /\ us[i].is = p.vecs[i].is * 2 /\ us[i].os = p.vecs[i].os
    BY <1>2, <2>1, <2>3, ScaledIs
  <2> QED BY <2>2, <2>4, <2>5 DEF DATA_STRIDE
<1>4. o \in Position /\ o.in = o.out
  BY DEF Start, Position
<1> HIDE DEF us, o
<1>5. PICK f : Steps(us, o, f) /\ Reach(us, o) = f[Len(us)]
  BY <1>2, ReachSteps
<1> DEFINE T == {m \in Nat : m <= Len(us) => f[m] \subseteq Position /\ \A q \in f[m] : q.in = q.out}
<1>6. 0 \in T
  BY <1>4, <1>5 DEF Steps
<1>7. ASSUME NEW m \in Nat, m \in T
      PROVE  m + 1 \in T
  <2>1. CASE m + 1 <= Len(us)
    <3>1. m + 1 \in 1..Len(us) /\ (m + 1) - 1 = m /\ us[m + 1] \in Loop
          /\ f[m] \subseteq Position /\ \A q \in f[m] : q.in = q.out
      BY <1>2, <1>7, <2>1
    <3>2. f[m + 1] = Spread(f[m], us[m + 1])
      BY <1>5, <3>1 DEF Steps
    <3>3. ASSUME NEW r \in f[m + 1]
          PROVE  r \in Position /\ r.in = r.out
      <4>1. PICK q \in f[m], k \in 0 .. us[m + 1].n - 1 : r = Move(q, us[m + 1], k)
        BY <3>2, <3>3 DEF Spread
      <4>2. q \in Position /\ q.in = q.out /\ k \in Int
        BY <3>1
      <4>3. r.in = q.in + k * us[m + 1].is /\ r.out = q.out + k * us[m + 1].os
        BY <3>1, <4>1, <4>2, MoveIs
      <4>4. k * us[m + 1].is = k * us[m + 1].os
        <5>1. CASE us[m + 1].is = us[m + 1].os
          BY <5>1
        <5>2. CASE us[m + 1].n = 1
          <6>1. k = 0
            BY <4>1, <5>2
          <6>2. us[m + 1].is \in Int /\ us[m + 1].os \in Int
            BY <3>1 DEF Loop
          <6> QED BY <6>1, <6>2
        <5> QED BY <1>3, <3>1, <5>1, <5>2
      <4>5. r \in Position
        BY <3>1, <4>1, <4>2, MoveType
      <4> QED BY <4>2, <4>3, <4>4, <4>5
    <3> QED BY <3>3
  <2> QED BY <2>1
<1> HIDE DEF T
<1>8. Len(us) \in T
  <2>1. Len(us) \in Nat
    BY <1>2
  <2> QED BY <1>6, <1>7, <2>1, Induction
<1> QED BY <1>2, <1>5, <1>8 DEF T, us, o

LEMMA SizeOneVisits ==
    ASSUME SizeOneFuses, AtStart, VInv, SizeOne
    PROVE  Asked' /\ Place' /\ Visited'
<1>1. /\ IInv /\ Asked /\ UNCHANGED data /\ vecs' = vecs /\ ask' = ask /\ call' = call
      /\ pc = "sizeone" /\ pc' = "done" /\ root = Start(call) /\ ask.size1
      /\ vecs = fuse_vecs(ask.vecs, ask.fuseFirst) /\ ask \in Problems /\ ValidInPlace(ask)
  BY DEF VInv, Asked, SizeOne, data, AtStart
<1>2. vecs \in Seq(Loop) /\ Len(vecs) = 1 /\ VecRank = 1 /\ call \in Bufs /\ Start(call) \in Position
  BY <1>1, WalkType DEF SizeOneFuses
<1>3. Place'
  BY <1>1 DEF Place, Walking
<1> DEFINE all == Reach(AllScaled(ask.vecs, ask.dir), Start(call))
           skip == ask.inplace /\ ask.dir = BACKWARD_FFT_DIR
<1>4. Reach(<<Scaled(vecs[1], ask.dir)>> \o SubSeq(vecs, 2, VecRank), root) = all
  <2>1. Scaled(vecs[1], ask.dir) \in Loop
    BY <1>2, ScaledIs
  <2>2. SubSeq(vecs, 2, VecRank) = <<>>
    BY <1>2
  <2>3. <<Scaled(vecs[1], ask.dir)>> \o <<>> = <<Scaled(vecs[1], ask.dir)>>
    <3> DEFINE v == Scaled(vecs[1], ask.dir)
    <3>1. v \in Loop
      BY <2>1
    <3> HIDE DEF v
    <3>2. <<v>> \o <<>> = <<v>>
      BY <3>1
    <3> QED BY <3>2 DEF v
  <2>4. AllScaled(vecs, ask.dir) = <<Scaled(vecs[1], ask.dir)>>
    BY <1>2 DEF AllScaled
  <2>5. ask.vecs \in Seq(Loop) /\ ask.vecs # <<>>
    BY <1>1, ProblemsTyped DEF ProblemType
  <2>6. Reach(AllScaled(vecs, ask.dir), Start(call)) = all
    BY <1>1, <1>2, <2>5, FusingKeepsPositions
  <2> QED BY <1>1, <2>2, <2>3, <2>4, <2>6
<1>5. Required(ask, call)' = Required(ask, call)
  BY <1>1 DEF Required
<1>6. visits' = SetToBag(Required(ask, call))
  <2>1. CASE skip
    <3>1. visits' = SetToBag({})
      BY <2>1 DEF SizeOne, EmptyBag
    <3>2. \A q \in all : q.in = q.out
      BY <1>1, <1>2, <2>1, InPlaceMeets
    <3>3. Required(ask, call) = {q \in all : q.in # q.out}
      BY <1>1, <2>1 DEF Required
    <3> HIDE DEF all
    <3>4. Required(ask, call) = {}
      BY <3>2, <3>3
    <3> QED BY <3>1, <3>4
  <2>2. CASE ~ skip
    <3>1. visits' = SetToBag(all)
      BY <1>4, <2>2 DEF SizeOne
    <3>2. Required(ask, call) = all
      BY <2>2 DEF Required
    <3> QED BY <3>1, <3>2
  <2> QED BY <2>1, <2>2
<1> QED BY <1>1, <1>3, <1>5, <1>6, AskedKept DEF Visited

(* A call begins: nothing is transformed, and every loop is at its start.   *)
LEMMA EnterVisits ==
    ASSUME VInv, IInv', Execute \/ ExecuteIO, root' = Start(call')
    PROVE  Asked' /\ Place' /\ Visited'
<1>1. /\ IInv /\ Asked /\ UNCHANGED data /\ vecs' = vecs /\ ask' = ask /\ VecRank' = VecRank
      /\ Start(call)' = Start(call') /\ rank' = VecRank /\ idx' = [r \in 1..VecRank |-> 0]
      /\ visits' = EmptyBag /\ child' = [t \in DOMAIN child |-> root']
      /\ pc' = IF ask.size1 THEN "sizeone" ELSE "descend"
  BY DEF VInv, Execute, ExecuteIO, Enter, data, VecRank, Start
<1>2. /\ vecs \in Seq(Loop) /\ Len(vecs) = VecRank /\ VecRank \in Nat \ {0}
  BY <1>1, WalkType
<1>3. Start(call') \in Position
  <2>1. call' \in Bufs
    BY DEF IInv, TypeOK
  <2> QED BY <2>1 DEF Start, Position
<1>4. At(vecs, Start(call'), idx') = Start(call')
  BY <1>1, <1>2, <1>3, AtZero
<1>5. \A i \in 1..VecRank : idx'[i] = 0
  BY <1>1
<1>6. Inner(idx', rank')
  <2>1. \A i \in 1 .. VecRank - 1 : i \in 1..VecRank
    BY <1>2
  <2> QED BY <1>1, <1>5, <2>1 DEF Inner
<1>7. Saved(vecs, Start(call'), idx', saved', rank' + 1)
  <2>1. rank' + 1 .. Len(vecs) = {}
    BY <1>1, <1>2
  <2> QED BY <2>1 DEF Saved
<1>8. child'[0] = root'
  <2>1. DOMAIN child = 0 .. Threads - 1
    BY <1>1 DEF IInv, TypeOK
  <2>2. Threads \in Nat \ {0}
    BY <1>1, Typed DEF IInv
  <2> QED BY <1>1, <2>1, <2>2
<1>9. idx'[1] = 0
  BY <1>2, <1>5
<1>10. pc' = "descend" => ask.size1 = FALSE
  <2>1. ask.size1 \in BOOLEAN
    BY <1>1 DEF IInv, LoopsTyped, ProblemType
  <2> QED BY <1>1, <2>1
<1>11. Place'
  BY <1>1, <1>4, <1>6, <1>7, <1>8, <1>9, <1>10 DEF Place, Walking
<1>12. Before(vecs, idx', rank') = {}
  BY <1>1, <1>2, BeforeStart
<1>13. visits' = Once(vecs, Start(call'), Before(vecs, idx', rank'))
  BY <1>1, <1>12 DEF Once, EmptyBag
<1>14. Visited'
  BY <1>1, <1>13 DEF Visited, Done
<1> QED BY <1>1, <1>11, <1>14, AskedKept

LEMMA RestVisits ==
    ASSUME VInv, BatchFails \/ Return \/ UNCHANGED vars
    PROVE  Asked' /\ Place' /\ Visited'
<1>1. /\ Asked /\ Place /\ Visited /\ UNCHANGED data
  BY DEF VInv, BatchFails, Return, vars, data
<1>2. CASE BatchFails
  BY <1>1, <1>2, AskedKept DEF BatchFails, Place, Walking, Visited
<1>3. CASE Return
  BY <1>1, <1>3, AskedKept DEF Return, Place, Walking, Visited
<1>4. CASE UNCHANGED vars
  <2>1. Place'
    BY <1>1, <1>4 DEF vars, Place, Walking, Multi
  <2>2. Ran' = Ran /\ Required(ask, call)' = Required(ask, call)
    BY <1>4 DEF vars, Ran, VecRank, Required
  <2>3. Visited'
    BY <1>1, <1>4, <2>2 DEF vars, Visited, Done
  <2> QED BY <1>1, <2>1, <2>3, AskedKept
<1> QED BY <1>2, <1>3, <1>4

LEMMA NextVisits ==
    ASSUME ProblemsApart, SizeOneFuses, VInv, AtStart, [Next]_vars
    PROVE  VInv' /\ AtStart'
<1>1. IInv' /\ AtStart'
  BY NextInv, NextAtStart DEF VInv
<1>2. CASE BatchFails \/ Return \/ UNCHANGED vars
  BY <1>1, <1>2, RestVisits DEF VInv
<1>3. CASE Execute \/ ExecuteIO
  BY <1>1, <1>3, EnterVisits DEF VInv, AtStart
<1>4. ASSUME NEW t \in DOMAIN child, TakeBatch(t) \/ RunChild(t)
      PROVE  VInv'
  BY <1>1, <1>4, TakeBatchVisits, RunChildVisits DEF VInv
<1>5. CASE Descend \/ RunBatch \/ Fork \/ Join \/ Climb \/ SizeOne
  BY <1>1, <1>5, DescendVisits, RunBatchVisits, ForkVisits, JoinVisits, ClimbVisits,
     SizeOneVisits DEF VInv
<1>6. \/ BatchFails \/ Return \/ UNCHANGED vars \/ Execute \/ ExecuteIO
      \/ Descend \/ RunBatch \/ Fork \/ Join \/ Climb \/ SizeOne
      \/ \E t \in DOMAIN child : TakeBatch(t) \/ RunChild(t)
  BY DEF Next, Solve
<1> QED BY <1>1, <1>2, <1>3, <1>4, <1>5, <1>6

(* A call that succeeds has transformed exactly the positions the user's    *)
(* loops name, each once, for any loops, threads and interleaving, provided *)
(* no problem names a position twice (a bag could not be met otherwise) and *)
(* size-one loops fuse (their kernel scales the innermost loop only).       *)
THEOREM EachBatchOnce ==
    ASSUME ProblemsApart, SizeOneFuses
    PROVE  Spec => []VisitsExact
<1>1. Init => VInv /\ AtStart
  <2> SUFFICES ASSUME Init
               PROVE  VInv /\ AtStart
    OBVIOUS
  <2>1. IInv /\ AtStart
    BY InitInv, InitAtStart
  <2>2. pc = "idle" /\ Asked
    BY DEF Init, Asked
  <2> QED BY <2>1, <2>2 DEF VInv, Place, Walking, Visited
<1>2. VInv /\ AtStart /\ [Next]_vars => VInv' /\ AtStart'
  BY NextVisits
<1>3. VInv => VisitsExact
  BY DEF VInv, Visited, VisitsExact
<1> QED BY <1>1, <1>2, <1>3, PTL DEF Spec
=============================================================================
