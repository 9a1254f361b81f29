---------------------------- MODULE ScratchPlans ----------------------------
(***************************************************************************)
(* The plans setup may build for a problem, as far as scratch memory goes. *)
(* Setup builds a tree of solvers; the outermost node that needs the ct    *)
(* buffer allocates a pool for its whole subtree, and every node ends with *)
(* a ct_buf_size.  The selector and the setup_* functions are modelled as  *)
(* the rules that relate a node to its children: costs are left out, so    *)
(* any factorization a cost may favour is a plan (PlanOf).  Sizes and      *)
(* offsets count complex elements.  The plan below a Bluestein node works  *)
(* in the node's own slot and is left out; out-of-order output, transposes *)
(* and split-radix have no part in this.                                   *)
(***************************************************************************)
EXTENDS FuseVecs, FiniteSets, FiniteSetsExt

CONSTANTS
    Problems,  \* [dims, vecs, threads, inPlace, kind], see ProblemType
    Align,     \* complex elements per MIN_ALIGNMENT bytes
    Kernels, LargeKernels,  \* sizes a kernel takes; those for innermost dimensions only
    TwiddleKernels          \* radices of the kernels that apply twiddles first

Loop == [n : Nat \ {0}, is : Nat \ {0}, os : Nat \ {0}]
ProblemType(p) ==
    /\ p.dims \in Seq(Loop) \ {<<>>} /\ p.vecs \in Seq(Loop) \ {<<>>}
    /\ p.threads \in Nat \ {0}
    /\ p.inPlace \in BOOLEAN
    /\ p.kind \in {"complex", "forward", "backward"}
ASSUME ProblemsTyped == \A p \in Problems : ProblemType(p)
ASSUME KernelsTyped == Align \in Nat \ {0} /\ TwiddleKernels \subseteq Nat \ {0}

Pad(len) == ((len + Align - 1) \div Align) * Align
Times(ls) == FoldLeft(LAMBDA m, l : m * l.n, 1, ls)
Lesser(a, b) == IF a < b THEN a ELSE b

-----------------------------------------------------------------------------
(* What a node is asked for                                                 *)
(*   [dims, vecs, bv, avl, act, inPlace, inner, buffered, pool, size, part] *)
(* bv: batched_vecs, at most one loop; avl and act: avl_threads and         *)
(* active_threads; inner: the innermost dimension; buffered: the BUFFERED   *)
(* flag; pool: an ancestor owns a ct buffer; size: ct_buf_size inherited;   *)
(* part: complex problem, real problem, or the part of a real one that is   *)
(* left when its batch is divided (ndim), or its lines (line); forward.     *)

HasKernel(n, inner) == n \in Kernels \/ (inner /\ n \in LargeKernels)

Fused(v) ==
    CASE v.part = "complex" ->
            [v EXCEPT !.vecs = fuse_vecs(@, HasKernel(v.dims[1].n, v.inner) \/ v.inner)]
      [] v.part = "real" -> [v EXCEPT !.vecs = fuse_vecs(@, TRUE)]
      [] OTHER -> v

check_col_major(v) ==
    /\ v.vecs[1].n > 1
    /\ v.vecs[1].is < v.dims[1].is
    /\ v.vecs[1].os < v.dims[1].os

IsPrime(n) == \A i \in 2 .. n - 1 : i * i > n \/ n % i # 0
check_bluestein_problem(v) ==
    \E l \in ToSet(v.dims) : \E i \in 17 .. l.n : l.n % i = 0 /\ IsPrime(i)

NeedsBluestein(v) ==
    LET n == v.dims[1].n IN
    /\ n # 1 /\ Len(v.dims) = 1 /\ Len(v.vecs) = 1 /\ v.vecs[1].n = 1
    /\ ~HasKernel(n, v.inner)
    /\ \A k \in Kernels \cup LargeKernels : n % k # 0

(* One Cooley-Tukey level of two kernels.                                   *)
OneLevel(n) == \E r \in TwiddleKernels : n % r = 0 /\ HasKernel(n \div r, TRUE)

(* The kind of solver for a complex problem whose loops are fused, in the   *)
(* selector's order.                                                        *)
Kind(v) ==
    LET direct == HasKernel(v.dims[1].n, v.inner)
        many == v.vecs[1].n > 1
    IN  IF v.buffered THEN "BUFFERED"
        ELSE IF /\ v.avl = 1 /\ ~direct /\ Len(v.dims) = 1 /\ Len(v.vecs) = 1
                /\ v.bv = <<>> /\ ~check_col_major(v) /\ v.inner
                /\ OneLevel(v.dims[1].n)
             THEN "CTL1D"
        ELSE IF /\ v.dims[1].n # 1
                /\ Len(v.vecs) > 1 \/ (many /\ (~direct \/ Len(v.dims) > 1))
             THEN "BATCHED"
        ELSE IF Len(v.dims) > 1 THEN "NDIM"
        ELSE IF NeedsBluestein(v) THEN "BLUESTEIN"
        ELSE IF v.dims[1].n = 1 \/ direct THEN "DIRECT"
        ELSE "CT"

(* The kind for a real problem, whose loops were vecs before they were fused.*)
RealKind(v, vecs) ==
    IF Len(v.dims) = 1 THEN "REAL_LINE"
    ELSE IF v.dims[1].n # 1 /\ (Len(vecs) > 1 \/ v.vecs[1].n > 1) THEN "REAL_BATCHED"
    ELSE "REAL_NDIM"

KindOf(v) ==
    CASE v.part = "complex" -> Kind(Fused(v))
      [] v.part = "real" -> RealKind(Fused(v), v.vecs)
      [] v.part = "ndim" -> "REAL_NDIM"
      [] v.part = "line" -> "REAL_LINE"

-----------------------------------------------------------------------------
(* What a node asks of its children.                                        *)

(* A column-major loop moves into the solver of its transforms.             *)
Unwound(v) ==
    IF check_col_major(v) /\ ~check_bluestein_problem(v) /\ Len(v.dims) = 1
    THEN [v EXCEPT !.bv = <<v.vecs[1]>>,
                   !.vecs = IF Len(@) = 1 THEN <<[n |-> 1, is |-> 1, os |-> 1]>> ELSE Tail(@)]
    ELSE v

NThreads(v) ==
    IF v.bv # <<>> THEN IF v.vecs[1].n < v.avl THEN 1 ELSE v.avl
    ELSE Lesser(v.vecs[1].n, v.avl)

(* One loop less, a share of the threads each.                              *)
PerThread(v, n) ==
    [v EXCEPT !.vecs = <<[v.vecs[1] EXCEPT !.n = 1]>>, !.avl = @ \div n, !.act = @ * n]

(* alloc_ndim_buffer: the span of the output, of three and more dimensions  *)
(* divided by the smallest; one part per available thread, or one in 2D.    *)
NdimLength(v) ==
    LET least == Min({v.dims[i].n : i \in 1..Len(v.dims)})
        span == FoldLeft(LAMBDA m, l : m + (l.n - 1) * l.os, 1, v.dims)
    IN  Pad(IF Len(v.dims) > 2 THEN span \div least ELSE span)
NdimSize(v) == IF v.pool THEN v.size ELSE NdimLength(v)

(* All dimensions but the last for each of its points, into the output; then*)
(* the last dimension in place there, with the others as its loops.         *)
NdimAsks(v) ==
    LET front == SubSeq(v.dims, 1, Len(v.dims) - 1)
        last == v.dims[Len(v.dims)]
        inPlace(l) == [l EXCEPT !.is = l.os]
        pooled == [v EXCEPT !.pool = TRUE, !.size = NdimSize(v)]
    IN  << [pooled EXCEPT !.dims = front, !.vecs = <<last>>],
           [pooled EXCEPT !.dims = <<inPlace(last)>>,
                          !.vecs = [i \in 1..Len(front) |-> inPlace(front[i])],
                          !.inner = FALSE, !.inPlace = TRUE] >>

(* Faulty variant: the slice is padded in an inherited pool too.            *)
BufferedSizePadded(v, len) == Pad(len)

BufferedSize(v, len) == IF v.pool THEN len ELSE Pad(len)

(* The slice of a buffered solver: a contiguous image of its output.        *)
Gap(v) == IF v.bv = <<>> THEN 1 ELSE v.bv[1].os
Stride(v) == IF v.bv = <<>> THEN 1 ELSE v.bv[1].n * Gap(v)
Slice(v) == Times(v.dims) * Times(v.vecs) * Stride(v)

(* The child writes to the slice in the pool instead of the output.         *)
BufferedAsk(v) ==
    [v EXCEPT !.buffered = FALSE, !.pool = TRUE, !.size = BufferedSize(v, Slice(v)),
              !.inPlace = FALSE,
              !.dims[1].os = Stride(v), !.vecs[1].os = v.dims[1].n * Stride(v)]

(* The radix-m half of a Cooley-Tukey step; the radix-r half runs kernels.  *)
HalfAsk(v, r) ==
    LET d == v.dims[1] IN
    [v EXCEPT !.buffered = v.inPlace,
              !.dims = <<[n |-> d.n \div r, is |-> r * d.is, os |-> d.os]>>,
              !.vecs = <<[n |-> r, is |-> d.is, os |-> (d.n \div r) * d.os]>>]

(* A real line works in buffers of its own (RealClones); what shares the    *)
(* pools is the complex plan of the other dimensions.  Forward: the lines,  *)
(* then the other dimensions of the n/2 + 1 points of each line, in place in*)
(* the output.  Backward: the other dimensions first, from the input to a   *)
(* buffer of this node.                                                     *)
RealNdimAsks(v) ==
    LET onHalf(l) == IF v.forward THEN [l EXCEPT !.is = l.os] ELSE [l EXCEPT !.os = l.is]
        others == [v EXCEPT
            !.dims = [i \in 1 .. Len(v.dims) - 1 |-> onHalf(v.dims[i + 1])],
            !.vecs = <<[onHalf(v.dims[1]) EXCEPT !.n = @ \div 2 + 1]>>,
            !.inPlace = v.forward, !.part = "complex"]
        line == [v EXCEPT !.part = "line"]
    IN  IF v.forward THEN <<line, others>> ELSE <<others, line>>

Asks(v0) ==
    LET v == Fused(v0)
        kind == KindOf(v0)
        u == Unwound(v)
    IN  CASE kind = "BUFFERED" -> {<<BufferedAsk(v)>>}
          [] kind = "BATCHED" -> {<<PerThread(u, NThreads(u))>>}
          [] kind = "NDIM" -> {NdimAsks(v)}
          [] kind = "CT" -> {<<HalfAsk(v, r)>> : r \in {r \in TwiddleKernels : v.dims[1].n % r = 0}}
          [] kind = "REAL_NDIM" -> {RealNdimAsks(v)}
          [] kind = "REAL_BATCHED" ->
                {<<[PerThread(v, Lesser(v.vecs[1].n, v.avl)) EXCEPT !.part = "ndim"]>>}
          [] OTHER -> {<<>>}

-----------------------------------------------------------------------------
(* A node of a plan, given the ask and the nodes ks of its children: its    *)
(* solver, n threads of a batched one, active_threads, ct_buf_size,         *)
(* ndim_concurrency, own: the length of the pool it allocates (parts pieces *)
(* per active thread), use: what its own run touches, stretch: what it and  *)
(* its children touch, the threads of a parallel loop side by side.         *)

Plan(v, solver, ct, ks) ==
    [ask |-> v, solver |-> solver, n |-> 1, act |-> v.act, ct |-> ct, conc |-> 0,
     own |-> 0, parts |-> 1, use |-> 0, kids |-> Len(ks), stretch |-> 0]

(* Faulty variant: a nest of parallel loops over N-dimensional children     *)
(* counts the innermost one only.                                           *)
WithConcurrencyFlat(p) == p

(* An N-dimensional child reserves a part per concurrent nested instance.   *)
WithConcurrency(p) ==
    IF p.solver = "NDIM" /\ p.conc # 0 THEN [p EXCEPT !.ct = p.conc * @] ELSE p

BatchedSize(n, p) == n * p.ct

BatchedNode(v0, ks) ==
    LET n == NThreads(Unwound(Fused(v0)))
        k == ks[1]
        conc == IF k.conc = 0 THEN n ELSE k.conc * n
    IN  [Plan(v0, IF n = 1 THEN "BATCHED" ELSE "MT_BATCHED", BatchedSize(n, k), ks)
            EXCEPT !.n = n, !.conc = IF k.solver = "NDIM" THEN conc ELSE 0]

NdimNode(v0, ks) ==
    LET size == NdimSize(Fused(v0))
        parts == IF Len(v0.dims) = 2 THEN 1 ELSE v0.avl
    IN  [Plan(v0, "NDIM", size, ks) EXCEPT
            !.conc = ks[1].conc, !.parts = parts,
            !.own = IF v0.pool THEN 0 ELSE size * v0.act * parts]

BufferedNode(v0, ks) ==
    LET v == Fused(v0)
        size == BufferedSize(v, Slice(v))
    IN  [Plan(v0, "BUFFERED", size, ks) EXCEPT
            !.use = Slice(v) - Gap(v) + 1, !.own = IF v0.pool THEN 0 ELSE size * v0.act]

CTL1DNode(v0) ==
    LET n == v0.dims[1].n
        size == IF v0.pool THEN n ELSE Pad(n)
    IN  [Plan(v0, "CTL1D", size, <<>>) EXCEPT
            !.use = n, !.own = IF v0.pool THEN 0 ELSE size * v0.act]

(* Faulty variant: the pool's size is not passed up from the complex plan.  *)
RealNdimNodeUnsized(v, ks) == Plan(v, "REAL_NDIM", v.size, ks)

RealNdimNode(v, ks) == Plan(v, "REAL_NDIM", ks[IF v.forward THEN 2 ELSE 1].ct, ks)

(* A batch of N-dimensional problems is divided among the threads.          *)
RealBatchedNode(v, ks) ==
    [Plan(v, "REAL_MT_BATCHED", v.size, ks) EXCEPT !.n = Lesser(Fused(v).vecs[1].n, v.avl)]

NodeMade(v, ks) ==
    LET kind == KindOf(v) IN
    CASE kind = "BUFFERED" -> BufferedNode(v, ks)
      [] kind = "CTL1D" -> CTL1DNode(v)
      [] kind = "BATCHED" -> BatchedNode(v, ks)
      [] kind = "NDIM" -> NdimNode(v, ks)
      [] kind = "CT" -> Plan(v, "CT", ks[1].ct, ks)
      [] kind = "REAL_NDIM" -> RealNdimNode(v, ks)
      [] kind = "REAL_BATCHED" -> RealBatchedNode(v, ks)
      [] OTHER -> Plan(v, kind, v.size, ks)

Touched(p, ks) ==
    LET most == Max({0} \cup {ks[c].stretch : c \in DOMAIN ks})
    IN  CASE p.solver \in {"BUFFERED", "CTL1D"} -> p.use
          [] p.solver \in {"MT_BATCHED", "REAL_MT_BATCHED"} ->
                IF most = 0 THEN 0 ELSE (p.n - 1) * ks[1].ct + most
          [] OTHER -> most

NodeFor(v, ks) ==
    LET p == NodeMade(v, ks) IN [p EXCEPT !.stretch = Touched(p, ks)]

-----------------------------------------------------------------------------
(* A plan is a tree: the nodes, each at the way to it, the sequence of the  *)
(* children taken from the root.                                            *)

Kids(T, w) == [c \in 1 .. T[w].kids |-> T[Append(w, c)]]

IsTree(T) ==
    /\ IsFiniteSet(DOMAIN T) /\ <<>> \in DOMAIN T
    /\ \A w \in DOMAIN T :
        /\ w \in Seq(Nat) /\ Len(w) < Cardinality(DOMAIN T)
        /\ \A c \in 1 .. T[w].kids : Append(w, c) \in DOMAIN T
        /\ w # <<>> => Front(w) \in DOMAIN T /\ Last(w) \in 1 .. T[Front(w)].kids

(* The batched selector adjusts the node of its child when it has it.       *)
Adjusted(v, p) == IF KindOf(v) = "BATCHED" THEN WithConcurrency(p) ELSE p

Selected(T, w) ==
    LET made == NodeFor(T[w].ask, Kids(T, w)) IN
    /\ T[w] = IF w = <<>> THEN made ELSE Adjusted(T[Front(w)].ask, made)
    /\ [c \in 1 .. T[w].kids |-> T[Append(w, c)].ask] \in Asks(T[w].ask)

RootAsk(p) ==
    [dims |-> p.dims, vecs |-> p.vecs, bv |-> <<>>, avl |-> p.threads, act |-> 1,
     inPlace |-> p.inPlace, inner |-> TRUE, buffered |-> FALSE, pool |-> FALSE, size |-> 0,
     part |-> IF p.kind = "complex" THEN "complex" ELSE "real", forward |-> p.kind = "forward"]

(* The plans setup may build for problem p.                                 *)
PlanOf(T, p) ==
    /\ IsTree(T)
    /\ T[<<>>].ask = RootAsk(p)
    /\ \A w \in DOMAIN T : Selected(T, w)

-----------------------------------------------------------------------------
(* compute_exec_metadata: the pool the plan's calls use is that of the node *)
(* that reports the largest one.                                            *)

Reported(o) == o.act * o.ct * o.parts
Owners(T) == {w \in DOMAIN T : T[w].own > 0}
Owner(T) == CHOOSE w \in Owners(T) : \A u \in Owners(T) : Reported(T[u]) <= Reported(T[w])
LengthOf(T) == IF Owners(T) = {} THEN 0 ELSE T[Owner(T)].own

(* The plan as execution reads it.                                          *)
Read(p) == [solver |-> p.solver, n |-> p.n, act |-> p.act, ct |-> p.ct, use |-> p.use,
            kids |-> p.kids, stretch |-> p.stretch]
Layout(T) == [length |-> LengthOf(T), node |-> [w \in DOMAIN T |-> Read(T[w])]]
=============================================================================
