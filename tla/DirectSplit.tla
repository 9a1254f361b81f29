---------------------------- MODULE DirectSplit ----------------------------
(* The multi-threaded direct solvers: how the butterflies of one node of a  *)
(* plan are divided into kernel calls over threads, and which twiddle       *)
(* factors each butterfly finds in the buffer that setup laid out for it.   *)
(*                                                                          *)
(* A butterfly is named by its kernel, its point (its column of the table   *)
(* of factors) and its batch (its group, in a real plan).  A job is what    *)
(* one iteration of a parallel loop does, or what the calling thread does   *)
(* after the loop with what is left over (tail).                            *)
EXTENDS Integers, FiniteSets, ChunkRange

CONSTANT Problems   \* the nodes

(* kind: plain, rowmajor and colmajor are complex; direct and stage are     *)
(* real, stage being one of a Cooley-Tukey decomposition.  n is vecs[0].n,  *)
(* batches is batched_vecs[0].n (1 if absent), freq and groups describe the *)
(* stage, isa the SIMD level of the kernel, avl the threads available.      *)
ProblemType ==
    [kind: {"plain", "rowmajor", "colmajor", "direct", "stage"},
     n: Nat \ {0}, batches: Nat \ {0}, freq: Nat \ {0}, groups: Nat \ {0},
     radix: Nat \ {0, 1}, isa: 0 .. 3, prec: {"float", "double"},
     forward: BOOLEAN, avl: Nat \ {0, 1}]

ASSUME ProblemsAssumption == Problems \subseteq ProblemType

VARIABLES problem,   \* the node being executed
          table,     \* its twiddle factors: pairs of a place and what setup wrote there
          todo,      \* jobs not done yet
          done,      \* butterflies computed, with the factors they were given
          again      \* butterflies computed more than once

vars == <<problem, table, todo, done, again>>


Most(a, b) == IF a < b THEN b ELSE a

-----------------------------------------------------------------------------
(* Kernels and tables                                                       *)

(* Butterflies a kernel takes at once: sets_complex_s, sets_complex_d,      *)
(* sets_real_s, sets_real_d of the kernel table.                            *)
NumSets(isa, prec) == (IF prec = "float" THEN <<1, 2, 4, 8>> ELSE <<1, 1, 2, 4>>)[isa + 1]
NumSetsReal(isa, prec) == (IF prec = "float" THEN <<1, 4, 8, 16>> ELSE <<1, 2, 4, 8>>)[isa + 1]

(* A tile is a run of columns that one register holds.                      *)
Span(t) == t.start .. t.start + t.width - 1
Tile(first, next) ==
    IF first = next THEN {} ELSE {[start |-> first, width |-> next - first]}
FullTiles(n, w) == {[start |-> i * w, width |-> w] : i \in 0 .. (n \div w) - 1}

(* Setup packs m columns for registers of width rw, what is left over for   *)
(* ever narrower ones.                                                      *)
TwiddleTiles(m, rw, prec) ==
    LET w256 == NumSets(2, prec)
        w128 == NumSets(1, prec)
        c0 == (m \div rw) * rw
        c1 == IF rw > w256 /\ m - c0 >= w256 THEN c0 + w256 ELSE c0
        c2 == IF rw > w128 /\ (IF prec = "float" THEN m - c1 >= w128 ELSE (m - c1) % 2 = 1)
              THEN c1 + w128 ELSE c1
    IN  FullTiles(m, rw) \cup Tile(c0, c1) \cup Tile(c1, c2)
            \cup (IF prec = "float" THEN Tile(c2, m) ELSE {})

(* How a kernel called for n butterflies walks over them: whole registers,  *)
(* then the tails that are compiled in for its SIMD level.                  *)
KernelTiles(n, isa, prec) ==
    LET s == NumSets(isa, prec)
        w256 == NumSets(2, prec)
        c0 == (n \div s) * s
        c1 == IF isa = 3 /\ n - c0 >= w256 THEN c0 + w256 ELSE c0
        c2 == IF prec = "float" /\ isa >= 2 /\ n - c1 >= 2 THEN c1 + 2 ELSE c1
        c3 == IF isa >= (IF prec = "float" THEN 1 ELSE 2) /\ (n - c2) % 2 = 1 THEN c2 + 1 ELSE c2
    IN  FullTiles(n, s) \cup Tile(c0, c1) \cup Tile(c1, c2) \cup Tile(c2, c3)

(* Place of factor k of a column in a tile: row by row.                     *)
Place(t, column, k, radix) == (radix - 1) * t.start + (k - 1) * t.width + (column - t.start)

-----------------------------------------------------------------------------
(* A real stage                                                             *)

(* Points of a group that are complex, which leaves out DC and, if there is *)
(* one, the half point; set_kernel_count_in_each_group.                     *)
IsEven(p) == p.freq % 2 = 0
C2CPerGroup(p) == (p.freq \div 2) - (IF IsEven(p) THEN 1 ELSE 0)
C2CCount(p) == IF p.kind = "direct" THEN 0 ELSE C2CPerGroup(p) * p.groups
R2HCCount(p) ==
    IF p.kind = "direct" THEN p.n ELSE IF IsEven(p) THEN 0 ELSE p.groups
R2HCFCount(p) == IF p.kind # "direct" /\ IsEven(p) THEN p.groups ELSE 0

Asymmetric(p) == C2CPerGroup(p) >= p.groups

(* Faulty variant: a share for the real kernels is forgotten.               *)
BatchWeightC2COnly(p) == IF C2CCount(p) = 0 THEN R2HCCount(p) + R2HCFCount(p) ELSE C2CCount(p)

(* A real-to-complex butterfly is half the work of a complex one.           *)
BatchWeight(p) == C2CCount(p) + ((R2HCCount(p) + 1) \div 2) + R2HCFCount(p)

(* Threads of the node, as setup sets them: no more than there is work for. *)
NumThreads(p) ==
    Least(p.avl,
          IF p.kind = "stage"
          THEN C2CCount(p) + R2HCFCount(p) +
               (IF C2CCount(p) > 0 THEN (R2HCCount(p) + 1) \div 2 ELSE R2HCCount(p))
          ELSE IF p.kind \in {"rowmajor", "colmajor"} THEN Most(p.n, p.batches) ELSE p.n)

(* The complex kernels get their share rounded down, the real ones the rest.*)
ThreadsC2C(p) == (NumThreads(p) * C2CCount(p)) \div BatchWeight(p)
ThreadsReal(p) == NumThreads(p) - ThreadsC2C(p)
ThreadsOuter(p) == Least(ThreadsC2C(p), IF Asymmetric(p) THEN p.groups ELSE C2CPerGroup(p))
ThreadsInner(p) == IF Asymmetric(p) THEN 1 ELSE ThreadsC2C(p) \div ThreadsOuter(p)

(* Thread counts of the parallel loops that an execution enters.            *)
Regions(p) ==
    IF p.kind # "stage" THEN {NumThreads(p)}
    ELSE {ThreadsReal(p)} \cup
         (IF ThreadsC2C(p) = 0 THEN {}
          ELSE {ThreadsOuter(p)} \cup
               (IF p.forward /\ ~Asymmetric(p) THEN {ThreadsInner(p)} ELSE {}))

-----------------------------------------------------------------------------
(* The table of twiddle factors                                             *)

(* Faulty variant: setup takes a balanced stage for a symmetric one.        *)
PackedStrictly(p) ==
    IF p.kind = "stage" THEN C2CPerGroup(p) > p.groups ELSE p.kind = "plain"

(* Setup packs the columns where one call works on butterflies of several   *)
(* points, and puts them one after the other where all have the same point. *)
Packed(p) == IF p.kind = "stage" THEN Asymmetric(p) ELSE p.kind = "plain"

Columns(p) == IF p.kind = "stage" THEN C2CPerGroup(p) ELSE p.n

(* What setup writes: factor k of a column.                                 *)
Table(p) ==
    IF Packed(p)
    THEN UNION {{<<Place(t, column, k, p.radix), <<column, k>>>> :
                    column \in Span(t), k \in 1 .. p.radix - 1} :
                t \in TwiddleTiles(Columns(p), NumSets(p.isa, p.prec), p.prec)}
    ELSE {<<column * (p.radix - 1) + (k - 1), <<column, k>>>> :
             column \in 0 .. Columns(p) - 1, k \in 1 .. p.radix - 1}

-----------------------------------------------------------------------------
(* Kernel calls                                                             *)

(* A call works on count butterflies from (point, batch) on, which differ   *)
(* in their point (over = "points") or in their batch; its twiddle pointer  *)
(* is at base, and advances only if wide (load_multi_cols).                 *)
CallC2C(point, batch, over, count, base, wide) ==
    [kernel |-> "c2c", point |-> point, batch |-> batch, over |-> over,
     count |-> count, base |-> base, wide |-> wide]
CallReal(kernel, batch, count) ==
    [kernel |-> kernel, point |-> 0, batch |-> batch, over |-> "batches",
     count |-> count, base |-> 0, wide |-> FALSE]

Butterfly(c, j) ==
    IF c.over = "points" THEN <<c.kernel, c.point + j, c.batch>>
                         ELSE <<c.kernel, c.point, c.batch + j>>

FactorsAt(place) == {e[2] : e \in {f \in table : f[1] = place}}

(* What a call computes: a real kernel reads no factors.                    *)
Computed(p, c) ==
    IF c.kernel = "c2c"
    THEN UNION {{[of |-> Butterfly(c, j),
                  with |-> [k \in 1 .. p.radix - 1 |->
                               FactorsAt(c.base + (IF c.wide THEN Place(t, j, k, p.radix)
                                                             ELSE k - 1))]] :
                    j \in Span(t)} :
                t \in KernelTiles(c.count, p.isa, p.prec)}
    ELSE {[of |-> Butterfly(c, j), with |-> <<>>] : j \in 0 .. c.count - 1}

-----------------------------------------------------------------------------
(* Jobs                                                                     *)

(* Faulty variant: the last piece is taken for a whole one.                 *)
PiecesRoundedUp(n, w) ==
    {[first |-> i * w, count |-> w, tail |-> FALSE] : i \in 0 .. ((n + w - 1) \div w) - 1}

(* n in pieces of w and what is left over.                                  *)
Pieces(n, w) ==
    {[first |-> i * w, count |-> w, tail |-> FALSE] : i \in 0 .. (n \div w) - 1}
    \cup (IF n % w = 0 THEN {}
          ELSE {[first |-> (n \div w) * w, count |-> n % w, tail |-> TRUE]})

Job(lane, tail, calls) == [lane |-> lane, tail |-> tail, calls |-> calls]

Sets(p) == NumSets(p.isa, p.prec)

(* execute_mt_direct_solver                                                 *)
PlainJobs(p) ==
    {Job(<<"c2c">>, s.tail,
         {CallC2C(s.first, 0, "points", s.count, (p.radix - 1) * s.first, TRUE)}) :
        s \in Pieces(p.n, Sets(p))}

(* All batches of one point have the same factors.                          *)
BatchCall(p, i, s) == CallC2C(i, s.first, "batches", s.count, (p.radix - 1) * i, FALSE)
BatchJob(p, lane, i, s) == Job(lane, s.tail, {BatchCall(p, i, s)})

(* execute_mt_direct_batched_rowmajor_solver                                *)
RowMajorJobs(p) ==
    {Job(<<"c2c">>, s.tail, {BatchCall(p, i, s) : i \in 0 .. p.n - 1}) :
        s \in Pieces(p.batches, Sets(p))}

(* n in as many blocks of whole registers as there are threads, some of     *)
(* them empty, and what is left over.                                       *)
Blocks(n, w, threads) ==
    LET block_sz == (n \div w) \div threads
        rem_blocks == (n \div w) % threads
        thread_iters(b) == block_sz + (IF b < rem_blocks THEN 1 ELSE 0)
    IN  {[first |-> BlockBegin(b, block_sz, rem_blocks) * w,
          count |-> thread_iters(b) * w, tail |-> FALSE] : b \in 0 .. threads - 1}
        \cup {s \in Pieces(n, w) : s.tail}

(* execute_mt_direct_batched_colmajor_solver                                *)
ColMajorJobs(p) ==
    {BatchJob(p, <<"c2c">>, i, s) :
        i \in 0 .. p.n - 1, s \in Blocks(p.batches, Sets(p), NumThreads(p))}

(* execute_real_mt_r2c_kernels                                              *)
RealJobs(p) ==
    LET kernel == IF R2HCCount(p) # 0 THEN "r2hc" ELSE "r2hcf"
        count == IF R2HCCount(p) # 0 THEN R2HCCount(p) ELSE R2HCFCount(p)
    IN  {Job(<<"real">>, s.tail, {CallReal(kernel, s.first, s.count)}) :
            s \in Pieces(count, NumSetsReal(p.isa, p.prec))}

(* execute_real_mt_c2c_kernels: a loop over the points with one over the    *)
(* groups inside, or, if a group has as many points as there are groups, a  *)
(* loop over the groups with one call for all points of a group.            *)
GroupJobs(p) ==
    {Job(<<"c2c">>, FALSE, {CallC2C(0, g, "points", C2CPerGroup(p), 0, TRUE)}) :
        g \in 0 .. p.groups - 1}
PointJobs(p) ==
    {BatchJob(p, <<"c2c", i>>, i, s) :
        i \in 0 .. C2CPerGroup(p) - 1, s \in Pieces(p.groups, Sets(p))}
ComplexJobs(p) == IF Asymmetric(p) THEN GroupJobs(p) ELSE PointJobs(p)

Jobs(p) ==
    CASE p.kind = "plain" -> PlainJobs(p)
      [] p.kind = "rowmajor" -> RowMajorJobs(p)
      [] p.kind = "colmajor" -> ColMajorJobs(p)
      [] p.kind = "direct" -> RealJobs(p)
      [] p.kind = "stage" -> RealJobs(p) \cup (IF ThreadsC2C(p) > 0 THEN ComplexJobs(p) ELSE {})

-----------------------------------------------------------------------------
(* Execution                                                                *)

Init ==
    /\ problem \in Problems
    /\ table = Table(problem)
    /\ todo = Jobs(problem)
    /\ done = {}
    /\ again = {}

(* A parallel loop does its iterations in any order; what is left over comes*)
(* after the barrier that ends the loop.                                    *)
RunJob(job) ==
    LET results == UNION {Computed(problem, c) : c \in job.calls}
    IN  /\ job.tail => \A other \in todo : other.lane = job.lane => other.tail
        /\ todo' = todo \ {job}
        /\ done' = done \cup results
        /\ again' = again \cup ({r.of : r \in results} \cap {d.of : d \in done})
        /\ UNCHANGED <<problem, table>>

Next == \E job \in todo : RunJob(job)

Spec == Init /\ [][Next]_vars

-----------------------------------------------------------------------------
(* Properties                                                               *)

(* The butterflies of the node, as the transform has them: a real group of  *)
(* frequency f has (f - 1) \div 2 complex points.                           *)
Expected(p) ==
    CASE p.kind = "plain" -> {"c2c"} \X (0 .. p.n - 1) \X {0}
      [] p.kind \in {"rowmajor", "colmajor"} ->
            {"c2c"} \X (0 .. p.n - 1) \X (0 .. p.batches - 1)
      [] p.kind = "direct" -> {"r2hc"} \X {0} \X (0 .. p.n - 1)
      [] p.kind = "stage" ->
            ({"c2c"} \X (0 .. (p.freq - 1) \div 2 - 1) \X (0 .. p.groups - 1))
            \cup ({IF p.freq % 2 = 1 THEN "r2hc" ELSE "r2hcf"} \X {0} \X (0 .. p.groups - 1))

(* Type invariant.                                                          *)
TypeOK ==
    /\ problem \in ProblemType
    /\ table = Table(problem)
    /\ todo \subseteq Jobs(problem)
    /\ {d.of : d \in done} \subseteq Expected(problem)
    /\ again \subseteq {d.of : d \in done}

(* However a node is divided over threads, registers and tails, no butterfly*)
(* is computed by two jobs, in which case an in-place transform would be    *)
(* applied twice, and when all jobs are done each has been computed         *)
(* (execute_mt_direct_solver and its batched and real variants).            *)
EachOnce ==
    /\ again = {}
    /\ todo = {} => {d.of : d \in done} = Expected(problem)

(* Every complex butterfly reads the twiddle factors of its own point, in   *)
(* the layout that setup chose, at the place that the thread that computes  *)
(* it and the register or tail of the kernel look for them                  *)
(* (compute_twiddle_buffer, execute_*_solver, the twid_c2c kernels).        *)
OwnTwiddles ==
    \A d \in done : d.of[1] = "c2c" =>
        d.with = [k \in 1 .. problem.radix - 1 |-> {<<d.of[2], k>>}]

(* No parallel loop is entered with zero threads, which OpenMP does not     *)
(* define: the shares of the complex and the real kernels of a stage leave  *)
(* at least one thread to each, and the inner loop gets one as well         *)
(* (execute_real_mt_direct_solver, execute_real_mt_c2c_kernels).            *)
RegionsHaveThreads == 0 \notin Regions(problem)
=============================================================================
