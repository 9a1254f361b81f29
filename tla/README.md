# A TLA+ development for AOCL-FFTZ

AOCL-FFTZ computes discrete Fourier transforms. A caller describes a problem (dimensions, batch
loops, strides, precision, direction, placement, number of threads); `aoclfftz_setup_*` builds a
*handle* whose plan is a tree of solvers; `aoclfftz_execute` and `aoclfftz_execute_io` run the
tree; `aoclfftz_destroy` releases it. The numerical kernels are straight-line code and well covered by the
test-suite. What is hard is everything around them: which memory a solver may touch while others run, who moves which
pointer, how work is divided among threads, and what a failure leaves behind. This directory models that part, checks it with
TLC and proves the parts that should hold for every size.

## 1. Inventory

### Components

| Component | State | Operations | Hard behaviours | What makes it correct |
|---|---|---|---|---|
| Execution API (`api/aoclfftz_api.c`, `core/common/memory_manager.h`) | the handle: plan, `base_ctx`, `exec_metadata->setup_buffers_acquired`; per call: `mutable_ctx`, `scratch_slab` | setup, `aoclfftz_execute`, `aoclfftz_execute_io`, destroy | concurrent `execute_io` calls on one handle, failing `malloc`, failing solvers | one owner of the setup-time regions; no scratch byte shared; slabs freed once; results right; no call waits for another |
| Executor (`core/executor.c`) | OpenMP nesting depth | `execute` | nested parallelism | it restores what it changed |
| Setup and validation (`selector/selector.c`, `api/validate_problem.h`) | the problem copy, globals `sel_fp` | validate, copy, choose, `compute_exec_metadata` | strides at their limits, early returns | what is recorded equals what was allocated; refusals leave nothing behind |
| Complex and real selectors (`selector/complex/*`, `selector/real/*`) | candidate plans and their costs, `avl_threads`, `active_threads`, `ct_buf_size` | one function per kind of solver; the search for a Cooley-Tukey factorization | sizes depend on the nesting of loops and threads; candidates are built in reused nodes | pools are long enough for every plan they may choose; the plan handed out is the first of the cheapest, whole |
| Complex batched, N-dimensional, Cooley-Tukey, buffered solvers (`core/solvers/complex/*`) | `ct_offset`, `bs_slot_idx` in the context of each run | setup and execute of each | parallel loops nested in parallel loops | simultaneous runs hold disjoint memory inside the pool |
| Bluestein (`bluestein_solver_dft.c`, `mt_bluestein_solver_dft.c`) | slots of `bs_in`, `bs_out`; direction flag in the context | copy in, chirp, two inner transforms, scaling, copy out | dispatches to workers, several invocations on one pool, inner failure | every point goes once through each step; own slot only; aligned kernels |
| Real batched and size-one solvers (`core/solvers/real/*`) | data pointers *inside the plan*, clones per thread | setup, walk of the loops | pointers moved and restored, clones shared by iterations, failures in a parallel loop | each transform is done once, in place; the plan is as before |
| Real N-dimensional, Cooley-Tukey, direct, buffered solvers | auxiliary buffers in the plan and its clones; the pools of the complex plan of the other dimensions | setup, `post_process_real_solution`, execute | clones made from the inside out that share buffers and a subtree; sizes passed up through nodes that have no pool | each thread has slots of its own, stages hand their data on, no two threads meet in a pool |
| Multi-threaded direct solvers (`mt_direct_solver_*.c`) | none of their own; the table of twiddle factors that setup laid out | execute | butterflies divided into kernel sets over threads, leftovers at two levels, threads shared between complex and real kernels, a table packed for one way of being called | each butterfly once, with its own factors, and no loop without threads |
| Split radix (`sr_solver_dft.c`) | copy buffer `sr_input_copy` | setup, execute | in-place call on an out-of-place plan | refuses what it cannot do |
| Plan-tree memory (`core/common/memory_manager.c`, `selector/selector_utils.c`) | ownership flags of every pointer | alloc, copy, transfer, free | a failure between two transfers; destructors that decide by a node's type and place what it owns | each block freed exactly once, none read after |
| Twiddle factors and kernels (`twiddle.c`, `kernels/`) | the table of a node | setup lays it out, kernels walk over it | registers and tails of several widths must agree on both sides | a kernel reads what setup wrote for that column |
| Strides, registry, dispatcher, transpose, utilities | tables | init | numeric | numeric |
| FFTW wrapper, benchmarks, tests, examples | wraps a handle | translation | none of its own | the problem descriptor is the one meant |

### How they interact

Everything is a function call in the caller's thread or inside an OpenMP region; there are no
messages. The API calls the selector, which calls itself for the sub-problems of a solver and the `setup_*`
function of each candidate. `executor->execute` calls the root solver, and each
solver its children through function pointers. The solvers of a *complex* plan are
re-entrant: all that changes during execution is in `aoclfftz_mutable_ctx_t`, which a parallel
solver copies per thread. A *real* plan is not: the data pointers are in the plan's own
decomposition schemes and the solvers move them. Shared state is therefore
(a) the setup-time scratch regions and the flag `setup_buffers_acquired`, between calls;
(b) the ct pool and the Bluestein pools, between the threads of one call;
(c) the plan's pointers, between consecutive calls on a real plan.

The hazards of each are in `PROJECT.json`, each with the line where it bites and the properties
that would catch it; those without a property say what is missing.

## 2. Modules and how they correspond to the code

```
FftCalls <--implemented by-- SharedHandle <-- SharedHandle_proofs   (theorems)
              (SharedHandleRefines)    |     \-- SharedHandleRefines_proofs (theorems)
                                       \-- MCSharedHandle           (TLC)
FuseVecs <-- RealBatch   <-- MCRealBatch
   |  |        \-------- RealBatch_proofs                          (theorems)
   |  \------ FuseVecs_proofs, used by the two next to it           (lemmas)
   \-------- ScratchPlans <-- MCScratchPool
              ScratchPool <----/
              \-------- ScratchPool_proofs, of both                (theorems)
PlanHeap <-- CtSelection <-- SetupMemory <-- MCSetupMemory
   \------- RealClones  <------/   |
CheapestPlan <--implemented by-----/
ChunkRange <-- Bluestein <-- MCBluestein
   | |          \-------- Bluestein_proofs                         (theorems)
   | \------- ChunkRange_proofs                                     (theorems)
   \---- DirectSplit <-- MCDirectSplit
              \-------- DirectSplit_proofs                          (theorems)
```

### SharedHandle: calls that share a handle

One action per step of the API. `Setup(p, in, out)`, `Destroy`, `Execute(t)`, `ExecuteIO(t, in, out)` and `ExecuteIONull(t)`
start calls; `ClaimSetupBuffers` is the compare-and-exchange of `aoclfftz_execute_io`,
`AllocNothing`, `AllocPerCallScratch`, `AllocFails` are `alloc_per_call_scratch`,
`SolverPass` and `CopyBufferRefused` the call of the executor, `ReleaseSetupBuffers` and `FreeScratchSlab` the two ways out.

| Variable | Code |
|---|---|
| `acquired` | `exec_metadata->setup_buffers_acquired` |
| `ctx[t]` | the local `mutable_ctx`, a copy of `base_ctx` with `in`/`out` replaced and, for a call that lost the claim, the regions carved out of the slab |
| `slab[t]` | the local `scratch_slab` |
| `ds` | `in`/`out` of the root decomposition scheme, which a real plan reads and `execute_io` overwrites |
| `mem`, `buf` | contents of scratch memory, byte by byte, and of the caller's buffers |

The solver is abstracted to a *route*: the regions through which the data of a call passes, in
order. Each pass records whose data, after how many passes, the region now holds, and
yields `Junk` if it does not find what the previous pass of the same call left. So sharing, freeing
or mis-carving a region is visible in the result of a call. What the caller must do (not to
overlap calls of `aoclfftz_execute` or on a real plan, not to hand one buffer to two calls, to keep to the plan's placement) is in the guards
`MayOverlap`, `BuffersFree` and `PlacementServed`.

`FftCalls` is what a caller may rely on: a call starts, at some moment its output becomes the
transform of its input or the call has failed, it returns. It has no claim, slab or scratch. `SharedHandleRefines` maps
`SharedHandle` to it; all routes that are not finished map to an output that is not yet defined.

### RealBatch: pointers that move

`FuseVecs!fuse_vecs` joins loops that continue each other; `SetupVecs` scales the strides of the
complex side. `Descend`, `RunBatch`, `BatchFails`, `Climb` are the recursion over the loops of `execute_real_batched_solver_internal`;
`Fork`, `TakeBatch`, `RunChild`, `Join` the parallel innermost loop of its multi-threaded sibling; `SizeOne`
the size-one solver. `root` and `child[t]` are the pointers in the plan and in the clone of thread
`t`. A transform is recorded as a visit, in a bag, of the position it finds in *its own* pointers, so a
pointer that was not restored, or that another thread moved, shows up as a wrong or double visit.

### Bluestein and ChunkRange

Both Bluestein solvers are one action per step; the element-wise steps are dispatches to `Threads` workers, each with the chunk that
`chunk_range` gives it, and end in `Barrier`. An element holds whose datum it is and which
stage of the algorithm it has reached; a step applied to the wrong stage, in the wrong direction
or to another call's element gives `bad`. Several invocations (the threads of a batched
parent) share the pools, each with the slot of its `bs_slot_idx`.

### ScratchPlans and ScratchPool: plans and their pools

`ScratchPlans` is setup: the rules that relate a node of a plan to its children. A node has an *ask*, the problem and the sizes its caller passes down;
`KindOf` is the solver the selector takes for it, `Asks` what that solver asks of its children, for any cost model, and `NodeFor` the node
`setup_*` makes when it has them, with its sizes. `PlanOf(T, p)` says that the tree `T` is a plan for problem `p`: finite, with the problem at the root, and every node
made by those rules from the nodes below it. The real N-dimensional node (`RealNdimAsks`) runs the lines of real points, which use no pool, and the complex plan of the other
dimensions; it has no pool but passes `ct_buf_size` up to the parallel batch, which spaces its threads by it. `Owner` and `Reported` are
`compute_exec_metadata`. `Layout` gives a plan the form execution reads: the length of the pool, and each node at the way to it. `MCScratchPool` enumerates the
plans by recursion, and TLC checks that each of them is a `PlanOf` its problem; so the recursion, about which nothing can be proved, stays outside the modules the proofs use.

`ScratchPool` executes a plan, any plan: `Roots` is a parameter, so that what is proved about it holds for plans no run enumerates.
A run is named by the children and threads on the way to it (`runs` maps it to its offset, slot, output and step); `Call` starts a child, or a team of
threads each with the offset and slot of `ThreadCtx`, `Return` ends a run. `Held` is what a run may touch. Work below a
Bluestein node is in that node's own slot and left out; permuted output, transposes and split radix do not use the pool.
`SizesFit` is what links the two halves: what execution needs of the sizes of each node and its children, a condition on one parent and one child
at a time (for plans of one-dimensional problems it is proved from the rules, section 5). The field `stretch` of a node is not in the program: it is the part of the pool the node and those below it touch, against which the sizes are compared.

### SetupMemory: how a plan comes into being and goes

`PlanHeap` is the memory manager. A heap is a value, a sequence of blocks with a flag; `New`, `Free`, `CopySolutionObj`,
`DestroySolutions`, `DestroySelector`... are functions from heaps to heaps, so that the other modules can call them in the order
the code does, several in one step. A block is a solution, an array of solutions, a selector, or a buffer; the fields of a solution
are the pointers and ownership flags of the code. The twiddle tables, the Bluestein and the transpose buffers are no
blocks: each has one owner from birth and is never handed on. `aux_buffer_1` and `aux_buffer_2` are allocated, copied and freed together
and are one block. `filled` is not in the program: it says whose candidate's data a node holds.

| Module | Variable | Code |
|---|---|---|
| `PlanHeap` | `heap`, `pc`, `ret`, `prob` | the heap, the statement setup is at, the status of the selector, the problem |
| `CtSelection` | `ct` | the local variables of `selector_ct_dft` and `selector_ct_rdft`: the node, the candidate's selectors, the loop over radices, the best cost |
| `RealClones` | `mt` | the batched nodes that `post_process_real_solution` has still to serve, and the thread it copies for |
| `SetupMemory` | `sel`, `model`, `root`, `t`, `u` | the handle's selector, the driver's, the root of the search, the temporary selectors of the root's own `selector_*` function |

An action is a stretch of the code up to the next allocation that may fail or call of another selector: `Start`, `Driver`, the selection of the root,
`CtPrepare`, `CtRenew`, `CtSetup`, `CtSelectM`, `CtSelectR`, `CtAdopt` and `CtDiscard` for each radix, the twiddle tables, the metadata, the copies,
`destroy_handle`. Every allocation may fail. There are failures the code does not survive; `CodeSurvives` of `CtSelection` and `Undone` of `RealClones` tell
them from the others, and with `Mishandled = FALSE` the actions leave out those and no others (section 6).

`CheapestPlan` is what setup promises: candidates are examined in order, and the handle holds the first of the cheapest in all its nodes, or
there is no handle. `SetupMemory` implements it, by a mapping that reads the candidate kept off the nodes (`filled`), not off the
variable that remembers the best cost. Ties are decided the same way in every setup, on which bit-reproducible plans rely.

### DirectSplit: butterflies, kernel calls and threads

One node of a plan, executed by a direct solver. A *butterfly* is named by its kernel, its point and its batch; a *job* is one
iteration of a parallel loop, or what the calling thread does after the loop with the leftover.

| Variable | Code |
|---|---|
| `problem` | the decomposition scheme of the node with the kernel chosen for it: `vecs[0].n`, `batched_vecs[0].n`, radix, frequency and groups of a real stage, SIMD level, precision, threads |
| `table` | `twiddle->twiddle_buf_ptr`, as a relation between places and factors |
| `todo` | iterations the team has not executed, leftovers not done |
| `done`, `again` | what the kernels computed, with the factors they read |

`PlainJobs`, `RowMajorJobs`, `ColMajorJobs`, `RealJobs`, `GroupJobs` and `PointJobs` are the loops of `mt_direct_solver_dft.c` and
`mt_direct_solver_rdft.c`; `Pieces` and `Blocks` the two ways they divide a count. `RunJob` does a job; a leftover waits for the loop it follows. The
thread numbers (`NumThreads`, `ThreadsC2C`, `ThreadsOuter`, `ThreadsInner`) are those setup and the solvers compute, `Regions` the ones that
reach OpenMP. `TwiddleTiles` and `Table` are setup's side of the table (`compute_twiddle_buffer_*`), `KernelTiles`, `Place` and
`FactorsAt` the kernel's: the two sides are written in different files, from different conditions, and `OwnTwiddles` compares them.

## 3. Runs

| Run | Instance | Question it answers |
|---|---|---|
| `shared_handle_safety` | 3 threads, 4 buffers, 2 slab addresses, six plans (no scratch, Cooley-Tukey, in-place Bluestein, N-dimensional split radix with all regions, out-of-place split radix, real) | Has the claim one owner; is scratch exclusive; are regions aligned, disjoint, inside live blocks; are slabs neither leaked nor shared; is the result of each call right? |
| `shared_handle_progress` | 2 threads, 3 buffers | Does the handle implement `FftCalls`; does a call allocate only under contention; does a call return, and release its claim, when every other thread has stopped for ever? |
| `real_batch` | loops of up to three levels that fuse, fuse on one side or not at all, both directions, in and out of place, 1 and 3 threads, 3 calls on 2 pairs of buffers | Is each position transformed once; is the plan as before; is a failure told exactly when there was one; does a call return with fewer threads than asked for? |
| `bluestein` | N = 4, M = 7, alignment 2, 3 workers, `NumCalls` = 2, output contiguous or not | Does each point go once through each step; are slots apart and kernels aligned; does failure keep the output; do calls end? |
| `scratch_pool` | complex lines, columns, planes and cubes with 1, 3 and 4 threads, in and out of place; batches of real planes, cubes and a four-dimensional problem with 2 and 4 threads, forward and backward | Do the sizes setup gives the nodes fit together; do simultaneous runs of solvers hold disjoint memory inside the pool? (Deadlock is checked: no execution gets stuck before it ends.) |
| `direct_split` | radix 3; complex nodes of up to 15 points or 18 batches, real stages of frequency up to 8 and up to 4 groups; every SIMD level and precision; 2 to 4 threads | Is each butterfly computed once; does it read its own factors; does each parallel loop get a thread? |
| `plan_memory` | each kind of root over a search of 2 or 3 radices with costs 1 and 2, in and out of place, reproducible or not; real plans with threads that nest batched nodes, N-dimensional nodes and chains of 2 and 3 stages; any allocation may fail | Is a block freed twice, read after it was freed, or lost; do the copies of the threads share only what they may; do stages hand data on; is the plan handed out the first of the cheapest? |
| `real_execute`, `inplace_mismatch`, `real_sizeone_drift`, `pool_strided`, `setup_failure` | as small as shows it | Each exhibits one divergence, see section 6. |

`CHECK_DEADLOCK FALSE` is set only where the system really may stop: `real_batch` after its bounded number of calls,
`bluestein` once its calls have returned, `direct_split` when the node has been executed, `plan_memory` and `setup_failure` after the
plan has been destroyed.

### Why the bounds are enough

* Three threads are one owner and two losers, so that losers meet each other as well as the owner; two slabs are one
  per loser. Two slabs suffice as a third call holds the claim or waits for an address; an allocation may fail in any
  state anyway. Four buffers let in- and out-of-place calls overlap.
* Region sizes are one or two alignment units, one of them unpadded (`srCopy = 1`, `Align = 2`), which is when offsets can go wrong.
* Three clones and loops of one to three batches give more, as many and fewer batches than threads; the teams of
  OpenMP range over every size up to the one asked for. Three calls show a pointer that drifts over the second and
  third call. `MaxCalls` is the only counter bound.
* Seven points, two per aligned block and three workers give uneven blocks, a clamped last block, and, for four
  points, a worker without work; that the division is right for *every* size is proved (section 5).
* The sizes 17, 34 (Bluestein, alone and below Cooley-Tukey), 18, 45, 90 (one and several levels) with the kernel sizes the
  library registers make the selector use every kind of solver; 3 and 4 threads divide unevenly and nest two deep. A real batch of two
  with 4 threads leaves two for the complex plan below it; its parallel batch over an N-dimensional node is then the second level.
* Three radices let a candidate be adopted, another rejected and a third adopted over the first, in any order of two costs, ties among
  them. `MaxCost` is the only bound of that search. Two parallel batched nodes, one below an N-dimensional node, make copies of copies; chains of two and three
  stages end on either side of the buffers.
* The widest register holds 8 complex floats. Counts up to 15 and 18 are one and two such registers and every possible leftover
  in each of the tails; nodes of more than `MaxJobs` = 8 jobs are left out, since their orders multiply and show nothing new (for
  every size, `EachOnce` and `RegionsHaveThreads` are proved). Radix 3 has two factors per column, the least that tells rows from columns.

Symmetry (threads, buffers, slab addresses) is used only where no liveness is checked.

### Fairness

* `LoneSpec` assumes weak fairness of the steps *inside a call of one thread*: the operating system runs a thread
  that is not blocked. Nothing makes a caller call, and no other thread is assumed to run; the code must be
  free of waiting, and it is: a loser of the claim allocates instead.
* `RealBatch!FairSpec` and `Bluestein!FairSpec` assume that the thread of a call, and in a parallel region the team,
  is run. OpenMP promises it: a region ends when every thread of the team has reached its barrier. `RealBatch` does not assume that the team has the size asked for.

## 4. What the properties say

Each property has, in its module, a comment that states it and names the code. For each one a faulty
variant of one of the model's definitions (a plain store for the compare-and-exchange, a forgotten restore,
a slot without padding, a barrier that does not wait, a status that a later success overwrites...) is kept beside the right one and
`PROJECT.json` lists them under `mutants`: with the variant in place TLC finds the property violated under the run's own configuration.

## 5. Proofs

All are checked by TLAPS. Apart from the two hypotheses named below (`CallersHeed`, `SizesFit`), which speak of behaviours, and two on the problems
of `RealBatch` (`SizeOneFuses`, `ProblemsApart`) and one on which plans are executed (`PlannedLine`, of `LinesFit`), they assume nothing but what is said of the constants:
`PlansAssumption` (a plan setup can build is well-formed: the CT and Bluestein pools are padded,
a used region has a size, the copy buffer exists exactly on in-place split-radix plans),
`AlignAssumption`, and `NamesAssumption` (addresses are distinct from each other and from NULL) of `SharedHandle`; `Sizes` of `Bluestein`
(the convolution is long enough: M >= 2N - 1); `CallsBound` and `ProblemsTyped` of `RealBatch`;
`ProblemsAssumption` of `DirectSplit`; `PlansTyped` of `ScratchPool` (a solver has the number of children it runs, and sizes are numbers);
`ProblemsTyped` and `KernelsTyped` of `ScratchPlans` (counts and strides are positive; there is an alignment). TLC evaluates them in each run.

`SharedHandle_proofs`, for any number of threads, buffers, slab addresses and any plans:

* `TypeCorrect`: `Spec => []TypeOK`.
* `ClaimOwnership`: `setup_buffers_acquired` is 1 exactly when a call holds the regions, and only one does.
* `SlabAccounting`: a slab lives exactly as long as the call that allocated it.
* `ScratchExclusion`: two running calls share no byte of scratch memory.
* `ContentionOnly`: a call leaves the allocation-free path only while another call holds the regions.
* `LiveRegions`: the regions of a running call lie aligned, one after the other, inside live memory. A setup-time region is as long
  as the plan says; the regions carved from a slab are as long, start after one another (`CarvedLayout`) and end within the slab's length
  (`SumAligned`: a sum of padded sizes is padded).

None of the last five is inductive alone. The inductive invariant is

    IInv == TypeOK /\ HandleHeld /\ RegionsKnown /\ RunsAlone /\ ClaimMatchesOwner /\ SlabsAccounted

`HandleHeld` (no destroy under a call) keeps the plan constant during a call; `RegionsKnown` says whose
regions a call has at each point of its way, which is what exclusion is really about; `RunsAlone`
accounts for the calls that use the setup-time regions *without* a claim (`aoclfftz_execute` and real plans),
which the caller may not overlap. Exclusion then follows by cases: two slabs are different blocks (`SlabsAccounted`), a
slab is not a setup-time block (`NamesAssumption`), two owners are one (`ClaimMatchesOwner`), a call
without claim is alone. The lemma `CellBlocks` reduces bytes to blocks.

* `ResultsCorrect`: `Spec => []ResultCorrect`, the transform of its own input in the output of every successful call. The
invariant is

    DataInv == CallsKnown /\ CallsApart /\ StepsLeft /\ DataKnown

`CallsKnown` says that a call in flight carries the buffers its caller named and that they suit the plan; `CallsApart`, that calls in flight together are
`execute_io` calls on a complex plan, none of which writes a buffer of another; `StepsLeft`, that a solver that runs has passes left; and `DataKnown`, that the place
its last pass left is filled with what the passes so far have made of the call's own input. A pass writes one place, so that `DataKnown` of the *other* calls is the whole
difficulty: it survives because of `ScratchExclusive` and `RegionsInLiveBlocks`, which is where the two proofs meet. No induction over the route is
needed: the invariant speaks of the pass the call is at.

`SharedHandleRefines_proofs` has the simulation of `FftCalls`, step by step: `HeededCallsImplement`, `Spec /\ []CallersHeed => ImplementsFftCalls`. The
hypothesis is two duties of the caller that the code does not enforce: no `aoclfftz_execute` on a real plan (an earlier `execute_io` may have left its own buffers there), and no in-place call on an
out-of-place plan with a split-radix node below an N-dimensional one. The runs `real_execute` and `inplace_mismatch` show behaviours without it and what they lead to; it cannot
be dropped. `HandleImplementsCalls` is the corollary without a hypothesis on behaviours, for complex plans that have no such node.

`ChunkRange_proofs`, for any number of threads and items and any alignment: `ChunksDisjoint`, `ChunksCover` and
`ChunksAligned`. Together they say that the chunks of a dispatch partition its items and start aligned,
and `Bluestein_proofs` rests on them.

`Bluestein_proofs`, for any number of calls and workers, any sizes and any alignment:

* `TypeCorrect`, and `KernelsAligned`: the scaling kernel is called at aligned addresses only (`ChunksAligned`).
* `ResultsExact`: a successful call returns points each of which went once through each step; `FailuresKeepOutput`: a failed one
  has written nothing to its output.
* `SlotsStayApart`: no step of a call changes an element in the slot of another.

The inductive invariant is `TypeOK` and, for each call on its own, `CallInv`: for every step of the algorithm, which stage each element of the slot
and of the output has reached, given the chunks that are still `left`. A worker takes the elements of its chunk one stage further and no other
(`ChunksDisjoint`), and when no worker is left the whole slot is there (`ChunksCover`). That the calls can be treated one by one is the lemma about
`Undisturbed`: a step of one call leaves what another's invariant speaks of alone, which comes down to the arithmetic of slots.

`RealBatch_proofs`, for any loops, threads and number of calls:

* `FailuresAreTold`: a call reports a failure exactly if one of its transforms failed, whatever succeeded at the same time.
* `TypeCorrect`, and `BatchesAreOwn`: the thread that runs a batch in a parallel loop finds that batch's position in its clone.
* `RootStays`: between calls the pointers of the plan are where setup or `execute_io` put them, *if* size-one problems fuse to a single loop (`SizeOneFuses`), which is
  what the run `real_sizeone_drift` shows to be needed.
* `FusingKeepsPositions`: `fuse_vecs` turns any loops into loops that name the same positions, and that name none twice if the given ones do not. Each step of the
  fold either appends a loop or lengthens the last one, whose iterations are then those of the two loops it replaces (`JoinedSpreads`): an iteration `k` of the long
  loop is a row and a column, `k = b * n + a`.
* `EachBatchOnce`: `Spec => []VisitsExact` under `SizeOneFuses` and `ProblemsApart`, a successful call has transformed exactly the positions the user's loops name, each once.
  `ProblemsApart` says that no problem names a position twice. Of a problem that does, the code transforms it as often as it is named, and the bag of `VisitsExact` cannot be met;
  nothing in setup refuses such loops. TLC evaluates both hypotheses on the problems of `real_batch`.

The inductive invariant of the first theorems is `LoopsTyped /\ TypeOK /\ Where /\ Holding`: `Where` says at which level the recursion can be at each step;
`Holding` gives each busy thread's clone from the batch it took. `EachBatchOnce` adds

    Asked /\ Place /\ Visited

`Place` ties the pointers to the counters: a position is the end of the path that the loop counters name (`At`), the child's is that of the counters as they are, the one a loop
saved is that of the counters with the inner loops at 0, and a parallel region's base that of its first batch. `Visited` says which
indices are done: those before the counters in the order of the walk (`Before`, `Upto`), and in a parallel region those of the batches that are neither pending nor taken. Since
different indices name different positions (`AtInjective`, from `ProblemsApart`), a visit adds a position that was not there. The rest is how the order moves: another iteration (`UptoBump`),
the end of a loop (`UptoWrap`), the start of an inner one (`BeforeInner`), the batches of a region in any order (`BatchIndex`).

Paths, folds and the walk need induction on the number of loops. The library's induction theorems take an operator as a parameter, which the provers cannot instantiate; the least-element
principle does not. Lemma `Induction` of `FuseVecs_proofs` states it for the members of a set, and `LeastOf` gets it from `NatLessThanWellFounded` and `WFMin`.
`FuseVecs_proofs` also has what the folds of `fuse_vecs` return.

`DirectSplit_proofs`, for every kind and size of node, every SIMD level and precision and any number of threads from two:

* `RegionsAlwaysHaveThreads`: no parallel loop is entered with zero threads. At least half of the work of a stage with complex points is complex
  (`StageWeights`: a real butterfly weighs half a complex one, and there is at least one point per group), so that of two or more
  threads the rounded-down share of the complex kernels is at least one and leaves one (`ShareBounds`). Rounding the other way, or forgetting a term of
  the weight, breaks it.
* `EachButterflyOnce`: `Spec => []EachOnce`. The inductive invariant is `Progress`: what has been computed is exactly what no job
  in `todo` has to compute. It rests on `JobsSplit` (the works of the jobs of a node partition its butterflies), proved per kind of
  node from `PiecesPartition` and `BlocksPartition` (which uses the boundary lemmas of `ChunkRange_proofs`), and on
  `KernelCovers` (a kernel leaves out none of the butterflies it is called for, whichever tails are compiled in).
* `TypeCorrect`: `Spec => []TypeOK`.

* `FactorsAreOwn`: `Spec => []OwnTwiddles`, each complex butterfly reads the factors of its own point. Three facts meet in it. What setup lays out and what the kernel
  walks over are the same tiles: `TwiddleTails` says that the tails of `compute_twiddle_buffer_*`, chosen by SIMD level and count, are those of the kernel, chosen by
  what is compiled in, for every count. Different tiles have different places (`TilesApart`, `PlacesApart`), so that a place has one factor.
  And a kernel called for a piece of the columns finds them where a kernel called for all of them would (`PiecesMoved`), or else the table is packed for a single call
  and `Fits` says that this is how it is called. Changing any one side (a width, a condition on a tail, the packing) breaks the proof.

The assumption of these four is `ProblemsAssumption`: the counts of a node are positive, and the multi-threaded solvers
are chosen with two threads or more.

`ScratchPool_proofs`, for any plan, any nesting of parallel loops in it and any teams OpenMP gives:

* `TypeCorrect`: a run in progress is a run of a node of the plan, and its callers wait for it.
* `RunsApart` and `RunsInPool`: `Spec /\ []SizesFit => []Apart`, and `[]InPool`. `SizesFit` relates a node to its children; the theorems speak of all pairs of runs at any depth,
  which no comparison of a node with its children does. It is a hypothesis and not an assumption because plans exist that lack it: `pool_strided` executes one.
* `LinesFit`: `Spec => []SizesFit` when every plan is one that the rules of `ScratchPlans` allow for a problem of one dimension (`PlannedLine`): complex or real, any length, batch loops,
  strides, threads and factorizations, in place or not. `LinesApart` is what follows with the two above: simultaneous runs of such a plan hold disjoint memory inside the
  pool, without a hypothesis on behaviours.

The inductive invariant is `CallStack /\ Slots /\ Parts`. `CallStack`: with a run all runs above it are in progress, so that a run no one is below of is a leaf and
calls its next child alone. `Slots`: the slot of a run is its caller's, times the threads of that team, plus its thread; as the digits of a number are unique
(`SameDigits`), two runs of one node differ in it, and the node's `active_threads` bounds it (`SlotBelow`). `Parts`: two runs neither of which is above the other touch different
stretches. That is kept by a call since a child stays within its caller's stretch (`PartWithin`) and the threads of a team are a `ct_buf_size` apart (`PartBefore`); between a run and those
below it there is nothing to share, because below a buffered solver everything writes to scratch memory already.

`LinesFit` goes down the tree and up again. Down (`LinesBelow`): every node of the plan of a line is asked for a line, of one of the five kinds that
then remain (`NodeCases`), and what its child is asked differs from its own ask in ways listed in `LineChild`. This is where `fuse_vecs` comes in, since the kind depends on the loops that
are left, and the slice of a buffered solver on the product of their counts (`LineKind`, `FusedAsk`). Up (`AllSized`): by induction on the height above the leaves,

    Sized: stretch <= ct, and if the node has a stretch and no pool above it, ct * active_threads <= the length of the pool

A batched node multiplies the first inequality and leaves the product in the second alone, as it divides its threads by as much; a buffered one or a one-level Cooley-Tukey allocates
exactly that product, and the owner `compute_exec_metadata` takes is the longest (`OwnerLongest`). What `SizesFit` says of the buffers under a buffered solver depends on what runs there,
which is the invariant `Calm`: a run that writes to scratch memory is of a node below which no other takes a slice (`Quiet`).

Only model-checked:

* that plans with N-dimensional nodes satisfy `SizesFit`. It does not hold of all of them (`pool_strided`): the part of an N-dimensional node is the span of the output, and a slice fits it only if
  the dimensions are packed, which is a condition on strides at every level below;
* everything about `SetupMemory` and the refinement of `CheapestPlan`: `PlanHeap` frees and copies subtrees by `RECURSIVE` operators, outside what the provers support;
* all liveness (TLAPS does not reason about fairness and ENABLED).

## 6. Where code, comments and documentation disagree

| Run | What it shows |
|---|---|
| `inplace_mismatch` | The N-dimensional solver ignores the status of its children (`ndim_solver_dft.c:106`): an in-place `execute_io` on an out-of-place plan, which its split-radix node refuses, reports success. |
| `real_sizeone_drift` | The outer loops of the size-one real solver leave the plan's pointers past the end of the data; a second `aoclfftz_execute` reads and writes there. |
| `pool_strided` | With gaps between the points of a three-dimensional in-place problem the slice of a buffered solver is longer than the part of the N-dimensional pool it is given. |
| `setup_failure` | `prepare_and_setup_dft` builds the twiddle tables before it looks at the status of the selector; after a failed allocation the Cooley-Tukey node at the root has no nodes below it to read. |
| `real_execute` | After `execute_io` on a real plan, `aoclfftz_execute` uses the buffers of that call, not those of setup. |

Without a run of their own:

* `execute_io` may return `AOCLFFTZ_MEMORY_FAILURE` (the action `AllocFails`), which its documentation does not list.
* The outer loops of the size-one real solver step over the complex side with half the stride (`sizeone_solver_rdft.c:195`).
* The size that `compute_exec_metadata` records for the pool of concurrent calls is not the one setup allocated, for an N-dimensional plan
  below parallel batches (`selector.c:2483`): it multiplies fields that setup has changed since. `Reported` and `own` of such a
  plan differ. The slab of a call that lost the claim is then longer than needed, never shorter.
* When `copy_strides` fails in the middle of an adoption, the Cooley-Tukey node has already been given the child array of the candidate
  (`selector_ct_dft.c:248`); its own is lost and the candidate's freed twice.
* A copy of a real N-dimensional node shares the complex subtree of its source. When the copy fails further down, it is destroyed with that subtree
  (`selector.c:2149`, `2293`), which the plan destroys again. The comment at `memory_manager.c:606` says that the source keeps it.

The last two and `setup_failure` are what `Mishandled = FALSE` leaves out of `plan_memory`.

`PROJECT.json` quotes the lines. The passing runs state the conditions under which the
properties hold: `real_batch` has size-one problems whose loops fuse to one, `scratch_pool`
points without gaps, `ResultCorrect` calls that keep to the plan's placement.

## 7. Not modelled, and why

Of the library's 426 000 lines about 405 000 are kernels: one generated straight-line function per radix, instruction set, precision
and way of being called, without state, branches on shared data or calls. There is nothing in them for a model checker to interleave, and a definition for
each would be a transliteration. `DirectSplit` models how they walk over registers and tails, which is the part
they share with setup. That is why the share of *lines* that `PROJECT.json` maps is small although most of the code outside the kernels directory that
keeps state is covered.

* Values of twiddle factors, stride tables, addresses of data, costs: numeric. `ScratchPlans` has all plans any cost may favour.
  `DirectSplit` leaves out the per-iteration copies of the stride table and the radix whose kernel has a set count of its own (48).
* Solvers that compute the real lines (Cooley-Tukey, buffered): how their buffers are allocated, copied, divided among threads and routed from stage to stage is in `RealClones`,
  what a stage does with its butterflies in `DirectSplit`; the walk over the chain during execution is not modelled.
* Registry and dispatcher: tables filled with the same values by every setup. `sel_fp`, a global that every setup writes, has one value in a build with
  one selector mode, the default.
* The leak in `selector_driver_dft_` when `copy_decomp_scheme` fails (`selector.c:747`): the copy there allocates only for `batched_vecs`, which no
  problem has at that point, so that it cannot fail.
* Transposes: `validate_flags` refuses `transpose_mode` before any selector sees it. Out-of-order output: refused too; the permuted selector is a stub.
* Input validation: a sequence of checks on its arguments, without state; the in-place rule for loops is the precondition
  `ValidInPlace` of `RealBatch`.
* OpenMP nesting depth (`executor.c`): whether the setting is global is the runtime's affair.
* FFTW wrapper, utilities, tests, benchmarks and examples: translation of descriptors, names of statuses, clients.

## 8. Plan

1. *(done)* `SharedHandle`, `FftCalls`, refinement, proofs: concurrent calls, the code's newest and most delicate part.
2. *(done)* `RealBatch`, `Bluestein`, `ScratchPool`: the parallel and pointer-moving solvers; `ChunkRange` proved.
3. *(done)* `DirectSplit`: the division of butterflies into kernel calls over threads and the layout of twiddle factors, with proofs for all sizes.
4. *(done)* `PlanHeap`, `CtSelection`, `RealClones`, `SetupMemory`, `CheapestPlan`: the search, the ownership of its candidates, the copies of
   threads, failing allocations, destruction.
5. *(done)* Proofs of `Bluestein`, `RealBatch` and of the regions of `SharedHandle`.
6. *(done)* Real plans in `ScratchPlans`: parallel real batches above complex plans.
7. Execution of a real plan on the tree that `RealClones` builds: stages, slots and moving pointers together.
8. `ValidateProblem`: the stride and placement rules of `validate_problem.h` against the problems whose accesses do not collide.
9. *(done)* Proofs: `OwnTwiddles` of `DirectSplit` for all sizes; `ResultCorrect` and the step simulation of `FftCalls`; the execution of plans on their pools.
10. *(done)* Proofs: `VisitsExact` of `RealBatch`, and what fusing loops does to the positions they name.
11. *(done)* Proofs: the sizes of plans of one-dimensional problems fit, so that these need no hypothesis on behaviours.
12. Proofs: the sizes of plans with N-dimensional nodes over packed strides; ownership in `PlanHeap`, with the tree walks as recursive functions.
