------------------------------ MODULE RealBatch ------------------------------
(***************************************************************************)
(* Batched real transforms.  A plan for dims[0].n points and a list vecs   *)
(* of loops, each [n, is, os] (count, input and output stride), transforms *)
(* the point set of every loop index once.  Setup fuses adjacent loops and *)
(* scales the strides of the complex side; execution walks the loops by    *)
(* MOVING the data pointers stored in the plan itself: the sequential      *)
(* solver moves its child's, the multi-threaded one those of n_threads     *)
(* clones of the child, the size-one solver its own.                       *)
(*                                                                         *)
(* A pointer pair is a position [bufs, in, out]: which buffers, and the    *)
(* offsets from their start in elements of the real type.  in_imag and     *)
(* out_imag move with in_real and out_real and are left out.  What one     *)
(* transform computes is left out too: a run of the child is recorded as a *)
(* visit of the position it finds in its own pointers.                     *)
(***************************************************************************)
EXTENDS FuseVecs, FiniteSets, Bags

CONSTANTS
    Problems,  \* what the user may ask for, see ProblemType
    Bufs,      \* pairs of an input and an output buffer
    MaxCalls   \* bound: execute calls on one plan

ASSUME CallsBound == MaxCalls \in Nat

VARIABLES
    ask,      \* the problem as the user stated it
    vecs,     \* the plan's loops, fused and scaled by setup
    root,     \* pointers of the plan's root decomp_scheme
    child,    \* pointers of next_sol[t], per thread of the plan
    rank,     \* the loop being walked (vec_rank of the recursion)
    idx,      \* iterations each loop has finished
    saved,    \* per outer loop, the pointers its iteration started from
    base,     \* pointers the parallel region captured from next_sol[0]
    team,     \* threads OpenMP gave the region
    pending,  \* batches of the region no thread has taken
    task,     \* the batch each thread runs, NoBatch if none
    call,     \* buffers of the current call
    calls,    \* number of calls made
    visits,   \* bag of the positions transformed by the current call
    status,   \* of the current call (a shared variable of the parallel region)
    broken,   \* history: a run of a child has failed in the current call
    pc

data == <<ask, vecs>>
result == <<visits, status, broken>>
walk == <<rank, idx, saved>>
region == <<base, team, pending, task>>
vars == <<ask, vecs, root, child, rank, idx, saved, base, team, pending, task,
          call, calls, visits, status, broken, pc>>

NoBatch == -1
FORWARD_FFT_DIR == 0
BACKWARD_FFT_DIR == 1
DATA_STRIDE == 2

Loop == [n: Nat \ {0}, is: Int, os: Int]

(* fuseFirst stands for is_FFT_ker_supported or an innermost dimension.     *)
ProblemType(p) ==
    /\ p.size1 \in BOOLEAN
    /\ p.dir \in {FORWARD_FFT_DIR, BACKWARD_FFT_DIR}
    /\ p.inplace \in BOOLEAN
    /\ p.fuseFirst \in BOOLEAN
    /\ p.threads \in Nat \ {0}
    /\ p.vecs \in Seq(Loop) /\ p.vecs # <<>>

ASSUME ProblemsTyped == \A p \in Problems : ProblemType(p)

(* What the input check demands of an in-place problem: a loop's complex    *)
(* stride, in complex elements, is half its real stride.                    *)
ValidInPlace(p) ==
    p.inplace => \A i \in 1..Len(p.vecs) :
        LET v == p.vecs[i] IN
            \/ IF p.dir = FORWARD_FFT_DIR THEN v.is = DATA_STRIDE * v.os
                                          ELSE DATA_STRIDE * v.is = v.os
            \/ i = 1 /\ v.n = 1

-----------------------------------------------------------------------------
(* Positions *)

Start(b) == [bufs |-> b, in |-> 0, out |-> 0]
Move(p, v, k) == [p EXCEPT !.in = @ + k * v.is, !.out = @ + k * v.os]

(* The strides of one loop in real elements on both sides.                  *)
Scaled(v, dir) == IF dir = FORWARD_FFT_DIR THEN [v EXCEPT !.os = @ * DATA_STRIDE]
                                           ELSE [v EXCEPT !.is = @ * DATA_STRIDE]
AllScaled(vs, dir) == [i \in 1..Len(vs) |-> Scaled(vs[i], dir)]

(* The positions loops vs reach from the positions in P.                    *)
Spread(P, v) == {Move(p, v, k) : p \in P, k \in 0 .. v.n - 1}
Reach(vs, p) == FoldLeft(Spread, {p}, vs)

(* The transforms the user asked for.  A size-one in-place backward         *)
(* transform whose input and output coincide is a copy onto itself.         *)
Required(p, b) ==
    LET all == Reach(AllScaled(p.vecs, p.dir), Start(b))
    IN  IF p.size1 /\ p.inplace /\ p.dir = BACKWARD_FFT_DIR
        THEN {q \in all : q.in # q.out} ELSE all

-----------------------------------------------------------------------------
(* Setup *)

(* The batched setups scale every loop; the size-one setup scales none and  *)
(* leaves it to its kernel, which knows the innermost loop only.            *)
SetupVecs(p, vs) ==
    IF p.size1 THEN vs ELSE AllScaled(vs, p.dir)

(* Threads of the plan: the batched selector gives one per innermost batch. *)
Threads ==
    IF ask.size1 THEN 1
    ELSE IF vecs[1].n < ask.threads THEN vecs[1].n ELSE ask.threads

VecRank == Len(vecs)
Multi == ~ask.size1 /\ ask.threads > 1

(* The selector gives the problem to the batched solver: several loops as   *)
(* stated by the user (before fusing), or one of several batches that no    *)
(* kernel takes as a whole.                                                 *)
Batched(p) == Len(p.vecs) > 1 \/ p.vecs[1].n > 1

-----------------------------------------------------------------------------
Init ==
    /\ ask \in {p \in Problems : ValidInPlace(p) /\ (p.size1 \/ Batched(p))}
    /\ vecs = SetupVecs(ask, fuse_vecs(ask.vecs, ask.fuseFirst))
    /\ call \in Bufs
    /\ root = Start(call)
    /\ child = [t \in 0 .. Threads - 1 |-> root]
    /\ rank = 0
    /\ idx = [r \in 1..VecRank |-> 0]
    /\ saved = [r \in 1..VecRank |-> root]
    /\ base = root
    /\ team = {}
    /\ pending = {}
    /\ task = [t \in 0 .. Threads - 1 |-> NoBatch]
    /\ calls = 0
    /\ visits = EmptyBag
    /\ status = "success" /\ broken = FALSE
    /\ pc = "idle"

(* The root solver is entered: its child and clones take over its pointers. *)
Enter ==
    /\ calls' = calls + 1
    /\ visits' = EmptyBag
    /\ status' = "success" /\ broken' = FALSE
    /\ rank' = VecRank
    /\ idx' = [r \in 1..VecRank |-> 0]
    /\ pc' = IF ask.size1 THEN "sizeone" ELSE "descend"
    /\ child' = [t \in DOMAIN child |-> root']
    /\ UNCHANGED <<data, saved, region>>

(* aoclfftz_execute: the pointers stored in the plan, unchanged.            *)
Execute ==
    /\ pc = "idle" /\ calls < MaxCalls
    /\ UNCHANGED <<root, call>>
    /\ Enter

(* aoclfftz_execute_io: a real plan stores the caller's buffers in its root.*)
ExecuteIO ==
    /\ pc = "idle" /\ calls < MaxCalls
    /\ call' \in Bufs
    /\ root' = Start(call')
    /\ Enter

-----------------------------------------------------------------------------
(* The batched solvers *)

(* An outer loop starts an iteration: it saves the pointers and recurses.   *)
Descend ==
    /\ pc = "descend" /\ rank > 1
    /\ saved' = [saved EXCEPT ![rank] = child[0]]
    /\ rank' = rank - 1
    /\ UNCHANGED <<data, root, child, idx, region, call, calls, result, pc>>

(* Faulty variant: the loop counter is left where it ended.                 *)
IteratedNoReset ==
    IF idx[rank] + 1 < vecs[rank].n
    THEN /\ idx' = [idx EXCEPT ![rank] = @ + 1]
         /\ rank' = rank
         /\ pc' = "descend"
    ELSE /\ idx' = [idx EXCEPT ![rank] = @ + 1]
         /\ rank' = rank + 1
         /\ pc' = IF rank = VecRank THEN "done" ELSE "climb"

(* The walk after a loop has done one more iteration.                       *)
Iterated ==
    IF idx[rank] + 1 < vecs[rank].n
    THEN /\ idx' = [idx EXCEPT ![rank] = @ + 1]
         /\ rank' = rank
         /\ pc' = "descend"
    ELSE /\ idx' = [idx EXCEPT ![rank] = 0]
         /\ rank' = rank + 1
         /\ pc' = IF rank = VecRank THEN "done" ELSE "climb"

(* Faulty variant: the root's pointers move with the child's.               *)
RunBatchMovingRoot ==
    /\ pc = "descend" /\ rank = 1 /\ ~Multi
    /\ visits' = visits (+) SetToBag({child[0]})
    /\ child' = [child EXCEPT ![0] = Move(@, vecs[1], 1)]
    /\ root' = Move(root, vecs[1], 1)
    /\ Iterated
    /\ UNCHANGED <<data, saved, region, call, calls, status, broken>>

(* One batch of the sequential solver: run the child, move its pointers.    *)
RunBatch ==
    /\ pc = "descend" /\ rank = 1 /\ ~Multi
    /\ visits' = visits (+) SetToBag({child[0]})
    /\ child' = [child EXCEPT ![0] = Move(@, vecs[1], 1)]
    /\ Iterated
    /\ UNCHANGED <<data, root, saved, region, call, calls, status, broken>>

(* Its child fails: every level of the recursion returns the status at once.*)
BatchFails ==
    /\ pc = "descend" /\ rank = 1 /\ ~Multi
    /\ broken' = TRUE /\ status' = "failure"
    /\ pc' = "done"
    /\ UNCHANGED <<data, root, child, walk, region, call, calls, visits>>

(* The innermost loop of the multi-threaded solver captures the pointers of *)
(* next_sol[0] and opens a region; OpenMP may give it fewer threads.        *)
Fork ==
    /\ pc = "descend" /\ rank = 1 /\ Multi
    /\ base' = child[0]
    /\ \E k \in 1..Threads : team' = 0 .. k - 1
    /\ pending' = 0 .. vecs[1].n - 1
    /\ pc' = "team"
    /\ UNCHANGED <<data, root, child, walk, task, call, calls, result>>

(* Faulty variant: a thread moves every clone.                              *)
TakeBatchShared(t) ==
    /\ pc = "team" /\ t \in team /\ task[t] = NoBatch
    /\ \E b \in pending :
        /\ task' = [task EXCEPT ![t] = b]
        /\ pending' = pending \ {b}
        /\ child' = [u \in DOMAIN child |-> Move(base, vecs[1], b)]
    /\ UNCHANGED <<data, root, walk, base, team, call, calls, result, pc>>

(* Faulty variant: batches dealt out over the threads asked for.            *)
TakeBatchDealt(t) ==
    /\ pc = "team" /\ t \in team /\ task[t] = NoBatch
    /\ \E b \in pending :
        /\ b % Threads = t
        /\ task' = [task EXCEPT ![t] = b]
        /\ pending' = pending \ {b}
        /\ child' = [child EXCEPT ![t] = Move(base, vecs[1], b)]
    /\ UNCHANGED <<data, root, walk, base, team, call, calls, result, pc>>

(* A thread takes a batch and points its own clone at it.                   *)
TakeBatch(t) ==
    /\ pc = "team" /\ t \in team /\ task[t] = NoBatch
    /\ \E b \in pending :
        /\ task' = [task EXCEPT ![t] = b]
        /\ pending' = pending \ {b}
        /\ child' = [child EXCEPT ![t] = Move(base, vecs[1], b)]
    /\ UNCHANGED <<data, root, walk, base, team, call, calls, result, pc>>

(* Faulty variant: every run writes its status, a success too.              *)
ReportAlways(st) == status' = st

(* A run of a child ended with st: the region's status takes failures only. *)
Report(st) == status' = IF st = "success" THEN status ELSE st

(* The thread runs its clone, which reads its pointers now; or the run fails*)
(* and the loop goes on with the other batches.                             *)
RunChild(t) ==
    /\ pc = "team" /\ t \in team /\ task[t] # NoBatch
    /\ task' = [task EXCEPT ![t] = NoBatch]
    /\ \/ /\ visits' = visits (+) SetToBag({child[t]})
          /\ Report("success")
          /\ UNCHANGED broken
       \/ /\ broken' = TRUE
          /\ Report("failure")
          /\ UNCHANGED visits
    /\ UNCHANGED <<data, root, child, walk, base, team, pending, call, calls, pc>>

(* The barrier at the end of the parallel loop; a failure leaves every outer*)
(* loop.                                                                    *)
Join ==
    /\ pc = "team" /\ pending = {} /\ \A t \in team : task[t] = NoBatch
    /\ team' = {}
    /\ rank' = rank + 1
    /\ pc' = IF VecRank = 1 \/ status = "failure" THEN "done" ELSE "climb"
    /\ UNCHANGED <<data, root, child, idx, saved, base, pending, task, call, calls, result>>

(* An outer loop ends an iteration: every clone continues one stride after  *)
(* the pointers saved at its start.                                         *)
Climb ==
    /\ pc = "climb"
    /\ child' = [t \in DOMAIN child |-> Move(saved[rank], vecs[rank], 1)]
    /\ Iterated
    /\ UNCHANGED <<data, root, saved, region, call, calls, result>>

-----------------------------------------------------------------------------
(* The size-one solver: the loops run on the root's own pointers.  Its      *)
(* kernel runs the innermost loop and scales the complex side; the outer    *)
(* loops use the strides as they are.  The last iteration of an outer loop  *)
(* leaves the root's pointers one stride past the end.                      *)
SizeOne ==
    /\ pc = "sizeone"
    /\ LET outer == SubSeq(vecs, 2, VecRank)
           skip == ask.inplace /\ ask.dir = BACKWARD_FFT_DIR
       IN  /\ visits' = IF skip THEN EmptyBag
                        ELSE SetToBag(Reach(<<Scaled(vecs[1], ask.dir)>> \o outer, root))
           /\ root' = IF skip \/ VecRank = 1 THEN root
                      ELSE Move(root, vecs[VecRank], vecs[VecRank].n)
    /\ pc' = "done"
    /\ UNCHANGED <<data, child, walk, region, call, calls, status, broken>>

Return ==
    /\ pc = "done"
    /\ pc' = "idle"
    /\ rank' = 0
    /\ UNCHANGED <<data, root, child, idx, saved, region, call, calls, result>>

Solve == \/ Descend \/ RunBatch \/ BatchFails \/ Fork \/ Join \/ Climb \/ SizeOne \/ Return
         \/ \E t \in DOMAIN child : TakeBatch(t) \/ RunChild(t)
Next == Execute \/ ExecuteIO \/ Solve

Spec == Init /\ [][Next]_vars
(* Threads of a call are scheduled: OpenMP runs each to the barrier.        *)
FairSpec == Spec /\ WF_vars(Solve)

-----------------------------------------------------------------------------
(* Properties *)

(* No two iterations of loop v, and none from two places in P, meet.        *)
Disjoint(P, v) ==
    \A q1, q2 \in P : \A k1, k2 \in 0 .. v.n - 1 :
        Move(q1, v, k1) = Move(q2, v, k2) => q1 = q2 /\ k1 = k2

(* The loops vs name no position twice.                                     *)
LoopsApart(vs, p) ==
    \A i \in 1..Len(vs) : Disjoint(Reach(SubSeq(vs, 1, i - 1), p), vs[i])

(* No problem asks for a position twice.                                    *)
ProblemsApart ==
    \A p \in Problems, b \in Bufs : LoopsApart(AllScaled(p.vecs, p.dir), Start(b))

(* The loops of every size-one problem fuse into one: the size-one kernel   *)
(* scales the innermost loop only.                                          *)
SizeOneFuses ==
    \A p \in Problems : p.size1 => Len(fuse_vecs(p.vecs, p.fuseFirst)) = 1

Position == [bufs : Bufs, in : Int, out : Int]

(* Every variable keeps its type; loop counters stay below their bounds     *)
(* (the counters of execute_real_batched_solver_internal).                  *)
TypeOK ==
    /\ ask \in Problems
    /\ root \in Position
    /\ child \in [0 .. Threads - 1 -> Position]
    /\ rank \in 0 .. VecRank + 1
    /\ idx \in [1..VecRank -> Nat] /\ \A r \in 1..VecRank : idx[r] < vecs[r].n
    /\ saved \in [1..VecRank -> Position]
    /\ base \in Position
    /\ team \subseteq DOMAIN child
    /\ pending \subseteq 0 .. vecs[1].n - 1
    /\ task \in [DOMAIN child -> {NoBatch} \cup 0 .. vecs[1].n - 1]
    /\ call \in Bufs
    /\ calls \in 0..MaxCalls
    /\ status \in {"success", "failure"} /\ broken \in BOOLEAN
    /\ pc \in {"idle", "descend", "team", "climb", "sizeone", "done"}

(* A call that succeeds has transformed exactly the positions the user's loops *)
(* name in the call's buffers, each of them once: no batch skipped, run     *)
(* twice or taken from a place the loops do not name, however the loops     *)
(* were fused and the threads interleaved.                                  *)
VisitsExact ==
    pc = "done" /\ status = "success" => visits = SetToBag(Required(ask, call))

(* A call fails exactly when a run of its child failed: no thread's failure *)
(* is lost to a later success of another one.                               *)
FailureTold == pc = "done" => (status = "failure" <=> broken)

(* Between calls the plan's root points at the start of the buffers of the  *)
(* last call, so that the next aoclfftz_execute transforms them again.      *)
RootKept == pc = "idle" => root = Start(call)

(* A thread inside a parallel batch loop finds in its clone's pointers the  *)
(* batch it took, whatever the other threads of the team do meanwhile, and  *)
(* no two threads hold one batch.                                           *)
OwnBatch ==
    \A t \in team : task[t] # NoBatch =>
        /\ child[t] = Move(base, vecs[1], task[t])
        /\ \A u \in team : task[u] = task[t] => u = t

(* A call returns: the recursion over the loops ends, and no batch waits    *)
(* for a thread OpenMP did not give.                                        *)
CallReturns == pc # "idle" ~> pc = "idle"
=============================================================================
