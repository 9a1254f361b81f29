---------------------------- MODULE SharedHandle ----------------------------
(***************************************************************************)
(* One FFT handle shared by the threads of a program: aoclfftz_setup,      *)
(* aoclfftz_execute, aoclfftz_execute_io and aoclfftz_destroy of           *)
(* api/aoclfftz_api.c, with the per-call scratch memory of                 *)
(* core/common/memory_manager.h.                                           *)
(*                                                                         *)
(* A complex plan owns scratch regions allocated at setup.  A concurrent   *)
(* execute_io call either claims them (compare-and-exchange on             *)
(* setup_buffers_acquired) or carves the same regions out of a slab of its *)
(* own.  A real plan has no claim: its solvers read the buffers from       *)
(* the root decomposition scheme, which execute_io overwrites.             *)
(*                                                                         *)
(* The solver is abstracted to the route its data takes: a sequence of     *)
(* passes, each of which reads the region the previous pass filled and     *)
(* fills the next one.  A pass that does not find what the previous pass   *)
(* of the same call left there produces Junk.                              *)
(***************************************************************************)
EXTENDS Integers, Sequences, FiniteSets

CONSTANTS
    Threads,  \* callers
    Bufs,     \* the caller's data buffers
    Slabs,    \* addresses malloc may return for a scratch slab
    Plans,    \* the plans setup may build
    Align,    \* the 64-byte unit of GET_PADDED_SIZE
    NULL      \* the null pointer, and the absent handle

(***************************************************************************)
(* The scratch regions of aoclfftz_mutable_ctx_t: ct_buf_base, bs_in_base, *)
(* bs_out_base and sr_input_copy_base.  The intermediate buffers of a real *)
(* plan live in its solution tree and are not shared between calls.        *)
(***************************************************************************)
Kinds == {"ct", "bs_in", "bs_out", "sr"}
Blocks == Kinds \cup Slabs

PlanType ==
    [real : BOOLEAN,                  \* R2C or C2R
     placement : {"in", "out"},       \* buffers equal or distinct at setup
     sr : BOOLEAN,                    \* the innermost dimension is split-radix
     inner : Seq({"ct", "bs_in", "bs_out"}), \* regions the innermost one uses
     ndim : BOOLEAN,                  \* an outer dimension is solved in out
     outer : Seq({"ct", "bs_in", "bs_out"}), \* regions the outer one uses
     ct : Nat, bs : Nat, srCopy : Nat]       \* bytes of each region

RangeOf(s) == {s[i] : i \in DOMAIN s}

(* What setup guarantees: the CT and Bluestein pools are padded
   (memory_manager.h:62), every region a solver uses has a size, and a
   split-radix node has a copy buffer when the plan is in place. *)
WellFormed(p) ==
    /\ p.ct % Align = 0
    /\ p.bs % Align = 0
    /\ "ct" \in RangeOf(p.inner) \cup RangeOf(p.outer) => p.ct > 0
    /\ {"bs_in", "bs_out"} \cap (RangeOf(p.inner) \cup RangeOf(p.outer)) # {} => p.bs > 0
    /\ p.srCopy > 0 <=> (p.sr /\ p.placement = "in")
    /\ p.real => ~p.sr

ASSUME PlansAssumption == Plans \subseteq {p \in PlanType : WellFormed(p)}
ASSUME AlignAssumption == Align \in Nat \ {0}
ASSUME NamesAssumption ==
    /\ Slabs \cap Kinds = {}
    /\ NULL \notin Bufs \cup Blocks
    /\ NULL \notin [blk : Blocks, off : Nat]
    /\ NULL \notin [plan : Plans, in : Bufs, out : Bufs]

Statuses == {"SUCCESS", "EXECUTION_FAILURE", "MEMORY_FAILURE"}

-----------------------------------------------------------------------------
(* Contents of memory: the caller's data, the data of b after k passes, the
   finished transform of b, or anything else. *)
Raw(b)    == [kind |-> "raw", of |-> b, pass |-> 0]
Mid(b, k) == [kind |-> "mid", of |-> b, pass |-> k]
Fft(b)    == [kind |-> "fft", of |-> b, pass |-> 0]
Junk      == [kind |-> "junk", of |-> NULL, pass |-> 0]

Values == [kind : {"raw", "mid", "fft", "junk"}, of : Bufs \cup {NULL}, pass : Nat]

VARIABLES
    handle,    \* NULL or the plan and the buffers given at setup
    ds,        \* in/out of sol->decomp_scheme, the root scheme
    acquired,  \* exec_metadata->setup_buffers_acquired
    pc,        \* where each thread is in the API call it makes
    call,      \* what each thread asked for
    ctx,       \* the mutable execution context each call runs with
    slab,      \* the local variable scratch_slab of execute_io
    step,      \* passes the call has made
    status,    \* the value a call returns
    mem,       \* contents of every live block
    buf        \* contents of the caller's buffers

vars == <<handle, ds, acquired, pc, call, ctx, slab, step, status, mem, buf>>

Active(t) == pc[t] # "idle"
Running(t) == pc[t] \in {"run_owner", "run_slab", "run_base"}

-----------------------------------------------------------------------------
(* Scratch memory. *)

GetPaddedSize(n) == ((n + Align - 1) \div Align) * Align

SizeOf(p, k) ==
    IF k = "ct" THEN p.ct ELSE IF k = "sr" THEN p.srCopy ELSE p.bs

(* The regions of base_ctx: allocations of their own, or NULL. *)
BaseCtx(p) ==
    [k \in Kinds |-> IF SizeOf(p, k) > 0 THEN [blk |-> k, off |-> 0] ELSE NULL]

SetupBlocks(p) == {k \in Kinds : SizeOf(p, k) > 0}

(* Faulty variant: room for one Bluestein region only. *)
SlabSizeOneRegion(p) == p.ct + p.bs + GetPaddedSize(p.srCopy)

SlabSize(p) == p.ct + p.bs * 2 + GetPaddedSize(p.srCopy)

(* Each region starts where the one before it ends. *)
OffsetOf(p, k) ==
    (IF k # "ct" THEN p.ct ELSE 0)
    + (IF k \in {"bs_out", "sr"} THEN p.bs ELSE 0)
    + (IF k = "sr" THEN p.bs ELSE 0)

(* Faulty variants: a region is left on the setup-time one. *)
CarvedCtxKeepsSr(p, s) ==
    [k \in Kinds |-> IF SizeOf(p, k) > 0 /\ k # "sr"
                     THEN [blk |-> s, off |-> OffsetOf(p, k)]
                     ELSE BaseCtx(p)[k]]
CarvedCtxKeepsCt(p, s) ==
    [k \in Kinds |-> IF SizeOf(p, k) > 0 /\ k # "ct"
                     THEN [blk |-> s, off |-> OffsetOf(p, k)]
                     ELSE BaseCtx(p)[k]]

(* The regions of a call that allocated slab s: those the plan needs are
   carved out of the slab, the others keep the value of base_ctx. *)
CarvedCtx(p, s) ==
    [k \in Kinds |-> IF SizeOf(p, k) > 0
                     THEN [blk |-> s, off |-> OffsetOf(p, k)]
                     ELSE BaseCtx(p)[k]]

Region(p, r, k) == r[k].off .. r[k].off + SizeOf(p, k) - 1

-----------------------------------------------------------------------------
(* The solver. *)

(* The passes of the innermost dimension: a split-radix node first copies an
   in-place input aside, a Bluestein node convolves through its two regions, a
   buffered Cooley-Tukey one goes through the CT buffer. *)
InnerRoute(p, r, in, out) ==
    (IF p.sr /\ in = out /\ r["sr"] # NULL THEN <<"sr">> ELSE <<>>) \o p.inner

(* Every plan ends in out; an N-dimensional one solves the inner dimensions
   into out and then the outer one from out into out. *)
Route(p, r, in, out) ==
    InnerRoute(p, r, in, out)
    \o (IF p.ndim THEN <<"out">> \o p.outer ELSE <<>>)
    \o <<"out">>

(* A split-radix node needs its copy buffer when in and out are one address;
   a plan made for distinct buffers has none. *)
CopyBufferMissing(p, r, in, out) == p.sr /\ in = out /\ r["sr"] = NULL

Plan == handle.plan

(* Complex solvers take the buffers from the context of the call, real ones
   from the root decomposition scheme. *)
InOf(t)  == IF Plan.real THEN ds.in ELSE ctx[t].in
OutOf(t) == IF Plan.real THEN ds.out ELSE ctx[t].out

RouteOf(t) == Route(Plan, ctx[t].regions, InOf(t), OutOf(t))

ContentOf(t, loc) ==
    IF loc = "out" THEN buf[OutOf(t)]
    ELSE LET r == ctx[t].regions[loc]
             v == mem[r.blk][r.off]
         IN  IF \A i \in Region(Plan, ctx[t].regions, loc) : mem[r.blk][i] = v
             THEN v ELSE Junk

(* What pass k finds, and what it should find. *)
Found(t, k)    == IF k = 1 THEN buf[InOf(t)] ELSE ContentOf(t, RouteOf(t)[k - 1])
Expected(t, k) == IF k = 1 THEN Raw(InOf(t)) ELSE Mid(InOf(t), k - 1)

Produced(t, k) ==
    IF Found(t, k) # Expected(t, k) THEN Junk
    ELSE IF k = Len(RouteOf(t)) THEN Fft(InOf(t)) ELSE Mid(InOf(t), k)

WriteRegion(t, k, v) ==
    LET r == ctx[t].regions[k]
    IN  [mem EXCEPT ![r.blk] = [i \in DOMAIN @ |->
            IF i \in Region(Plan, ctx[t].regions, k) THEN v ELSE @[i]]]

-----------------------------------------------------------------------------
(* The caller's part of the contract (README.md:157-163, aoclfftz.h). *)

(* aoclfftz_execute, and any call on a real plan, runs alone. *)
MayOverlap(t) ==
    \A u \in Threads \ {t} : Active(u) => call[u].api # "setup" /\ ~Plan.real

(* No call writes a buffer that another call in flight reads or writes. *)
BuffersFree(t, in, out) ==
    \A u \in Threads \ {t} : Active(u) =>
        out \notin {call[u].in, call[u].out} /\ in # call[u].out

(* The caller keeps to the placement of the plan, except that an
   out-of-place split-radix plan, which checks for it, may be called in place. *)
PlacementServed(in, out) ==
    \/ (in = out) <=> (Plan.placement = "in")
    \/ Plan.sr /\ in = out

NoCtx == [in |-> NULL, out |-> NULL, regions |-> [k \in Kinds |-> NULL]]
NoCall == [api |-> "none", in |-> NULL, out |-> NULL]

Init ==
    /\ handle = NULL
    /\ ds = [in |-> NULL, out |-> NULL]
    /\ acquired = 0
    /\ pc = [t \in Threads |-> "idle"]
    /\ call = [t \in Threads |-> NoCall]
    /\ ctx = [t \in Threads |-> NoCtx]
    /\ slab = [t \in Threads |-> NULL]
    /\ step = [t \in Threads |-> 0]
    /\ status = [t \in Threads |-> "SUCCESS"]
    /\ mem = [b \in {} |-> <<>>]
    /\ buf = [b \in Bufs |-> Junk]

(* aoclfftz_setup_*: builds a plan for two buffers, allocates its regions and
   records them in base_ctx. *)
Setup(p, in, out) ==
    /\ handle = NULL
    /\ (in = out) <=> (p.placement = "in")
    /\ handle' = [plan |-> p, in |-> in, out |-> out]
    /\ ds' = [in |-> in, out |-> out]
    /\ acquired' = 0
    /\ mem' = [b \in SetupBlocks(p) |-> [i \in 0 .. SizeOf(p, b) - 1 |-> Junk]]
    /\ UNCHANGED <<pc, call, ctx, slab, step, status, buf>>

(* aoclfftz_execute: runs on base_ctx itself, without claiming it.  The caller
   has filled both buffers. *)
Execute(t) ==
    /\ handle # NULL
    /\ pc[t] = "idle"
    /\ \A u \in Threads \ {t} : ~Active(u)
    /\ call' = [call EXCEPT ![t] = [api |-> "setup", in |-> handle.in, out |-> handle.out]]
    /\ ctx' = [ctx EXCEPT ![t] = [in |-> handle.in, out |-> handle.out,
                                  regions |-> BaseCtx(Plan)]]
    /\ buf' = [buf EXCEPT ![handle.in] = Raw(handle.in), ![handle.out] = Raw(handle.out)]
    /\ step' = [step EXCEPT ![t] = 0]
    /\ pc' = [pc EXCEPT ![t] = "run_base"]
    /\ UNCHANGED <<handle, ds, acquired, slab, status, mem>>

(* aoclfftz_execute_io with a null handle or buffer. *)
ExecuteIONull(t) ==
    /\ pc[t] = "idle"
    /\ call' = [call EXCEPT ![t] = [api |-> "null", in |-> NULL, out |-> NULL]]
    /\ status' = [status EXCEPT ![t] = "EXECUTION_FAILURE"]
    /\ pc' = [pc EXCEPT ![t] = "done"]
    /\ UNCHANGED <<handle, ds, acquired, ctx, slab, step, mem, buf>>

(* aoclfftz_execute_io up to the claim: copies base_ctx, puts the caller's
   buffers in the copy and, for a real plan, in the root scheme as well. *)
ExecuteIO(t, in, out) ==
    /\ handle # NULL
    /\ pc[t] = "idle"
    /\ MayOverlap(t)
    /\ BuffersFree(t, in, out)
    /\ PlacementServed(in, out)
    /\ call' = [call EXCEPT ![t] = [api |-> "io", in |-> in, out |-> out]]
    /\ ctx' = [ctx EXCEPT ![t] = [in |-> in, out |-> out, regions |-> BaseCtx(Plan)]]
    /\ ds' = IF Plan.real THEN [in |-> in, out |-> out] ELSE ds
    /\ buf' = [buf EXCEPT ![in] = Raw(in), ![out] = Raw(out)]
    /\ step' = [step EXCEPT ![t] = 0]
    /\ pc' = [pc EXCEPT ![t] = IF Plan.real THEN "run_base" ELSE "claim"]
    /\ UNCHANGED <<handle, acquired, slab, status, mem>>

(* Faulty variants of the claim: a fetch-and-add, a plain store that every
   call takes for success, and a lock the call waits for. *)
ClaimByFetchAdd(t) ==
    /\ pc[t] = "claim"
    /\ acquired' = acquired + 1
    /\ pc' = [pc EXCEPT ![t] = IF acquired = 0 THEN "run_owner" ELSE "alloc"]
    /\ UNCHANGED <<handle, ds, call, ctx, slab, step, status, mem, buf>>
ClaimByStore(t) ==
    /\ pc[t] = "claim"
    /\ acquired' = 1
    /\ pc' = [pc EXCEPT ![t] = "run_owner"]
    /\ UNCHANGED <<handle, ds, call, ctx, slab, step, status, mem, buf>>
ClaimBySpinning(t) ==
    /\ pc[t] = "claim"
    /\ acquired = 0
    /\ acquired' = 1
    /\ pc' = [pc EXCEPT ![t] = "run_owner"]
    /\ UNCHANGED <<handle, ds, call, ctx, slab, step, status, mem, buf>>

(* AOCLFFTZ_ATOMIC_CMP_XCHG(setup_buffers_acquired, 0, 1). *)
ClaimSetupBuffers(t) ==
    /\ pc[t] = "claim"
    /\ acquired' = 1
    /\ pc' = [pc EXCEPT ![t] = IF acquired = 0 THEN "run_owner" ELSE "alloc"]
    /\ UNCHANGED <<handle, ds, call, ctx, slab, step, status, mem, buf>>

(* alloc_per_call_scratch for a plan without scratch: nothing to allocate. *)
AllocNothing(t) ==
    /\ pc[t] = "alloc"
    /\ SlabSize(Plan) = 0
    /\ pc' = [pc EXCEPT ![t] = "run_slab"]
    /\ UNCHANGED <<handle, ds, acquired, call, ctx, slab, step, status, mem, buf>>

(* alloc_per_call_scratch: one slab, carved into the regions. *)
AllocPerCallScratch(t, s) ==
    /\ pc[t] = "alloc"
    /\ SlabSize(Plan) # 0
    /\ s \notin DOMAIN mem
    /\ mem' = [b \in DOMAIN mem \cup {s} |->
                 IF b = s THEN [i \in 0 .. SlabSize(Plan) - 1 |-> Junk] ELSE mem[b]]
    /\ slab' = [slab EXCEPT ![t] = s]
    /\ ctx' = [ctx EXCEPT ![t] = [in |-> ctx[t].in, out |-> ctx[t].out,
                                  regions |-> CarvedCtx(Plan, s)]]
    /\ pc' = [pc EXCEPT ![t] = "run_slab"]
    /\ UNCHANGED <<handle, ds, acquired, call, step, status, buf>>

(* The allocation fails: the call returns before it touched the output. *)
AllocFails(t) ==
    /\ pc[t] = "alloc"
    /\ SlabSize(Plan) # 0
    /\ status' = [status EXCEPT ![t] = "MEMORY_FAILURE"]
    /\ pc' = [pc EXCEPT ![t] = "done"]
    /\ UNCHANGED <<handle, ds, acquired, call, ctx, slab, step, mem, buf>>

(* Where a call goes once executor_obj->execute returned. *)
AfterExecute(t) ==
    IF pc[t] = "run_owner" THEN "release" ELSE IF pc[t] = "run_slab" THEN "free" ELSE "done"

(* One pass of the solver; the last one makes execute return SUCCESS. *)
SolverPass(t) ==
    LET k == step[t] + 1
        to == RouteOf(t)[k]
        v == Produced(t, k)
    IN  /\ Running(t)
        /\ step[t] = 0 => ~CopyBufferMissing(Plan, ctx[t].regions, InOf(t), OutOf(t))
        /\ IF to = "out"
           THEN buf' = [buf EXCEPT ![OutOf(t)] = v] /\ UNCHANGED mem
           ELSE mem' = WriteRegion(t, to, v) /\ UNCHANGED buf
        /\ IF k = Len(RouteOf(t))
           THEN /\ status' = [status EXCEPT ![t] = "SUCCESS"]
                /\ pc' = [pc EXCEPT ![t] = AfterExecute(t)]
           ELSE UNCHANGED <<status, pc>>
        /\ step' = [step EXCEPT ![t] = k]
        /\ UNCHANGED <<handle, ds, acquired, call, ctx, slab>>

(* The split-radix node refuses an in-place call without a copy buffer.  At
   the root, or below batches only, its status is that of the call; below an
   N-dimensional node the status is dropped and the outer dimension runs on
   what is in out. *)
CopyBufferRefused(t) ==
    /\ Running(t)
    /\ step[t] = 0
    /\ CopyBufferMissing(Plan, ctx[t].regions, InOf(t), OutOf(t))
    /\ IF ~Plan.ndim
       THEN /\ status' = [status EXCEPT ![t] = "EXECUTION_FAILURE"]
            /\ pc' = [pc EXCEPT ![t] = AfterExecute(t)]
            /\ UNCHANGED step
       ELSE /\ step' = [step EXCEPT ![t] =
                          Len(InnerRoute(Plan, ctx[t].regions, InOf(t), OutOf(t))) + 1]
            /\ UNCHANGED <<status, pc>>
    /\ UNCHANGED <<handle, ds, acquired, call, ctx, slab, mem, buf>>

(* Faulty variant: the call returns without giving the regions back. *)
ReturnWithoutStore(t) ==
    /\ pc[t] = "release"
    /\ pc' = [pc EXCEPT ![t] = "done"]
    /\ UNCHANGED <<handle, ds, acquired, call, ctx, slab, step, status, mem, buf>>

(* AOCLFFTZ_ATOMIC_STORE(setup_buffers_acquired, 0), whatever the status. *)
ReleaseSetupBuffers(t) ==
    /\ pc[t] = "release"
    /\ acquired' = 0
    /\ pc' = [pc EXCEPT ![t] = "done"]
    /\ UNCHANGED <<handle, ds, call, ctx, slab, step, status, mem, buf>>

(* Faulty variants: the common exit also clears the flag, or frees nothing. *)
FreeAndStore(t) ==
    /\ pc[t] = "free"
    /\ mem' = [b \in DOMAIN mem \ {slab[t]} |-> mem[b]]
    /\ slab' = [slab EXCEPT ![t] = NULL]
    /\ acquired' = 0
    /\ pc' = [pc EXCEPT ![t] = "done"]
    /\ UNCHANGED <<handle, ds, call, ctx, step, status, buf>>
ReturnWithoutFree(t) ==
    /\ pc[t] = "free"
    /\ slab' = [slab EXCEPT ![t] = NULL]
    /\ pc' = [pc EXCEPT ![t] = "done"]
    /\ UNCHANGED <<handle, ds, acquired, call, ctx, step, status, mem, buf>>

(* FREE_ALIGN_ALLOCATED_MEM(scratch_slab). *)
FreeScratchSlab(t) ==
    /\ pc[t] = "free"
    /\ mem' = [b \in DOMAIN mem \ {slab[t]} |-> mem[b]]
    /\ slab' = [slab EXCEPT ![t] = NULL]
    /\ pc' = [pc EXCEPT ![t] = "done"]
    /\ UNCHANGED <<handle, ds, acquired, call, ctx, step, status, buf>>

(* The caller has looked at the result; the context of the call is gone. *)
Return(t) ==
    /\ pc[t] = "done"
    /\ pc' = [pc EXCEPT ![t] = "idle"]
    /\ call' = [call EXCEPT ![t] = NoCall]
    /\ ctx' = [ctx EXCEPT ![t] = NoCtx]
    /\ step' = [step EXCEPT ![t] = 0]
    /\ status' = [status EXCEPT ![t] = "SUCCESS"]
    /\ UNCHANGED <<handle, ds, acquired, slab, mem, buf>>

(* aoclfftz_destroy, called when no other call is in flight; the caller has
   taken what it wanted from its buffers. *)
Destroy ==
    /\ handle # NULL
    /\ \A t \in Threads : ~Active(t)
    /\ mem' = [b \in DOMAIN mem \ SetupBlocks(Plan) |-> mem[b]]
    /\ handle' = NULL
    /\ ds' = [in |-> NULL, out |-> NULL]
    /\ buf' = [b \in Bufs |-> Junk]
    /\ UNCHANGED <<acquired, pc, call, ctx, slab, step, status>>

(* The steps inside a call: the scheduler runs them. *)
CallStep(t) ==
    \/ ClaimSetupBuffers(t)
    \/ AllocNothing(t)
    \/ \E s \in Slabs : AllocPerCallScratch(t, s)
    \/ AllocFails(t)
    \/ SolverPass(t)
    \/ CopyBufferRefused(t)
    \/ ReleaseSetupBuffers(t)
    \/ FreeScratchSlab(t)

Next ==
    \/ \E p \in Plans, in, out \in Bufs : Setup(p, in, out)
    \/ Destroy
    \/ \E t \in Threads :
         \/ Execute(t)
         \/ ExecuteIONull(t)
         \/ \E in, out \in Bufs : ExecuteIO(t, in, out)
         \/ CallStep(t)
         \/ Return(t)

Spec == Init /\ [][Next]_vars

-----------------------------------------------------------------------------
(* Invariants. *)

RegionPtrs == {NULL} \cup [blk : Blocks, off : Nat]

TypeOK ==
    /\ handle \in {NULL} \cup [plan : Plans, in : Bufs, out : Bufs]
    /\ ds \in [in : Bufs \cup {NULL}, out : Bufs \cup {NULL}]
    /\ acquired \in {0, 1}
    /\ pc \in [Threads -> {"idle", "claim", "alloc", "run_owner", "run_slab",
                           "run_base", "release", "free", "done"}]
    /\ call \in [Threads -> [api : {"none", "null", "setup", "io"},
                             in : Bufs \cup {NULL}, out : Bufs \cup {NULL}]]
    /\ ctx \in [Threads -> [in : Bufs \cup {NULL}, out : Bufs \cup {NULL},
                            regions : [Kinds -> RegionPtrs]]]
    /\ slab \in [Threads -> Slabs \cup {NULL}]
    /\ step \in [Threads -> Nat]
    /\ status \in [Threads -> Statuses]
    /\ DOMAIN mem \subseteq Blocks
    /\ \A b \in DOMAIN mem : mem[b] \in [DOMAIN mem[b] -> Values]
    /\ buf \in [Bufs -> Values]

(* The flag says exactly whether a call runs on the setup-time regions under
   a claim, and there is never more than one such call. *)
Owns(t) == pc[t] \in {"run_owner", "release"}
ClaimMatchesOwner ==
    /\ acquired = 1 <=> \E t \in Threads : Owns(t)
    /\ \A t, u \in Threads : Owns(t) /\ Owns(u) => t = u

(* The bytes a call's solver may write besides its buffers. *)
Cells(t) ==
    UNION {{ctx[t].regions[k].blk} \X Region(Plan, ctx[t].regions, k) :
             k \in {j \in Kinds : ctx[t].regions[j] # NULL}}

(* Two calls whose solvers run at the same time share no byte of scratch
   memory, whichever of them claimed the setup-time regions. *)
ScratchExclusive ==
    \A t, u \in Threads :
        t # u /\ Running(t) /\ Running(u) => Cells(t) \cap Cells(u) = {}

(* While a solver runs, every region its plan needs is there, lies inside a
   live block, starts on an aligned address and overlaps no other region. *)
RegionsInLiveBlocks ==
    \A t \in Threads : Running(t) =>
        LET r == ctx[t].regions
            p == Plan
        IN  /\ \A k \in Kinds : SizeOf(p, k) > 0 =>
                  /\ r[k] # NULL
                  /\ r[k].blk \in DOMAIN mem
                  /\ Region(p, r, k) \subseteq DOMAIN mem[r[k].blk]
                  /\ r[k].off % Align = 0
            /\ \A j, k \in Kinds :
                  j # k /\ SizeOf(p, j) > 0 /\ SizeOf(p, k) > 0 /\ r[j].blk = r[k].blk
                  => Region(p, r, j) \cap Region(p, r, k) = {}

(* A slab lives exactly as long as the call that allocated it: none is freed
   under a running solver, none is left behind by a return or a failure. *)
SlabsAccounted ==
    /\ DOMAIN mem \cap Slabs = {slab[t] : t \in Threads} \ {NULL}
    /\ \A t \in Threads : slab[t] # NULL => pc[t] \in {"run_slab", "free"}
    /\ \A t, u \in Threads : t # u /\ slab[t] # NULL => slab[t] # slab[u]

(* A call that reports success has left the transform of its input in its
   output, and one that reports failure has left the output as it was.  The caller keeps to the
   placement of the plan; aoclfftz_execute on a real plan is the subject of
   ExecuteUsesSetupBuffers. *)
ResultCorrect ==
    \A t \in Threads :
        /\ pc[t] = "done"
        /\ call[t].api = "io" \/ (call[t].api = "setup" /\ ~Plan.real)
        /\ (call[t].in = call[t].out) <=> (Plan.placement = "in")
        => buf[call[t].out] = IF status[t] = "SUCCESS" THEN Fft(call[t].in)
                              ELSE Raw(call[t].out)

(* aoclfftz.h:411: the buffers defined in the setup stage will be used. *)
ExecuteUsesSetupBuffers ==
    \A t \in Threads :
        pc[t] = "done" /\ call[t].api = "setup" /\ status[t] = "SUCCESS"
        => buf[handle.out] = Fft(handle.in)

(* sr_solver_dft.c:129-136: an in-place call the split-radix node cannot
   serve is refused, so success always means that out holds the transform. *)
InPlaceMismatchRefused ==
    \A t \in Threads :
        pc[t] = "done" /\ call[t].api = "io" /\ call[t].in = call[t].out
            /\ status[t] = "SUCCESS"
        => buf[call[t].out] = Fft(call[t].in)

-----------------------------------------------------------------------------
(* Action properties. *)

(* Memory is allocated only under contention: a call leaves the fast path
   only when another call, still in flight, holds the setup-time regions. *)
AllocOnlyUnderContention ==
    [][\A t \in Threads : pc[t] = "claim" /\ pc'[t] = "alloc" =>
         \E u \in Threads \ {t} : Owns(u)]_vars

=============================================================================
