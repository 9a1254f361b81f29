--------------------------- MODULE MCSharedHandle ---------------------------
(* Plans and bounds for model-checking SharedHandle. *)
EXTENDS SharedHandleRefines, TLC

CONSTANTS t1, t2, t3, b1, b2, b3, b4, s1, s2

MCThreads2 == {t1, t2}
MCThreads3 == {t1, t2, t3}
MCBufs3 == {b1, b2, b3}
MCBufs4 == {b1, b2, b3, b4}
MCSlabs2 == {s1, s2}

Base == [real |-> FALSE, placement |-> "out", sr |-> FALSE, inner |-> <<>>,
         ndim |-> FALSE, outer |-> <<>>, ct |-> 0, bs |-> 0, srCopy |-> 0]

(* A direct kernel: no scratch at all. *)
Direct == Base
(* A buffered Cooley-Tukey plan. *)
CooleyTukey == [Base EXCEPT !.inner = <<"ct">>, !.ct = 2]
(* A large prime: Bluestein's two regions, in place. *)
Bluestein == [Base EXCEPT !.placement = "in",
                          !.inner = <<"bs_in", "bs_out", "bs_in">>, !.bs = 2]
(* An in-place split-radix plan with its unpadded copy buffer, whose outer
   dimension is a Bluestein one inside a Cooley-Tukey plan. *)
SplitRadixND == [Base EXCEPT !.placement = "in", !.sr = TRUE, !.srCopy = 1, !.ndim = TRUE,
                             !.outer = <<"bs_in", "bs_out", "bs_in", "ct">>,
                             !.bs = 2, !.ct = 2]
(* A one-dimensional out-of-place split-radix plan: no copy buffer. *)
SplitRadixOut == [Base EXCEPT !.sr = TRUE]
(* The same below an N-dimensional node. *)
SplitRadixOutND == [Base EXCEPT !.sr = TRUE, !.ndim = TRUE]
(* A real plan. *)
Real == [Base EXCEPT !.real = TRUE]

MCPlansAll == {Direct, CooleyTukey, Bluestein, SplitRadixND, SplitRadixOut, Real}
MCPlansComplex == {CooleyTukey, Bluestein, SplitRadixND, SplitRadixOut}
MCPlansScratch == {CooleyTukey, SplitRadixOut}
MCPlansCT == {CooleyTukey}
MCPlansReal == {Real, CooleyTukey}
MCPlansMismatch == {SplitRadixOutND, Direct}

(* Threads, buffers and slabs are interchangeable; used where no liveness is
   checked. *)
Symmetry3 ==
    Permutations(MCThreads3) \cup Permutations(MCBufs4) \cup Permutations(MCSlabs2)
Symmetry2 ==
    Permutations(MCThreads2) \cup Permutations(MCBufs3) \cup Permutations(MCSlabs2)

(* Only t1 is scheduled fairly, as the operating system schedules a thread
   inside a call: the others may stop for ever anywhere inside a call, holding
   the claim or a slab, and nothing makes a caller call again. *)
LoneSpec == Spec /\ WF_vars(CallStep(t1))

(* A call returns although the others do not move: no call of aoclfftz_execute
   or aoclfftz_execute_io waits for another. *)
LoneCallReturns == Active(t1) ~> pc[t1] = "done"

(* The call that claimed the setup-time regions gives them back, whatever its
   solver returned (aoclfftz_execute_io). *)
OwnClaimIsReleased == Owns(t1) ~> acquired = 0
=============================================================================
