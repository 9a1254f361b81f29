------------------------ MODULE SharedHandle_proofs ------------------------
(***************************************************************************)
(* Proofs about SharedHandle for any number of threads, buffers and slab   *)
(* addresses, any family of well-formed plans and any alignment.           *)
(***************************************************************************)
EXTENDS SharedHandle, TLAPS

-----------------------------------------------------------------------------
(* The inductive invariant. *)

InCall(t) == pc[t] \in {"claim", "alloc", "run_owner", "run_slab", "run_base",
                        "release", "free"}

(* The handle stays while a call uses it. *)
HandleHeld == \A t \in Threads : InCall(t) => handle # NULL

(* Whose regions a call runs on. *)
RegionsKnown ==
    \A t \in Threads :
        /\ pc[t] \in {"claim", "alloc", "run_owner", "run_base"}
             => ctx[t].regions = BaseCtx(Plan)
        /\ pc[t] = "run_slab" =>
             IF slab[t] = NULL THEN SlabSize(Plan) = 0 /\ ctx[t].regions = BaseCtx(Plan)
             ELSE ctx[t].regions = CarvedCtx(Plan, slab[t])

(* A call that runs on base_ctx without a claim is one the caller may not
   overlap with another, and it runs alone. *)
RunsAlone ==
    \A t \in Threads : pc[t] = "run_base" =>
        /\ call[t].api = "setup" \/ Plan.real
        /\ \A u \in Threads : InCall(u) => u = t

IInv ==
    /\ TypeOK
    /\ HandleHeld
    /\ RegionsKnown
    /\ RunsAlone
    /\ ClaimMatchesOwner
    /\ SlabsAccounted

-----------------------------------------------------------------------------
(* Sizes and pointers of a well-formed plan. *)

USE DEF Kinds, Blocks

LEMMA PlansTyped ==
    ASSUME NEW p \in Plans
    PROVE  /\ p \in PlanType
           /\ WellFormed(p)
           /\ p.ct \in Nat /\ p.bs \in Nat /\ p.srCopy \in Nat
           /\ p.inner \in Seq({"ct", "bs_in", "bs_out"})
  BY PlansAssumption DEF PlanType

LEMMA SizesTyped ==
    ASSUME NEW p \in Plans, NEW k \in Kinds
    PROVE  SizeOf(p, k) \in Nat
  BY PlansTyped DEF SizeOf

LEMMA PaddedSize ==
    ASSUME NEW n \in Nat
    PROVE  /\ GetPaddedSize(n) \in Nat
           /\ n <= GetPaddedSize(n)
           /\ n > 0 => GetPaddedSize(n) > 0
           /\ GetPaddedSize(n) % Align = 0
  <1>1. Align \in Nat /\ Align > 0
    BY AlignAssumption
  <1> DEFINE q == (n + Align - 1) \div Align
             r == (n + Align - 1) % Align
  <1>2. /\ q \in Int /\ r \in 0 .. Align - 1
        /\ n + Align - 1 = Align * q + r
    BY <1>1
  <1>3. q >= 0
    BY <1>1, <1>2
  <1>4. Align * q = q * Align
    BY <1>1, <1>2
  <1>5. q * Align \in Nat
    BY <1>1, <1>2, <1>3
  <1>6. q * Align >= n
    BY <1>1, <1>2, <1>4, <1>5
  <1>7. (q * Align) % Align = 0
    BY <1>1, <1>2, <1>3
  <1> QED
    BY <1>5, <1>6, <1>7 DEF GetPaddedSize

LEMMA CtxTyped ==
    ASSUME NEW p \in Plans
    PROVE  /\ BaseCtx(p) \in [Kinds -> RegionPtrs]
           /\ \A s \in Slabs : CarvedCtx(p, s) \in [Kinds -> RegionPtrs]
           /\ SlabSize(p) \in Nat
  <1>1. BaseCtx(p) \in [Kinds -> RegionPtrs]
    BY DEF BaseCtx, RegionPtrs
  <1>2. ASSUME NEW s \in Slabs
        PROVE  CarvedCtx(p, s) \in [Kinds -> RegionPtrs]
    <2>1. \A k \in Kinds : OffsetOf(p, k) \in Nat
      BY PlansTyped DEF OffsetOf
    <2> QED
      BY <1>1, <2>1 DEF CarvedCtx, RegionPtrs
  <1>3. SlabSize(p) \in Nat
    <2>1. p.ct \in Nat /\ p.bs \in Nat /\ p.srCopy \in Nat
      BY PlansTyped
    <2>2. GetPaddedSize(p.srCopy) \in Nat
      BY <2>1, PaddedSize
    <2> QED
      BY <2>1, <2>2 DEF SlabSize
  <1> QED
    BY <1>1, <1>2, <1>3

LEMMA InnerRouteTyped ==
    ASSUME NEW p \in Plans, NEW r, NEW in, NEW out
    PROVE  Len(InnerRoute(p, r, in, out)) \in Nat
  <1> DEFINE copy == IF p.sr /\ in = out /\ r["sr"] # NULL THEN <<"sr">> ELSE <<>>
  <1>1. p.inner \in Seq(Kinds)
    BY PlansTyped
  <1>2. <<"sr">> \in Seq(Kinds) /\ <<>> \in Seq(Kinds)
    OBVIOUS
  <1>3. copy \in Seq(Kinds)
    BY <1>2
  <1>4. InnerRoute(p, r, in, out) = copy \o p.inner
    BY DEF InnerRoute
  <1> HIDE DEF copy
  <1>5. copy \o p.inner \in Seq(Kinds)
    BY <1>1, <1>3
  <1> QED
    BY <1>4, <1>5

-----------------------------------------------------------------------------
(* Type correctness. *)

LEMMA ValuesTyped ==
    /\ Junk \in Values
    /\ \A b \in Bufs \cup {NULL} : Raw(b) \in Values /\ Fft(b) \in Values
    /\ \A b \in Bufs \cup {NULL}, k \in Nat : Mid(b, k) \in Values
  BY DEF Junk, Raw, Fft, Mid, Values

LEMMA ProducedTyped ==
    ASSUME TypeOK, NEW t \in Threads, NEW k \in Nat
    PROVE  Produced(t, k) \in Values
  <1>1. InOf(t) \in Bufs \cup {NULL}
    BY DEF TypeOK, InOf
  <1> QED
    BY <1>1, ValuesTyped DEF Produced

LEMMA MemWriteTyped ==
    ASSUME TypeOK, NEW t \in Threads, NEW k, NEW v \in Values
    PROVE  /\ DOMAIN WriteRegion(t, k, v) = DOMAIN mem
           /\ \A b \in DOMAIN mem : /\ DOMAIN WriteRegion(t, k, v)[b] = DOMAIN mem[b]
                                    /\ WriteRegion(t, k, v)[b] \in [DOMAIN mem[b] -> Values]
  <1> DEFINE w == WriteRegion(t, k, v)
  <1>1. DOMAIN w = DOMAIN mem
    BY DEF WriteRegion
  <1>2. ASSUME NEW b \in DOMAIN mem
        PROVE  /\ DOMAIN w[b] = DOMAIN mem[b]
               /\ w[b] \in [DOMAIN mem[b] -> Values]
    <2>1. mem[b] \in [DOMAIN mem[b] -> Values]
      BY DEF TypeOK
    <2>2. w[b] = IF b = ctx[t].regions[k].blk
                 THEN [i \in DOMAIN mem[b] |->
                         IF i \in Region(Plan, ctx[t].regions, k) THEN v ELSE mem[b][i]]
                 ELSE mem[b]
      BY DEF WriteRegion
    <2> QED
      BY <2>1, <2>2
  <1> QED
    BY <1>1, <1>2

LEMMA InitTypeOK == Init => TypeOK
  BY ValuesTyped DEF Init, TypeOK, NoCall, NoCtx, RegionPtrs, Statuses

LEMMA NextTypeOK ==
    ASSUME TypeOK, HandleHeld, [Next]_vars
    PROVE  TypeOK'
  <1> USE DEF TypeOK
  <1>1. ASSUME NEW p \in Plans, NEW in \in Bufs, NEW out \in Bufs, Setup(p, in, out)
        PROVE  TypeOK'
    <2>1. mem' = [b \in SetupBlocks(p) |-> [i \in 0 .. SizeOf(p, b) - 1 |-> Junk]]
      BY <1>1 DEF Setup
    <2>2. /\ DOMAIN mem' \subseteq Blocks
          /\ \A b \in DOMAIN mem' : mem'[b] \in [DOMAIN mem'[b] -> Values]
      BY <2>1, ValuesTyped DEF SetupBlocks
    <2> QED
      BY <1>1, <2>2 DEF Setup
  <1>2. CASE Destroy
    <2>1. mem' = [b \in DOMAIN mem \ SetupBlocks(Plan) |-> mem[b]]
      BY <1>2 DEF Destroy
    <2>2. /\ DOMAIN mem' \subseteq Blocks
          /\ \A b \in DOMAIN mem' : mem'[b] \in [DOMAIN mem'[b] -> Values]
      BY <2>1
    <2> QED
      BY <1>2, <2>2, ValuesTyped DEF Destroy
  <1>3. ASSUME NEW t \in Threads, Execute(t)
        PROVE  TypeOK'
    <2>1. handle \in [plan : Plans, in : Bufs, out : Bufs]
      BY <1>3 DEF Execute
    <2>2. BaseCtx(Plan) \in [Kinds -> RegionPtrs]
      BY <2>1, CtxTyped DEF Plan
    <2> QED
      BY <1>3, <2>1, <2>2, ValuesTyped DEF Execute
  <1>4. ASSUME NEW t \in Threads, ExecuteIONull(t)
        PROVE  TypeOK'
    BY <1>4 DEF ExecuteIONull, Statuses
  <1>5. ASSUME NEW t \in Threads, NEW in \in Bufs, NEW out \in Bufs, ExecuteIO(t, in, out)
        PROVE  TypeOK'
    <2>1. handle \in [plan : Plans, in : Bufs, out : Bufs]
      BY <1>5 DEF ExecuteIO
    <2>2. BaseCtx(Plan) \in [Kinds -> RegionPtrs]
      BY <2>1, CtxTyped DEF Plan
    <2> QED
      BY <1>5, <2>1, <2>2, ValuesTyped DEF ExecuteIO
  <1>6. ASSUME NEW t \in Threads, ClaimSetupBuffers(t)
        PROVE  TypeOK'
    BY <1>6 DEF ClaimSetupBuffers
  <1>7. ASSUME NEW t \in Threads, AllocNothing(t)
        PROVE  TypeOK'
    BY <1>7 DEF AllocNothing
  <1>8. ASSUME NEW t \in Threads, NEW s \in Slabs, AllocPerCallScratch(t, s)
        PROVE  TypeOK'
    <2>1. handle \in [plan : Plans, in : Bufs, out : Bufs]
      BY <1>8 DEF AllocPerCallScratch, HandleHeld, InCall
    <2>2. CarvedCtx(Plan, s) \in [Kinds -> RegionPtrs]
      BY <2>1, CtxTyped DEF Plan
    <2>3. ctx' = [ctx EXCEPT ![t] = [in |-> ctx[t].in, out |-> ctx[t].out,
                                    regions |-> CarvedCtx(Plan, s)]]
      BY <1>8 DEF AllocPerCallScratch
    <2>4. ctx' \in [Threads -> [in : Bufs \cup {NULL}, out : Bufs \cup {NULL},
                               regions : [Kinds -> RegionPtrs]]]
      BY <2>2, <2>3
    <2>5. mem' = [b \in DOMAIN mem \cup {s} |->
                 IF b = s THEN [i \in 0 .. SlabSize(Plan) - 1 |-> Junk] ELSE mem[b]]
      BY <1>8 DEF AllocPerCallScratch
    <2>6. /\ DOMAIN mem' \subseteq Blocks
          /\ \A b \in DOMAIN mem' : mem'[b] \in [DOMAIN mem'[b] -> Values]
      BY <2>5, ValuesTyped
    <2> QED
      BY <1>8, <2>4, <2>6 DEF AllocPerCallScratch
  <1>9. ASSUME NEW t \in Threads, AllocFails(t)
        PROVE  TypeOK'
    BY <1>9 DEF AllocFails, Statuses
  <1>10. ASSUME NEW t \in Threads, SolverPass(t)
         PROVE  TypeOK'
    <2> DEFINE k == step[t] + 1
               to == RouteOf(t)[k]
               v == Produced(t, k)
    <2>1. k \in Nat
      OBVIOUS
    <2>2. v \in Values
      BY <2>1, ProducedTyped
    <2>3. \/ buf' = [buf EXCEPT ![OutOf(t)] = v] /\ mem' = mem
          \/ mem' = WriteRegion(t, to, v) /\ buf' = buf
      BY <1>10 DEF SolverPass
    <2>4. buf' \in [Bufs -> Values]
      BY <2>2, <2>3
    <2>5. /\ DOMAIN mem' \subseteq Blocks
          /\ \A b \in DOMAIN mem' : mem'[b] \in [DOMAIN mem'[b] -> Values]
      BY <2>2, <2>3, MemWriteTyped
    <2>6. step' \in [Threads -> Nat]
      BY <1>10, <2>1 DEF SolverPass
    <2>7. /\ \/ status' = [status EXCEPT ![t] = "SUCCESS"]
             \/ status' = status
          /\ \/ pc' = [pc EXCEPT ![t] = AfterExecute(t)]
             \/ pc' = pc
          /\ UNCHANGED <<handle, ds, acquired, call, ctx, slab>>
      BY <1>10 DEF SolverPass
    <2>8. status' \in [Threads -> Statuses]
      BY <2>7 DEF Statuses
    <2>9. pc' \in [Threads -> {"idle", "claim", "alloc", "run_owner", "run_slab",
                              "run_base", "release", "free", "done"}]
      BY <2>7 DEF AfterExecute
    <2> QED
      BY <2>4, <2>5, <2>6, <2>7, <2>8, <2>9
  <1>11. ASSUME NEW t \in Threads, CopyBufferRefused(t)
         PROVE  TypeOK'
    <2>1. handle \in [plan : Plans, in : Bufs, out : Bufs]
      BY <1>11 DEF CopyBufferRefused, Running, HandleHeld, InCall
    <2>2. Len(InnerRoute(Plan, ctx[t].regions, InOf(t), OutOf(t))) + 1 \in Nat
      BY <2>1, InnerRouteTyped DEF Plan
    <2> DEFINE l == Len(InnerRoute(Plan, ctx[t].regions, InOf(t), OutOf(t))) + 1
    <2>3. /\ \/ status' = [status EXCEPT ![t] = "EXECUTION_FAILURE"]
             \/ status' = status
          /\ \/ pc' = [pc EXCEPT ![t] = AfterExecute(t)]
             \/ pc' = pc
          /\ \/ step' = [step EXCEPT ![t] = l]
             \/ step' = step
          /\ UNCHANGED <<handle, ds, acquired, call, ctx, slab, mem, buf>>
      BY <1>11 DEF CopyBufferRefused
    <2> HIDE DEF l
    <2>4. step' \in [Threads -> Nat]
      BY <2>2, <2>3 DEF l
    <2>5. status' \in [Threads -> Statuses]
      BY <2>3 DEF Statuses
    <2>6. pc' \in [Threads -> {"idle", "claim", "alloc", "run_owner", "run_slab",
                              "run_base", "release", "free", "done"}]
      BY <2>3 DEF AfterExecute
    <2> QED
      BY <2>3, <2>4, <2>5, <2>6
  <1>12. ASSUME NEW t \in Threads, ReleaseSetupBuffers(t)
         PROVE  TypeOK'
    BY <1>12 DEF ReleaseSetupBuffers
  <1>13. ASSUME NEW t \in Threads, FreeScratchSlab(t)
         PROVE  TypeOK'
    <2>1. mem' = [b \in DOMAIN mem \ {slab[t]} |-> mem[b]]
      BY <1>13 DEF FreeScratchSlab
    <2>2. /\ DOMAIN mem' \subseteq Blocks
          /\ \A b \in DOMAIN mem' : mem'[b] \in [DOMAIN mem'[b] -> Values]
      BY <2>1
    <2> QED
      BY <1>13, <2>2 DEF FreeScratchSlab
  <1>14. ASSUME NEW t \in Threads, Return(t)
         PROVE  TypeOK'
    BY <1>14 DEF Return, NoCall, NoCtx, RegionPtrs, Statuses
  <1>15. CASE UNCHANGED vars
    BY <1>15 DEF vars
  <1> QED
    BY <1>1, <1>2, <1>3, <1>4, <1>5, <1>6, <1>7, <1>8, <1>9, <1>10, <1>11, <1>12,
       <1>13, <1>14, <1>15 DEF Next, CallStep
-----------------------------------------------------------------------------
(* Every step preserves the inductive invariant. *)

LEMMA InitIInv == Init => IInv
  BY InitTypeOK DEF Init, IInv, HandleHeld, InCall, RegionsKnown, RunsAlone,
       ClaimMatchesOwner, Owns, SlabsAccounted

LEMMA NextIInv ==
    ASSUME IInv, [Next]_vars
    PROVE  IInv'
  <1>0. TypeOK'
    BY NextTypeOK DEF IInv
  <1> USE DEF IInv, TypeOK
  <1>1. ASSUME NEW p \in Plans, NEW in \in Bufs, NEW out \in Bufs, Setup(p, in, out)
        PROVE  HandleHeld' /\ RegionsKnown' /\ RunsAlone' /\ ClaimMatchesOwner' /\ SlabsAccounted'
    <2>1. HandleHeld'
      BY <1>1 DEF Setup, HandleHeld, InCall
    <2>2. RegionsKnown'
      BY <1>1 DEF Setup, RegionsKnown, Plan, HandleHeld, InCall
    <2>3. RunsAlone'
      BY <1>1 DEF Setup, RunsAlone, InCall, Plan, HandleHeld
    <2>4. ClaimMatchesOwner'
      BY <1>1 DEF Setup, ClaimMatchesOwner, Owns, HandleHeld, InCall
    <2>5. SlabsAccounted'
      <3>1. \A t \in Threads : slab[t] = NULL
        BY <1>1 DEF Setup, SlabsAccounted, HandleHeld, InCall
      <3>2. DOMAIN mem' \subseteq Kinds /\ slab' = slab /\ pc' = pc
        BY <1>1 DEF Setup, SetupBlocks
      <3>3. DOMAIN mem' \cap Slabs = {}
        BY <3>2, NamesAssumption
      <3> QED
        BY <3>1, <3>2, <3>3 DEF SlabsAccounted
    <2> QED
      BY <2>1, <2>2, <2>3, <2>4, <2>5
  <1>2. CASE Destroy
    <2>1. HandleHeld'
      BY <1>2 DEF Destroy, HandleHeld, InCall, Active
    <2>2. RegionsKnown'
      BY <1>2 DEF Destroy, RegionsKnown, Plan, HandleHeld, InCall, Active
    <2>3. RunsAlone'
      BY <1>2 DEF Destroy, RunsAlone, InCall, Plan, HandleHeld, Active
    <2>4. ClaimMatchesOwner'
      BY <1>2 DEF Destroy, ClaimMatchesOwner, Owns, HandleHeld, InCall, Active
    <2>5. SlabsAccounted'
      <3>1. \A t \in Threads : slab[t] = NULL
        BY <1>2 DEF Destroy, SlabsAccounted, Active
      <3>2. DOMAIN mem' \subseteq DOMAIN mem /\ slab' = slab /\ pc' = pc
        BY <1>2 DEF Destroy
      <3> QED
        BY <3>1, <3>2 DEF SlabsAccounted
    <2> QED
      BY <1>0, <2>1, <2>2, <2>3, <2>4, <2>5
  <1>3. ASSUME NEW t \in Threads, Execute(t)
        PROVE  HandleHeld' /\ RegionsKnown' /\ RunsAlone' /\ ClaimMatchesOwner' /\ SlabsAccounted'
    <2>1. HandleHeld'
      BY <1>3 DEF Execute, HandleHeld, InCall, Active
    <2>2. RegionsKnown'
      BY <1>3 DEF Execute, RegionsKnown, Plan, HandleHeld, InCall, Active
    <2>3. RunsAlone'
      BY <1>3 DEF Execute, RunsAlone, InCall, Plan, HandleHeld, Active
    <2>4. ClaimMatchesOwner'
      BY <1>3 DEF Execute, ClaimMatchesOwner, Owns, HandleHeld, InCall, Active
    <2>5. SlabsAccounted'
      BY <1>3 DEF Execute, SlabsAccounted, HandleHeld, InCall, Active
    <2> QED
      BY <2>1, <2>2, <2>3, <2>4, <2>5
  <1>4. ASSUME NEW t \in Threads, ExecuteIONull(t)
        PROVE  HandleHeld' /\ RegionsKnown' /\ RunsAlone' /\ ClaimMatchesOwner' /\ SlabsAccounted'
    <2>1. HandleHeld'
      BY <1>4 DEF ExecuteIONull, HandleHeld, InCall
    <2>2. RegionsKnown'
      BY <1>4 DEF ExecuteIONull, RegionsKnown, Plan
    <2>3. RunsAlone'
      BY <1>4 DEF ExecuteIONull, RunsAlone, InCall, Plan
    <2>4. ClaimMatchesOwner'
      BY <1>4 DEF ExecuteIONull, ClaimMatchesOwner, Owns
    <2>5. SlabsAccounted'
      BY <1>4 DEF ExecuteIONull, SlabsAccounted
    <2> QED
      BY <2>1, <2>2, <2>3, <2>4, <2>5
  <1>5. ASSUME NEW t \in Threads, NEW in \in Bufs, NEW out \in Bufs, ExecuteIO(t, in, out)
        PROVE  HandleHeld' /\ RegionsKnown' /\ RunsAlone' /\ ClaimMatchesOwner' /\ SlabsAccounted'
    <2>1. HandleHeld'
      BY <1>5 DEF ExecuteIO, HandleHeld, InCall, Active, MayOverlap
    <2>2. RegionsKnown'
      BY <1>5 DEF ExecuteIO, RegionsKnown, Plan, Active, MayOverlap
    <2>3. RunsAlone'
      BY <1>5 DEF ExecuteIO, RunsAlone, InCall, Plan, Active, MayOverlap
    <2>4. ClaimMatchesOwner'
      BY <1>5 DEF ExecuteIO, ClaimMatchesOwner, Owns, Active, MayOverlap
    <2>5. SlabsAccounted'
      BY <1>5 DEF ExecuteIO, SlabsAccounted, Active, MayOverlap
    <2> QED
      BY <2>1, <2>2, <2>3, <2>4, <2>5
  <1>6. ASSUME NEW t \in Threads, ClaimSetupBuffers(t)
        PROVE  HandleHeld' /\ RegionsKnown' /\ RunsAlone' /\ ClaimMatchesOwner' /\ SlabsAccounted'
    <2>1. HandleHeld'
      BY <1>6 DEF ClaimSetupBuffers, HandleHeld, InCall
    <2>2. RegionsKnown'
      BY <1>6 DEF ClaimSetupBuffers, RegionsKnown, Plan
    <2>3. RunsAlone'
      BY <1>6 DEF ClaimSetupBuffers, RunsAlone, InCall, Plan
    <2>4. ClaimMatchesOwner'
      BY <1>6 DEF ClaimSetupBuffers, ClaimMatchesOwner, Owns
    <2>5. SlabsAccounted'
      BY <1>6 DEF ClaimSetupBuffers, SlabsAccounted
    <2> QED
      BY <2>1, <2>2, <2>3, <2>4, <2>5
  <1>7. ASSUME NEW t \in Threads, AllocNothing(t)
        PROVE  HandleHeld' /\ RegionsKnown' /\ RunsAlone' /\ ClaimMatchesOwner' /\ SlabsAccounted'
    <2>1. HandleHeld'
      BY <1>7 DEF AllocNothing, HandleHeld, InCall
    <2>2. RegionsKnown'
      <3>1. slab[t] = NULL
        BY <1>7 DEF AllocNothing, SlabsAccounted
      <3> QED
        BY <1>7, <3>1 DEF AllocNothing, RegionsKnown, Plan
    <2>3. RunsAlone'
      BY <1>7 DEF AllocNothing, RunsAlone, InCall, Plan
    <2>4. ClaimMatchesOwner'
      BY <1>7 DEF AllocNothing, ClaimMatchesOwner, Owns
    <2>5. SlabsAccounted'
      BY <1>7 DEF AllocNothing, SlabsAccounted
    <2> QED
      BY <2>1, <2>2, <2>3, <2>4, <2>5
  <1>8. ASSUME NEW t \in Threads, NEW s \in Slabs, AllocPerCallScratch(t, s)
        PROVE  HandleHeld' /\ RegionsKnown' /\ RunsAlone' /\ ClaimMatchesOwner' /\ SlabsAccounted'
    <2>1. HandleHeld'
      BY <1>8 DEF AllocPerCallScratch, HandleHeld, InCall
    <2>2. RegionsKnown'
      <3>1. /\ slab' = [slab EXCEPT ![t] = s]
            /\ ctx' = [ctx EXCEPT ![t] = [in |-> ctx[t].in, out |-> ctx[t].out,
                                          regions |-> CarvedCtx(Plan, s)]]
            /\ pc' = [pc EXCEPT ![t] = "run_slab"]
            /\ handle' = handle
        BY <1>8 DEF AllocPerCallScratch
      <3>2. s # NULL
        BY NamesAssumption
      <3> QED
        BY <3>1, <3>2 DEF RegionsKnown, Plan
    <2>3. RunsAlone'
      BY <1>8 DEF AllocPerCallScratch, RunsAlone, InCall, Plan
    <2>4. ClaimMatchesOwner'
      BY <1>8 DEF AllocPerCallScratch, ClaimMatchesOwner, Owns
    <2>5. SlabsAccounted'
      <3>1. /\ slab[t] = NULL
            /\ s \notin DOMAIN mem
            /\ DOMAIN mem' = DOMAIN mem \cup {s}
            /\ slab' = [slab EXCEPT ![t] = s]
            /\ pc' = [pc EXCEPT ![t] = "run_slab"]
        BY <1>8 DEF AllocPerCallScratch, SlabsAccounted
      <3>2. s # NULL
        BY NamesAssumption
      <3>3. {slab'[u] : u \in Threads} = {slab[u] : u \in Threads \ {t}} \cup {s}
        BY <3>1
      <3>4. \A u \in Threads : slab[u] # s
        BY <3>1, <3>2 DEF SlabsAccounted
      <3>5. DOMAIN mem' \cap Slabs = {slab'[u] : u \in Threads} \ {NULL}
        BY <3>1, <3>2, <3>3 DEF SlabsAccounted
      <3> QED
        BY <3>1, <3>4, <3>5 DEF SlabsAccounted
    <2> QED
      BY <2>1, <2>2, <2>3, <2>4, <2>5
  <1>9. ASSUME NEW t \in Threads, AllocFails(t)
        PROVE  HandleHeld' /\ RegionsKnown' /\ RunsAlone' /\ ClaimMatchesOwner' /\ SlabsAccounted'
    <2>1. HandleHeld'
      BY <1>9 DEF AllocFails, HandleHeld, InCall
    <2>2. RegionsKnown'
      BY <1>9 DEF AllocFails, RegionsKnown, Plan
    <2>3. RunsAlone'
      BY <1>9 DEF AllocFails, RunsAlone, InCall, Plan
    <2>4. ClaimMatchesOwner'
      BY <1>9 DEF AllocFails, ClaimMatchesOwner, Owns
    <2>5. SlabsAccounted'
      BY <1>9 DEF AllocFails, SlabsAccounted
    <2> QED
      BY <2>1, <2>2, <2>3, <2>4, <2>5
  <1>10. ASSUME NEW t \in Threads, SolverPass(t)
        PROVE  HandleHeld' /\ RegionsKnown' /\ RunsAlone' /\ ClaimMatchesOwner' /\ SlabsAccounted'
    <2>1. HandleHeld'
      BY <1>10 DEF SolverPass, HandleHeld, InCall, AfterExecute, Running
    <2>2. RegionsKnown'
      BY <1>10 DEF SolverPass, RegionsKnown, Plan, AfterExecute, Running
    <2>3. RunsAlone'
      BY <1>10 DEF SolverPass, RunsAlone, InCall, Plan, AfterExecute, Running
    <2>4. ClaimMatchesOwner'
      BY <1>10 DEF SolverPass, ClaimMatchesOwner, Owns, AfterExecute, Running
    <2>5. SlabsAccounted'
      <3>1. Produced(t, step[t] + 1) \in Values
        BY ProducedTyped
      <3>2. DOMAIN mem' = DOMAIN mem
        BY <1>10, <3>1, MemWriteTyped DEF SolverPass
      <3>3. /\ slab' = slab
            /\ \/ pc' = pc
               \/ pc' = [pc EXCEPT ![t] = AfterExecute(t)]
            /\ Running(t)
        BY <1>10 DEF SolverPass
      <3> QED
        BY <3>2, <3>3 DEF SlabsAccounted, AfterExecute, Running
    <2> QED
      BY <2>1, <2>2, <2>3, <2>4, <2>5
  <1>11. ASSUME NEW t \in Threads, CopyBufferRefused(t)
        PROVE  HandleHeld' /\ RegionsKnown' /\ RunsAlone' /\ ClaimMatchesOwner' /\ SlabsAccounted'
    <2>1. HandleHeld'
      BY <1>11 DEF CopyBufferRefused, HandleHeld, InCall, AfterExecute, Running
    <2>2. RegionsKnown'
      BY <1>11 DEF CopyBufferRefused, RegionsKnown, Plan, AfterExecute, Running
    <2>3. RunsAlone'
      BY <1>11 DEF CopyBufferRefused, RunsAlone, InCall, Plan, AfterExecute, Running
    <2>4. ClaimMatchesOwner'
      BY <1>11 DEF CopyBufferRefused, ClaimMatchesOwner, Owns, AfterExecute, Running
    <2>5. SlabsAccounted'
      BY <1>11 DEF CopyBufferRefused, SlabsAccounted, AfterExecute, Running
    <2> QED
      BY <2>1, <2>2, <2>3, <2>4, <2>5
  <1>12. ASSUME NEW t \in Threads, ReleaseSetupBuffers(t)
        PROVE  HandleHeld' /\ RegionsKnown' /\ RunsAlone' /\ ClaimMatchesOwner' /\ SlabsAccounted'
    <2>1. HandleHeld'
      BY <1>12 DEF ReleaseSetupBuffers, HandleHeld, InCall
    <2>2. RegionsKnown'
      BY <1>12 DEF ReleaseSetupBuffers, RegionsKnown, Plan
    <2>3. RunsAlone'
      BY <1>12 DEF ReleaseSetupBuffers, RunsAlone, InCall, Plan
    <2>4. ClaimMatchesOwner'
      BY <1>12 DEF ReleaseSetupBuffers, ClaimMatchesOwner, Owns
    <2>5. SlabsAccounted'
      BY <1>12 DEF ReleaseSetupBuffers, SlabsAccounted
    <2> QED
      BY <2>1, <2>2, <2>3, <2>4, <2>5
  <1>13. ASSUME NEW t \in Threads, FreeScratchSlab(t)
        PROVE  HandleHeld' /\ RegionsKnown' /\ RunsAlone' /\ ClaimMatchesOwner' /\ SlabsAccounted'
    <2>1. HandleHeld'
      BY <1>13 DEF FreeScratchSlab, HandleHeld, InCall
    <2>2. RegionsKnown'
      BY <1>13 DEF FreeScratchSlab, RegionsKnown, Plan
    <2>3. RunsAlone'
      BY <1>13 DEF FreeScratchSlab, RunsAlone, InCall, Plan
    <2>4. ClaimMatchesOwner'
      BY <1>13 DEF FreeScratchSlab, ClaimMatchesOwner, Owns
    <2>5. SlabsAccounted'
      BY <1>13 DEF FreeScratchSlab, SlabsAccounted
    <2> QED
      BY <2>1, <2>2, <2>3, <2>4, <2>5
  <1>14. ASSUME NEW t \in Threads, Return(t)
        PROVE  HandleHeld' /\ RegionsKnown' /\ RunsAlone' /\ ClaimMatchesOwner' /\ SlabsAccounted'
    <2>1. HandleHeld'
      BY <1>14 DEF Return, HandleHeld, InCall
    <2>2. RegionsKnown'
      BY <1>14 DEF Return, RegionsKnown, Plan
    <2>3. RunsAlone'
      BY <1>14 DEF Return, RunsAlone, InCall, Plan
    <2>4. ClaimMatchesOwner'
      BY <1>14 DEF Return, ClaimMatchesOwner, Owns
    <2>5. SlabsAccounted'
      BY <1>14 DEF Return, SlabsAccounted
    <2> QED
      BY <2>1, <2>2, <2>3, <2>4, <2>5
  <1>15. CASE UNCHANGED vars
    BY <1>15 DEF vars, HandleHeld, InCall, RegionsKnown, RunsAlone, Plan,
       ClaimMatchesOwner, Owns, SlabsAccounted
  <1> QED
    BY <1>0, <1>1, <1>2, <1>3, <1>4, <1>5, <1>6, <1>7, <1>8, <1>9, <1>10, <1>11, <1>12, <1>13, <1>14, <1>15 DEF Next, CallStep

-----------------------------------------------------------------------------
(* The theorems. *)

LEMMA SpecIInv == Spec => []IInv
  <1>1. Init => IInv
    BY InitIInv
  <1>2. IInv /\ [Next]_vars => IInv'
    BY NextIInv
  <1> QED
    BY <1>1, <1>2, PTL DEF Spec

(* Type correctness: every variable keeps its type, in particular no thread
   dereferences an absent handle to build its context. *)
THEOREM TypeCorrect == Spec => []TypeOK
  <1>1. IInv => TypeOK
    BY DEF IInv
  <1> QED
    BY <1>1, SpecIInv, PTL

(* The compare-and-exchange and the store of execute_io keep
   setup_buffers_acquired equal to "some call holds the setup-time regions",
   and never let two calls hold them. *)
THEOREM ClaimOwnership == Spec => []ClaimMatchesOwner
  <1>1. IInv => ClaimMatchesOwner
    BY DEF IInv
  <1> QED
    BY <1>1, SpecIInv, PTL

(* No slab is leaked, shared between calls or freed while its solver runs,
   on every path through execute_io. *)
THEOREM SlabAccounting == Spec => []SlabsAccounted
  <1>1. IInv => SlabsAccounted
    BY DEF IInv
  <1> QED
    BY <1>1, SpecIInv, PTL

(* The block a region of a running call lies in: an allocation made at setup
   if the call owns the claim, its own slab if it allocated one. *)
LEMMA CellBlocks ==
    ASSUME IInv, NEW t \in Threads, Running(t)
    PROVE  /\ pc[t] # "run_slab" => Cells(t) \subseteq Kinds \X Int
           /\ pc[t] = "run_slab" /\ slab[t] # NULL => Cells(t) \subseteq {slab[t]} \X Int
           /\ pc[t] = "run_slab" /\ slab[t] = NULL => Cells(t) = {}
  <1> DEFINE r == ctx[t].regions
  <1>1. handle \in [plan : Plans, in : Bufs, out : Bufs]
    BY DEF IInv, HandleHeld, InCall, Running, TypeOK
  <1>2. Plan \in Plans
    BY <1>1 DEF Plan
  <1>3. \A k \in Kinds : NULL # [blk |-> k, off |-> 0]
    BY NamesAssumption
  <1>4. \A k \in Kinds : BaseCtx(Plan)[k] # NULL =>
            BaseCtx(Plan)[k].blk = k /\ SizeOf(Plan, k) > 0
    BY <1>3 DEF BaseCtx
  <1>5. \A k \in Kinds : SizeOf(Plan, k) \in Nat
    BY <1>2, SizesTyped
  <1>6. r \in [Kinds -> RegionPtrs]
    BY DEF IInv, TypeOK
  <1>7. \A k \in Kinds : r[k] # NULL => r[k].off \in Nat
    BY <1>6 DEF RegionPtrs
  <1>8. \A k \in Kinds : r[k] # NULL => Region(Plan, r, k) \subseteq Int
    BY <1>5, <1>7 DEF Region
  <1>9. CASE pc[t] # "run_slab"
    <2>1. r = BaseCtx(Plan)
      BY <1>9 DEF IInv, RegionsKnown, Running
    <2>2. \A k \in Kinds : r[k] # NULL =>
              {r[k].blk} \X Region(Plan, r, k) \subseteq Kinds \X Int
      BY <1>4, <1>8, <2>1
    <2> QED
      BY <1>9, <2>2 DEF Cells
  <1>10. CASE pc[t] = "run_slab" /\ slab[t] # NULL
    <2>1. r = CarvedCtx(Plan, slab[t])
      BY <1>10 DEF IInv, RegionsKnown
    <2>2. \A k \in Kinds : r[k] # NULL => r[k].blk = slab[t]
      BY <1>4, <2>1 DEF CarvedCtx
    <2>3. \A k \in Kinds : r[k] # NULL =>
              {r[k].blk} \X Region(Plan, r, k) \subseteq {slab[t]} \X Int
      BY <1>8, <2>2
    <2> QED
      BY <1>10, <2>3 DEF Cells
  <1>11. CASE pc[t] = "run_slab" /\ slab[t] = NULL
    <2>1. r = BaseCtx(Plan) /\ SlabSize(Plan) = 0
      BY <1>11 DEF IInv, RegionsKnown
    <2>2. \A k \in Kinds : SizeOf(Plan, k) = 0
      <3>1. Plan.ct \in Nat /\ Plan.bs \in Nat /\ Plan.srCopy \in Nat
        BY <1>2, PlansTyped
      <3>2. /\ GetPaddedSize(Plan.srCopy) \in Nat
            /\ Plan.srCopy > 0 => GetPaddedSize(Plan.srCopy) > 0
        BY <3>1, PaddedSize
      <3>3. Plan.ct = 0 /\ Plan.bs = 0 /\ Plan.srCopy = 0
        <4>1. Plan.ct + Plan.bs * 2 + GetPaddedSize(Plan.srCopy) = 0
          BY <2>1 DEF SlabSize
        <4>2. \A a, b, c, d \in Nat :
                 a + b * 2 + d = 0 /\ (c > 0 => d > 0) => a = 0 /\ b = 0 /\ c = 0
          OBVIOUS
        <4> QED
          BY <3>1, <3>2, <4>1, <4>2, ZenonT(30)
      <3> QED
        BY <3>3 DEF SizeOf
    <2>3. {j \in Kinds : r[j] # NULL} = {}
      BY <1>4, <2>1, <2>2
    <2> QED
      BY <1>11, <2>3 DEF Cells
  <1> QED
    BY <1>9, <1>10, <1>11

LEMMA RunningApart == IInv => ScratchExclusive
  <1>1. ASSUME IInv, NEW t \in Threads, NEW u \in Threads, t # u, Running(t), Running(u)
        PROVE  Cells(t) \cap Cells(u) = {}
    <2>1. Slabs \cap Kinds = {}
      BY NamesAssumption
    <2>2. pc[t] # "run_base" /\ pc[u] # "run_base"
      BY <1>1 DEF IInv, RunsAlone, InCall, Running
    <2>3. pc[t] = "run_slab" \/ pc[u] = "run_slab"
      BY <1>1, <2>2 DEF IInv, ClaimMatchesOwner, Owns, Running
    <2>4. /\ slab[t] # NULL => slab[t] \in Slabs /\ slab[t] # slab[u]
          /\ slab[u] # NULL => slab[u] \in Slabs
      BY <1>1 DEF IInv, TypeOK, SlabsAccounted
    <2>5. CASE pc[t] = "run_slab" /\ slab[t] = NULL
      BY <1>1, <2>5, CellBlocks
    <2>6. CASE pc[u] = "run_slab" /\ slab[u] = NULL
      BY <1>1, <2>6, CellBlocks
    <2>7. CASE pc[t] = "run_slab" /\ slab[t] # NULL /\ pc[u] # "run_slab"
      <3>1. Cells(t) \subseteq {slab[t]} \X Int /\ Cells(u) \subseteq Kinds \X Int
        BY <1>1, <2>7, CellBlocks
      <3> QED
        BY <2>1, <2>4, <2>7, <3>1
    <2>8. CASE pc[u] = "run_slab" /\ slab[u] # NULL /\ pc[t] # "run_slab"
      <3>1. Cells(u) \subseteq {slab[u]} \X Int /\ Cells(t) \subseteq Kinds \X Int
        BY <1>1, <2>8, CellBlocks
      <3> QED
        BY <2>1, <2>4, <2>8, <3>1
    <2>9. CASE pc[t] = "run_slab" /\ slab[t] # NULL /\ pc[u] = "run_slab" /\ slab[u] # NULL
      <3>1. Cells(t) \subseteq {slab[t]} \X Int /\ Cells(u) \subseteq {slab[u]} \X Int
        BY <1>1, <2>9, CellBlocks
      <3> QED
        BY <2>4, <2>9, <3>1
    <2> QED
      BY <2>3, <2>5, <2>6, <2>7, <2>8, <2>9
  <1> QED
    BY <1>1 DEF ScratchExclusive

(* Two calls whose solvers run at once never share a byte of scratch memory,
   for any number of threads and any plan. *)
THEOREM ScratchExclusion == Spec => []ScratchExclusive
  BY RunningApart, SpecIInv, PTL

(* A call leaves the allocation-free path only while another call holds the
   setup-time regions. *)
THEOREM ContentionOnly == Spec => AllocOnlyUnderContention
  <1> DEFINE A == \A t \in Threads : pc[t] = "claim" /\ pc'[t] = "alloc" =>
                     \E u \in Threads \ {t} : Owns(u)
  <1>1. ASSUME IInv, Next
        PROVE  A
    <2>1. SUFFICES ASSUME NEW t \in Threads, pc[t] = "claim", pc'[t] = "alloc"
                   PROVE  \E u \in Threads \ {t} : Owns(u)
      OBVIOUS
    <2>2. acquired = 1
      <3>1. pc \in [Threads -> {"idle", "claim", "alloc", "run_owner", "run_slab",
                                "run_base", "release", "free", "done"}]
            /\ acquired \in {0, 1}
        BY <1>1 DEF IInv, TypeOK
      <3>2. PICK u \in Threads : ClaimSetupBuffers(u) /\ u = t
        <4>1. pc' # pc
          BY <2>1
        <4>2. ~ (\E p \in Plans, in, out \in Bufs : Setup(p, in, out)) /\ ~ Destroy
          BY <4>1 DEF Setup, Destroy
        <4>3. PICK u \in Threads :
                  Execute(u) \/ ExecuteIONull(u) \/ (\E in, out \in Bufs : ExecuteIO(u, in, out))
                  \/ CallStep(u) \/ Return(u)
          BY <1>1, <4>2 DEF Next
        <4>4. ~ (Execute(u) \/ ExecuteIONull(u) \/ (\E in, out \in Bufs : ExecuteIO(u, in, out)))
          BY <2>1, <3>1 DEF Execute, ExecuteIONull, ExecuteIO
        <4>5. ~ (AllocNothing(u) \/ (\E s \in Slabs : AllocPerCallScratch(u, s)) \/ AllocFails(u))
          BY <2>1, <3>1 DEF AllocNothing, AllocPerCallScratch, AllocFails
        <4>6. ~ (SolverPass(u) \/ CopyBufferRefused(u))
          BY <2>1, <3>1 DEF SolverPass, CopyBufferRefused, AfterExecute, Running
        <4>7. ~ (ReleaseSetupBuffers(u) \/ FreeScratchSlab(u) \/ Return(u))
          BY <2>1, <3>1 DEF ReleaseSetupBuffers, FreeScratchSlab, Return
        <4>8. ClaimSetupBuffers(u)
          BY <4>3, <4>4, <4>5, <4>6, <4>7 DEF CallStep
        <4>9. u = t
          BY <2>1, <3>1, <4>8 DEF ClaimSetupBuffers
        <4> QED
          BY <4>8, <4>9
      <3> QED
        BY <2>1, <3>1, <3>2 DEF ClaimSetupBuffers
    <2> QED
      BY <1>1, <2>1, <2>2 DEF IInv, ClaimMatchesOwner, Owns
  <1>2. IInv /\ [Next]_vars => [A]_vars
    BY <1>1
  <1> QED
    BY <1>2, SpecIInv, PTL DEF Spec, AllocOnlyUnderContention

-----------------------------------------------------------------------------
(* Where regions lie. *)

(* The allocations have the sizes setup and the calls asked for. *)
BlocksSized ==
    /\ handle # NULL => \A k \in SetupBlocks(Plan) :
          k \in DOMAIN mem /\ DOMAIN mem[k] = 0 .. SizeOf(Plan, k) - 1
    /\ \A t \in Threads : slab[t] # NULL =>
          slab[t] \in DOMAIN mem /\ DOMAIN mem[slab[t]] = 0 .. SlabSize(Plan) - 1

LEMMA NextBlocksSized ==
    ASSUME IInv, BlocksSized, [Next]_vars
    PROVE  BlocksSized'
  <1> USE DEF IInv, TypeOK
  <1>0. /\ \A t \in Threads : slab[t] # NULL => handle # NULL /\ slab[t] \notin Kinds
        /\ handle # NULL => SetupBlocks(Plan) \subseteq Kinds
    BY NamesAssumption DEF SlabsAccounted, HandleHeld, InCall, SetupBlocks
  <1>1. ASSUME NEW p \in Plans, NEW in \in Bufs, NEW out \in Bufs, Setup(p, in, out)
        PROVE  BlocksSized'
    <2>1. handle = NULL /\ slab' = slab /\ Plan' = p
          /\ mem' = [b \in SetupBlocks(p) |-> [i \in 0 .. SizeOf(p, b) - 1 |-> Junk]]
      BY <1>1 DEF Setup, Plan
    <2>2. \A t \in Threads : slab'[t] = NULL
      BY <1>0, <2>1
    <2>3. SetupBlocks(Plan)' = SetupBlocks(p) /\ \A k : SizeOf(Plan, k)' = SizeOf(p, k)
      BY <2>1 DEF SetupBlocks, SizeOf
    <2> QED
      BY <2>1, <2>2, <2>3 DEF BlocksSized
  <1>2. CASE Destroy
    <2>1. \A t \in Threads : slab[t] = NULL
      BY <1>2 DEF Destroy, Active, SlabsAccounted
    <2> QED
      BY <1>2, <2>1 DEF Destroy, BlocksSized
  <1>3. ASSUME NEW t \in Threads, NEW s \in Slabs, AllocPerCallScratch(t, s)
        PROVE  BlocksSized'
    <2>1. /\ handle' = handle /\ slab' = [slab EXCEPT ![t] = s] /\ s \notin DOMAIN mem
          /\ mem' = [b \in DOMAIN mem \cup {s} |->
                 IF b = s THEN [i \in 0 .. SlabSize(Plan) - 1 |-> Junk] ELSE mem[b]]
      BY <1>3 DEF AllocPerCallScratch
    <2>2. \A b \in DOMAIN mem : b \in DOMAIN mem' /\ mem'[b] = mem[b]
      BY <2>1
    <2>3. s \in DOMAIN mem' /\ DOMAIN mem'[s] = 0 .. SlabSize(Plan) - 1
      BY <2>1
    <2>4. /\ SetupBlocks(Plan)' = SetupBlocks(Plan) /\ SlabSize(Plan)' = SlabSize(Plan)
          /\ \A k : SizeOf(Plan, k)' = SizeOf(Plan, k)
      BY <2>1 DEF SetupBlocks, SizeOf, SlabSize, GetPaddedSize, Plan
    <2>5. \A u \in Threads : slab'[u] = IF u = t THEN s ELSE slab[u]
      BY <2>1
    <2> QED
      BY <2>1, <2>2, <2>3, <2>4, <2>5 DEF BlocksSized
  <1>4. ASSUME NEW t \in Threads, FreeScratchSlab(t)
        PROVE  BlocksSized'
    <2>1. /\ handle' = handle /\ slab' = [slab EXCEPT ![t] = NULL] /\ pc[t] = "free"
          /\ mem' = [b \in DOMAIN mem \ {slab[t]} |-> mem[b]]
      BY <1>4 DEF FreeScratchSlab
    <2>2. handle # NULL => \A k \in SetupBlocks(Plan) : k # slab[t]
      <3>1. slab[t] \notin Kinds
        BY <1>0, NamesAssumption
      <3> QED
        BY <1>0, <3>1
    <2>3. \A u \in Threads : slab'[u] # NULL => slab'[u] = slab[u] /\ slab[u] # slab[t]
      BY <2>1 DEF SlabsAccounted
    <2>4. /\ SetupBlocks(Plan)' = SetupBlocks(Plan) /\ SlabSize(Plan)' = SlabSize(Plan)
          /\ \A k : SizeOf(Plan, k)' = SizeOf(Plan, k)
      BY <2>1 DEF SetupBlocks, SizeOf, SlabSize, GetPaddedSize, Plan
    <2>5. \A b \in DOMAIN mem : b # slab[t] => b \in DOMAIN mem' /\ mem'[b] = mem[b]
      BY <2>1
    <2>6. ASSUME NEW u \in Threads, slab'[u] # NULL
          PROVE  slab'[u] \in DOMAIN mem' /\ DOMAIN mem'[slab'[u]] = 0 .. SlabSize(Plan) - 1
      <3>1. slab'[u] = slab[u] /\ slab[u] # NULL /\ slab[u] # slab[t]
        BY <2>3, <2>6
      <3>2. slab[u] \in DOMAIN mem /\ DOMAIN mem[slab[u]] = 0 .. SlabSize(Plan) - 1
        BY <3>1 DEF BlocksSized
      <3> QED
        BY <2>5, <3>1, <3>2
    <2>7. handle # NULL => \A k \in SetupBlocks(Plan) :
            k \in DOMAIN mem' /\ DOMAIN mem'[k] = 0 .. SizeOf(Plan, k) - 1
      BY <2>2, <2>5 DEF BlocksSized
    <2> QED
      BY <2>1, <2>4, <2>6, <2>7 DEF BlocksSized
  <1>5. ASSUME handle' = handle, slab' = slab, DOMAIN mem' = DOMAIN mem,
               \A b \in DOMAIN mem : DOMAIN mem'[b] = DOMAIN mem[b]
        PROVE  BlocksSized'
    <2>1. /\ SetupBlocks(Plan)' = SetupBlocks(Plan) /\ SlabSize(Plan)' = SlabSize(Plan)
          /\ \A k : SizeOf(Plan, k)' = SizeOf(Plan, k)
      BY <1>5 DEF SetupBlocks, SizeOf, SlabSize, GetPaddedSize, Plan
    <2> QED
      BY <1>5, <2>1 DEF BlocksSized
  <1>6. ASSUME NEW t \in Threads, SolverPass(t)
        PROVE  BlocksSized'
    <2> DEFINE to == RouteOf(t)[step[t] + 1]
               v == Produced(t, step[t] + 1)
    <2>1. step[t] + 1 \in Nat
      OBVIOUS
    <2>2. handle' = handle /\ slab' = slab /\ (mem' = mem \/ mem' = WriteRegion(t, to, v))
      BY <1>6 DEF SolverPass
    <2>3. v \in Values
      BY <2>1, ProducedTyped
    <2> HIDE DEF to, v
    <2>4. DOMAIN mem' = DOMAIN mem /\ \A b \in DOMAIN mem : DOMAIN mem'[b] = DOMAIN mem[b]
      BY <2>2, <2>3, MemWriteTyped
    <2> QED
      BY <1>5, <2>2, <2>4
  <1>7. ASSUME NEW t \in Threads,
               \/ Execute(t) \/ ExecuteIONull(t) \/ (\E in, out \in Bufs : ExecuteIO(t, in, out))
               \/ ClaimSetupBuffers(t) \/ AllocNothing(t) \/ AllocFails(t) \/ CopyBufferRefused(t)
               \/ ReleaseSetupBuffers(t) \/ Return(t)
        PROVE  BlocksSized'
    <2>1. handle' = handle /\ slab' = slab /\ mem' = mem
      BY <1>7 DEF Execute, ExecuteIONull, ExecuteIO, ClaimSetupBuffers, AllocNothing, AllocFails,
           CopyBufferRefused, ReleaseSetupBuffers, Return
    <2> QED
      BY <1>5, <2>1
  <1>8. CASE UNCHANGED vars
    BY <1>5, <1>8 DEF vars
  <1> QED
    BY <1>1, <1>2, <1>3, <1>4, <1>6, <1>7, <1>8 DEF Next, CallStep

LEMMA SumAligned ==
    ASSUME NEW x \in Nat, NEW y \in Nat, x % Align = 0, y % Align = 0
    PROVE  (x + y) % Align = 0
  <1>1. Align \in Nat /\ Align > 0
    BY AlignAssumption
  <1> DEFINE q == x \div Align
             r == y \div Align
  <1>2. q \in Int /\ r \in Int /\ x = Align * q /\ y = Align * r
    BY <1>1
  <1> HIDE DEF q, r
  <1>3. x + y = (q + r) * Align /\ q + r \in Int
    BY <1>1, <1>2
  <1>4. \A n \in Int : (n * Align) % Align = 0
    BY <1>1
  <1> QED
    BY <1>3, <1>4

(* The regions of a slab follow one another, padded to aligned addresses. *)
LEMMA CarvedLayout ==
    ASSUME NEW p \in Plans, NEW j \in Kinds, NEW k \in Kinds
    PROVE  /\ OffsetOf(p, k) \in Nat /\ OffsetOf(p, k) % Align = 0
           /\ OffsetOf(p, k) + SizeOf(p, k) <= SlabSize(p)
           /\ j # k => \/ OffsetOf(p, j) + SizeOf(p, j) <= OffsetOf(p, k)
                       \/ OffsetOf(p, k) + SizeOf(p, k) <= OffsetOf(p, j)
  <1>1. /\ p.ct \in Nat /\ p.bs \in Nat /\ p.srCopy \in Nat
        /\ p.ct % Align = 0 /\ p.bs % Align = 0
    BY PlansTyped DEF WellFormed
  <1>2. GetPaddedSize(p.srCopy) \in Nat /\ p.srCopy <= GetPaddedSize(p.srCopy)
    BY <1>1, PaddedSize
  <1> DEFINE c == p.ct
             b == p.bs
             g == GetPaddedSize(p.srCopy)
             n == p.srCopy
  <1>3. /\ OffsetOf(p, "ct") = 0 /\ OffsetOf(p, "bs_in") = c
        /\ OffsetOf(p, "bs_out") = c + b /\ OffsetOf(p, "sr") = c + b + b
    BY <1>1 DEF OffsetOf
  <1>4. SizeOf(p, "ct") = c /\ SizeOf(p, "bs_in") = b /\ SizeOf(p, "bs_out") = b
        /\ SizeOf(p, "sr") = n
    BY DEF SizeOf
  <1>5. SlabSize(p) = c + b + b + g
    BY <1>1, <1>2 DEF SlabSize
  <1>6. (c + b) % Align = 0 /\ (c + b + b) % Align = 0
    <2>1. (c + b) % Align = 0 /\ c + b \in Nat
      BY <1>1, SumAligned
    <2> QED
      BY <1>1, <2>1, SumAligned
  <1>7. 0 % Align = 0
    BY AlignAssumption
  <1>8. c \in Nat /\ b \in Nat /\ g \in Nat /\ n \in Nat /\ n <= g /\ c % Align = 0
    BY <1>1, <1>2
  <1> HIDE DEF c, b, g, n
  <1>9. OffsetOf(p, k) \in Nat /\ OffsetOf(p, k) % Align = 0
    BY <1>3, <1>6, <1>7, <1>8
  <1>10. OffsetOf(p, k) + SizeOf(p, k) <= SlabSize(p)
    BY <1>3, <1>4, <1>5, <1>8
  <1>11. j # k => \/ OffsetOf(p, j) + SizeOf(p, j) <= OffsetOf(p, k)
                  \/ OffsetOf(p, k) + SizeOf(p, k) <= OffsetOf(p, j)
    BY <1>3, <1>4, <1>8
  <1> QED
    BY <1>9, <1>10, <1>11

LEMMA RegionsLive ==
    ASSUME IInv, BlocksSized
    PROVE  RegionsInLiveBlocks
  <1>1. SUFFICES ASSUME NEW t \in Threads, Running(t)
                 PROVE  LET r == ctx[t].regions
                            p == Plan
                        IN  /\ \A k \in Kinds : SizeOf(p, k) > 0 =>
                                  /\ r[k] # NULL
                                  /\ r[k].blk \in DOMAIN mem
                                  /\ Region(p, r, k) \subseteq DOMAIN mem[r[k].blk]
                                  /\ r[k].off % Align = 0
                            /\ \A j, k \in Kinds :
                                  j # k /\ SizeOf(p, j) > 0 /\ SizeOf(p, k) > 0
                                      /\ r[j].blk = r[k].blk
                                  => Region(p, r, j) \cap Region(p, r, k) = {}
    BY DEF RegionsInLiveBlocks
  <1> DEFINE r == ctx[t].regions
             p == Plan
  <1>2. handle # NULL /\ p \in Plans
    BY <1>1 DEF IInv, HandleHeld, InCall, Running, TypeOK, Plan
  <1>3. \A k \in Kinds : SizeOf(p, k) \in Nat
    BY <1>2, SizesTyped
  <1>4. \A j, k \in Kinds :
           /\ OffsetOf(p, k) \in Nat /\ OffsetOf(p, k) % Align = 0
           /\ OffsetOf(p, k) + SizeOf(p, k) <= SlabSize(p)
           /\ j # k => \/ OffsetOf(p, j) + SizeOf(p, j) <= OffsetOf(p, k)
                       \/ OffsetOf(p, k) + SizeOf(p, k) <= OffsetOf(p, j)
    BY <1>2, CarvedLayout
  <1>5. \A k \in Kinds : SizeOf(p, k) > 0 =>
           k \in DOMAIN mem /\ DOMAIN mem[k] = 0 .. SizeOf(p, k) - 1
    BY <1>2 DEF BlocksSized, SetupBlocks
  <1>6. \A k \in Kinds, o \in Nat : NULL # [blk |-> k, off |-> o]
    BY NamesAssumption
  <1>7. SlabSize(p) \in Nat
    BY <1>2, CtxTyped
  <1> HIDE DEF p
  <1>8. ASSUME r = BaseCtx(p)
        PROVE  /\ \A k \in Kinds : SizeOf(p, k) > 0 =>
                    /\ r[k] # NULL
                    /\ r[k].blk \in DOMAIN mem
                    /\ Region(p, r, k) \subseteq DOMAIN mem[r[k].blk]
                    /\ r[k].off % Align = 0
               /\ \A j, k \in Kinds :
                    j # k /\ SizeOf(p, j) > 0 /\ SizeOf(p, k) > 0 /\ r[j].blk = r[k].blk
                    => Region(p, r, j) \cap Region(p, r, k) = {}
    <2>1. \A k \in Kinds : SizeOf(p, k) > 0 => r[k] = [blk |-> k, off |-> 0]
      BY <1>8 DEF BaseCtx
    <2>2. 0 % Align = 0
      BY AlignAssumption
    <2> HIDE DEF r
    <2>3. \A k \in Kinds : SizeOf(p, k) > 0 =>
             r[k].blk = k /\ r[k].off = 0 /\ Region(p, r, k) = 0 .. SizeOf(p, k) - 1
      BY <1>3, <2>1 DEF Region
    <2> QED
      BY <1>5, <1>6, <2>1, <2>2, <2>3
  <1>9. ASSUME slab[t] # NULL, r = CarvedCtx(p, slab[t])
        PROVE  /\ \A k \in Kinds : SizeOf(p, k) > 0 =>
                    /\ r[k] # NULL
                    /\ r[k].blk \in DOMAIN mem
                    /\ Region(p, r, k) \subseteq DOMAIN mem[r[k].blk]
                    /\ r[k].off % Align = 0
               /\ \A j, k \in Kinds :
                    j # k /\ SizeOf(p, j) > 0 /\ SizeOf(p, k) > 0 /\ r[j].blk = r[k].blk
                    => Region(p, r, j) \cap Region(p, r, k) = {}
    <2>1. \A k \in Kinds : SizeOf(p, k) > 0 =>
             r[k] = [blk |-> slab[t], off |-> OffsetOf(p, k)]
      BY <1>9 DEF CarvedCtx
    <2>2. slab[t] \in DOMAIN mem /\ DOMAIN mem[slab[t]] = 0 .. SlabSize(p) - 1
      BY <1>9 DEF BlocksSized, p
    <2>3. slab[t] \in Slabs
      BY <1>9 DEF IInv, TypeOK
    <2> HIDE DEF r
    <2>4. \A k \in Kinds : SizeOf(p, k) > 0 =>
             /\ r[k].blk = slab[t] /\ r[k].off = OffsetOf(p, k)
             /\ Region(p, r, k) = OffsetOf(p, k) .. OffsetOf(p, k) + SizeOf(p, k) - 1
      BY <2>1 DEF Region
    <2>5. \A k \in Kinds : SizeOf(p, k) > 0 => r[k] # NULL
      BY <1>4, <2>1, <2>3, NamesAssumption
    <2>6. \A k \in Kinds : SizeOf(p, k) > 0 =>
             /\ r[k].blk \in DOMAIN mem
             /\ Region(p, r, k) \subseteq DOMAIN mem[r[k].blk]
             /\ r[k].off % Align = 0
      <3>1. \A o, z, n \in Nat : o + z <= n => o .. o + z - 1 \subseteq 0 .. n - 1
        OBVIOUS
      <3>2. \A k \in Kinds :
               OffsetOf(p, k) .. OffsetOf(p, k) + SizeOf(p, k) - 1 \subseteq 0 .. SlabSize(p) - 1
        BY <1>3, <1>4, <1>7, <3>1
      <3> QED
        BY <1>4, <2>2, <2>4, <3>2
    <2>7. \A j, k \in Kinds :
             j # k /\ SizeOf(p, j) > 0 /\ SizeOf(p, k) > 0 /\ r[j].blk = r[k].blk
             => Region(p, r, j) \cap Region(p, r, k) = {}
      <3>1. \A a, b, x, y \in Nat :
               a + x <= b \/ b + y <= a => (a .. a + x - 1) \cap (b .. b + y - 1) = {}
        OBVIOUS
      <3>2. \A j, k \in Kinds : j # k =>
               (OffsetOf(p, j) .. OffsetOf(p, j) + SizeOf(p, j) - 1)
                  \cap (OffsetOf(p, k) .. OffsetOf(p, k) + SizeOf(p, k) - 1) = {}
        <4>1. ASSUME NEW j \in Kinds, NEW k \in Kinds, j # k
              PROVE  (OffsetOf(p, j) .. OffsetOf(p, j) + SizeOf(p, j) - 1)
                        \cap (OffsetOf(p, k) .. OffsetOf(p, k) + SizeOf(p, k) - 1) = {}
          <5>1. /\ OffsetOf(p, j) \in Nat /\ OffsetOf(p, k) \in Nat
                /\ SizeOf(p, j) \in Nat /\ SizeOf(p, k) \in Nat
                /\ \/ OffsetOf(p, j) + SizeOf(p, j) <= OffsetOf(p, k)
                   \/ OffsetOf(p, k) + SizeOf(p, k) <= OffsetOf(p, j)
            BY <1>3, <1>4, <4>1
          <5> QED
            BY <3>1, <5>1
        <4> QED
          BY <4>1
      <3> QED
        BY <2>4, <3>2
    <2> QED
      BY <2>5, <2>6, <2>7
  <1>10. r = BaseCtx(p) \/ (slab[t] # NULL /\ r = CarvedCtx(p, slab[t]))
    BY <1>1 DEF IInv, RegionsKnown, Running, p
  <1> QED
    BY <1>8, <1>9, <1>10 DEF p

LEMMA SpecBlocksSized == Spec => []BlocksSized
  <1>1. Init => BlocksSized
    BY DEF Init, BlocksSized
  <1>2. IInv /\ BlocksSized /\ [Next]_vars => BlocksSized'
    BY NextBlocksSized
  <1> QED
    BY <1>1, <1>2, SpecIInv, PTL DEF Spec

(* While a solver runs, every region its plan needs lies in a live block, at
   an aligned address, apart from its other regions: for any plan, whether
   the call claimed the regions of the plan or carved a slab. *)
THEOREM LiveRegions == Spec => []RegionsInLiveBlocks
  BY RegionsLive, SpecIInv, SpecBlocksSized, PTL

-----------------------------------------------------------------------------
(* What a call leaves in its output: the invariant follows the data of     *)
(* every call from its input through the scratch regions to its output,    *)
(* against the steps of all the other calls.                               *)

(* A call the handle serves; the others were refused for a null argument. *)
InFlight(t) == pc[t] # "idle" /\ call[t].api # "null"

(* An in-place call on a split-radix plan made for distinct buffers. *)
Mismatched(t) ==
    Plan.sr /\ Plan.placement = "out" /\ call[t].in = call[t].out

(* The calls whose data can be followed.  aoclfftz_execute on a real plan
   may run on buffers of an earlier call, and a mismatched call whose
   split-radix node lies below an N-dimensional one goes on after the
   refusal. *)
Tracked(t) ==
    /\ InFlight(t)
    /\ Plan.real => call[t].api = "io"
    /\ ~(Mismatched(t) /\ Plan.ndim)

(* PlacementServed, of a plan that may be the one of another state. *)
Placed(p, in, out) == ((in = out) <=> (p.placement = "in")) \/ (p.sr /\ in = out)

(* What a call in flight carries is what its caller asked for. *)
CallsKnown ==
    /\ handle # NULL => ((handle.in = handle.out) <=> Plan.placement = "in")
    /\ \A t \in Threads :
        /\ pc[t] = "idle" => call[t] = NoCall
        /\ pc[t] # "idle" => call[t].api \in {"null", "setup", "io"}
        /\ InCall(t) => InFlight(t)
        /\ InFlight(t) =>
             /\ handle # NULL
             /\ call[t].in \in Bufs /\ call[t].out \in Bufs
             /\ Placed(Plan, call[t].in, call[t].out)
        /\ InCall(t) /\ (Plan.real => call[t].api = "io") =>
             InOf(t) = call[t].in /\ OutOf(t) = call[t].out

(* Calls in flight together are execute_io calls on a complex plan, and none
   writes a buffer of another. *)
CallsApart ==
    \A t, u \in Threads : t # u /\ InFlight(t) /\ InFlight(u) =>
        /\ ~Plan.real
        /\ call[t].api = "io"
        /\ call[t].out \notin {call[u].in, call[u].out}

(* A solver that runs has passes left; one that waits has made none. *)
StepsLeft ==
    \A t \in Threads :
        /\ pc[t] \in {"claim", "alloc"} => step[t] = 0
        /\ Running(t) => step[t] < Len(RouteOf(t))

(* The place loc of the route of t is filled with v. *)
Holds(t, loc, v) ==
    IF loc = "out" THEN buf[call[t].out] = v
    ELSE \A i \in Region(Plan, ctx[t].regions, loc) : mem[ctx[t].regions[loc].blk][i] = v

Unstarted(t) == pc[t] \in {"claim", "alloc"} \/ (Running(t) /\ step[t] = 0)
Finished(t) == pc[t] \in {"release", "free", "done"}

(* The data of a call: in its buffers before the first pass, then in the
   place its last pass filled, then in its output. *)
DataOk(t) ==
    Tracked(t) =>
        /\ Unstarted(t) => buf[call[t].in] = Raw(call[t].in)
                           /\ buf[call[t].out] = Raw(call[t].out)
        /\ Running(t) /\ step[t] # 0 =>
             /\ ~Mismatched(t)
             /\ Holds(t, RouteOf(t)[step[t]], Mid(call[t].in, step[t]))
        /\ Finished(t) => buf[call[t].out] = IF status[t] = "SUCCESS" THEN Fft(call[t].in)
                                              ELSE Raw(call[t].out)

DataKnown == \A t \in Threads : DataOk(t)

DataInv == CallsKnown /\ CallsApart /\ StepsLeft /\ DataKnown
-----------------------------------------------------------------------------
(* The route of a call. *)

(* Where a pass may leave its data: the output, or a region the plan has. *)
Places(p) == {"out"} \cup {k \in Kinds : SizeOf(p, k) > 0}

LEMMA SeqOver ==
    ASSUME NEW S, NEW T, NEW s \in Seq(S), \A i \in 1 .. Len(s) : s[i] \in T
    PROVE  s \in Seq(T)
  OBVIOUS

LEMMA RouteShape ==
    ASSUME NEW p \in Plans, NEW r, NEW in, NEW out, r["sr"] # NULL => p.srCopy > 0
    PROVE  /\ Route(p, r, in, out) \in Seq(Places(p))
           /\ Len(Route(p, r, in, out)) \in Nat \ {0}
           /\ Route(p, r, in, out)[Len(Route(p, r, in, out))] = "out"
           /\ p.ndim => Len(InnerRoute(p, r, in, out)) + 1 < Len(Route(p, r, in, out))
  <1> DEFINE copy == IF p.sr /\ in = out /\ r["sr"] # NULL THEN <<"sr">> ELSE <<>>
             outer == IF p.ndim THEN <<"out">> \o p.outer ELSE <<>>
             P == Places(p)
  <1>1. /\ p \in PlanType /\ WellFormed(p)
        /\ p.inner \in Seq({"ct", "bs_in", "bs_out"})
        /\ p.outer \in Seq({"ct", "bs_in", "bs_out"})
    BY PlansTyped DEF PlanType
  <1>2. "out" \in P /\ (p.srCopy > 0 => "sr" \in P)
    BY DEF Places, SizeOf
  <1>3. \A k \in {"ct", "bs_in", "bs_out"} : k \in RangeOf(p.inner) \cup RangeOf(p.outer) => k \in P
    <2>1. /\ "ct" \in RangeOf(p.inner) \cup RangeOf(p.outer) => p.ct > 0
          /\ {"bs_in", "bs_out"} \cap (RangeOf(p.inner) \cup RangeOf(p.outer)) # {} => p.bs > 0
      BY <1>1 DEF WellFormed
    <2> QED
      BY <2>1 DEF Places, SizeOf
  <1> HIDE DEF P
  <1>4. p.inner \in Seq(P) /\ p.outer \in Seq(P)
    <2>1. \A i \in 1 .. Len(p.inner) : p.inner[i] \in P
      BY <1>1, <1>3 DEF RangeOf
    <2>2. \A i \in 1 .. Len(p.outer) : p.outer[i] \in P
      BY <1>1, <1>3 DEF RangeOf
    <2> QED
      BY <1>1, <2>1, <2>2, SeqOver
  <1>5. copy \in Seq(P)
    BY <1>2
  <1>6. outer \in Seq(P)
    BY <1>2, <1>4
  <1>7. InnerRoute(p, r, in, out) = copy \o p.inner
    BY DEF InnerRoute
  <1>8. Route(p, r, in, out) = ((copy \o p.inner) \o outer) \o <<"out">>
    BY <1>7 DEF Route
  <1>9. p.ndim => Len(outer) > 0
    BY <1>4
  <1> HIDE DEF copy, outer
  <1> DEFINE x == copy \o p.inner
             y == x \o outer
  <1>10. x \in Seq(P) /\ Len(x) \in Nat
    BY <1>4, <1>5
  <1> HIDE DEF x
  <1>11. y \in Seq(P) /\ Len(y) = Len(x) + Len(outer) /\ Len(outer) \in Nat
    BY <1>6, <1>10
  <1> HIDE DEF y
  <1>12. /\ y \o <<"out">> \in Seq(P) /\ Len(y \o <<"out">>) = Len(y) + 1 /\ Len(y) \in Nat
         /\ (y \o <<"out">>)[Len(y) + 1] = "out"
    BY <1>2, <1>11
  <1>13. Route(p, r, in, out) = y \o <<"out">> /\ InnerRoute(p, r, in, out) = x
    BY <1>7, <1>8 DEF x, y
  <1> QED
    BY <1>9, <1>10, <1>11, <1>12, <1>13 DEF P

(* The route of a call of the handle. *)
LEMMA RouteOfShape ==
    ASSUME IInv, NEW t \in Threads, Running(t)
    PROVE  /\ Plan \in Plans
           /\ RouteOf(t) \in Seq(Places(Plan))
           /\ Len(RouteOf(t)) \in Nat \ {0}
           /\ RouteOf(t)[Len(RouteOf(t))] = "out"
           /\ ctx[t].regions["sr"] # NULL <=> Plan.srCopy > 0
           /\ Plan.ndim => Len(InnerRoute(Plan, ctx[t].regions, InOf(t), OutOf(t))) + 1
                             < Len(RouteOf(t))
  <1>1. handle \in [plan : Plans, in : Bufs, out : Bufs]
    BY DEF IInv, HandleHeld, InCall, Running, TypeOK
  <1>2. Plan \in Plans
    BY <1>1 DEF Plan
  <1>3. SizeOf(Plan, "sr") = Plan.srCopy
    BY DEF SizeOf
  <1>4. \/ ctx[t].regions = BaseCtx(Plan)
        \/ slab[t] \in Slabs /\ ctx[t].regions = CarvedCtx(Plan, slab[t])
    BY DEF IInv, RegionsKnown, Running, TypeOK
  <1>5. OffsetOf(Plan, "sr") \in Nat
    BY <1>2, CarvedLayout
  <1>6. \A b \in Blocks, n \in Nat : [blk |-> b, off |-> n] # NULL
    BY NamesAssumption
  <1>7. ctx[t].regions["sr"] # NULL <=> Plan.srCopy > 0
    <2>1. BaseCtx(Plan)["sr"] # NULL <=> Plan.srCopy > 0
      BY <1>3, <1>6 DEF BaseCtx
    <2>2. \A s \in Slabs : CarvedCtx(Plan, s)["sr"] # NULL <=> Plan.srCopy > 0
      BY <1>3, <1>5, <1>6, <2>1 DEF CarvedCtx
    <2> QED
      BY <1>4, <2>1, <2>2
  <1> QED
    BY <1>2, <1>7, RouteShape DEF RouteOf

(* What a filled place reads as. *)
LEMMA HoldsContent ==
    ASSUME IInv, NEW t \in Threads, Running(t), OutOf(t) = call[t].out,
           NEW loc \in Places(Plan), NEW v, Holds(t, loc, v)
    PROVE  ContentOf(t, loc) = v
  <1>1. CASE loc = "out"
    BY <1>1 DEF ContentOf, Holds
  <1>2. CASE loc # "out"
    <2> DEFINE r == ctx[t].regions
    <2>1. loc \in Kinds /\ SizeOf(Plan, loc) > 0 /\ Plan \in Plans
      BY <1>2, RouteOfShape DEF Places
    <2>2. SizeOf(Plan, loc) \in Nat
      BY <2>1, SizesTyped
    <2>3. r[loc] # NULL /\ r[loc].off \in Nat
      <3>2. r = BaseCtx(Plan) \/ (slab[t] \in Slabs /\ r = CarvedCtx(Plan, slab[t]))
        BY DEF IInv, RegionsKnown, Running, TypeOK
      <3>3. OffsetOf(Plan, loc) \in Nat
        BY <2>1, CarvedLayout
      <3>4. \A b \in Blocks, n \in Nat : [blk |-> b, off |-> n] # NULL
        BY NamesAssumption
      <3>5. BaseCtx(Plan)[loc] = [blk |-> loc, off |-> 0]
        BY <2>1 DEF BaseCtx
      <3>6. \A s \in Slabs : CarvedCtx(Plan, s)[loc] = [blk |-> s, off |-> OffsetOf(Plan, loc)]
        BY <2>1 DEF CarvedCtx
      <3>7. \E b \in Blocks, n \in Nat : r[loc] = [blk |-> b, off |-> n]
        <4> HIDE DEF r
        <4>1. CASE r = BaseCtx(Plan)
          BY <2>1, <3>5, <4>1
        <4>2. CASE slab[t] \in Slabs /\ r = CarvedCtx(Plan, slab[t])
          BY <3>3, <3>6, <4>2
        <4> QED
          BY <3>2, <4>1, <4>2
      <3> HIDE DEF r
      <3> QED
        BY <3>4, <3>7
    <2>4. r[loc].off \in Region(Plan, r, loc)
      BY <2>1, <2>2, <2>3 DEF Region
    <2>5. \A i \in Region(Plan, r, loc) : mem[r[loc].blk][i] = v
      BY <1>2 DEF Holds
    <2> DEFINE first == mem[r[loc].blk][r[loc].off]
    <2>6. first = v
      BY <2>4, <2>5
    <2>7. ContentOf(t, loc) = IF \A i \in Region(Plan, r, loc) : mem[r[loc].blk][i] = first
                              THEN first ELSE Junk
      BY <1>2, Zenon DEF ContentOf
    <2> HIDE DEF first
    <2> QED
      BY <2>5, <2>6, <2>7, Zenon
  <1> QED
    BY <1>1, <1>2

-----------------------------------------------------------------------------
(* Every step preserves CallsKnown and CallsApart. *)

LEMMA NextCalls ==
    ASSUME IInv, CallsKnown, CallsApart, [Next]_vars
    PROVE  CallsKnown' /\ CallsApart'
  <1> USE DEF TypeOK
  <1>0. TypeOK
    BY DEF IInv
  <1>1. ASSUME NEW p \in Plans, NEW in \in Bufs, NEW out \in Bufs, Setup(p, in, out)
        PROVE  CallsKnown' /\ CallsApart'
    <2>1. \A t \in Threads : ~InFlight(t) /\ ~InCall(t)
      BY <1>1 DEF Setup, CallsKnown
    <2>2. \A t \in Threads : ~InFlight(t)' /\ ~InCall(t)'
      BY <1>1, <2>1 DEF Setup, InFlight, InCall
    <2>3. CallsKnown'
      BY <1>1, <2>2 DEF Setup, CallsKnown, Plan
    <2>4. CallsApart'
      BY <2>2 DEF CallsApart
    <2> QED
      BY <2>3, <2>4
  <1>2. CASE Destroy
    <2>1. \A t \in Threads : ~InFlight(t)' /\ ~InCall(t)' /\ pc'[t] = "idle"
      BY <1>2 DEF Destroy, Active, InFlight, InCall
    <2>2. CallsKnown'
      BY <1>2, <2>1 DEF Destroy, CallsKnown
    <2> QED
      BY <2>1, <2>2 DEF CallsApart
  <1>3. ASSUME NEW t \in Threads, Execute(t)
        PROVE  CallsKnown' /\ CallsApart'
    <2>1. handle \in [plan : Plans, in : Bufs, out : Bufs] /\ handle' = handle /\ ds' = ds
      BY <1>0, <1>3 DEF Execute
    <2>2. \A u \in Threads \ {t} : pc'[u] = "idle" /\ call'[u] = NoCall /\ ~InFlight(u)' /\ ~InCall(u)'
      BY <1>0, <1>3 DEF Execute, Active, CallsKnown, InFlight, InCall
    <2>3. /\ pc'[t] = "run_base" /\ ctx'[t].in = handle.in /\ ctx'[t].out = handle.out
          /\ call'[t] = [api |-> "setup", in |-> handle.in, out |-> handle.out]
      BY <1>0, <1>3 DEF Execute
    <2>4. ~Plan.real => InOf(t)' = handle.in /\ OutOf(t)' = handle.out
      BY <2>1, <2>3 DEF InOf, OutOf, Plan
    <2>5. Placed(Plan, handle.in, handle.out)
      BY <1>3 DEF CallsKnown, Placed, Execute
    <2>6. Plan' = Plan
      BY <2>1 DEF Plan
    <2>7. CallsKnown'
      <3>1. handle' # NULL /\ ((handle'.in = handle'.out) <=> Plan'.placement = "in")
        BY <1>3, <2>1, <2>6 DEF CallsKnown, Execute
      <3>2. InFlight(t)'
        BY <2>3 DEF InFlight
      <3>3. Placed(Plan', call'[t].in, call'[t].out)
        BY <2>3, <2>5, <2>6
      <3> QED
        BY <2>1, <2>2, <2>3, <2>4, <2>6, <3>1, <3>2, <3>3 DEF CallsKnown
    <2>8. CallsApart'
      BY <2>2 DEF CallsApart
    <2> QED
      BY <2>7, <2>8
  <1>4. ASSUME NEW t \in Threads, ExecuteIONull(t)
        PROVE  CallsKnown' /\ CallsApart'
    <2>1. /\ handle' = handle /\ ds' = ds /\ ctx' = ctx
          /\ pc'[t] = "done" /\ call'[t].api = "null"
          /\ \A u \in Threads \ {t} : pc'[u] = pc[u] /\ call'[u] = call[u]
      BY <1>0, <1>4 DEF ExecuteIONull
    <2>2. ~InFlight(t)' /\ ~InCall(t)'
      BY <2>1 DEF InFlight, InCall
    <2>3. \A u \in Threads \ {t} : /\ InFlight(u)' = InFlight(u) /\ InCall(u)' = InCall(u)
                                   /\ InOf(u)' = InOf(u) /\ OutOf(u)' = OutOf(u)
      BY <2>1 DEF InFlight, InCall, InOf, OutOf, Plan
    <2>4. Plan' = Plan
      BY <2>1 DEF Plan
    <2>5. CallsKnown'
      BY <2>1, <2>2, <2>3, <2>4 DEF CallsKnown
    <2>6. CallsApart'
      BY <2>1, <2>2, <2>3, <2>4 DEF CallsApart
    <2> QED
      BY <2>5, <2>6
  <1>5. ASSUME NEW t \in Threads, NEW in \in Bufs, NEW out \in Bufs, ExecuteIO(t, in, out)
        PROVE  CallsKnown' /\ CallsApart'
    <2>1. /\ handle' = handle /\ Plan' = Plan /\ (~Plan.real => ds' = ds)
          /\ handle # NULL
      BY <1>5 DEF ExecuteIO, Plan
    <2>2. \A u \in Threads \ {t} : /\ pc'[u] = pc[u] /\ call'[u] = call[u] /\ ctx'[u] = ctx[u]
                                   /\ InFlight(u)' = InFlight(u) /\ InCall(u)' = InCall(u)
      BY <1>0, <1>5 DEF ExecuteIO, InFlight, InCall
    <2>3. /\ pc'[t] # "idle" /\ call'[t] = [api |-> "io", in |-> in, out |-> out]
          /\ ctx'[t].in = in /\ ctx'[t].out = out
          /\ Plan.real => ds' = [in |-> in, out |-> out]
      BY <1>0, <1>5 DEF ExecuteIO
    <2>4. InFlight(t)' /\ InOf(t)' = in /\ OutOf(t)' = out
      BY <2>1, <2>3 DEF InFlight, InOf, OutOf
    <2>5. \A u \in Threads \ {t} : InFlight(u) =>
             /\ call[u].api = "io" /\ ~Plan.real
             /\ out \notin {call[u].in, call[u].out} /\ in # call[u].out
      BY <1>5 DEF ExecuteIO, MayOverlap, BuffersFree, Active, InFlight, CallsKnown
    <2>6. \A u \in Threads \ {t} : InCall(u) =>
             /\ ~Plan.real /\ InOf(u)' = InOf(u) /\ OutOf(u)' = OutOf(u)
      <3>1. \A u \in Threads \ {t} : InCall(u) => ~Plan.real
        BY <2>5 DEF CallsKnown
      <3> QED
        BY <2>1, <2>2, <3>1 DEF InOf, OutOf
    <2>7. Placed(Plan, in, out)
      BY <1>5 DEF ExecuteIO, PlacementServed, Placed
    <2>8. CallsKnown'
      <3>1. handle' # NULL => ((handle'.in = handle'.out) <=> Plan'.placement = "in")
        BY <2>1 DEF CallsKnown
      <3>2. ASSUME NEW u \in Threads \ {t}
            PROVE  /\ pc'[u] = "idle" => call'[u] = NoCall
                   /\ pc'[u] # "idle" => call'[u].api \in {"null", "setup", "io"}
                   /\ InCall(u)' => InFlight(u)'
                   /\ InFlight(u)' =>
                        /\ handle' # NULL
                        /\ call'[u].in \in Bufs /\ call'[u].out \in Bufs
                        /\ Placed(Plan', call'[u].in, call'[u].out)
                   /\ InCall(u)' /\ (Plan'.real => call'[u].api = "io") =>
                        InOf(u)' = call'[u].in /\ OutOf(u)' = call'[u].out
        BY <2>1, <2>2, <2>6, <3>2 DEF CallsKnown
      <3>3. /\ pc'[t] # "idle" /\ call'[t].api = "io" /\ InFlight(t)'
            /\ handle' # NULL /\ call'[t].in = in /\ call'[t].out = out
            /\ Placed(Plan', call'[t].in, call'[t].out)
            /\ InOf(t)' = call'[t].in /\ OutOf(t)' = call'[t].out
        BY <1>5, <2>1, <2>3, <2>4, <2>7 DEF ExecuteIO
      <3> QED
        BY <3>1, <3>2, <3>3 DEF CallsKnown
    <2>9. CallsApart'
      <3>1. ASSUME NEW u \in Threads, NEW w \in Threads, u # w, InFlight(u)', InFlight(w)'
            PROVE  ~Plan'.real /\ call'[u].api = "io" /\ call'[u].out \notin {call'[w].in, call'[w].out}
        <4>1. CASE u # t /\ w # t
          BY <2>1, <2>2, <3>1, <4>1 DEF CallsApart
        <4>2. CASE u = t
          BY <2>1, <2>2, <2>3, <2>5, <3>1, <4>2
        <4>3. CASE w = t
          BY <2>1, <2>2, <2>3, <2>5, <3>1, <4>3
        <4> QED
          BY <4>1, <4>2, <4>3
      <3> QED
        BY <3>1 DEF CallsApart
    <2> QED
      BY <2>8, <2>9
  <1>6. ASSUME handle' = handle, ds' = ds, call' = call,
               \A u \in Threads : /\ ctx'[u].in = ctx[u].in /\ ctx'[u].out = ctx[u].out
                                  /\ pc'[u] = "idle" <=> pc[u] = "idle"
                                  /\ InCall(u)' => InCall(u)
        PROVE  CallsKnown' /\ CallsApart'
    <2>1. /\ Plan' = Plan
          /\ \A u \in Threads : /\ InFlight(u)' = InFlight(u)
                                /\ InOf(u)' = InOf(u) /\ OutOf(u)' = OutOf(u)
      BY <1>6 DEF Plan, InFlight, InOf, OutOf
    <2>2. CallsKnown'
      BY <1>6, <2>1 DEF CallsKnown
    <2>3. CallsApart'
      BY <1>6, <2>1 DEF CallsApart
    <2> QED
      BY <2>2, <2>3
  <1>7. ASSUME NEW t \in Threads, CallStep(t)
        PROVE  CallsKnown' /\ CallsApart'
    <2>1. handle' = handle /\ ds' = ds /\ call' = call
      BY <1>7 DEF CallStep, ClaimSetupBuffers, AllocNothing, AllocPerCallScratch, AllocFails,
           SolverPass, CopyBufferRefused, ReleaseSetupBuffers, FreeScratchSlab
    <2>2. \A u \in Threads : ctx'[u].in = ctx[u].in /\ ctx'[u].out = ctx[u].out
      <3>1. \/ ctx' = ctx
            \/ \E s \in Slabs : ctx' = [ctx EXCEPT ![t] = [in |-> ctx[t].in, out |-> ctx[t].out,
                                          regions |-> CarvedCtx(Plan, s)]]
        BY <1>7 DEF CallStep, ClaimSetupBuffers, AllocNothing, AllocPerCallScratch, AllocFails,
           SolverPass, CopyBufferRefused, ReleaseSetupBuffers, FreeScratchSlab
      <3>2. ASSUME NEW s \in Slabs,
                   ctx' = [ctx EXCEPT ![t] = [in |-> ctx[t].in, out |-> ctx[t].out,
                                              regions |-> CarvedCtx(Plan, s)]]
            PROVE  \A u \in Threads : ctx'[u].in = ctx[u].in /\ ctx'[u].out = ctx[u].out
        <4> DEFINE c == CarvedCtx(Plan, s)
        <4> HIDE DEF c
        <4>1. ctx' = [ctx EXCEPT ![t] = [in |-> ctx[t].in, out |-> ctx[t].out, regions |-> c]]
          BY <3>2 DEF c
        <4> QED
          BY <1>0, <4>1
      <3> QED
        BY <3>1, <3>2
    <2>3. InCall(t) /\ \E x \in {"alloc", "run_owner", "run_slab", "release", "free", "done"} :
             pc' = [pc EXCEPT ![t] = x] \/ pc' = pc
      BY <1>7 DEF CallStep, ClaimSetupBuffers, AllocNothing, AllocPerCallScratch, AllocFails,
           SolverPass, CopyBufferRefused, ReleaseSetupBuffers, FreeScratchSlab, InCall,
           Running, AfterExecute
    <2>4. \A u \in Threads : (pc'[u] = "idle" <=> pc[u] = "idle") /\ (InCall(u)' => InCall(u))
      BY <1>0, <2>3 DEF InCall
    <2> QED
      BY <1>6, <2>1, <2>2, <2>4
  <1>8. ASSUME NEW t \in Threads, Return(t)
        PROVE  CallsKnown' /\ CallsApart'
    <2>1. /\ handle' = handle /\ ds' = ds /\ Plan' = Plan
          /\ pc'[t] = "idle" /\ call'[t] = NoCall
          /\ \A u \in Threads \ {t} : pc'[u] = pc[u] /\ call'[u] = call[u] /\ ctx'[u] = ctx[u]
      BY <1>0, <1>8 DEF Return, Plan
    <2>2. ~InFlight(t)' /\ ~InCall(t)'
      BY <2>1 DEF InFlight, InCall
    <2>3. \A u \in Threads \ {t} : /\ InFlight(u)' = InFlight(u) /\ InCall(u)' = InCall(u)
                                   /\ InOf(u)' = InOf(u) /\ OutOf(u)' = OutOf(u)
      BY <2>1 DEF InFlight, InCall, InOf, OutOf
    <2>4. CallsKnown'
      BY <2>1, <2>2, <2>3 DEF CallsKnown
    <2>5. CallsApart'
      BY <2>1, <2>2, <2>3 DEF CallsApart
    <2> QED
      BY <2>4, <2>5
  <1>9. CASE UNCHANGED vars
    BY <1>6, <1>9 DEF vars, InCall
  <1> QED
    BY <1>1, <1>2, <1>3, <1>4, <1>5, <1>7, <1>8, <1>9 DEF Next

-----------------------------------------------------------------------------
(* Every step preserves StepsLeft. *)

RoutesKnown ==
    \A t \in Threads : Running(t) =>
        /\ Plan \in Plans
        /\ RouteOf(t) \in Seq(Places(Plan))
        /\ Len(RouteOf(t)) \in Nat \ {0}
        /\ RouteOf(t)[Len(RouteOf(t))] = "out"

LEMMA IInvRoutes == IInv => RoutesKnown
  BY RouteOfShape DEF RoutesKnown

LEMMA NextSteps ==
    ASSUME IInv, CallsKnown, StepsLeft, [Next]_vars
    PROVE  StepsLeft'
  <1> USE DEF TypeOK
  <1>0. TypeOK /\ RoutesKnown'
    <2>1. IInv'
      BY NextIInv
    <2> QED
      BY <2>1, IInvRoutes, PTL DEF IInv
  (* A call that starts its solver has its whole route ahead. *)
  <1>1. ASSUME NEW t \in Threads, step'[t] = 0
        PROVE  /\ pc'[t] \in {"claim", "alloc"} => step'[t] = 0
               /\ Running(t)' => step'[t] < Len(RouteOf(t)')
    <2>1. Running(t)' => Len(RouteOf(t)') \in Nat \ {0}
      BY <1>0 DEF RoutesKnown
    <2> QED
      BY <1>1, <2>1
  (* A call that did not move has what it had. *)
  <1>2. ASSUME NEW u \in Threads, handle' = handle, pc'[u] = pc[u], ctx'[u] = ctx[u],
               step'[u] = step[u], Running(u) /\ Plan.real => ds' = ds
        PROVE  /\ pc'[u] \in {"claim", "alloc"} => step'[u] = 0
               /\ Running(u)' => step'[u] < Len(RouteOf(u)')
    <2>1. Running(u)' = Running(u)
      BY <1>2 DEF Running
    <2>2. Running(u) => RouteOf(u)' = RouteOf(u)
      BY <1>2 DEF RouteOf, InOf, OutOf, Plan
    <2> QED
      BY <1>2, <2>1, <2>2 DEF StepsLeft
  <1>3. ASSUME NEW p \in Plans, NEW in \in Bufs, NEW out \in Bufs, Setup(p, in, out)
        PROVE  StepsLeft'
    <2>1. \A t \in Threads : ~InCall(t)
      BY <1>3 DEF Setup, IInv, HandleHeld
    <2>2. \A t \in Threads : ~Running(t)' /\ pc'[t] \notin {"claim", "alloc"}
      BY <1>3, <2>1 DEF Setup, Running, InCall
    <2> QED
      BY <2>2 DEF StepsLeft
  <1>4. CASE Destroy
    <2>1. \A t \in Threads : ~Running(t)' /\ pc'[t] \notin {"claim", "alloc"}
      BY <1>4 DEF Destroy, Running, Active
    <2> QED
      BY <2>1 DEF StepsLeft
  <1>5. ASSUME NEW t \in Threads, Execute(t)
        PROVE  StepsLeft'
    <2>1. step'[t] = 0
      BY <1>0, <1>5 DEF Execute
    <2>2. \A u \in Threads \ {t} : ~Running(u)' /\ pc'[u] \notin {"claim", "alloc"}
      BY <1>0, <1>5 DEF Execute, Running, Active
    <2> QED
      BY <1>1, <2>1, <2>2 DEF StepsLeft
  <1>6. ASSUME NEW t \in Threads, ExecuteIONull(t)
        PROVE  StepsLeft'
    <2>1. ~Running(t)' /\ pc'[t] \notin {"claim", "alloc"}
      BY <1>0, <1>6 DEF ExecuteIONull, Running
    <2>2. /\ handle' = handle /\ ds' = ds /\ step' = step /\ ctx' = ctx
          /\ \A u \in Threads \ {t} : pc'[u] = pc[u]
      BY <1>0, <1>6 DEF ExecuteIONull
    <2> QED
      BY <1>2, <2>1, <2>2 DEF StepsLeft
  <1>7. ASSUME NEW t \in Threads, NEW in \in Bufs, NEW out \in Bufs, ExecuteIO(t, in, out)
        PROVE  StepsLeft'
    <2>1. step'[t] = 0 /\ handle' = handle
      BY <1>0, <1>7 DEF ExecuteIO
    <2>2. \A u \in Threads \ {t} : /\ pc'[u] = pc[u] /\ ctx'[u] = ctx[u] /\ step'[u] = step[u]
                                   /\ Running(u) /\ Plan.real => ds' = ds
      BY <1>0, <1>7 DEF ExecuteIO, MayOverlap, Active, Running
    <2> QED
      BY <1>1, <1>2, <2>1, <2>2 DEF StepsLeft
  <1>8. ASSUME NEW t \in Threads,
               ClaimSetupBuffers(t) \/ AllocNothing(t) \/ \E s \in Slabs : AllocPerCallScratch(t, s)
        PROVE  StepsLeft'
    <2>1. /\ handle' = handle /\ ds' = ds /\ step' = step /\ step[t] = 0
          /\ \A u \in Threads \ {t} : pc'[u] = pc[u] /\ ctx'[u] = ctx[u]
      BY <1>0, <1>8 DEF ClaimSetupBuffers, AllocNothing, AllocPerCallScratch, StepsLeft
    <2> QED
      BY <1>1, <1>2, <2>1 DEF StepsLeft
  <1>9. ASSUME NEW t \in Threads,
               \/ AllocFails(t) \/ ReleaseSetupBuffers(t) \/ FreeScratchSlab(t)
               \/ Return(t) \/ (CopyBufferRefused(t) /\ ~Plan.ndim)
        PROVE  StepsLeft'
    <2>1. ~Running(t)' /\ pc'[t] \notin {"claim", "alloc"}
      BY <1>0, <1>9 DEF AllocFails, ReleaseSetupBuffers, FreeScratchSlab, Return,
           CopyBufferRefused, Running, AfterExecute
    <2>2. /\ handle' = handle /\ ds' = ds
          /\ \A u \in Threads \ {t} : pc'[u] = pc[u] /\ ctx'[u] = ctx[u] /\ step'[u] = step[u]
      BY <1>0, <1>9 DEF AllocFails, ReleaseSetupBuffers, FreeScratchSlab, Return, CopyBufferRefused
    <2> QED
      BY <1>2, <2>1, <2>2 DEF StepsLeft
  <1>10. ASSUME NEW t \in Threads, CopyBufferRefused(t), Plan.ndim
         PROVE  StepsLeft'
    <2>1. /\ handle' = handle /\ ds' = ds /\ ctx' = ctx /\ pc' = pc /\ Running(t)
          /\ step'[t] = Len(InnerRoute(Plan, ctx[t].regions, InOf(t), OutOf(t))) + 1
          /\ \A u \in Threads \ {t} : step'[u] = step[u]
      BY <1>0, <1>10 DEF CopyBufferRefused
    <2>2. RouteOf(t)' = RouteOf(t) /\ Running(t)'
      BY <2>1 DEF RouteOf, InOf, OutOf, Plan, Running
    <2>3. step'[t] < Len(RouteOf(t)') /\ pc'[t] \notin {"claim", "alloc"}
      BY <1>10, <2>1, <2>2, RouteOfShape DEF Running
    <2> QED
      BY <1>2, <2>1, <2>3 DEF StepsLeft
  <1>11. ASSUME NEW t \in Threads, SolverPass(t)
         PROVE  StepsLeft'
    <2>1. /\ handle' = handle /\ ds' = ds /\ ctx' = ctx /\ Running(t)
          /\ step'[t] = step[t] + 1
          /\ \A u \in Threads \ {t} : step'[u] = step[u] /\ pc'[u] = pc[u]
      BY <1>0, <1>11 DEF SolverPass
    <2>2. RouteOf(t)' = RouteOf(t) /\ step[t] < Len(RouteOf(t)) /\ Len(RouteOf(t)) \in Nat
          /\ step[t] \in Nat
      BY <1>0, <2>1, RouteOfShape DEF RouteOf, InOf, OutOf, Plan, StepsLeft
    <2>3. CASE step[t] + 1 = Len(RouteOf(t))
      <3>1. pc'[t] = AfterExecute(t)
        BY <1>0, <1>11, <2>3 DEF SolverPass
      <3>2. ~Running(t)' /\ pc'[t] \notin {"claim", "alloc"}
        BY <3>1 DEF AfterExecute, Running
      <3> QED
        BY <1>2, <2>1, <3>2 DEF StepsLeft
    <2>4. CASE step[t] + 1 # Len(RouteOf(t))
      <3>1. pc' = pc
        BY <1>11, <2>4 DEF SolverPass
      <3>2. step'[t] < Len(RouteOf(t)') /\ pc'[t] \notin {"claim", "alloc"}
        BY <2>1, <2>2, <2>4, <3>1 DEF Running
      <3> QED
        BY <1>2, <2>1, <3>2 DEF StepsLeft
    <2> QED
      BY <2>3, <2>4
  <1>12. CASE UNCHANGED vars
    BY <1>2, <1>12 DEF vars, StepsLeft
  <1> QED
    BY <1>3, <1>4, <1>5, <1>6, <1>7, <1>8, <1>9, <1>10, <1>11, <1>12 DEF Next, CallStep

-----------------------------------------------------------------------------
(* Every step preserves DataKnown. *)

(* The bytes a place of a running call stands for. *)
LEMMA PlaceCells ==
    ASSUME IInv, BlocksSized, NEW t \in Threads, Running(t), NEW loc \in Places(Plan) \ {"out"}
    PROVE  LET r == ctx[t].regions
           IN  /\ r[loc].blk \in DOMAIN mem
               /\ Region(Plan, r, loc) \subseteq DOMAIN mem[r[loc].blk]
               /\ {r[loc].blk} \X Region(Plan, r, loc) \subseteq Cells(t)
  <1> DEFINE r == ctx[t].regions
  <1>1. loc \in Kinds /\ SizeOf(Plan, loc) > 0
    BY DEF Places
  <1>2. /\ r[loc] # NULL /\ r[loc].blk \in DOMAIN mem
        /\ Region(Plan, r, loc) \subseteq DOMAIN mem[r[loc].blk]
    BY <1>1, RegionsLive DEF RegionsInLiveBlocks
  <1>3. {r[loc].blk} \X Region(Plan, r, loc) \subseteq Cells(t)
    BY <1>1, <1>2 DEF Cells
  <1> QED
    BY <1>2, <1>3

(* The place the last pass of a call filled. *)
LEMMA PlaceOfStep ==
    ASSUME IInv, StepsLeft, NEW t \in Threads, Running(t), NEW k \in 1 .. step[t] + 1
    PROVE  RouteOf(t)[k] \in Places(Plan)
  <1>1. step[t] \in Nat /\ step[t] < Len(RouteOf(t))
    BY DEF IInv, TypeOK, StepsLeft
  <1>2. RouteOf(t) \in Seq(Places(Plan)) /\ Len(RouteOf(t)) \in Nat
    BY RouteOfShape
  <1> QED
    BY <1>1, <1>2

(* A step of another call that leaves the buffers and the regions of t alone
   leaves the data of t where it was. *)
LEMMA DataFrame ==
    ASSUME IInv, StepsLeft, NEW t \in Threads, DataOk(t),
           handle' = handle, pc'[t] = pc[t], call'[t] = call[t], ctx'[t] = ctx[t],
           step'[t] = step[t], status'[t] = status[t],
           Tracked(t) /\ Running(t) => RouteOf(t)' = RouteOf(t),
           Tracked(t) => /\ buf'[call[t].in] \in {buf[call[t].in], Raw(call[t].in)}
                         /\ buf'[call[t].out] = buf[call[t].out],
           Tracked(t) /\ Running(t) =>
             \A loc \in Places(Plan) \ {"out"} :
               \A i \in Region(Plan, ctx[t].regions, loc) :
                 mem'[ctx[t].regions[loc].blk][i] = mem[ctx[t].regions[loc].blk][i]
    PROVE  DataOk(t)'
  <1>1. Plan' = Plan /\ Running(t)' = Running(t) /\ Unstarted(t)' = Unstarted(t)
        /\ Finished(t)' = Finished(t)
    BY DEF Plan, Running, Unstarted, Finished
  <1>2. Mismatched(t)' = Mismatched(t) /\ Tracked(t)' = Tracked(t)
    BY <1>1 DEF Mismatched, Tracked, InFlight
  <1>3. ASSUME Tracked(t), Running(t), step[t] # 0
        PROVE  Holds(t, RouteOf(t)[step[t]], Mid(call[t].in, step[t]))'
    <2> DEFINE loc == RouteOf(t)[step[t]]
    <2>1. loc \in Places(Plan)
      <3>1. step[t] \in 1 .. step[t] + 1
        BY <1>3 DEF IInv, TypeOK
      <3> QED
        BY <1>3, <3>1, PlaceOfStep
    <2>2. Holds(t, loc, Mid(call[t].in, step[t]))
      BY <1>3 DEF DataOk
    <2>3. RouteOf(t)'[step'[t]] = loc
      BY <1>3
    <2> DEFINE v == Mid(call[t].in, step[t])
    <2>4. Mid(call[t].in, step[t])' = v
      BY DEF Mid
    <2>5. CASE loc = "out"
      <3>1. buf'[call'[t].out] = v
        BY <1>3, <2>2, <2>5 DEF Holds
      <3> QED
        BY <2>3, <2>4, <2>5, <3>1 DEF Holds
    <2>6. CASE loc # "out"
      <3> HIDE DEF loc, v
      <3>1. \A i \in Region(Plan, ctx[t].regions, loc) : mem[ctx[t].regions[loc].blk][i] = v
        BY <2>2, <2>6 DEF Holds, v
      <3>2. \A i \in Region(Plan, ctx[t].regions, loc) : mem'[ctx[t].regions[loc].blk][i] = v
        BY <1>3, <2>1, <2>6, <3>1
      <3>3. Region(Plan', ctx'[t].regions, loc) = Region(Plan, ctx[t].regions, loc)
        BY <1>1
      <3>4. \A i \in Region(Plan', ctx'[t].regions, loc) : mem'[ctx'[t].regions[loc].blk][i] = v
        BY <3>2, <3>3
      <3> QED
        BY <2>3, <2>4, <2>6, <3>4 DEF Holds
    <2> QED
      BY <2>5, <2>6
  <1>4. Raw(call[t].in)' = Raw(call[t].in) /\ Raw(call[t].out)' = Raw(call[t].out)
        /\ Fft(call[t].in)' = Fft(call[t].in)
    BY DEF Raw, Fft
  <1>5. Tracked(t) => (Unstarted(t) => buf'[call'[t].in] = Raw(call[t].in)
                                        /\ buf'[call'[t].out] = Raw(call[t].out))
    BY DEF DataOk
  <1>6. Tracked(t) /\ Finished(t) => buf'[call'[t].out] = IF status'[t] = "SUCCESS" THEN Fft(call[t].in)
                                                           ELSE Raw(call[t].out)
    BY DEF DataOk
  <1>7. Tracked(t) /\ Running(t) /\ step[t] # 0 => ~Mismatched(t)
    BY DEF DataOk
  <1> QED
    BY <1>1, <1>2, <1>3, <1>4, <1>5, <1>6, <1>7 DEF DataOk

(* A write to a region changes the bytes of that region and no others. *)
LEMMA RegionWritten ==
    ASSUME NEW t \in Threads, NEW k, NEW v, NEW b \in DOMAIN mem, NEW i \in DOMAIN mem[b]
    PROVE  WriteRegion(t, k, v)[b][i] =
             IF b = ctx[t].regions[k].blk /\ i \in Region(Plan, ctx[t].regions, k)
             THEN v ELSE mem[b][i]
  <1>1. CASE b = ctx[t].regions[k].blk
    <2>1. WriteRegion(t, k, v)[b] = [j \in DOMAIN mem[b] |->
             IF j \in Region(Plan, ctx[t].regions, k) THEN v ELSE mem[b][j]]
      BY <1>1 DEF WriteRegion
    <2> QED
      BY <1>1, <2>1
  <1>2. CASE b # ctx[t].regions[k].blk
    <2>1. WriteRegion(t, k, v)[b] = mem[b]
      BY <1>2 DEF WriteRegion
    <2> QED
      BY <1>2, <2>1
  <1> QED
    BY <1>1, <1>2

(* The pass of one call leaves the buffers of every other call in flight and
   the regions of every other running call alone. *)
LEMMA PassLeavesOthers ==
    ASSUME IInv, BlocksSized, CallsKnown, CallsApart, StepsLeft,
           NEW t \in Threads, SolverPass(t), NEW u \in Threads, u # t, Tracked(u)
    PROVE  /\ buf'[call[u].in] = buf[call[u].in]
           /\ buf'[call[u].out] = buf[call[u].out]
           /\ Running(u) =>
                 \A loc \in Places(Plan) \ {"out"} :
                   \A i \in Region(Plan, ctx[u].regions, loc) :
                     mem'[ctx[u].regions[loc].blk][i] = mem[ctx[u].regions[loc].blk][i]
  <1> DEFINE to == RouteOf(t)[step[t] + 1]
             v == Produced(t, step[t] + 1)
  <1>1. Running(t) /\ InFlight(t) /\ InCall(t) /\ InFlight(u)
    BY DEF SolverPass, CallsKnown, InCall, Running, Tracked
  <1>2. OutOf(t) = call[t].out /\ call[t].out \notin {call[u].in, call[u].out}
    BY <1>1 DEF CallsApart, CallsKnown
  <1>3. \/ buf' = [buf EXCEPT ![OutOf(t)] = v] /\ mem' = mem
        \/ buf' = buf /\ mem' = WriteRegion(t, to, v) /\ to # "out"
    BY DEF SolverPass
  <1>4. to \in Places(Plan)
    <2>1. step[t] + 1 \in 1 .. step[t] + 1
      BY DEF IInv, TypeOK
    <2> QED
      BY <1>1, <2>1, PlaceOfStep
  <1> HIDE DEF v, to
  <1>5. call[u].in \in Bufs /\ call[u].out \in Bufs /\ buf \in [Bufs -> Values]
    BY <1>1 DEF CallsKnown, IInv, TypeOK
  <1>6. buf'[call[u].in] = buf[call[u].in] /\ buf'[call[u].out] = buf[call[u].out]
    BY <1>2, <1>3, <1>5
  <1>7. ASSUME Running(u), NEW loc \in Places(Plan) \ {"out"},
               NEW i \in Region(Plan, ctx[u].regions, loc), to # "out", mem' = WriteRegion(t, to, v)
        PROVE  mem'[ctx[u].regions[loc].blk][i] = mem[ctx[u].regions[loc].blk][i]
    <2> DEFINE b == ctx[u].regions[loc].blk
    <2>1. b \in DOMAIN mem /\ i \in DOMAIN mem[b] /\ <<b, i>> \in Cells(u)
      BY <1>7, PlaceCells
    <2>2. {ctx[t].regions[to].blk} \X Region(Plan, ctx[t].regions, to) \subseteq Cells(t)
      BY <1>1, <1>4, <1>7, PlaceCells
    <2>3. Cells(t) \cap Cells(u) = {}
      BY <1>1, <1>7, RunningApart DEF ScratchExclusive
    <2>4. ~(b = ctx[t].regions[to].blk /\ i \in Region(Plan, ctx[t].regions, to))
      BY <2>1, <2>2, <2>3
    <2> QED
      BY <1>7, <2>1, <2>4, RegionWritten
  <1> QED
    BY <1>3, <1>6, <1>7

(* What a pass of a tracked call finds is what the pass before left, so it
   leaves the data of the next pass, or the transform. *)
LEMMA PassMovesData ==
    ASSUME IInv, CallsKnown, StepsLeft, NEW t \in Threads, SolverPass(t), Tracked(t), DataOk(t)
    PROVE  /\ ~Mismatched(t)
           /\ Produced(t, step[t] + 1) =
                IF step[t] + 1 = Len(RouteOf(t)) THEN Fft(call[t].in)
                ELSE Mid(call[t].in, step[t] + 1)
  <1>1. Running(t) /\ InCall(t) /\ InOf(t) = call[t].in /\ OutOf(t) = call[t].out
    BY DEF SolverPass, CallsKnown, InCall, Running, Tracked
  <1>2. step[t] \in Nat
    BY DEF IInv, TypeOK
  <1>3. ~Mismatched(t)
    <2>1. CASE step[t] = 0
      <3>1. ~CopyBufferMissing(Plan, ctx[t].regions, InOf(t), OutOf(t))
        BY <2>1 DEF SolverPass
      <3>2. Plan \in Plans /\ (ctx[t].regions["sr"] # NULL <=> Plan.srCopy > 0)
        BY <1>1, RouteOfShape
      <3>3. Plan.srCopy > 0 => Plan.placement = "in"
        BY <3>2, PlansTyped DEF WellFormed
      <3> QED
        BY <1>1, <3>1, <3>2, <3>3 DEF CopyBufferMissing, Mismatched
    <2>2. CASE step[t] # 0
      BY <1>1, <2>2 DEF DataOk
    <2> QED
      BY <2>1, <2>2
  <1>4. Found(t, step[t] + 1) = Expected(t, step[t] + 1)
    <2>1. CASE step[t] = 0
      <3>1. buf[call[t].in] = Raw(call[t].in)
        BY <1>1, <2>1 DEF DataOk, Unstarted
      <3> QED
        BY <1>1, <2>1, <3>1 DEF Found, Expected
    <2>2. CASE step[t] # 0
      <3>1. Holds(t, RouteOf(t)[step[t]], Mid(call[t].in, step[t]))
        BY <1>1, <2>2 DEF DataOk
      <3>2. RouteOf(t)[step[t]] \in Places(Plan)
        <4>1. step[t] \in 1 .. step[t] + 1
          BY <1>2, <2>2
        <4> QED
          BY <1>1, <4>1, PlaceOfStep
      <3>3. ContentOf(t, RouteOf(t)[step[t]]) = Mid(call[t].in, step[t])
        BY <1>1, <3>1, <3>2, HoldsContent
      <3> DEFINE k == step[t] + 1
      <3>4. k # 1 /\ k - 1 = step[t]
        BY <1>2, <2>2
      <3> HIDE DEF k
      <3>5. Found(t, k) = ContentOf(t, RouteOf(t)[step[t]])
        BY <3>4 DEF Found
      <3>6. Expected(t, k) = Mid(InOf(t), step[t])
        BY <3>4 DEF Expected
      <3> QED
        BY <1>1, <3>3, <3>5, <3>6 DEF k
    <2> QED
      BY <2>1, <2>2
  <1> QED
    BY <1>1, <1>3, <1>4, Zenon DEF Produced

LEMMA NextData ==
    ASSUME IInv, BlocksSized, CallsKnown, CallsApart, StepsLeft, DataKnown, [Next]_vars
    PROVE  DataKnown'
  <1> USE DEF TypeOK
  <1>0. TypeOK /\ CallsKnown' /\ CallsApart' /\ \A t \in Threads : DataOk(t)
    BY NextCalls DEF IInv, DataKnown
  <1>1. ASSUME NEW p \in Plans, NEW in \in Bufs, NEW out \in Bufs, Setup(p, in, out)
        PROVE  DataKnown'
    <2>1. \A t \in Threads : ~InFlight(t)
      BY <1>1 DEF Setup, CallsKnown
    <2>2. \A t \in Threads : ~Tracked(t)'
      BY <1>1, <2>1 DEF Setup, InFlight, Tracked
    <2> QED
      BY <2>2 DEF DataKnown, DataOk
  <1>2. CASE Destroy
    <2>1. \A t \in Threads : ~Tracked(t)'
      BY <1>2 DEF Destroy, Active, InFlight, Tracked
    <2> QED
      BY <2>1 DEF DataKnown, DataOk
  <1>3. ASSUME NEW t \in Threads, Execute(t)
        PROVE  DataKnown'
    <2>1. \A u \in Threads \ {t} : ~Tracked(u)'
      BY <1>0, <1>3 DEF Execute, Active, InFlight, Tracked
    <2>2. /\ call'[t].in = handle.in /\ call'[t].out = handle.out /\ pc'[t] = "run_base" /\ step'[t] = 0
          /\ buf' = [buf EXCEPT ![handle.in] = Raw(handle.in), ![handle.out] = Raw(handle.out)]
          /\ handle.in \in Bufs /\ handle.out \in Bufs
      BY <1>0, <1>3 DEF Execute
    <2>3. buf'[handle.in] = Raw(handle.in) /\ buf'[handle.out] = Raw(handle.out)
      BY <1>0, <2>2
    <2>4. DataOk(t)'
      BY <2>2, <2>3 DEF DataOk, Running, Finished, Raw
    <2> QED
      BY <2>1, <2>4 DEF DataKnown, DataOk
  <1>4. ASSUME NEW t \in Threads, ExecuteIONull(t)
        PROVE  DataKnown'
    <2>1. ~Tracked(t)'
      BY <1>0, <1>4 DEF ExecuteIONull, InFlight, Tracked
    <2>2. /\ handle' = handle /\ ds' = ds /\ step' = step /\ ctx' = ctx /\ mem' = mem /\ buf' = buf
          /\ \A u \in Threads \ {t} : pc'[u] = pc[u] /\ call'[u] = call[u] /\ status'[u] = status[u]
      BY <1>0, <1>4 DEF ExecuteIONull
    <2>3. \A u \in Threads \ {t} : RouteOf(u)' = RouteOf(u)
      BY <2>2 DEF RouteOf, InOf, OutOf, Plan
    <2>4. \A u \in Threads \ {t} : DataOk(u)'
      BY <1>0, <2>2, <2>3, DataFrame
    <2> QED
      BY <2>1, <2>4 DEF DataKnown, DataOk
  <1>5. ASSUME NEW t \in Threads, NEW in \in Bufs, NEW out \in Bufs, ExecuteIO(t, in, out)
        PROVE  DataKnown'
    <2>1. /\ call'[t].in = in /\ call'[t].out = out /\ pc'[t] \in {"run_base", "claim"} /\ step'[t] = 0
          /\ buf' = [buf EXCEPT ![in] = Raw(in), ![out] = Raw(out)]
      BY <1>0, <1>5 DEF ExecuteIO
    <2>2. buf'[in] = Raw(in) /\ buf'[out] = Raw(out)
      BY <1>0, <2>1
    <2>3. DataOk(t)'
      BY <2>1, <2>2 DEF DataOk, Running, Finished, Raw
    <2>4. /\ handle' = handle /\ mem' = mem /\ (~Plan.real => ds' = ds)
          /\ \A u \in Threads \ {t} : /\ pc'[u] = pc[u] /\ call'[u] = call[u] /\ ctx'[u] = ctx[u]
                                       /\ step'[u] = step[u] /\ status'[u] = status[u]
      BY <1>0, <1>5 DEF ExecuteIO
    <2>5. \A u \in Threads \ {t} : Tracked(u) =>
             ~Plan.real /\ out \notin {call[u].in, call[u].out} /\ in # call[u].out
      BY <1>5 DEF ExecuteIO, MayOverlap, BuffersFree, Active, Tracked, InFlight
    <2>6. \A u \in Threads \ {t} : Tracked(u) => RouteOf(u)' = RouteOf(u)
      BY <2>4, <2>5 DEF RouteOf, InOf, OutOf, Plan
    <2>7. \A u \in Threads \ {t} : Tracked(u) =>
             /\ buf'[call[u].in] \in {buf[call[u].in], Raw(call[u].in)}
             /\ buf'[call[u].out] = buf[call[u].out]
      <3>1. \A b \in Bufs : buf'[b] = IF b = out THEN Raw(out) ELSE IF b = in THEN Raw(in) ELSE buf[b]
        BY <1>0, <2>1
      <3>2. \A u \in Threads \ {t} : Tracked(u) => call[u].in \in Bufs /\ call[u].out \in Bufs
        BY DEF Tracked, CallsKnown
      <3> QED
        BY <2>5, <3>1, <3>2
    <2>8. \A u \in Threads \ {t} : DataOk(u)'
      BY <1>0, <2>4, <2>6, <2>7, DataFrame
    <2> QED
      BY <2>3, <2>8 DEF DataKnown
  <1>6. ASSUME NEW t \in Threads, ClaimSetupBuffers(t) \/ AllocNothing(t)
        PROVE  DataKnown'
    <2>1. /\ handle' = handle /\ ds' = ds /\ call' = call /\ ctx' = ctx /\ step' = step
          /\ status' = status /\ mem' = mem /\ buf' = buf
          /\ \A u \in Threads \ {t} : pc'[u] = pc[u]
          /\ pc[t] \in {"claim", "alloc"} /\ pc'[t] \in {"alloc", "run_owner", "run_slab"}
      BY <1>0, <1>6 DEF ClaimSetupBuffers, AllocNothing
    <2>2. \A u \in Threads : RouteOf(u)' = RouteOf(u)
      BY <2>1 DEF RouteOf, InOf, OutOf, Plan
    <2>3. \A u \in Threads \ {t} : DataOk(u)'
      BY <1>0, <2>1, <2>2, DataFrame
    <2>4. DataOk(t)'
      <3>1. step'[t] = 0 /\ Unstarted(t) /\ ~Finished(t)'
        BY <2>1 DEF StepsLeft, Unstarted, Finished
      <3>2. Tracked(t)' => Tracked(t)
        BY <2>1 DEF Tracked, InFlight, Plan, Mismatched
      <3>3. Tracked(t) => buf[call[t].in] = Raw(call[t].in) /\ buf[call[t].out] = Raw(call[t].out)
        BY <1>0, <3>1 DEF DataOk
      <3> QED
        BY <2>1, <3>1, <3>2, <3>3 DEF DataOk, Raw
    <2> QED
      BY <2>3, <2>4 DEF DataKnown
  <1>7. ASSUME NEW t \in Threads, NEW s \in Slabs, AllocPerCallScratch(t, s)
        PROVE  DataKnown'
    <2>1. /\ handle' = handle /\ ds' = ds /\ call' = call /\ step' = step /\ status' = status
          /\ buf' = buf /\ pc[t] = "alloc" /\ pc'[t] = "run_slab"
          /\ \A u \in Threads \ {t} : pc'[u] = pc[u] /\ ctx'[u] = ctx[u]
      BY <1>0, <1>7 DEF AllocPerCallScratch
    <2>2. \A b \in DOMAIN mem : mem'[b] = mem[b]
      BY <1>7 DEF AllocPerCallScratch
    <2>3. \A u \in Threads \ {t} : RouteOf(u)' = RouteOf(u)
      BY <2>1 DEF RouteOf, InOf, OutOf, Plan
    <2>4. ASSUME NEW u \in Threads \ {t}
          PROVE  DataOk(u)'
      <3>1. ASSUME Running(u), NEW loc \in Places(Plan) \ {"out"}
            PROVE  mem'[ctx[u].regions[loc].blk] = mem[ctx[u].regions[loc].blk]
        BY <2>2, <3>1, PlaceCells
      <3> QED
        BY <1>0, <2>1, <2>3, <3>1, DataFrame
    <2>5. DataOk(t)'
      <3>1. step'[t] = 0 /\ Unstarted(t) /\ ~Finished(t)'
        BY <2>1 DEF StepsLeft, Unstarted, Finished
      <3>2. Tracked(t)' => Tracked(t)
        BY <2>1 DEF Tracked, InFlight, Plan, Mismatched
      <3>3. Tracked(t) => buf[call[t].in] = Raw(call[t].in) /\ buf[call[t].out] = Raw(call[t].out)
        BY <1>0, <3>1 DEF DataOk
      <3> QED
        BY <2>1, <3>1, <3>2, <3>3 DEF DataOk, Raw
    <2> QED
      BY <2>4, <2>5 DEF DataKnown
  <1>8. ASSUME NEW t \in Threads, AllocFails(t)
        PROVE  DataKnown'
    <2>1. /\ handle' = handle /\ ds' = ds /\ call' = call /\ ctx' = ctx /\ step' = step
          /\ mem' = mem /\ buf' = buf
          /\ \A u \in Threads \ {t} : pc'[u] = pc[u] /\ status'[u] = status[u]
          /\ pc[t] = "alloc" /\ pc'[t] = "done" /\ status'[t] = "MEMORY_FAILURE"
      BY <1>0, <1>8 DEF AllocFails
    <2>2. \A u \in Threads \ {t} : RouteOf(u)' = RouteOf(u)
      BY <2>1 DEF RouteOf, InOf, OutOf, Plan
    <2>3. \A u \in Threads \ {t} : DataOk(u)'
      BY <1>0, <2>1, <2>2, DataFrame
    <2>4. DataOk(t)'
      <3>1. Unstarted(t) /\ ~Unstarted(t)' /\ ~Running(t)'
        BY <2>1 DEF Unstarted, Running
      <3>2. Tracked(t)' => Tracked(t)
        BY <2>1 DEF Tracked, InFlight, Plan, Mismatched
      <3>3. Tracked(t) => buf[call[t].out] = Raw(call[t].out)
        BY <1>0, <3>1 DEF DataOk
      <3> QED
        BY <2>1, <3>1, <3>2, <3>3 DEF DataOk, Raw
    <2> QED
      BY <2>3, <2>4 DEF DataKnown
  <1>9. ASSUME NEW t \in Threads, SolverPass(t)
        PROVE  DataKnown'
    <2> DEFINE k == step[t] + 1
               to == RouteOf(t)[k]
               v == Produced(t, k)
    <2>1. /\ handle' = handle /\ ds' = ds /\ call' = call /\ ctx' = ctx /\ Running(t)
          /\ step'[t] = k
          /\ \A u \in Threads \ {t} : pc'[u] = pc[u] /\ step'[u] = step[u] /\ status'[u] = status[u]
      BY <1>0, <1>9 DEF SolverPass
    <2>2. Plan' = Plan /\ \A u \in Threads : RouteOf(u)' = RouteOf(u)
      BY <2>1 DEF RouteOf, InOf, OutOf, Plan
    <2>3. \A u \in Threads \ {t} : DataOk(u)'
      BY <1>0, <1>9, <2>1, <2>2, PassLeavesOthers, DataFrame
    <2>4. DataOk(t)'
      <3>1. SUFFICES ASSUME Tracked(t)'
                     PROVE  DataOk(t)'
        BY DEF DataOk
      <3>2. Tracked(t) /\ InCall(t) /\ Mismatched(t)' = Mismatched(t)
        BY <2>1, <2>2, <3>1 DEF Tracked, InFlight, Mismatched, InCall, Running
      <3>3. /\ ~Mismatched(t)
            /\ v = IF k = Len(RouteOf(t)) THEN Fft(call[t].in) ELSE Mid(call[t].in, k)
        BY <1>0, <1>9, <3>2, PassMovesData
      <3>4. OutOf(t) = call[t].out /\ call[t].out \in Bufs
        BY <3>2 DEF CallsKnown, Tracked
      <3>5. step[t] \in Nat /\ k # 0
        BY <1>0
      <3>6. IF to = "out" THEN buf' = [buf EXCEPT ![OutOf(t)] = v] /\ mem' = mem
            ELSE mem' = WriteRegion(t, to, v) /\ buf' = buf
        BY <1>9 DEF SolverPass
      <3>7. Len(RouteOf(t)) \in Nat /\ RouteOf(t)[Len(RouteOf(t))] = "out" /\ to \in Places(Plan)
        <4>1. k \in 1 .. step[t] + 1
          BY <3>5
        <4> QED
          BY <2>1, <4>1, RouteOfShape, PlaceOfStep
      <3>8. CASE k = Len(RouteOf(t))
        <4>1. status'[t] = "SUCCESS" /\ pc'[t] = AfterExecute(t)
          BY <1>0, <1>9, <3>8 DEF SolverPass
        <4>2. ~Unstarted(t)' /\ ~Running(t)'
          BY <4>1 DEF AfterExecute, Unstarted, Running
        <4>3. buf'[call'[t].out] = Fft(call[t].in)
          BY <1>0, <2>1, <3>3, <3>4, <3>6, <3>7, <3>8
        <4> QED
          BY <2>1, <4>1, <4>2, <4>3 DEF DataOk, Fft
      <3>9. CASE k # Len(RouteOf(t))
        <4>1. pc' = pc
          BY <1>9, <3>9 DEF SolverPass
        <4>2. ~Unstarted(t)' /\ ~Finished(t)'
          BY <2>1, <3>5, <4>1 DEF Unstarted, Finished, Running
        <4>3. v = Mid(call[t].in, k)
          BY <3>3, <3>9
        <4>4. RouteOf(t)'[step'[t]] = to
          BY <2>1, <2>2
        <4> HIDE DEF to, v, k
        <4>5. CASE to = "out"
          <5>1. buf'[call'[t].out] = v
            BY <1>0, <2>1, <3>4, <3>6, <4>5
          <5>2. Holds(t, RouteOf(t)[step[t]], Mid(call[t].in, step[t]))'
            BY <2>1, <4>3, <4>4, <4>5, <5>1 DEF Holds, Mid
          <5> QED
            BY <3>2, <3>3, <4>2, <5>2 DEF DataOk
        <4>6. CASE to # "out"
          <5> DEFINE b == ctx[t].regions[to].blk
                     R == Region(Plan, ctx[t].regions, to)
          <5>1. b \in DOMAIN mem /\ R \subseteq DOMAIN mem[b]
            BY <2>1, <3>7, <4>6, PlaceCells
          <5>2. \A i \in R : mem'[b][i] = v
            BY <3>6, <4>6, <5>1, RegionWritten
          <5>3. Region(Plan', ctx'[t].regions, to) = R /\ ctx'[t].regions[to].blk = b
            BY <2>1, <2>2
          <5> HIDE DEF b, R
          <5>4. \A i \in Region(Plan', ctx'[t].regions, to) : mem'[ctx'[t].regions[to].blk][i] = v
            BY <5>2, <5>3
          <5>5. Mid(call[t].in, step[t])' = v
            BY <2>1, <4>3 DEF Mid
          <5>6. Holds(t, RouteOf(t)[step[t]], Mid(call[t].in, step[t]))'
            BY <4>4, <4>6, <5>4, <5>5 DEF Holds
          <5> QED
            BY <3>2, <3>3, <4>2, <5>6 DEF DataOk
        <4> QED
          BY <4>5, <4>6
      <3> QED
        BY <3>8, <3>9
    <2> QED
      BY <2>3, <2>4 DEF DataKnown
  <1>10. ASSUME NEW t \in Threads, CopyBufferRefused(t)
         PROVE  DataKnown'
    <2>1. /\ handle' = handle /\ ds' = ds /\ call' = call /\ ctx' = ctx /\ mem' = mem /\ buf' = buf
          /\ \A u \in Threads \ {t} : pc'[u] = pc[u] /\ step'[u] = step[u] /\ status'[u] = status[u]
          /\ Running(t) /\ step[t] = 0
          /\ CopyBufferMissing(Plan, ctx[t].regions, InOf(t), OutOf(t))
      BY <1>0, <1>10 DEF CopyBufferRefused
    <2>2. \A u \in Threads \ {t} : RouteOf(u)' = RouteOf(u)
      BY <2>1 DEF RouteOf, InOf, OutOf, Plan
    <2>3. \A u \in Threads \ {t} : DataOk(u)'
      BY <1>0, <2>1, <2>2, DataFrame
    <2>4. DataOk(t)'
      <3>1. SUFFICES ASSUME Tracked(t)'
                     PROVE  DataOk(t)'
        BY DEF DataOk
      <3>2. Tracked(t) /\ InCall(t) /\ Unstarted(t)
        BY <2>1, <3>1 DEF Tracked, InFlight, Mismatched, Plan, InCall, Running, Unstarted
      <3>3. buf[call[t].out] = Raw(call[t].out)
        BY <1>0, <3>2 DEF DataOk
      <3>4. Mismatched(t)
        <4>1. Plan \in Plans /\ (ctx[t].regions["sr"] # NULL <=> Plan.srCopy > 0)
          BY <2>1, RouteOfShape
        <4>2. Plan.placement \in {"in", "out"} /\ (Plan.srCopy > 0 <=> Plan.sr /\ Plan.placement = "in")
          BY <4>1, PlansTyped DEF WellFormed, PlanType
        <4> QED
          BY <2>1, <3>2, <4>1, <4>2 DEF CopyBufferMissing, Mismatched, CallsKnown, Tracked
      <3>5. status'[t] = "EXECUTION_FAILURE" /\ pc'[t] = AfterExecute(t)
        BY <1>0, <1>10, <3>2, <3>4 DEF CopyBufferRefused, Tracked
      <3>6. ~Unstarted(t)' /\ ~Running(t)'
        BY <3>5 DEF AfterExecute, Unstarted, Running
      <3> QED
        BY <2>1, <3>3, <3>5, <3>6 DEF DataOk, Raw
    <2> QED
      BY <2>3, <2>4 DEF DataKnown
  <1>11. ASSUME NEW t \in Threads, ReleaseSetupBuffers(t) \/ FreeScratchSlab(t)
         PROVE  DataKnown'
    <2>1. /\ handle' = handle /\ ds' = ds /\ call' = call /\ ctx' = ctx /\ step' = step
          /\ status' = status /\ buf' = buf
          /\ \A u \in Threads \ {t} : pc'[u] = pc[u]
          /\ pc[t] \in {"release", "free"} /\ pc'[t] = "done"
      BY <1>0, <1>11 DEF ReleaseSetupBuffers, FreeScratchSlab
    <2>2. \A u \in Threads \ {t} : RouteOf(u)' = RouteOf(u)
      BY <2>1 DEF RouteOf, InOf, OutOf, Plan
    <2>3. \A b \in DOMAIN mem : b # slab[t] => mem'[b] = mem[b]
      BY <1>11 DEF ReleaseSetupBuffers, FreeScratchSlab
    <2>4. ASSUME NEW u \in Threads \ {t}
          PROVE  DataOk(u)'
      <3>1. ASSUME Running(u), NEW loc \in Places(Plan) \ {"out"}, NEW i \in Region(Plan, ctx[u].regions, loc)
            PROVE  mem'[ctx[u].regions[loc].blk][i] = mem[ctx[u].regions[loc].blk][i]
        <4> DEFINE b == ctx[u].regions[loc].blk
        <4>1. b \in DOMAIN mem /\ <<b, i>> \in Cells(u)
          BY <3>1, PlaceCells
        <4>2. b \in Kinds \/ (slab[u] # NULL /\ b = slab[u])
          BY <3>1, <4>1, CellBlocks
        <4>3. b # slab[t]
          BY <1>0, <4>1, <4>2, NamesAssumption DEF IInv, SlabsAccounted
        <4> QED
          BY <2>3, <4>1, <4>3
      <3> QED
        BY <1>0, <2>1, <2>2, <3>1, DataFrame
    <2>5. DataOk(t)'
      <3>1. Finished(t) /\ ~Unstarted(t)' /\ ~Running(t)'
        BY <2>1 DEF Finished, Unstarted, Running
      <3>2. Tracked(t)' => Tracked(t)
        BY <2>1 DEF Tracked, InFlight, Plan, Mismatched
      <3>3. Tracked(t) => buf[call[t].out] = IF status[t] = "SUCCESS" THEN Fft(call[t].in)
                                             ELSE Raw(call[t].out)
        BY <1>0, <3>1 DEF DataOk
      <3> QED
        BY <2>1, <3>1, <3>2, <3>3 DEF DataOk, Raw, Fft
    <2> QED
      BY <2>4, <2>5 DEF DataKnown
  <1>12. ASSUME NEW t \in Threads, Return(t)
         PROVE  DataKnown'
    <2>1. /\ handle' = handle /\ ds' = ds /\ mem' = mem /\ buf' = buf
          /\ \A u \in Threads \ {t} : /\ pc'[u] = pc[u] /\ call'[u] = call[u] /\ ctx'[u] = ctx[u]
                                       /\ step'[u] = step[u] /\ status'[u] = status[u]
          /\ pc'[t] = "idle"
      BY <1>0, <1>12 DEF Return
    <2>2. \A u \in Threads \ {t} : RouteOf(u)' = RouteOf(u)
      BY <2>1 DEF RouteOf, InOf, OutOf, Plan
    <2>3. \A u \in Threads \ {t} : DataOk(u)'
      BY <1>0, <2>1, <2>2, DataFrame
    <2>4. DataOk(t)'
      BY <2>1 DEF DataOk, Tracked, InFlight
    <2> QED
      BY <2>3, <2>4 DEF DataKnown
  <1>13. CASE UNCHANGED vars
    <2>1. \A u \in Threads : RouteOf(u)' = RouteOf(u)
      BY <1>13 DEF RouteOf, InOf, OutOf, Plan, vars
    <2>2. \A u \in Threads : DataOk(u)'
      BY <1>0, <1>13, <2>1, DataFrame DEF vars
    <2> QED
      BY <2>2 DEF DataKnown
  <1> QED
    BY <1>1, <1>2, <1>3, <1>4, <1>5, <1>6, <1>7, <1>8, <1>9, <1>10, <1>11, <1>12, <1>13
       DEF Next, CallStep

-----------------------------------------------------------------------------
(* The theorem. *)

LEMMA SpecDataInv == Spec => [](IInv /\ DataInv)
  <1>1. Init => CallsKnown /\ CallsApart /\ StepsLeft /\ DataKnown
    BY DEF Init, CallsKnown, CallsApart, StepsLeft, DataKnown, DataOk, Tracked, InFlight, InCall,
       Running, NoCall
  <1>2. ASSUME IInv, BlocksSized, DataInv, [Next]_vars
        PROVE  DataInv'
    BY <1>2, NextCalls, NextSteps, NextData DEF DataInv
  <1>3. Init => DataInv
    BY <1>1 DEF DataInv
  <1>4. IInv /\ BlocksSized /\ DataInv /\ [Next]_vars => DataInv'
    BY <1>2
  <1> QED
    BY <1>3, <1>4, SpecIInv, SpecBlocksSized, PTL DEF Spec

(* A call of aoclfftz_execute_io, or of aoclfftz_execute on a complex plan,
   that reports success has left the transform of its own input in its
   output, and one that reports failure has left its output as it was: for
   any number of callers and whichever of them runs on the setup-time
   regions, provided each keeps to the placement of the plan. *)
THEOREM ResultsCorrect == Spec => []ResultCorrect
  <1>1. ASSUME IInv, DataInv
        PROVE  ResultCorrect
    <2>1. SUFFICES ASSUME NEW t \in Threads, pc[t] = "done",
                          call[t].api = "io" \/ (call[t].api = "setup" /\ ~Plan.real),
                          (call[t].in = call[t].out) <=> (Plan.placement = "in")
                   PROVE  buf[call[t].out] = IF status[t] = "SUCCESS" THEN Fft(call[t].in)
                                             ELSE Raw(call[t].out)
      BY DEF ResultCorrect
    <2>2. Tracked(t) /\ Finished(t)
      BY <2>1 DEF Tracked, InFlight, Mismatched, Finished
    <2> QED
      BY <1>1, <2>2 DEF DataInv, DataKnown, DataOk
  <1>2. IInv /\ DataInv => ResultCorrect
    BY <1>1
  <1> QED
    BY <1>2, SpecDataInv, PTL
=============================================================================
