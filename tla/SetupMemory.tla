----------------------------- MODULE SetupMemory -----------------------------
(***************************************************************************)
(* Setup of a plan and its destruction, as the memory manager sees them:   *)
(* setup_dft_* allocates a selector, prepare_and_setup_dft lets the driver *)
(* search for a plan in a selector of its own, fills the twiddle tables,   *)
(* adds the execution metadata and, for real plans, the copies of the      *)
(* threads; destroy_handle frees what the caller was given.                *)
(*                                                                         *)
(* The root of a plan is a Cooley-Tukey node or a node whose child is one: *)
(* batched, buffered, N-dimensional or real buffered.  Such a node keeps   *)
(* its child in a temporary selector t (and the N-dimensional node the     *)
(* rest of its dimensions in u) until the child's selection is over.  The  *)
(* problem of a real plan with threads ("CLONES") starts from the tree of  *)
(* one thread, whose selection is CtSelection's for its REAL_CT nodes.     *)
(*                                                                         *)
(* A problem is a record: root, the type of the root; inPlace; strided, is *)
(* the batch laid out by columns; radices, how many radices divide n;      *)
(* reproducible, is a reproducible result asked for; shape, see RealClones *)
(***************************************************************************)
EXTENDS CtSelection, RealClones

CONSTANTS Problems     \* the problems set up

VARIABLES sel,    \* the selector that becomes the handle, 0 before and after
          model,  \* the driver's selector
          root,   \* the solution at the root of the search
          t, u    \* the root's temporary selectors

vars == <<heap, pc, ret, prob, ct, mt, sel, model, root, t, u>>

Init ==
  /\ heap = EmptyHeap /\ pc = "start" /\ ret = "failure"
  /\ prob \in Problems
  /\ ct = NoCt /\ mt = NoMt
  /\ sel = 0 /\ model = 0 /\ root = 0 /\ t = 0 /\ u = 0

-----------------------------------------------------------------------------
(* setup_dft_f and its variants: no selector, no handle.                   *)
Start ==
  /\ pc = "start"
  /\ \/ /\ heap' = NewSelector(heap) /\ sel' = Last1(heap')
        /\ pc' = "driver"
     \/ /\ pc' = "gone"
        /\ UNCHANGED <<heap, sel>>
  /\ UNCHANGED <<ret, prob, ct, mt, model, root, t, u>>

(* selector_driver_dft_, selector_driver_rdft_.  A reproducible plan is    *)
(* searched for in the handle's own solution.                              *)
EnterRoot(h, x) ==
  /\ heap' = [h EXCEPT !.mem[x].type = prob.root]
  /\ root' = x
  /\ IF prob.root = "CT"
     THEN pc' = "ct" /\ ct' = [ct EXCEPT !.sol = x]
     ELSE pc' = "root" /\ UNCHANGED ct

Driver ==
  /\ pc = "driver"
  /\ IF prob.reproducible
     THEN EnterRoot(heap, SolOf(heap, sel)) /\ UNCHANGED model
     ELSE \/ LET h == NewSelector(heap)
             IN  EnterRoot(h, SolOf(h, Last1(h))) /\ model' = Last1(h)
          \/ pc' = "twiddle" /\ UNCHANGED <<heap, ct, root, model>>
  /\ UNCHANGED <<ret, prob, mt, sel, t, u>>

-----------------------------------------------------------------------------
(* The root's own selection up to the call that selects its child, which   *)
(* is made with heap h; a failure leaves heap h and no child.              *)
SelectChild(h, s) ==
  /\ heap' = [h EXCEPT !.mem[SolOf(h, s)].type = "CT"]
  /\ t' = s /\ ct' = [ct EXCEPT !.sol = SolOf(h, s)]
  /\ pc' = "ct" /\ UNCHANGED ret

NoChild(h) ==
  /\ heap' = h
  /\ pc' = "swap" /\ ret' = "failure"
  /\ UNCHANGED <<t, ct>>

Unchanged == UNCHANGED <<prob, mt, sel, model, root>>

(* selector_batched_dft: the plan does without batched_vecs when its block *)
(* cannot be had.                                                          *)
BatchedRoot ==
  /\ pc = "root" /\ prob.root = "BATCHED"
  /\ \/ NoChild(heap)
     \/ LET h1 == NewSelector(heap)
            s  == Last1(h1)
            h2 == New(h1, Blank)
        IN  \/ SelectChild(CopySolutionObj(h1, SolOf(h1, s), root), s)
            \/ /\ prob.strided
               /\ LET h3 == [h2 EXCEPT !.mem[root].bv = Last1(h2)]
                  IN  \/ SelectChild(CopySolutionObj(h3, SolOf(h3, s), root), s)
                      \/ NoChild(DestroySelector(
                                   CopySolutionObjFails(h3, SolOf(h3, s)), s))
  /\ UNCHANGED u /\ Unchanged

(* selector_buffered_dft with setup_buffered_solver.                       *)
BufferedRoot ==
  /\ pc = "root" /\ prob.root = "BUFFERED"
  /\ \/ NoChild(heap)
     \/ LET h1 == NewSelector(heap)
            s  == Last1(h1)
            h2 == CopySolutionObj(h1, SolOf(h1, s), root)
            h3 == NewPool(h2, root)
        IN  \/ NoChild(DestroySelector(h2, s))
            \/ SelectChild([h3 EXCEPT !.mem[SolOf(h3, s)].pool = h3.mem[root].pool],
                           s)
  /\ UNCHANGED u /\ Unchanged

(* selector_buffered_rdft with setup_real_buffered_solver.                 *)
RealBufferedRoot ==
  /\ pc = "root" /\ prob.root = "REAL_BUFFERED"
  /\ \/ NoChild(heap)
     \/ LET h1 == NewSelector(heap)
            s  == Last1(h1)
            h2 == CopySolutionObj(h1, SolOf(h1, s), root)
            h3 == New(h2, Blank)
        IN  \/ NoChild(DestroySelector(h2, s))
            \/ SelectChild([h3 EXCEPT !.mem[root].aux = Last1(h3),
                                      !.mem[root].ownsAux = TRUE,
                                      !.mem[SolOf(h3, s)].aux = Last1(h3)], s)
  /\ UNCHANGED u /\ Unchanged

(* selector_ndim_dft with setup_ndim_solver: both selectors are allocated  *)
(* before either is looked at.  The other dimensions are a direct node.    *)
NdimRoot ==
  /\ pc = "root" /\ prob.root = "NDIM"
  /\ LET h1 == NewSelector(heap)
         h2 == NewSelector(h1)
         s  == Last1(h2)
         v  == Last1(h1)
         h3 == NewPool(h2, root)
         Shared(h, x) == [h EXCEPT !.mem[SolOf(h, x)].pool = h.mem[root].pool]
         h4 == Shared(Shared(h3, v), s)
         h5 == NewStrides(h4, SolOf(h4, v))
         Undo(h) == DestroySelector(DestroySelector(h, v), s)
     IN  \/ NoChild(heap) /\ UNCHANGED u
         \/ NoChild(DestroySelector(h1, v)) /\ UNCHANGED u
         \/ \E h \in {h2, h4} : NoChild(Undo(h)) /\ UNCHANGED u
         \/ SelectChild([h5 EXCEPT !.mem[SolOf(h5, v)].type = "DIRECT"], s)
            /\ u' = v
  /\ Unchanged

(* The tree of one thread of a real plan.                                  *)
TemplateRoot ==
  /\ pc = "root" /\ prob.root = "CLONES"
  /\ heap' = Grow(heap, prob.shape, 1, root, 0)
  /\ pc' = "swap" /\ ret' = "ok"
  /\ UNCHANGED <<t, u, ct>> /\ Unchanged

(* The root's selection after that of its child.                           *)
LinkChild ==
  LET h1 == SetChild(NewArray(heap, root, 1), root, 1, ct.sol)
      h2 == IF u = 0 THEN h1 ELSE [h1 EXCEPT !.mem[root].nd = SolOf(h1, u)]
  IN  DestroyWrapper(DestroyWrapper(h2, u), t)

Unwind ==
  /\ pc = "selected"
  /\ pc' = "swap" /\ t' = 0 /\ u' = 0
  /\ IF t = 0 THEN UNCHANGED <<heap, ret>>
     ELSE \/ ret = "ok" /\ heap' = LinkChild /\ UNCHANGED ret
          \/ ret' = "failure" /\ heap' = DestroySelector(DestroySelector(heap, u), t)
  /\ UNCHANGED ct /\ Unchanged

(* The end of the driver, whatever the status of the search: the handle    *)
(* takes the solution of the driver's selector.                            *)
Swap ==
  /\ pc = "swap"
  /\ pc' = "twiddle" /\ model' = 0
  /\ heap' = IF model = 0 THEN heap
             ELSE LET org == SolOf(heap, sel)
                      h   == [heap EXCEPT !.mem[sel].kids = <<SolOf(heap, model)>>]
                  IN  DestroyWrapper(DestroySolution(h, org), model)
  /\ UNCHANGED <<ret, prob, ct, mt, sel, root, t, u>>

-----------------------------------------------------------------------------
(* setup_twiddle_buffer_complex: of every CT node on its way it reads the  *)
(* two nodes below, the radices in them first.                             *)
RECURSIVE TwiddleWalk(_, _)
TwiddleWalk(h, x) ==
  IF x = 0 THEN {}
  ELSE {x} \cup TwiddleWalk(h, Child(h, x)) \cup TwiddleWalk(h, h.mem[x].nd)

Readable(h, x) == x # 0 /\ h.mem[x].live /\ h.mem[x].filled # 0

ReadsAPlan(h, x) ==
  \A y \in TwiddleWalk(h, x) :
    h.mem[y].type = "CT" => /\ Readable(h, Child(h, y))
                            /\ Readable(h, Child(h, Child(h, y)))

HasThreads == prob.root \in {"REAL_BUFFERED", "CLONES"}

(* prepare_and_setup_dft: the twiddle tables before the status.            *)
Twiddle ==
  /\ pc = "twiddle"
  /\ heap' = IF HasThreads \/ ReadsAPlan(heap, SolOf(heap, sel)) THEN heap
             ELSE Misuse(heap)
  /\ pc' = IF ret = "ok" THEN "metadata" ELSE "destroy"
  /\ UNCHANGED <<ret, prob, ct, mt, sel, model, root, t, u>>

Metadata ==
  /\ pc = "metadata"
  /\ \/ LET h == New(heap, Blank)
        IN  /\ heap' = [h EXCEPT !.mem[sel].aux = Last1(h)]
            /\ pc' = IF HasThreads THEN "clones" ELSE "handle"
            /\ UNCHANGED ret
     \/ pc' = "destroy" /\ ret' = "failure" /\ UNCHANGED heap
  /\ UNCHANGED <<prob, ct, mt, sel, model, root, t, u>>

(* setup_dft_* after a failure, and destroy_handle.                        *)
Destroy ==
  /\ pc \in {"destroy", "handle"}
  /\ heap' = DestroySelector(heap, sel)
  /\ sel' = 0 /\ pc' = "gone"
  /\ UNCHANGED <<ret, prob, ct, mt, model, root, t, u>>

Threading == PostProcess(SolOf(heap, sel)) \/ CloneThread

Next == \/ Start \/ Driver
        \/ BatchedRoot \/ BufferedRoot \/ RealBufferedRoot \/ NdimRoot
        \/ TemplateRoot \/ Unwind \/ Swap \/ Twiddle \/ Metadata \/ Destroy
        \/ CtNext /\ UNCHANGED <<mt, sel, model, root, t, u>>
        \/ Threading /\ UNCHANGED <<ct, sel, model, root, t, u>>

Spec == Init /\ [][Next]_vars

-----------------------------------------------------------------------------
PCs == {"start", "driver", "root", "ct", "radix", "ctM", "ctNested", "ctR",
        "decide", "ctExit", "selected", "swap", "twiddle", "metadata",
        "clones", "handle", "destroy", "gone"}

Blocks == 0 .. Len(heap.mem)

(* What a variable names is a block, and a selector or solution in use is  *)
(* a live one.                                                             *)
TypeOK ==
  /\ pc \in PCs /\ ret \in {"ok", "failure"} /\ prob \in Problems
  /\ {sel, model, root, t, u, ct.sol, ct.org, ct.c, ct.m} \subseteq Blocks
  /\ {sel, model, t, u, ct.c, ct.m, ct.org} \ {0} \subseteq Live(heap)
  /\ ct.i \in 0 .. prob.radices /\ {ct.best, ct.cand} \subseteq 0 .. MaxCost
  /\ \A x \in Live(heap) : PointsTo(heap.mem[x]) \subseteq Blocks

(* No block is freed twice or read after it was freed, on any path through *)
(* setup and destruction, although candidates, selectors and threads hand  *)
(* subtrees, strides, pools and auxiliary buffers on to one another.       *)
NeverMisused == ~heap.misused

(* A handle that was given out reaches every live block, and after a       *)
(* failed setup, or after destroy_handle, no block is left.                *)
NothingLeaks ==
  /\ pc = "handle" => Live(heap) = Reach(heap, {sel})
  /\ pc = "gone" => Live(heap) = {}

(* In a handle every thread has a tree of its own and slots of its own in  *)
(* the shared auxiliary buffers.                                           *)
ClonesApart ==
  pc = "handle" => ThreadsApart(heap, SolOf(heap, sel))

(* In a handle the stages of every thread's real transform pass the data   *)
(* on through its own slot, from the problem's input to its output.        *)
ChainFed ==
  pc = "handle" /\ prob.root = "CLONES" => StagesFeed(heap, SolOf(heap, sel))

(* A setup that failed builds no twiddle tables from a plan that is not    *)
(* there: the two nodes below a CT node are filled when they are read.     *)
(* aoclfftz.h says of a failed setup that it returns NULL.                 *)
TwiddlesReadAPlan ==
  pc = "twiddle" => HasThreads \/ ReadsAPlan(heap, SolOf(heap, sel))

(* The candidate whose data the nodes of a plan hold, -1 when they hold    *)
(* those of different ones; in a handle the nodes are the handle's.        *)
KeptTags ==
  {heap.mem[x].filled : x \in {P, Q, Child(heap, Q)} \ {0}}

Kept ==
  IF ct.best = 0 \/ pc = "gone" \/ ret = "failure" THEN 0
  ELSE IF pc = "handle" /\ ct.sol \notin Reach(heap, {sel}) THEN -1
  ELSE IF Cardinality(KeptTags) = 1 THEN CHOOSE k \in KeptTags : TRUE ELSE -1

(* A plan of given tree ("CLONES") has no candidates to choose from.       *)
SearchState ==
  IF pc = "gone" \/ (ret = "failure" /\
                       pc \in {"ctExit", "selected", "swap", "twiddle", "destroy"})
  THEN "none"
  ELSE IF pc = "handle" /\ prob.root # "CLONES" THEN "planned" ELSE "choosing"

(* The handle holds the first of the cheapest candidates the search has    *)
(* examined, in all its nodes, or there is no handle (CheapestPlan).       *)
Search == INSTANCE CheapestPlan
            WITH costs <- ct.costs, kept <- Kept, state <- SearchState
ImplementsCheapest == Search!Spec
=============================================================================
