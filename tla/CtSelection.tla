---------------------------- MODULE CtSelection ----------------------------
(***************************************************************************)
(* The search of the Cooley-Tukey selectors: selector_ct_dft for complex   *)
(* problems, selector_ct_rdft for real ones (the same steps without        *)
(* scratch pool and batched_vecs).  The node ct.sol gets two nodes below   *)
(* it, P for radix r and Q for radix m, which are filled from the cheapest *)
(* candidate so far; a candidate is built in the solutions of two          *)
(* temporary selectors, c and m.  What hangs below Q, and the scratch pool,*)
(* pass from m to Q when a candidate is adopted.                           *)
(*                                                                         *)
(* Any allocation may fail; all but that of the fused one-level node make  *)
(* setup give up.  With Mishandled = FALSE failures are left out where the *)
(* code does not survive them; CodeSurvives names these places.            *)
(***************************************************************************)
EXTENDS PlanHeap

CONSTANTS MaxCost      \* bound: costs of a candidate are 1 .. MaxCost

VARIABLES ct     \* local variables of the Cooley-Tukey selector

NoCt == [sol |-> 0, org |-> 0, c |-> 0, m |-> 0, i |-> 0, adopted |-> FALSE,
         best |-> 0, cand |-> 0, costs |-> <<>>]

SolOf(h, s) == h.mem[s].kids[1]

NewArray(h, x, n) ==
  LET a == New(h, [Blank EXCEPT !.kids = [k \in 1 .. n |-> 0]])
  IN  [a EXCEPT !.mem[x].next = Last1(a)]
SetChild(h, x, k, y) == [h EXCEPT !.mem[h.mem[x].next].kids[k] = y]
NewChild(h, x) == LET a == New(h, Blank) IN SetChild(a, x, 1, Last1(a))

P == Child(heap, ct.sol)
Q == Child(heap, P)

IsReal == prob.root = "REAL_BUFFERED"

(* A root of type CT whose search stops before P and Q are filled is read  *)
(* by setup_twiddle_buffer_complex all the same (see SetupMemory), so at   *)
(* the root only failures after the first adopted candidate are survived.  *)
RootComplete == prob.root # "CT" \/ ct.best # 0
CodeSurvives == Mishandled \/ RootComplete

(* The part before the loop: org_sol, the two selectors, next_sol with P,  *)
(* P's next_sol with Q, and the copy of the node into org_sol.             *)
CtPrepare ==
  /\ pc = "ct"
  /\ LET s  == ct.sol
         h1 == New(heap, Blank)
         h2 == NewSelector(h1)
         h3 == NewSelector(h2)
         h4 == NewArray(h3, s, 1)
         h5 == NewChild(h4, s)
         h6 == NewArray(h5, Child(h5, s), 1)
         h7 == NewChild(h6, Child(h5, s))
         h8 == [CopySolutionObj(h7, Last1(h1), s) EXCEPT !.mem[Last1(h1)].next = 0]
         after == <<heap, h1, h2, h3, h4, h5, h6, h7, h8>>
     IN  \E k \in 0 .. 8 :
           /\ heap' = after[k + 1]
           /\ k < 8 => CodeSurvives
           /\ k = 7 => heap.mem[s].bv # 0
           /\ ret' = IF k < 8 \/ IsReal THEN "failure" ELSE "ok"
           /\ pc'  = IF k < 8 THEN "ctExit" ELSE "radix"
           /\ ct'  = [ct EXCEPT !.org = IF k >= 1 THEN Last1(h1) ELSE 0,
                                !.c   = IF k >= 2 THEN Last1(h2) ELSE 0,
                                !.m   = IF k >= 3 THEN Last1(h3) ELSE 0]
  /\ UNCHANGED prob

(* The loop over the radices that divide n.  A pair of selectors whose     *)
(* candidate was adopted is replaced by a new one.                         *)
CtRenew ==
  /\ pc = "radix" /\ ct.i < prob.radices /\ ct.adopted
  /\ LET h0 == DestroySelector(DestroySelector(heap, ct.c), ct.m)
         h1 == NewSelector(h0)
         h2 == NewSelector(h1)
     IN  \E k \in 0 .. 2 :
           /\ heap' = <<h0, h1, h2>>[k + 1]
           /\ k < 2 => CodeSurvives
           /\ ct' = [ct EXCEPT !.c = IF k >= 1 THEN Last1(h1) ELSE 0,
                               !.m = IF k = 2 THEN Last1(h2) ELSE 0,
                               !.adopted = (k < 2)]
           /\ IF k = 2 THEN UNCHANGED <<pc, ret>>
              ELSE pc' = "ctExit" /\ ret' = "failure"
  /\ UNCHANGED prob

(* setup_ct_solver, setup_real_ct_solver: the node as it was, copied to m, *)
(* then to c.                                                              *)
CtSetup ==
  /\ pc = "radix" /\ ct.i < prob.radices /\ ~ct.adopted
  /\ LET m == SolOf(heap, ct.m)
         c == SolOf(heap, ct.c)
         toM  == CopySolutionObj(heap, m, ct.org)
         both == CopySolutionObj(toM, c, ct.org)
         done == [both EXCEPT !.mem[m].filled = ct.i + 1,
                              !.mem[c].filled = ct.i + 1]
     IN  \E k \in 0 .. 2 :
           /\ k < 2 => CodeSurvives /\ heap.mem[ct.org].bv # 0
           /\ heap' = <<CopySolutionObjFails(heap, m),
                        CopySolutionObjFails(toM, c), done>>[k + 1]
           /\ pc'  = IF k < 2 THEN "ctExit" ELSE "ctM"
           /\ ret' = IF k < 2 THEN "failure" ELSE ret
  /\ ct' = [ct EXCEPT !.i = @ + 1]
  /\ UNCHANGED prob

CtNoMore ==
  /\ pc = "radix" /\ ct.i = prob.radices
  /\ pc' = "ctExit"
  /\ ret' = IF IsReal /\ prob.radices = 0 THEN "failure" ELSE ret
  /\ UNCHANGED <<heap, prob, ct>>

NewStrides(h, x) ==
  IF h.mem[x].strides # 0 THEN h
  ELSE LET a == New(h, Blank) IN [a EXCEPT !.mem[x].strides = Last1(a)]

NewPool(h, x) ==
  IF h.mem[x].pool # 0 THEN h
  ELSE LET a == New(h, Blank)
       IN  [a EXCEPT !.mem[x].pool = Last1(a), !.mem[x].ownsPool = TRUE]

(* A selection is described by the heaps it can leave behind: the last one *)
(* when it succeeds, the others when an allocation fails.                  *)
Chosen(stages, x, type) ==
  [stages EXCEPT ![Len(stages)] = [@ EXCEPT !.mem[x].type = type]]

DirectStages(x) == Chosen(<<heap, NewStrides(heap, x)>>, x, "DIRECT")

FusedStages(x) ==
  LET pooled == NewPool(heap, x)
  IN  Chosen(<<heap, pooled, NewStrides(pooled, x)>>, x, "BATCHED_CT_L1")

(* Every other node keeps its sub-problem in a solution of its own: a      *)
(* temporary selector t takes a copy of the node, its solution becomes the *)
(* child, a failure destroys t.  NESTED stands for batched and CT nodes; a *)
(* buffered node also gets a pool, unless it inherits one.                 *)
NestedStages(x, type) ==
  LET h1 == NewSelector(heap)
      t  == Last1(h1)
      y  == SolOf(h1, t)
      h2 == CopySolutionObj(h1, y, x)
      h3 == IF type = "BUFFERED" THEN NewPool(h2, x) ELSE h2
      p3 == [h3 EXCEPT !.mem[y].pool = h3.mem[x].pool]
      h4 == [NewStrides(p3, y) EXCEPT !.mem[y].type = "DIRECT"]
      h5 == SetChild(NewArray(h4, x, 1), x, 1, y)
      Undo(h) == DestroySelector(h, t)
      noCopy == IF heap.mem[x].bv = 0 THEN <<>>
                ELSE <<Undo(CopySolutionObjFails(h1, y))>>
  IN  Chosen(<<heap>> \o noCopy
               \o <<Undo(h2), Undo(p3), Undo(h4), DestroyWrapper(h5, t)>>,
             x, type)

(* The selection for radix m.  A fused node is tried first ("ctM"); when   *)
(* its pool or strides cannot be had the other nodes are tried.            *)
CtFused ==
  /\ pc = "ctM" /\ ~IsReal /\ ~prob.inPlace
  /\ LET x == SolOf(heap, ct.m)
         stages == FusedStages(x)
     IN  /\ heap.mem[x].bv = 0
         /\ \E k \in DOMAIN stages :
              /\ heap' = stages[k]
              /\ pc'  = IF k = Len(stages) THEN "ctR" ELSE "ctNested"
              /\ ret' = IF k = Len(stages) THEN "ok" ELSE ret
  /\ UNCHANGED <<prob, ct>>

(* The nodes for radix m; a kernel for m is known before fusing is tried.  *)
NodesForM(x) ==
  IF prob.inPlace THEN {NestedStages(x, "BUFFERED")}
  ELSE {NestedStages(x, "NESTED")}
         \cup (IF pc = "ctM" THEN {DirectStages(x)} ELSE {})

CtSelectM ==
  /\ pc \in {"ctM", "ctNested"}
  /\ \E stages \in NodesForM(SolOf(heap, ct.m)) :
       \E k \in DOMAIN stages :
         LET done == k = Len(stages)
         IN  /\ done \/ CodeSurvives
             /\ heap' = stages[k]
             /\ pc'  = IF done THEN "ctR" ELSE "ctExit"
             /\ ret' = IF done THEN "ok" ELSE "failure"
  /\ UNCHANGED <<prob, ct>>

(* The radix-r part is a direct node; its selection fixes the cost.        *)
CtSelectR ==
  /\ pc = "ctR"
  /\ LET x == SolOf(heap, ct.c)
     IN  \/ /\ heap' = [NewStrides(heap, x) EXCEPT !.mem[x].type = "DIRECT"]
            /\ \E cost \in 1 .. MaxCost : ct' = [ct EXCEPT !.cand = cost]
            /\ pc' = "decide" /\ UNCHANGED ret
         \/ /\ CodeSurvives
            /\ pc' = "ctExit" /\ ret' = "failure"
            /\ UNCHANGED <<heap, ct>>
  /\ UNCHANGED prob

(* Faulty variant: the last of the cheapest candidates is kept.            *)
BetterOrAsGood == ct.best = 0 \/ ct.cand <= ct.best

(* A candidate is kept when it is the first or cheaper than the one kept.  *)
Better == ct.best = 0 \/ ct.cand < ct.best

DropReplaced(h, q) == DestroySolutions(h, h.mem[q].next, 1)

(* Faulty variant: the pool of the plan replaced stays behind.             *)
FreeReplacedPoolNever(h, q) ==
  [h EXCEPT !.mem[q].ownsPool = FALSE, !.mem[q].pool = 0]

FreeReplacedPool(h, q) ==
  IF h.mem[q].ownsPool
  THEN [Free(h, h.mem[q].pool) EXCEPT !.mem[q].ownsPool = FALSE,
                                      !.mem[q].pool = 0]
  ELSE h

(* Faulty variant: the candidate's selector keeps its pool.                *)
TakeOverShared(h, q, c, m) ==
  [h EXCEPT !.mem[q].ownsPool = @ \/ h.mem[m].ownsPool,
            !.mem[m].next = 0, !.mem[c].next = 0]

(* The subtree and the pool of the adopted candidate now belong to Q.      *)
TakeOver(h, q, c, m) ==
  [h EXCEPT !.mem[q].ownsPool = @ \/ h.mem[m].ownsPool,
            !.mem[m].ownsPool = FALSE, !.mem[m].next = 0, !.mem[c].next = 0]

CtAdopt ==
  /\ pc = "decide" /\ Better
  /\ LET c  == SolOf(heap, ct.c)
         m  == SolOf(heap, ct.m)
         a2 == heap.mem[P].next
         bv == heap.mem[ct.org].bv # 0
         h1 == DropReplaced(heap, Q)
         h2 == CopySolutionObj(h1, P, c)
         h3 == [CopyStrides(h2, P, c) EXCEPT !.mem[P].next = a2]
         h4 == FreeReplacedPool(h3, Q)
         h5 == CopySolutionObj(h4, Q, m)
         h6 == TakeOver(CopyStrides(h5, Q, m), Q, c, m)
         fails == (IF bv THEN {CopySolutionObjFails(h1, P),
                               CopySolutionObjFails(h4, Q)} ELSE {})
                    \cup {CopyStridesFails(h2, P)}
                    \cup (IF heap.mem[m].strides # 0
                          THEN {CopyStridesFails(h5, Q)} ELSE {})
     IN  \/ /\ heap' = h6
            /\ pc' = "radix"
            /\ ct' = [ct EXCEPT !.best = ct.cand, !.adopted = TRUE,
                                !.costs = Append(@, ct.cand)]
            /\ UNCHANGED ret
         \/ /\ Mishandled
            /\ heap' \in fails
            /\ pc' = "ctExit" /\ ret' = "failure" /\ UNCHANGED ct
  /\ UNCHANGED prob

(* What a rejected candidate has hung below c and m, its strides and its   *)
(* pool are freed; the two selectors are used again.                       *)
ClearRejected(h, x) ==
  LET node  == h.mem[x]
      below == DestroySolutions(h, node.next, 1)
      pool  == IF node.ownsPool THEN Free(below, node.pool) ELSE below
  IN  [Free(pool, node.strides) EXCEPT !.mem[x].next = 0,
                                       !.mem[x].strides = 0,
                                       !.mem[x].ownsPool = FALSE]

CtDiscard ==
  /\ pc = "decide" /\ ~Better
  /\ heap' = ClearRejected(ClearRejected(heap, SolOf(heap, ct.c)),
                           SolOf(heap, ct.m))
  /\ ct' = [ct EXCEPT !.adopted = FALSE, !.costs = Append(@, ct.cand)]
  /\ pc' = "radix"
  /\ UNCHANGED <<ret, prob>>

(* Faulty variant: the copy of the node is freed and still referred to.    *)
CtExitStale ==
  /\ pc = "ctExit"
  /\ heap' = DestroySolution(DestroySelector(DestroySelector(heap, ct.c), ct.m),
                             ct.org)
  /\ ct' = [ct EXCEPT !.c = 0, !.m = 0]
  /\ pc' = "selected"
  /\ UNCHANGED <<ret, prob>>

CtExit ==
  /\ pc = "ctExit"
  /\ heap' = DestroySolution(DestroySelector(DestroySelector(heap, ct.c), ct.m),
                             ct.org)
  /\ ct' = [ct EXCEPT !.org = 0, !.c = 0, !.m = 0]
  /\ pc' = "selected"
  /\ UNCHANGED <<ret, prob>>

CtNext == \/ CtPrepare \/ CtRenew \/ CtSetup \/ CtNoMore \/ CtFused
          \/ CtSelectM \/ CtSelectR \/ CtAdopt \/ CtDiscard \/ CtExit
=============================================================================
