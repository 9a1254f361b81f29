------------------------------ MODULE PlanHeap ------------------------------
(***************************************************************************)
(* The memory a plan is made of, and the functions of the memory manager   *)
(* that free it.  A heap is a value [mem, misused]: mem[x] is the block    *)
(* allocated x-th, 0 stands for NULL.  misused becomes TRUE when a block is *)
(* freed a second time or read after it was freed.                         *)
(*                                                                         *)
(* Every block has the same fields, most of them blank.  A solution (node  *)
(* of the plan) uses type, n (thread_info.n_threads), bv (batched_vecs),   *)
(* strides (strides_grp), pool and ownsPool (ct_buffer, ct_buf_allocated),  *)
(* aux, slot and ownsAux (aux_buffer_1/2, the thread's slot in them,       *)
(* is_aux_buffer_allocated), nd (nd_sol), next (next_sol), in and out (the *)
(* auxiliary buffer a real direct stage reads and writes).  An array of    *)
(* solutions and a selector object keep what they point to in kids; the    *)
(* selector's aux is exec_metadata.                                        *)
(*                                                                         *)
(* filled is no field of the program: the candidate radix whose data a     *)
(* solution holds, 0 while copy_solution_obj has not been called on it.    *)
(***************************************************************************)
EXTENDS Integers, Sequences, SequencesExt, FiniteSets

CONSTANTS Mishandled   \* do allocations fail where the code mishandles it

VARIABLES heap,  \* the plan's memory
          pc,    \* where setup is
          ret,   \* status of the selector: "ok" or "failure"
          prob   \* the problem (see SetupMemory)

Blank == [live |-> TRUE, kids |-> <<>>, type |-> "NULL", n |-> 1, bv |-> 0,
          strides |-> 0, pool |-> 0, ownsPool |-> FALSE, aux |-> 0,
          slot |-> 0, ownsAux |-> FALSE, nd |-> 0, next |-> 0,
          in |-> <<>>, out |-> <<>>, filled |-> 0]

EmptyHeap == [mem |-> <<>>, misused |-> FALSE]

Live(h) == {x \in DOMAIN h.mem : h.mem[x].live}

(* Allocation: the new block is the last one.                              *)
New(h, block) == [h EXCEPT !.mem = Append(@, block)]
Last1(h) == Len(h.mem)

Put(h, x, node) == [h EXCEPT !.mem[x] = node]
Misuse(h) == [h EXCEPT !.misused = TRUE]

(* free(): NULL is ignored.                                                *)
Free(h, x) ==
  IF x = 0 THEN h
  ELSE IF h.mem[x].live THEN [h EXCEPT !.mem[x].live = FALSE] ELSE Misuse(h)

FreeAll(h, xs) == FoldLeft(Free, h, xs)

(* alloc_selector: the object and its solution, the object last.           *)
NewSelector(h) ==
  New(New(h, Blank), [Blank EXCEPT !.kids = <<Last1(h) + 1>>])

(* How many entries of next_sol the destructors visit.                     *)
Width(node) == IF node.type = "REAL_MT_BATCHED" THEN node.n ELSE 1

OwnedBlocks(node) ==
  <<node.bv, node.strides>> \o (IF node.ownsPool THEN <<node.pool>> ELSE <<>>)

HasAux(node) == \/ node.type = "REAL_BUFFERED" /\ node.ownsAux
                \/ node.type = "REAL_NDIM"

AuxBlocks(node) == IF HasAux(node) THEN <<node.aux>> ELSE <<>>

(* destroy_solution and destroy_solutions: of the entries of an array only *)
(* the first frees what the copies of a real N-dimensional node share.     *)
RECURSIVE DestroySolution(_, _), DestroySolutions(_, _, _)

DestroySolution(h, x) ==
  IF x = 0 THEN h
  ELSE IF ~h.mem[x].live THEN Misuse(h)
  ELSE LET node == h.mem[x]
           own  == FreeAll(h, OwnedBlocks(node) \o AuxBlocks(node))
           nd   == DestroySolution(own, node.nd)
       IN  Free(DestroySolutions(nd, node.next, Width(node)), x)

DestroySolutions(h, a, n) ==
  IF a = 0 THEN h
  ELSE IF ~h.mem[a].live THEN Misuse(h)
  ELSE
    LET kids == h.mem[a].kids
        Clone(g, x) ==
          LET node  == g.mem[x]
              next  == DestroySolutions(g, node.next, Width(node))
              owner == x = kids[1]
              own   == FreeAll(next, OwnedBlocks(node))
              aux   == IF node.type = "REAL_NDIM" /\ ~owner THEN own
                       ELSE FreeAll(own, AuxBlocks(node))
              nd    == IF node.type = "NDIM" \/ (node.type = "REAL_NDIM" /\ owner)
                       THEN DestroySolution(aux, node.nd) ELSE aux
          IN  Free(nd, x)
        One(g, x) == IF x = 0 THEN g
                     ELSE IF g.mem[x].live THEN Clone(g, x) ELSE Misuse(g)
    IN  Free(FoldLeft(One, h, [k \in 1 .. n |-> kids[k]]), a)

(* destroy_selector_without_solution and destroy_selector.                 *)
DestroyWrapper(h, x) ==
  IF x = 0 THEN h ELSE Free(Free(h, h.mem[x].aux), x)

DestroySelector(h, x) ==
  IF x = 0 THEN h
  ELSE DestroyWrapper(DestroySolution(h, h.mem[x].kids[1]), x)

(* copy_solution_obj: the pointers of the source replace those of the      *)
(* target, except the ones that say who owns them; batched_vecs is copied  *)
(* into a block of its own when the source has one.                        *)
CopyFields(to, from) ==
  [to EXCEPT !.type = from.type, !.n = from.n, !.pool = from.pool,
             !.aux = from.aux, !.slot = from.slot, !.next = from.next,
             !.in = from.in, !.out = from.out, !.filled = from.filled]

CopySolutionObj(h, to, from) ==
  IF h.mem[from].bv = 0
  THEN Put(h, to, CopyFields(h.mem[to], h.mem[from]))
  ELSE LET freed == Free(h, h.mem[to].bv)
           copy  == New(freed, Blank)
       IN  Put(copy, to, [CopyFields(copy.mem[to], copy.mem[from])
                            EXCEPT !.bv = Last1(copy)])

(* The same call when the block for batched_vecs cannot be had: nothing    *)
(* after it is copied, next_sol least of all.                              *)
CopySolutionObjFails(h, to) ==
  LET freed == Free(h, h.mem[to].bv) IN [freed EXCEPT !.mem[to].bv = 0]

(* copy_strides.                                                           *)
CopyStrides(h, to, from) ==
  IF h.mem[from].strides = 0 THEN h
  ELSE LET copy == New(Free(h, h.mem[to].strides), Blank)
       IN  [copy EXCEPT !.mem[to].strides = Last1(copy)]

CopyStridesFails(h, to) ==
  LET freed == Free(h, h.mem[to].strides) IN [freed EXCEPT !.mem[to].strides = 0]

(* The first entry of a next_sol array, 0 when there is none.              *)
Child(h, x) ==
  IF x = 0 \/ h.mem[x].next = 0 THEN 0 ELSE h.mem[h.mem[x].next].kids[1]

(* What a selector or a node points to, and everything reached from it.    *)
PointsTo(node) ==
  {node.bv, node.strides, node.pool, node.aux, node.nd, node.next}
    \cup {node.kids[k] : k \in DOMAIN node.kids}

RECURSIVE Reach(_, _)
Reach(h, xs) ==
  LET more == xs \cup (UNION {PointsTo(h.mem[x]) : x \in xs} \ {0})
  IN  IF more = xs THEN xs ELSE Reach(h, more)
=============================================================================
