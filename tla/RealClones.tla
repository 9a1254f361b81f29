----------------------------- MODULE RealClones -----------------------------
(***************************************************************************)
(* The last part of the setup of a real plan with threads.  The selectors  *)
(* built the tree of one thread; post_process_real_solution gives every    *)
(* multi-threaded batched node a copy of that tree for each of its other   *)
(* threads, the innermost node first.  The copies share the complex part   *)
(* of an N-dimensional node (nd_sol) and the auxiliary buffers, of which   *)
(* each takes slots of its own, and nothing else.                          *)
(*                                                                         *)
(* The two auxiliary buffers of a buffered node have the same slots and    *)
(* are one block here; its field n is the number of slots.                 *)
(***************************************************************************)
EXTENDS PlanHeap

VARIABLES mt   \* [todo, i]: batched nodes left, the thread being served

NoMt == [todo |-> <<>>, i |-> 0]

MaxOf(a, b) == IF a > b THEN a ELSE b

-----------------------------------------------------------------------------
(* The tree of one thread, as the real selectors leave it.  A problem      *)
(* gives the types of the nodes along next_sol, the number of threads of   *)
(* its batched nodes and whether the N-dimensional node needs a buffer.    *)

IsDirect(node) == node.type = "REAL_DIRECT"

(* update_ct_buffers: stage s of the chain, counted from 0; the ends are   *)
(* set by the buffered solver for every batch.                             *)
StageIn(s, slot)  == IF s = 0 THEN <<"problem">>
                     ELSE <<IF s % 2 = 1 THEN "aux2" ELSE "aux1", slot>>
StageOut(s, last, slot) == IF s = last THEN <<"problem">>
                           ELSE <<IF s % 2 = 1 THEN "aux1" ELSE "aux2", slot>>

Threads(shape, k) ==
  IF shape.types[k] = "REAL_MT_BATCHED" THEN shape.threads[k] ELSE 1

(* active_threads: the invocations of node k that may run at a time.       *)
Active(shape, k) ==
  FoldLeft(LAMBDA a, j : a * Threads(shape, j), 1, [j \in 1 .. k - 1 |-> j])

Directs(shape) == SelectSeq([k \in DOMAIN shape.types |-> k],
                            LAMBDA k : shape.types[k] = "REAL_DIRECT")
Stage(shape, k) ==
  Cardinality({j \in 1 .. k - 1 : shape.types[j] = "REAL_DIRECT"})

(* What node k of the template has besides its child.                      *)
Equip(h, shape, k, x, aux) ==
  LET type  == shape.types[k]
      typed == [h EXCEPT !.mem[x].type = type, !.mem[x].n = Threads(shape, k),
                         !.mem[x].aux = aux, !.mem[x].filled = 1]
      slots == [Blank EXCEPT !.n = Active(shape, k)]
      own   == New(typed, slots)
      inner == New(typed, [Blank EXCEPT !.type = "NDIM"])
      last  == Len(Directs(shape)) - 1
  IN  CASE type = "REAL_BUFFERED" ->
             [own EXCEPT !.mem[x].aux = Last1(own), !.mem[x].ownsAux = TRUE]
        [] type = "REAL_NDIM" ->
             LET nd == [inner EXCEPT !.mem[x].nd = Last1(inner)]
             IN  IF ~shape.buffer THEN nd
                 ELSE [New(nd, slots) EXCEPT !.mem[x].aux = Last1(nd) + 1]
        [] type = "REAL_DIRECT" ->
             LET s == New(typed, Blank)
             IN  [s EXCEPT !.mem[x].strides = Last1(s),
                           !.mem[x].in = StageIn(Stage(shape, k), 0),
                           !.mem[x].out = StageOut(Stage(shape, k), last, 0)]
        [] OTHER -> typed

(* The nodes from k on; aux is what the buffered node above them owns.     *)
RECURSIVE Grow(_, _, _, _, _)
Grow(h, shape, k, x, aux) ==
  LET node == Equip(h, shape, k, x, aux)
      arr  == New(node, [Blank EXCEPT !.kids = [j \in 1 .. Threads(shape, k) |-> 0]])
      kid  == New(arr, Blank)
      y    == Last1(kid)
      linked == [kid EXCEPT !.mem[x].next = Last1(arr),
                            !.mem[Last1(arr)].kids[1] = y]
      below == IF shape.types[k] = "REAL_NDIM" THEN aux ELSE node.mem[x].aux
  IN  IF k = Len(shape.types) THEN node ELSE Grow(linked, shape, k + 1, y, below)

-----------------------------------------------------------------------------
(* setup_buffered_chain_structure: the direct nodes below a buffered node  *)
(* hand their data on through its auxiliary buffers, changing sides.       *)
RECURSIVE Chain(_, _)
Chain(h, x) ==
  IF x = 0 THEN <<>>
  ELSE (IF IsDirect(h.mem[x]) THEN <<x>> ELSE <<>>) \o Chain(h, Child(h, x))

(* Faulty variant: a copied chain keeps the buffers of its source.         *)
SetupChainNever(h, b) == h

SetupChain(h, b) ==
  LET chain == Chain(h, b)
      slot  == h.mem[b].slot
      last  == Len(chain) - 1
      Wire(g, k) ==
        LET node == g.mem[chain[k]]
        IN  Put(g, chain[k],
              [node EXCEPT !.in  = IF k = 1 THEN @ ELSE StageIn(k - 1, slot),
                           !.out = IF k - 1 = last THEN @
                                   ELSE StageOut(k - 1, last, slot)])
  IN  FoldLeft(Wire, h, [k \in DOMAIN chain |-> k])

(* Faulty variant: the copies of an N-dimensional node share a slot.       *)
AuxSlotShared(node, base, h) ==
  IF node.type = "REAL_BUFFERED" THEN node.slot + base.aux ELSE node.slot

(* The slots of the auxiliary buffers a copy takes.                        *)
AuxSlot(node, base, h) ==
  IF node.type = "REAL_BUFFERED" THEN node.slot + base.aux
  ELSE IF node.type = "REAL_NDIM" /\ node.aux # 0 /\ 0 < base.ndim
                                  /\ base.ndim < h.mem[node.aux].n
  THEN node.slot + base.ndim ELSE node.slot

(* Where the copies of thread i of a node take their slots.                *)
Shift(node, base, i, perThread) ==
  IF node.type = "REAL_MT_BATCHED"
  THEN [aux |-> base.aux + i * perThread, ndim |-> base.ndim * node.n + i]
  ELSE base

(* deep_copy_real_solution_tree.  A call returns the heap, the copy (0 when *)
(* it failed), the slots the copy needs, the number of allocations left    *)
(* before one fails, and at what it failed.                                *)
Copied(st, x, slots) == [st EXCEPT !.copy = x, !.slots = slots]
Failed(st, h, what) ==
  [st EXCEPT !.heap = h, !.copy = 0, !.left = 0,
             !.failed = IF @ = "" THEN what ELSE @]

(* Leaving through exit_deep_copy: the copy made so far is destroyed.      *)
GiveUp(st, dst, what) == Failed(st, DestroySolution(st.heap, dst), what)

RECURSIVE DeepCopy(_, _, _), CopyKids(_, _, _, _, _, _)

DeepCopy(st, src, base) ==
  LET node  == st.heap.mem[src]
      h1    == New(st.heap, CopyFields(Blank, node))
      dst   == Last1(h1)
      need  == IF node.strides = 0 THEN 1 ELSE 2
      h2    == IF node.type = "REAL_NDIM" THEN [h1 EXCEPT !.mem[dst].nd = node.nd]
               ELSE h1
      h3    == [CopyStrides(h2, dst, src)
                  EXCEPT !.mem[dst].slot = AuxSlot(node, base, st.heap)]
      n     == Width(node)
      h4    == New(h3, [Blank EXCEPT !.kids = [k \in 1 .. n |-> 0]])
      h5    == [h4 EXCEPT !.mem[dst].next = Last1(h4)]
      after(k) == [st EXCEPT !.left = @ - k]
      Full(s) ==  \* the children are there: wire the chain, count the slots
        IF s.copy = 0 THEN s
        ELSE IF node.type = "REAL_BUFFERED"
        THEN Copied([s EXCEPT !.heap = SetupChain(@, dst)], dst, 1 + s.slots)
        ELSE Copied(s, dst, s.slots)
  IN  IF st.left = 0 THEN Failed(st, st.heap, "solution")
      ELSE IF st.left < need
      THEN GiveUp([st EXCEPT !.heap = h1], dst, "strides")
      ELSE IF node.next = 0
      THEN Full(Copied([after(need) EXCEPT !.heap = h3], dst, 0))
      ELSE IF st.left = need
      THEN GiveUp([st EXCEPT !.heap = [h3 EXCEPT !.mem[dst].next = 0]], dst, "array")
      ELSE Full(CopyKids([after(need + 1) EXCEPT !.heap = h5], src, dst, base, 0, 0))

CopyKids(st, src, dst, base, i, perThread) ==
  LET node == st.heap.mem[src]
      one  == DeepCopy(st, Child(st.heap, src), Shift(node, base, i, perThread))
      per  == IF i = 0 THEN one.slots ELSE perThread
      put  == [one EXCEPT
                 !.heap.mem[one.heap.mem[dst].next].kids[i + 1] = one.copy]
  IN  IF i = Width(node)
      THEN Copied(st, dst, Width(node) * perThread)
      ELSE IF one.copy = 0 THEN GiveUp(one, dst, "")
      ELSE CopyKids(put, src, dst, base, i + 1, per)

-----------------------------------------------------------------------------
(* post_process_real_solution.                                             *)
RECURSIVE Demand(_, _)
Demand(h, x) ==
  IF x = 0 THEN 0
  ELSE LET below == Demand(h, Child(h, x))
       IN  CASE h.mem[x].type = "REAL_MT_BATCHED" -> h.mem[x].n * below
             [] h.mem[x].type = "REAL_BUFFERED" -> MaxOf(1, below)
             [] OTHER -> below

RECURSIVE BatchedNodes(_, _)
BatchedNodes(h, x) ==   \* innermost first
  IF x = 0 THEN <<>>
  ELSE BatchedNodes(h, Child(h, x)) \o
       (IF h.mem[x].type = "REAL_MT_BATCHED" THEN <<x>> ELSE <<>>)

Unlimited == 1000       \* more allocations than any copy makes

Allocations(h, x) == Cardinality(Reach(h, {x}))

HasNd(h, x) == \E y \in Reach(h, {x}) : h.mem[y].type = "REAL_NDIM"

(* The copies undo a failed allocation of a node or of an array in trees   *)
(* without an N-dimensional node.                                          *)
Undone(st, x) == st.failed \in {"solution", "array"} /\ ~HasNd(heap, x)

PostProcess(root) ==
  /\ pc = "clones"
  /\ mt.todo = <<>>
  /\ IF mt.i = 0 /\ BatchedNodes(heap, root) # <<>>
     THEN mt' = [todo |-> BatchedNodes(heap, root), i |-> 1] /\ UNCHANGED pc
     ELSE pc' = "handle" /\ UNCHANGED mt
  /\ UNCHANGED <<heap, ret, prob>>

CloneThread ==
  /\ pc = "clones" /\ mt.todo # <<>>
  /\ LET x   == Head(mt.todo)
         src == Child(heap, x)
         st(left) == [heap |-> heap, copy |-> 0, slots |-> 0, left |-> left,
                      failed |-> ""]
     IN  \E left \in (0 .. Allocations(heap, src)) \cup {Unlimited} :
           LET r == DeepCopy(st(left), src,
                             [aux |-> mt.i * Demand(heap, src), ndim |-> mt.i])
           IN  IF r.copy # 0
               THEN /\ left = Unlimited
                    /\ heap' = [r.heap EXCEPT
                                  !.mem[heap.mem[x].next].kids[mt.i + 1] = r.copy]
                    /\ mt' = IF mt.i + 1 < heap.mem[x].n
                             THEN [mt EXCEPT !.i = @ + 1]
                             ELSE [todo |-> Tail(mt.todo), i |-> 1]
                    /\ UNCHANGED <<pc, ret>>
               ELSE /\ Mishandled \/ Undone(r, src)
                    /\ heap' = r.heap
                    /\ pc' = "destroy" /\ ret' = "failure"
                    /\ UNCHANGED mt
  /\ UNCHANGED prob

-----------------------------------------------------------------------------
Nodes(h, root, type) ==
  {x \in Reach(h, {root}) : h.mem[x].type = type}

(* The nodes and arrays of the copy that starts at x, and what they own.   *)
Unshared(h) ==
  [h EXCEPT !.mem = [k \in DOMAIN @ |-> [@[k] EXCEPT !.nd = 0, !.aux = 0]]]
Copy(h, x) == Reach(Unshared(h), {x})

(* No two threads' copies have a node, an array or strides in common, and  *)
(* the nodes that store into auxiliary buffers use different slots of      *)
(* them, all inside the buffers.                                           *)
ThreadsApart(h, root) ==
  /\ \A x \in Nodes(h, root, "REAL_MT_BATCHED") :
       LET kids == h.mem[h.mem[x].next].kids
       IN  \A i, j \in DOMAIN kids :
             i # j => Copy(h, kids[i]) \cap Copy(h, kids[j]) = {}
  /\ \A type \in {"REAL_BUFFERED", "REAL_NDIM"} :
       \A x, y \in Nodes(h, root, type) :
         h.mem[x].aux # 0 =>
           /\ h.mem[x].slot < h.mem[h.mem[x].aux].n
           /\ x # y => h.mem[x].slot # h.mem[y].slot

(* Below every buffered node the stages form a chain from the problem's    *)
(* input to its output in which each stage reads what the one before it    *)
(* wrote, in the slot of that buffered node.                               *)
StagesFeed(h, root) ==
  \A b \in Nodes(h, root, "REAL_BUFFERED") :
    LET chain == Chain(h, b)
        At(k) == h.mem[chain[k]]
    IN  /\ At(1).in = <<"problem">> /\ At(Len(chain)).out = <<"problem">>
        /\ \A k \in 1 .. Len(chain) - 1 :
             /\ At(k + 1).in = At(k).out
             /\ At(k).out[2] = h.mem[b].slot
             /\ k > 1 => At(k).out # At(k).in
=============================================================================
