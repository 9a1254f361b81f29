----------------------------- MODULE ScratchPool -----------------------------
(***************************************************************************)
(* How the solvers of one plan share scratch memory while they run in      *)
(* parallel.  Every node of a plan has a ct_buf_size.  A multi-threaded    *)
(* batched solver gives thread tid the part of the pool that starts tid    *)
(* times the child's ct_buf_size after its own (ct_offset), and the slot   *)
(* bs_slot_idx * n_threads + tid of the Bluestein pools.  Nothing but this *)
(* arithmetic keeps the threads apart.                                     *)
(*                                                                         *)
(* The plans are parameters: ScratchPlans models the setup that builds     *)
(* them, and SizesFit says what execution expects of their sizes.          *)
(***************************************************************************)
EXTENDS Integers, SequencesExt

(* A plan is [length, node]: the length of the pool setup allocated, and    *)
(* its nodes, each at the way to it, the sequence of the children taken     *)
(* from the root.                                                           *)
CONSTANT Roots

Parallel == {"MT_BATCHED", "REAL_MT_BATCHED"}
Solvers == Parallel \cup {"BATCHED", "NDIM", "BUFFERED", "CT", "CTL1D", "DIRECT", "BLUESTEIN",
                          "REAL_LINE", "REAL_NDIM"}

(* As far as execution reads a node: the solver, the n threads of a parallel*)
(* loop, active_threads, ct_buf_size, the length it uses itself, the number *)
(* of its children, and the stretch of the pool it and they touch.          *)
NodeType(p) ==
    /\ p.solver \in Solvers
    /\ p.n \in Nat \ {0} /\ p.act \in Nat \ {0}
    /\ p.ct \in Nat /\ p.use \in Nat /\ p.kids \in Nat /\ p.stretch \in Nat
    /\ p.solver \in Parallel \cup {"BATCHED", "BUFFERED", "CT"} => p.kids = 1
    /\ p.solver \in {"CTL1D", "BLUESTEIN"} => p.kids = 0
    /\ p.solver \notin Parallel => p.n = 1
    /\ p.solver \in {"BUFFERED", "CTL1D"} => p.use > 0

PlanType(r) ==
    /\ r.length \in Nat
    /\ <<>> \in DOMAIN r.node
    /\ \A way \in DOMAIN r.node :
        /\ NodeType(r.node[way])
        /\ \A c \in 1 .. r.node[way].kids : Append(way, c) \in DOMAIN r.node
ASSUME PlansTyped == \A r \in Roots : PlanType(r)

-----------------------------------------------------------------------------
(* A run of a solver is named by the way to it from the root: the child     *)
(* taken and the thread that takes it, at every node.                       *)

VARIABLES
    root,  \* the plan
    runs   \* the runs in progress: [off, slot, out, step] of each

vars == <<root, runs>>

Way(c, tid) == [child |-> c, tid |-> tid]
Children(w) == [i \in 1..Len(w) |-> w[i].child]
Node(w) == root.node[Children(w)]
Child(w, c) == root.node[Append(Children(w), c)]
Caller(w) == SubSeq(w, 1, Len(w) - 1)
Idle(w) == \A u \in DOMAIN runs : u # <<>> => Caller(u) # w

(* out: whether the run writes to the caller's output or to scratch memory. *)
Init ==
    /\ root \in Roots
    /\ runs = [w \in {<<>>} |-> [off |-> 0, slot |-> 0, out |-> "output", step |-> 0]]

(* Faulty variant: the slots of nested loops are added, not interleaved.    *)
ThreadCtxAddsSlots(f, n, ct, tid) == [f EXCEPT !.off = @ + tid * ct, !.slot = @ + tid]

(* Faulty variant: thread 0 does not work in the caller's own part.         *)
ThreadCtxNextPart(f, n, ct, tid) == [f EXCEPT !.off = @ + (tid + 1) * ct, !.slot = @ * n + tid]

(* The context a batched solver of n threads hands to thread tid, whose part*)
(* of the pool has the child's ct_buf_size.                                 *)
ThreadCtx(f, n, ct, tid) == [f EXCEPT !.off = @ + tid * ct, !.slot = @ * n + tid]

(* The context a solver hands to its child: the buffered solver makes the   *)
(* child's output its scratch.                                              *)
ChildCtx(f, p, kid, tid) ==
    CASE p.solver \in Parallel -> ThreadCtx(f, p.n, kid.ct, tid)
      [] p.solver = "BUFFERED" -> [f EXCEPT !.out = "scratch"]
      [] OTHER -> f

Started(f, p, kid, tid) == [ChildCtx(f, p, kid, tid) EXCEPT !.step = 0]

(* A run calls its next child: the multi-threaded batched solver from a team*)
(* of as many threads as OpenMP gives it, at most n.  The transforms of one *)
(* batched loop repeat the same calls and stand for one.                    *)
Call(w) ==
    LET f == runs[w]
        c == f.step + 1
    IN  /\ Idle(w) /\ f.step < Node(w).kids
        /\ \E k \in 1 .. Node(w).n :
             LET team == {Append(w, Way(c, t)) : t \in 0 .. k - 1} IN
             runs' = [u \in DOMAIN runs \cup team |->
                        IF u = w THEN [f EXCEPT !.step = c]
                        ELSE IF u \in team THEN Started(f, Node(w), Child(w, c), Last(u).tid)
                        ELSE runs[u]]
        /\ UNCHANGED root

(* Faulty variant: a run does not wait for the last team it called.         *)
ReturnNoWait(w) ==
    /\ runs[w].step = Node(w).kids
    /\ runs' = [u \in DOMAIN runs \ {w} |-> runs[u]]
    /\ UNCHANGED root

(* A run whose children have all been called and have returned returns.     *)
Return(w) ==
    /\ Idle(w) /\ runs[w].step = Node(w).kids
    /\ runs' = [u \in DOMAIN runs \ {w} |-> runs[u]]
    /\ UNCHANGED root

Done == DOMAIN runs = {} /\ UNCHANGED vars

Next == Done \/ \E w \in DOMAIN runs : Call(w) \/ Return(w)

Spec == Init /\ [][Next]_vars

-----------------------------------------------------------------------------
(* What a run holds: a stretch of the ct pool, or a slot of the Bluestein   *)
(* node.  A Cooley-Tukey run reads its radix-m half's slice until it ends.  *)
Ct(f, len) == {[pool |-> <<>>, from |-> f.off, len |-> len]}

Held(w) ==
    LET f == runs[w]
        p == Node(w)
    IN  CASE p.solver = "BUFFERED" -> Ct(f, p.use)
          [] p.solver = "CT" /\ f.step = 1 /\ Idle(w) /\ Child(w, 1).solver = "BUFFERED" ->
                Ct(f, Child(w, 1).use)
          [] p.solver = "CTL1D" /\ f.out = "output" -> Ct(f, p.use)
          [] p.solver = "BLUESTEIN" -> {[pool |-> <<"bs">> \o Children(w), from |-> f.slot, len |-> 1]}
          [] OTHER -> {}

(* Every variable keeps its type; a run in progress has its caller waiting  *)
(* for it (the call stacks of the solvers).                                 *)
RunType == [off : Nat, slot : Nat, out : {"output", "scratch"}, step : Nat]

TypeOK ==
    /\ PlanType(root)
    /\ \A w \in DOMAIN runs :
        /\ runs[w] \in RunType
        /\ Children(w) \in DOMAIN root.node
        /\ runs[w].step <= Node(w).kids
        /\ w # <<>> => Caller(w) \in DOMAIN runs

(* Solvers that run at the same time hold disjoint stretches of the scratch *)
(* pools, at whatever depth the parallel loops above them are nested        *)
(* (ct_offset and bs_slot_idx of execute_mt_batched_solver_internal).       *)
Disjoint(a, b) == a.pool = b.pool => a.from + a.len <= b.from \/ b.from + b.len <= a.from

Apart ==
    LET held == [w \in DOMAIN runs |-> Held(w)] IN
    \A w, u \in DOMAIN runs : w # u => \A a \in held[w], b \in held[u] : Disjoint(a, b)

(* What a solver holds lies inside the pool setup allocated (the sizes of   *)
(* alloc_ndim_buffer, setup_buffered_solver, setup_batched_ct_l1_direct_    *)
(* solver and the Bluestein slots of compute_exec_metadata).                *)
InPool ==
    \A w \in DOMAIN runs : \A a \in Held(w) :
        a.from + a.len <= IF a.pool = <<>> THEN root.length ELSE Node(w).act

-----------------------------------------------------------------------------
(* What execution needs of the sizes of a node p and its child k: the part  *)
(* the child touches, or those of the threads of a parallel loop side by    *)
(* side, within what the node was counted for, each within the child's      *)
(* ct_buf_size; and active_threads counts every instance of the child.      *)
ChildFits(p, k) ==
    /\ p.act * p.n <= k.act
    /\ p.solver # "BUFFERED" => (p.n - 1) * k.ct + k.stretch <= p.stretch \/ k.stretch = 0
    /\ p.n > 1 => k.stretch <= k.ct

(* A run whose output is scratch memory takes no more of it.                *)
Fits(w) ==
    LET p == Node(w)
        kids == {Child(w, c) : c \in 1 .. p.kids}
    IN  /\ \A q \in {p} \cup kids : q.solver \in {"BUFFERED", "CTL1D"} => q.use <= q.stretch
        /\ \A k \in kids : ChildFits(p, k)
        /\ runs[w].out = "scratch" => \A q \in {p} \cup kids : q.solver # "BUFFERED"

(* The sizes setup gives the nodes agree with one another and with the pool *)
(* it allocates: ct_buf_size and active_threads of selector_batched_dft,    *)
(* setup_ndim_solver and setup_buffered_solver, the total of                *)
(* compute_exec_metadata.                                                   *)
SizesFit ==
    /\ root.node[<<>>].stretch <= root.length
    /\ \A w \in DOMAIN runs : Fits(w)
=============================================================================
