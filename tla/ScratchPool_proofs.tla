------------------------- MODULE ScratchPool_proofs -------------------------
(***************************************************************************)
(* Proofs about the execution of any plan whose sizes fit: solvers that    *)
(* run at the same time hold disjoint scratch memory, inside the pool, at  *)
(* whatever depth the parallel loops are nested.  The sizes of the plans   *)
(* setup builds for problems of one dimension do fit (LinesFit).           *)
(***************************************************************************)
EXTENDS ScratchPool, ScratchPlans, FuseVecs_proofs, FiniteSetTheorems

-----------------------------------------------------------------------------
(* Ways                                                                     *)

Turn == [child : Nat, tid : Nat]

(* u is w or a run above it.                                                *)
Above(u, w) == \E i \in 0 .. Len(w) : u = SubSeq(w, 1, i)

LEMMA Prefix ==
    ASSUME NEW w \in Seq(Turn), NEW i \in 0 .. Len(w)
    PROVE  /\ SubSeq(w, 1, i) \in Seq(Turn)
           /\ Len(SubSeq(w, 1, i)) = i
           /\ \A j \in 1 .. i : SubSeq(w, 1, i)[j] = w[j]
<1>1. Len(w) \in Nat /\ \A j \in 1 .. Len(w) : w[j] \in Turn
  BY LenProperties, ElementOfSeq
<1>2. i \in Int /\ 1 \in Int /\ \A j \in 1 .. i : w[j] \in Turn
  BY <1>1
<1>3. i \in Nat
  BY <1>1
<1> QED BY <1>2, <1>3, SubSeqProperties

(* Two ways of the same turns are the same.                                 *)
LEMMA SameWay ==
    ASSUME NEW u \in Seq(Turn), NEW w \in Seq(Turn), Len(u) = Len(w),
           \A j \in 1 .. Len(u) : u[j] = w[j]
    PROVE  u = w
  BY SeqEqual

LEMMA PrefixOfPrefix ==
    ASSUME NEW w \in Seq(Turn), NEW i \in 0 .. Len(w), NEW j \in 0 .. i
    PROVE  SubSeq(SubSeq(w, 1, i), 1, j) = SubSeq(w, 1, j)
<1> DEFINE v == SubSeq(w, 1, i)
<1>1. Len(w) \in Nat
  BY LenProperties
<1>2. v \in Seq(Turn) /\ Len(v) = i /\ \A k \in 1 .. i : v[k] = w[k]
  BY Prefix
<1>3. j \in 0 .. Len(v) /\ j \in 0 .. Len(w) /\ 1 .. j \subseteq 1 .. i
  BY <1>1, <1>2
<1>4. /\ SubSeq(v, 1, j) \in Seq(Turn) /\ Len(SubSeq(v, 1, j)) = j
      /\ \A k \in 1 .. j : SubSeq(v, 1, j)[k] = v[k]
  <2> HIDE DEF v
  <2> QED BY <1>2, <1>3, Prefix
<1>5. /\ SubSeq(w, 1, j) \in Seq(Turn) /\ Len(SubSeq(w, 1, j)) = j
      /\ \A k \in 1 .. j : SubSeq(w, 1, j)[k] = w[k]
  BY <1>3, Prefix
<1> HIDE DEF v
<1>6. \A k \in 1 .. j : SubSeq(v, 1, j)[k] = SubSeq(w, 1, j)[k]
  BY <1>2, <1>3, <1>4, <1>5
<1> QED BY <1>4, <1>5, <1>6, SameWay DEF v

(* One turn more.                                                           *)
LEMMA Longer ==
    ASSUME NEW w \in Seq(Turn), NEW x \in Turn
    PROVE  LET v == Append(w, x) IN
           /\ v \in Seq(Turn) /\ v # <<>> /\ Len(v) = Len(w) + 1
           /\ v[Len(w) + 1] = x /\ Last(v) = x
           /\ \A i \in 0 .. Len(w) : SubSeq(v, 1, i) = SubSeq(w, 1, i)
           /\ SubSeq(v, 1, Len(w) + 1) = v
           /\ Caller(v) = w
<1> DEFINE v == Append(w, x)
<1>1. Len(w) \in Nat
  BY LenProperties
<1>2. /\ v \in Seq(Turn) /\ v # <<>> /\ Len(v) = Len(w) + 1
      /\ \A j \in 1 .. Len(w) : v[j] = w[j]
      /\ v[Len(w) + 1] = x
  BY AppendProperties
<1> HIDE DEF v
<1>3. ASSUME NEW i \in 0 .. Len(w) PROVE SubSeq(v, 1, i) = SubSeq(w, 1, i)
  <2>1. i \in 0 .. Len(v) /\ 1 .. i \subseteq 1 .. Len(w)
    BY <1>1, <1>2
  <2>2. /\ SubSeq(v, 1, i) \in Seq(Turn) /\ Len(SubSeq(v, 1, i)) = i
        /\ \A k \in 1 .. i : SubSeq(v, 1, i)[k] = v[k]
    BY <1>2, <2>1, Prefix
  <2>3. /\ SubSeq(w, 1, i) \in Seq(Turn) /\ Len(SubSeq(w, 1, i)) = i
        /\ \A k \in 1 .. i : SubSeq(w, 1, i)[k] = w[k]
    BY Prefix
  <2>4. \A k \in 1 .. i : SubSeq(v, 1, i)[k] = SubSeq(w, 1, i)[k]
    BY <1>2, <2>1, <2>2, <2>3
  <2> QED BY <2>2, <2>3, <2>4, SameWay
<1>4. SubSeq(v, 1, Len(w) + 1) = v
  BY <1>2, SubSeqFull
<1>5. SubSeq(w, 1, Len(w)) = w
  BY SubSeqFull
<1>6. (Len(w) + 1) - 1 = Len(w) /\ Len(w) \in 0 .. Len(w)
  BY <1>1
<1>7. Caller(v) = w
  BY <1>2, <1>3, <1>5, <1>6 DEF Caller
<1>8. Last(v) = x
  BY <1>2 DEF Last
<1> QED BY <1>2, <1>3, <1>4, <1>7, <1>8 DEF v

(* A way that is not empty is its caller's way and one turn more.           *)
LEMMA Shorter ==
    ASSUME NEW w \in Seq(Turn), w # <<>>
    PROVE  /\ Caller(w) \in Seq(Turn)
           /\ Len(w) \in Nat \ {0} /\ w[Len(w)] \in Turn
           /\ w = Append(Caller(w), w[Len(w)])
<1>1. PICK s \in Seq(Turn), x \in Turn : w = Append(s, x)
  BY SequenceEmptyOrAppend
<1>2. Len(s) \in Nat
  BY LenProperties
<1> QED BY <1>1, <1>2, Longer

(* The children taken on a way one turn longer.                             *)
LEMMA ChildrenOf ==
    ASSUME NEW w \in Seq(Turn)
    PROVE  Children(w) \in Seq(Nat) /\ Len(Children(w)) = Len(w)
<1>1. Len(w) \in Nat /\ \A j \in 1 .. Len(w) : w[j] \in Turn
  BY LenProperties, ElementOfSeq
<1>2. \A j \in 1 .. Len(w) : w[j].child \in Nat
  BY <1>1 DEF Turn
<1>3. Children(w) \in Seq(Nat)
  BY <1>1, <1>2, IsASeq DEF Children
<1>4. Len(Children(w)) = Len(w)
  BY <1>1 DEF Children
<1> QED BY <1>3, <1>4

LEMMA ChildrenLonger ==
    ASSUME NEW w \in Seq(Turn), NEW x \in Turn
    PROVE  Children(Append(w, x)) = Append(Children(w), x.child)
<1> DEFINE v == Append(w, x)
<1>1. /\ v \in Seq(Turn) /\ Len(v) = Len(w) + 1 /\ Len(w) \in Nat
      /\ \A j \in 1 .. Len(w) : v[j] = w[j]
      /\ v[Len(w) + 1] = x
  BY AppendProperties, LenProperties
<1>2. x.child \in Nat
  BY DEF Turn
<1>3. Children(w) \in Seq(Nat) /\ Len(Children(w)) = Len(w)
  BY ChildrenOf
<1>4. /\ Append(Children(w), x.child) \in Seq(Nat)
      /\ Len(Append(Children(w), x.child)) = Len(w) + 1
      /\ \A j \in 1 .. Len(w) : Append(Children(w), x.child)[j] = Children(w)[j]
      /\ Append(Children(w), x.child)[Len(w) + 1] = x.child
  BY <1>2, <1>3, AppendProperties
<1> HIDE DEF v
<1>5. Children(v) \in Seq(Nat) /\ Len(Children(v)) = Len(w) + 1
  BY <1>1, ChildrenOf
<1>6. \A j \in 1 .. Len(w) : Children(v)[j] = w[j].child /\ Children(w)[j] = w[j].child
  BY <1>1 DEF Children
<1>7. Children(v)[Len(w) + 1] = x.child
  BY <1>1 DEF Children
<1>8. \A j \in 1 .. Len(w) + 1 : Children(v)[j] = Append(Children(w), x.child)[j]
  BY <1>1, <1>4, <1>6, <1>7
<1> QED BY <1>4, <1>5, <1>8, SeqEqual DEF v

-----------------------------------------------------------------------------
(* The call stacks                                                          *)

(* Every run has its type and its place in the plan, and its callers, all   *)
(* the way up, are in progress; the nearest has children.                   *)
OnStack(w) ==
    /\ w \in Seq(Turn)
    /\ Children(w) \in DOMAIN root.node
    /\ runs[w] \in RunType
    /\ runs[w].step <= Node(w).kids
    /\ \A i \in 0 .. Len(w) : SubSeq(w, 1, i) \in DOMAIN runs
    /\ w # <<>> => Node(Caller(w)).kids > 0

CallStack == root \in Roots /\ \A w \in DOMAIN runs : OnStack(w)

LEMMA NodesTyped ==
    ASSUME CallStack, NEW w \in DOMAIN runs
    PROVE  /\ NodeType(Node(w))
           /\ \A c \in 1 .. Node(w).kids : /\ NodeType(Child(w, c))
                                          /\ Append(Children(w), c) \in DOMAIN root.node
<1>1. PlanType(root) /\ Children(w) \in DOMAIN root.node
  BY PlansTyped DEF CallStack, OnStack
<1> QED BY <1>1 DEF PlanType, Node, Child

(* The run a child starts with: its part of the pool, its slot, its output. *)
LEMMA StartedRun ==
    ASSUME NEW f \in RunType, NEW p, NodeType(p), NEW k, NodeType(k), NEW t \in 0 .. p.n - 1
    PROVE  LET g == Started(f, p, k, t) IN
           /\ g \in RunType
           /\ g.off = f.off + t * k.ct
           /\ g.slot = f.slot * p.n + t
           /\ g.step = 0
           /\ g.out = IF p.solver = "BUFFERED" THEN "scratch" ELSE f.out
<1>1. /\ f.off \in Nat /\ f.slot \in Nat /\ f.out \in {"output", "scratch"} /\ f.step \in Nat
      /\ f = [off |-> f.off, slot |-> f.slot, out |-> f.out, step |-> f.step]
  BY DEF RunType
<1>2. p.n \in Nat \ {0} /\ k.ct \in Nat /\ (p.solver \notin Parallel => p.n = 1)
  BY DEF NodeType
<1>3. CASE p.solver \in Parallel
  <2>1. p.solver # "BUFFERED"
    BY <1>3 DEF Parallel
  <2>2. ChildCtx(f, p, k, t) = ThreadCtx(f, p.n, k.ct, t)
    BY <1>3, <2>1 DEF ChildCtx
  <2>3. ChildCtx(f, p, k, t) = [off |-> f.off + t * k.ct, slot |-> f.slot * p.n + t,
                                out |-> f.out, step |-> f.step]
    BY <1>1, <2>2 DEF ThreadCtx
  <2>4. f.off + t * k.ct \in Nat /\ f.slot * p.n + t \in Nat
    BY <1>1, <1>2
  <2> QED BY <1>1, <2>1, <2>3, <2>4 DEF Started, RunType
<1>4. CASE p.solver \notin Parallel
  <2>1. t = 0 /\ p.n = 1
    BY <1>2, <1>4
  <2>2. f.off + t * k.ct = f.off /\ f.slot * p.n + t = f.slot
    BY <1>1, <1>2, <2>1
  <2>3. CASE p.solver = "BUFFERED"
    <3>1. ChildCtx(f, p, k, t) = [f EXCEPT !.out = "scratch"]
      BY <1>4, <2>3, Zenon DEF ChildCtx
    <3> QED BY <1>1, <2>2, <2>3, <3>1 DEF Started, RunType
  <2>4. CASE p.solver # "BUFFERED"
    <3>1. ChildCtx(f, p, k, t) = f
      BY <1>4, <2>4, Zenon DEF ChildCtx
    <3> QED BY <1>1, <2>2, <2>4, <3>1 DEF Started, RunType
  <2> QED BY <2>3, <2>4
<1> QED BY <1>3, <1>4

(* u is a run that w has just started, for thread t.                        *)
Begun(u, w, t) ==
    /\ u = Append(w, Way(runs[w].step + 1, t))
    /\ runs'[u] = Started(runs[w], Node(w), Child(w, runs[w].step + 1), t)

LEMMA CallEffect ==
    ASSUME CallStack, NEW w \in DOMAIN runs, Call(w)
    PROVE  /\ root' = root /\ Idle(w) /\ runs[w].step + 1 \in 1 .. Node(w).kids
           /\ DOMAIN runs \subseteq DOMAIN runs'
           /\ runs'[w] = [runs[w] EXCEPT !.step = runs[w].step + 1]
           /\ \A u \in DOMAIN runs : u # w => runs'[u] = runs[u]
           /\ \A u \in DOMAIN runs' \ DOMAIN runs : \E t \in 0 .. Node(w).n - 1 : Begun(u, w, t)
<1> DEFINE c == runs[w].step + 1
           team(k) == {Append(w, Way(c, t)) : t \in 0 .. k - 1}
<1>1. w \in Seq(Turn) /\ runs[w].step \in Nat /\ \A u \in DOMAIN runs : u \in Seq(Turn)
  BY DEF CallStack, OnStack, RunType
<1>2. NodeType(Node(w))
  BY NodesTyped
<1>3. root' = root /\ Idle(w) /\ runs[w].step < Node(w).kids
  BY DEF Call
<1>4. PICK k \in 1 .. Node(w).n :
          runs' = [u \in DOMAIN runs \cup team(k) |->
                     IF u = w THEN [runs[w] EXCEPT !.step = c]
                     ELSE IF u \in team(k) THEN Started(runs[w], Node(w), Child(w, c), Last(u).tid)
                     ELSE runs[u]]
  BY DEF Call
<1>5. c \in Nat
  BY <1>1
<1>6. \A t \in 0 .. k - 1 : t \in Nat /\ t \in 0 .. Node(w).n - 1 /\ Way(c, t) \in Turn /\ Way(c, t).tid = t
  BY <1>2, <1>5 DEF NodeType, Way, Turn
<1>7. \A t \in 0 .. k - 1 : LET v == Append(w, Way(c, t)) IN
          v # <<>> /\ Caller(v) = w /\ Last(v) = Way(c, t) /\ v # w
  <2> SUFFICES ASSUME NEW t \in 0 .. k - 1
               PROVE  LET v == Append(w, Way(c, t)) IN
                      v # <<>> /\ Caller(v) = w /\ Last(v) = Way(c, t) /\ v # w
    OBVIOUS
  <2>1. Len(w) \in Nat /\ Way(c, t) \in Turn
    BY <1>1, <1>6, LenProperties
  <2> HIDE DEF c
  <2> QED BY <1>1, <2>1, Longer
<1>8. team(k) \cap DOMAIN runs = {}
  BY <1>3, <1>7 DEF Idle
<1> HIDE DEF team
<1>9. \A u \in DOMAIN runs : u # w => runs'[u] = runs[u]
  BY <1>4, <1>8
<1>10. ASSUME NEW u \in DOMAIN runs' \ DOMAIN runs
       PROVE  \E t \in 0 .. Node(w).n - 1 : Begun(u, w, t)
  <2>1. u \in team(k) /\ u # w
    BY <1>4
  <2>2. PICK t \in 0 .. k - 1 : u = Append(w, Way(c, t))
    BY <2>1 DEF team
  <2>3. Last(u).tid = t
    BY <1>6, <1>7, <2>2
  <2>4. runs'[u] = Started(runs[w], Node(w), Child(w, c), t)
    BY <1>4, <2>1, <2>3
  <2> QED BY <1>6, <2>2, <2>4 DEF Begun
<1>11. c \in 1 .. Node(w).kids
  BY <1>1, <1>2, <1>3 DEF NodeType
<1>12. runs'[w] = [runs[w] EXCEPT !.step = c]
  BY <1>4
<1>13. DOMAIN runs \subseteq DOMAIN runs'
  BY <1>4
<1> QED BY <1>3, <1>9, <1>10, <1>11, <1>12, <1>13

(* What a run just started gets from its caller.                            *)
LEMMA BegunRun ==
    ASSUME CallStack, NEW w \in DOMAIN runs, runs[w].step + 1 \in 1 .. Node(w).kids, root' = root,
           NEW u, NEW t \in 0 .. Node(w).n - 1, Begun(u, w, t)
    PROVE  LET k == Child(w, runs[w].step + 1) IN
           /\ u \in Seq(Turn) /\ u # <<>> /\ Caller(u) = w /\ u[Len(u)].tid = t
           /\ Len(u) = Len(w) + 1 /\ SubSeq(u, 1, Len(u)) = u
           /\ \A i \in 0 .. Len(w) : SubSeq(u, 1, i) = SubSeq(w, 1, i)
           /\ Children(u) = Append(Children(w), runs[w].step + 1)
           /\ Node(u) = k /\ Node(u)' = k /\ NodeType(k)
           /\ Children(u) \in DOMAIN root.node
           /\ runs'[u] \in RunType /\ runs'[u].step = 0
           /\ runs'[u].off = runs[w].off + t * k.ct
           /\ runs'[u].slot = runs[w].slot * Node(w).n + t
           /\ runs'[u].out = IF Node(w).solver = "BUFFERED" THEN "scratch" ELSE runs[w].out
<1> DEFINE c == runs[w].step + 1
           x == Way(c, t)
           k == Child(w, c)
<1>1. w \in Seq(Turn) /\ runs[w] \in RunType /\ runs[w].step \in Nat
  BY DEF CallStack, OnStack, RunType
<1>2. NodeType(Node(w)) /\ NodeType(k) /\ Append(Children(w), c) \in DOMAIN root.node
  BY NodesTyped
<1>3. x \in Turn /\ x.child = c /\ x.tid = t
  BY <1>1, <1>2 DEF NodeType, Way, Turn
<1>4. u = Append(w, x)
  BY DEF Begun
<1>5. runs'[u] = Started(runs[w], Node(w), k, t)
  BY DEF Begun
<1>6. /\ u \in Seq(Turn) /\ u # <<>> /\ Caller(u) = w /\ Len(u) = Len(w) + 1
      /\ SubSeq(u, 1, Len(u)) = u /\ u[Len(u)] = x
      /\ \A i \in 0 .. Len(w) : SubSeq(u, 1, i) = SubSeq(w, 1, i)
  <2> HIDE DEF x
  <2> QED BY <1>1, <1>3, <1>4, Longer
<1>7. Children(u) = Append(Children(w), c)
  <2> HIDE DEF x, c
  <2> QED BY <1>1, <1>3, <1>4, ChildrenLonger
<1>8. Node(u) = k /\ Node(u)' = k
  BY <1>7 DEF Node, Child
<1>9. /\ runs'[u] \in RunType /\ runs'[u].step = 0
      /\ runs'[u].off = runs[w].off + t * k.ct
      /\ runs'[u].slot = runs[w].slot * Node(w).n + t
      /\ runs'[u].out = IF Node(w).solver = "BUFFERED" THEN "scratch" ELSE runs[w].out
  <2> HIDE DEF k
  <2> QED BY <1>1, <1>2, <1>5, StartedRun
<1> QED BY <1>2, <1>3, <1>6, <1>7, <1>8, <1>9

LEMMA ReturnEffect ==
    ASSUME NEW w \in DOMAIN runs, Return(w)
    PROVE  /\ root' = root /\ Idle(w)
           /\ DOMAIN runs' = DOMAIN runs \ {w}
           /\ \A u \in DOMAIN runs' : runs'[u] = runs[u]
  BY DEF Return

(* Below a run that has another below it there is one it called.            *)
LEMMA NextBelow ==
    ASSUME CallStack, NEW u \in DOMAIN runs, NEW w \in DOMAIN runs, Above(u, w), u # w
    PROVE  \E v \in DOMAIN runs : v # <<>> /\ Caller(v) = u
<1>1. PICK i \in 0 .. Len(w) : u = SubSeq(w, 1, i)
  BY DEF Above
<1>2. w \in Seq(Turn) /\ Len(w) \in Nat /\ \A j \in 0 .. Len(w) : SubSeq(w, 1, j) \in DOMAIN runs
  BY LenProperties DEF CallStack, OnStack
<1>3. i # Len(w)
  BY <1>1, <1>2, SubSeqFull
<1>4. i + 1 \in 0 .. Len(w) /\ i \in 0 .. i + 1 /\ i \in Nat /\ (i + 1) - 1 = i
  BY <1>2, <1>3
<1> DEFINE v == SubSeq(w, 1, i + 1)
<1>5. v \in DOMAIN runs
  BY <1>2, <1>4
<1>6. v \in Seq(Turn) /\ Len(v) = i + 1
  BY <1>2, <1>4, Prefix
<1>7. v # <<>>
  BY <1>4, <1>6
<1>8. SubSeq(v, 1, i) = u
  BY <1>1, <1>2, <1>4, PrefixOfPrefix
<1>9. Caller(v) = u
  BY <1>4, <1>6, <1>8 DEF Caller
<1> QED BY <1>5, <1>7, <1>9

LEMMA NothingBelow ==
    ASSUME CallStack, NEW u \in DOMAIN runs, NEW w \in DOMAIN runs, Above(u, w),
           Idle(u) \/ Node(u).kids = 0
    PROVE  u = w
<1> SUFFICES ASSUME u # w PROVE FALSE
  OBVIOUS
<1>1. PICK v \in DOMAIN runs : v # <<>> /\ Caller(v) = u
  BY NextBelow
<1>2. Node(u).kids > 0
  BY <1>1 DEF CallStack, OnStack
<1> QED BY <1>1, <1>2 DEF Idle

LEMMA AboveSelf ==
    ASSUME NEW w \in Seq(Turn)
    PROVE  Above(w, w)
<1>1. Len(w) \in 0 .. Len(w) /\ SubSeq(w, 1, Len(w)) = w
  BY LenProperties, SubSeqFull
<1> QED BY <1>1 DEF Above

LEMMA StackStarts == Init => CallStack
<1> SUFFICES ASSUME Init PROVE CallStack
  OBVIOUS
<1>1. <<>> \in Seq(Turn) /\ Len(<<>>) = 0 /\ Children(<<>>) \in Seq(Nat) /\ Len(Children(<<>>)) = 0
  BY EmptySeq, ChildrenOf
<1>2. Children(<<>>) = <<>>
  BY <1>1, EmptySeq
<1>3. root \in Roots /\ PlanType(root)
  BY PlansTyped DEF Init
<1>4. <<>> \in DOMAIN root.node /\ NodeType(root.node[<<>>])
  BY <1>3 DEF PlanType
<1>5. DOMAIN runs = {<<>>} /\ runs[<<>>] = [off |-> 0, slot |-> 0, out |-> "output", step |-> 0]
  BY DEF Init
<1>6. 0 <= Node(<<>>).kids
  BY <1>2, <1>4 DEF Node, NodeType
<1>7. \A i \in 0 .. 0 : SubSeq(<<>>, 1, i) = <<>>
  BY <1>1, SubSeqFull
<1>8. runs[<<>>] \in RunType /\ runs[<<>>].step = 0
  BY <1>5 DEF RunType
<1> QED BY <1>1, <1>2, <1>3, <1>4, <1>5, <1>6, <1>7, <1>8 DEF CallStack, OnStack

LEMMA StackCall ==
    ASSUME CallStack, NEW w \in DOMAIN runs, Call(w)
    PROVE  CallStack'
<1>1. /\ root' = root /\ runs[w].step + 1 \in 1 .. Node(w).kids
      /\ DOMAIN runs \subseteq DOMAIN runs'
      /\ runs'[w] = [runs[w] EXCEPT !.step = runs[w].step + 1]
      /\ \A u \in DOMAIN runs : u # w => runs'[u] = runs[u]
      /\ \A u \in DOMAIN runs' \ DOMAIN runs : \E t \in 0 .. Node(w).n - 1 : Begun(u, w, t)
  BY CallEffect
<1>2. \A u : Node(u)' = Node(u)
  BY <1>1 DEF Node
<1>3. root' \in Roots /\ \A u \in DOMAIN runs : OnStack(u)
  BY <1>1 DEF CallStack
<1>4. NodeType(Node(w)) /\ runs[w] \in RunType
  BY <1>3, NodesTyped DEF OnStack
<1>5. ASSUME NEW u \in DOMAIN runs PROVE OnStack(u)'
  <2>1. runs'[u] \in RunType /\ runs'[u].step <= Node(u).kids
    <3>1. CASE u # w
      BY <1>1, <1>3, <3>1 DEF OnStack
    <3>2. CASE u = w
      <4>1. runs'[w] = [off |-> runs[w].off, slot |-> runs[w].slot, out |-> runs[w].out,
                        step |-> runs[w].step + 1]
        BY <1>1, <1>4 DEF RunType
      <4>2. runs'[w].step \in 1 .. Node(w).kids
        BY <1>1, <4>1
      <4> QED BY <1>4, <3>2, <4>1, <4>2 DEF RunType, NodeType
    <3> QED BY <3>1, <3>2
  <2> QED BY <1>1, <1>2, <1>3, <2>1 DEF OnStack
<1>6. ASSUME NEW u \in DOMAIN runs' \ DOMAIN runs PROVE OnStack(u)'
  <2>1. PICK t \in 0 .. Node(w).n - 1 : Begun(u, w, t)
    BY <1>1
  <2> DEFINE k == Child(w, runs[w].step + 1)
  <2>2. /\ u \in Seq(Turn) /\ Caller(u) = w /\ Len(u) = Len(w) + 1 /\ SubSeq(u, 1, Len(u)) = u
        /\ \A i \in 0 .. Len(w) : SubSeq(u, 1, i) = SubSeq(w, 1, i)
        /\ Node(u)' = k /\ NodeType(k)
        /\ Children(u) \in DOMAIN root.node
        /\ runs'[u] \in RunType /\ runs'[u].step = 0
    BY <1>1, <2>1, BegunRun
  <2> HIDE DEF k
  <2>3. Len(w) \in Nat
    BY <1>3, LenProperties DEF OnStack
  <2>4. \A i \in 0 .. Len(u) : i \in 0 .. Len(w) \/ i = Len(u)
    BY <2>2, <2>3
  <2>5. \A i \in 0 .. Len(u) : SubSeq(u, 1, i) \in DOMAIN runs'
    BY <1>1, <1>3, <2>2, <2>4 DEF OnStack
  <2>6. runs'[u].step <= Node(u)'.kids
    BY <2>2 DEF NodeType
  <2>7. Node(Caller(u))'.kids > 0
    BY <1>1, <1>2, <1>4, <2>2 DEF NodeType
  <2> QED BY <1>1, <2>2, <2>5, <2>6, <2>7 DEF OnStack
<1> QED BY <1>3, <1>5, <1>6 DEF CallStack

LEMMA StackReturn ==
    ASSUME CallStack, NEW w \in DOMAIN runs, Return(w)
    PROVE  CallStack'
<1>1. /\ root' = root /\ Idle(w) /\ DOMAIN runs' = DOMAIN runs \ {w}
      /\ \A u \in DOMAIN runs' : runs'[u] = runs[u]
  BY ReturnEffect
<1>2. \A u : Node(u)' = Node(u)
  BY <1>1 DEF Node
<1>3. \A u \in DOMAIN runs : OnStack(u)
  BY DEF CallStack
<1>4. ASSUME NEW u \in DOMAIN runs', NEW i \in 0 .. Len(u) PROVE SubSeq(u, 1, i) \in DOMAIN runs'
  <2>1. SubSeq(u, 1, i) \in DOMAIN runs
    BY <1>1, <1>3 DEF OnStack
  <2>2. SubSeq(u, 1, i) # w
    BY <1>1, NothingBelow DEF Above
  <2> QED BY <1>1, <2>1, <2>2
<1>5. root' \in Roots
  BY <1>1 DEF CallStack
<1> QED BY <1>1, <1>2, <1>3, <1>4, <1>5 DEF CallStack, OnStack

LEMMA StackStep == CallStack /\ [Next]_vars => CallStack'
<1> SUFFICES ASSUME CallStack, [Next]_vars PROVE CallStack'
  OBVIOUS
<1>1. CASE UNCHANGED vars
  BY <1>1 DEF vars, CallStack, OnStack, Node
<1>2. ASSUME NEW w \in DOMAIN runs, Call(w) PROVE CallStack'
  BY <1>2, StackCall
<1>3. ASSUME NEW w \in DOMAIN runs, Return(w) PROVE CallStack'
  BY <1>3, StackReturn
<1> QED BY <1>1, <1>2, <1>3 DEF Next, Done

(* Every run in progress is a run of a node of the plan, and its caller     *)
(* waits for it, whatever the plan and the teams OpenMP gives.              *)
THEOREM TypeCorrect == Spec => []TypeOK
<1>1. CallStack => TypeOK
  <2> SUFFICES ASSUME CallStack PROVE TypeOK
    OBVIOUS
  <2>1. ASSUME NEW w \in DOMAIN runs, w # <<>> PROVE Caller(w) \in DOMAIN runs
    <3>1. w \in Seq(Turn) /\ \A i \in 0 .. Len(w) : SubSeq(w, 1, i) \in DOMAIN runs
      BY DEF CallStack, OnStack
    <3>2. Len(w) - 1 \in 0 .. Len(w)
      BY <2>1, <3>1, Shorter
    <3> QED BY <3>1, <3>2 DEF Caller
  <2> QED BY <2>1, PlansTyped DEF CallStack, OnStack, TypeOK
<1> QED BY <1>1, StackStarts, StackStep, PTL DEF Spec

-----------------------------------------------------------------------------
(* The slots of the Bluestein pools                                         *)

(* The slot of a run is that of its caller, times the threads of the        *)
(* caller's team, plus its thread.                                          *)
SlotFrom(w) ==
    w # <<>> =>
        /\ w[Len(w)].tid \in 0 .. Node(Caller(w)).n - 1
        /\ runs[w].slot = runs[Caller(w)].slot * Node(Caller(w)).n + w[Len(w)].tid

(* Runs of one node, whose ways take the same children, differ in the slot. *)
Slots ==
    /\ \A w \in DOMAIN runs : SlotFrom(w)
    /\ \A u, w \in DOMAIN runs :
         Children(u) = Children(w) /\ runs[u].slot = runs[w].slot => u = w

LEMMA LargerDigit ==
    ASSUME NEW a \in Nat, NEW b \in Nat, a < b, NEW n \in Nat \ {0},
           NEW s \in 0 .. n - 1, NEW t \in 0 .. n - 1
    PROVE  a * n + s < b * n + t
<1>1. PICK d \in Nat : b = a + 1 + d
  <2>1. b - a - 1 \in Nat /\ b = a + 1 + (b - a - 1)
    OBVIOUS
  <2> QED BY <2>1
<1>2. b * n = a * n + n + d * n /\ d * n \in Nat /\ a * n \in Nat
  BY <1>1
<1> QED BY <1>2

LEMMA SameDigits ==
    ASSUME NEW a \in Nat, NEW b \in Nat, NEW n \in Nat \ {0},
           NEW s \in 0 .. n - 1, NEW t \in 0 .. n - 1, a * n + s = b * n + t
    PROVE  a = b /\ s = t
<1>1. a * n + s \in Nat /\ b * n + t \in Nat
  OBVIOUS
<1>2. ~(a < b) /\ ~(b < a)
  <2>1. a < b => a * n + s < b * n + t
    BY LargerDigit
  <2>2. b < a => b * n + t < a * n + s
    BY LargerDigit
  <2> QED BY <1>1, <2>1, <2>2
<1> QED BY <1>2

LEMMA CallersRun ==
    ASSUME CallStack, NEW w \in DOMAIN runs, w # <<>>
    PROVE  /\ Caller(w) \in DOMAIN runs /\ Caller(w) \in Seq(Turn)
           /\ Children(w) = Append(Children(Caller(w)), w[Len(w)].child)
           /\ Children(Caller(w)) \in Seq(Nat) /\ w[Len(w)].child \in Nat
<1>1. w \in Seq(Turn) /\ \A i \in 0 .. Len(w) : SubSeq(w, 1, i) \in DOMAIN runs
  BY DEF CallStack, OnStack
<1>2. /\ Caller(w) \in Seq(Turn) /\ Len(w) \in Nat \ {0} /\ w[Len(w)] \in Turn
      /\ w = Append(Caller(w), w[Len(w)])
  BY <1>1, Shorter
<1>3. Len(w) - 1 \in 0 .. Len(w)
  BY <1>2
<1>4. Children(w) = Append(Children(Caller(w)), w[Len(w)].child)
  BY <1>2, ChildrenLonger
<1>5. Children(Caller(w)) \in Seq(Nat) /\ w[Len(w)].child \in Nat
  BY <1>2, ChildrenOf DEF Turn
<1> QED BY <1>1, <1>2, <1>3, <1>4, <1>5 DEF Caller

LEMMA SlotsCall ==
    ASSUME CallStack, Slots, NEW w \in DOMAIN runs, Call(w)
    PROVE  Slots'
<1> DEFINE c == runs[w].step + 1
           p == Node(w)
<1>1. /\ root' = root /\ Idle(w) /\ c \in 1 .. Node(w).kids
      /\ DOMAIN runs \subseteq DOMAIN runs'
      /\ runs'[w] = [runs[w] EXCEPT !.step = c]
      /\ \A u \in DOMAIN runs : u # w => runs'[u] = runs[u]
      /\ \A u \in DOMAIN runs' \ DOMAIN runs : \E t \in 0 .. Node(w).n - 1 : Begun(u, w, t)
  BY CallEffect
<1>2. \A u : Node(u)' = Node(u)
  BY <1>1 DEF Node
<1>3. \A u \in DOMAIN runs : runs[u] \in RunType /\ runs[u].slot \in Nat
  BY DEF CallStack, OnStack, RunType
<1>4. \A u \in DOMAIN runs : runs'[u].slot = runs[u].slot
  <2>1. runs'[w].slot = runs[w].slot
    BY <1>1, <1>3 DEF RunType
  <2> QED BY <1>1, <2>1
<1>5. NodeType(p) /\ p.n \in Nat \ {0} /\ w \in Seq(Turn)
  BY NodesTyped DEF NodeType, CallStack, OnStack
<1>6. \A u \in DOMAIN runs' \ DOMAIN runs : \E t \in 0 .. p.n - 1 :
          /\ u # <<>> /\ Caller(u) = w /\ u[Len(u)].tid = t
          /\ Children(u) = Append(Children(w), c)
          /\ runs'[u].slot = runs[w].slot * p.n + t
          /\ u = Append(w, Way(c, t))
  <2> SUFFICES ASSUME NEW u \in DOMAIN runs' \ DOMAIN runs
               PROVE  \E t \in 0 .. p.n - 1 :
                        /\ u # <<>> /\ Caller(u) = w /\ u[Len(u)].tid = t
                        /\ Children(u) = Append(Children(w), c)
                        /\ runs'[u].slot = runs[w].slot * p.n + t
                        /\ u = Append(w, Way(c, t))
    OBVIOUS
  <2>1. PICK t \in 0 .. p.n - 1 : Begun(u, w, t)
    BY <1>1
  <2>2. /\ u # <<>> /\ Caller(u) = w /\ u[Len(u)].tid = t
        /\ Children(u) = Append(Children(w), c)
        /\ runs'[u].slot = runs[w].slot * p.n + t
    BY <1>1, <2>1, BegunRun
  <2>3. u = Append(w, Way(c, t))
    BY <2>1 DEF Begun
  <2> QED BY <2>2, <2>3
<1> HIDE DEF c, p
<1>7. ASSUME NEW u \in DOMAIN runs' PROVE SlotFrom(u)'
  <2>1. CASE u \in DOMAIN runs
    <3>1. u # <<>> => Caller(u) \in DOMAIN runs
      BY <2>1, CallersRun
    <3> QED BY <1>2, <1>4, <2>1, <3>1 DEF SlotFrom, Slots
  <2>2. CASE u \notin DOMAIN runs
    BY <1>2, <1>4, <1>6, <2>2 DEF SlotFrom, p
  <2> QED BY <2>1, <2>2
<1>8. ASSUME NEW u \in DOMAIN runs' \ DOMAIN runs, NEW v \in DOMAIN runs,
             Children(u) = Children(v), runs'[u].slot = runs[v].slot
      PROVE  FALSE
  <2>1. PICK t \in 0 .. p.n - 1 : /\ Children(u) = Append(Children(w), c)
                                 /\ runs'[u].slot = runs[w].slot * p.n + t
    BY <1>6
  <2>2. Children(w) \in Seq(Nat) /\ c \in Nat
    BY <1>3, <1>5, ChildrenOf DEF c, RunType
  <2>3. Len(Children(v)) # 0
    BY <1>8, <2>1, <2>2, AppendProperties, LenProperties
  <2>4. v # <<>>
    <3>1. v \in Seq(Turn) /\ Len(<<>>) = 0
      BY EmptySeq DEF CallStack, OnStack
    <3>2. Len(Children(v)) = Len(v)
      BY <3>1, ChildrenOf
    <3> QED BY <2>3, <3>1, <3>2
  <2> DEFINE y == Caller(v)
             x == v[Len(v)]
  <2>5. /\ y \in DOMAIN runs /\ Children(y) \in Seq(Nat) /\ x.child \in Nat
        /\ Children(v) = Append(Children(y), x.child)
    BY <2>4, CallersRun
  <2> HIDE DEF x, y
  <2>6. Children(y) = Children(w)
    <3> DEFINE d == x.child
    <3>1. Append(Children(y), d) = Append(Children(w), c) /\ d \in Nat
      BY <1>8, <2>1, <2>5
    <3> HIDE DEF d
    <3>2. \A e \in Nat, f \in Nat, r \in Seq(Nat), q \in Seq(Nat) :
              Append(r, e) = Append(q, f) => r = q
      BY AppendInjective
    <3> QED BY <2>2, <2>5, <3>1, <3>2
  <2>7. Node(y) = p
    BY <2>6 DEF Node, p
  <2>8. x.tid \in 0 .. p.n - 1 /\ runs[v].slot = runs[y].slot * p.n + x.tid
    BY <2>4, <2>7 DEF Slots, SlotFrom, x, y
  <2>9. runs[w].slot = runs[y].slot
    <3> DEFINE a == runs[w].slot
               b == runs[y].slot
               s == x.tid
    <3>1. a \in Nat /\ b \in Nat /\ s \in 0 .. p.n - 1 /\ a * p.n + t = b * p.n + s
      BY <1>3, <1>8, <2>1, <2>5, <2>8
    <3> HIDE DEF a, b, s
    <3>2. a = b
      BY <1>5, <3>1, SameDigits
    <3> QED BY <3>2 DEF a, b
  <2>10. y = w
    BY <2>5, <2>6, <2>9 DEF Slots
  <2> QED BY <1>1, <2>4, <2>10 DEF Idle, y
<1>9. ASSUME NEW u \in DOMAIN runs' \ DOMAIN runs, NEW v \in DOMAIN runs' \ DOMAIN runs,
             runs'[u].slot = runs'[v].slot
      PROVE  u = v
  <2>1. PICK s \in 0 .. p.n - 1 : runs'[u].slot = runs[w].slot * p.n + s /\ u = Append(w, Way(c, s))
    BY <1>6
  <2>2. PICK t \in 0 .. p.n - 1 : runs'[v].slot = runs[w].slot * p.n + t /\ v = Append(w, Way(c, t))
    BY <1>6
  <2>3. runs[w].slot \in Nat /\ runs[w].slot * p.n + s = runs[w].slot * p.n + t
    BY <1>3, <1>9, <2>1, <2>2
  <2>4. s = t
    BY <1>5, <2>3, SameDigits
  <2> QED BY <2>1, <2>2, <2>4
<1> QED BY <1>4, <1>7, <1>8, <1>9 DEF Slots

LEMMA SlotsStep == CallStack /\ Slots /\ [Next]_vars => Slots'
<1> SUFFICES ASSUME CallStack, Slots, [Next]_vars PROVE Slots'
  OBVIOUS
<1>1. CASE UNCHANGED vars
  BY <1>1 DEF vars, Slots, SlotFrom, Node
<1>2. ASSUME NEW w \in DOMAIN runs, Call(w) PROVE Slots'
  BY <1>2, SlotsCall
<1>3. ASSUME NEW w \in DOMAIN runs, Return(w) PROVE Slots'
  <2>1. /\ root' = root /\ Idle(w) /\ DOMAIN runs' = DOMAIN runs \ {w}
        /\ \A u \in DOMAIN runs' : runs'[u] = runs[u]
    BY <1>3, ReturnEffect
  <2>2. \A u : Node(u)' = Node(u)
    BY <2>1 DEF Node
  <2>3. \A u \in DOMAIN runs' : u # <<>> => Caller(u) \in DOMAIN runs'
    BY <2>1, CallersRun DEF Idle
  <2> QED BY <2>1, <2>2, <2>3 DEF Slots, SlotFrom
<1> QED BY <1>1, <1>2, <1>3 DEF Next, Done

-----------------------------------------------------------------------------
(* The parts of the ct pool                                                 *)

(* Two runs that write to their callers' output touch different stretches.  *)
Clear(u, w) ==
    LET p == Node(u)
        q == Node(w)
    IN  \/ p.stretch = 0 \/ q.stretch = 0
        \/ runs[u].off + p.stretch <= runs[w].off
        \/ runs[w].off + q.stretch <= runs[u].off

Incomparable(u, w) == ~Above(u, w) /\ ~Above(w, u)

InsidePool(w) ==
    /\ runs[w].out = "output" /\ Node(w).stretch # 0 => runs[w].off + Node(w).stretch <= root.length
    /\ runs[w].slot < Node(w).act

(* Runs none of which is above the other are clear of each other, and a run *)
(* below a buffered solver writes to scratch memory.                        *)
Parts ==
    /\ \A w \in DOMAIN runs : InsidePool(w)
    /\ \A u, w \in DOMAIN runs :
         Incomparable(u, w) /\ runs[u].out = "output" /\ runs[w].out = "output" => Clear(u, w)
    /\ \A u, w \in DOMAIN runs :
         Above(u, w) /\ u # w /\ Node(u).solver = "BUFFERED" => runs[w].out = "scratch"

(* The part of thread t is within that of its caller ...                    *)
LEMMA PartWithin ==
    ASSUME NEW o \in Nat, NEW n \in Nat \ {0}, NEW t \in 0 .. n - 1, NEW ct \in Nat,
           NEW ks \in Nat, NEW ps \in Nat, (n - 1) * ct + ks <= ps
    PROVE  o <= o + t * ct /\ (o + t * ct) + ks <= o + ps
<1>1. PICK d \in Nat : n - 1 = t + d
  <2>1. (n - 1) - t \in Nat /\ n - 1 = t + ((n - 1) - t)
    OBVIOUS
  <2> QED BY <2>1
<1>2. (t + d) * ct = t * ct + d * ct /\ t * ct \in Nat /\ d * ct \in Nat
  OBVIOUS
<1> QED BY <1>1, <1>2

(* ... and ends before that of any later thread.                            *)
LEMMA PartBefore ==
    ASSUME NEW o \in Nat, NEW s \in Nat, NEW t \in Nat, s < t, NEW ct \in Nat,
           NEW ks \in Nat, ks <= ct
    PROVE  (o + s * ct) + ks <= o + t * ct
<1>1. PICK d \in Nat : t = s + 1 + d
  <2>1. t - s - 1 \in Nat /\ t = s + 1 + (t - s - 1)
    OBVIOUS
  <2> QED BY <2>1
<1>2. t * ct = s * ct + ct + d * ct /\ s * ct \in Nat /\ d * ct \in Nat
  BY <1>1
<1> QED BY <1>2

(* The slot of thread t is below the instances counted for its node.        *)
LEMMA SlotBelow ==
    ASSUME NEW s \in Nat, NEW a \in Nat, s < a, NEW n \in Nat \ {0}, NEW t \in 0 .. n - 1,
           NEW b \in Nat, a * n <= b
    PROVE  s * n + t < b
<1>1. s * n + t < a * n + 0
  BY LargerDigit
<1>2. a * n + 0 = a * n /\ a * n \in Nat /\ s * n + t \in Nat
  OBVIOUS
<1> QED BY <1>1, <1>2

(* What the sizes of a node and its child give a run just started.          *)
LEMMA BegunFits ==
    ASSUME CallStack, SizesFit, NEW w \in DOMAIN runs,
           runs[w].step + 1 \in 1 .. Node(w).kids, root' = root,
           InsidePool(w), NEW u, NEW t \in 0 .. Node(w).n - 1, Begun(u, w, t)
    PROVE  /\ runs'[u].slot < Node(u).act
           /\ runs'[u].out = "output" =>
                 /\ runs[w].out = "output"
                 /\ \/ Node(u).stretch = 0
                    \/ /\ Node(w).stretch # 0
                       /\ runs[w].off <= runs'[u].off
                       /\ runs'[u].off + Node(u).stretch <= runs[w].off + Node(w).stretch
           /\ runs[w].out = "scratch" \/ Node(w).solver = "BUFFERED" => runs'[u].out = "scratch"
<1> DEFINE k == Child(w, runs[w].step + 1)
           p == Node(w)
           f == runs[w]
<1>1. /\ Node(u) = k /\ NodeType(k)
      /\ runs'[u].off = f.off + t * k.ct
      /\ runs'[u].slot = f.slot * p.n + t
      /\ runs'[u].out = IF p.solver = "BUFFERED" THEN "scratch" ELSE f.out
  BY BegunRun
<1>2. NodeType(p) /\ f \in RunType
  BY NodesTyped DEF CallStack, OnStack
<1>3. ChildFits(p, k)
  BY DEF SizesFit, Fits
<1>4. f.slot < p.act
  BY DEF InsidePool
<1> HIDE DEF k, p, f
<1>5. /\ p.act \in Nat /\ p.n \in Nat \ {0} /\ k.act \in Nat /\ p.act * p.n <= k.act
      /\ k.ct \in Nat /\ k.stretch \in Nat /\ p.stretch \in Nat
      /\ (p.solver # "BUFFERED" => (p.n - 1) * k.ct + k.stretch <= p.stretch \/ k.stretch = 0)
  BY <1>1, <1>2, <1>3 DEF NodeType, ChildFits
<1>6. f.off \in Nat /\ f.slot \in Nat
  BY <1>2 DEF RunType
<1>7. t \in 0 .. p.n - 1
  BY DEF p
<1>8. f.slot * p.n + t < k.act
  <2> DEFINE s == f.slot
             a == p.act
             n == p.n
             b == k.act
  <2>1. s \in Nat /\ a \in Nat /\ n \in Nat \ {0} /\ b \in Nat /\ s < a /\ a * n <= b /\ t \in 0 .. n - 1
    BY <1>4, <1>5, <1>6, <1>7
  <2> HIDE DEF s, a, n, b
  <2>2. s * n + t < b
    BY <2>1, SlotBelow
  <2> QED BY <2>2 DEF s, a, n, b
<1>9. ASSUME p.solver # "BUFFERED", k.stretch # 0
      PROVE  /\ p.stretch # 0 /\ f.off <= f.off + t * k.ct
             /\ (f.off + t * k.ct) + k.stretch <= f.off + p.stretch
  <2> DEFINE o == f.off
             n == p.n
             ct == k.ct
             ks == k.stretch
             ps == p.stretch
  <2>1. /\ o \in Nat /\ n \in Nat \ {0} /\ ct \in Nat /\ ks \in Nat /\ ps \in Nat
        /\ (n - 1) * ct + ks <= ps /\ t \in 0 .. n - 1 /\ ks # 0
    BY <1>5, <1>6, <1>7, <1>9
  <2> HIDE DEF o, n, ct, ks, ps
  <2>2. o <= o + t * ct /\ (o + t * ct) + ks <= o + ps
    BY <2>1, PartWithin
  <2>3. ps # 0
    <3>1. (n - 1) * ct \in Nat
      BY <2>1
    <3> QED BY <2>1, <3>1
  <2> QED BY <2>2, <2>3 DEF o, n, ct, ks, ps
<1> QED BY <1>1, <1>8, <1>9 DEF k, p, f

LEMMA PartsCall ==
    ASSUME CallStack, Parts, SizesFit, NEW w \in DOMAIN runs, Call(w)
    PROVE  Parts'
<1> DEFINE New == DOMAIN runs' \ DOMAIN runs
<1>1. /\ root' = root /\ Idle(w) /\ runs[w].step + 1 \in 1 .. Node(w).kids
      /\ DOMAIN runs \subseteq DOMAIN runs'
      /\ runs'[w] = [runs[w] EXCEPT !.step = runs[w].step + 1]
      /\ \A u \in DOMAIN runs : u # w => runs'[u] = runs[u]
      /\ \A u \in New : \E t \in 0 .. Node(w).n - 1 : Begun(u, w, t)
  BY CallEffect
<1>2. \A u : Node(u)' = Node(u)
  BY <1>1 DEF Node
<1>3. \A u \in DOMAIN runs : u \in Seq(Turn) /\ runs[u] \in RunType
  BY DEF CallStack, OnStack
<1>4. \A u \in DOMAIN runs : /\ runs'[u].off = runs[u].off /\ runs'[u].slot = runs[u].slot
                              /\ runs'[u].out = runs[u].out
  <2>1. runs'[w].off = runs[w].off /\ runs'[w].slot = runs[w].slot /\ runs'[w].out = runs[w].out
    BY <1>1, <1>3 DEF RunType
  <2> QED BY <1>1, <2>1
<1>5. InsidePool(w)
  BY DEF Parts
<1>6. \A u \in New :
        /\ runs'[u].slot < Node(u).act
        /\ runs'[u].out = "output" =>
              /\ runs[w].out = "output"
              /\ \/ Node(u).stretch = 0
                 \/ /\ Node(w).stretch # 0
                    /\ runs[w].off <= runs'[u].off
                    /\ runs'[u].off + Node(u).stretch <= runs[w].off + Node(w).stretch
        /\ runs[w].out = "scratch" \/ Node(w).solver = "BUFFERED" => runs'[u].out = "scratch"
  BY <1>1, <1>5, BegunFits
<1>7. \A u \in New : /\ u \in Seq(Turn) /\ Len(u) = Len(w) + 1 /\ SubSeq(u, 1, Len(u)) = u
                     /\ \A i \in 0 .. Len(w) : SubSeq(u, 1, i) = SubSeq(w, 1, i)
                     /\ NodeType(Node(u)) /\ runs'[u] \in RunType
  BY <1>1, BegunRun
<1>8. NodeType(Node(w)) /\ Len(w) \in Nat /\ runs[w].off \in Nat /\ Node(w).stretch \in Nat
  BY <1>3, NodesTyped, LenProperties DEF NodeType, RunType
(* What is above a run just started is above its caller.                    *)
<1>9. \A u \in New : \A v : Above(v, u) <=> v = u \/ Above(v, w)
  <2> SUFFICES ASSUME NEW u \in New, NEW v
               PROVE  Above(v, u) <=> v = u \/ Above(v, w)
    OBVIOUS
  <2>1. \A i : i \in 0 .. Len(u) <=> i = Len(u) \/ i \in 0 .. Len(w)
    BY <1>7, <1>8
  <2> QED BY <1>7, <2>1 DEF Above
<1>10. root.length \in Nat
  BY PlansTyped DEF CallStack, PlanType
<1>11. ASSUME NEW u \in DOMAIN runs' PROVE InsidePool(u)'
  <2>1. CASE u \in DOMAIN runs
    BY <1>1, <1>2, <1>4, <2>1 DEF Parts, InsidePool
  <2>2. CASE u \notin DOMAIN runs
    <3>1. u \in New
      BY <2>2
    <3>2. Node(u).stretch \in Nat /\ runs'[u].off \in Nat
      BY <1>7, <3>1 DEF NodeType, RunType
    <3>3. runs'[u].out = "output" /\ Node(u).stretch # 0
            => runs'[u].off + Node(u).stretch <= root.length
      BY <1>5, <1>6, <1>8, <1>10, <3>1, <3>2 DEF InsidePool
    <3> QED BY <1>1, <1>2, <1>6, <3>1, <3>3 DEF InsidePool
  <2> QED BY <2>1, <2>2
<1> HIDE DEF New
(* A run just started is clear of whatever its caller is clear of.          *)
<1>12. ASSUME NEW u \in New, NEW v \in DOMAIN runs, Incomparable(u, v) \/ Incomparable(v, u),
              runs'[u].out = "output", runs'[v].out = "output"
       PROVE  Clear(u, v)' /\ Clear(v, u)'
  <2>1. ~Above(v, w)
    BY <1>9, <1>12 DEF Incomparable
  <2>2. ~Above(w, v)
    <3>1. Above(w, v) => w = v
      BY <1>1, NothingBelow
    <3> QED BY <1>3, <2>1, <3>1, AboveSelf
  <2>3. Clear(w, v)
    BY <1>4, <1>6, <1>12, <2>1, <2>2 DEF Parts, Incomparable
  <2>4. /\ runs'[u].off \in Nat /\ runs[v].off \in Nat
        /\ Node(u).stretch \in Nat /\ Node(v).stretch \in Nat
    BY <1>3, <1>7, NodesTyped DEF NodeType, RunType
  <2>5. \/ Node(u).stretch = 0
        \/ /\ Node(w).stretch # 0
           /\ runs[w].off <= runs'[u].off
           /\ runs'[u].off + Node(u).stretch <= runs[w].off + Node(w).stretch
    BY <1>6, <1>12
  <2>6. \/ Node(u).stretch = 0 \/ Node(v).stretch = 0
        \/ runs'[u].off + Node(u).stretch <= runs[v].off
        \/ runs[v].off + Node(v).stretch <= runs'[u].off
    <3>1. \/ Node(w).stretch = 0 \/ Node(v).stretch = 0
          \/ runs[w].off + Node(w).stretch <= runs[v].off
          \/ runs[v].off + Node(v).stretch <= runs[w].off
      BY <2>3 DEF Clear
    <3> QED BY <1>8, <2>4, <2>5, <3>1
  <2> QED BY <1>2, <1>4, <2>6 DEF Clear
(* The threads of one team are clear of each other.                         *)
<1>13. ASSUME NEW u \in New, NEW v \in New, u # v,
              runs'[u].out = "output", runs'[v].out = "output"
       PROVE  Clear(u, v)'
  <2> DEFINE k == Child(w, runs[w].step + 1)
             o == runs[w].off
             ct == k.ct
             ks == k.stretch
  <2>1. PICK s \in 0 .. Node(w).n - 1 : Begun(u, w, s)
    BY <1>1
  <2>2. PICK t \in 0 .. Node(w).n - 1 : Begun(v, w, t)
    BY <1>1
  <2>3. Node(u) = k /\ NodeType(k) /\ runs'[u].off = o + s * ct
    BY <1>1, <2>1, BegunRun
  <2>4. Node(v) = k /\ runs'[v].off = o + t * ct
    BY <1>1, <2>2, BegunRun
  <2>5. s # t
    BY <1>13, <2>1, <2>2 DEF Begun
  <2>6. ChildFits(Node(w), k)
    BY <1>1 DEF SizesFit, Fits
  <2>7. Node(w).n \in Nat \ {0} /\ s \in Nat /\ t \in Nat
    BY <1>8 DEF NodeType
  <2>8. ks <= ct /\ ks \in Nat /\ ct \in Nat /\ o \in Nat
    BY <1>8, <2>3, <2>5, <2>6, <2>7 DEF ChildFits, NodeType
  <2> HIDE DEF k, o, ct, ks
  <2>9. s < t => (o + s * ct) + ks <= o + t * ct
    BY <2>7, <2>8, PartBefore
  <2>10. t < s => (o + t * ct) + ks <= o + s * ct
    BY <2>7, <2>8, PartBefore
  <2>11. s < t \/ t < s
    BY <2>5, <2>7
  <2> QED BY <1>2, <2>3, <2>4, <2>9, <2>10, <2>11 DEF Clear, ks
<1>14. ASSUME NEW u \in DOMAIN runs', NEW v \in DOMAIN runs',
              Incomparable(u, v), runs'[u].out = "output", runs'[v].out = "output"
       PROVE  Clear(u, v)'
  <2>1. CASE u \in DOMAIN runs /\ v \in DOMAIN runs
    <3>1. Clear(u, v)
      BY <1>4, <1>14, <2>1 DEF Parts
    <3> QED BY <1>2, <1>4, <2>1, <3>1 DEF Clear
  <2>2. u # v
    <3>1. u \in New => Above(u, u)
      BY <1>9
    <3>2. u \in DOMAIN runs => Above(u, u)
      BY <1>3, AboveSelf
    <3> QED BY <1>14, <3>1, <3>2 DEF Incomparable, New
  <2> QED BY <1>12, <1>13, <1>14, <2>1, <2>2 DEF New
<1>15. ASSUME NEW u \in DOMAIN runs', NEW v \in DOMAIN runs',
              Above(u, v), u # v, Node(u).solver = "BUFFERED"
       PROVE  runs'[v].out = "scratch"
  <2>1. CASE v \in DOMAIN runs
    <3>1. u \in DOMAIN runs
      BY <1>15, <2>1 DEF CallStack, OnStack, Above
    <3> QED BY <1>4, <1>15, <2>1, <3>1 DEF Parts
  <2>2. CASE v \in New
    <3>1. Above(u, w)
      BY <1>9, <1>15, <2>2
    <3>2. u \in DOMAIN runs
      BY <3>1 DEF CallStack, OnStack, Above
    <3>3. runs[w].out = "scratch" \/ Node(w).solver = "BUFFERED"
      BY <1>15, <3>1, <3>2 DEF Parts
    <3> QED BY <1>6, <2>2, <3>3
  <2> QED BY <2>1, <2>2 DEF New
<1> QED BY <1>2, <1>11, <1>14, <1>15 DEF Parts, Incomparable, Above

LEMMA PartsStart == Init /\ SizesFit => CallStack /\ Slots /\ Parts
<1> SUFFICES ASSUME Init, SizesFit PROVE CallStack /\ Slots /\ Parts
  OBVIOUS
<1>1. CallStack
  BY StackStarts
<1>2. DOMAIN runs = {<<>>} /\ runs[<<>>] = [off |-> 0, slot |-> 0, out |-> "output", step |-> 0]
  BY DEF Init
<1>3. Slots
  BY <1>2 DEF Slots, SlotFrom
<1>4. Children(<<>>) = <<>>
  <2>1. <<>> \in Seq(Turn) /\ Len(<<>>) = 0 /\ Children(<<>>) \in Seq(Nat) /\ Len(Children(<<>>)) = 0
    BY EmptySeq, ChildrenOf
  <2> QED BY <2>1, EmptySeq
<1>5. NodeType(Node(<<>>)) /\ Above(<<>>, <<>>)
  BY <1>1, <1>2, NodesTyped, AboveSelf, EmptySeq
<1>6. InsidePool(<<>>)
  BY <1>2, <1>4, <1>5 DEF InsidePool, SizesFit, Node, NodeType
<1> QED BY <1>1, <1>2, <1>3, <1>5, <1>6 DEF Parts, Incomparable

LEMMA PartsStep == CallStack /\ Parts /\ SizesFit /\ [Next]_vars => Parts'
<1> SUFFICES ASSUME CallStack, Parts, SizesFit, [Next]_vars PROVE Parts'
  OBVIOUS
<1>1. CASE UNCHANGED vars
  BY <1>1 DEF vars, Parts, InsidePool, Clear, Node
<1>2. ASSUME NEW w \in DOMAIN runs, Call(w) PROVE Parts'
  BY <1>2, PartsCall
<1>3. ASSUME NEW w \in DOMAIN runs, Return(w) PROVE Parts'
  <2>1. /\ root' = root /\ DOMAIN runs' = DOMAIN runs \ {w}
        /\ \A u \in DOMAIN runs' : runs'[u] = runs[u]
    BY <1>3, ReturnEffect
  <2>2. \A u : Node(u)' = Node(u)
    BY <2>1 DEF Node
  <2> QED BY <2>1, <2>2 DEF Parts, InsidePool, Clear
<1> QED BY <1>1, <1>2, <1>3 DEF Next, Done

-----------------------------------------------------------------------------
(* What a run holds                                                         *)

HoldsSlot(w, a) ==
    /\ Node(w).solver = "BLUESTEIN"
    /\ a = [pool |-> <<"bs">> \o Children(w), from |-> runs[w].slot, len |-> 1]

(* A piece of the ct pool: within the part of the run; if the run is not a  *)
(* buffered solver, nothing is below it.                                    *)
HoldsPart(w, a) ==
    /\ a.pool = <<>> /\ a.from = runs[w].off
    /\ a.len \in Nat \ {0} /\ a.len <= Node(w).stretch
    /\ runs[w].out = "output"
    /\ Node(w).solver = "BUFFERED" \/ Idle(w) \/ Node(w).kids = 0

LEMMA Holds ==
    ASSUME CallStack, SizesFit, NEW w \in DOMAIN runs, NEW a \in Held(w)
    PROVE  HoldsSlot(w, a) \/ HoldsPart(w, a)
<1> DEFINE p == Node(w)
           k == Child(w, 1)
           f == runs[w]
<1>1. /\ NodeType(p) /\ f \in RunType /\ Fits(w)
      /\ \A c \in 1 .. p.kids : NodeType(Child(w, c))
  BY NodesTyped DEF CallStack, OnStack, SizesFit
<1>2. f.out \in {"output", "scratch"} /\ p.stretch \in Nat
  BY <1>1 DEF RunType, NodeType
<1>3. CASE p.solver = "BUFFERED"
  <2>1. Held(w) = Ct(f, p.use)
    BY <1>3 DEF Held
  <2>2. a = [pool |-> <<>>, from |-> f.off, len |-> p.use]
    BY <2>1 DEF Ct
  <2>3. p.use \in Nat \ {0} /\ p.use <= p.stretch /\ f.out # "scratch"
    BY <1>1, <1>3 DEF NodeType, Fits
  <2> QED BY <1>2, <1>3, <2>2, <2>3 DEF HoldsPart
<1>4. CASE p.solver = "CT"
  <2>1. f.step = 1 /\ Idle(w) /\ k.solver = "BUFFERED" /\ a \in Ct(f, k.use)
    BY <1>4 DEF Held
  <2>2. a = [pool |-> <<>>, from |-> f.off, len |-> k.use]
    BY <2>1 DEF Ct
  <2>3. p.kids = 1 /\ p.n = 1
    BY <1>1, <1>4 DEF NodeType, Parallel
  <2>4. k \in {Child(w, c) : c \in 1 .. p.kids} /\ NodeType(k)
    BY <1>1, <2>3
  <2>5. k.use \in Nat \ {0} /\ k.use <= k.stretch /\ f.out # "scratch" /\ ChildFits(p, k)
    BY <1>1, <2>1, <2>4 DEF NodeType, Fits
  <2>6. k.stretch \in Nat /\ k.ct \in Nat
    BY <2>4 DEF NodeType
  <2>7. (p.n - 1) * k.ct + k.stretch = k.stretch
    BY <2>3, <2>6
  <2>8. k.stretch <= p.stretch
    BY <1>4, <2>5, <2>6, <2>7 DEF ChildFits
  <2>9. k.use <= p.stretch
    BY <1>2, <2>5, <2>6, <2>8
  <2> QED BY <1>2, <2>1, <2>2, <2>5, <2>9 DEF HoldsPart
<1>5. CASE p.solver = "CTL1D"
  <2>1. f.out = "output" /\ a \in Ct(f, p.use)
    BY <1>5 DEF Held
  <2>2. a = [pool |-> <<>>, from |-> f.off, len |-> p.use]
    BY <2>1 DEF Ct
  <2>3. p.use \in Nat \ {0} /\ p.use <= p.stretch /\ p.kids = 0
    BY <1>1, <1>5 DEF NodeType, Fits
  <2> QED BY <2>1, <2>2, <2>3 DEF HoldsPart
<1>6. CASE p.solver = "BLUESTEIN"
  <2>1. Held(w) = {[pool |-> <<"bs">> \o Children(w), from |-> f.slot, len |-> 1]}
    BY <1>6 DEF Held
  <2> QED BY <1>6, <2>1 DEF HoldsSlot
<1>7. CASE p.solver \notin {"BUFFERED", "CT", "CTL1D", "BLUESTEIN"}
  <2>1. Held(w) = {}
    BY <1>7, Zenon DEF Held
  <2> QED BY <2>1
<1> QED BY <1>3, <1>4, <1>5, <1>6, <1>7

LEMMA SlotPools ==
    ASSUME NEW u \in Seq(Turn), NEW w \in Seq(Turn)
    PROVE  /\ <<"bs">> \o Children(u) # <<>>
           /\ <<"bs">> \o Children(u) = <<"bs">> \o Children(w) => Children(u) = Children(w)
<1> DEFINE S == {"bs"} \cup Nat
           b == <<"bs">>
<1>1. b \in Seq(S) /\ Len(b) = 1 /\ b # <<>>
  OBVIOUS
<1>2. Children(u) \in Seq(S) /\ Children(w) \in Seq(S)
  <2>1. Children(u) \in Seq(Nat) /\ Children(w) \in Seq(Nat) /\ Nat \subseteq S
    BY ChildrenOf
  <2> HIDE DEF S
  <2> QED BY <2>1, SeqMonotonic
<1> HIDE DEF S, b
<1>3. b \o Children(u) = <<>> => b = <<>>
  BY <1>1, <1>2, ConcatSimplifications
<1>4. b \o Children(u) = b \o Children(w) => Children(u) = Children(w)
  BY <1>1, <1>2, ConcatSimplifications
<1> QED BY <1>1, <1>3, <1>4 DEF b

LEMMA HeldApart == CallStack /\ Slots /\ Parts /\ SizesFit => Apart
<1> SUFFICES ASSUME CallStack, Slots, Parts, SizesFit,
                    NEW w \in DOMAIN runs, NEW u \in DOMAIN runs, w # u,
                    NEW a \in Held(w), NEW b \in Held(u), a.pool = b.pool
             PROVE  a.from + a.len <= b.from \/ b.from + b.len <= a.from
  BY DEF Apart, Disjoint
<1>1. w \in Seq(Turn) /\ u \in Seq(Turn) /\ runs[w] \in RunType /\ runs[u] \in RunType
  BY DEF CallStack, OnStack
<1>2. /\ runs[w].slot \in Nat /\ runs[u].slot \in Nat /\ runs[w].off \in Nat /\ runs[u].off \in Nat
  BY <1>1 DEF RunType
<1>3. /\ HoldsSlot(w, a) \/ HoldsPart(w, a)
      /\ HoldsSlot(u, b) \/ HoldsPart(u, b)
  BY Holds
<1>4. CASE HoldsSlot(w, a) /\ HoldsSlot(u, b)
  <2>1. Children(w) = Children(u)
    BY <1>1, <1>4, SlotPools DEF HoldsSlot
  <2>2. runs[w].slot # runs[u].slot
    BY <2>1 DEF Slots
  <2> QED BY <1>2, <1>4, <2>2 DEF HoldsSlot
<1>5. ~(HoldsSlot(w, a) /\ HoldsPart(u, b)) /\ ~(HoldsPart(w, a) /\ HoldsSlot(u, b))
  BY <1>1, SlotPools DEF HoldsSlot, HoldsPart
<1>6. CASE HoldsPart(w, a) /\ HoldsPart(u, b)
  <2>1. ~Above(w, u)
    <3> SUFFICES ASSUME Above(w, u) PROVE FALSE
      OBVIOUS
    <3>1. CASE Node(w).solver = "BUFFERED"
      BY <1>6, <3>1 DEF Parts, HoldsPart
    <3>2. CASE Idle(w) \/ Node(w).kids = 0
      BY <3>2, NothingBelow
    <3> QED BY <1>6, <3>1, <3>2 DEF HoldsPart
  <2>2. ~Above(u, w)
    <3> SUFFICES ASSUME Above(u, w) PROVE FALSE
      OBVIOUS
    <3>1. CASE Node(u).solver = "BUFFERED"
      BY <1>6, <3>1 DEF Parts, HoldsPart
    <3>2. CASE Idle(u) \/ Node(u).kids = 0
      BY <3>2, NothingBelow
    <3> QED BY <1>6, <3>1, <3>2 DEF HoldsPart
  <2>3. Clear(w, u)
    BY <1>6, <2>1, <2>2 DEF Parts, Incomparable, HoldsPart
  <2>4. NodeType(Node(w)) /\ NodeType(Node(u))
    BY NodesTyped
  <2>5. Node(w).stretch \in Nat /\ Node(u).stretch \in Nat
    BY <2>4 DEF NodeType
  <2> QED BY <1>2, <1>6, <2>3, <2>5 DEF Clear, HoldsPart
<1> QED BY <1>3, <1>4, <1>5, <1>6

LEMMA HeldInPool == CallStack /\ Parts /\ SizesFit => InPool
<1> SUFFICES ASSUME CallStack, Parts, SizesFit, NEW w \in DOMAIN runs, NEW a \in Held(w)
             PROVE  a.from + a.len <= IF a.pool = <<>> THEN root.length ELSE Node(w).act
  BY DEF InPool
<1>1. w \in Seq(Turn) /\ runs[w] \in RunType /\ NodeType(Node(w)) /\ root.length \in Nat
  BY NodesTyped, PlansTyped DEF CallStack, OnStack, PlanType
<1>2. runs[w].slot \in Nat /\ runs[w].off \in Nat /\ Node(w).act \in Nat /\ Node(w).stretch \in Nat
  BY <1>1 DEF RunType, NodeType
<1>3. InsidePool(w)
  BY DEF Parts
<1>4. CASE HoldsSlot(w, a)
  <2>1. a.pool # <<>> /\ a.from = runs[w].slot /\ a.len = 1
    BY <1>1, <1>4, SlotPools DEF HoldsSlot
  <2> QED BY <1>2, <1>3, <2>1 DEF InsidePool
<1>5. CASE HoldsPart(w, a)
  BY <1>1, <1>2, <1>3, <1>5 DEF HoldsPart, InsidePool
<1> QED BY <1>4, <1>5, Holds

LEMMA PartsAlways == Spec /\ []SizesFit => [](CallStack /\ Slots /\ Parts)
  BY PartsStart, StackStep, SlotsStep, PartsStep, PTL DEF Spec

(* Where the sizes fit, solvers that run at the same time hold disjoint     *)
(* scratch memory, whatever the plan, the nesting of its parallel loops and *)
(* the teams OpenMP gives (ct_offset and bs_slot_idx).                      *)
THEOREM RunsApart == Spec /\ []SizesFit => []Apart
  BY PartsAlways, HeldApart, PTL

(* ... and all of it is inside the pool setup allocated, the Bluestein slots*)
(* below active_threads.                                                    *)
THEOREM RunsInPool == Spec /\ []SizesFit => []InPool
  BY PartsAlways, HeldInPool, PTL

-----------------------------------------------------------------------------
(* The plans of one-dimensional problems                                    *)

(* A finite set has an element with the greatest value.                     *)
LEMMA Greatest ==
    ASSUME NEW S, IsFiniteSet(S), S # {}, NEW f \in [S -> Nat]
    PROVE  \E x \in S : \A y \in S : f[y] <= f[x]
<1> DEFINE T == {m \in Nat : \A R \in SUBSET S : Cardinality(R) = m + 1 =>
                                \E x \in R : \A y \in R : f[y] <= f[x]}
<1>0. \A R \in SUBSET S : IsFiniteSet(R) /\ Cardinality(R) \in Nat
  BY FS_Subset, FS_CardinalityType
<1>1. 0 \in T
  <2> SUFFICES ASSUME NEW R \in SUBSET S, Cardinality(R) = 0 + 1
               PROVE  \E x \in R : \A y \in R : f[y] <= f[x]
    OBVIOUS
  <2>1. PICK x : R = {x}
    BY <1>0, FS_Singleton
  <2>2. x \in S /\ f[x] \in Nat
    BY <2>1
  <2> QED BY <2>1, <2>2
<1>2. ASSUME NEW m \in Nat, m \in T
      PROVE  m + 1 \in T
  <2> SUFFICES ASSUME NEW R \in SUBSET S, Cardinality(R) = (m + 1) + 1
               PROVE  \E x \in R : \A y \in R : f[y] <= f[x]
    OBVIOUS
  <2>1. R # {}
    BY FS_EmptySet
  <2>2. PICK x : x \in R
    BY <2>1
  <2>3. Cardinality(R \ {x}) = m + 1 /\ R \ {x} \in SUBSET S
    BY <1>0, <2>2, FS_RemoveElement
  <2>4. PICK y \in R \ {x} : \A z \in R \ {x} : f[z] <= f[y]
    BY <1>2, <2>3
  <2>5. \A z \in R : f[z] \in Nat
    OBVIOUS
  <2>6. CASE f[x] <= f[y]
    BY <2>2, <2>4, <2>5, <2>6
  <2>7. CASE ~ (f[x] <= f[y])
    BY <2>2, <2>4, <2>5, <2>7
  <2> QED BY <2>6, <2>7
<1> HIDE DEF T
<1>3. \A n \in Nat : n \in T
  BY <1>1, <1>2, Induction
<1>4. Cardinality(S) - 1 \in Nat /\ Cardinality(S) = (Cardinality(S) - 1) + 1
  <2>1. Cardinality(S) \in Nat /\ Cardinality(S) # 0
    BY <1>0, FS_EmptySet
  <2> QED BY <2>1
<1> QED BY <1>3, <1>4 DEF T

(* The loops fusing leaves are loops; a single one is left as it is.        *)
LEMMA FusedLoops ==
    ASSUME NEW vs \in Seq(Loop), vs # <<>>, NEW may
    PROVE  /\ fuse_vecs(vs, may) \in Seq(Loop) /\ fuse_vecs(vs, may) # <<>>
           /\ Len(vs) = 1 => fuse_vecs(vs, may) = <<vs[1]>>
<1>1. Len(vs) \in Nat \ {0}
  OBVIOUS
<1>2. PICK f : /\ f[0] = <<vs[1]>>
               /\ \A i \in 1 .. Len(vs) - 1 : f[i] = Fuse(vs, may, f[i - 1], i + 1)
               /\ fuse_vecs(vs, may) = f[Len(vs) - 1]
  BY <1>1, FuseSteps
<1> DEFINE T == {m \in Nat : m < Len(vs) => f[m] \in Seq(Loop) /\ f[m] # <<>>}
<1>3. 0 \in T
  <2>1. vs[1] \in Loop
    BY <1>1
  <2>2. <<vs[1]>> \in Seq(Loop) /\ <<vs[1]>> # <<>>
    <3> DEFINE l == vs[1]
    <3>1. l \in Loop
      BY <2>1
    <3> HIDE DEF l
    <3>2. <<l>> \in Seq(Loop) /\ <<l>> # <<>>
      BY <3>1
    <3> QED BY <3>2 DEF l
  <2> QED BY <1>2, <2>2
<1>4. ASSUME NEW m \in Nat, m \in T
      PROVE  m + 1 \in T
  <2>1. CASE m + 1 < Len(vs)
    <3>1. m + 1 \in 1 .. Len(vs) - 1 /\ (m + 1) - 1 = m /\ m < Len(vs)
      BY <1>1, <2>1
    <3>2. f[m] \in Seq(Loop) /\ f[m] # <<>> /\ f[m + 1] = Fuse(vs, may, f[m], (m + 1) + 1)
      BY <1>2, <1>4, <3>1
    <3>3. (m + 1) + 1 \in 1 .. Len(vs) /\ vs[(m + 1) + 1] \in Loop
      BY <3>1
    <3> DEFINE out == f[m]
               w == vs[(m + 1) + 1]
               c == out[Len(out)].n * w.n
    <3>4. Len(out) \in 1 .. Len(out) /\ out[Len(out)] \in Loop
      BY <3>2
    <3>5. c \in Nat \ {0}
      <4>1. out[Len(out)].n \in Nat \ {0} /\ w.n \in Nat \ {0}
        BY <3>3, <3>4 DEF Loop
      <4> HIDE DEF out, w
      <4> QED BY <4>1
    <3>6. [out[Len(out)] EXCEPT !.n = c] \in Loop
      <4> HIDE DEF c, out
      <4> QED BY <3>4, <3>5 DEF Loop
    <3>7. \/ f[m + 1] = [out EXCEPT ![Len(out)] = [out[Len(out)] EXCEPT !.n = c]]
          \/ f[m + 1] = Append(out, w)
      BY <3>2 DEF Fuse
    <3>8. Append(out, w) \in Seq(Loop) /\ Append(out, w) # <<>>
      BY <3>2, <3>3
    <3>9. [out EXCEPT ![Len(out)] = [out[Len(out)] EXCEPT !.n = c]] \in Seq(Loop) \ {<<>>}
      <4> DEFINE l == [out[Len(out)] EXCEPT !.n = c]
      <4>1. out \in Seq(Loop) /\ out # <<>> /\ l \in Loop
        BY <3>2, <3>6
      <4> HIDE DEF l, out
      <4>2. Len(out) \in 1 .. Len(out)
        BY <4>1
      <4>3. [out EXCEPT ![Len(out)] = l] \in Seq(Loop)
        BY <4>1, <4>2, ExceptSeq
      <4>4. Len([out EXCEPT ![Len(out)] = l]) = Len(out)
        BY <4>1, <4>2, ExceptSeq
      <4>5. Len(out) # 0 /\ Len(<<>>) = 0
        BY <4>1, EmptySeq
      <4>6. [out EXCEPT ![Len(out)] = l] # <<>>
        BY <4>4, <4>5
      <4>7. [out EXCEPT ![Len(out)] = l] \in Seq(Loop) \ {<<>>}
        BY <4>3, <4>6
      <4> QED BY <4>7, Zenon DEF l
    <3>10. f[m + 1] \in Seq(Loop) /\ f[m + 1] # <<>>
      <4> HIDE DEF out, w, c
      <4> QED BY <3>7, <3>8, <3>9
    <3> QED BY <3>10
  <2> QED BY <2>1
<1> HIDE DEF T
<1>5. Len(vs) - 1 \in T
  BY <1>1, <1>3, <1>4, Induction
<1>6. Len(vs) - 1 \in Nat /\ Len(vs) - 1 < Len(vs)
  BY <1>1
<1>7. Len(vs) = 1 => fuse_vecs(vs, may) = f[0]
  BY <1>2
<1> QED BY <1>2, <1>5, <1>6, <1>7 DEF T

(* The points of a single dimension or loop.                                *)
LEMMA TimesOne ==
    ASSUME NEW l, l.n \in Nat
    PROVE  Times(<<l>>) = l.n
<1> DEFINE ls == <<l>>
           G(g) == g = [s \in SUBSET DOMAIN ls |->
                          IF s = {} THEN 1 ELSE g[s \ {Max(s)}] * ls[Max(s)].n]
           h == [s \in SUBSET {1} |-> IF s = {} THEN 1 ELSE l.n]
           g == CHOOSE f : G(f)
<1>1. DOMAIN ls = {1} /\ ls[1] = l /\ SUBSET {1} = {{}, {1}}
  OBVIOUS
<1>2. Max({1}) = 1
  <2>1. 1..1 = {1}
    OBVIOUS
  <2>2. 1 \in Nat \ {0}
    OBVIOUS
  <2>3. Max(1..1) = 1
    BY <2>2, MaxTo
  <2> QED BY <2>1, <2>3
<1>3. G(h)
  <2> DEFINE e(s) == IF s = {} THEN 1 ELSE h[s \ {Max(s)}] * ls[Max(s)].n
  <2>1. ASSUME NEW s \in SUBSET {1} PROVE h[s] = e(s)
    <3>1. CASE s = {}
      BY <3>1
    <3>2. CASE s = {1}
      <4>1. s \ {Max(s)} = {} /\ h[{}] = 1 /\ ls[Max(s)] = l
        BY <1>1, <1>2, <3>2
      <4>2. e(s) = 1 * l.n
        BY <3>2, <4>1
      <4>3. h[s] = l.n
        BY <3>2
      <4> QED BY <4>2, <4>3
    <3> QED BY <1>1, <3>1, <3>2
  <2>2. h = [s \in SUBSET {1} |-> e(s)]
    BY <2>1
  <2> QED BY <1>1, <2>2
<1>4. G(g)
  BY <1>3
<1>5. Times(<<l>>) = g[{1}]
  <2>1. Times(ls) = LET iter[s \in SUBSET DOMAIN ls] ==
                            IF s = {} THEN 1 ELSE iter[s \ {Max(s)}] * ls[Max(s)].n
                    IN  iter[DOMAIN ls]
    BY Zenon DEF Times, FoldLeft, MapThenFoldSet
  <2> QED BY <1>1, <2>1
<1>6. g[{}] = 1 /\ g[{1}] = g[{}] * l.n
  <2>1. {} \in SUBSET DOMAIN ls /\ {1} \in SUBSET DOMAIN ls
    BY <1>1
  <2>2. {1} \ {Max({1})} = {} /\ ls[Max({1})] = l
    BY <1>1, <1>2
  <2> HIDE DEF g, h, ls
  <2>3. g[{}] = 1
    BY <1>4, <2>1
  <2>4. g[{1}] = g[{1} \ {Max({1})}] * ls[Max({1})].n
    BY <1>4, <2>1
  <2> QED BY <2>2, <2>3, <2>4
<1> HIDE DEF g
<1> QED BY <1>5, <1>6

AskFields == {"dims", "vecs", "bv", "avl", "act", "inPlace", "inner", "buffered", "pool",
              "size", "part", "forward"}
IsAsk(v) == v = [f \in AskFields |-> v[f]]

LEMMA PerThreadAsk ==
    ASSUME NEW v, IsAsk(v), NEW n
    PROVE  LET u == PerThread(v, n) IN
           /\ IsAsk(u)
           /\ u.vecs = <<[v.vecs[1] EXCEPT !.n = 1]>> /\ u.act = v.act * n
           /\ \A f \in AskFields \ {"vecs", "avl", "act"} : u[f] = v[f]
<1> DEFINE a == <<[v.vecs[1] EXCEPT !.n = 1]>>
           b == v.avl \div n
           c == v.act * n
           v1 == [v EXCEPT !.vecs = a]
           v2 == [v1 EXCEPT !.avl = b]
           v3 == [v2 EXCEPT !.act = c]
<1>1. PerThread(v, n) = v3
  BY DEF PerThread, IsAsk, AskFields
<1>2. v1 = [f \in AskFields |-> IF f = "vecs" THEN a ELSE v[f]]
  BY DEF IsAsk, AskFields
<1> QED BY <1>1, <1>2 DEF IsAsk, AskFields

LEMMA BufferedAskOf ==
    ASSUME NEW v, IsAsk(v)
    PROVE  LET u == BufferedAsk(v) IN
           /\ IsAsk(u)
           /\ u.buffered = FALSE /\ u.pool = TRUE /\ u.inPlace = FALSE
           /\ u.dims = [v.dims EXCEPT ![1].os = Stride(v)]
           /\ u.vecs = [v.vecs EXCEPT ![1].os = v.dims[1].n * Stride(v)]
           /\ \A f \in AskFields \ {"buffered", "pool", "size", "inPlace", "dims", "vecs"} : u[f] = v[f]
BY DEF BufferedAsk, IsAsk, AskFields

LEMMA HalfAskOf ==
    ASSUME NEW v, IsAsk(v), NEW r
    PROVE  LET u == HalfAsk(v, r) IN
           /\ IsAsk(u)
           /\ u.buffered = v.inPlace
           /\ u.dims = <<[n |-> v.dims[1].n \div r, is |-> r * v.dims[1].is, os |-> v.dims[1].os]>>
           /\ u.vecs = <<[n |-> r, is |-> v.dims[1].is, os |-> (v.dims[1].n \div r) * v.dims[1].os]>>
           /\ \A f \in AskFields \ {"buffered", "dims", "vecs"} : u[f] = v[f]
BY DEF HalfAsk, IsAsk, AskFields

(* An ask for transforms of one dimension.                                  *)
LineAsk(v) ==
    /\ IsAsk(v)
    /\ v.dims \in Seq(Loop) /\ Len(v.dims) = 1
    /\ v.vecs \in Seq(Loop) /\ v.vecs # <<>>
    /\ v.bv \in Seq(Loop) /\ (v.bv # <<>> => Len(v.bv) = 1)
    /\ v.part \in {"complex", "real"}
    /\ v.buffered => Len(v.vecs) = 1

(* What fusing and unwinding leave alone.                                   *)
Alike(u, v) == \A f \in AskFields \ {"vecs", "bv"} : u[f] = v[f]

LEMMA FusedAsk ==
    ASSUME NEW v, LineAsk(v)
    PROVE  LineAsk(Fused(v)) /\ Alike(Fused(v), v) /\ Fused(v).bv = v.bv
<1> DEFINE may == HasKernel(v.dims[1].n, v.inner) \/ v.inner
           a == fuse_vecs(v.vecs, may)
           b == fuse_vecs(v.vecs, TRUE)
<1>1. a \in Seq(Loop) /\ a # <<>> /\ (Len(v.vecs) = 1 => a = <<v.vecs[1]>>)
  <2> HIDE DEF may
  <2> QED BY FusedLoops DEF LineAsk
<1>2. b \in Seq(Loop) /\ b # <<>> /\ (Len(v.vecs) = 1 => b = <<v.vecs[1]>>)
  <2> DEFINE yes == TRUE
  <2> HIDE DEF yes
  <2> QED BY FusedLoops, Zenon DEF LineAsk, yes
<1>3. v.part = "complex" => Fused(v) = [v EXCEPT !.vecs = a]
  BY Zenon DEF Fused
<1>4. v.part = "real" => Fused(v) = [v EXCEPT !.vecs = b]
  BY Zenon DEF Fused
<1>5. ASSUME NEW c, c \in Seq(Loop), c # <<>>, Len(v.vecs) = 1 => c = <<v.vecs[1]>>
      PROVE  LET u == [v EXCEPT !.vecs = c] IN LineAsk(u) /\ Alike(u, v) /\ u.bv = v.bv
  <2> DEFINE u == [v EXCEPT !.vecs = c]
  <2>1. IsAsk(u) /\ Alike(u, v) /\ u.bv = v.bv /\ u.vecs = c
    BY DEF LineAsk, IsAsk, AskFields, Alike
  <2>2. v.buffered => Len(c) = 1
    BY <1>5 DEF LineAsk
  <2> HIDE DEF u
  <2>3. LineAsk(u)
    BY <1>5, <2>1, <2>2 DEF LineAsk, Alike, AskFields
  <2> QED BY <2>1, <2>3 DEF u
<1> HIDE DEF a, b
<1> QED BY <1>1, <1>2, <1>3, <1>4, <1>5 DEF LineAsk

LEMMA UnwoundAsk ==
    ASSUME NEW v, LineAsk(v)
    PROVE  LineAsk(Unwound(v)) /\ Alike(Unwound(v), v)
<1> DEFINE b == <<v.vecs[1]>>
           c == IF Len(v.vecs) = 1 THEN <<[n |-> 1, is |-> 1, os |-> 1]>> ELSE Tail(v.vecs)
           v1 == [v EXCEPT !.bv = b]
           u == [v1 EXCEPT !.vecs = c]
<1>1. v.vecs \in Seq(Loop) /\ Len(v.vecs) \in Nat \ {0} /\ v.vecs[1] \in Loop
  BY DEF LineAsk
<1>2. b \in Seq(Loop) /\ Len(b) = 1
  <2> DEFINE l == v.vecs[1]
  <2>1. l \in Loop
    BY <1>1
  <2> HIDE DEF l
  <2>2. <<l>> \in Seq(Loop) /\ Len(<<l>>) = 1
    BY <2>1
  <2> QED BY <2>2 DEF l
<1>3. c \in Seq(Loop) /\ c # <<>> /\ (Len(v.vecs) = 1 => Len(c) = 1)
  <2> DEFINE l == [n |-> 1, is |-> 1, os |-> 1]
  <2>1. l \in Loop
    BY DEF Loop
  <2> HIDE DEF l
  <2>2. <<l>> \in Seq(Loop) /\ <<l>> # <<>> /\ Len(<<l>>) = 1
    BY <2>1
  <2>3. Len(v.vecs) # 1 => Tail(v.vecs) \in Seq(Loop) /\ Tail(v.vecs) # <<>>
    <3> DEFINE s == v.vecs
    <3>1. s \in Seq(Loop) /\ Len(s) \in Nat \ {0}
      BY <1>1
    <3> HIDE DEF s
    <3>2. ASSUME Len(s) # 1 PROVE Tail(s) \in Seq(Loop) /\ Tail(s) # <<>>
      <4>1. s # <<>>
        BY <3>1, EmptySeq
      <4>2. Tail(s) \in Seq(Loop) /\ Len(Tail(s)) = Len(s) - 1
        BY <3>1, <4>1, HeadTailProperties
      <4>3. Len(Tail(s)) # 0
        BY <3>1, <3>2, <4>2
      <4> QED BY <4>2, <4>3, EmptySeq
    <3> QED BY <3>2 DEF s
  <2> QED BY <2>2, <2>3 DEF l
<1>4. Unwound(v) = v \/ Unwound(v) = u
  BY DEF Unwound, LineAsk, IsAsk, AskFields
<1>5. IsAsk(u) /\ Alike(u, v) /\ u.bv = b /\ u.vecs = c
  <2> HIDE DEF b, c
  <2> QED BY DEF LineAsk, IsAsk, AskFields, Alike
<1> HIDE DEF b, c, u
<1>6. LineAsk(u)
  BY <1>1, <1>2, <1>3, <1>5 DEF LineAsk, Alike, AskFields
<1>7. Alike(v, v)
  BY DEF Alike
<1> QED BY <1>4, <1>5, <1>6, <1>7

LineKinds == {"BUFFERED", "CTL1D", "BATCHED", "BLUESTEIN", "DIRECT", "CT", "REAL_LINE"}

LEMMA LineKind ==
    ASSUME NEW v, LineAsk(v)
    PROVE  /\ KindOf(v) \in LineKinds
           /\ KindOf(v) = "BUFFERED" => v.buffered
<1>1. /\ LineAsk(Fused(v)) /\ Alike(Fused(v), v)
      /\ Len(Fused(v).dims) = 1 /\ Fused(v).buffered = v.buffered
      /\ Fused(v).dims = v.dims
  BY FusedAsk DEF Alike, AskFields, LineAsk
<1>2. CASE v.part = "complex"
  <2>1. KindOf(v) = Kind(Fused(v))
    BY <1>2, Zenon DEF KindOf
  <2> DEFINE u == Fused(v)
  <2>2. Len(u.dims) = 1 /\ u.buffered = v.buffered
    BY <1>1
  <2> HIDE DEF u
  <2>3. Kind(u) \in LineKinds /\ (Kind(u) = "BUFFERED" => u.buffered)
    BY <2>2 DEF Kind, LineKinds
  <2> QED BY <2>1, <2>2, <2>3 DEF u
<1>3. CASE v.part = "real"
  <2>1. KindOf(v) = RealKind(Fused(v), v.vecs)
    BY <1>3, Zenon DEF KindOf
  <2>2. RealKind(Fused(v), v.vecs) = "REAL_LINE"
    BY <1>1, Zenon DEF RealKind
  <2> QED BY <2>1, <2>2 DEF LineKinds
<1> QED BY <1>2, <1>3 DEF LineAsk

(* A node that does not work in a slice of its own, nor any below it.       *)
Quiet(v) == v.inPlace = FALSE /\ v.buffered = FALSE

(* What u asks of the child of a node asked for v.                          *)
LineChild(v, u) ==
    /\ LineAsk(u)
    /\ Quiet(v) => Quiet(u)
    /\ \/ KindOf(v) = "BUFFERED" /\ Quiet(u) /\ u.pool = TRUE /\ u.act = v.act
       \/ KindOf(v) = "CT" /\ u.pool = v.pool /\ u.act = v.act
       \/ KindOf(v) = "BATCHED" /\ u.pool = v.pool /\ u.act = v.act * NThreads(Unwound(Fused(v)))

LEMMA OneLoop ==
    ASSUME NEW n \in Nat \ {0}, NEW is \in Nat \ {0}, NEW os \in Nat \ {0}
    PROVE  LET s == <<[n |-> n, is |-> is, os |-> os]>> IN s \in Seq(Loop) /\ Len(s) = 1 /\ s # <<>>
<1> DEFINE l == [n |-> n, is |-> is, os |-> os]
<1>1. l \in Loop
  BY DEF Loop
<1> HIDE DEF l
<1>2. <<l>> \in Seq(Loop) /\ Len(<<l>>) = 1 /\ <<l>> # <<>>
  BY <1>1
<1> QED BY <1>2 DEF l

(* The span of a column-major loop.                                         *)
LEMMA StrideIs ==
    ASSUME NEW v, LineAsk(v)
    PROVE  Stride(v) \in Nat \ {0} /\ Gap(v) \in Nat \ {0}
<1>1. CASE v.bv = <<>>
  BY <1>1 DEF Stride, Gap
<1>2. CASE v.bv # <<>>
  <2>1. v.bv[1] \in Loop
    BY <1>2 DEF LineAsk
  <2>2. v.bv[1].n \in Nat \ {0} /\ v.bv[1].os \in Nat \ {0}
    BY <2>1 DEF Loop
  <2>3. Stride(v) = v.bv[1].n * v.bv[1].os /\ Gap(v) = v.bv[1].os
    BY <1>2 DEF Stride, Gap
  <2> QED BY <2>2, <2>3
<1> QED BY <1>1, <1>2

LEMMA BufferedChild ==
    ASSUME NEW v, LineAsk(v), KindOf(v) = "BUFFERED"
    PROVE  LineChild(v, BufferedAsk(Fused(v)))
<1> DEFINE f == Fused(v)
           u == BufferedAsk(f)
<1>1. LineAsk(f) /\ Alike(f, v)
  BY FusedAsk
<1> HIDE DEF f
<1>2. IsAsk(f) /\ f.dims \in Seq(Loop) /\ Len(f.dims) = 1 /\ f.vecs \in Seq(Loop)
      /\ f.vecs # <<>> /\ Len(f.vecs) \in Nat \ {0}
  BY <1>1 DEF LineAsk
<1>3. Stride(f) \in Nat \ {0}
  BY <1>1, StrideIs
<1>4. /\ IsAsk(u)
      /\ u.buffered = FALSE /\ u.pool = TRUE /\ u.inPlace = FALSE
      /\ u.dims = [f.dims EXCEPT ![1].os = Stride(f)]
      /\ u.vecs = [f.vecs EXCEPT ![1].os = f.dims[1].n * Stride(f)]
      /\ \A x \in AskFields \ {"buffered", "pool", "size", "inPlace", "dims", "vecs"} : u[x] = f[x]
  BY <1>2, BufferedAskOf
<1>5. ASSUME NEW s, s \in Seq(Loop), Len(s) \in Nat \ {0}, NEW os \in Nat \ {0}
      PROVE  LET t == [s EXCEPT ![1].os = os] IN t \in Seq(Loop) /\ Len(t) = Len(s)
  <2> DEFINE l == [s[1] EXCEPT !.os = os]
  <2>1. s[1] \in Loop /\ 1 \in 1 .. Len(s)
    BY <1>5
  <2>2. l \in Loop
    BY <2>1 DEF Loop
  <2> HIDE DEF l
  <2>3. [s EXCEPT ![1] = l] \in Seq(Loop) /\ Len([s EXCEPT ![1] = l]) = Len(s)
    BY <1>5, <2>1, <2>2, ExceptSeq
  <2> QED BY <2>3, Zenon DEF l
<1> HIDE DEF u
<1>6. f.dims[1].n \in Nat \ {0}
  <2>1. f.dims[1] \in Loop
    BY <1>2
  <2> QED BY <2>1 DEF Loop
<1>7. f.dims[1].n * Stride(f) \in Nat \ {0}
  <2> DEFINE a == f.dims[1].n
             b == Stride(f)
  <2>1. a \in Nat \ {0} /\ b \in Nat \ {0}
    BY <1>3, <1>6
  <2> HIDE DEF a, b
  <2>2. a * b \in Nat \ {0}
    BY <2>1
  <2> QED BY <2>2 DEF a, b
<1>8. u.dims \in Seq(Loop) /\ Len(u.dims) = 1
  <2> DEFINE s == f.dims
  <2>1. s \in Seq(Loop) /\ Len(s) = 1 /\ Len(s) \in Nat \ {0}
    BY <1>2
  <2>2. u.dims = [s EXCEPT ![1].os = Stride(f)]
    BY <1>4
  <2> HIDE DEF s
  <2> QED BY <1>3, <1>5, <2>1, <2>2
<1>9. u.vecs \in Seq(Loop) /\ Len(u.vecs) = Len(f.vecs)
  BY <1>2, <1>4, <1>5, <1>7
<1>10. u.vecs # <<>>
  BY <1>2, <1>9, EmptySeq
<1>11. u.bv = f.bv /\ u.part = f.part /\ u.act = f.act
  BY <1>4 DEF AskFields
<1>12. f.act = v.act
  BY <1>1 DEF Alike, AskFields
<1>13. LineAsk(u)
  BY <1>1, <1>4, <1>8, <1>9, <1>10, <1>11 DEF LineAsk
<1>14. Quiet(u)
  BY <1>4 DEF Quiet
<1> QED BY <1>4, <1>11, <1>12, <1>13, <1>14 DEF LineChild, u, f

(* A factor of a size leaves a quotient of at least one.                    *)
LEMMA Quotient ==
    ASSUME NEW n \in Nat \ {0}, NEW r \in Nat \ {0}, n % r = 0
    PROVE  n \div r \in Nat \ {0}
  BY SMTT(30)

LEMMA HalfChild ==
    ASSUME NEW v, LineAsk(v), KindOf(v) = "CT", NEW r \in TwiddleKernels, Fused(v).dims[1].n % r = 0
    PROVE  LineChild(v, HalfAsk(Fused(v), r))
<1> DEFINE f == Fused(v)
           u == HalfAsk(f, r)
           d == f.dims[1]
           q == d.n \div r
<1>1. LineAsk(f) /\ Alike(f, v)
  BY FusedAsk
<1>2. IsAsk(f) /\ d \in Loop /\ d.n % r = 0
  BY <1>1 DEF LineAsk
<1>3. r \in Nat \ {0}
  BY KernelsTyped
<1> HIDE DEF f
<1>4. /\ IsAsk(u)
      /\ u.buffered = f.inPlace
      /\ u.dims = <<[n |-> q, is |-> r * d.is, os |-> d.os]>>
      /\ u.vecs = <<[n |-> r, is |-> d.is, os |-> q * d.os]>>
      /\ \A x \in AskFields \ {"buffered", "dims", "vecs"} : u[x] = f[x]
  BY <1>2, HalfAskOf
<1> HIDE DEF u, d
<1>5. d.n \in Nat \ {0} /\ d.is \in Nat \ {0} /\ d.os \in Nat \ {0}
  BY <1>2 DEF Loop
<1>6. q \in Nat \ {0}
  BY <1>2, <1>3, <1>5, Quotient
<1> HIDE DEF q
<1>7. r * d.is \in Nat \ {0} /\ q * d.os \in Nat \ {0}
  <2> DEFINE a == d.is
             b == d.os
  <2>1. a \in Nat \ {0} /\ b \in Nat \ {0}
    BY <1>5
  <2> HIDE DEF a, b
  <2>2. r * a \in Nat \ {0} /\ q * b \in Nat \ {0}
    BY <1>3, <1>6, <2>1
  <2> QED BY <2>2 DEF a, b
<1>8. u.dims \in Seq(Loop) /\ Len(u.dims) = 1
  BY <1>4, <1>5, <1>6, <1>7, OneLoop
<1>9. u.vecs \in Seq(Loop) /\ Len(u.vecs) = 1 /\ u.vecs # <<>>
  BY <1>3, <1>4, <1>5, <1>7, OneLoop
<1>10. u.bv = f.bv /\ u.part = f.part /\ u.act = f.act /\ u.inPlace = f.inPlace /\ u.pool = f.pool
  BY <1>4 DEF AskFields
<1>11. f.act = v.act /\ f.inPlace = v.inPlace /\ f.pool = v.pool
  BY <1>1 DEF Alike, AskFields
<1>12. LineAsk(u)
  BY <1>1, <1>4, <1>8, <1>9, <1>10 DEF LineAsk
<1>13. Quiet(v) => Quiet(u)
  BY <1>4, <1>10, <1>11 DEF Quiet
<1> QED BY <1>10, <1>11, <1>12, <1>13 DEF LineChild, u, f

LEMMA ThreadChild ==
    ASSUME NEW v, LineAsk(v), KindOf(v) = "BATCHED"
    PROVE  LineChild(v, PerThread(Unwound(Fused(v)), NThreads(Unwound(Fused(v)))))
<1> DEFINE f == Unwound(Fused(v))
           n == NThreads(f)
           u == PerThread(f, n)
           d == f.vecs[1]
<1>1. LineAsk(f) /\ Alike(f, v)
  <2>1. LineAsk(Fused(v)) /\ Alike(Fused(v), v)
    BY FusedAsk
  <2>2. LineAsk(f) /\ Alike(f, Fused(v))
    BY <2>1, UnwoundAsk
  <2> QED BY <2>1, <2>2 DEF Alike
<1>2. IsAsk(f) /\ d \in Loop
  <2>1. f.vecs \in Seq(Loop) /\ f.vecs # <<>> /\ IsAsk(f)
    BY <1>1 DEF LineAsk
  <2> QED BY <2>1
<1> HIDE DEF f, n, d
<1>3. /\ IsAsk(u)
      /\ u.vecs = <<[d EXCEPT !.n = 1]>> /\ u.act = f.act * n
      /\ \A x \in AskFields \ {"vecs", "avl", "act"} : u[x] = f[x]
  BY <1>2, PerThreadAsk DEF d
<1> HIDE DEF u
<1>4. d.is \in Nat \ {0} /\ d.os \in Nat \ {0} /\ [d EXCEPT !.n = 1] = [n |-> 1, is |-> d.is, os |-> d.os]
  BY <1>2 DEF Loop
<1>5. u.vecs \in Seq(Loop) /\ Len(u.vecs) = 1 /\ u.vecs # <<>>
  BY <1>3, <1>4, OneLoop
<1>6. /\ u.dims = f.dims /\ u.bv = f.bv /\ u.part = f.part /\ u.buffered = f.buffered
      /\ u.inPlace = f.inPlace /\ u.pool = f.pool
  BY <1>3 DEF AskFields
<1>7. f.act = v.act /\ f.inPlace = v.inPlace /\ f.pool = v.pool /\ f.buffered = v.buffered
  BY <1>1 DEF Alike, AskFields
<1>8. LineAsk(u)
  BY <1>1, <1>3, <1>5, <1>6 DEF LineAsk
<1>9. Quiet(v) => Quiet(u)
  BY <1>6, <1>7 DEF Quiet
<1> QED BY <1>3, <1>6, <1>7, <1>8, <1>9 DEF LineChild, u, n, f

LEMMA LineAsks ==
    ASSUME NEW v, LineAsk(v), NEW asks \in Asks(v)
    PROVE  IF KindOf(v) \in {"BUFFERED", "BATCHED", "CT"}
           THEN \E u : asks = <<u>> /\ LineChild(v, u)
           ELSE asks = <<>>
<1>1. CASE KindOf(v) = "BUFFERED"
  <2>1. asks = <<BufferedAsk(Fused(v))>>
    BY <1>1, Zenon DEF Asks
  <2> QED BY <1>1, <2>1, BufferedChild
<1>2. CASE KindOf(v) = "BATCHED"
  <2>1. asks = <<PerThread(Unwound(Fused(v)), NThreads(Unwound(Fused(v))))>>
    BY <1>2, Zenon DEF Asks
  <2> QED BY <1>2, <2>1, ThreadChild
<1>3. CASE KindOf(v) = "CT"
  <2>1. Asks(v) = {<<HalfAsk(Fused(v), r)>> : r \in {r \in TwiddleKernels : Fused(v).dims[1].n % r = 0}}
    BY <1>3, Zenon DEF Asks
  <2>2. PICK r \in TwiddleKernels : Fused(v).dims[1].n % r = 0 /\ asks = <<HalfAsk(Fused(v), r)>>
    BY <2>1
  <2> QED BY <1>3, <2>2, HalfChild
<1>4. CASE KindOf(v) \in {"CTL1D", "BLUESTEIN", "DIRECT", "REAL_LINE"}
  <2>1. Asks(v) = {<<>>}
    BY <1>4, Zenon DEF Asks
  <2> QED BY <1>4, <2>1
<1> QED BY <1>1, <1>2, <1>3, <1>4, LineKind DEF LineKinds

-----------------------------------------------------------------------------
(* Nodes of such plans                                                      *)

LEMMA Most ==
    ASSUME NEW ks
    PROVE  LET most == Max({0} \cup {ks[c].stretch : c \in DOMAIN ks}) IN
           /\ DOMAIN ks = {} => most = 0
           /\ DOMAIN ks = {1} /\ ks[1].stretch \in Nat => most = ks[1].stretch
<1> DEFINE S == {0} \cup {ks[c].stretch : c \in DOMAIN ks}
<1>1. ASSUME DOMAIN ks = {} PROVE Max(S) = 0
  <2>1. S = {0}
    BY <1>1
  <2>2. \A x \in {0} : (\A y \in {0} : x >= y) => x = 0
    OBVIOUS
  <2> HIDE DEF S
  <2> QED BY <2>1, <2>2 DEF Max
<1>2. ASSUME DOMAIN ks = {1}, ks[1].stretch \in Nat PROVE Max(S) = ks[1].stretch
  <2> DEFINE m == ks[1].stretch
  <2>1. S = {0, m}
    BY <1>2
  <2>2. m \in Nat
    BY <1>2
  <2> HIDE DEF S, m
  <2>3. \A x \in {0, m} : (\A y \in {0, m} : x >= y) => x = m
    BY <2>2
  <2>4. m \in {0, m} /\ \A y \in {0, m} : m >= y
    BY <2>2
  <2>5. Max(S) = m
    BY <2>1, <2>3, <2>4 DEF Max
  <2> QED BY <2>5 DEF m
<1> QED BY <1>1, <1>2

(* What is common to the nodes of lines.                                    *)
Common(p, v, ks) ==
    p.ask = v /\ p.act = v.act /\ p.parts = 1 /\ p.kids = Len(ks)

LEMMA BufferedIs ==
    ASSUME NEW v, KindOf(v) = "BUFFERED", NEW ks
    PROVE  LET p == NodeFor(v, ks)
               f == Fused(v)
           IN  /\ Common(p, v, ks) /\ p.solver = "BUFFERED" /\ p.n = 1
               /\ p.ct = BufferedSize(f, Slice(f))
               /\ p.use = Slice(f) - Gap(f) + 1 /\ p.stretch = p.use
               /\ p.own = IF v.pool THEN 0 ELSE p.ct * p.act
<1> DEFINE f == Fused(v)
           size == BufferedSize(f, Slice(f))
           use == Slice(f) - Gap(f) + 1
           own == IF v.pool THEN 0 ELSE size * v.act
           m == NodeMade(v, ks)
<1>1. m = BufferedNode(v, ks)
  BY Zenon DEF NodeMade
<1>2. m = [Plan(v, "BUFFERED", size, ks) EXCEPT !.use = use, !.own = own]
  BY <1>1, Zenon DEF BufferedNode
<1> HIDE DEF size, use, own, m
<1>3. m = [ask |-> v, solver |-> "BUFFERED", n |-> 1, act |-> v.act, ct |-> size, conc |-> 0,
           own |-> own, parts |-> 1, use |-> use, kids |-> Len(ks), stretch |-> 0]
  BY <1>2 DEF Plan
<1>4. Touched(m, ks) = m.use
  BY <1>3 DEF Touched
<1>5. NodeFor(v, ks) = [m EXCEPT !.stretch = m.use]
  BY <1>4 DEF NodeFor, m
<1> QED BY <1>3, <1>5 DEF Common, size, use, own

LEMMA CTL1DIs ==
    ASSUME NEW v, KindOf(v) = "CTL1D", NEW ks
    PROVE  LET p == NodeFor(v, ks)
               n == v.dims[1].n
           IN  /\ p.ask = v /\ p.act = v.act /\ p.parts = 1 /\ p.kids = 0
               /\ p.solver = "CTL1D" /\ p.n = 1
               /\ p.ct = (IF v.pool THEN n ELSE Pad(n))
               /\ p.use = n /\ p.stretch = p.use
               /\ p.own = IF v.pool THEN 0 ELSE p.ct * p.act
<1> DEFINE n == v.dims[1].n
           size == IF v.pool THEN n ELSE Pad(n)
           own == IF v.pool THEN 0 ELSE size * v.act
           m == NodeMade(v, ks)
<1>1. m = CTL1DNode(v)
  BY Zenon DEF NodeMade
<1>2. m = [Plan(v, "CTL1D", size, <<>>) EXCEPT !.use = n, !.own = own]
  BY <1>1, Zenon DEF CTL1DNode
<1> HIDE DEF size, n, own, m
<1>3. m = [ask |-> v, solver |-> "CTL1D", n |-> 1, act |-> v.act, ct |-> size, conc |-> 0,
           own |-> own, parts |-> 1, use |-> n, kids |-> 0, stretch |-> 0]
  BY <1>2 DEF Plan
<1>4. Touched(m, ks) = m.use
  BY <1>3 DEF Touched
<1>5. NodeFor(v, ks) = [m EXCEPT !.stretch = m.use]
  BY <1>4 DEF NodeFor, m
<1> QED BY <1>3, <1>5 DEF size, n, own

LEMMA BatchedIs ==
    ASSUME NEW v, KindOf(v) = "BATCHED", NEW ks, DOMAIN ks = {1}, ks[1].stretch \in Nat
    PROVE  LET p == NodeFor(v, ks)
               n == NThreads(Unwound(Fused(v)))
               s == ks[1].stretch
           IN  /\ Common(p, v, ks) /\ p.n = n
               /\ p.solver = IF n = 1 THEN "BATCHED" ELSE "MT_BATCHED"
               /\ p.ct = n * ks[1].ct /\ p.own = 0
               /\ p.stretch = IF n = 1 THEN s ELSE IF s = 0 THEN 0 ELSE (n - 1) * ks[1].ct + s
<1> DEFINE n == NThreads(Unwound(Fused(v)))
           solver == IF n = 1 THEN "BATCHED" ELSE "MT_BATCHED"
           k == ks[1]
           ct == BatchedSize(n, k)
           conc == IF k.solver = "NDIM" THEN IF k.conc = 0 THEN n ELSE k.conc * n ELSE 0
           most == Max({0} \cup {ks[c].stretch : c \in DOMAIN ks})
           m == NodeMade(v, ks)
<1>1. m = BatchedNode(v, ks)
  BY Zenon DEF NodeMade
<1>2. m = [Plan(v, solver, ct, ks) EXCEPT !.n = n, !.conc = conc]
  BY <1>1, Zenon DEF BatchedNode
<1>3. most = k.stretch
  BY Most
<1>4. ct = n * k.ct
  BY DEF BatchedSize
<1> HIDE DEF n, solver, ct, conc, m, most
<1>5. m = [ask |-> v, solver |-> solver, n |-> n, act |-> v.act, ct |-> ct, conc |-> conc,
           own |-> 0, parts |-> 1, use |-> 0, kids |-> Len(ks), stretch |-> 0]
  BY <1>2 DEF Plan
<1>6. n = 1 => Touched(m, ks) = most
  BY <1>5 DEF Touched, solver, most
<1>7. n # 1 => Touched(m, ks) = IF most = 0 THEN 0 ELSE (n - 1) * k.ct + most
  BY <1>5 DEF Touched, solver, most
<1>8. NodeFor(v, ks) = [m EXCEPT !.stretch = Touched(m, ks)]
  BY DEF NodeFor, m
<1> QED BY <1>3, <1>4, <1>5, <1>6, <1>7, <1>8 DEF Common, solver, n

LEMMA CTIs ==
    ASSUME NEW v, KindOf(v) = "CT", NEW ks, DOMAIN ks = {1}, ks[1].stretch \in Nat
    PROVE  LET p == NodeFor(v, ks) IN
           /\ Common(p, v, ks) /\ p.n = 1 /\ p.solver = "CT"
           /\ p.ct = ks[1].ct /\ p.own = 0 /\ p.stretch = ks[1].stretch
<1> DEFINE most == Max({0} \cup {ks[c].stretch : c \in DOMAIN ks})
           m == NodeMade(v, ks)
<1>1. m = Plan(v, "CT", ks[1].ct, ks)
  BY Zenon DEF NodeMade
<1>2. most = ks[1].stretch
  BY Most
<1> HIDE DEF m, most
<1>3. Touched(m, ks) = most
  BY <1>1 DEF Touched, Plan, most
<1>4. NodeFor(v, ks) = [m EXCEPT !.stretch = most]
  BY <1>3 DEF NodeFor, m
<1> QED BY <1>1, <1>2, <1>4 DEF Common, Plan

LEMMA LeafIs ==
    ASSUME NEW v, KindOf(v) \in {"BLUESTEIN", "DIRECT", "REAL_LINE"}, NEW ks, DOMAIN ks = {}
    PROVE  LET p == NodeFor(v, ks) IN
           /\ Common(p, v, ks) /\ p.n = 1 /\ p.solver = KindOf(v)
           /\ p.ct = v.size /\ p.own = 0 /\ p.stretch = 0
<1> DEFINE most == Max({0} \cup {ks[c].stretch : c \in DOMAIN ks})
           kind == KindOf(v)
           m == NodeMade(v, ks)
<1>1. m = Plan(v, kind, v.size, ks)
  BY Zenon DEF NodeMade
<1>2. most = 0
  BY Most
<1> HIDE DEF m, most, kind
<1>3. kind \in {"BLUESTEIN", "DIRECT", "REAL_LINE"}
  BY DEF kind
<1>4. Touched(m, ks) = most
  BY <1>1, <1>3 DEF Touched, Plan, most
<1>5. NodeFor(v, ks) = [m EXCEPT !.stretch = most]
  BY <1>4 DEF NodeFor, m
<1> QED BY <1>1, <1>2, <1>5 DEF Common, Plan, kind

-----------------------------------------------------------------------------
(* Their plans                                                              *)

(* T is a plan of a problem of one dimension, with nodes as execution reads.*)
LinePlan(T) ==
    /\ \E p \in Problems : PlanOf(T, p) /\ Len(p.dims) = 1
    /\ PlanType(Layout(T))

LEMMA RootOfLine ==
    ASSUME NEW T, LinePlan(T)
    PROVE  /\ LineAsk(T[<<>>].ask) /\ T[<<>>].ask.pool = FALSE /\ T[<<>>].ask.act = 1
           /\ IsTree(T) /\ \A w \in DOMAIN T : Selected(T, w)
<1>1. PICK p \in Problems : PlanOf(T, p) /\ Len(p.dims) = 1
  BY DEF LinePlan
<1>2. /\ p.dims \in Seq(Loop) /\ p.vecs \in Seq(Loop) /\ p.vecs # <<>>
  BY ProblemsTyped DEF ProblemType
<1> DEFINE v == RootAsk(p)
           part == IF p.kind = "complex" THEN "complex" ELSE "real"
           forward == p.kind = "forward"
<1>3. /\ v.dims = p.dims /\ v.vecs = p.vecs /\ v.bv = <<>> /\ v.part = part
      /\ v.act = 1 /\ v.pool = FALSE /\ v.buffered = FALSE
  BY DEF RootAsk
<1>4. IsAsk(v)
  <2>1. v = [dims |-> p.dims, vecs |-> p.vecs, bv |-> <<>>, avl |-> p.threads, act |-> 1,
             inPlace |-> p.inPlace, inner |-> TRUE, buffered |-> FALSE, pool |-> FALSE, size |-> 0,
             part |-> part, forward |-> forward]
    BY DEF RootAsk
  <2> HIDE DEF v, part, forward
  <2> QED BY <2>1 DEF IsAsk, AskFields
<1> HIDE DEF v
<1>5. <<>> \in Seq(Loop) /\ part \in {"complex", "real"}
  OBVIOUS
<1>6. LineAsk(v)
  BY <1>1, <1>2, <1>3, <1>4, <1>5 DEF LineAsk
<1>7. T[<<>>].ask = v /\ IsTree(T) /\ \A w \in DOMAIN T : Selected(T, w)
  BY <1>1 DEF PlanOf, v
<1> QED BY <1>3, <1>6, <1>7

(* A node of a plan, as setup made it for what it was asked.                *)
Made(T, w) == T[w] = NodeFor(T[w].ask, Kids(T, w))

LEMMA NodeRead ==
    ASSUME NEW T, LinePlan(T), NEW w \in DOMAIN T
    PROVE  /\ NodeType(Read(T[w]))
           /\ T[w].n \in Nat \ {0} /\ T[w].act \in Nat \ {0} /\ T[w].ct \in Nat
           /\ T[w].use \in Nat /\ T[w].kids \in Nat /\ T[w].stretch \in Nat
<1>1. w \in DOMAIN Layout(T).node /\ Layout(T).node[w] = Read(T[w])
  BY DEF Layout
<1>2. NodeType(Read(T[w]))
  BY <1>1 DEF LinePlan, PlanType
<1> QED BY <1>2 DEF NodeType, Read

(* What a node asks is what its only child, if any, was asked.              *)
LEMMA OnlyChild ==
    ASSUME NEW T, LinePlan(T), NEW w \in DOMAIN T, LineAsk(T[w].ask)
    PROVE  IF KindOf(T[w].ask) \in {"BUFFERED", "BATCHED", "CT"}
           THEN /\ T[w].kids = 1 /\ Append(w, 1) \in DOMAIN T
                /\ LineChild(T[w].ask, T[Append(w, 1)].ask)
                /\ DOMAIN Kids(T, w) = {1} /\ Kids(T, w)[1] = T[Append(w, 1)]
           ELSE T[w].kids = 0 /\ DOMAIN Kids(T, w) = {}
<1> DEFINE v == T[w].ask
           asks == [c \in 1 .. T[w].kids |-> T[Append(w, c)].ask]
<1>1. asks \in Asks(v)
  BY RootOfLine DEF Selected
<1>2. T[w].kids \in Nat
  BY NodeRead
<1>3. \A c \in 1 .. T[w].kids : Append(w, c) \in DOMAIN T
  BY RootOfLine DEF IsTree
<1>4. DOMAIN Kids(T, w) = 1 .. T[w].kids /\ \A c \in 1 .. T[w].kids : Kids(T, w)[c] = T[Append(w, c)]
  BY DEF Kids
<1>5. CASE KindOf(v) \in {"BUFFERED", "BATCHED", "CT"}
  <2> HIDE DEF asks
  <2>1. PICK u : asks = <<u>> /\ LineChild(v, u)
    BY <1>1, <1>5, LineAsks
  <2>2. DOMAIN asks = 1 .. 1 /\ asks[1] = u
    BY <2>1
  <2>3. 1 .. T[w].kids = 1 .. 1
    BY <2>2 DEF asks
  <2>4. T[w].kids = 1
    BY <1>2, <2>3
  <2>5. asks[1] = T[Append(w, 1)].ask
    BY <2>4 DEF asks
  <2> QED BY <1>3, <1>4, <1>5, <2>1, <2>2, <2>4, <2>5
<1>6. CASE KindOf(v) \notin {"BUFFERED", "BATCHED", "CT"}
  <2> HIDE DEF asks
  <2>1. asks = <<>>
    BY <1>1, <1>6, LineAsks
  <2>2. DOMAIN asks = {}
    BY <2>1
  <2>3. 1 .. T[w].kids = {}
    BY <2>2 DEF asks
  <2>4. T[w].kids = 0
    BY <1>2, <2>3
  <2> QED BY <1>4, <1>6, <2>3, <2>4
<1> QED BY <1>5, <1>6

(* A way that is not empty.                                                 *)
LEMMA FrontLast ==
    ASSUME NEW w \in Seq(Nat), w # <<>>
    PROVE  /\ Front(w) \in Seq(Nat) /\ Len(w) \in Nat /\ Len(w) = Len(Front(w)) + 1
           /\ Last(w) \in Nat /\ w = Append(Front(w), Last(w))
<1>1. PICK s \in Seq(Nat), x \in Nat : w = Append(s, x)
  BY SequenceEmptyOrAppend
<1>2. Len(s) \in Nat /\ Len(w) = Len(s) + 1 /\ w[Len(s) + 1] = x /\ (Len(s) + 1) - 1 = Len(s)
      /\ \A j \in 1 .. Len(s) : w[j] = s[j]
  BY <1>1, LenProperties, AppendProperties
<1>3. Last(w) = x
  BY <1>2 DEF Last
<1>4. Front(w) = [i \in 1 .. Len(s) |-> w[i]]
  BY <1>2 DEF Front
<1>5. s = [i \in 1 .. Len(s) |-> s[i]]
  OBVIOUS
<1>6. Front(w) = s
  BY <1>2, <1>4, <1>5
<1> QED BY <1>1, <1>2, <1>3, <1>6

LEMMA LinesBelow ==
    ASSUME NEW T, LinePlan(T), NEW w \in DOMAIN T
    PROVE  LineAsk(T[w].ask)
<1> DEFINE S == {m \in Nat : \A u \in DOMAIN T : Len(u) = m => LineAsk(T[u].ask)}
<1>1. IsTree(T) /\ \A u \in DOMAIN T : u \in Seq(Nat)
  BY RootOfLine DEF IsTree
<1>2. 0 \in S
  <2>1. \A u \in DOMAIN T : Len(u) = 0 => u = <<>>
    BY <1>1, EmptySeq
  <2> QED BY <2>1, RootOfLine
<1>3. ASSUME NEW m \in Nat, m \in S PROVE m + 1 \in S
  <2> SUFFICES ASSUME NEW u \in DOMAIN T, Len(u) = m + 1 PROVE LineAsk(T[u].ask)
    OBVIOUS
  <2>1. u \in Seq(Nat) /\ u # <<>>
    BY <1>1, EmptySeq
  <2> DEFINE f == Front(u)
  <2>2. /\ f \in DOMAIN T /\ Last(u) \in 1 .. T[f].kids /\ u = Append(f, Last(u))
        /\ Len(u) = Len(f) + 1 /\ f \in Seq(Nat) /\ Len(f) \in Nat
    BY <1>1, <2>1, FrontLast, LenProperties DEF IsTree
  <2> HIDE DEF f
  <2>3. Len(f) = m
    BY <2>2
  <2>4. LineAsk(T[f].ask)
    BY <1>3, <2>2, <2>3
  <2>5. T[f].kids # 0
    BY <2>2
  <2>6. T[f].kids = 1 /\ LineChild(T[f].ask, T[Append(f, 1)].ask)
    BY <2>2, <2>4, <2>5, OnlyChild
  <2>7. Last(u) = 1
    BY <2>2, <2>6
  <2> QED BY <2>2, <2>6, <2>7 DEF LineChild
<1> HIDE DEF S
<1>4. Len(w) \in Nat /\ \A n \in Nat : n \in S
  BY <1>1, <1>2, <1>3, Induction, LenProperties
<1> QED BY <1>4 DEF S

LEMMA AllMade ==
    ASSUME NEW T, LinePlan(T), NEW w \in DOMAIN T
    PROVE  Made(T, w)
<1> DEFINE v == T[w].ask
           ks == Kids(T, w)
           p == NodeFor(v, ks)
<1>1. LineAsk(v) /\ Selected(T, w)
  BY LinesBelow, RootOfLine
<1>2. p.solver # "NDIM"
  <2> HIDE DEF p, ks
  <2>1. KindOf(v) \in LineKinds
    BY <1>1, LineKind
  <2>2. KindOf(v) \in {"BUFFERED", "BATCHED", "CT"} => DOMAIN ks = {1} /\ ks[1].stretch \in Nat
    <3>1. ASSUME KindOf(v) \in {"BUFFERED", "BATCHED", "CT"}
          PROVE  DOMAIN ks = {1} /\ Append(w, 1) \in DOMAIN T /\ ks[1] = T[Append(w, 1)]
      BY <1>1, <3>1, OnlyChild DEF ks
    <3> QED BY <3>1, NodeRead
  <2>3. KindOf(v) \notin {"BUFFERED", "BATCHED", "CT"} => DOMAIN ks = {}
    BY <1>1, OnlyChild DEF ks
  <2> HIDE DEF v
  <2>4. CASE KindOf(v) = "BUFFERED"
    BY <2>4, BufferedIs DEF p
  <2>5. CASE KindOf(v) = "CTL1D"
    BY <2>5, CTL1DIs DEF p
  <2>6. CASE KindOf(v) = "BATCHED"
    BY <2>2, <2>6, BatchedIs DEF p
  <2>7. CASE KindOf(v) = "CT"
    BY <2>2, <2>7, CTIs DEF p
  <2>8. CASE KindOf(v) \in {"BLUESTEIN", "DIRECT", "REAL_LINE"}
    BY <2>3, <2>8, LeafIs DEF p
  <2> QED BY <2>1, <2>4, <2>5, <2>6, <2>7, <2>8 DEF LineKinds
<1>3. T[w] = p \/ \E u : T[w] = Adjusted(u, p)
  BY <1>1 DEF Selected
<1> HIDE DEF p
<1>4. \A u : Adjusted(u, p) = p
  BY <1>2, Zenon DEF Adjusted, WithConcurrency
<1> QED BY <1>3, <1>4 DEF Made, p

-----------------------------------------------------------------------------
(* Their sizes                                                              *)

LEMMA Padded ==
    ASSUME NEW n \in Nat
    PROVE  Pad(n) \in Nat /\ n <= Pad(n)
<1>1. Align \in Nat \ {0}
  BY KernelsTyped
<1> QED BY <1>1, SMTT(30) DEF Pad

(* A buffered solver touches no more than its slice.                        *)
LEMMA SliceIs ==
    ASSUME NEW v, LineAsk(v), v.buffered
    PROVE  LET f == Fused(v) IN
           /\ Slice(f) \in Nat /\ Slice(f) - Gap(f) + 1 <= Slice(f)
           /\ BufferedSize(f, Slice(f)) \in Nat /\ Slice(f) <= BufferedSize(f, Slice(f))
<1> DEFINE f == Fused(v)
           d == f.dims[1]
           l == f.vecs[1]
           s == Stride(f)
           g == Gap(f)
<1>1. LineAsk(f) /\ Alike(f, v)
  BY FusedAsk
<1>2. f.buffered
  BY <1>1 DEF Alike, AskFields
<1> HIDE DEF f
<1>3. /\ f.dims \in Seq(Loop) /\ Len(f.dims) = 1
      /\ f.vecs \in Seq(Loop) /\ Len(f.vecs) = 1
  BY <1>1, <1>2 DEF LineAsk
<1>4. d \in Loop /\ l \in Loop /\ f.dims = <<d>> /\ f.vecs = <<l>>
  BY <1>3
<1> HIDE DEF d, l
<1>5. d.n \in Nat /\ l.n \in Nat
  BY <1>4 DEF Loop
<1>6. Times(f.dims) = d.n /\ Times(f.vecs) = l.n
  BY <1>4, <1>5, TimesOne
<1>7. s \in Nat \ {0} /\ g \in Nat \ {0}
  BY <1>1, StrideIs
<1>8. Slice(f) = d.n * l.n * s
  BY <1>6 DEF Slice
<1>9. d.n * l.n * s \in Nat
  <2> DEFINE a == d.n
             b == l.n
  <2>1. a \in Nat /\ b \in Nat
    BY <1>5
  <2> HIDE DEF a, b, s
  <2>2. a * b \in Nat
    BY <2>1
  <2> DEFINE c == a * b
  <2>3. c \in Nat
    BY <2>2
  <2> HIDE DEF c
  <2>4. c * s \in Nat
    BY <1>7, <2>3
  <2> QED BY <2>4 DEF a, b, c
<1> HIDE DEF s, g
<1>10. Slice(f) \in Nat
  BY <1>8, <1>9
<1>11. Slice(f) - Gap(f) + 1 <= Slice(f)
  BY <1>7, <1>10 DEF g
<1>12. BufferedSize(f, Slice(f)) \in Nat /\ Slice(f) <= BufferedSize(f, Slice(f))
  BY <1>10, Padded DEF BufferedSize
<1> QED BY <1>10, <1>11, <1>12 DEF f

(* The nodes of a plan by the kinds of solvers.                             *)
Kid(T, w) == T[Append(w, 1)]

IsBuffered(T, w) ==
    /\ KindOf(T[w].ask) = "BUFFERED" /\ T[w].solver = "BUFFERED" /\ T[w].n = 1
    /\ T[w].stretch = T[w].use /\ T[w].stretch <= T[w].ct
    /\ T[w].own = IF T[w].ask.pool THEN 0 ELSE T[w].ct * T[w].act

IsCTL1D(T, w) ==
    /\ KindOf(T[w].ask) = "CTL1D" /\ T[w].solver = "CTL1D" /\ T[w].kids = 0
    /\ T[w].stretch = T[w].use /\ T[w].stretch <= T[w].ct
    /\ T[w].own = IF T[w].ask.pool THEN 0 ELSE T[w].ct * T[w].act

IsBatched(T, w) ==
    /\ KindOf(T[w].ask) = "BATCHED" /\ T[w].solver \in {"BATCHED", "MT_BATCHED"}
    /\ T[w].ct = T[w].n * Kid(T, w).ct /\ T[w].own = 0
    /\ Kid(T, w).ask.act = T[w].act * T[w].n
    /\ T[w].stretch = IF T[w].n = 1 THEN Kid(T, w).stretch
                      ELSE IF Kid(T, w).stretch = 0 THEN 0
                      ELSE (T[w].n - 1) * Kid(T, w).ct + Kid(T, w).stretch

IsCT(T, w) ==
    /\ KindOf(T[w].ask) = "CT" /\ T[w].solver = "CT" /\ T[w].n = 1
    /\ T[w].ct = Kid(T, w).ct /\ T[w].own = 0
    /\ Kid(T, w).ask.act = T[w].act
    /\ T[w].stretch = Kid(T, w).stretch

IsLeaf(T, w) ==
    /\ T[w].solver \notin {"BUFFERED", "CTL1D"} /\ T[w].kids = 0
    /\ T[w].own = 0 /\ T[w].stretch = 0

HasChild(T, w) ==
    /\ T[w].kids = 1 /\ Append(w, 1) \in DOMAIN T
    /\ LineChild(T[w].ask, Kid(T, w).ask)

LEMMA NodeCases ==
    ASSUME NEW T, LinePlan(T), NEW w \in DOMAIN T
    PROVE  /\ LineAsk(T[w].ask) /\ T[w].act = T[w].ask.act /\ T[w].parts = 1
           /\ \/ IsBuffered(T, w) /\ HasChild(T, w)
              \/ IsCTL1D(T, w)
              \/ IsBatched(T, w) /\ HasChild(T, w)
              \/ IsCT(T, w) /\ HasChild(T, w)
              \/ IsLeaf(T, w)
<1> DEFINE v == T[w].ask
           ks == Kids(T, w)
           k == Kid(T, w)
<1>1. LineAsk(v) /\ T[w] = NodeFor(v, ks) /\ KindOf(v) \in LineKinds
  BY LinesBelow, AllMade, LineKind DEF Made
<1>2. ASSUME KindOf(v) \in {"BUFFERED", "BATCHED", "CT"}
      PROVE  HasChild(T, w) /\ DOMAIN ks = {1} /\ ks[1] = k /\ ks[1].stretch \in Nat
  <2>1. /\ T[w].kids = 1 /\ Append(w, 1) \in DOMAIN T
        /\ LineChild(v, k.ask)
        /\ DOMAIN ks = {1} /\ ks[1] = k
    BY <1>1, <1>2, OnlyChild DEF Kid
  <2> QED BY <2>1, NodeRead DEF HasChild, Kid
<1>3. KindOf(v) \notin {"BUFFERED", "BATCHED", "CT"} => DOMAIN ks = {} /\ T[w].kids = 0
  BY <1>1, OnlyChild
<1> HIDE DEF ks, k
<1>4. CASE KindOf(v) = "BUFFERED"
  <2> DEFINE f == Fused(v)
             p == T[w]
  <2>1. /\ Common(p, v, ks) /\ p.solver = "BUFFERED" /\ p.n = 1
        /\ p.ct = BufferedSize(f, Slice(f))
        /\ p.use = Slice(f) - Gap(f) + 1 /\ p.stretch = p.use
        /\ p.own = IF v.pool THEN 0 ELSE p.ct * p.act
    <3> HIDE DEF f
    <3> QED BY <1>1, <1>4, BufferedIs DEF f
  <2>2. v.buffered
    BY <1>1, <1>4, LineKind
  <2>3. /\ Slice(f) \in Nat /\ Slice(f) - Gap(f) + 1 <= Slice(f)
        /\ BufferedSize(f, Slice(f)) \in Nat /\ Slice(f) <= BufferedSize(f, Slice(f))
    BY <1>1, <2>2, SliceIs
  <2>4. p.use \in Nat
    BY NodeRead
  <2> HIDE DEF f
  <2>5. p.use <= p.ct
    <3> DEFINE a == Slice(f)
               b == p.use
               c == p.ct
    <3>1. a \in Nat /\ b \in Nat /\ c \in Nat /\ b <= a /\ a <= c
      BY <2>1, <2>3, <2>4
    <3> HIDE DEF a, b, c
    <3>2. b <= c
      BY <3>1
    <3> QED BY <3>2 DEF b, c
  <2>6. IsBuffered(T, w)
    BY <1>4, <2>1, <2>5 DEF IsBuffered
  <2> QED BY <1>1, <1>2, <1>4, <2>1, <2>6 DEF Common
<1>5. CASE KindOf(v) = "CTL1D"
  <2> DEFINE n == v.dims[1].n
             p == T[w]
  <2>1. /\ p.act = v.act /\ p.parts = 1 /\ p.kids = 0
        /\ p.solver = "CTL1D"
        /\ p.ct = (IF v.pool THEN n ELSE Pad(n))
        /\ p.use = n /\ p.stretch = p.use
        /\ p.own = IF v.pool THEN 0 ELSE p.ct * p.act
    <3> HIDE DEF n
    <3> QED BY <1>1, <1>5, CTL1DIs DEF n
  <2>2. n \in Nat
    BY <2>1, NodeRead
  <2> HIDE DEF n
  <2>3. p.stretch <= p.ct
    BY <2>1, <2>2, Padded
  <2>4. IsCTL1D(T, w)
    BY <1>5, <2>1, <2>3 DEF IsCTL1D
  <2> QED BY <1>1, <2>1, <2>4
<1>6. CASE KindOf(v) = "BATCHED"
  <2> DEFINE n == NThreads(Unwound(Fused(v)))
             p == T[w]
             s == ks[1].stretch
  <2>1. HasChild(T, w) /\ DOMAIN ks = {1} /\ ks[1] = k /\ s \in Nat
    BY <1>2, <1>6
  <2>2. /\ Common(p, v, ks) /\ p.n = n
        /\ p.solver = IF n = 1 THEN "BATCHED" ELSE "MT_BATCHED"
        /\ p.ct = n * ks[1].ct /\ p.own = 0
        /\ p.stretch = IF n = 1 THEN s ELSE IF s = 0 THEN 0 ELSE (n - 1) * ks[1].ct + s
    <3> HIDE DEF n
    <3> QED BY <1>1, <1>6, <2>1, BatchedIs DEF n
  <2>3. k.ask.act = v.act * n
    BY <1>6, <2>1 DEF HasChild, LineChild, k
  <2> HIDE DEF n
  <2>4. IsBatched(T, w)
    BY <1>6, <2>1, <2>2, <2>3 DEF IsBatched, Common, k
  <2> QED BY <1>1, <2>1, <2>2, <2>4 DEF Common
<1>7. CASE KindOf(v) = "CT"
  <2> DEFINE p == T[w]
  <2>1. HasChild(T, w) /\ DOMAIN ks = {1} /\ ks[1] = k /\ ks[1].stretch \in Nat
    BY <1>2, <1>7
  <2>2. /\ Common(p, v, ks) /\ p.n = 1 /\ p.solver = "CT"
        /\ p.ct = ks[1].ct /\ p.own = 0 /\ p.stretch = ks[1].stretch
    BY <1>1, <1>7, <2>1, CTIs
  <2>3. k.ask.act = v.act
    BY <1>7, <2>1 DEF HasChild, LineChild, k
  <2>4. IsCT(T, w)
    BY <1>7, <2>1, <2>2, <2>3 DEF IsCT, Common, k
  <2> QED BY <1>1, <2>1, <2>2, <2>4 DEF Common
<1>8. CASE KindOf(v) \in {"BLUESTEIN", "DIRECT", "REAL_LINE"}
  <2> DEFINE p == T[w]
  <2>1. DOMAIN ks = {} /\ p.kids = 0
    BY <1>3, <1>8
  <2>2. /\ Common(p, v, ks) /\ p.solver = KindOf(v) /\ p.own = 0 /\ p.stretch = 0
    BY <1>1, <1>8, <2>1, LeafIs
  <2>3. IsLeaf(T, w)
    BY <1>8, <2>1, <2>2 DEF IsLeaf
  <2> QED BY <1>1, <2>2, <2>3 DEF Common
<1> QED BY <1>1, <1>4, <1>5, <1>6, <1>7, <1>8 DEF LineKinds

(* A node that owns a pool is no longer than the pool that is allocated.    *)
LEMMA OwnerLongest ==
    ASSUME NEW T, LinePlan(T), NEW w \in DOMAIN T, T[w].own > 0
    PROVE  T[w].own <= LengthOf(T)
<1> DEFINE S == Owners(T)
           f == [u \in S |-> Reported(T[u])]
           o == Owner(T)
<1>1. \A u \in S : u \in DOMAIN T /\ T[u].own > 0
  BY DEF Owners
<1>2. IsFiniteSet(S) /\ w \in S
  <2>1. IsFiniteSet(DOMAIN T) /\ S \subseteq DOMAIN T
    BY RootOfLine DEF IsTree, Owners
  <2> QED BY <2>1, FS_Subset DEF Owners
<1>3. ASSUME NEW u \in S
      PROVE  Reported(T[u]) \in Nat /\ Reported(T[u]) = T[u].own
  <2> DEFINE a == T[u].act
             c == T[u].ct
             own == T[u].own
  <2>1. u \in DOMAIN T /\ own > 0
    BY <1>1
  <2>2. a \in Nat /\ c \in Nat /\ T[u].parts = 1
    BY <2>1, NodeRead, NodeCases
  <2>3. own # 0
    BY <2>1
  <2>4. own = c * a
    BY <2>1, <2>3, NodeCases DEF IsBuffered, IsCTL1D, IsBatched, IsCT, IsLeaf
  <2>5. Reported(T[u]) = a * c * 1
    BY <2>2 DEF Reported
  <2> HIDE DEF a, c, own
  <2>6. a * c * 1 = c * a /\ c * a \in Nat
    BY <2>2
  <2> QED BY <2>4, <2>5, <2>6 DEF own
<1> HIDE DEF S
<1>4. f \in [S -> Nat]
  BY <1>3
<1>5. PICK x \in S : \A y \in S : f[y] <= f[x]
  <2> HIDE DEF f
  <2> QED BY <1>2, <1>4, Greatest
<1>6. x \in S /\ \A y \in S : Reported(T[y]) <= Reported(T[x])
  BY <1>5
<1>7. o \in S /\ \A y \in S : Reported(T[y]) <= Reported(T[o])
  BY <1>6, Zenon DEF Owner, S
<1>8. LengthOf(T) = T[o].own
  BY <1>2, Zenon DEF LengthOf, S
<1> QED BY <1>2, <1>3, <1>7, <1>8

(* A node's stretch lies in its part, and the parts of every instance of a  *)
(* node that works in no other node's pool lie in the pool.                 *)
Sized(T, w) ==
    /\ T[w].stretch <= T[w].ct
    /\ T[w].stretch > 0 /\ T[w].ask.pool = FALSE => T[w].ct * T[w].act <= LengthOf(T)

LEMMA OwnSized ==
    ASSUME NEW T, LinePlan(T), NEW w \in DOMAIN T, T[w].stretch <= T[w].ct,
           T[w].own = IF T[w].ask.pool THEN 0 ELSE T[w].ct * T[w].act
    PROVE  Sized(T, w)
<1> SUFFICES ASSUME T[w].stretch > 0, T[w].ask.pool = FALSE
             PROVE  T[w].ct * T[w].act <= LengthOf(T)
  BY DEF Sized
<1> DEFINE a == T[w].act
           c == T[w].ct
           s == T[w].stretch
<1>1. a \in Nat \ {0} /\ c \in Nat /\ s \in Nat /\ s > 0 /\ s <= c
  BY NodeRead
<1>2. T[w].own = c * a
  OBVIOUS
<1> HIDE DEF a, c, s
<1>3. c * a > 0
  BY <1>1, SMTT(30)
<1> QED BY <1>2, <1>3, OwnerLongest DEF a, c

LEMMA SizedFromChild ==
    ASSUME NEW T, LinePlan(T), NEW w \in DOMAIN T, HasChild(T, w), Sized(T, Append(w, 1)),
           IsBatched(T, w) \/ IsCT(T, w)
    PROVE  Sized(T, w)
<1> DEFINE k == Kid(T, w)
           n == T[w].n
           a == T[w].act
           c == k.ct
           s == k.stretch
<1>1. /\ Append(w, 1) \in DOMAIN T /\ k = T[Append(w, 1)]
  BY DEF HasChild, Kid
<1>2. n \in Nat \ {0} /\ a \in Nat \ {0} /\ c \in Nat /\ s \in Nat
  BY <1>1, NodeRead
<1>3. k.act = k.ask.act
  BY <1>1, NodeCases
<1>4. s <= c /\ (s > 0 /\ k.ask.pool = FALSE => c * k.act <= LengthOf(T))
  BY <1>1 DEF Sized
<1>5. CASE IsBatched(T, w)
  <2>1. /\ T[w].ct = n * c /\ k.act = a * n
        /\ T[w].stretch = IF n = 1 THEN s ELSE IF s = 0 THEN 0 ELSE (n - 1) * c + s
    BY <1>3, <1>5 DEF IsBatched
  <2>2. k.ask.pool = T[w].ask.pool
    BY <1>5 DEF IsBatched, HasChild, LineChild
  <2> HIDE DEF k, n, a, c, s
  <2>3. n * c = (n - 1) * c + c /\ (n - 1) * c \in Nat /\ (n = 1 => n * c = c) /\ n * c \in Nat
    BY <1>2, SMTT(30)
  <2>4. T[w].stretch <= T[w].ct /\ (T[w].stretch > 0 => s > 0)
    <3> DEFINE m == (n - 1) * c
               x == n * c
    <3>1. m \in Nat /\ x \in Nat /\ x = m + c /\ (n = 1 => x = c)
      BY <2>3
    <3>2. T[w].ct = x /\ T[w].stretch = IF n = 1 THEN s ELSE IF s = 0 THEN 0 ELSE m + s
      BY <2>1
    <3> HIDE DEF m, x
    <3> QED BY <1>2, <1>4, <3>1, <3>2
  <2>5. T[w].ct * a = c * k.act
    <3>1. (n * c) * a = c * (a * n)
      BY <1>2, SMTT(30)
    <3> QED BY <2>1, <3>1
  <2> QED BY <1>4, <2>2, <2>4, <2>5 DEF Sized, a
<1>6. CASE IsCT(T, w)
  <2>1. T[w].ct = c /\ k.act = a /\ T[w].stretch = s
    BY <1>3, <1>6 DEF IsCT
  <2>2. k.ask.pool = T[w].ask.pool
    BY <1>6 DEF IsCT, HasChild, LineChild
  <2> QED BY <1>4, <2>1, <2>2 DEF Sized
<1> QED BY <1>5, <1>6

LEMMA AllSized ==
    ASSUME NEW T, LinePlan(T), NEW w \in DOMAIN T
    PROVE  Sized(T, w)
<1> DEFINE N == Cardinality(DOMAIN T)
           S == {m \in Nat : \A u \in DOMAIN T : N <= Len(u) + m => Sized(T, u)}
<1>1. /\ N \in Nat
      /\ \A u \in DOMAIN T : Len(u) \in Nat /\ Len(u) < N /\ u \in Seq(Nat)
  <2>1. IsTree(T)
    BY RootOfLine
  <2> QED BY <2>1, FS_CardinalityType, LenProperties DEF IsTree
<1> HIDE DEF N
<1>2. 0 \in S
  BY <1>1
<1>3. ASSUME NEW m \in Nat, m \in S PROVE m + 1 \in S
  <2> SUFFICES ASSUME NEW u \in DOMAIN T, N <= Len(u) + (m + 1) PROVE Sized(T, u)
    OBVIOUS
  <2>1. ASSUME HasChild(T, u) PROVE Sized(T, Append(u, 1))
    <3>1. Append(u, 1) \in DOMAIN T /\ Len(Append(u, 1)) = Len(u) + 1
      BY <1>1, <2>1, AppendProperties DEF HasChild
    <3>2. N <= Len(Append(u, 1)) + m
      BY <1>1, <3>1
    <3> QED BY <1>3, <3>1, <3>2
  <2>2. CASE IsBuffered(T, u)
    BY <2>2, OwnSized DEF IsBuffered
  <2>3. CASE IsCTL1D(T, u)
    BY <2>3, OwnSized DEF IsCTL1D
  <2>4. CASE (IsBatched(T, u) \/ IsCT(T, u)) /\ HasChild(T, u)
    BY <2>1, <2>4, SizedFromChild
  <2>5. CASE IsLeaf(T, u)
    <3>1. T[u].ct \in Nat
      BY NodeRead
    <3> QED BY <2>5, <3>1 DEF IsLeaf, Sized
  <2> QED BY <2>2, <2>3, <2>4, <2>5, NodeCases
<1> HIDE DEF S
<1>4. N \in S
  BY <1>1, <1>2, <1>3, Induction
<1>5. N <= Len(w) + N
  BY <1>1
<1> QED BY <1>4, <1>5 DEF S

(* The pool is as long as the plan needs.                                   *)
LEMMA RootFits ==
    ASSUME NEW T, LinePlan(T)
    PROVE  T[<<>>].stretch <= LengthOf(T)
<1> DEFINE r == T[<<>>]
<1>1. <<>> \in DOMAIN T /\ r.ask.pool = FALSE /\ r.ask.act = 1
  BY RootOfLine DEF IsTree
<1>2. r.act = 1 /\ r.ct \in Nat /\ r.stretch \in Nat /\ Sized(T, <<>>)
  BY <1>1, NodeCases, NodeRead, AllSized
<1>3. CASE r.stretch > 0
  <2>1. r.ct * r.act <= LengthOf(T) /\ r.stretch <= r.ct
    BY <1>1, <1>2, <1>3 DEF Sized
  <2>2. r.ct * r.act = r.ct
    BY <1>2
  <2>3. LengthOf(T) \in Int
    BY DEF LinePlan, PlanType, Layout
  <2> QED BY <1>2, <2>1, <2>2, <2>3
<1>4. CASE r.stretch = 0
  <2>1. LengthOf(T) \in Nat
    BY DEF LinePlan, PlanType, Layout
  <2> QED BY <1>4, <2>1
<1> QED BY <1>2, <1>3, <1>4

(* A node and its child agree.                                              *)
LEMMA ChildrenFit ==
    ASSUME NEW T, LinePlan(T), NEW w \in DOMAIN T, NEW c \in 1 .. T[w].kids
    PROVE  /\ c = 1 /\ HasChild(T, w)
           /\ ChildFits(Read(T[w]), Read(T[Append(w, c)]))
<1>1. T[w].kids # 0
  OBVIOUS
<1>2. HasChild(T, w) /\ (IsBuffered(T, w) \/ IsBatched(T, w) \/ IsCT(T, w))
  BY <1>1, NodeCases DEF IsCTL1D, IsLeaf
<1>3. c = 1
  BY <1>2 DEF HasChild
<1> DEFINE p == T[w]
           k == Kid(T, w)
           x == k.ct
           s == k.stretch
<1>4. /\ Append(w, 1) \in DOMAIN T /\ k = T[Append(w, 1)] /\ k.act = k.ask.act
      /\ p.act = p.ask.act
  BY <1>2, NodeCases DEF HasChild, Kid
<1>5. /\ p.n \in Nat \ {0} /\ p.act \in Nat /\ x \in Nat /\ s \in Nat /\ p.stretch \in Nat
      /\ s <= x
  BY <1>4, NodeRead, AllSized DEF Sized
<1>6. /\ p.act * p.n <= k.act
      /\ p.solver # "BUFFERED" => (p.n - 1) * x + s <= p.stretch \/ s = 0
  <2>1. CASE IsBuffered(T, w)
    <3>1. p.n = 1 /\ k.act = p.act /\ p.solver = "BUFFERED"
      BY <1>2, <1>4, <2>1 DEF IsBuffered, HasChild, LineChild
    <3> QED BY <1>5, <3>1
  <2>2. CASE IsCT(T, w)
    <3>1. p.n = 1 /\ k.act = p.act /\ p.stretch = s
      BY <1>4, <2>2 DEF IsCT
    <3> HIDE DEF x, s
    <3>2. (p.n - 1) * x + s = s
      BY <1>5, <3>1
    <3> QED BY <1>5, <3>1, <3>2
  <2>3. CASE IsBatched(T, w)
    <3>1. k.act = p.act * p.n
      BY <1>4, <2>3 DEF IsBatched
    <3>2. p.stretch = IF p.n = 1 THEN s ELSE IF s = 0 THEN 0 ELSE (p.n - 1) * x + s
      BY <2>3 DEF IsBatched
    <3> HIDE DEF x, s
    <3>3. p.act * p.n \in Nat /\ (p.n = 1 => (p.n - 1) * x + s = s)
      BY <1>5, SMTT(30)
    <3>4. (p.n - 1) * x + s \in Nat
      BY <1>5, SMTT(30)
    <3> QED BY <1>5, <3>1, <3>2, <3>3, <3>4
  <2> QED BY <1>2, <2>1, <2>2, <2>3
<1>7. /\ Read(p).n = p.n /\ Read(p).act = p.act /\ Read(p).stretch = p.stretch
      /\ Read(p).solver = p.solver
      /\ Read(k).ct = x /\ Read(k).act = k.act /\ Read(k).stretch = s
  BY DEF Read
<1> HIDE DEF p, k, x, s
<1>8. ChildFits(Read(p), Read(k))
  BY <1>5, <1>6, <1>7 DEF ChildFits
<1> QED BY <1>2, <1>3, <1>4, <1>8 DEF p

-----------------------------------------------------------------------------
(* Their runs                                                               *)

(* r is a plan setup may build for a problem of one dimension.              *)
PlannedLine(r) ==
    \E p \in Problems : \E T : PlanOf(T, p) /\ Len(p.dims) = 1 /\ r = Layout(T)

(* Of the problems a plan is for: whatever works in a slice has nothing     *)
(* below it that takes one.                                                 *)
QuietBelow(T, w) == runs[w].out = "scratch" => Quiet(T[Children(w)].ask)

Calm == \A T : LinePlan(T) /\ root = Layout(T) => \A w \in DOMAIN runs : QuietBelow(T, w)

LEMMA NodeOf ==
    ASSUME NEW T, LinePlan(T), root = Layout(T), CallStack, NEW w \in DOMAIN runs
    PROVE  /\ Children(w) \in DOMAIN T /\ Node(w) = Read(T[Children(w)])
           /\ \A c \in 1 .. Node(w).kids :
                /\ c \in 1 .. T[Children(w)].kids
                /\ Append(Children(w), c) \in DOMAIN T
                /\ Child(w, c) = Read(T[Append(Children(w), c)])
<1>1. root.node = [x \in DOMAIN T |-> Read(T[x])]
  BY DEF Layout
<1>2. Children(w) \in DOMAIN T
  BY <1>1 DEF CallStack, OnStack
<1>3. Node(w) = Read(T[Children(w)])
  BY <1>1, <1>2 DEF Node
<1>4. Node(w).kids = T[Children(w)].kids
  BY <1>3 DEF Read
<1>5. \A c \in 1 .. Node(w).kids : Append(Children(w), c) \in DOMAIN T
  BY <1>1, NodesTyped
<1> QED BY <1>1, <1>2, <1>3, <1>4, <1>5 DEF Child

(* A buffered solver is what a plan has for an ask to buffer.               *)
LEMMA BufferedAsked ==
    ASSUME NEW T, LinePlan(T), NEW w \in DOMAIN T, T[w].solver = "BUFFERED"
    PROVE  KindOf(T[w].ask) = "BUFFERED" /\ ~ Quiet(T[w].ask)
<1>1. LineAsk(T[w].ask) /\ IsBuffered(T, w)
  BY NodeCases DEF IsCTL1D, IsBatched, IsCT, IsLeaf
<1>2. KindOf(T[w].ask) = "BUFFERED"
  BY <1>1 DEF IsBuffered
<1>3. T[w].ask.buffered
  BY <1>1, <1>2, LineKind
<1> QED BY <1>2, <1>3 DEF Quiet

LEMMA CalmStart == Init => Calm
  BY DEF Init, Calm, QuietBelow

LEMMA CalmStep == CallStack /\ Calm /\ [Next]_vars => Calm'
<1> SUFFICES ASSUME CallStack, Calm, [Next]_vars, NEW T, LinePlan(T), root' = Layout(T),
                    NEW u \in DOMAIN runs', runs'[u].out = "scratch"
             PROVE  Quiet(T[Children(u)].ask)
  BY DEF Calm, QuietBelow
<1>1. CASE UNCHANGED vars
  BY <1>1 DEF vars, Calm, QuietBelow
<1>2. ASSUME NEW w \in DOMAIN runs, Call(w) PROVE Quiet(T[Children(u)].ask)
  <2>1. /\ root' = root /\ runs[w].step + 1 \in 1 .. Node(w).kids
        /\ runs'[w] = [runs[w] EXCEPT !.step = runs[w].step + 1]
        /\ \A x \in DOMAIN runs : x # w => runs'[x] = runs[x]
        /\ \A x \in DOMAIN runs' \ DOMAIN runs : \E t \in 0 .. Node(w).n - 1 : Begun(x, w, t)
    BY <1>2, CallEffect
  <2>2. root = Layout(T) /\ \A x \in DOMAIN runs : QuietBelow(T, x)
    BY <2>1 DEF Calm
  <2>3. CASE u \in DOMAIN runs
    <3>1. runs[w] \in RunType
      BY DEF CallStack, OnStack
    <3>2. runs'[u].out = runs[u].out
      BY <2>1, <2>3, <3>1 DEF RunType
    <3> QED BY <2>2, <2>3, <3>2 DEF QuietBelow
  <2>4. CASE u \notin DOMAIN runs
    <3> DEFINE c == runs[w].step + 1
               x == Children(w)
    <3>1. PICK t \in 0 .. Node(w).n - 1 : Begun(u, w, t)
      BY <2>1, <2>4
    <3>2. /\ Children(u) = Append(x, c)
          /\ runs'[u].out = IF Node(w).solver = "BUFFERED" THEN "scratch" ELSE runs[w].out
      BY <2>1, <3>1, BegunRun
    <3>3. x \in DOMAIN T /\ Node(w) = Read(T[x]) /\ c \in 1 .. T[x].kids
      BY <2>1, <2>2, NodeOf
    <3> HIDE DEF c, x
    <3>4. c = 1 /\ HasChild(T, x)
      BY <3>3, ChildrenFit
    <3>5. LineChild(T[x].ask, T[Children(u)].ask)
      BY <3>2, <3>4 DEF HasChild, Kid
    <3>6. CASE Node(w).solver = "BUFFERED"
      <4>1. KindOf(T[x].ask) = "BUFFERED"
        BY <3>3, <3>6, BufferedAsked DEF Read
      <4> QED BY <3>5, <4>1 DEF LineChild
    <3>7. CASE Node(w).solver # "BUFFERED"
      <4>1. Quiet(T[x].ask)
        BY <2>2, <3>2, <3>7 DEF QuietBelow, x
      <4> QED BY <3>5, <4>1 DEF LineChild
    <3> QED BY <3>6, <3>7
  <2> QED BY <2>3, <2>4
<1>3. ASSUME NEW w \in DOMAIN runs, Return(w) PROVE Quiet(T[Children(u)].ask)
  <2>1. root' = root /\ DOMAIN runs' = DOMAIN runs \ {w} /\ \A x \in DOMAIN runs' : runs'[x] = runs[x]
    BY <1>3, ReturnEffect
  <2>2. QuietBelow(T, u) /\ runs[u].out = "scratch"
    BY <2>1 DEF Calm
  <2> QED BY <2>2 DEF QuietBelow
<1> QED BY <1>1, <1>2, <1>3 DEF Next, Done

LEMMA LinesSized ==
    ASSUME \A r \in Roots : PlannedLine(r), CallStack, Calm
    PROVE  SizesFit
<1>1. PICK T : LinePlan(T) /\ root = Layout(T)
  <2>1. root \in Roots /\ PlannedLine(root)
    BY DEF CallStack
  <2>2. PICK p \in Problems : \E T : PlanOf(T, p) /\ Len(p.dims) = 1 /\ root = Layout(T)
    BY <2>1 DEF PlannedLine
  <2>4. PICK T : PlanOf(T, p) /\ Len(p.dims) = 1 /\ root = Layout(T)
    BY <2>2
  <2>3. PlanType(Layout(T))
    BY <2>1, <2>4, PlansTyped
  <2> QED BY <2>3, <2>4 DEF LinePlan
<1>2. root.node[<<>>].stretch <= root.length
  <2>1. <<>> \in DOMAIN T
    BY <1>1, RootOfLine DEF IsTree
  <2>2. root.node[<<>>].stretch = T[<<>>].stretch /\ root.length = LengthOf(T)
    BY <1>1, <2>1 DEF Layout, Read
  <2> QED BY <1>1, <2>2, RootFits
<1>3. ASSUME NEW w \in DOMAIN runs PROVE Fits(w)
  <2> DEFINE x == Children(w)
             p == Node(w)
             kids == {Child(w, c) : c \in 1 .. p.kids}
  <2>1. x \in DOMAIN T /\ p = Read(T[x])
    BY <1>1, NodeOf
  <2> HIDE DEF x
  <2>2. ASSUME NEW y \in DOMAIN T
        PROVE  LET q == Read(T[y]) IN
               /\ q.solver \in {"BUFFERED", "CTL1D"} => q.use <= q.stretch
               /\ Quiet(T[y].ask) => q.solver # "BUFFERED"
    <3>1. T[y].use \in Nat /\ T[y].stretch \in Nat
      BY <1>1, NodeRead
    <3>2. T[y].solver \in {"BUFFERED", "CTL1D"} => T[y].stretch = T[y].use
      BY <1>1, NodeCases DEF IsBuffered, IsCTL1D, IsBatched, IsCT, IsLeaf
    <3>3. Quiet(T[y].ask) => T[y].solver # "BUFFERED"
      BY <1>1, BufferedAsked
    <3> QED BY <3>1, <3>2, <3>3 DEF Read
  <2>3. ASSUME NEW k \in kids
        PROVE  /\ ChildFits(p, k)
               /\ k.solver \in {"BUFFERED", "CTL1D"} => k.use <= k.stretch
               /\ Quiet(T[x].ask) => k.solver # "BUFFERED"
    <3>1. PICK c \in 1 .. p.kids : k = Child(w, c)
      OBVIOUS
    <3> DEFINE y == Append(x, c)
    <3>2. c \in 1 .. T[x].kids /\ y \in DOMAIN T /\ k = Read(T[y])
      BY <1>1, <3>1, NodeOf DEF x
    <3>3. c = 1 /\ HasChild(T, x) /\ ChildFits(Read(T[x]), Read(T[y]))
      BY <1>1, <2>1, <3>2, ChildrenFit
    <3>4. Quiet(T[x].ask) => Quiet(T[y].ask)
      BY <3>3 DEF HasChild, Kid, LineChild
    <3> QED BY <2>1, <2>2, <3>2, <3>3, <3>4
  <2>4. runs[w].out = "scratch" => Quiet(T[x].ask)
    BY <1>1 DEF Calm, QuietBelow, x
  <2>5. /\ p.solver \in {"BUFFERED", "CTL1D"} => p.use <= p.stretch
        /\ Quiet(T[x].ask) => p.solver # "BUFFERED"
    BY <2>1, <2>2
  <2> HIDE DEF p
  <2> QED BY <2>3, <2>4, <2>5 DEF Fits, p
<1> QED BY <1>2, <1>3 DEF SizesFit

(* The sizes setup gives the plans of problems of one dimension, complex or *)
(* real, in any number of batch loops, agree with one another and with the  *)
(* pool (selector_batched_dft, setup_buffered_solver, the total of          *)
(* compute_exec_metadata).                                                  *)
THEOREM LinesFit ==
    ASSUME \A r \in Roots : PlannedLine(r)
    PROVE  Spec => []SizesFit
<1>1. CallStack /\ Calm => SizesFit
  BY LinesSized
<1> QED BY <1>1, StackStarts, StackStep, CalmStart, CalmStep, PTL DEF Spec

(* ... so their solvers never share scratch memory, and none leaves it.     *)
COROLLARY LinesApart ==
    ASSUME \A r \in Roots : PlannedLine(r)
    PROVE  Spec => [](Apart /\ InPool)
  BY LinesFit, RunsApart, RunsInPool, PTL
=============================================================================
